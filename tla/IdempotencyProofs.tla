------------------------- MODULE IdempotencyProofs -------------------------
(***************************************************************************)
(* Theorems about the idempotency interceptor, for any number of requests  *)
(* and instances and any times.                                             *)
(***************************************************************************)
EXTENDS Idempotency, SequenceTheorems, TLAPS

-----------------------------------------------------------------------------
(* The wire: a command that is lost leaves the others in their order. *)
Sent == Reqs \X Calls

LEMMA Removing ==
  ASSUME NEW S, NEW w \in Seq(S), NEW k \in DOMAIN w
  PROVE  /\ RemoveAt(w, k) \in Seq(S)
         /\ Len(RemoveAt(w, k)) = Len(w) - 1
         /\ \A j \in 1..Len(w) - 1 :
              RemoveAt(w, k)[j] = w[IF j < k THEN j ELSE j + 1]
<1> DEFINE a == SubSeq(w, 1, k - 1)
           b == SubSeq(w, k + 1, Len(w))
<1>1. /\ a \in Seq(S) /\ Len(a) = k - 1
      /\ \A j \in 1..k - 1 : a[j] = w[j]
  OBVIOUS
<1>2. /\ b \in Seq(S) /\ Len(b) = Len(w) - k
      /\ \A j \in 1..Len(w) - k : b[j] = w[j + k]
  OBVIOUS
<1>3. /\ a \o b \in Seq(S) /\ Len(a \o b) = Len(w) - 1
      /\ \A j \in 1..Len(w) - 1 :
           (a \o b)[j] = IF j <= k - 1 THEN a[j] ELSE b[j - (k - 1)]
  <2> HIDE DEF a, b
  <2>1. /\ a \o b \in Seq(S) /\ Len(a \o b) = Len(a) + Len(b)
        /\ \A j \in 1..Len(a) + Len(b) :
             (a \o b)[j] = IF j <= Len(a) THEN a[j] ELSE b[j - Len(a)]
    BY <1>1, <1>2, ConcatProperties
  <2>2. Len(a) + Len(b) = Len(w) - 1
    BY <1>1, <1>2
  <2> QED
    BY <1>1, <2>1, <2>2
<1> HIDE DEF a, b
<1>4. \A j \in 1..Len(w) - 1 :
        (a \o b)[j] = w[IF j < k THEN j ELSE j + 1]
  <2> TAKE j \in 1..Len(w) - 1
  <2>1. CASE j < k
    BY <1>1, <1>3, <2>1
  <2>2. CASE ~(j < k)
    <3>1. j - (k - 1) \in 1..Len(w) - k /\ (j - (k - 1)) + k = j + 1
      BY <2>2
    <3> QED
      BY <1>2, <1>3, <2>2, <3>1
  <2> QED
    BY <2>1, <2>2
<1> QED
  BY <1>3, <1>4 DEF RemoveAt, a, b

(* Queue q is w with an occurrence of c removed, or w: its j-th command was  *)
(* the up[j]-th.                                                             *)
Keeps(up, q, w, c) ==
  /\ up \in [DOMAIN q -> DOMAIN w]
  /\ \A j \in DOMAIN q : q[j] = w[up[j]]
  /\ \A j, k \in DOMAIN q : j < k => up[j] < up[k]
  /\ \A k \in DOMAIN w : w[k] = c \/ \E j \in DOMAIN q : up[j] = k

(* What is left of the wire of r's instance when its call ends. *)
Left(q, r) == q \in Seq(Sent) /\ \E up : Keeps(up, q, wire[At[r]], <<r, pc[r]>>)

LEMMA LeftAfter ==
  ASSUME TypeOK, NEW r \in Reqs
  PROVE  /\ Left(wire[At[r]], r)
         /\ \A k \in DOMAIN wire[At[r]] : wire[At[r]][k] = <<r, pc[r]>> =>
              Left(RemoveAt(wire[At[r]], k), r)
<1> DEFINE w == wire[At[r]]
<1>1. w \in Seq(Sent)
  BY AtAssumption DEF TypeOK, Sent
<1> HIDE DEF w
<1>2. Left(w, r)
  <2> DEFINE up == [j \in DOMAIN w |-> j]
  <2>1. up \in [DOMAIN w -> DOMAIN w] /\ \A j \in DOMAIN w : up[j] = j
    OBVIOUS
  <2> HIDE DEF up
  <2>2. Keeps(up, w, w, <<r, pc[r]>>)
    BY <1>1, <2>1 DEF Keeps
  <2> QED
    BY <1>1, <2>2 DEF Left, w
<1>4. \A k \in DOMAIN w : w[k] = <<r, pc[r]>> => Left(RemoveAt(w, k), r)
  <2> SUFFICES ASSUME NEW k \in DOMAIN w, w[k] = <<r, pc[r]>>
               PROVE  Left(RemoveAt(w, k), r)
    OBVIOUS
  <2> DEFINE v  == RemoveAt(w, k)
             up == [j \in 1..Len(w) - 1 |-> IF j < k THEN j ELSE j + 1]
  <2>1. /\ v \in Seq(Sent) /\ Len(v) = Len(w) - 1
        /\ \A j \in 1..Len(w) - 1 : v[j] = w[IF j < k THEN j ELSE j + 1]
    BY <1>1, Removing
  <2> HIDE DEF v
  <2>2. \A j \in 1..Len(w) - 1 : (IF j < k THEN j ELSE j + 1) \in DOMAIN w
    BY <1>1
  <2>3. DOMAIN v = 1..Len(w) - 1
    BY <1>1, <2>1
  <2>4. /\ up \in [DOMAIN v -> DOMAIN w]
        /\ \A j \in DOMAIN v : up[j] = (IF j < k THEN j ELSE j + 1) /\ j \in Int
    BY <2>2, <2>3
  <2> HIDE DEF up
  <2>5. \A j, l \in DOMAIN v : j < l => up[j] < up[l]
    BY <1>1, <2>4
  <2>6. \A m \in DOMAIN w : m = k \/ \E j \in DOMAIN v : up[j] = m
    <3> TAKE m \in DOMAIN w
    <3>1. CASE m < k
      <4>1. m \in DOMAIN v
        BY <1>1, <2>3, <3>1
      <4> QED
        BY <2>4, <3>1, <4>1
    <3>2. CASE m > k
      <4>1. m - 1 \in DOMAIN v /\ ~(m - 1 < k) /\ (m - 1) + 1 = m
        BY <1>1, <2>3, <3>2
      <4> QED
        BY <2>4, <4>1
    <3> QED
      BY <1>1, <3>1, <3>2
  <2>7. Keeps(up, v, w, <<r, pc[r]>>)
    BY <2>1, <2>3, <2>4, <2>5, <2>6 DEF Keeps
  <2> QED
    BY <2>1, <2>7 DEF Left, w, v
<1> QED
  BY <1>2, <1>4 DEF w

-----------------------------------------------------------------------------
(* Types. *)
ReqsTyped ==
  /\ pc \in [Reqs -> Calls \cup {"new", "handle", "sleep", "answered"}]
  /\ timer \in [Reqs -> Nat] /\ waited \in [Reqs -> Nat]
  /\ answer \in [Reqs -> {NoReq, "replayed", "own", "failed", "timeout"}]
  /\ wire \in [Instances -> Seq(Sent)]
  /\ reply \in [Reqs -> {"none", "value", "null"}]

RedisTyped ==
  /\ claim \in 0..ClaimTTL /\ stored \in 0..ResponseTTL
  /\ owner \in Reqs \cup {NoReq}

LEMMA Parts == TypeOK <=> ReqsTyped /\ RedisTyped
BY DEF TypeOK, ReqsTyped, RedisTyped, Sent

LEMMA ProceedTyped ==
  ASSUME ReqsTyped, NEW r \in Reqs, NEW next \in Calls \cup {"handle", "sleep"},
         NEW q \in Seq(Sent), Proceed(r, next, q)
  PROVE  ReqsTyped'
<1>1. (IF next \in Calls THEN Append(q, <<r, next>>) ELSE q) \in Seq(Sent)
  BY DEF Sent
<1> QED
  BY <1>1 DEF ReqsTyped, Proceed

LEMMA FinishTyped ==
  ASSUME ReqsTyped, NEW r \in Reqs, NEW q \in Seq(Sent),
         NEW what \in {"replayed", "own", "failed", "timeout"}, Finish(r, what, q)
  PROVE  ReqsTyped'
BY DEF ReqsTyped, Finish

LEMMA ServeTyped ==
  ASSUME TypeOK, NEW i \in Instances, Serve(i)
  PROVE  TypeOK'
<1> DEFINE r  == Head(wire[i])[1]
           at == Head(wire[i])[2]
<1>1. /\ wire[i] \in Seq(Sent) /\ wire[i] # <<>> /\ r \in Reqs /\ at \in Calls
      /\ Tail(wire[i]) \in Seq(Sent)
  BY DEF Serve, TypeOK, Sent
<1>2. Execute(r, at) /\ UNCHANGED reqVars
  BY DEF Serve
<1>3. RedisTyped'
  <2>1. /\ claim' \in {claim, ClaimTTL, 0} /\ owner' \in {owner, r}
        /\ stored' \in {stored, ResponseTTL}
    BY <1>1, <1>2 DEF Execute, redisVars, Command, Calls
  <2>2. claim' \in 0..ClaimTTL /\ stored' \in 0..ResponseTTL
    BY <2>1, TimesAssumption DEF TypeOK
  <2>3. owner' \in Reqs \cup {NoReq}
    BY <1>1, <2>1 DEF TypeOK
  <2> QED
    BY <1>2, <2>2, <2>3 DEF TypeOK, RedisTyped
<1>4. ReqsTyped'
  <2>1. Result(at) \in {"value", "null"}
    BY DEF Result
  <2>2. /\ reply' \in {reply, [reply EXCEPT ![r] = Result(at)]}
        /\ wire' = [wire EXCEPT ![i] = Tail(@)]
    BY DEF Serve
  <2> QED
    BY <1>1, <1>2, <2>1, <2>2 DEF TypeOK, ReqsTyped, Sent, reqVars
<1> QED
  BY <1>3, <1>4 DEF ReqsTyped, RedisTyped, TypeOK, Sent

LEMMA StepTyped ==
  ASSUME TypeOK, NEW r \in Reqs, Step(r)
  PROVE  TypeOK'
<1>1. RedisTyped'
  BY Parts DEF Step, Arrive, Resume, CallFails, CallTimesOut, Handle, Wake, RedisTyped,
     redisVars
<1>2. ReqsTyped'
  <2>1. PICK q : /\ q \in Seq(Sent)
                 /\ \/ \E next \in Calls \cup {"handle", "sleep"} : Proceed(r, next, q)
                    \/ \E what \in {"replayed", "own", "failed", "timeout"} :
                         Finish(r, what, q)
    BY LeftAfter DEF Step, Arrive, Resume, CallFails, CallTimesOut, Handle, Wake, Throw,
       Left, Calls
  <2> QED
    BY <2>1, Parts, ProceedTyped, FinishTyped
<1> QED
  BY <1>1, <1>2 DEF ReqsTyped, RedisTyped, TypeOK, Sent

LEMMA InitTyped == Init => TypeOK
BY TimesAssumption DEF Init, TypeOK

LEMMA TypeKept ==
  ASSUME TypeOK, [Next]_vars
  PROVE  TypeOK'
<1>1. CASE Tick
  BY <1>1, TimesAssumption DEF Tick, TypeOK
<1>2. CASE UNCHANGED vars
  BY <1>2 DEF vars, TypeOK
<1> QED
  BY <1>1, <1>2, StepTyped, ServeTyped DEF Next

(* Every state the interceptor reaches is well typed, however Redis fails:  *)
(* no claim outlives PROCESSING_TTL_S and no response RESPONSE_TTL_S.       *)
THEOREM IdempotencyTyping == Spec => []TypeOK
<1>1. Init => TypeOK
  BY InitTyped
<1>2. TypeOK /\ [Next]_vars => TypeOK'
  BY TypeKept
<1> QED
  BY <1>1, <1>2, PTL DEF Spec

-----------------------------------------------------------------------------
(* How a request moves, and how long it stays. *)

(* What Proceed and Finish have in common. *)
Moved(r, next, q) ==
  /\ Left(q, r)
  /\ pc' = [pc EXCEPT ![r] = next]
  /\ timer' = [timer EXCEPT ![r] = 0] /\ reply' = [reply EXCEPT ![r] = "none"]
  /\ wire' = [wire EXCEPT ![At[r]] =
                IF next \in Calls THEN Append(q, <<r, next>>) ELSE q]

(* What a request's step may do; next is the await it leads to, or          *)
(* "answered".                                                              *)
Path(r, next) ==
  \/ pc[r] = "new"       /\ next = "lookup"
  \/ pc[r] = "lookup"    /\ next = "claim" /\ reply[r] = "null"
  \/ pc[r] = "poll"      /\ next = "sleep" /\ reply[r] = "null"
  \/ pc[r] = "claim"     /\ next = "handle" /\ reply[r] = "value"
  \/ pc[r] = "claim"     /\ next = "poll" /\ reply[r] = "null"
  \/ pc[r] = "handle"    /\ next \in {"persist", "rerelease"}
  \/ pc[r] = "persist"   /\ next = "release" /\ reply[r] # "none"
  \/ pc[r] = "persist"   /\ next = "abandon" /\ "set" \in Unreliable
  \/ pc[r] = "release"   /\ next = "rerelease" /\ "del" \in Unreliable
  \/ pc[r] = "abandon"   /\ next = "rerelease"
  \/ pc[r] = "sleep"     /\ next = "poll"
  \/ next = "answered"   /\ \/ pc[r] = "sleep"
                            \/ /\ pc[r] \in {"lookup", "poll", "release", "rerelease"}
                               /\ reply[r] # "none"
                            \/ /\ pc[r] \in {"lookup", "claim", "poll", "rerelease"}
                               /\ Command(pc[r]) \in Unreliable

(* The queue it leaves: all of it, or all but the command that is lost. *)
Queued(q, r) ==
  \/ /\ q = wire[At[r]]
     /\ pc[r] \notin Calls \/ reply[r] # "none" \/ Command(pc[r]) \in Unreliable
  \/ \E k \in DOMAIN wire[At[r]] :
       wire[At[r]][k] = <<r, pc[r]>> /\ q = RemoveAt(wire[At[r]], k)

LEMMA Moves ==
  ASSUME NEW r \in Reqs, NEW q, Left(q, r)
  PROVE  /\ \A next : Proceed(r, next, q) => Moved(r, next, q) /\ answer' = answer
         /\ \A what : Finish(r, what, q) =>
              Moved(r, "answered", q) /\ answer' = [answer EXCEPT ![r] = what]
BY DEF Proceed, Finish, Moved, Calls

LEMMA StepMoves ==
  ASSUME TypeOK, NEW r \in Reqs, Step(r)
  PROVE  /\ UNCHANGED redisVars
         /\ \E next \in Calls \cup {"handle", "sleep", "answered"} : \E q :
              /\ Moved(r, next, q) /\ Path(r, next) /\ Queued(q, r)
              /\ \/ answer' = answer /\ next # "answered"
                 \/ /\ next = "answered"
                    /\ \E what \in {"replayed", "failed", "timeout"} :
                         answer' = [answer EXCEPT ![r] = what]
                 \/ /\ next = "answered" /\ pc[r] = "release"
                    /\ answer' = [answer EXCEPT ![r] = "own"]
<1> DEFINE w == wire[At[r]]
<1>1. UNCHANGED redisVars
  BY DEF Step, Arrive, Resume, CallFails, CallTimesOut, Handle, Wake
<1>2. CASE Arrive(r) \/ Handle(r) \/ Wake(r)
  BY <1>1, <1>2, LeftAfter, Moves DEF Arrive, Handle, Wake, Path, Queued, Calls
<1>3. CASE Resume(r)
  BY <1>1, <1>3, LeftAfter, Moves DEF Resume, Path, Queued, Calls
<1>4. CASE CallFails(r) \/ CallTimesOut(r)
  BY <1>1, <1>4, LeftAfter, Moves DEF CallFails, CallTimesOut, Fallible, Throw, Path, Queued,
     Calls, Command
<1> QED
  BY <1>2, <1>3, <1>4 DEF Step

LEMMA MovedTo ==
  ASSUME TypeOK, NEW r \in Reqs, NEW next, NEW q, Moved(r, next, q)
  PROVE  /\ pc'[r] = next /\ timer'[r] = 0 /\ reply'[r] = "none"
         /\ \A p \in Reqs \ {r} : pc'[p] = pc[p] /\ timer'[p] = timer[p] /\ reply'[p] = reply[p]
BY DEF Moved, TypeOK

(* What Redis does with the oldest command of an instance. *)
LEMMA ServeExecutes ==
  ASSUME TypeOK, NEW i \in Instances, Serve(i)
  PROVE  /\ UNCHANGED <<pc, timer, answer>>
         /\ wire' = [wire EXCEPT ![i] = Tail(@)]
         /\ \E r \in Reqs : \E at \in Calls :
              /\ wire[i] # <<>> /\ wire[i][1] = <<r, at>>
              /\ Execute(r, at)
              /\ \A p \in Reqs \ {r} : reply'[p] = reply[p]
              /\ reply'[r] = IF pc[r] = at THEN Result(at) ELSE reply[r]
<1> DEFINE r  == Head(wire[i])[1]
           at == Head(wire[i])[2]
<1>1. /\ wire[i] \in Seq(Sent) /\ wire[i] # <<>> /\ r \in Reqs /\ at \in Calls
      /\ wire[i][1] = <<r, at>>
  BY DEF Serve, TypeOK, Sent
<1>2. /\ Execute(r, at) /\ UNCHANGED reqVars
      /\ reply' = IF pc[r] = at THEN [reply EXCEPT ![r] = Result(at)] ELSE reply
      /\ wire' = [wire EXCEPT ![i] = Tail(@)]
  BY DEF Serve
<1> HIDE DEF r, at
<1>3. /\ \A p \in Reqs \ {r} : reply'[p] = reply[p]
      /\ reply'[r] = IF pc[r] = at THEN Result(at) ELSE reply[r]
  BY <1>1, <1>2 DEF TypeOK
<1> QED
  BY <1>1, <1>2, <1>3 DEF reqVars

(* Nobody stays longer than the breaker, the handler or the timer allows. *)
InLimit == \A r \in Reqs : pc[r] \notin Outside => timer[r] <= Limit(pc[r])

LEMMA Nats == /\ Timeout \in Nat /\ HandlerMax \in Nat /\ ClaimTTL \in Nat /\ Poll \in Nat
              /\ ResponseTTL \in Nat
              /\ TypeOK => claim \in Nat /\ stored \in Nat /\ stored <= ResponseTTL
BY TimesAssumption DEF TypeOK

LEMMA LimitKept ==
  ASSUME TypeOK, InLimit, [Next]_vars
  PROVE  InLimit'
<1> USE Nats
<1>1. ASSUME NEW r \in Reqs, Step(r) PROVE InLimit'
  <2>1. PICK next \in Calls \cup {"handle", "sleep", "answered"} : \E q : Moved(r, next, q)
    BY <1>1, StepMoves
  <2>2. next \notin Outside => 0 <= Limit(next)
    BY DEF Limit, Outside, Calls
  <2> QED
    BY <2>1, <2>2, MovedTo DEF InLimit
<1>2. ASSUME NEW i \in Instances, Serve(i) PROVE InLimit'
  BY <1>2, ServeExecutes DEF InLimit
<1>3. CASE Tick
  <2> SUFFICES ASSUME NEW r \in Reqs, pc[r] \notin Outside PROVE timer'[r] <= Limit(pc[r])
    BY <1>3 DEF InLimit, Tick
  <2>1. timer'[r] = timer[r] + 1 /\ timer[r] < Limit(pc[r]) /\ timer[r] \in Nat
    BY <1>3 DEF Tick, TypeOK, Counts, Outside
  <2>2. Limit(pc[r]) \in Nat
    BY DEF Limit, TypeOK, Outside, Calls
  <2> QED
    BY <2>1, <2>2
<1>4. CASE UNCHANGED vars
  BY <1>4 DEF vars, InLimit
<1> QED
  BY <1>1, <1>2, <1>3, <1>4 DEF Next

-----------------------------------------------------------------------------
(* RetryIsReplayed, under every failure.  How much longer than its TTL a    *)
(* response can have been stored when its request stands where it does; a   *)
(* lookup that Redis executes before the TTL is over finds it.              *)
StoredFor(r) ==
  /\ pc[r] = "persist" /\ reply[r] # "none" => stored + timer[r] >= ResponseTTL
  /\ pc[r] = "release" => stored + Timeout + timer[r] >= ResponseTTL
  /\ answer[r] = "own" => /\ pc[r] = "answered"
                          /\ stored + 2 * Timeout + timer[r] >= ResponseTTL

RInv == TypeOK /\ InLimit /\ \A r \in Reqs : StoredFor(r)

(* Request q began after r got its response, and has not missed it but for  *)
(* its age.                                                                 *)
Late(r, q) ==
  /\ answer[r] = "own"
  /\ \/ pc[q] \in {"new", "answered"}
     \/ pc[q] = "lookup" /\ reply[q] # "null"
     \/ timer[r] + 2 * Timeout >= ResponseTTL

LEMMA StoredStep ==
  ASSUME RInv, NEW p \in Reqs, Step(p)
  PROVE  /\ \A r \in Reqs : StoredFor(r)'
         /\ \A r, q \in Reqs : Late(r, q) => Late(r, q)'
<1> USE Nats DEF RInv
<1>1. PICK next \in Calls \cup {"handle", "sleep", "answered"} :
        /\ \E q : Moved(p, next, q)
        /\ Path(p, next)
        /\ \/ answer' = answer /\ next # "answered"
           \/ /\ next = "answered"
              /\ \E what \in {"replayed", "failed", "timeout"} :
                   answer' = [answer EXCEPT ![p] = what]
           \/ /\ next = "answered" /\ pc[p] = "release"
              /\ answer' = [answer EXCEPT ![p] = "own"]
  BY StepMoves
<1>2. UNCHANGED stored
  BY StepMoves DEF redisVars
<1>3. /\ pc'[p] = next /\ timer'[p] = 0 /\ reply'[p] = "none"
      /\ \A r \in Reqs \ {p} : /\ pc'[r] = pc[r] /\ timer'[r] = timer[r]
                               /\ reply'[r] = reply[r]
  BY <1>1, MovedTo
<1>4. /\ \A r \in Reqs \ {p} : answer'[r] = answer[r]
      /\ answer'[p] = "own" => answer[p] = "own" \/ (pc[p] = "release" /\ next = "answered")
  BY <1>1 DEF TypeOK
<1>5. pc[p] # "answered" /\ answer[p] # "own"
  <2>1. pc[p] # "answered"
    BY <1>1 DEF Path
  <2> QED
    BY <2>1 DEF StoredFor
<1>6. \A r \in Reqs \ {p} : StoredFor(r)'
  BY <1>2, <1>3, <1>4 DEF StoredFor
<1>7. StoredFor(p)'
  <2>1. pc[p] \in {"persist", "release"} =>
          timer[p] <= Timeout /\ timer[p] \in Nat /\ stored \in Nat
    BY DEF InLimit, Outside, Limit, Calls, TypeOK
  <2>2. pc'[p] = "release" => pc[p] = "persist" /\ reply[p] # "none"
    BY <1>1, <1>3 DEF Path
  <2>3. pc'[p] = "release" => stored' + Timeout + timer'[p] >= ResponseTTL
    BY <1>2, <1>3, <2>1, <2>2 DEF StoredFor
  <2>4. answer'[p] = "own" => pc[p] = "release" /\ pc'[p] = "answered"
    BY <1>3, <1>4, <1>5
  <2>5. pc[p] = "release" => stored' + 2 * Timeout + timer'[p] >= ResponseTTL
    BY <1>2, <1>3, <2>1 DEF StoredFor
  <2> QED
    BY <1>3, <2>3, <2>4, <2>5 DEF StoredFor
<1>8. ASSUME NEW r \in Reqs, NEW q \in Reqs, Late(r, q) PROVE Late(r, q)'
  <2>1. r # p /\ answer'[r] = "own" /\ timer'[r] = timer[r]
    BY <1>3, <1>4, <1>5, <1>8 DEF Late
  <2>2. CASE q # p
    BY <1>3, <1>8, <2>1, <2>2 DEF Late
  <2>3. CASE q = p
    BY <1>1, <1>3, <1>5, <1>8, <2>1, <2>3 DEF Late, Path
  <2> QED
    BY <2>2, <2>3
<1> QED
  BY <1>6, <1>7, <1>8

LEMMA StoredServe ==
  ASSUME RInv, NEW i \in Instances, Serve(i)
  PROVE  /\ \A r \in Reqs : StoredFor(r)'
         /\ \A r, q \in Reqs : Late(r, q) => Late(r, q)'
<1> USE Nats DEF RInv
<1>1. UNCHANGED <<pc, timer, answer>>
  BY ServeExecutes
<1>2. PICK p \in Reqs, at \in Calls :
        /\ Execute(p, at)
        /\ \A r \in Reqs \ {p} : reply'[r] = reply[r]
        /\ reply'[p] = IF pc[p] = at THEN Result(at) ELSE reply[p]
  BY ServeExecutes
<1>3. /\ stored' = IF at = "persist" THEN ResponseTTL ELSE stored
      /\ stored \in Nat /\ stored <= ResponseTTL
  BY <1>2 DEF Execute, redisVars, Command, Calls
<1>4. ASSUME NEW r \in Reqs PROVE StoredFor(r)'
  <2>1. timer[r] \in Nat
    BY DEF TypeOK
  <2>2. pc[r] = "persist" /\ reply'[r] # "none" => reply[r] # "none" \/ at = "persist"
    BY <1>2
  <2> QED
    BY <1>1, <1>3, <2>1, <2>2 DEF StoredFor
<1>5. ASSUME NEW r \in Reqs, NEW q \in Reqs, Late(r, q) PROVE Late(r, q)'
  <2>1. timer[r] \in Nat
    BY DEF TypeOK
  <2>2. CASE q = p /\ pc[q] = "lookup" /\ at = "lookup"
    <3>1. reply'[q] = IF stored = 0 THEN "null" ELSE "value"
      BY <1>2, <2>2 DEF Result, Command
    <3>2. stored = 0 => timer[r] + 2 * Timeout >= ResponseTTL
      BY <1>5, <2>1 DEF StoredFor, Late
    <3> QED
      BY <1>1, <1>5, <2>2, <3>1, <3>2 DEF Late
  <2>3. CASE ~(q = p /\ pc[q] = "lookup" /\ at = "lookup")
    BY <1>1, <1>2, <1>5, <2>3 DEF Late
  <2> QED
    BY <2>2, <2>3
<1> QED
  BY <1>4, <1>5

LEMMA StoredTick ==
  ASSUME RInv, Tick
  PROVE  /\ \A r \in Reqs : StoredFor(r)'
         /\ \A r, q \in Reqs : Late(r, q) => Late(r, q)'
<1> USE Nats DEF RInv
<1>1. UNCHANGED <<pc, answer, reply>> /\ stored \in Nat
  BY DEF Tick
<1>2. stored' \in Nat /\ stored' >= stored - 1
  BY <1>1 DEF Tick
<1>3. ASSUME NEW r \in Reqs
      PROVE  /\ timer[r] \in Nat /\ timer'[r] \in {timer[r], timer[r] + 1}
             /\ pc[r] \in {"persist", "release"} => timer'[r] = timer[r] + 1
             /\ answer[r] = "own" /\ pc[r] = "answered" =>
                  timer'[r] = timer[r] + 1 \/ timer'[r] >= ResponseTTL
  BY DEF Tick, TypeOK, Counts
<1>4. ASSUME NEW r \in Reqs PROVE StoredFor(r)'
  <2>1. /\ timer[r] \in Nat /\ timer'[r] \in {timer[r], timer[r] + 1}
        /\ pc[r] \in {"persist", "release"} => timer'[r] = timer[r] + 1
        /\ answer[r] = "own" /\ pc[r] = "answered" =>
             timer'[r] = timer[r] + 1 \/ timer'[r] >= ResponseTTL
    BY <1>3
  <2> QED
    BY <1>1, <1>2, <2>1 DEF StoredFor
<1>5. ASSUME NEW r \in Reqs, NEW q \in Reqs, Late(r, q) PROVE Late(r, q)'
  <2>1. timer[r] \in Nat /\ timer'[r] \in {timer[r], timer[r] + 1}
    BY <1>3
  <2> QED
    BY <1>1, <1>5, <2>1 DEF Late
<1> QED
  BY <1>4, <1>5

LEMMA StoredKept ==
  ASSUME RInv, [Next]_vars
  PROVE  /\ RInv'
         /\ \A r, q \in Reqs : Late(r, q) => Late(r, q)'
<1>1. TypeOK' /\ InLimit'
  BY TypeKept, LimitKept DEF RInv
<1>2. CASE UNCHANGED vars
  BY <1>1, <1>2 DEF vars, RInv, StoredFor, Late
<1> QED
  BY <1>1, <1>2, StoredStep, StoredServe, StoredTick DEF RInv, Next

(* A client that was given the handler's response and sends the request     *)
(* again is not handled again as long as the response is stored, less the   *)
(* two calls that storing it and answering take, whichever of the Redis     *)
(* commands fail, time out or are executed late.                            *)
THEOREM ReplayedInTime == Spec => RetryIsReplayed
<1>1. Init => RInv
  BY InitTyped DEF Init, RInv, StoredFor, NoReq, InLimit, Outside
<1>2. RInv /\ [Next]_vars => RInv'
  BY StoredKept
<1>3. ASSUME NEW r \in Reqs, NEW q \in Reqs
      PROVE  Spec => [](answer[r] = "own" /\ pc[q] = "new" =>
                          [](pc[q] = "handle" => timer[r] + 2 * Timeout >= ResponseTTL))
  <2>1. answer[r] = "own" /\ pc[q] = "new" => Late(r, q)
    BY DEF Late
  <2>2. RInv /\ Late(r, q) /\ [Next]_vars => Late(r, q)'
    BY StoredKept
  <2>3. Late(r, q) => (pc[q] = "handle" => timer[r] + 2 * Timeout >= ResponseTTL)
    BY DEF Late
  <2> QED
    BY <1>1, <1>2, <2>1, <2>2, <2>3, PTL DEF Spec
<1> QED
  BY <1>3 DEF RetryIsReplayed

-----------------------------------------------------------------------------
(* OneHandler and ClaimIsLive when what releases a claim works and the      *)
(* claim outlasts the handler and the three calls around it.                *)

(* Storing and deleting succeed; a GET, or the SET NX of the claim, may     *)
(* fail or be given up.                                                     *)
Dependable == Unreliable \subseteq {"get", "claim"}

InTime == HandlerMax + 3 * Timeout < ClaimTTL

(* Requests between the SET NX that Redis did for them and the DEL. *)
Holds(r) == \/ pc[r] = "claim" /\ reply[r] = "value"
            \/ pc[r] \in {"handle", "persist"}
            \/ pc[r] \in {"release", "rerelease"} /\ reply[r] = "none"

(* What is on the wire was sent by a request of that instance that still    *)
(* waits for it, or that was answered when the breaker gave up on it.       *)
Waiting(r, at, awaits, answers) ==
  \/ awaits[r] = at /\ answers[r] = "none"
  \/ awaits[r] = "answered" /\ Command(at) \in Unreliable

Waits(r, at) == Waiting(r, at, pc, reply)

Wired ==
  \A i \in Instances : \A j \in DOMAIN wire[i] :
    LET r == wire[i][j][1]  at == wire[i][j][2] IN
    /\ At[r] = i /\ Waits(r, at)
    /\ \A k \in DOMAIN wire[i] : wire[i][k][1] = r => k = j

(* How long ago, at most, a holder's claim was set. *)
Age(r) == CASE pc[r] = "claim"                  -> timer[r]
            [] pc[r] = "handle"                 -> Timeout + timer[r]
            [] pc[r] \in {"persist", "rerelease"} -> Timeout + HandlerMax + timer[r]
            [] pc[r] = "release"                -> 2 * Timeout + HandlerMax + timer[r]

HoldersOwn ==
  \A r \in Reqs : Holds(r) => owner = r /\ claim + Age(r) >= ClaimTTL

HInv ==
  /\ TypeOK /\ InLimit /\ Wired /\ HoldersOwn
  /\ \A r \in Reqs : pc[r] # "abandon"

(* r's own step, or the end of its call, keeps the wire in order. *)
LEMMA Rewired ==
  ASSUME TypeOK, Wired, NEW r \in Reqs, NEW q, Left(q, r), pc[r] # "answered",
         \A p \in Reqs \ {r} : pc'[p] = pc[p] /\ reply'[p] = reply[p], reply'[r] = "none",
         wire' = [wire EXCEPT ![At[r]] =
                    IF pc'[r] \in Calls THEN Append(q, <<r, pc'[r]>>) ELSE q],
         \A j \in DOMAIN q :
           q[j][1] = r => pc'[r] = "answered" /\ Command(pc[r]) \in Unreliable
  PROVE  Wired'
<1> DEFINE w == wire[At[r]]
           c == <<r, pc'[r]>>
           n == Len(q) + 1
<1>1. w \in Seq(Sent) /\ q \in Seq(Sent) /\ At[r] \in Instances
  BY AtAssumption DEF TypeOK, Left, Sent
<1>2. PICK up \in [DOMAIN q -> DOMAIN w] :
        /\ \A j \in DOMAIN q : q[j] = w[up[j]]
        /\ \A j, k \in DOMAIN q : j < k => up[j] < up[k]
  BY DEF Left, Keeps
<1>3. \A j \in DOMAIN q :
        /\ q[j][1] \in Reqs /\ At[q[j][1]] = At[r]
        /\ Waiting(q[j][1], q[j][2], pc', reply')
        /\ \A k \in DOMAIN q : q[k][1] = q[j][1] => k = j
  <2> TAKE j \in DOMAIN q
  <2>1. /\ up[j] \in DOMAIN w /\ q[j] = w[up[j]] /\ q[j] \in Sent
    BY <1>1, <1>2
  <2>2. /\ At[q[j][1]] = At[r]
        /\ Waits(q[j][1], q[j][2])
        /\ \A k \in DOMAIN w : w[k][1] = q[j][1] => k = up[j]
    <3>1. LET p == w[up[j]][1]  at == w[up[j]][2] IN
          /\ At[p] = At[r]
          /\ Waits(p, at)
          /\ \A k \in DOMAIN w : w[k][1] = p => k = up[j]
      BY <1>1, <2>1 DEF Wired
    <3> QED
      BY <2>1, <3>1
  <2>3. \A k \in DOMAIN q : q[k][1] = q[j][1] => k = j
    <3> SUFFICES ASSUME NEW k \in DOMAIN q, q[k][1] = q[j][1] PROVE k = j
      OBVIOUS
    <3>1. up[k] = up[j]
      BY <1>2, <2>2
    <3>2. k \in Int /\ j \in Int /\ up[k] \in Int
      BY <1>1, <1>2
    <3> QED
      BY <1>2, <3>1, <3>2
  <2>4. q[j][1] \in Reqs
    BY <2>1 DEF Sent
  <2> QED
    BY <2>2, <2>3, <2>4 DEF Waits, Waiting
<1>4. ASSUME NEW i \in Instances \ {At[r]}, NEW j \in DOMAIN wire[i]
      PROVE  wire'[i] = wire[i] /\ wire[i][j][1] \in Reqs \ {r}
  <2>1. wire[i] \in Seq(Reqs \X Calls) /\ wire'[i] = wire[i]
    BY DEF TypeOK
  <2>2. wire[i][j] \in Reqs \X Calls
    BY <2>1
  <2> QED
    BY <2>1, <2>2 DEF Wired
<1>5. \A i \in Instances \ {At[r]} : wire'[i] = wire[i]
  BY DEF TypeOK
<1>6. CASE pc'[r] \in Calls
  <2>1. /\ wire'[At[r]] = Append(q, c) /\ DOMAIN wire'[At[r]] = 1..n
        /\ \A j \in DOMAIN q : wire'[At[r]][j] = q[j] /\ j # n
        /\ wire'[At[r]][n] = c
        /\ \A j \in 1..n : j \in DOMAIN q \/ j = n
    <3>1. wire'[At[r]] = Append(q, c)
      BY <1>1, <1>6 DEF TypeOK
    <3>2. c \in Sent
      BY <1>6 DEF Sent
    <3> HIDE DEF c
    <3>3. /\ DOMAIN Append(q, c) = 1..n /\ DOMAIN q = 1..Len(q)
          /\ \A j \in 1..Len(q) : Append(q, c)[j] = q[j]
          /\ Append(q, c)[n] = c /\ Len(q) \in Nat
      BY <1>1, <3>2
    <3>4. \A j \in 1..n : j \in 1..Len(q) \/ j = n
      BY <3>3
    <3>5. \A j \in 1..Len(q) : j # n
      BY <3>3
    <3> HIDE DEF n
    <3> QED
      BY <3>1, <3>3, <3>4, <3>5
  <2>2. \A j \in DOMAIN q : q[j][1] # r
    BY <1>6 DEF Calls
  <2>3. c[1] = r /\ c[2] = pc'[r]
    OBVIOUS
  <2> HIDE DEF c, n, w
  <2>4. \A j \in DOMAIN wire'[At[r]] :
          LET p == wire'[At[r]][j][1]  at == wire'[At[r]][j][2] IN
          /\ At[p] = At[r]
          /\ Waiting(p, at, pc', reply')
          /\ \A k \in DOMAIN wire'[At[r]] : wire'[At[r]][k][1] = p => k = j
    <3> TAKE j \in DOMAIN wire'[At[r]]
    <3>1. CASE j \in DOMAIN q
      BY <1>3, <2>1, <2>2, <2>3, <3>1
    <3>2. CASE j = n
      BY <2>1, <2>2, <2>3, <3>2 DEF Waits, Waiting
    <3> QED
      BY <2>1, <3>1, <3>2
  <2> QED
    BY <1>4, <1>5, <2>4 DEF Wired, Waits, Waiting
<1>7. CASE pc'[r] \notin Calls
  <2>1. wire'[At[r]] = q
    BY <1>1, <1>7 DEF TypeOK
  <2> QED
    BY <1>3, <1>4, <1>5, <2>1 DEF Wired, Waits, Waiting
<1> QED
  BY <1>6, <1>7

(* A request that waits for nothing has nothing on the wire. *)
LEMMA NothingSent ==
  ASSUME TypeOK, Wired, NEW r \in Reqs,
         pc[r] \in {"new", "handle", "sleep"} \/ (reply[r] # "none" /\ pc[r] # "answered")
  PROVE  \A j \in DOMAIN wire[At[r]] : wire[At[r]][j][1] # r
<1> SUFFICES ASSUME NEW j \in DOMAIN wire[At[r]], wire[At[r]][j][1] = r
             PROVE  FALSE
  OBVIOUS
<1>1. At[r] \in Instances /\ wire[At[r]] \in Seq(Reqs \X Calls)
  BY AtAssumption DEF TypeOK
<1>2. wire[At[r]][j][2] \in Calls
  BY <1>1
<1>3. Waits(r, wire[At[r]][j][2])
  BY <1>1 DEF Wired
<1> QED
  BY <1>2, <1>3 DEF Waits, Waiting, Calls

LEMMA MovedWired ==
  ASSUME TypeOK, Wired, NEW r \in Reqs, NEW next \in Calls \cup {"handle", "sleep", "answered"},
         NEW q, Moved(r, next, q), pc[r] # "answered",
         \/ \A j \in DOMAIN q : q[j][1] # r
         \/ next = "answered" /\ Command(pc[r]) \in Unreliable
  PROVE  Wired'
BY MovedTo, Rewired DEF Moved

(* A command that is lost was the request's only one. *)
LEMMA NothingLeft ==
  ASSUME TypeOK, Wired, NEW r \in Reqs, NEW k \in DOMAIN wire[At[r]],
         wire[At[r]][k] = <<r, pc[r]>>
  PROVE  \A j \in DOMAIN RemoveAt(wire[At[r]], k) : RemoveAt(wire[At[r]], k)[j][1] # r
<1> DEFINE w == wire[At[r]]
           v == RemoveAt(w, k)
<1>1. w \in Seq(Sent) /\ At[r] \in Instances
  BY AtAssumption DEF TypeOK, Sent
<1>2. \A j \in DOMAIN w : w[j][1] = r => j = k
  <2>1. w[k][1] = r
    OBVIOUS
  <2> QED
    BY <1>1, <2>1 DEF Wired
<1> HIDE DEF w
<1>3. /\ v \in Seq(Sent) /\ Len(v) = Len(w) - 1
      /\ \A j \in 1..Len(w) - 1 : v[j] = w[IF j < k THEN j ELSE j + 1]
  BY <1>1, Removing DEF w
<1> HIDE DEF v
<1> SUFFICES ASSUME NEW j \in DOMAIN v, v[j][1] = r PROVE FALSE
  BY DEF v, w
<1>4. j \in 1..Len(w) - 1 /\ k \in Int
  BY <1>1, <1>3 DEF w
<1>5. (IF j < k THEN j ELSE j + 1) \in DOMAIN w /\ (IF j < k THEN j ELSE j + 1) # k
  BY <1>1, <1>4
<1> QED
  BY <1>2, <1>3, <1>4, <1>5

LEMMA StepWired ==
  ASSUME TypeOK, Wired, Dependable, NEW r \in Reqs, pc[r] # "abandon", Step(r)
  PROVE  Wired'
<1>1. PICK next \in Calls \cup {"handle", "sleep", "answered"} :
        \E q : Moved(r, next, q) /\ Path(r, next) /\ Queued(q, r)
  BY StepMoves
<1>2. PICK q : Moved(r, next, q) /\ Path(r, next) /\ Queued(q, r)
  BY <1>1
<1>3. pc[r] # "answered"
  BY <1>2 DEF Path
<1>4. \/ \A j \in DOMAIN q : q[j][1] # r
      \/ next = "answered" /\ Command(pc[r]) \in Unreliable
  <2>1. CASE q = wire[At[r]] /\ (pc[r] \notin Calls \/ reply[r] # "none")
    <3>1. pc[r] \in {"new", "handle", "sleep"} \/ (reply[r] # "none" /\ pc[r] # "answered")
      BY <1>3, <2>1 DEF TypeOK
    <3> QED
      BY <2>1, <3>1, NothingSent
  <2>2. CASE reply[r] = "none" /\ pc[r] \in Calls /\ Command(pc[r]) \in Unreliable
    BY <1>2, <2>2 DEF Path, Dependable, Command, Calls
  <2>3. CASE \E k \in DOMAIN wire[At[r]] :
               wire[At[r]][k] = <<r, pc[r]>> /\ q = RemoveAt(wire[At[r]], k)
    BY <2>3, NothingLeft
  <2> QED
    BY <1>2, <2>1, <2>2, <2>3 DEF Queued
<1> QED
  BY <1>2, <1>3, <1>4, MovedWired

(* What Redis executes, under Wired: a command that is not the request's    *)
(* own any more was given up on.                                            *)
LEMMA ServeWired ==
  ASSUME TypeOK, Wired, NEW i \in Instances, Serve(i)
  PROVE  /\ Wired' /\ UNCHANGED <<pc, timer>>
         /\ \E r \in Reqs : \E at \in Calls :
              /\ Execute(r, at) /\ Waits(r, at)
              /\ \A p \in Reqs \ {r} : reply'[p] = reply[p]
              /\ reply'[r] = IF pc[r] = at THEN Result(at) ELSE reply[r]
<1>1. UNCHANGED <<pc, timer>> /\ wire' = [wire EXCEPT ![i] = Tail(@)]
  BY ServeExecutes
<1>2. PICK r \in Reqs, at \in Calls :
        /\ wire[i] # <<>> /\ wire[i][1] = <<r, at>>
        /\ Execute(r, at)
        /\ \A p \in Reqs \ {r} : reply'[p] = reply[p]
        /\ reply'[r] = IF pc[r] = at THEN Result(at) ELSE reply[r]
  BY ServeExecutes
<1> DEFINE q == Tail(wire[i])
<1>3. /\ wire[i] \in Seq(Sent) /\ 1 \in DOMAIN wire[i]
      /\ q \in Seq(Sent) /\ DOMAIN q = 1..Len(wire[i]) - 1
      /\ \A j \in DOMAIN q : /\ j + 1 \in DOMAIN wire[i] /\ q[j] = wire[i][j + 1]
                             /\ j + 1 # 1 /\ j \in Int
  BY <1>2 DEF TypeOK, Sent
<1>4. Waits(r, at) /\ At[r] = i /\ \A k \in DOMAIN wire[i] : wire[i][k][1] = r => k = 1
  <2>1. LET p == wire[i][1][1]  c == wire[i][1][2] IN
        /\ At[p] = i /\ Waits(p, c)
        /\ \A k \in DOMAIN wire[i] : wire[i][k][1] = p => k = 1
    BY <1>3 DEF Wired
  <2> QED
    BY <1>2, <2>1
<1> HIDE DEF q
<1>5. \A j \in DOMAIN q :
        LET p == q[j][1]  c == q[j][2] IN
        /\ At[p] = i /\ Waiting(p, c, pc', reply')
        /\ \A k \in DOMAIN q : q[k][1] = p => k = j
  <2> TAKE j \in DOMAIN q
  <2>1. LET p == wire[i][j + 1][1]  c == wire[i][j + 1][2] IN
        /\ At[p] = i /\ Waits(p, c)
        /\ \A k \in DOMAIN wire[i] : wire[i][k][1] = p => k = j + 1
    BY <1>3 DEF Wired
  <2>2. q[j][1] # r /\ q[j][1] \in Reqs
    BY <1>3, <1>4 DEF Sent
  <2>3. \A k \in DOMAIN q : q[k][1] = q[j][1] => k = j
    <3> TAKE k \in DOMAIN q
    <3>1. q[k][1] = q[j][1] => k + 1 = j + 1
      BY <1>3, <2>1
    <3>2. k \in Int /\ j \in Int
      BY <1>3
    <3> QED
      BY <3>1, <3>2
  <2>4. Waiting(q[j][1], q[j][2], pc', reply')
    BY <1>1, <1>2, <1>3, <2>1, <2>2 DEF Waits, Waiting
  <2> QED
    BY <1>3, <2>1, <2>3, <2>4
<1>6. ASSUME NEW l \in Instances \ {i}, NEW j \in DOMAIN wire[l]
      PROVE  wire[l][j][1] \in Reqs \ {r}
  <2>1. wire[l] \in Seq(Reqs \X Calls)
    BY DEF TypeOK
  <2>2. wire[l][j] \in Reqs \X Calls
    BY <2>1
  <2> QED
    BY <1>4, <2>2 DEF Wired
<1>7. wire'[i] = q /\ \A l \in Instances \ {i} : wire'[l] = wire[l]
  BY <1>1 DEF TypeOK, q
<1>8. Wired'
  BY <1>1, <1>2, <1>5, <1>6, <1>7 DEF Wired, Waits, Waiting
<1> QED
  BY <1>1, <1>2, <1>4, <1>8

(* A holder's claim has not run out. *)
LEMMA HoldersLive ==
  ASSUME HInv, InTime, NEW r \in Reqs, Holds(r)
  PROVE  claim > 0 /\ owner = r
<1>1. timer[r] <= Limit(pc[r]) /\ timer[r] \in Nat /\ claim \in Nat
  <2>1. pc[r] \notin Outside
    BY DEF Holds, Outside
  <2> QED
    BY <2>1, Nats DEF HInv, InLimit, TypeOK
<1>2. owner = r /\ claim + Age(r) >= ClaimTTL
  BY DEF HInv, HoldersOwn
<1> QED
  BY <1>1, <1>2, Nats DEF Age, Limit, Calls, Holds, InTime

LEMMA TickHolds ==
  ASSUME HInv, InTime, Tick
  PROVE  Wired' /\ HoldersOwn'
<1> USE Nats DEF HInv
<1>1. UNCHANGED <<pc, wire, reply, owner>>
  BY DEF Tick
<1>2. ASSUME NEW r \in Reqs, Holds(r)
      PROVE  owner = r /\ claim' + Age(r)' >= ClaimTTL
  <2>1. /\ timer'[r] = timer[r] + 1 /\ timer[r] \in Nat
        /\ owner = r /\ claim + Age(r) >= ClaimTTL /\ claim \in Nat
    BY <1>2 DEF Tick, TypeOK, Counts, Holds, HoldersOwn
  <2>2. claim' = claim - 1
    BY <1>2, HoldersLive DEF Tick
  <2>3. Age(r)' = Age(r) + 1 /\ Age(r) \in Nat
    BY <1>1, <1>2, <2>1 DEF Age, Holds
  <2> QED
    BY <2>1, <2>2, <2>3
<1>3. HoldersOwn'
  BY <1>1, <1>2 DEF HoldersOwn, Holds
<1> QED
  BY <1>1, <1>3 DEF Wired, Waits, Waiting

LEMMA StepHolds ==
  ASSUME HInv, Dependable, NEW r \in Reqs, Step(r)
  PROVE  Wired' /\ HoldersOwn' /\ \A p \in Reqs : pc'[p] # "abandon"
<1> USE Nats DEF HInv
<1>1. PICK next : (\E q : Moved(r, next, q)) /\ Path(r, next)
  BY StepMoves
<1>2. UNCHANGED <<claim, owner>>
  BY StepMoves DEF redisVars
<1>3. /\ pc'[r] = next /\ timer'[r] = 0 /\ reply'[r] = "none"
      /\ \A p \in Reqs \ {r} : /\ pc'[p] = pc[p] /\ timer'[p] = timer[p]
                               /\ reply'[p] = reply[p]
  BY <1>1, MovedTo
<1>4. \A p \in Reqs \ {r} : Holds(p)' => owner' = p /\ claim' + Age(p)' >= ClaimTTL
  BY <1>2, <1>3 DEF HoldersOwn, Age, Holds
<1>5. Holds(r)' => owner' = r /\ claim' + Age(r)' >= ClaimTTL
  <2> SUFFICES ASSUME Holds(r)' PROVE owner' = r /\ claim' + Age(r)' >= ClaimTTL
    OBVIOUS
  <2>1. \/ pc[r] = "claim" /\ reply[r] = "value" /\ pc'[r] = "handle"
        \/ pc[r] = "handle" /\ pc'[r] \in {"persist", "rerelease"}
        \/ pc[r] = "persist" /\ pc'[r] = "release"
    BY <1>1, <1>3 DEF Path, Holds, Dependable
  <2>2. owner = r /\ claim + Age(r) >= ClaimTTL
    BY <2>1 DEF HoldersOwn, Holds
  <2>3. timer[r] <= Limit(pc[r]) /\ timer[r] \in Nat /\ claim \in Nat
    BY <2>1 DEF InLimit, Outside, TypeOK
  <2> QED
    BY <1>2, <1>3, <2>1, <2>2, <2>3 DEF Age, Limit, Calls
<1>6. \A p \in Reqs : pc'[p] # "abandon"
  BY <1>1, <1>3 DEF Path, Dependable
<1> QED
  BY <1>4, <1>5, <1>6, StepWired DEF HoldersOwn

LEMMA ServeHolds ==
  ASSUME HInv, Dependable, InTime, NEW i \in Instances, Serve(i)
  PROVE  Wired' /\ HoldersOwn'
<1> USE Nats DEF HInv
<1>1. UNCHANGED <<pc, timer>> /\ Wired'
  BY ServeWired
<1>2. PICK r \in Reqs, at \in Calls :
        /\ Execute(r, at) /\ Waits(r, at)
        /\ \A p \in Reqs \ {r} : reply'[p] = reply[p]
        /\ reply'[r] = IF pc[r] = at THEN Result(at) ELSE reply[r]
  BY ServeWired
<1>3. CASE Command(at) \in {"get", "set"} \/ (Command(at) = "claim" /\ claim # 0)
  <2>1. UNCHANGED <<claim, owner>>
    BY <1>2, <1>3 DEF Execute, redisVars
  <2>2. Holds(r)' => Holds(r)
    BY <1>1, <1>2, <1>3 DEF Holds, Waits, Waiting, Result, Command, Calls
  <2>3. \A p \in Reqs \ {r} : Holds(p)' => Holds(p)
    BY <1>1, <1>2 DEF Holds
  <2>4. \A p \in Reqs : Age(p)' = Age(p)
    BY <1>1 DEF Age
  <2> QED
    BY <1>1, <2>1, <2>2, <2>3, <2>4 DEF HoldersOwn
<1>4. CASE Command(at) = "claim" /\ claim = 0
  <2>1. claim' = ClaimTTL /\ owner' = r
    BY <1>2, <1>4 DEF Execute
  <2>2. \A p \in Reqs : ~Holds(p)
    BY <1>4, HoldersLive
  <2>3. \A p \in Reqs \ {r} : ~Holds(p)'
    BY <1>1, <1>2, <2>2 DEF Holds
  <2>4. Holds(r)' => pc[r] = "claim" /\ timer[r] \in Nat
    BY <1>1, <1>2, <1>4, <2>2 DEF Holds, Waits, Waiting, Command, Calls, TypeOK
  <2> QED
    BY <1>1, <2>1, <2>3, <2>4 DEF HoldersOwn, Age
<1>5. CASE Command(at) = "del"
  <2>1. pc[r] = at /\ at \in {"release", "rerelease"} /\ reply[r] = "none"
    BY <1>2, <1>5 DEF Waits, Waiting, Command, Calls, Dependable
  <2>2. \A p \in Reqs \ {r} : ~Holds(p)
    BY <2>1, HoldersLive DEF Holds
  <2>3. \A p \in Reqs \ {r} : ~Holds(p)'
    BY <1>1, <1>2, <2>2 DEF Holds
  <2>4. ~Holds(r)'
    BY <1>1, <1>2, <2>1 DEF Holds, Result, Command
  <2> QED
    BY <1>1, <2>3, <2>4 DEF HoldersOwn
<1> QED
  BY <1>3, <1>4, <1>5 DEF Command, Calls

LEMMA InitHolds == Init => HInv
<1> SUFFICES ASSUME Init PROVE HInv
  OBVIOUS
<1>1. Wired
  BY DEF Init, Wired
<1> QED
  BY <1>1, InitTyped DEF Init, HInv, InLimit, HoldersOwn, Holds, Outside

LEMMA HoldsKept ==
  ASSUME HInv, Dependable, InTime, [Next]_vars
  PROVE  HInv'
<1>1. TypeOK' /\ InLimit'
  BY TypeKept, LimitKept DEF HInv
<1>2. CASE UNCHANGED vars
  <2>1. \A r \in Reqs : Age(r)' = Age(r)
    BY <1>2 DEF vars, Age
  <2> QED
    BY <1>1, <1>2, <2>1 DEF vars, HInv, Wired, Waits, Waiting, HoldersOwn, Holds
<1>3. CASE Tick
  <2>1. UNCHANGED pc
    BY <1>3 DEF Tick
  <2> QED
    BY <1>1, <1>3, <2>1, TickHolds DEF HInv
<1>4. ASSUME NEW r \in Reqs, Step(r) PROVE HInv'
  BY <1>1, <1>4, StepHolds DEF HInv
<1>5. ASSUME NEW i \in Instances, Serve(i) PROVE HInv'
  BY <1>1, <1>5, ServeHolds, ServeExecutes DEF HInv
<1> QED
  BY <1>2, <1>3, <1>4, <1>5 DEF Next

(* Two requests with one key are never in the controller at the same time,  *)
(* on one instance or on several, as long as a claim outlasts the handler   *)
(* and the three calls around it and storing and deleting work: a lookup or *)
(* a claim that fails, is given up or is executed late does no harm.        *)
THEOREM OneInController == Dependable /\ InTime => (Spec => []OneHandler)
<1> SUFFICES ASSUME Dependable, InTime PROVE Spec => []OneHandler
  OBVIOUS
<1>1. HInv /\ [Next]_vars => HInv'
  BY HoldsKept
<1>2. HInv => OneHandler
  BY DEF HInv, HoldersOwn, Holds, OneHandler
<1> QED
  BY <1>1, <1>2, InitHolds, PTL DEF Spec

(* ClaimIsLive needs the SET NX to be reliable too: given up and executed   *)
(* late, it leaves a claim that nobody releases.                            *)
OwnersHold == claim > 0 => owner \in Reqs /\ Holds(owner)

LEMMA OwnersKept ==
  ASSUME HInv, OwnersHold, Unreliable \subseteq {"get"}, [Next]_vars
  PROVE  OwnersHold'
<1> USE DEF HInv, OwnersHold
<1>1. ASSUME NEW r \in Reqs, Step(r) PROVE OwnersHold'
  <2>1. PICK next : (\E q : Moved(r, next, q)) /\ Path(r, next)
    BY <1>1, StepMoves
  <2>2. /\ pc'[r] = next /\ reply'[r] = "none"
        /\ \A p \in Reqs \ {r} : pc'[p] = pc[p] /\ reply'[p] = reply[p]
    BY <2>1, MovedTo
  <2>3. Holds(r) => Holds(r)'
    BY <2>1, <2>2 DEF Holds, Path, Command, Calls
  <2>4. \A p \in Reqs \ {r} : Holds(p) => Holds(p)'
    BY <2>2 DEF Holds
  <2> QED
    BY <1>1, <2>3, <2>4, StepMoves DEF redisVars
<1>2. ASSUME NEW i \in Instances, Serve(i) PROVE OwnersHold'
  <2>1. UNCHANGED pc
    BY <1>2, ServeWired
  <2>2. PICK r \in Reqs, at \in Calls :
          /\ Execute(r, at) /\ Waits(r, at)
          /\ \A p \in Reqs \ {r} : reply'[p] = reply[p]
          /\ reply'[r] = IF pc[r] = at THEN Result(at) ELSE reply[r]
    BY <1>2, ServeWired
  <2>3. CASE Command(at) = "del"
    BY <2>2, <2>3 DEF Execute
  <2>4. CASE Command(at) = "claim" /\ claim = 0
    BY <2>1, <2>2, <2>4 DEF Execute, Waits, Waiting, Holds, Result, Command, Calls
  <2>5. CASE Command(at) \in {"get", "set"} \/ (Command(at) = "claim" /\ claim # 0)
    <3>1. UNCHANGED <<claim, owner>>
      BY <2>2, <2>5 DEF Execute, redisVars
    <3>2. Holds(r) => Holds(r)'
      BY <2>1, <2>2, <2>5 DEF Holds, Waits, Waiting, Result, Command, Calls
    <3>3. \A p \in Reqs \ {r} : Holds(p) => Holds(p)'
      BY <2>1, <2>2 DEF Holds
    <3> QED
      BY <3>1, <3>2, <3>3
  <2> QED
    BY <2>3, <2>4, <2>5 DEF Command, Calls
<1>3. CASE Tick
  <2>1. UNCHANGED <<pc, reply, owner>> /\ (claim' > 0 => claim > 0)
    BY <1>3, Nats DEF Tick
  <2> QED
    BY <2>1 DEF Holds
<1>4. CASE UNCHANGED vars
  BY <1>4 DEF vars, Holds
<1> QED
  BY <1>1, <1>2, <1>3, <1>4 DEF Next

(* A request that has been answered leaves no claim behind, however it      *)
(* ended: a retry need not wait for the claim to expire.  Lookups may fail, *)
(* be given up or be executed late.                                         *)
THEOREM ClaimReleased ==
  Unreliable \subseteq {"get"} /\ InTime => (Spec => []ClaimIsLive)
<1> SUFFICES ASSUME Unreliable \subseteq {"get"}, InTime PROVE Spec => []ClaimIsLive
  OBVIOUS
<1>1. Init => HInv /\ OwnersHold
  BY InitHolds DEF Init, OwnersHold
<1>2. HInv /\ OwnersHold /\ [Next]_vars => HInv' /\ OwnersHold'
  BY HoldsKept, OwnersKept DEF Dependable
<1>3. OwnersHold => ClaimIsLive
  BY DEF OwnersHold, ClaimIsLive, Holds
<1> QED
  BY <1>1, <1>2, <1>3, PTL DEF Spec
=============================================================================
