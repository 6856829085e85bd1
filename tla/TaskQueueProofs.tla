-------------------------- MODULE TaskQueueProofs --------------------------
(***************************************************************************)
(* Theorems about TaskQueue for every set of messages and of callbacks,    *)
(* every retry and restart bound.                                          *)
(***************************************************************************)
EXTENDS TaskQueue, TLAPS

USE DEF Statuses, Settled, Absent, MainPCs, DeadPCs, Answered

LEMMA InitTyped == Init => TypeOK
BY RetriesAssumption DEF Init, TypeOK, Copy

(* The steps of the API leave the worker alone. *)
LEMMA ApiTyped ==
  ASSUME TypeOK, NEW m \in Msgs, Api(m) \/ Expire(m)
  PROVE  TypeOK'
<1> USE RetriesAssumption DEF TypeOK, slotVars, linkVars, dbVars
<1>1. CASE DirectWrite(m)
  BY <1>1 DEF DirectWrite, ApplyWrite, FailWrite, FindNothing
<1>2. CASE SetState(m)
  BY <1>2 DEF SetState
<1>3. CASE Publish(m)
  <2>1. [id |-> m, retry |-> 0] \in Copy
    BY DEF Copy
  <2> QED
    BY <1>3, <2>1 DEF Publish
<1>4. CASE Expire(m)
  BY <1>4 DEF Expire, apiVars
<1> QED
  BY <1>1, <1>2, <1>3, <1>4 DEF Api

(* A callback that moves on within its attempt keeps a typed state. *)
LEMMA GotoTyped ==
  ASSUME TypeOK, NEW s \in Slots, pc[s] # "idle",
         NEW next \in MainPCs \cup DeadPCs, Goto(s, next)
  PROVE  /\ pc' \in [Slots -> {"idle"} \cup MainPCs \cup DeadPCs]
         /\ job' \in [Slots -> Copy \cup {NoJob}]
         /\ \A t \in Slots : pc'[t] # "idle" => job'[t] \in Copy
         /\ stale' \in [Slots -> BOOLEAN]
BY DEF TypeOK, Goto

LEMMA FreeTyped ==
  ASSUME TypeOK, NEW s \in Slots, Free(s)
  PROVE  /\ pc' \in [Slots -> {"idle"} \cup MainPCs \cup DeadPCs]
         /\ job' \in [Slots -> Copy \cup {NoJob}]
         /\ \A t \in Slots : pc'[t] # "idle" => job'[t] \in Copy
         /\ stale' \in [Slots -> BOOLEAN]
BY DEF TypeOK, Free

LEMMA UpdateTyped ==
  ASSUME TypeOK, NEW m \in Msgs, NEW new \in Statuses, NEW done,
         UpdateState(m, new, done)
  PROVE  status' \in [Msgs -> Statuses]
BY DEF TypeOK, UpdateState

LEMMA JobTyped ==
  ASSUME TypeOK, NEW s \in Slots, pc[s] # "idle"
  PROVE  job[s] \in Copy /\ job[s].id \in Msgs /\ job[s].retry \in 0..MaxRetries
BY DEF TypeOK, Copy

(* What the broker takes back are copies it delivered. *)
LEMMA RequeueTyped ==
  ASSUME TypeOK, NEW S \in SUBSET Slots, Requeue(S)
  PROVE  ready' \subseteq Copy /\ dead' \subseteq Copy
<1>1. \A s \in S : pc[s] # "idle" => job[s] \in Copy
  BY DEF TypeOK
<1>2. {job[s] : s \in {t \in S : pc[t] \in MainPCs}} \subseteq Copy
  BY <1>1
<1>3. {job[s] : s \in {t \in S : pc[t] \in DeadPCs}} \subseteq Copy
  BY <1>1
<1> QED
  BY <1>2, <1>3 DEF Requeue, TypeOK

LEMMA DieTyped ==
  ASSUME TypeOK, Die, restarts' \in 0..MaxRestarts
  PROVE  TypeOK'
<1> DEFINE lost == {s \in Slots : pc[s] \notin Answered}
<1>1. Requeue({s \in lost : ~stale[s]})
  BY DEF Die
<1>2. ready' \subseteq Copy /\ dead' \subseteq Copy
  <2> HIDE DEF lost
  <2>1. {s \in lost : ~stale[s]} \in SUBSET Slots
    BY DEF lost
  <2> QED
    BY <1>1, <2>1, RequeueTyped
<1>3. pc' \in [Slots -> {"idle"} \cup MainPCs \cup DeadPCs]
  BY DEF Die, TypeOK
<1>4. job' \in [Slots -> Copy \cup {NoJob}]
  BY DEF Die, TypeOK
<1>5. \A s \in Slots : pc'[s] # "idle" => job'[s] \in Copy
  BY DEF Die, TypeOK
<1> QED
  BY <1>2, <1>3, <1>4, <1>5 DEF Die, TypeOK, apiVars, dbVars

LEMMA CallbackTyped ==
  ASSUME TypeOK, NEW s \in Slots, Deliver(s) \/ Callback(s)
  PROVE  TypeOK'
<1>1. CASE Deliver(s)
  <2>1. PICK c \in Copy : job' = [job EXCEPT ![s] = c]
    BY <1>1 DEF Deliver, TypeOK
  <2> QED
    BY <1>1, <2>1 DEF Deliver, TypeOK, apiVars, linkVars, dbVars
<1>2. CASE GetState(s)
  BY <1>2, GotoTyped DEF GetState, TypeOK, apiVars, linkVars, dbVars
<1>3. CASE MarkInProgress(s)
  BY <1>3, GotoTyped, UpdateTyped, JobTyped
  DEF MarkInProgress, TypeOK, apiVars, linkVars, dbVars
<1>4. CASE RunWrite(s)
  <2>1. \/ dbVars' = dbVars \/ ApplyWrite(job[s].id)
        \/ FailWrite(job[s].id) \/ FindNothing(job[s].id)
    BY <1>4 DEF RunWrite
  <2>2. effects' \in [Msgs -> Nat] /\ lates' \in [Msgs -> Nat]
    BY <1>4, <2>1, JobTyped
    DEF RunWrite, ApplyWrite, FailWrite, FindNothing, TypeOK, dbVars
  <2> QED
    BY <1>4, <2>2, GotoTyped DEF RunWrite, TypeOK, apiVars, linkVars
<1>5. CASE ResetPending(s)
  BY <1>5, GotoTyped, UpdateTyped, JobTyped
  DEF ResetPending, TypeOK, apiVars, linkVars, dbVars
<1>6. CASE Settle(s)
  BY <1>6, GotoTyped, UpdateTyped, JobTyped
  DEF Settle, Verdict, TypeOK, apiVars, linkVars, dbVars
<1>7. CASE RetryOrReject(s)
  <2>1. job[s].retry < MaxRetries =>
          [job[s] EXCEPT !.retry = @ + 1] \in Copy
    BY <1>7, JobTyped, RetriesAssumption DEF RetryOrReject, Copy
  <2>2. ready' \subseteq Copy
    BY <1>7, <2>1 DEF RetryOrReject, TypeOK
  <2> QED
    BY <1>7, <2>2, GotoTyped DEF RetryOrReject, TypeOK, apiVars, linkVars, dbVars
<1>8. CASE Bury(s)
  BY <1>8, GotoTyped, UpdateTyped, JobTyped
  DEF Bury, TypeOK, apiVars, linkVars, dbVars
<1>9. CASE Ack(s)
  BY <1>9, FreeTyped DEF Ack, TypeOK, apiVars, linkVars, dbVars
<1>10. CASE Reject(s)
  BY <1>10, FreeTyped, JobTyped DEF Reject, TypeOK, apiVars, linkVars, dbVars
<1>11. CASE AnswerOnClosedChannel(s)
  BY <1>11, DieTyped DEF AnswerOnClosedChannel, TypeOK
<1> QED
  BY <1>1, <1>2, <1>3, <1>4, <1>5, <1>6, <1>7, <1>8, <1>9, <1>10, <1>11
  DEF Callback

LEMMA LinkTyped ==
  ASSUME TypeOK, Crash \/ ChannelClose \/ Resubscribe
  PROVE  TypeOK'
<1>1. CASE Crash
  BY <1>1, DieTyped, RetriesAssumption DEF Crash, TypeOK
<1>2. CASE ChannelClose
  <2>1. ready' \subseteq Copy /\ dead' \subseteq Copy
    BY <1>2, RequeueTyped DEF ChannelClose
  <2>2. pc' \in [Slots -> {"idle"} \cup MainPCs \cup DeadPCs]
    BY <1>2 DEF ChannelClose, TypeOK
  <2>3. job' \in [Slots -> Copy \cup {NoJob}]
    BY <1>2 DEF ChannelClose, TypeOK
  <2>4. \A s \in Slots : pc'[s] # "idle" => job'[s] \in Copy
    BY <1>2 DEF ChannelClose, TypeOK
  <2>5. restarts' \in 0..MaxRestarts
    BY <1>2, RetriesAssumption DEF ChannelClose, TypeOK
  <2> QED
    BY <1>2, <2>1, <2>2, <2>3, <2>4, <2>5
    DEF ChannelClose, TypeOK, apiVars, dbVars
<1>3. CASE Resubscribe
  BY <1>3 DEF Resubscribe, TypeOK, apiVars, slotVars, dbVars
<1> QED
  BY <1>1, <1>2, <1>3

(* Every state the queued write path reaches is well typed; in particular  *)
(* no copy is ever republished past x-max-retries.                         *)
THEOREM Typing == Spec => []TypeOK
<1>1. Init => TypeOK
  BY InitTyped
<1>2. TypeOK /\ [Next]_vars => TypeOK'
  <2> SUFFICES ASSUME TypeOK, [Next]_vars PROVE TypeOK'
    OBVIOUS
  <2>1. CASE Next
    BY <2>1, ApiTyped, CallbackTyped, LinkTyped DEF Next
  <2>2. CASE UNCHANGED vars
    BY <2>2 DEF vars, TypeOK
  <2> QED
    BY <2>1, <2>2
<1> QED
  BY <1>1, <1>2, PTL DEF Spec

-----------------------------------------------------------------------------
(* While the channel stays open, no callback belongs to a closed one. *)
Open == \A s \in Slots : ~stale[s]

LEMMA InitOpen == Init => Open
BY DEF Init, Open

LEMMA OpenKept ==
  ASSUME TypeOK, Open, "close" \notin Faults, [Next]_vars
  PROVE  Open'
<1> USE DEF Open
<1>1. ~ChannelClose
  BY DEF ChannelClose
<1>2. ASSUME NEW m \in Msgs, Api(m) \/ Expire(m)
      PROVE  stale' = stale
  BY <1>2 DEF Api, DirectWrite, SetState, Publish, Expire, slotVars
<1>3. ASSUME NEW s \in Slots, Deliver(s) \/ Callback(s)
      PROVE  stale' = stale
  BY <1>3 DEF Deliver, Callback, GetState, MarkInProgress, RunWrite, ResetPending,
     Settle, RetryOrReject, Bury, Ack, Reject, AnswerOnClosedChannel, Goto, Free
<1>4. CASE Crash
  BY <1>4 DEF Crash, Die
<1>5. CASE Resubscribe \/ UNCHANGED vars
  BY <1>5 DEF Resubscribe, slotVars, vars
<1> QED
  BY <1>1, <1>2, <1>3, <1>4, <1>5 DEF Next

-----------------------------------------------------------------------------
(* AtMostOnce while every call to the cache answers and the channel stays  *)
(* open.  The invariant is OnceInv: one carrier per message, and no carrier *)
(* left that may run the write once one write was acknowledged.             *)
Quiet == "store" \notin Faults /\ "close" \notin Faults

IInv == TypeOK /\ OnceInv /\ Open

LEMMA OnlyOutcome ==
  ASSUME Quiet, NEW o \in Outcomes("store")
  PROVE  o.ok /\ o.done
BY DEF Quiet, Outcomes

LEMMA InitOnce == Init => IInv
<1> SUFFICES ASSUME Init PROVE IInv
  OBVIOUS
<1>1. TypeOK
  BY InitTyped
<1>2. \A s \in Slots : ~Holds(s)
  BY DEF Init, Holds
<1>3. OneCarrier /\ \A m \in Msgs : ~Carried(m)
  BY <1>2 DEF Init, OneCarrier, Carried
<1> QED
  BY <1>1, <1>3, InitOpen DEF Init, IInv, OnceInv, NotYetSent, MayStillRun, AtMostOnce

(* Before its message is published, nobody but the API touches a request. *)
LEMMA ApiOnce ==
  ASSUME IInv, Quiet, NEW m \in Msgs, Api(m) \/ Expire(m)
  PROVE  OnceInv'
<1> USE DEF IInv, OnceInv, slotVars, linkVars, dbVars, apiVars
<1>1. CASE DirectWrite(m)
  <2>1. ~Carried(m) /\ effects[m] <= lates[m] /\ status[m] = Absent
    BY <1>1 DEF DirectWrite, NotYetSent
  <2>2. OneCarrier' /\ \A n \in Msgs : Carried(n)' <=> Carried(n)
    BY <1>1 DEF DirectWrite, OneCarrier, Holds, Carried
  <2>3. \A s \in Slots : Holds(s) => job[s].id # m
    BY <2>1 DEF Carried
  <2>4. /\ effects'[m] <= 1 + lates'[m]
        /\ req'[m] \in {"enqueue", "answered"}
        /\ req'[m] = "enqueue" => effects'[m] <= lates'[m]
        /\ \A n \in Msgs \ {m} : /\ effects'[n] = effects[n]
                                  /\ lates'[n] = lates[n]
                                  /\ req'[n] = req[n]
    BY <1>1, <2>1 DEF DirectWrite, ApplyWrite, FailWrite, FindNothing, TypeOK
  <2>5. NotYetSent'
    BY <1>1, <2>1, <2>2, <2>4 DEF DirectWrite, NotYetSent
  <2>6. AtMostOnce'
    BY <2>4 DEF AtMostOnce
  <2>7. \A n \in Msgs : status'[n] = "pending" => effects'[n] <= lates'[n]
    BY <1>1, <2>1, <2>4 DEF DirectWrite, MayStillRun
  <2>8. ASSUME NEW s \in Slots
        PROVE  /\ pc'[s] \in {"mark", "write", "reset"} =>
                    effects'[job'[s].id] <= lates'[job'[s].id]
               /\ pc'[s] = "write" => status'[job'[s].id] # "pending"
    BY <1>1, <2>3, <2>4, JobTyped DEF DirectWrite, MayStillRun, Holds
  <2> QED
    BY <2>2, <2>5, <2>6, <2>7, <2>8 DEF MayStillRun
<1>2. CASE SetState(m)
  <2>1. ~Carried(m) /\ effects[m] <= lates[m]
    BY <1>2 DEF SetState, NotYetSent
  <2>2. OneCarrier' /\ \A n \in Msgs : Carried(n)' <=> Carried(n)
    BY <1>2 DEF SetState, OneCarrier, Holds, Carried
  <2>3. status' = [status EXCEPT ![m] = "pending"] /\ req' = [req EXCEPT ![m] = "publish"]
    BY <1>2, OnlyOutcome DEF SetState
  <2>4. NotYetSent'
    BY <1>2, <2>1, <2>2, <2>3 DEF SetState, NotYetSent, TypeOK
  <2>5. AtMostOnce'
    BY <1>2 DEF SetState, AtMostOnce
  <2>6. \A n \in Msgs : status'[n] = "pending" => effects'[n] <= lates'[n]
    BY <1>2, <2>1, <2>3 DEF SetState, MayStillRun, TypeOK
  <2>7. ASSUME NEW s \in Slots
        PROVE  /\ pc'[s] \in {"mark", "write", "reset"} =>
                    effects'[job'[s].id] <= lates'[job'[s].id]
               /\ pc'[s] = "write" => status'[job'[s].id] # "pending"
    BY <1>2, <2>1, <2>3, JobTyped DEF SetState, MayStillRun, Holds, Carried, TypeOK
  <2> QED
    BY <2>2, <2>4, <2>5, <2>6, <2>7 DEF MayStillRun
<1>3. CASE Publish(m)
  <2> DEFINE c == [id |-> m, retry |-> 0]
  <2>1. ~Carried(m)
    BY <1>3 DEF Publish, NotYetSent
  <2>2. ready' \subseteq ready \cup {c} /\ c.id = m
    BY <1>3 DEF Publish
  <2>3. OneCarrier'
    BY <1>3, <2>1, <2>2 DEF Publish, OneCarrier, Carried, Holds
  <2>4. req'[m] \in {"accepted", "unavailable"} /\ \A n \in Msgs \ {m} : req'[n] = req[n]
    BY <1>3 DEF Publish, TypeOK
  <2>5. \A n \in Msgs \ {m} : Carried(n)' => Carried(n)
    BY <1>3, <2>2 DEF Publish, Carried, Holds
  <2>6. NotYetSent'
    BY <1>3, <2>4, <2>5 DEF Publish, NotYetSent
  <2> QED
    BY <1>3, <2>3, <2>6 DEF Publish, MayStillRun, AtMostOnce
<1>4. CASE Expire(m)
  <2>1. OneCarrier' /\ \A n \in Msgs : Carried(n)' <=> Carried(n)
    BY <1>4 DEF Expire, OneCarrier, Holds, Carried
  <2>2. status' = [status EXCEPT ![m] = Absent]
    BY <1>4 DEF Expire
  <2>3. NotYetSent'
    BY <1>4, <2>1, <2>2 DEF Expire, NotYetSent, TypeOK
  <2>4. MayStillRun'
    BY <1>4, <2>2, JobTyped DEF Expire, MayStillRun, TypeOK
  <2> QED
    BY <1>4, <2>1, <2>3, <2>4 DEF Expire, AtMostOnce
<1> QED
  BY <1>1, <1>2, <1>3, <1>4 DEF Api

(* A callback that moves on without publishing adds no carrier. *)
LEMMA GotoCarriers ==
  ASSUME IInv, NEW s \in Slots, Holds(s), NEW next, Goto(s, next),
         UNCHANGED <<ready, req>>
  PROVE  /\ OneCarrier'
         /\ \A m \in Msgs : Carried(m)' => Carried(m)
         /\ job' = job /\ pc' = [pc EXCEPT ![s] = next]
         /\ \A t \in Slots \ {s} : pc'[t] = pc[t]
         /\ \A t \in Slots \ {s} : Holds(t) => job[t].id # job[s].id
<1>1. job' = job /\ pc' = [pc EXCEPT ![s] = next] /\ ready' = ready
  BY DEF Goto
<1>2. \A t \in Slots \ {s} : pc'[t] = pc[t]
  BY <1>1 DEF IInv, TypeOK
<1>3. \A t \in Slots : Holds(t)' => Holds(t)
  BY <1>1, <1>2 DEF Holds
<1>4. OneCarrier'
  BY <1>1, <1>3 DEF IInv, OnceInv, OneCarrier
<1>5. \A m \in Msgs : Carried(m)' => Carried(m)
  BY <1>1, <1>3 DEF Carried
<1>6. \A t \in Slots \ {s} : Holds(t) => job[t].id # job[s].id
  BY DEF IInv, OnceInv, OneCarrier
<1> QED
  BY <1>1, <1>2, <1>4, <1>5, <1>6

(* A message some callback holds has been published. *)
LEMMA HeldIsSent ==
  ASSUME IInv, NEW s \in Slots, Holds(s)
  PROVE  /\ job[s].id \in Msgs
         /\ req[job[s].id] \notin {"new", "enqueue", "publish"}
<1>1. job[s].id \in Msgs
  BY JobTyped DEF IInv, Holds
<1> QED
  BY <1>1 DEF IInv, OnceInv, NotYetSent, Carried

LEMMA UpdateMeans ==
  ASSUME TypeOK, NEW m \in Msgs, NEW new \in Statuses, NEW done,
         UpdateState(m, new, done)
  PROVE  /\ \A n \in Msgs \ {m} : status'[n] = status[n]
         /\ status'[m] \in {status[m], new}
         /\ done /\ status[m] # Absent => status'[m] = new
         /\ status[m] = Absent => status'[m] = Absent
BY DEF TypeOK, UpdateState

LEMMA DeliverOnce ==
  ASSUME IInv, Quiet, NEW s \in Slots, Deliver(s)
  PROVE  OnceInv'
<1> USE DEF IInv, OnceInv, apiVars, linkVars, dbVars
<1>1. CASE \E c \in ready : /\ ready' = ready \ {c}
                            /\ job' = [job EXCEPT ![s] = c]
                            /\ pc' = [pc EXCEPT ![s] = "get"]
  <2>1. PICK c \in ready : /\ ready' = ready \ {c}
                           /\ job' = [job EXCEPT ![s] = c]
                           /\ pc' = [pc EXCEPT ![s] = "get"]
    BY <1>1
  <2>2. /\ job'[s] = c /\ pc'[s] = "get"
        /\ \A t \in Slots \ {s} : job'[t] = job[t] /\ pc'[t] = pc[t]
    BY <2>1 DEF TypeOK
  <2>3. OneCarrier'
    BY <2>1, <2>2 DEF OneCarrier, Holds
  <2>4. \A m \in Msgs : Carried(m)' => Carried(m)
    BY <2>1, <2>2 DEF Carried, Holds
  <2>5. NotYetSent'
    BY <2>4 DEF Deliver, NotYetSent
  <2>6. MayStillRun'
    BY <2>2 DEF Deliver, MayStillRun
  <2> QED
    BY <2>3, <2>5, <2>6 DEF Deliver, AtMostOnce
<1>2. CASE \E c \in dead : /\ ready' = ready
                           /\ job' = [job EXCEPT ![s] = c]
                           /\ pc' = [pc EXCEPT ![s] = "bury"]
  <2>1. PICK c \in dead : /\ ready' = ready
                          /\ job' = [job EXCEPT ![s] = c]
                          /\ pc' = [pc EXCEPT ![s] = "bury"]
    BY <1>2
  <2>2. /\ job'[s] = c /\ pc'[s] = "bury"
        /\ \A t \in Slots \ {s} : job'[t] = job[t] /\ pc'[t] = pc[t]
    BY <2>1 DEF TypeOK
  <2>3. OneCarrier'
    BY <2>1, <2>2 DEF OneCarrier, Holds
  <2>4. \A m \in Msgs : Carried(m)' => Carried(m)
    BY <2>1, <2>2 DEF Carried, Holds
  <2>5. NotYetSent'
    BY <2>4 DEF Deliver, NotYetSent
  <2>6. MayStillRun'
    BY <2>2 DEF Deliver, MayStillRun
  <2> QED
    BY <2>3, <2>5, <2>6 DEF Deliver, AtMostOnce
<1> QED
  BY <1>1, <1>2 DEF Deliver

(* The steps of an attempt: the state check, the write and its verdict. *)
LEMMA AttemptOnce ==
  ASSUME IInv, Quiet, NEW s \in Slots,
         GetState(s) \/ MarkInProgress(s) \/ RunWrite(s) \/ ResetPending(s)
           \/ Settle(s)
  PROVE  OnceInv'
<1> DEFINE m == job[s].id
<1> USE DEF IInv, OnceInv, apiVars, linkVars, dbVars
<1>0. Holds(s) /\ UNCHANGED <<ready, req>> /\ \E next \in MainPCs : Goto(s, next)
  BY DEF Holds, GetState, MarkInProgress, RunWrite, ResetPending, Settle
<1>a. PICK next \in MainPCs : Goto(s, next)
  BY <1>0
<1>b. /\ OneCarrier'
      /\ \A n \in Msgs : Carried(n)' => Carried(n)
      /\ job' = job /\ pc' = [pc EXCEPT ![s] = next]
      /\ \A t \in Slots \ {s} : pc'[t] = pc[t]
      /\ \A t \in Slots \ {s} : Holds(t) => job[t].id # m
  BY <1>0, <1>a, GotoCarriers
<1>c. m \in Msgs /\ req[m] \notin {"new", "enqueue", "publish"}
  BY <1>0, HeldIsSent
<1> HIDE DEF m
<1>1. CASE GetState(s)
  <2>1. pc'[s] \in {"mark", "done"} /\ (pc'[s] = "mark" => status[m] = "pending")
    BY <1>1, <1>b DEF GetState, Goto, Quiet, TypeOK, m
  <2>2. NotYetSent'
    BY <1>1, <1>b DEF GetState, NotYetSent
  <2>3. MayStillRun'
    BY <1>1, <1>b, <1>c, <2>1 DEF GetState, MayStillRun, m
  <2> QED
    BY <1>1, <1>b, <2>2, <2>3 DEF GetState, AtMostOnce
<1>2. CASE MarkInProgress(s)
  <2>1. UpdateState(m, "in_progress", TRUE) /\ pc'[s] = "write"
    BY <1>2, <1>b, OnlyOutcome DEF MarkInProgress, Goto, TypeOK, m, UpdateState
  <2>2. /\ \A n \in Msgs \ {m} : status'[n] = status[n]
        /\ status'[m] \in {"in_progress", Absent}
    BY <2>1, <1>c, UpdateMeans
  <2>3. NotYetSent'
    BY <1>2, <1>b, <1>c, <2>2 DEF MarkInProgress, NotYetSent
  <2>4. MayStillRun'
    BY <1>2, <1>b, <1>c, <2>1, <2>2, JobTyped
    DEF MarkInProgress, MayStillRun, Holds, m
  <2> QED
    BY <1>2, <1>b, <2>3, <2>4 DEF MarkInProgress, AtMostOnce
<1>3. CASE RunWrite(s)
  <2>1. effects[m] <= lates[m] /\ status[m] # "pending"
    BY <1>3 DEF RunWrite, MayStillRun, m
  <2>2. /\ effects'[m] <= 1 + lates'[m]
        /\ pc'[s] \in {"complete", "fail", "reset"}
        /\ pc'[s] = "reset" => effects'[m] <= lates'[m]
        /\ \A n \in Msgs \ {m} : effects'[n] = effects[n] /\ lates'[n] = lates[n]
    BY <1>3, <1>b, <1>c, <2>1
    DEF RunWrite, ApplyWrite, FailWrite, FindNothing, Goto, TypeOK, m
  <2>3. NotYetSent'
    BY <1>3, <1>b, <1>c, <2>2 DEF RunWrite, NotYetSent
  <2>4. \A n \in Msgs : status'[n] = "pending" => effects'[n] <= lates'[n]
    BY <1>3, <2>1, <2>2 DEF RunWrite, MayStillRun
  <2>5. ASSUME NEW t \in Slots
        PROVE  /\ pc'[t] \in {"mark", "write", "reset"} =>
                    effects'[job'[t].id] <= lates'[job'[t].id]
               /\ pc'[t] = "write" => status'[job'[t].id] # "pending"
    <3>1. CASE t = s
      BY <1>b, <2>2, <3>1 DEF m
    <3>2. CASE t # s
      BY <1>3, <1>b, <2>2, <3>2, JobTyped DEF RunWrite, MayStillRun, Holds
    <3> QED
      BY <3>1, <3>2
  <2>6. AtMostOnce'
    BY <2>2 DEF AtMostOnce
  <2> QED
    BY <1>b, <2>3, <2>4, <2>5, <2>6 DEF MayStillRun
<1>4. CASE ResetPending(s)
  <2>1. UpdateState(m, "pending", TRUE) /\ pc'[s] = "retry"
    BY <1>4, <1>b, OnlyOutcome DEF ResetPending, Goto, TypeOK, m, UpdateState
  <2>2. \A n \in Msgs \ {m} : status'[n] = status[n]
    BY <2>1, <1>c, UpdateMeans
  <2>3. effects[m] <= lates[m]
    BY <1>4 DEF ResetPending, MayStillRun, m
  <2>4. NotYetSent'
    BY <1>4, <1>b, <1>c, <2>2 DEF ResetPending, NotYetSent
  <2>5. MayStillRun'
    BY <1>4, <1>b, <1>c, <2>1, <2>2, <2>3, JobTyped
    DEF ResetPending, MayStillRun, Holds, m
  <2> QED
    BY <1>4, <1>b, <2>4, <2>5 DEF ResetPending, AtMostOnce
<1>5. CASE Settle(s)
  <2>1. PICK done : UpdateState(m, Verdict(pc[s]), done)
    BY <1>5 DEF Settle, m
  <2>2. /\ \A n \in Msgs \ {m} : status'[n] = status[n]
        /\ status'[m] \in {status[m], "completed", "failed"}
        /\ status[m] = Absent => status'[m] = Absent
    BY <2>1, <1>c, UpdateMeans DEF Verdict
  <2>3. pc'[s] = "done"
    BY <1>5, <1>b, OnlyOutcome DEF Settle, Goto, TypeOK
  <2>4. NotYetSent'
    BY <1>5, <1>b, <1>c, <2>2 DEF Settle, NotYetSent
  <2>5. MayStillRun'
    BY <1>5, <1>b, <1>c, <2>2, <2>3, JobTyped DEF Settle, MayStillRun, Holds, m
  <2> QED
    BY <1>5, <1>b, <2>4, <2>5 DEF Settle, AtMostOnce
<1> QED
  BY <1>1, <1>2, <1>3, <1>4, <1>5

(* The steps that answer the broker, and the dead-letter callback's. *)
LEMMA AnswerOnce ==
  ASSUME IInv, Quiet, NEW s \in Slots,
         RetryOrReject(s) \/ Bury(s) \/ Ack(s) \/ Reject(s)
  PROVE  OnceInv'
<1> USE DEF IInv, OnceInv, apiVars, linkVars, dbVars
<1>1. CASE RetryOrReject(s)
  <2> DEFINE m == job[s].id
             c == [job[s] EXCEPT !.retry = @ + 1]
  <2>1. Holds(s) /\ job' = job
    BY <1>1 DEF RetryOrReject, Holds, Goto
  <2>2. pc'[s] \in Answered /\ \A t \in Slots \ {s} : pc'[t] = pc[t]
    BY <1>1 DEF RetryOrReject, Goto, TypeOK
  <2>3. c.id = m
    BY <2>1, JobTyped DEF Holds, Copy
  <2>4. ready' \subseteq ready \cup {c}
    BY <1>1 DEF RetryOrReject
  <2>5. m \in Msgs /\ req[m] \notin {"new", "enqueue", "publish"}
    BY <2>1, HeldIsSent
  <2>6. /\ \A d \in ready : d.id # m
        /\ \A t \in Slots \ {s} : Holds(t) => job[t].id # m
    BY <2>1 DEF OneCarrier
  <2>7. ~Holds(s)' /\ \A t \in Slots \ {s} : Holds(t)' = Holds(t)
    BY <2>2 DEF Holds
  <2> HIDE DEF c, m
  <2>8. OneCarrier'
    BY <2>1, <2>3, <2>4, <2>6, <2>7 DEF OneCarrier
  <2>9. \A n \in Msgs \ {m} : Carried(n)' => Carried(n)
    BY <2>1, <2>3, <2>4, <2>7 DEF Carried
  <2>10. NotYetSent'
    BY <1>1, <2>5, <2>9 DEF RetryOrReject, NotYetSent
  <2>11. MayStillRun'
    BY <1>1, <2>1, <2>2 DEF RetryOrReject, MayStillRun
  <2> QED
    BY <1>1, <2>8, <2>10, <2>11 DEF RetryOrReject, AtMostOnce
<1>2. CASE Bury(s)
  <2> DEFINE m == job[s].id
  <2>1. job' = job /\ pc' = [pc EXCEPT ![s] = "buried"] /\ ready' = ready
    BY <1>2 DEF Bury, Goto
  <2>2. pc[s] = "bury" /\ pc'[s] = "buried" /\ \A t \in Slots \ {s} : pc'[t] = pc[t]
    BY <1>2, <2>1 DEF Bury, TypeOK
  <2>3. \A t \in Slots : Holds(t)' = Holds(t)
    BY <2>2 DEF Holds
  <2>4. OneCarrier' /\ \A n \in Msgs : Carried(n)' = Carried(n)
    BY <2>1, <2>3 DEF OneCarrier, Carried
  <2>5. PICK done : UpdateState(m, "failed", done)
    BY <1>2 DEF Bury
  <2>6. m \in Msgs
    BY <2>2, JobTyped
  <2>7. /\ \A n \in Msgs \ {m} : status'[n] = status[n]
        /\ status'[m] \in {status[m], "failed"}
        /\ status[m] = Absent => status'[m] = Absent
    BY <2>5, <2>6, UpdateMeans
  <2> HIDE DEF m
  <2>8. NotYetSent'
    BY <1>2, <2>4, <2>6, <2>7 DEF Bury, NotYetSent
  <2>9. MayStillRun'
    BY <1>2, <2>1, <2>2, <2>6, <2>7, JobTyped DEF Bury, MayStillRun
  <2> QED
    BY <1>2, <2>4, <2>8, <2>9 DEF Bury, AtMostOnce
<1>3. CASE Ack(s) \/ Reject(s)
  <2>1. /\ Free(s)
        /\ UNCHANGED <<req, status, ready, effects, lates>>
    BY <1>3 DEF Ack, Reject
  <2>2. /\ pc'[s] = "idle"
        /\ \A t \in Slots \ {s} : pc'[t] = pc[t] /\ job'[t] = job[t]
    BY <2>1 DEF Free, TypeOK
  <2>3. ~Holds(s)' /\ \A t \in Slots \ {s} : Holds(t)' = Holds(t)
    BY <2>2 DEF Holds
  <2>4. OneCarrier' /\ \A n \in Msgs : Carried(n)' => Carried(n)
    BY <2>1, <2>2, <2>3 DEF OneCarrier, Carried
  <2>5. NotYetSent'
    BY <2>1, <2>4 DEF NotYetSent
  <2>6. MayStillRun'
    BY <2>1, <2>2 DEF MayStillRun
  <2> QED
    BY <2>1, <2>4, <2>5, <2>6 DEF AtMostOnce
<1> QED
  BY <1>1, <1>2, <1>3

(* A crash turns every carrying callback into a carrying copy. *)
LEMMA CrashOnce ==
  ASSUME IInv, Quiet, Crash
  PROVE  OnceInv'
<1> USE DEF IInv, OnceInv, apiVars, linkVars, dbVars
<1>1. ready' = ready \cup {job[s] : s \in {t \in Slots : Holds(t)}}
  BY DEF Crash, Die, Requeue, Holds, Open
<1>2. \A s \in Slots : pc'[s] \in {"idle"} \cup Answered
  BY DEF Crash, Die, TypeOK
<1>3. \A s \in Slots : ~Holds(s)'
  BY <1>2 DEF Holds
<1>4. OneCarrier'
  BY <1>1, <1>3 DEF OneCarrier
<1>5. \A m \in Msgs : Carried(m)' => Carried(m)
  BY <1>1, <1>3 DEF Carried
<1>6. UNCHANGED <<req, status, effects, lates>>
  BY DEF Crash, Die
<1>7. NotYetSent'
  BY <1>5, <1>6 DEF NotYetSent
<1>8. MayStillRun'
  BY <1>2, <1>6 DEF MayStillRun
<1> QED
  BY <1>4, <1>6, <1>7, <1>8 DEF AtMostOnce

(* A message has one carrier, a copy in the main queue or a callback not    *)
(* yet done with it, and once its write was acknowledged, what still        *)
(* carries it will not run the write again.                                 *)
THEOREM OneCarrierEach == Quiet => (Spec => []OnceInv)
<1> SUFFICES ASSUME Quiet PROVE Spec => []OnceInv
  OBVIOUS
<1>1. Init => IInv
  BY InitOnce
<1>2. IInv /\ [Next]_vars => IInv'
  <2> SUFFICES ASSUME IInv, [Next]_vars PROVE IInv'
    OBVIOUS
  <2>1. TypeOK'
    <3>1. CASE Next
      BY <3>1, ApiTyped, CallbackTyped, LinkTyped DEF Next, IInv
    <3>2. CASE UNCHANGED vars
      BY <3>2 DEF vars, TypeOK, IInv
    <3> QED
      BY <3>1, <3>2
  <2>2. OnceInv'
    <3>1. ASSUME NEW m \in Msgs, Api(m) \/ Expire(m) PROVE OnceInv'
      BY <3>1, ApiOnce
    <3>2. ASSUME NEW s \in Slots, Deliver(s) \/ Callback(s) PROVE OnceInv'
      <4>1. ~AnswerOnClosedChannel(s)
        BY DEF AnswerOnClosedChannel, IInv, Open
      <4> QED
        BY <3>2, <4>1, DeliverOnce, AttemptOnce, AnswerOnce DEF Callback
    <3>3. CASE Crash
      BY <3>3, CrashOnce
    <3>4. ~ChannelClose
      BY DEF Quiet, ChannelClose
    <3>5. CASE Resubscribe \/ UNCHANGED vars
      BY <3>5 DEF Resubscribe, vars, apiVars, slotVars, dbVars, IInv, OnceInv,
         OneCarrier, NotYetSent, MayStillRun, AtMostOnce, Carried, Holds
    <3> QED
      BY <3>1, <3>2, <3>3, <3>4, <3>5 DEF Next
  <2> QED
    BY <2>1, <2>2, OpenKept DEF IInv, Quiet
<1>3. IInv => OnceInv
  BY DEF IInv
<1> QED
  BY <1>1, <1>2, <1>3, PTL DEF Spec

(* Redelivery after a crash, retries with backoff, the copy that back-      *)
(* pressure sends twice, expiry of the state, a publish that is reported    *)
(* failed and delivered all the same: none of them runs a write again that  *)
(* was acknowledged, as long as the cache answers the worker and the        *)
(* channel stays open.                                                      *)
THEOREM OnceOnly == Quiet => (Spec => []AtMostOnce)
<1>1. OnceInv => AtMostOnce
  BY DEF OnceInv
<1> QED
  BY <1>1, OneCarrierEach, PTL

-----------------------------------------------------------------------------
(* CompletedMeansApplied under every failure.  The invariant: attempts that *)
(* the caller learned of are never more than the attempts, and a callback   *)
(* on its way to report completed has had one that returned.                *)
AppliedInv ==
  /\ CompletedMeansApplied
  /\ \A m \in Msgs : lates[m] <= effects[m]
  /\ \A s \in Slots : pc[s] = "complete" => effects[job[s].id] > lates[job[s].id]

(* What a step does to the tallies of a message. *)
LEMMA TalliesGrow ==
  ASSUME TypeOK, [Next]_vars, NEW m \in Msgs
  PROVE  effects'[m] - lates'[m] >= effects[m] - lates[m]
<1> USE DEF TypeOK, dbVars
<1>1. ASSUME NEW n \in Msgs,
             ApplyWrite(n) \/ FailWrite(n) \/ FindNothing(n) \/ UNCHANGED dbVars
      PROVE  effects'[m] - lates'[m] >= effects[m] - lates[m]
  BY <1>1 DEF ApplyWrite, FailWrite, FindNothing
<1>2. ASSUME NEW n \in Msgs, Api(n) \/ Expire(n)
      PROVE  effects'[m] - lates'[m] >= effects[m] - lates[m]
  BY <1>1, <1>2 DEF Api, DirectWrite, SetState, Publish, Expire
<1>3. ASSUME NEW s \in Slots, RunWrite(s)
      PROVE  effects'[m] - lates'[m] >= effects[m] - lates[m]
  BY <1>1, <1>3, JobTyped DEF RunWrite
<1>4. ASSUME NEW s \in Slots, Deliver(s) \/ Callback(s), ~RunWrite(s)
      PROVE  UNCHANGED dbVars
  BY <1>4 DEF Callback, Deliver, GetState, MarkInProgress, ResetPending, Settle,
     RetryOrReject, Bury, Ack, Reject, AnswerOnClosedChannel, Die
<1>5. ASSUME Crash \/ ChannelClose \/ Resubscribe \/ UNCHANGED vars
      PROVE  UNCHANGED dbVars
  BY <1>5 DEF Crash, Die, ChannelClose, Resubscribe, vars
<1> QED
  BY <1>2, <1>3, <1>4, <1>5 DEF Next

(* completed is written by a callback that stands at complete, and such a   *)
(* callback has just seen a write return.                                   *)
LEMMA CompletedFrom ==
  ASSUME TypeOK, [Next]_vars
  PROVE  /\ \A m \in Msgs : status'[m] = "completed" =>
              \/ status[m] = "completed"
              \/ \E s \in Slots : pc[s] = "complete" /\ job[s].id = m
         /\ \A s \in Slots : pc'[s] = "complete" =>
              /\ job'[s] = job[s]
              /\ pc[s] = "complete" \/ (pc[s] = "write" /\ ApplyWrite(job[s].id))
<1> USE DEF TypeOK
<1>1. ASSUME NEW m \in Msgs, Api(m) \/ Expire(m)
      PROVE  /\ UNCHANGED <<pc, job>>
             /\ \A n \in Msgs : status'[n] = "completed" => status[n] = "completed"
  BY <1>1 DEF Api, DirectWrite, SetState, Publish, Expire, slotVars
<1>2. ASSUME NEW s \in Slots,
             Deliver(s) \/ GetState(s) \/ RetryOrReject(s) \/ Ack(s) \/ Reject(s)
      PROVE  /\ status' = status
             /\ \A t \in Slots : pc'[t] = "complete" => pc[t] = "complete" /\ job'[t] = job[t]
  BY <1>2 DEF Deliver, GetState, RetryOrReject, Ack, Reject, Goto, Free
<1>3. ASSUME NEW s \in Slots, RunWrite(s)
      PROVE  /\ status' = status /\ job' = job
             /\ \A t \in Slots : pc'[t] = "complete" =>
                  pc[t] = "complete" \/ (t = s /\ pc[s] = "write" /\ ApplyWrite(job[s].id))
  BY <1>3 DEF RunWrite, Goto
<1>4. ASSUME NEW s \in Slots,
             MarkInProgress(s) \/ ResetPending(s) \/ Settle(s) \/ Bury(s)
      PROVE  /\ job' = job
             /\ \A t \in Slots : pc'[t] = "complete" => pc[t] = "complete"
             /\ \A m \in Msgs : status'[m] = "completed" =>
                  status[m] = "completed" \/ (pc[s] = "complete" /\ job[s].id = m)
  BY <1>4, JobTyped, UpdateMeans
  DEF MarkInProgress, ResetPending, Settle, Bury, Goto, Verdict
<1>5. ASSUME Die \/ ChannelClose
      PROVE  /\ status' = status
             /\ \A t \in Slots : pc'[t] = "complete" => pc[t] = "complete" /\ job'[t] = job[t]
  BY <1>5 DEF Die, ChannelClose
<1>6. ASSUME Resubscribe \/ UNCHANGED vars
      PROVE  UNCHANGED <<status, pc, job>>
  BY <1>6 DEF Resubscribe, vars, slotVars
<1> QED
  BY <1>1, <1>2, <1>3, <1>4, <1>5, <1>6
  DEF Next, Callback, AnswerOnClosedChannel, Crash

(* GET /tasks/queued/:id answers completed only for a write that the        *)
(* database acknowledged to the worker or the API, whatever fails: lost     *)
(* channels, failing cache calls and dying workers included.                *)
THEOREM CompletedIsApplied == Spec => []CompletedMeansApplied
<1>1. Init => TypeOK /\ AppliedInv
  BY InitTyped DEF Init, AppliedInv, CompletedMeansApplied
<1>2. TypeOK /\ AppliedInv /\ [Next]_vars => AppliedInv'
  <2> SUFFICES ASSUME TypeOK, AppliedInv, [Next]_vars PROVE AppliedInv'
    OBVIOUS
  <2> USE DEF AppliedInv, TypeOK
  <2>0. TypeOK'
    <3>1. CASE Next
      BY <3>1, ApiTyped, CallbackTyped, LinkTyped DEF Next
    <3>2. CASE UNCHANGED vars
      BY <3>2 DEF vars
    <3> QED
      BY <3>1, <3>2
  <2>1. \A m \in Msgs : lates'[m] <= effects'[m]
    BY <2>0, TalliesGrow
  <2>2. CompletedMeansApplied'
    BY <2>0, TalliesGrow, CompletedFrom DEF CompletedMeansApplied
  <2>3. ASSUME NEW s \in Slots, pc'[s] = "complete"
        PROVE  effects'[job'[s].id] > lates'[job'[s].id]
    <3>1. job'[s] = job[s] /\ job[s].id \in Msgs
      BY <2>3, CompletedFrom, JobTyped
    <3>2. CASE pc[s] = "complete"
      BY <2>0, <3>1, <3>2, TalliesGrow
    <3>3. CASE ApplyWrite(job[s].id)
      BY <2>0, <3>1, <3>3 DEF ApplyWrite
    <3> QED
      BY <2>3, <3>2, <3>3, CompletedFrom
  <2> QED
    BY <2>1, <2>2, <2>3
<1>3. AppliedInv => CompletedMeansApplied
  BY DEF AppliedInv
<1> QED
  BY <1>1, <1>2, <1>3, Typing, PTL DEF Spec

-----------------------------------------------------------------------------
(* PendingIsCarried while calls to the cache answer and the channel stays   *)
(* open.  Apart from types, it is inductive: whoever writes pending goes on *)
(* to hand the message back, and whoever lets go of it passes it on.        *)
Caring(m) ==
  \/ \E c \in ready \cup dead : c.id = m
  \/ \E s \in Slots : job[s].id = m /\ (Handling(s, m) \/ pc[s] = "bury")

(* A call that returns has been carried out. *)
LEMMA OkIsDone ==
  ASSUME NEW fault, NEW o \in Outcomes(fault), o.ok
  PROVE  o.done
<1>1. o = [ok |-> TRUE, done |-> TRUE] \/ o \in [ok : {FALSE}, done : BOOLEAN]
  BY DEF Outcomes
<1>2. o \in [ok : {FALSE}, done : BOOLEAN] => o.ok = FALSE
  OBVIOUS
<1>3. o = [ok |-> TRUE, done |-> TRUE]
  BY <1>1, <1>2
<1> QED
  BY <1>3

(* The steps of the API: what is published is there to be delivered. *)
LEMMA ApiCarries ==
  ASSUME TypeOK, PendingIsCarried, NEW n \in Msgs, Api(n) \/ Expire(n)
  PROVE  PendingIsCarried'
<1> SUFFICES ASSUME NEW m \in Msgs, req'[m] = "accepted", status'[m] = "pending"
             PROVE  Caring(m)'
  BY DEF PendingIsCarried, Caring
<1>1. /\ ready \subseteq ready' /\ dead' = dead /\ UNCHANGED slotVars
      /\ Caring(m) => Caring(m)'
  BY DEF Api, DirectWrite, SetState, Publish, Expire, slotVars, Caring, Handling
<1>2. CASE DirectWrite(n) \/ Expire(n)
  BY <1>1, <1>2 DEF DirectWrite, Expire, apiVars, TypeOK, PendingIsCarried, Caring
<1>3. CASE SetState(n)
  BY <1>1, <1>3 DEF SetState, TypeOK, PendingIsCarried, Caring
<1>4. CASE Publish(n)
  <2>1. m # n => req[m] = "accepted"
    BY <1>4 DEF Publish, TypeOK
  <2>2. m = n => [id |-> m, retry |-> 0] \in ready'
    BY <1>4, OkIsDone DEF Publish, TypeOK
  <2>3. m = n => Caring(m)'
    BY <2>2 DEF Caring
  <2> QED
    BY <1>1, <1>4, <2>1, <2>3 DEF Publish, PendingIsCarried, Caring
<1> QED
  BY <1>2, <1>3, <1>4 DEF Api

(* The steps of a callback, which answer the broker only when the message  *)
(* is settled or handed back.                                               *)
LEMMA CallbackCarries ==
  ASSUME TypeOK, Open, PendingIsCarried, Quiet,
         NEW s \in Slots, Deliver(s) \/ Callback(s)
  PROVE  PendingIsCarried'
<1> USE DEF TypeOK
<1> SUFFICES ASSUME NEW m \in Msgs, req'[m] = "accepted", status'[m] = "pending"
             PROVE  Caring(m)'
  BY DEF PendingIsCarried, Caring
<1>0. req' = req /\ ~AnswerOnClosedChannel(s)
  BY DEF Deliver, Callback, GetState, MarkInProgress, RunWrite, ResetPending,
     Settle, RetryOrReject, Bury, Ack, Reject, AnswerOnClosedChannel, apiVars, Open
<1>1. CASE Deliver(s)
  <2>1. status[m] = "pending" /\ Caring(m)
    BY <1>0, <1>1 DEF Deliver, PendingIsCarried, Caring
  <2>2. PICK c \in ready \cup dead :
          /\ ready \subseteq ready' \cup {c} /\ dead \subseteq dead' \cup {c}
          /\ job' = [job EXCEPT ![s] = c]
          /\ pc' \in {[pc EXCEPT ![s] = "get"], [pc EXCEPT ![s] = "bury"]}
    BY <1>1 DEF Deliver
  <2>3. c.id = m => Caring(m)'
    BY <2>2 DEF Caring, Handling
  <2>4. ASSUME NEW d \in ready \cup dead, d.id = m, d # c
        PROVE  Caring(m)'
    BY <2>2, <2>4 DEF Caring
  <2>5. ASSUME NEW t \in Slots, job[t].id = m, Handling(t, m) \/ pc[t] = "bury"
        PROVE  Caring(m)'
    <3>1. t # s
      BY <1>1, <2>5 DEF Deliver, Handling
    <3>2. job'[t] = job[t] /\ pc'[t] = pc[t]
      BY <2>2, <3>1
    <3> QED
      BY <2>5, <3>2 DEF Caring, Handling
  <2> QED
    BY <2>1, <2>3, <2>4, <2>5 DEF Caring
<1>2. ASSUME NEW next, Goto(s, next), UNCHANGED <<ready, dead>>,
             \/ next \in MainPCs \ {"done", "sent"} /\ pc[s] \in MainPCs
             \/ job[s].id # m
             \/ pc[s] \notin (MainPCs \ {"done", "sent"}) \cup {"bury"},
             \/ Caring(m)
             \/ job[s].id = m /\ next \in MainPCs \ {"done", "sent"}
      PROVE  Caring(m)'
  <2>1. /\ job' = job /\ \A t \in Slots \ {s} : pc'[t] = pc[t]
        /\ pc'[s] = next
    BY <1>2 DEF Goto
  <2>2. ASSUME NEW t \in Slots, job[t].id = m, Handling(t, m) \/ pc[t] = "bury"
        PROVE  Caring(m)'
    <3>1. CASE t = s
      BY <1>2, <2>1, <2>2, <3>1 DEF Caring, Handling
    <3>2. CASE t # s
      BY <2>1, <2>2, <3>2 DEF Caring, Handling
    <3> QED
      BY <3>1, <3>2
  <2>3. job[s].id = m /\ next \in MainPCs \ {"done", "sent"} => Caring(m)'
    BY <2>1 DEF Caring, Handling
  <2> QED
    BY <1>2, <2>2, <2>3 DEF Caring
<1>3. CASE GetState(s)
  <2>1. status[m] = "pending" /\ Caring(m)
    BY <1>0, <1>3 DEF GetState, PendingIsCarried, Caring
  <2>2. Goto(s, "mark") \/ (job[s].id # m /\ Goto(s, "done"))
    BY <1>3, <2>1 DEF GetState, Quiet
  <2> QED
    BY <1>2, <1>3, <2>1, <2>2 DEF GetState
<1>4. CASE MarkInProgress(s)
  <2>1. job[s].id # m /\ status[m] = "pending"
    BY <1>4, OnlyOutcome, JobTyped DEF MarkInProgress, UpdateState
  <2>2. Caring(m)
    BY <1>0, <2>1 DEF PendingIsCarried, Caring
  <2> QED
    BY <1>2, <1>4, <2>1, <2>2 DEF MarkInProgress
<1>5. CASE RunWrite(s)
  <2>1. Caring(m)
    BY <1>0, <1>5 DEF RunWrite, PendingIsCarried, Caring
  <2> QED
    BY <1>2, <1>5, <2>1 DEF RunWrite
<1>6. CASE ResetPending(s)
  <2>1. job[s].id # m => status[m] = "pending"
    BY <1>6, UpdateMeans, JobTyped DEF ResetPending
  <2>2. job[s].id # m => Caring(m)
    BY <1>0, <2>1 DEF PendingIsCarried, Caring
  <2> QED
    BY <1>2, <1>6, <2>2 DEF ResetPending
<1>7. CASE Settle(s)
  <2>1. job[s].id # m /\ status[m] = "pending"
    BY <1>7, OnlyOutcome, JobTyped DEF Settle, UpdateState, Verdict
  <2>2. Caring(m)
    BY <1>0, <2>1 DEF PendingIsCarried, Caring
  <2> QED
    BY <1>2, <1>7, <2>1, <2>2 DEF Settle
<1>8. CASE RetryOrReject(s)
  <2>1. status[m] = "pending" /\ Caring(m)
    BY <1>0, <1>8 DEF RetryOrReject, PendingIsCarried, Caring
  <2>2. CASE Goto(s, "reject") /\ UNCHANGED ready
    BY <1>2, <1>8, <2>1, <2>2 DEF RetryOrReject
  <2>3. CASE ready' = ready \cup {[job[s] EXCEPT !.retry = @ + 1]}
    <3>1. [job[s] EXCEPT !.retry = @ + 1].id = job[s].id
      BY <1>8, JobTyped DEF RetryOrReject, Copy
    <3>2. job[s].id = m => Caring(m)'
      BY <2>3, <3>1 DEF Caring
    <3>3. ASSUME NEW t \in Slots \ {s} PROVE job'[t] = job[t] /\ pc'[t] = pc[t]
      BY <1>8 DEF RetryOrReject, Goto
    <3>4. job[s].id # m => Caring(m)'
      BY <1>8, <2>1, <2>3, <3>3 DEF Caring, Handling, RetryOrReject
    <3> QED
      BY <3>2, <3>4
  <2> QED
    BY <1>8, <2>2, <2>3 DEF RetryOrReject
<1>9. CASE Bury(s)
  <2>1. job[s].id # m /\ status[m] = "pending"
    BY <1>9, OnlyOutcome, JobTyped DEF Bury, UpdateState
  <2>2. Caring(m)
    BY <1>0, <2>1 DEF PendingIsCarried, Caring
  <2> QED
    BY <1>2, <1>9, <2>1, <2>2 DEF Bury
<1>10. CASE Ack(s) \/ Reject(s)
  <2>1. status[m] = "pending" /\ Caring(m)
    BY <1>0, <1>10 DEF Ack, Reject, PendingIsCarried, Caring
  <2>2. ready' = ready /\ dead \subseteq dead' /\ (Reject(s) => job[s] \in dead')
    BY <1>10 DEF Ack, Reject
  <2>3. ASSUME NEW t \in Slots \ {s} PROVE job'[t] = job[t] /\ pc'[t] = pc[t]
    BY <1>10 DEF Ack, Reject, Free
  <2>4. ASSUME NEW t \in Slots, job[t].id = m, Handling(t, m) \/ pc[t] = "bury"
        PROVE  Caring(m)'
    <3>1. CASE t = s
      BY <1>10, <2>2, <2>4, <3>1 DEF Ack, Reject, Handling, Caring
    <3>2. CASE t # s
      BY <2>3, <2>4, <3>2 DEF Caring, Handling
    <3> QED
      BY <3>1, <3>2
  <2> QED
    BY <2>1, <2>2, <2>4 DEF Caring
<1> QED
  BY <1>0, <1>1, <1>3, <1>4, <1>5, <1>6, <1>7, <1>8, <1>9, <1>10 DEF Callback

(* A worker that dies gives the broker back all that it held. *)
LEMMA CrashCarries ==
  ASSUME TypeOK, Open, PendingIsCarried, Crash
  PROVE  PendingIsCarried'
<1> SUFFICES ASSUME NEW m \in Msgs, req'[m] = "accepted", status'[m] = "pending"
             PROVE  Caring(m)'
  BY DEF PendingIsCarried, Caring
<1>1. Caring(m)
  BY DEF Crash, Die, apiVars, PendingIsCarried, Caring
<1>2. /\ ready' = ready \cup {job[s] : s \in {t \in Slots : pc[t] \in MainPCs \ Answered}}
      /\ dead' = dead \cup {job[s] : s \in {t \in Slots : pc[t] \in DeadPCs}}
  BY DEF Crash, Die, Requeue, Open
<1>3. ASSUME NEW s \in Slots, job[s].id = m, Handling(s, m) \/ pc[s] = "bury"
      PROVE  Caring(m)'
  <2>1. CASE pc[s] = "reject"
    <3>1. pc'[s] = pc[s] /\ job'[s] = job[s]
      BY <2>1 DEF Crash, Die, TypeOK
    <3> QED
      BY <1>3, <2>1, <3>1 DEF Caring, Handling
  <2>2. CASE pc[s] # "reject"
    <3>1. job[s] \in ready' \cup dead'
      BY <1>2, <1>3, <2>2 DEF Handling
    <3> QED
      BY <1>3, <3>1 DEF Caring
  <2> QED
    BY <2>1, <2>2
<1> QED
  BY <1>1, <1>2, <1>3 DEF Caring

(* A client that was told 202 and reads pending does not wait in vain: the  *)
(* broker or a callback that has not settled the message still holds it,    *)
(* through retries, backpressure, dead-lettering and dying workers, while   *)
(* the cache answers and the channel stays open.                            *)
THEOREM NeverDropped == Quiet => (Spec => []PendingIsCarried)
<1> SUFFICES ASSUME Quiet PROVE Spec => []PendingIsCarried
  OBVIOUS
<1>1. Init => Open /\ PendingIsCarried
  BY InitOpen DEF Init, PendingIsCarried
<1>2. TypeOK /\ Open /\ PendingIsCarried /\ [Next]_vars => Open' /\ PendingIsCarried'
  <2> SUFFICES ASSUME TypeOK, Open, PendingIsCarried, [Next]_vars
               PROVE  Open' /\ PendingIsCarried'
    OBVIOUS
  <2>1. Open'
    BY OpenKept DEF Quiet
  <2>2. ~ChannelClose
    BY DEF Quiet, ChannelClose
  <2>3. CASE Resubscribe \/ UNCHANGED vars
    BY <2>1, <2>3 DEF Resubscribe, vars, apiVars, slotVars, PendingIsCarried, Handling
  <2> QED
    BY <2>1, <2>2, <2>3, ApiCarries, CallbackCarries, CrashCarries DEF Next
<1> QED
  BY <1>1, <1>2, Typing, PTL DEF Spec

-----------------------------------------------------------------------------
(* InProgressIsRunning while the worker lives, its channel stays open and   *)
(* the cache answers: whoever marks a message is the one that unmarks it.   *)
Running(s, m) ==
  pc[s] \in {"write", "reset", "complete", "fail"} /\ job[s].id = m

LEMMA RunningKept ==
  ASSUME TypeOK, Open, Quiet, "crash" \notin Faults, InProgressIsRunning, [Next]_vars
  PROVE  InProgressIsRunning'
<1> USE DEF TypeOK
<1> SUFFICES ASSUME NEW m \in Msgs, status'[m] = "in_progress"
             PROVE  \E s \in Slots : Running(s, m)'
  BY DEF InProgressIsRunning, Running
<1>1. ASSUME status[m] = "in_progress", UNCHANGED <<pc, job>>
      PROVE  \E s \in Slots : Running(s, m)'
  BY <1>1 DEF InProgressIsRunning, Running
<1>2. ASSUME status[m] = "in_progress", NEW s \in Slots,
             \A t \in Slots \ {s} : pc'[t] = pc[t] /\ job'[t] = job[t],
             Running(s, m) => Running(s, m)'
      PROVE  \E t \in Slots : Running(t, m)'
  BY <1>2 DEF InProgressIsRunning, Running
<1>3. ASSUME NEW n \in Msgs, Api(n) \/ Expire(n)
      PROVE  \E s \in Slots : Running(s, m)'
  BY <1>1, <1>3 DEF Api, DirectWrite, SetState, Publish, Expire, slotVars
<1>4. ASSUME NEW s \in Slots, Deliver(s) \/ Callback(s)
      PROVE  \E t \in Slots : Running(t, m)'
  <2>1. CASE Deliver(s) \/ Ack(s) \/ Reject(s) \/ RetryOrReject(s) \/ GetState(s)
    BY <1>2, <2>1
    DEF Deliver, Ack, Reject, RetryOrReject, GetState, Free, Goto, Running
  <2>2. CASE MarkInProgress(s)
    <3>1. pc'[s] = "write" /\ job' = job
          /\ \A t \in Slots \ {s} : pc'[t] = pc[t]
      BY <2>2, OnlyOutcome DEF MarkInProgress, Goto
    <3>2. job[s].id # m => status[m] = "in_progress"
      BY <2>2, JobTyped, UpdateMeans DEF MarkInProgress
    <3> QED
      BY <1>2, <3>1, <3>2 DEF Running
  <2>3. CASE RunWrite(s)
    BY <1>2, <2>3 DEF RunWrite, Goto, Running
  <2>4. CASE ResetPending(s) \/ Settle(s) \/ Bury(s)
    <3>1. PICK new \in {"pending", "completed", "failed"} :
            UpdateState(job[s].id, new, TRUE)
      BY <2>4, OnlyOutcome DEF ResetPending, Settle, Bury, Verdict, UpdateState
    <3>2. job[s].id \in Msgs
      BY <2>4, JobTyped DEF ResetPending, Settle, Bury
    <3>3. job[s].id # m /\ status[m] = "in_progress"
      BY <3>1, <3>2 DEF UpdateState
    <3> QED
      BY <1>2, <2>4, <3>3 DEF ResetPending, Settle, Bury, Goto, Running
  <2>5. ~AnswerOnClosedChannel(s)
    BY DEF AnswerOnClosedChannel, Open
  <2> QED
    BY <1>4, <2>1, <2>2, <2>3, <2>4, <2>5 DEF Callback
<1>5. ~Crash /\ ~ChannelClose
  BY DEF Crash, ChannelClose, Quiet
<1>6. CASE Resubscribe \/ UNCHANGED vars
  BY <1>1, <1>6 DEF Resubscribe, vars, slotVars
<1> QED
  BY <1>3, <1>4, <1>5, <1>6 DEF Next

(* in_progress is read only while a callback is at the write or about to    *)
(* record what came of it, whatever the database, the publish and the TTL   *)
(* of the state do, as long as the worker lives, its channel stays open and *)
(* the cache answers.                                                       *)
THEOREM InProgressRuns ==
  Quiet /\ "crash" \notin Faults => (Spec => []InProgressIsRunning)
<1> SUFFICES ASSUME Quiet, "crash" \notin Faults
             PROVE  Spec => []InProgressIsRunning
  OBVIOUS
<1>1. Init => Open /\ InProgressIsRunning
  BY InitOpen DEF Init, InProgressIsRunning
<1>2. TypeOK /\ Open /\ InProgressIsRunning /\ [Next]_vars
        => Open' /\ InProgressIsRunning'
  BY OpenKept, RunningKept DEF Quiet
<1> QED
  BY <1>1, <1>2, Typing, PTL DEF Spec

-----------------------------------------------------------------------------
(* BoundedDuplication while the channel stays open, the cache may fail.  A  *)
(* message has one carrier (OneCarrier), and a carrier answers for what has *)
(* been tried by then: one attempt of the API, one for each retry before    *)
(* this one, one for each worker death, and its own if it is behind it.     *)
Unpublished == \A m \in Msgs : req[m] \in {"new", "enqueue", "publish"} => ~Carried(m)

Carriers == OneCarrier /\ Unpublished

Spent(s) == IF pc[s] \in {"complete", "fail", "reset", "retry", "done"} THEN 1 ELSE 0

Attempts ==
  /\ \A m \in Msgs :
       /\ req[m] = "new" => effects[m] = 0
       /\ req[m] \in {"enqueue", "publish"} => effects[m] <= 1
  /\ \A c \in ready : effects[c.id] <= 1 + c.retry + restarts
  /\ \A s \in Slots :
       Holds(s) => effects[job[s].id] <= 1 + job[s].retry + restarts + Spent(s)

DupInv == Open /\ Carriers /\ Attempts /\ BoundedDuplication

LEMMA CopyTyped ==
  ASSUME TypeOK
  PROVE  /\ \A c \in ready : c.id \in Msgs /\ c.retry \in Nat /\ c.retry <= MaxRetries
         /\ \A s \in Slots : Holds(s) =>
              /\ job[s].id \in Msgs /\ job[s].retry \in Nat
              /\ job[s].retry <= MaxRetries
         /\ restarts \in Nat /\ \A m \in Msgs : effects[m] \in Nat
<1> USE RetriesAssumption DEF TypeOK
<1>1. \A c \in Copy : c.id \in Msgs /\ c.retry \in Nat /\ c.retry <= MaxRetries
  BY DEF Copy
<1>2. \A s \in Slots : Holds(s) => job[s] \in Copy
  BY DEF Holds
<1> QED
  BY <1>1, <1>2

(* A step that creates no carrier and no effect. *)
LEMMA QuietStep ==
  ASSUME TypeOK, DupInv,
         UNCHANGED <<ready, effects, restarts>>,
         \A m \in Msgs : req'[m] = req[m] \/
           (req[m] = "enqueue" /\ req'[m] \in {"publish", "unavailable"}),
         \A s \in Slots : Holds(s)' =>
           Holds(s) /\ job'[s] = job[s] /\ Spent(s) <= Spent(s)'
  PROVE  (Carriers /\ Attempts /\ BoundedDuplication)'
<1>1. OneCarrier'
  BY DEF DupInv, Carriers, OneCarrier
<1>2. Unpublished'
  BY DEF DupInv, Carriers, Unpublished, Carried
<1>3. \A s \in Slots : Spent(s) \in Nat /\ Spent(s)' \in Nat
  BY DEF Spent
<1>4. Attempts'
  BY <1>3, CopyTyped DEF DupInv, Attempts
<1> QED
  BY <1>1, <1>2, <1>4 DEF DupInv, Carriers, BoundedDuplication

LEMMA ApiBounded ==
  ASSUME TypeOK, DupInv, NEW m \in Msgs, Api(m) \/ Expire(m)
  PROVE  (Carriers /\ Attempts /\ BoundedDuplication)'
<1> USE DEF TypeOK
<1>0. \A s \in Slots : /\ Holds(s)' <=> Holds(s)
                       /\ job'[s] = job[s] /\ Spent(s)' = Spent(s)
  BY DEF Api, DirectWrite, SetState, Publish, Expire, slotVars, Holds, Spent
<1>1. CASE DirectWrite(m)
  <2>1. /\ UNCHANGED <<ready, restarts>> /\ effects'[m] \in {effects[m], effects[m] + 1}
        /\ req'[m] \in {"answered", "enqueue"} /\ effects[m] = 0 /\ ~Carried(m)
        /\ \A n \in Msgs \ {m} : req'[n] = req[n] /\ effects'[n] = effects[n]
    BY <1>1 DEF DirectWrite, ApplyWrite, FailWrite, FindNothing, dbVars, linkVars,
       DupInv, Carriers, Unpublished, Attempts
  <2>2. OneCarrier'
    BY <1>0, <2>1 DEF DupInv, Carriers, OneCarrier
  <2>3. \A n \in Msgs : Carried(n)' <=> Carried(n)
    BY <1>0, <2>1 DEF Carried
  <2>4. Unpublished'
    BY <2>1, <2>3 DEF DupInv, Carriers, Unpublished
  <2>5. /\ \A c \in ready : c.id # m
        /\ \A s \in Slots : Holds(s) => job[s].id # m
    BY <2>1 DEF Carried
  <2>6. Attempts'
    BY <1>0, <2>1, <2>5, CopyTyped DEF DupInv, Attempts
  <2>7. BoundedDuplication'
    BY <2>1, RetriesAssumption, CopyTyped DEF DupInv, BoundedDuplication
  <2> QED
    BY <2>2, <2>4, <2>6, <2>7 DEF Carriers
<1>2. CASE SetState(m)
  BY <1>0, <1>2, QuietStep, CopyTyped DEF SetState, linkVars, dbVars, Spent
<1>3. CASE Publish(m)
  <2> DEFINE c == [id |-> m, retry |-> 0]
  <2>1. /\ ready' \subseteq ready \cup {c} /\ c.id = m /\ c.retry = 0
        /\ UNCHANGED <<restarts, effects>> /\ effects[m] <= 1 /\ ~Carried(m)
        /\ req'[m] \in {"accepted", "unavailable"}
        /\ \A n \in Msgs \ {m} : req'[n] = req[n]
    BY <1>3 DEF Publish, linkVars, dbVars, DupInv, Carriers, Unpublished, Attempts
  <2> HIDE DEF c
  <2>2. OneCarrier'
    BY <1>0, <2>1 DEF DupInv, Carriers, OneCarrier, Carried
  <2>3. \A n \in Msgs \ {m} : Carried(n)' => Carried(n)
    BY <1>0, <2>1 DEF Carried
  <2>4. Unpublished'
    BY <2>1, <2>3 DEF DupInv, Carriers, Unpublished
  <2>5. Attempts'
    BY <1>0, <2>1, CopyTyped DEF DupInv, Attempts
  <2> QED
    BY <2>1, <2>2, <2>4, <2>5 DEF DupInv, Carriers, BoundedDuplication
<1>4. CASE Expire(m)
  BY <1>0, <1>4, QuietStep, CopyTyped DEF Expire, apiVars, linkVars, dbVars, Spent
<1> QED
  BY <1>1, <1>2, <1>3, <1>4 DEF Api

LEMMA CallbackBounded ==
  ASSUME TypeOK, DupInv, NEW s \in Slots, Deliver(s) \/ Callback(s)
  PROVE  (Carriers /\ Attempts /\ BoundedDuplication)'
<1> USE DEF TypeOK
<1>0. ~AnswerOnClosedChannel(s)
  BY DEF AnswerOnClosedChannel, DupInv, Open
<1>1. CASE \E c \in ready : /\ ready' = ready \ {c}
                            /\ job' = [job EXCEPT ![s] = c]
                            /\ pc' = [pc EXCEPT ![s] = "get"]
                            /\ UNCHANGED <<req, restarts, effects>>
  <2>1. PICK c \in ready : /\ ready' = ready \ {c}
                           /\ job' = [job EXCEPT ![s] = c]
                           /\ pc' = [pc EXCEPT ![s] = "get"]
                           /\ UNCHANGED <<req, restarts, effects>>
    BY <1>1
  <2>2. /\ job'[s] = c /\ pc'[s] = "get" /\ Spent(s)' = 0
        /\ \A t \in Slots \ {s} : job'[t] = job[t] /\ pc'[t] = pc[t]
                                    /\ Spent(t)' = Spent(t)
    BY <2>1 DEF Spent
  <2>3. OneCarrier'
    BY <2>1, <2>2 DEF DupInv, Carriers, OneCarrier, Holds
  <2>4. Unpublished'
    BY <2>1, <2>2 DEF DupInv, Carriers, Unpublished, Carried, Holds
  <2>5. Attempts'
    BY <2>1, <2>2, CopyTyped DEF DupInv, Attempts, Holds
  <2> QED
    BY <2>1, <2>3, <2>4, <2>5 DEF DupInv, Carriers, BoundedDuplication
<1>2. CASE \E c \in dead : /\ UNCHANGED <<ready, req, restarts, effects>>
                           /\ job' = [job EXCEPT ![s] = c]
                           /\ pc' = [pc EXCEPT ![s] = "bury"]
  BY <1>2, QuietStep DEF Holds, Spent
<1>3. CASE RunWrite(s)
  <2> DEFINE m == job[s].id
  <2>1. /\ UNCHANGED <<ready, restarts, req, job>>
        /\ effects'[m] \in {effects[m], effects[m] + 1}
        /\ \A n \in Msgs \ {m} : effects'[n] = effects[n]
    BY <1>3, JobTyped
    DEF RunWrite, ApplyWrite, FailWrite, FindNothing, dbVars, linkVars, Goto, apiVars
  <2>2. /\ pc'[s] \in {"complete", "fail", "reset"} /\ pc[s] = "write"
        /\ \A t \in Slots \ {s} : pc'[t] = pc[t]
    BY <1>3 DEF RunWrite, Goto
  <2>3. /\ Holds(s) /\ Holds(s)' /\ Spent(s) = 0 /\ Spent(s)' = 1
        /\ \A t \in Slots \ {s} : (Holds(t)' <=> Holds(t)) /\ Spent(t)' = Spent(t)
    BY <2>2 DEF Holds, Spent
  <2>4. OneCarrier'
    BY <2>1, <2>3 DEF DupInv, Carriers, OneCarrier
  <2>5. \A n \in Msgs : Carried(n)' <=> Carried(n)
    BY <2>1, <2>3 DEF Carried
  <2>6. Unpublished'
    BY <2>1, <2>5 DEF DupInv, Carriers, Unpublished
  <2>7. m \in Msgs /\ Carried(m) /\ req[m] \notin {"new", "enqueue", "publish"}
    BY <2>3, CopyTyped DEF Carried, DupInv, Carriers, Unpublished
  <2>8. /\ \A c \in ready : c.id # m
        /\ \A t \in Slots \ {s} : Holds(t) => job[t].id # m
    BY <2>3 DEF DupInv, Carriers, OneCarrier
  <2>9. effects[m] <= 1 + job[s].retry + restarts
    BY <2>3, CopyTyped DEF DupInv, Attempts
  <2> HIDE DEF m
  <2>10. Attempts'
    <3>1. ASSUME NEW n \in Msgs
          PROVE  /\ req'[n] = "new" => effects'[n] = 0
                 /\ req'[n] \in {"enqueue", "publish"} => effects'[n] <= 1
      BY <2>1, <2>7 DEF DupInv, Attempts
    <3>2. ASSUME NEW c \in ready'
          PROVE  effects'[c.id] <= 1 + c.retry + restarts'
      BY <2>1, <2>8, CopyTyped DEF DupInv, Attempts
    <3>3. effects'[job'[s].id] <= 1 + job'[s].retry + restarts' + Spent(s)'
      BY <2>1, <2>3, <2>7, <2>9, CopyTyped DEF m
    <3>4. ASSUME NEW t \in Slots \ {s}, Holds(t)'
          PROVE  effects'[job'[t].id] <= 1 + job'[t].retry + restarts' + Spent(t)'
      BY <2>1, <2>3, <2>8, <3>4, CopyTyped DEF DupInv, Attempts
    <3> QED
      BY <3>1, <3>2, <3>3, <3>4 DEF Attempts
  <2>11. BoundedDuplication'
    BY <2>1, <2>3, <2>9, CopyTyped, RetriesAssumption
    DEF DupInv, BoundedDuplication, m
  <2> QED
    BY <2>4, <2>6, <2>10, <2>11 DEF Carriers
<1>4. CASE RetryOrReject(s)
  <2> DEFINE c == [job[s] EXCEPT !.retry = @ + 1]
  <2>1. /\ Holds(s) /\ Spent(s) = 1 /\ UNCHANGED <<req, restarts, effects, job>>
        /\ pc'[s] \in Answered /\ \A t \in Slots \ {s} : pc'[t] = pc[t]
    BY <1>4 DEF RetryOrReject, Holds, Goto, Spent, apiVars, linkVars, dbVars
  <2>2. ~Holds(s)' /\ \A t \in Slots \ {s} : (Holds(t)' <=> Holds(t)) /\ Spent(t)' = Spent(t)
    BY <2>1 DEF Holds, Spent
  <2>3. c.id = job[s].id /\ c.retry = job[s].retry + 1
    BY <1>4, JobTyped DEF RetryOrReject, Copy
  <2>4. ready' \subseteq ready \cup {c}
    BY <1>4 DEF RetryOrReject
  <2> HIDE DEF c
  <2>5. OneCarrier'
    BY <2>1, <2>2, <2>3, <2>4 DEF DupInv, Carriers, OneCarrier
  <2>6. \A n \in Msgs : Carried(n)' => Carried(n)
    BY <2>1, <2>2, <2>3, <2>4 DEF Carried
  <2>7. Unpublished'
    BY <2>1, <2>6 DEF DupInv, Carriers, Unpublished
  <2>8. effects[c.id] <= 1 + c.retry + restarts
    BY <2>1, <2>3, CopyTyped DEF DupInv, Attempts
  <2>9. Attempts'
    BY <2>1, <2>2, <2>4, <2>8, CopyTyped DEF DupInv, Attempts
  <2> QED
    BY <2>1, <2>5, <2>7, <2>9 DEF DupInv, Carriers, BoundedDuplication
<1>5. CASE GetState(s) \/ MarkInProgress(s) \/ ResetPending(s) \/ Settle(s) \/ Bury(s)
  <2>1. UNCHANGED <<ready, req, restarts, effects, job>>
    BY <1>5 DEF GetState, MarkInProgress, ResetPending, Settle, Bury, Goto, apiVars,
       linkVars, dbVars
  <2>2. /\ \A t \in Slots \ {s} : pc'[t] = pc[t]
        /\ \/ pc[s] \in {"get", "mark", "bury"}
           \/ pc[s] \in {"complete", "fail", "reset"} /\ pc'[s] \in {"done", "retry"}
        /\ pc[s] = "bury" => pc'[s] = "buried"
    BY <1>5 DEF GetState, MarkInProgress, ResetPending, Settle, Bury, Goto
  <2>3. \A t \in Slots : Holds(t)' => Holds(t) /\ Spent(t) <= Spent(t)'
    BY <2>2 DEF Holds, Spent
  <2> QED
    BY <2>1, <2>3, QuietStep
<1>6. CASE Ack(s) \/ Reject(s)
  <2>1. UNCHANGED <<ready, req, restarts, effects>>
    BY <1>6 DEF Ack, Reject, apiVars, linkVars, dbVars
  <2>2. \A t \in Slots : Holds(t)' =>
          Holds(t) /\ job'[t] = job[t] /\ Spent(t)' = Spent(t)
    BY <1>6 DEF Ack, Reject, Free, Holds, Spent
  <2> QED
    BY <2>1, <2>2, QuietStep DEF Spent
<1> QED
  BY <1>0, <1>1, <1>2, <1>3, <1>4, <1>5, <1>6
  DEF Deliver, Callback, apiVars, linkVars, dbVars

(* A dying worker gives back what it held, perhaps behind the write: one    *)
(* more restart makes up for that.                                          *)
LEMMA CrashBounded ==
  ASSUME TypeOK, DupInv, Crash
  PROVE  (Carriers /\ Attempts /\ BoundedDuplication)'
<1>1. ready' = ready \cup {job[s] : s \in {t \in Slots : Holds(t)}}
  BY DEF Crash, Die, Requeue, Holds, DupInv, Open
<1>2. \A s \in Slots : ~Holds(s)'
  BY DEF Crash, Die, TypeOK, Holds
<1>3. UNCHANGED <<req, effects>> /\ restarts' = restarts + 1
  BY DEF Crash, Die, apiVars, dbVars
<1>4. OneCarrier'
  BY <1>1, <1>2 DEF DupInv, Carriers, OneCarrier
<1>5. Unpublished'
  BY <1>1, <1>2, <1>3 DEF DupInv, Carriers, Unpublished, Carried
<1>6. \A s \in Slots : Spent(s) \in 0..1
  BY DEF Spent
<1>7. Attempts'
  BY <1>1, <1>2, <1>3, <1>6, CopyTyped DEF DupInv, Attempts
<1>8. BoundedDuplication'
  BY <1>3, CopyTyped, RetriesAssumption DEF DupInv, BoundedDuplication
<1> QED
  BY <1>4, <1>5, <1>7, <1>8 DEF Carriers

(* Retries, redeliveries and late answers run a write at most once for each *)
(* retry level, once directly and once more for each worker death, whatever *)
(* the database, the broker and the cache do, while the channel stays open. *)
THEOREM DuplicationBounded ==
  "close" \notin Faults => (Spec => []BoundedDuplication)
<1> SUFFICES ASSUME "close" \notin Faults PROVE Spec => []BoundedDuplication
  OBVIOUS
<1>1. Init => DupInv
  <2> SUFFICES ASSUME Init PROVE DupInv
    OBVIOUS
  <2>1. \A s \in Slots : ~Holds(s)
    BY DEF Init, Holds
  <2>2. Carriers
    BY <2>1 DEF Init, Carriers, OneCarrier, Unpublished, Carried
  <2>3. Attempts /\ BoundedDuplication
    BY <2>1, RetriesAssumption DEF Init, Attempts, BoundedDuplication
  <2> QED
    BY <2>2, <2>3, InitOpen DEF DupInv
<1>2. TypeOK /\ DupInv /\ [Next]_vars => DupInv'
  <2> SUFFICES ASSUME TypeOK, DupInv, [Next]_vars PROVE DupInv'
    OBVIOUS
  <2>1. Open'
    BY OpenKept DEF DupInv
  <2>2. ~ChannelClose
    BY DEF ChannelClose
  <2>3. CASE Resubscribe \/ UNCHANGED vars
    <3>1. UNCHANGED <<ready, req, restarts, effects, pc, job>>
      BY <2>3 DEF Resubscribe, vars, apiVars, slotVars, dbVars
    <3> QED
      BY <2>1, <3>1 DEF DupInv, Carriers, OneCarrier, Unpublished, Carried, Holds,
         Attempts, Spent, BoundedDuplication
  <2> QED
    BY <2>1, <2>2, <2>3, ApiBounded, CallbackBounded, CrashBounded DEF Next, DupInv
<1>3. DupInv => BoundedDuplication
  BY DEF DupInv
<1> QED
  BY <1>1, <1>2, <1>3, Typing, PTL DEF Spec
=============================================================================
