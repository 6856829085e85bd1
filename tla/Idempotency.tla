---------------------------- MODULE Idempotency ----------------------------
(***************************************************************************)
(* IdempotencyInterceptor.intercept: requests that carry one idempotency   *)
(* key (same method, same URL), served by one or several API instances     *)
(* that share a Redis server.                                              *)
(*                                                                         *)
(* Every instance talks to Redis over one connection, which keeps commands *)
(* in order: wire[i] holds what instance i has sent and Redis has not yet  *)
(* executed.  A command that its circuit breaker gives up on stays on the  *)
(* wire and is executed later.  reply[r] is the answer of Redis on its way *)
(* back.  Of answers that one read of the socket brings, the number of     *)
(* awaits behind each call decides which request goes on first: a release  *)
(* behind persistResponse's one await overtakes a claim behind the two of  *)
(* getCachedResponse.  The model lets requests go on in any order.  Time   *)
(* advances in ticks.                                                       *)
(***************************************************************************)
EXTENDS Naturals, SequencesExt

CONSTANTS
  Reqs,        \* requests with the key
  Instances,   \* API processes
  At,          \* At[r] is the instance that serves r
  Timeout,     \* ticks after which the breaker gives up on a call
  HandlerMax,  \* ticks the handler takes at most
  ClaimTTL,    \* PROCESSING_TTL_S, how long a claim lasts and a waiter waits
  ResponseTTL, \* RESPONSE_TTL_S, how long a response is stored
  Poll,        \* PROCESSING_POLL_INTERVAL_MS
  Unreliable   \* the Redis commands that may fail

Commands == {"get", "claim", "set", "del"}

ASSUME AtAssumption         == At \in [Reqs -> Instances]
ASSUME TimesAssumption      ==
  {Timeout, HandlerMax, ClaimTTL, ResponseTTL, Poll} \subseteq Nat \ {0}
ASSUME UnreliableAssumption == Unreliable \subseteq Commands

VARIABLES
  pc,      \* pc[r]: the await at which request r stands
  timer,   \* timer[r]: ticks since it got there, or since it got its response
  waited,  \* waited[r]: ticks since it began to wait for another request
  answer,  \* answer[r]: what the client got
  wire,    \* wire[i]: commands on their way to Redis, as <<request, pc>>
  reply,   \* reply[r]: the answer of Redis on its way to r
  claim,   \* ticks the lock key still lives, 0 when it is absent
  owner,   \* the request that set the lock key last
  stored   \* ticks the stored response still lives, 0 when there is none

reqVars   == <<pc, timer, waited, answer>>
redisVars == <<claim, owner, stored>>
vars      == <<pc, timer, waited, answer, wire, reply, claim, owner, stored>>

NoReq == "none"

ASSUME NoReqAssumption == NoReq \notin Reqs

Calls == {"lookup", "claim", "poll", "persist", "release", "abandon", "rerelease"}

Command(at) == CASE at \in {"lookup", "poll"} -> "get"
                 [] at = "claim"              -> "claim"
                 [] at = "persist"            -> "set"
                 [] OTHER                     -> "del"

Limit(at) == CASE at \in Calls  -> Timeout
               [] at = "handle" -> HandlerMax
               [] at = "sleep"  -> Poll

Outside == {"new", "answered"}

TypeOK ==
  /\ pc \in [Reqs -> Calls \cup {"new", "handle", "sleep", "answered"}]
  /\ timer \in [Reqs -> Nat] /\ waited \in [Reqs -> Nat]
  /\ answer \in [Reqs -> {NoReq, "replayed", "own", "failed", "timeout"}]
  /\ wire \in [Instances -> Seq(Reqs \X Calls)]
  /\ reply \in [Reqs -> {"none", "value", "null"}]
  /\ claim \in 0..ClaimTTL /\ stored \in 0..ResponseTTL
  /\ owner \in Reqs \cup {NoReq}

Init ==
  /\ pc = [r \in Reqs |-> "new"]
  /\ timer = [r \in Reqs |-> 0] /\ waited = [r \in Reqs |-> 0]
  /\ answer = [r \in Reqs |-> NoReq]
  /\ wire = [i \in Instances |-> <<>>]
  /\ reply = [r \in Reqs |-> "none"]
  /\ claim = 0 /\ owner = NoReq /\ stored = 0

-----------------------------------------------------------------------------
(* Request r goes on to the await named next; a call is put on queue, what  *)
(* is otherwise left on the wire of its instance.                           *)
Proceed(r, next, queue) ==
  /\ pc' = [pc EXCEPT ![r] = next]
  /\ timer' = [timer EXCEPT ![r] = 0] /\ reply' = [reply EXCEPT ![r] = "none"]
  /\ wire' = [wire EXCEPT ![At[r]] =
                IF next \in Calls THEN Append(queue, <<r, next>>) ELSE queue]
  /\ UNCHANGED <<waited, answer>>

Finish(r, what, queue) ==
  /\ pc' = [pc EXCEPT ![r] = "answered"]
  /\ timer' = [timer EXCEPT ![r] = 0] /\ waited' = [waited EXCEPT ![r] = 0]
  /\ answer' = [answer EXCEPT ![r] = what] /\ reply' = [reply EXCEPT ![r] = "none"]
  /\ wire' = [wire EXCEPT ![At[r]] = queue]

Arrive(r) ==
  /\ pc[r] = "new"
  /\ Proceed(r, "lookup", wire[At[r]])
  /\ UNCHANGED redisVars

(* Mutant of Execute: the claim lives a tick longer.                       *)
ExecuteLongClaim(r, at) ==
  CASE Command(at) = "claim" ->
         /\ claim' = IF claim = 0 THEN ClaimTTL + 1 ELSE claim
         /\ owner' = IF claim = 0 THEN r ELSE owner
         /\ UNCHANGED stored
    [] Command(at) = "set" -> stored' = ResponseTTL /\ UNCHANGED <<claim, owner>>
    [] Command(at) = "del" -> claim' = 0 /\ UNCHANGED <<owner, stored>>
    [] Command(at) = "get" -> UNCHANGED redisVars

(* Mutant of Execute: the response is stored with the TTL of the claim.    *)
ExecuteShortResponse(r, at) ==
  CASE Command(at) = "claim" ->
         /\ claim' = IF claim = 0 THEN ClaimTTL ELSE claim
         /\ owner' = IF claim = 0 THEN r ELSE owner
         /\ UNCHANGED stored
    [] Command(at) = "set" -> stored' = ClaimTTL /\ UNCHANGED <<claim, owner>>
    [] Command(at) = "del" -> claim' = 0 /\ UNCHANGED <<owner, stored>>
    [] Command(at) = "get" -> UNCHANGED redisVars

(* What the command sent at await at does in Redis: SET NX EX 5, SET EX    *)
(* 120, DEL (whoever set the key), GET.                                     *)
Execute(r, at) ==
  CASE Command(at) = "claim" ->
         /\ claim' = IF claim = 0 THEN ClaimTTL ELSE claim
         /\ owner' = IF claim = 0 THEN r ELSE owner
         /\ UNCHANGED stored
    [] Command(at) = "set" -> stored' = ResponseTTL /\ UNCHANGED <<claim, owner>>
    [] Command(at) = "del" -> claim' = 0 /\ UNCHANGED <<owner, stored>>
    [] Command(at) = "get" -> UNCHANGED redisVars

(* What it answers: a GET and a SET NX may answer null. *)
Result(at) == CASE Command(at) = "get"   -> IF stored = 0 THEN "null" ELSE "value"
                [] Command(at) = "claim" -> IF claim = 0 THEN "value" ELSE "null"
                [] OTHER                 -> "value"

(* Redis executes the oldest command of instance i.  The answer goes to its *)
(* request, unless the breaker gave up on the call before.                  *)
Serve(i) ==
  /\ wire[i] # <<>>
  /\ LET r == Head(wire[i])[1]  at == Head(wire[i])[2] IN
       /\ Execute(r, at)
       /\ reply' = IF pc[r] = at THEN [reply EXCEPT ![r] = Result(at)] ELSE reply
  /\ wire' = [wire EXCEPT ![i] = Tail(@)]
  /\ UNCHANGED reqVars

(* Mutant of Resume: what claimProcessing returns is ignored.              *)
ResumeUnclaimed(r) ==
  LET queue == wire[At[r]] IN
  /\ reply[r] # "none"
  /\ \/ pc[r] \in {"lookup", "poll"} /\ reply[r] = "value" /\ Finish(r, "replayed", queue)
     \/ pc[r] = "lookup"    /\ reply[r] = "null" /\ Proceed(r, "claim", queue)
     \/ pc[r] = "poll"      /\ reply[r] = "null" /\ Proceed(r, "sleep", queue)
     \/ pc[r] = "claim"     /\ Proceed(r, "handle", queue)
     \/ pc[r] = "persist"   /\ Proceed(r, "release", queue)
     \/ pc[r] = "release"   /\ Finish(r, "own", queue)
     \/ pc[r] = "abandon"   /\ Proceed(r, "rerelease", queue)
     \/ pc[r] = "rerelease" /\ Finish(r, "failed", queue)
  /\ UNCHANGED redisVars

(* How r continues when the call it stands at returns. *)
Resume(r) ==
  LET queue == wire[At[r]] IN
  /\ reply[r] # "none"
  /\ \/ pc[r] \in {"lookup", "poll"} /\ reply[r] = "value" /\ Finish(r, "replayed", queue)
     \/ pc[r] = "lookup"    /\ reply[r] = "null"  /\ Proceed(r, "claim", queue)
     \/ pc[r] = "poll"      /\ reply[r] = "null"  /\ Proceed(r, "sleep", queue)
     \/ pc[r] = "claim"     /\ reply[r] = "value" /\ Proceed(r, "handle", queue)
     \/ pc[r] = "claim"     /\ reply[r] = "null"  /\ Proceed(r, "poll", queue)
     \/ pc[r] = "persist"   /\ Proceed(r, "release", queue)
     \/ pc[r] = "release"   /\ Finish(r, "own", queue)
     \/ pc[r] = "abandon"   /\ Proceed(r, "rerelease", queue)
     \/ pc[r] = "rerelease" /\ Finish(r, "failed", queue)
  /\ UNCHANGED redisVars

(* How r continues when the call it stands at throws.  persistResponse     *)
(* releases the claim in its finally block; whatever the pipe throws is    *)
(* caught by catchError, which releases the claim.                          *)
Throw(r, queue) ==
  \/ pc[r] \in {"lookup", "claim", "poll", "rerelease"} /\ Finish(r, "failed", queue)
  \/ pc[r] = "persist" /\ Proceed(r, "abandon", queue)
  \/ pc[r] \in {"release", "abandon"} /\ Proceed(r, "rerelease", queue)

Fallible(r) == pc[r] \in Calls /\ Command(pc[r]) \in Unreliable

(* The call fails: it is never executed, or its answer is lost. *)
CallFails(r) ==
  /\ Fallible(r)
  /\ \/ \E k \in DOMAIN wire[At[r]] :
          wire[At[r]][k] = <<r, pc[r]>> /\ Throw(r, RemoveAt(wire[At[r]], k))
     \/ reply[r] # "none" /\ Throw(r, wire[At[r]])
  /\ UNCHANGED redisVars

(* The breaker gives up on the call, which may be executed later. *)
CallTimesOut(r) ==
  /\ Fallible(r) /\ timer[r] = Timeout
  /\ Throw(r, wire[At[r]])
  /\ UNCHANGED redisVars

(* Mutant of Handle: an error leaves without catchError.                   *)
HandleNoCatch(r) ==
  /\ pc[r] = "handle"
  /\ \/ Proceed(r, "persist", wire[At[r]])
     \/ Finish(r, "failed", wire[At[r]])
  /\ UNCHANGED redisVars

Handle(r) ==
  /\ pc[r] = "handle"
  /\ \/ Proceed(r, "persist", wire[At[r]])
     \/ Proceed(r, "rerelease", wire[At[r]])
  /\ UNCHANGED redisVars

(* Mutant of Wake: the deadline is set anew on every turn of the loop.      *)
WakeNewDeadline(r) ==
  /\ pc[r] = "sleep" /\ timer[r] = Poll
  /\ pc' = [pc EXCEPT ![r] = "poll"] /\ timer' = [timer EXCEPT ![r] = 0]
  /\ waited' = [waited EXCEPT ![r] = 0]
  /\ wire' = [wire EXCEPT ![At[r]] = Append(@, <<r, "poll">>)]
  /\ UNCHANGED <<answer, reply, redisVars>>

(* The loop of a waiter: look again, or give up after PROCESSING_TTL_MS.   *)
Wake(r) ==
  /\ pc[r] = "sleep" /\ timer[r] = Poll
  /\ \/ waited[r] < ClaimTTL /\ Proceed(r, "poll", wire[At[r]])
     \/ waited[r] >= ClaimTTL /\ Finish(r, "timeout", wire[At[r]])
  /\ UNCHANGED redisVars

(* Whose timer runs: a request under way, or one whose client was given the *)
(* handler's response, until that is no longer stored.                      *)
Counts(r) == CASE pc[r] = "new"      -> FALSE
               [] pc[r] = "answered" -> answer[r] = "own" /\ timer[r] < ResponseTTL
               [] OTHER              -> TRUE

(* Nothing outlasts its limit: the breaker, the poll timer and the breakers *)
(* of the handler's own calls see to it.                                    *)
Tick ==
  /\ \A r \in Reqs : pc[r] \notin Outside => timer[r] < Limit(pc[r])
  /\ timer' = [r \in Reqs |-> IF Counts(r) THEN timer[r] + 1 ELSE timer[r]]
  /\ waited' = [r \in Reqs |-> IF pc[r] \in {"poll", "sleep"} THEN waited[r] + 1
                                                               ELSE waited[r]]
  /\ claim' = IF claim = 0 THEN 0 ELSE claim - 1
  /\ stored' = IF stored = 0 THEN 0 ELSE stored - 1
  /\ UNCHANGED <<pc, answer, wire, reply, owner>>

Step(r) == \/ Arrive(r) \/ Resume(r) \/ CallFails(r) \/ CallTimesOut(r)
           \/ Handle(r) \/ Wake(r)

Next == (\E r \in Reqs : Step(r)) \/ (\E i \in Instances : Serve(i)) \/ Tick

Spec == Init /\ [][Next]_vars

(* A request that has arrived goes on: Redis or the breaker answers every  *)
(* call, the handler returns, timers fire.                                  *)
Fairness ==
  /\ WF_vars(Tick)
  /\ \A i \in Instances : WF_vars(Serve(i))
  /\ \A r \in Reqs : /\ WF_vars(Resume(r)) /\ WF_vars(CallTimesOut(r))
                      /\ WF_vars(Handle(r)) /\ WF_vars(Wake(r))

FairSpec == Spec /\ Fairness

-----------------------------------------------------------------------------
(* Two requests with one key are never in the controller at the same time. *)
OneHandler == \A r, q \in Reqs : pc[r] = "handle" /\ pc[q] = "handle" => r = q

(* A request that has been answered leaves no claim behind, on no path:    *)
(* a retry of a failed request need not wait for the claim to expire.      *)
ClaimIsLive == claim > 0 => pc[owner] # "answered"

(* A client that was given the handler's response and sends the request    *)
(* again is not handled again for as long as the response is stored, less  *)
(* the two calls that storing it and answering take, however Redis         *)
(* misbehaves.                                                              *)
RetryIsReplayed ==
  \A r, q \in Reqs :
    [](answer[r] = "own" /\ pc[q] = "new" =>
         [](pc[q] = "handle" => timer[r] + 2 * Timeout >= ResponseTTL))

(* No request is left without an answer.                                   *)
EveryoneAnswered == \A r \in Reqs : pc[r] # "new" ~> pc[r] = "answered"
=============================================================================
