----------------------------- MODULE TaskQueue -----------------------------
(***************************************************************************)
(* The queued write path: the controller's direct write, its fallback to   *)
(* the queue (TaskController.enqueue, TaskMessagePublisherService), the    *)
(* broker's main and dead-letter queues, the worker's consumer callback    *)
(* (RabbitMqSubscriberService.consume) and the message state machine it    *)
(* drives (TaskMessageProcessorService.handle).                            *)
(*                                                                         *)
(* One action is what runs between two awaits.  The delays of the delayed  *)
(* exchange are abstracted: a published copy may be delivered at any later *)
(* time.  A call that goes through a circuit breaker may fail in two ways: *)
(* refused or rejected before it took effect, or timed out by the breaker  *)
(* while the dependency still carries it out.                              *)
(***************************************************************************)
EXTENDS Integers

CONSTANTS
  Msgs,         \* write requests, each named by the message id enqueue draws
  Kind,         \* Kind[m] is the key of m's message
  Slots,        \* bound on the consumer callbacks running at once
  MaxRetries,   \* retryPolicy.maxRetries
  MaxRestarts,  \* bound on worker deaths and channel losses
  Faults        \* the kinds of failure the environment produces

FaultKinds ==
  { "db",            \* the repository refuses a write
    "late",          \* a write times out in the breaker and is applied anyway
    "store",         \* a message-state call to the cache fails
    "broker",        \* the API's publish fails
    "backpressure",  \* channel.publish answers false (it still sends)
    "expiry",        \* a message state outlives its TTL
    "crash",         \* the worker process dies
    "close" }        \* the worker's channel closes under it

ASSUME KindAssumption    == Kind \in [Msgs -> {"create", "update", "delete"}]
ASSUME RetriesAssumption == MaxRetries \in Nat /\ MaxRestarts \in Nat
ASSUME FaultsAssumption  == Faults \subseteq FaultKinds

VARIABLES
  req,        \* req[m]: how far the controller is with request m
  status,     \* status[m]: the cache entry tasks:queued:m
  ready,      \* copies in the main queue or the delayed exchange
  dead,       \* copies in the dead-letter queue
  pc,         \* pc[s]: the await at which callback s stands
  job,        \* job[s]: the copy that callback s holds unacknowledged
  stale,      \* stale[s]: the channel s was delivered on has closed
  connected,  \* the worker's consumers are registered
  restarts,   \* worker deaths and channel losses so far
  effects,    \* effects[m]: times the database applied m's write
  lates       \* lates[m]: those of them reported to the caller as failures

apiVars   == <<req>>
slotVars  == <<pc, job, stale>>
linkVars  == <<connected, restarts>>
dbVars    == <<effects, lates>>
vars      == <<req, status, ready, dead, pc, job, stale, connected, restarts,
               effects, lates>>

Copy == [id : Msgs, retry : 0..MaxRetries]

NoJob == [id |-> "none", retry |-> 0]  \* an idle callback's

Absent   == "absent"
Settled  == {"completed", "failed"}
Statuses == {Absent, "pending", "in_progress"} \cup Settled

MainPCs == {"get", "mark", "write", "complete", "fail", "reset", "retry",
            "done", "sent", "reject"}
DeadPCs == {"bury", "buried"}

(* The acknowledgement, or the reject, is already on its way to the broker. *)
Answered == {"sent", "reject"}

TypeOK ==
  /\ req \in [Msgs -> {"new", "enqueue", "publish", "accepted",
                       "unavailable", "answered"}]
  /\ status \in [Msgs -> Statuses]
  /\ ready \subseteq Copy /\ dead \subseteq Copy
  /\ pc \in [Slots -> {"idle"} \cup MainPCs \cup DeadPCs]
  /\ job \in [Slots -> Copy \cup {NoJob}]
  /\ \A s \in Slots : pc[s] # "idle" => job[s] \in Copy
  /\ stale \in [Slots -> BOOLEAN]
  /\ connected \in BOOLEAN /\ restarts \in 0..MaxRestarts
  /\ effects \in [Msgs -> Nat] /\ lates \in [Msgs -> Nat]

Init ==
  /\ req = [m \in Msgs |-> "new"]
  /\ status = [m \in Msgs |-> Absent]
  /\ ready = {} /\ dead = {}
  /\ pc = [s \in Slots |-> "idle"]
  /\ job = [s \in Slots |-> NoJob]
  /\ stale = [s \in Slots |-> FALSE]
  /\ connected = TRUE /\ restarts = 0
  /\ effects = [m \in Msgs |-> 0] /\ lates = [m \in Msgs |-> 0]

-----------------------------------------------------------------------------
(* How a call through a breaker can end: ok is what the caller learns, done *)
(* whether the dependency carried it out.                                   *)
Outcomes(fault) ==
  {[ok |-> TRUE, done |-> TRUE]} \cup
    IF fault \in Faults THEN [ok : {FALSE}, done : BOOLEAN] ELSE {}

(* A repository write that ends in a TransientInfrastructureError. *)
FailWrite(m) ==
  \/ "db" \in Faults /\ UNCHANGED dbVars
  \/ /\ "late" \in Faults
     /\ effects' = [effects EXCEPT ![m] = @ + 1]
     /\ lates' = [lates EXCEPT ![m] = @ + 1]

(* A repository write that is applied and returns. *)
ApplyWrite(m) ==
  effects' = [effects EXCEPT ![m] = @ + 1] /\ UNCHANGED lates

(* A write of a task that is not there: nothing is changed.  updateOne also *)
(* answers null when the task is deleted between its UPDATE and its SELECT. *)
FindNothing(m) ==
  \/ UNCHANGED dbVars
  \/ /\ Kind[m] = "update"
     /\ effects' = [effects EXCEPT ![m] = @ + 1]
     /\ lates' = [lates EXCEPT ![m] = @ + 1]

(* updateState: SET ... XX, which leaves an expired entry absent. *)
UpdateState(m, new, done) ==
  status' = IF done /\ status[m] # Absent THEN [status EXCEPT ![m] = new]
                                          ELSE status

Goto(s, next) == pc' = [pc EXCEPT ![s] = next] /\ UNCHANGED <<job, stale>>

Free(s) ==
  /\ pc' = [pc EXCEPT ![s] = "idle"]
  /\ job' = [job EXCEPT ![s] = NoJob]
  /\ UNCHANGED stale

-----------------------------------------------------------------------------
(* The API process. *)

(* createOne, updateOne, deleteOne: write, answer 404 for a missing task,  *)
(* fall back to the queue on a TransientInfrastructureError.               *)
DirectWrite(m) ==
  /\ req[m] = "new"
  /\ \/ req' = [req EXCEPT ![m] = "answered"] /\ ApplyWrite(m)
     \/ /\ Kind[m] # "create"
        /\ req' = [req EXCEPT ![m] = "answered"] /\ FindNothing(m)
     \/ req' = [req EXCEPT ![m] = "enqueue"] /\ FailWrite(m)
  /\ UNCHANGED <<status, ready, dead, slotVars, linkVars>>

SetState(m) ==
  /\ req[m] = "enqueue"
  /\ \E o \in Outcomes("store") :
       /\ status' = IF o.done THEN [status EXCEPT ![m] = "pending"] ELSE status
       /\ req' = [req EXCEPT ![m] = IF o.ok THEN "publish" ELSE "unavailable"]
  /\ UNCHANGED <<ready, dead, slotVars, linkVars, dbVars>>

Publish(m) ==
  /\ req[m] = "publish"
  /\ \E o \in Outcomes("broker") :
       /\ ready' = IF o.done THEN ready \cup {[id |-> m, retry |-> 0]} ELSE ready
       /\ req' = [req EXCEPT ![m] = IF o.ok THEN "accepted" ELSE "unavailable"]
  /\ UNCHANGED <<status, dead, slotVars, linkVars, dbVars>>

-----------------------------------------------------------------------------
(* The worker process: one callback per delivery. *)

Deliver(s) ==
  /\ connected /\ pc[s] = "idle"
  /\ \/ \E c \in ready :
          /\ ready' = ready \ {c} /\ UNCHANGED dead
          /\ job' = [job EXCEPT ![s] = c] /\ pc' = [pc EXCEPT ![s] = "get"]
     \/ \E c \in dead :
          /\ dead' = dead \ {c} /\ UNCHANGED ready
          /\ job' = [job EXCEPT ![s] = c] /\ pc' = [pc EXCEPT ![s] = "bury"]
  /\ UNCHANGED <<apiVars, status, stale, linkVars, dbVars>>

(* Mutant of GetState: the check of the status is dropped. *)
GetStateUnchecked(s) ==
  /\ pc[s] = "get"
  /\ \/ status[job[s].id] # Absent /\ Goto(s, "mark")
     \/ status[job[s].id] = Absent /\ Goto(s, "done")
     \/ "store" \in Faults /\ Goto(s, "reset")
  /\ UNCHANGED <<apiVars, status, ready, dead, linkVars, dbVars>>

GetState(s) ==
  /\ pc[s] = "get"
  /\ \/ status[job[s].id] = "pending" /\ Goto(s, "mark")
     \/ status[job[s].id] # "pending" /\ Goto(s, "done")
     \/ "store" \in Faults /\ Goto(s, "reset")
  /\ UNCHANGED <<apiVars, status, ready, dead, linkVars, dbVars>>

MarkInProgress(s) ==
  /\ pc[s] = "mark"
  /\ \E o \in Outcomes("store") :
       /\ UpdateState(job[s].id, "in_progress", o.done)
       /\ Goto(s, IF o.ok THEN "write" ELSE "reset")
  /\ UNCHANGED <<apiVars, ready, dead, linkVars, dbVars>>

(* Mutant of RunWrite: updateOne's null counts as a result. *)
RunWriteNullCompletes(s) ==
  /\ pc[s] = "write"
  /\ \/ Goto(s, "complete") /\ ApplyWrite(job[s].id)
     \/ Kind[job[s].id] = "update" /\ Goto(s, "complete") /\ UNCHANGED dbVars
     \/ Goto(s, "reset") /\ FailWrite(job[s].id)
  /\ UNCHANGED <<apiVars, status, ready, dead, linkVars>>

(* createOne and deleteOne count as success whatever they found; updateOne *)
(* of a missing task yields null.                                          *)
RunWrite(s) ==
  /\ pc[s] = "write"
  /\ \/ Goto(s, "complete") /\ ApplyWrite(job[s].id)
     \/ Kind[job[s].id] = "update" /\ Goto(s, "fail") /\ FindNothing(job[s].id)
     \/ Goto(s, "reset") /\ FailWrite(job[s].id)
  /\ UNCHANGED <<apiVars, status, ready, dead, linkVars>>

(* Mutant of ResetPending: the error is rethrown without the status write. *)
RethrowOnly(s) ==
  /\ pc[s] = "reset" /\ Goto(s, "retry")
  /\ UNCHANGED <<apiVars, status, ready, dead, linkVars, dbVars>>

(* The catch block: back to pending, then the error goes on to the callback. *)
ResetPending(s) ==
  /\ pc[s] = "reset"
  /\ \E o \in Outcomes("store") : UpdateState(job[s].id, "pending", o.done)
  /\ Goto(s, "retry")
  /\ UNCHANGED <<apiVars, ready, dead, linkVars, dbVars>>

Verdict(step) == IF step = "complete" THEN "completed" ELSE "failed"

Settle(s) ==
  /\ pc[s] \in {"complete", "fail"}
  /\ \E o \in Outcomes("store") :
       /\ UpdateState(job[s].id, Verdict(pc[s]), o.done)
       /\ Goto(s, IF o.ok THEN "done" ELSE "retry")
  /\ UNCHANGED <<apiVars, ready, dead, linkVars, dbVars>>

(* Mutants of RetryOrReject: <= for <; the retry count is not advanced; no  *)
(* return after the ack, so reject follows; the final reject is forgotten.  *)
RetryOnceTooOften(s) ==
  /\ pc[s] = "retry" /\ ~stale[s]
  /\ \/ /\ job[s].retry <= MaxRetries
        /\ ready' = ready \cup {[job[s] EXCEPT !.retry = @ + 1]}
        /\ Goto(s, "sent")
     \/ job[s].retry > MaxRetries /\ Goto(s, "reject") /\ UNCHANGED ready
  /\ UNCHANGED <<apiVars, status, dead, linkVars, dbVars>>
RetryUncounted(s) ==
  /\ pc[s] = "retry" /\ ~stale[s]
  /\ ready' = ready \cup {job[s]} /\ Goto(s, "sent")
  /\ UNCHANGED <<apiVars, status, dead, linkVars, dbVars>>
RetryAndReject(s) ==
  /\ pc[s] = "retry" /\ ~stale[s]
  /\ ready' = IF job[s].retry < MaxRetries
                THEN ready \cup {[job[s] EXCEPT !.retry = @ + 1]} ELSE ready
  /\ Goto(s, "reject")
  /\ UNCHANGED <<apiVars, status, dead, linkVars, dbVars>>
RetryOrDrop(s) ==
  /\ pc[s] = "retry" /\ ~stale[s]
  /\ ready' = IF job[s].retry < MaxRetries
                THEN ready \cup {[job[s] EXCEPT !.retry = @ + 1]} ELSE ready
  /\ Goto(s, "sent")
  /\ UNCHANGED <<apiVars, status, dead, linkVars, dbVars>>

(* The callback's catch block: republish and acknowledge while retries are *)
(* left, reject otherwise - or when publish answers false.                 *)
RetryOrReject(s) ==
  /\ pc[s] = "retry" /\ ~stale[s]
  /\ \/ /\ job[s].retry < MaxRetries
        /\ ready' = ready \cup {[job[s] EXCEPT !.retry = @ + 1]}
        /\ \/ Goto(s, "sent")
           \/ "backpressure" \in Faults /\ Goto(s, "reject")
     \/ job[s].retry >= MaxRetries /\ Goto(s, "reject") /\ UNCHANGED ready
  /\ UNCHANGED <<apiVars, status, dead, linkVars, dbVars>>

(* handle('dead-letter', ...): acknowledged whether or not it succeeds. *)
Bury(s) ==
  /\ pc[s] = "bury"
  /\ \E o \in Outcomes("store") : UpdateState(job[s].id, "failed", o.done)
  /\ Goto(s, "buried")
  /\ UNCHANGED <<apiVars, ready, dead, linkVars, dbVars>>

Ack(s) ==
  /\ pc[s] \in {"done", "sent", "buried"} /\ ~stale[s]
  /\ Free(s)
  /\ UNCHANGED <<apiVars, status, ready, dead, linkVars, dbVars>>

Reject(s) ==
  /\ pc[s] = "reject" /\ ~stale[s]
  /\ dead' = dead \cup {job[s]}
  /\ Free(s)
  /\ UNCHANGED <<apiVars, status, ready, linkVars, dbVars>>

-----------------------------------------------------------------------------
(* Failures of the worker and of its channel. *)

(* The broker takes back what the callbacks in S held unacknowledged. *)
Requeue(S) ==
  /\ ready' = ready \cup {job[s] : s \in {t \in S : pc[t] \in MainPCs}}
  /\ dead' = dead \cup {job[s] : s \in {t \in S : pc[t] \in DeadPCs}}

(* The process ends: its callbacks vanish, except that what they already   *)
(* wrote to the socket still reaches the broker.                           *)
Die ==
  LET lost == {s \in Slots : pc[s] \notin Answered} IN
  /\ Requeue({s \in lost : ~stale[s]})
  /\ pc' = [s \in Slots |-> IF s \in lost THEN "idle" ELSE pc[s]]
  /\ job' = [s \in Slots |-> IF s \in lost THEN NoJob ELSE job[s]]
  /\ stale' = [s \in Slots |-> FALSE]
  /\ connected' = FALSE
  /\ UNCHANGED <<apiVars, status, dbVars>>

Crash ==
  /\ "crash" \in Faults /\ restarts < MaxRestarts
  /\ restarts' = restarts + 1
  /\ Die

(* ack, publish and reject throw on a closed channel, the catch block's    *)
(* own reject too: an unhandled rejection, which ends a Node process.      *)
AnswerOnClosedChannel(s) ==
  /\ stale[s] /\ pc[s] \in {"done", "retry", "buried"}
  /\ Die
  /\ UNCHANGED restarts

(* An answer under way is lost with the channel; other callbacks run on.   *)
ChannelClose ==
  /\ "close" \in Faults /\ connected /\ restarts < MaxRestarts
  /\ restarts' = restarts + 1 /\ connected' = FALSE
  /\ Requeue({s \in Slots : ~stale[s]})
  /\ pc' = [s \in Slots |-> IF pc[s] \in Answered THEN "idle" ELSE pc[s]]
  /\ job' = [s \in Slots |-> IF pc[s] \in Answered THEN NoJob ELSE job[s]]
  /\ stale' = [s \in Slots |-> pc'[s] # "idle"]
  /\ UNCHANGED <<apiVars, status, dbVars>>

(* Start-up, or scheduleReconnect: both consumers are registered again. *)
Resubscribe ==
  /\ ~connected /\ connected' = TRUE
  /\ UNCHANGED <<apiVars, status, ready, dead, slotVars, restarts, dbVars>>

Expire(m) ==
  /\ "expiry" \in Faults /\ status[m] # Absent
  /\ status' = [status EXCEPT ![m] = Absent]
  /\ UNCHANGED <<apiVars, ready, dead, slotVars, linkVars, dbVars>>

-----------------------------------------------------------------------------
Api(m) == DirectWrite(m) \/ SetState(m) \/ Publish(m)

Callback(s) ==
  \/ GetState(s) \/ MarkInProgress(s) \/ RunWrite(s) \/ ResetPending(s)
  \/ Settle(s) \/ RetryOrReject(s) \/ Bury(s) \/ Ack(s) \/ Reject(s)
  \/ AnswerOnClosedChannel(s)

Next ==
  \/ \E m \in Msgs : Api(m) \/ Expire(m)
  \/ \E s \in Slots : Deliver(s) \/ Callback(s)
  \/ Crash \/ ChannelClose \/ Resubscribe

Spec == Init /\ [][Next]_vars

(* Every await ends (the breaker times a call out after a second), the     *)
(* event loop runs what is ready, the broker delivers to a registered      *)
(* consumer and the reconnect loop retries every two seconds.              *)
Fairness ==
  /\ \A s \in Slots : WF_vars(Callback(s)) /\ WF_vars(Deliver(s))
  /\ WF_vars(Resubscribe)

FairSpec == Spec /\ Fairness

-----------------------------------------------------------------------------
(* What the path guarantees.  Which of these hold depends on Faults: the    *)
(* runs and the README say which does under which.                          *)

(* Callback s works on a main-queue copy and has not answered the broker:   *)
(* what it does next can still change m's state.                            *)
Handling(s, m) == pc[s] \in MainPCs \ {"done", "sent"} /\ job[s].id = m

(* A write is applied at most once more often than it was reported failed  *)
(* to the caller that tried it: redelivery, retry and the dead-letter queue *)
(* never run a write that the worker already knows to have succeeded.       *)
AtMostOnce == \A m \in Msgs : effects[m] <= 1 + lates[m]

(* Why AtMostOnce holds while the cache answers and the channel stays open: *)
(* a message has one carrier at a time, and no carrier that may still run   *)
(* the write exists once a write was acknowledged.                          *)
Holds(s) == pc[s] \in MainPCs \ Answered

Carried(m) == \/ \E c \in ready : c.id = m
              \/ \E s \in Slots : Holds(s) /\ job[s].id = m

OneCarrier ==
  /\ \A c, d \in ready : c.id = d.id => c = d
  /\ \A c \in ready, s \in Slots : Holds(s) => job[s].id # c.id
  /\ \A s, t \in Slots : Holds(s) /\ Holds(t) /\ job[s].id = job[t].id => s = t

NotYetSent ==
  \A m \in Msgs :
    /\ req[m] \in {"new", "enqueue", "publish"} =>
         ~Carried(m) /\ effects[m] <= lates[m]
    /\ req[m] = "new" => status[m] = Absent

MayStillRun ==
  /\ \A m \in Msgs : status[m] = "pending" => effects[m] <= lates[m]
  /\ \A s \in Slots :
       /\ pc[s] \in {"mark", "write", "reset"} =>
            effects[job[s].id] <= lates[job[s].id]
       /\ pc[s] = "write" => status[job[s].id] # "pending"

OnceInv == OneCarrier /\ NotYetSent /\ MayStillRun /\ AtMostOnce

(* GET /tasks/queued/:id answers completed only when a worker's write was   *)
(* applied and returned, not merely when an attempt was made.               *)
CompletedMeansApplied ==
  \A m \in Msgs : status[m] = "completed" => effects[m] > lates[m]

(* It answers failed only when no attempt returned successfully.            *)
FailedMeansNotApplied ==
  \A m \in Msgs : status[m] = "failed" => effects[m] = lates[m]

(* A client that was told 202 and reads pending is not waiting in vain:     *)
(* the broker or a callback that has not settled it still holds the message.*)
PendingIsCarried ==
  \A m \in Msgs :
    req[m] = "accepted" /\ status[m] = "pending" =>
      \/ \E c \in ready \cup dead : c.id = m
      \/ \E s \in Slots : job[s].id = m /\ (Handling(s, m) \/ pc[s] = "bury")

(* in_progress is read only while a callback is at the write or at one of   *)
(* the updates that end the attempt, so it never outlives the attempt.      *)
InProgressIsRunning ==
  \A m \in Msgs :
    status[m] = "in_progress" =>
      \E s \in Slots : /\ pc[s] \in {"write", "reset", "complete", "fail"}
                        /\ job[s].id = m

(* Retries and redeliveries multiply a write only so far: one attempt of    *)
(* the API, one per retry level, and one more for each worker death.        *)
BoundedDuplication ==
  \A m \in Msgs : effects[m] <= MaxRetries + 2 + restarts

(* Every message the client was told is queued reaches a final status.      *)
EventuallySettled ==
  \A m \in Msgs : req[m] = "accepted" ~> status[m] \in Settled

(* The path implements the client's view of it, QueuedWrite.  A write that  *)
(* timed out and was applied all the same does not count as done: nobody    *)
(* was told.                                                                *)
ClientState ==
  [m \in Msgs |->
     IF status[m] = Absent /\ req[m] \in {"publish", "accepted", "unavailable"}
       THEN "forgotten" ELSE status[m]]

Acknowledged == [m \in Msgs |-> effects[m] - lates[m]]

Promised == INSTANCE QueuedWrite WITH state <- ClientState, done <- Acknowledged

RefinesQueuedWrite == Promised!Promise
=============================================================================
