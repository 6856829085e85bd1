------------------------- MODULE QueuedWriteProofs -------------------------
(***************************************************************************)
(* TaskQueue implements QueuedWrite for any messages, callbacks, retries   *)
(* and worker deaths, while calls to the cache answer, the channel stays   *)
(* open and publish does not report backpressure: what the API answers on  *)
(* GET /tasks/queued/:id moves only as the sequence diagram draws it.      *)
(***************************************************************************)
EXTENDS TaskQueueProofs

USE DEF Statuses, Settled, Absent, MainPCs, DeadPCs, Answered

Calm == Quiet /\ "backpressure" \notin Faults

-----------------------------------------------------------------------------
(* Whoever may still act on a message: a copy in either queue, or a         *)
(* callback that has not sent the message on.  There is one at most.        *)
Bears(s) == pc[s] \notin {"idle", "sent"}
Copies   == ready \cup dead

OneBearer ==
  /\ ready \cap dead = {}
  /\ \A c, d \in Copies : c.id = d.id => c = d
  /\ \A c \in Copies, s \in Slots : Bears(s) => job[s].id # c.id
  /\ \A s, t \in Slots : Bears(s) /\ Bears(t) /\ job[s].id = job[t].id => s = t

Borne(m) == \/ \E c \in Copies : c.id = m
            \/ \E s \in Slots : Bears(s) /\ job[s].id = m

(* How often the database acknowledged m, and m's state unless forgotten. *)
Acks(m)    == effects[m] - lates[m]
Is(m, all) == status[m] \in all \cup {Absent}

(* What is known of a message, and what its bearer's place adds. *)
MsgPhase(m) ==
  /\ Acks(m) \in {0, 1}
  /\ req[m] \in {"new", "enqueue", "publish", "answered"} => ~Borne(m)
  /\ req[m] \in {"new", "enqueue", "publish"} => Acks(m) = 0
  /\ req[m] \in {"new", "enqueue", "answered"} => status[m] = Absent
  /\ status[m] = "pending" => Acks(m) = 0

SlotPhase(s) ==
  LET m == job[s].id IN
  /\ pc[s] \in {"mark", "retry", "reject"} => Is(m, {"pending"}) /\ Acks(m) = 0
  /\ pc[s] \in {"write", "fail", "reset"} => Is(m, {"in_progress"}) /\ Acks(m) = 0
  /\ pc[s] = "complete" => Is(m, {"in_progress"}) /\ Acks(m) = 1
  /\ pc[s] \in {"bury", "buried"} => Is(m, {"pending", "failed"}) /\ Acks(m) = 0

DeadPhase(c) == Is(c.id, {"pending", "failed"}) /\ Acks(c.id) = 0

Phases ==
  /\ \A m \in Msgs : MsgPhase(m)
  /\ \A s \in Slots : SlotPhase(s)
  /\ \A c \in dead : DeadPhase(c)

QInv == TypeOK /\ Open /\ OneBearer /\ Phases

(* A step of TaskQueue as the client sees it. *)
Seen == [Promised!Step]_<<ClientState, Acknowledged>>

-----------------------------------------------------------------------------
(* The mapping: what a change of the status, or of the tallies, is to the   *)
(* client.                                                                  *)
LEMMA Unseen ==
  ASSUME UNCHANGED <<status, req>>, \A m \in Msgs : Acks(m)' = Acks(m)
  PROVE  UNCHANGED <<ClientState, Acknowledged>>
BY DEF ClientState, Acknowledged, Acks

LEMMA Moves ==
  ASSUME NEW m \in Msgs, status \in [Msgs -> Statuses],
         status[m] # Absent, NEW new \in Statuses \ {Absent},
         status' = [status EXCEPT ![m] = new], UNCHANGED <<req, effects, lates>>
  PROVE  Promised!Move(m, status[m], new)
<1>1. ClientState[m] = status[m]
  BY DEF ClientState
<1>2. ClientState' = [ClientState EXCEPT ![m] = new]
  BY DEF ClientState
<1>3. Acknowledged' = Acknowledged
  BY DEF Acknowledged
<1> QED
  BY <1>1, <1>2, <1>3 DEF Promised!Move

LEMMA Applies ==
  ASSUME TypeOK, NEW m \in Msgs, ApplyWrite(m), Acks(m) = 0,
         ClientState[m] \in {"absent", "in_progress", "forgotten"},
         UNCHANGED <<ClientState>>
  PROVE  Promised!Apply(m)
<1>1. Acknowledged[m] = 0
  BY DEF Acknowledged, Acks
<1>2. \A n \in Msgs : Acks(n)' = IF n = m THEN 1 ELSE Acks(n)
  BY DEF ApplyWrite, Acks, TypeOK
<1>3. Acknowledged' = [Acknowledged EXCEPT ![m] = 1]
  BY <1>2 DEF Acknowledged, Acks
<1> QED
  BY <1>1, <1>3 DEF Promised!Apply

(* Failing to write, and finding nothing, acknowledge nothing. *)
LEMMA NoAck ==
  ASSUME TypeOK, NEW m \in Msgs, FailWrite(m) \/ FindNothing(m)
  PROVE  \A n \in Msgs : Acks(n)' = Acks(n)
BY DEF FailWrite, FindNothing, dbVars, Acks, TypeOK

-----------------------------------------------------------------------------
(* The API.  Until its message is published nobody else acts on a request. *)
LEMMA ApiQueued ==
  ASSUME QInv, Calm, NEW m \in Msgs, Api(m) \/ Expire(m)
  PROVE  OneBearer' /\ Phases' /\ Seen
<1> USE DEF QInv, Phases
<1>0. TypeOK'
  BY ApiTyped
<1>a. UNCHANGED <<dead, pc, job>> /\ \A s \in Slots : Bears(s)' <=> Bears(s)
  BY DEF Api, DirectWrite, SetState, Publish, Expire, slotVars, Bears
<1>b. ~Borne(m) => \A s \in Slots : pc[s] \notin {"idle", "sent"} =>
                     job[s].id \in Msgs \ {m}
  BY JobTyped DEF Borne, Bears
<1>c. ~Borne(m) => \A c \in dead : c.id \in Msgs \ {m}
  BY DEF Borne, Copies, TypeOK, Copy
<1>d. ASSUME ~Borne(m), \A n \in Msgs \ {m} : status'[n] = status[n] /\ Acks(n)' = Acks(n)
      PROVE  (\A s \in Slots : SlotPhase(s)') /\ \A c \in dead' : DeadPhase(c)'
  <2>1. \A s \in Slots : SlotPhase(s)'
    BY <1>a, <1>b, <1>d DEF SlotPhase, Is
  <2>2. \A c \in dead : DeadPhase(c)'
    BY <1>c, <1>d DEF DeadPhase, Is
  <2> QED
    BY <1>a, <2>1, <2>2
<1>1. CASE DirectWrite(m)
  <2>1. /\ ~Borne(m) /\ Acks(m) = 0 /\ status[m] = Absent /\ req[m] = "new"
        /\ UNCHANGED <<status, ready>>
    BY <1>1 DEF DirectWrite, MsgPhase
  <2>2. OneBearer' /\ \A n \in Msgs : Borne(n)' <=> Borne(n)
    BY <1>a, <2>1 DEF OneBearer, Borne, Copies
  <2>3. \A n \in Msgs \ {m} : Acks(n)' = Acks(n) /\ req'[n] = req[n]
    BY <1>1 DEF DirectWrite, ApplyWrite, FailWrite, FindNothing, dbVars, Acks, TypeOK
  <2>4. /\ req'[m] \in {"enqueue", "answered"}
        /\ \/ req'[m] = "answered" /\ ApplyWrite(m)
           \/ FailWrite(m) \/ FindNothing(m)
    BY <1>1 DEF DirectWrite, TypeOK
  <2>5. UNCHANGED ClientState
    <3>1. \A n \in Msgs : req'[n] \in {"publish", "accepted", "unavailable"}
                           <=> req[n] \in {"publish", "accepted", "unavailable"}
      BY <2>1, <2>3, <2>4
    <3> QED
      BY <2>1, <3>1 DEF ClientState
  <2>6. CASE req'[m] = "answered" /\ ApplyWrite(m)
    <3>1. ClientState[m] = "absent"
      BY <2>1 DEF ClientState
    <3>2. Promised!Apply(m)
      BY <2>1, <2>5, <2>6, <3>1, Applies
    <3>3. Acks(m)' = 1
      BY <2>1, <2>6 DEF ApplyWrite, Acks, TypeOK
    <3>4. \A n \in Msgs : MsgPhase(n)'
      BY <2>1, <2>2, <2>3, <2>6, <3>3 DEF MsgPhase
    <3> QED
      BY <1>d, <2>1, <2>2, <2>3, <3>2, <3>4 DEF Seen, Promised!Step
  <2>7. CASE FailWrite(m) \/ FindNothing(m)
    <3>1. \A n \in Msgs : Acks(n)' = Acks(n)
      BY <2>7, NoAck
    <3>2. UNCHANGED Acknowledged
      BY <3>1 DEF Acknowledged, Acks
    <3>3. \A n \in Msgs : MsgPhase(n)'
      BY <2>1, <2>2, <2>3, <2>4, <3>1 DEF MsgPhase
    <3> QED
      BY <1>d, <2>1, <2>2, <2>3, <2>5, <3>2, <3>3 DEF Seen
  <2> QED
    BY <2>4, <2>6, <2>7
<1>2. CASE SetState(m)
  <2>1. /\ ~Borne(m) /\ Acks(m) = 0 /\ status[m] = Absent /\ req[m] = "enqueue"
        /\ UNCHANGED <<ready, effects, lates>>
    BY <1>2 DEF SetState, MsgPhase, dbVars
  <2>2. /\ status' = [status EXCEPT ![m] = "pending"]
        /\ req' = [req EXCEPT ![m] = "publish"]
    BY <1>2, OnlyOutcome DEF SetState, Calm
  <2>3. OneBearer' /\ \A n \in Msgs : Borne(n)' <=> Borne(n)
    BY <1>a, <2>1 DEF OneBearer, Borne, Copies
  <2>4. \A n \in Msgs : Acks(n)' = Acks(n)
    BY <2>1 DEF Acks
  <2>5. \A n \in Msgs : MsgPhase(n)'
    BY <2>1, <2>2, <2>3, <2>4 DEF MsgPhase, TypeOK
  <2>6. Promised!Accept(m)
    <3>1. ClientState[m] = "absent" /\ Acknowledged[m] = 0
      BY <2>1 DEF ClientState, Acknowledged, Acks
    <3>2. ClientState' = [ClientState EXCEPT ![m] = "pending"]
      BY <2>2 DEF ClientState, TypeOK
    <3>3. Acknowledged' = Acknowledged
      BY <2>1 DEF Acknowledged
    <3> QED
      BY <3>1, <3>2, <3>3 DEF Promised!Accept, Promised!Move
  <2> QED
    BY <1>d, <2>1, <2>2, <2>3, <2>4, <2>5, <2>6 DEF Seen, Promised!Step, TypeOK
<1>3. CASE Publish(m)
  <2> DEFINE c == [id |-> m, retry |-> 0]
  <2>1. /\ ~Borne(m) /\ Acks(m) = 0 /\ req[m] = "publish"
        /\ UNCHANGED <<status, effects, lates>>
    BY <1>3 DEF Publish, MsgPhase, dbVars
  <2>2. /\ ready' \subseteq ready \cup {c} /\ c.id = m
        /\ req'[m] \in {"accepted", "unavailable"}
        /\ \A n \in Msgs \ {m} : req'[n] = req[n]
    BY <1>3 DEF Publish, TypeOK
  <2> HIDE DEF c
  <2>3. OneBearer'
    BY <1>a, <2>1, <2>2 DEF OneBearer, Borne, Copies
  <2>4. \A n \in Msgs \ {m} : Borne(n)' => Borne(n)
    BY <1>a, <2>2 DEF Borne, Copies
  <2>5. \A n \in Msgs : Acks(n)' = Acks(n)
    BY <2>1 DEF Acks
  <2>6. \A n \in Msgs : MsgPhase(n)'
    BY <2>1, <2>2, <2>4, <2>5 DEF MsgPhase
  <2>7. UNCHANGED <<ClientState, Acknowledged>>
    <3>1. \A n \in Msgs : req'[n] \in {"publish", "accepted", "unavailable"}
                           <=> req[n] \in {"publish", "accepted", "unavailable"}
      BY <2>1, <2>2
    <3> QED
      BY <2>1, <3>1 DEF ClientState, Acknowledged
  <2> QED
    BY <1>d, <2>1, <2>3, <2>5, <2>6, <2>7 DEF Seen
<1>4. CASE Expire(m)
  <2>1. /\ status' = [status EXCEPT ![m] = Absent] /\ status[m] # Absent
        /\ UNCHANGED <<req, ready, effects, lates>>
    BY <1>4 DEF Expire, apiVars, dbVars
  <2>2. OneBearer' /\ \A n \in Msgs : Borne(n)' <=> Borne(n)
    BY <1>a, <2>1 DEF OneBearer, Borne, Copies
  <2>3. \A n \in Msgs : Acks(n)' = Acks(n) /\ status'[n] \in {status[n], Absent}
    BY <2>1 DEF Acks, TypeOK
  <2>4. \A n \in Msgs : MsgPhase(n)'
    BY <2>1, <2>2, <2>3 DEF MsgPhase
  <2>5. \A s \in Slots : SlotPhase(s)'
    BY <1>a, <2>3, JobTyped DEF SlotPhase, Is
  <2>6. \A d \in dead : DeadPhase(d)'
    BY <2>3 DEF DeadPhase, Is, TypeOK, Copy
  <2>7. Promised!Forget(m)
    <3>1. req[m] \in {"publish", "accepted", "unavailable"}
      BY <2>1 DEF MsgPhase, TypeOK
    <3>2. ClientState[m] = status[m]
      BY <2>1 DEF ClientState
    <3>3. ClientState' = [ClientState EXCEPT ![m] = "forgotten"]
      BY <2>1, <3>1 DEF ClientState, TypeOK
    <3>4. Acknowledged' = Acknowledged
      BY <2>1 DEF Acknowledged
    <3>5. status[m] \in {"pending", "in_progress", "completed", "failed"}
      BY <2>1 DEF TypeOK
    <3> QED
      BY <3>2, <3>3, <3>4, <3>5 DEF Promised!Forget, Promised!Move
  <2> QED
    BY <1>a, <2>2, <2>4, <2>5, <2>6, <2>7 DEF Seen, Promised!Step
<1> QED
  BY <1>1, <1>2, <1>3, <1>4 DEF Api
-----------------------------------------------------------------------------
(* The callbacks.  What bearer s of message m does is nobody else's         *)
(* business: all other messages, bearers and copies stay in their phase.    *)
LEMMA Alone ==
  ASSUME QInv, NEW s \in Slots, Bears(s),
         UNCHANGED <<ready, dead, req, job>>,
         \A t \in Slots \ {s} : pc'[t] = pc[t],
         \A n \in Msgs \ {job[s].id} : status'[n] = status[n] /\ Acks(n)' = Acks(n),
         Bears(s)', SlotPhase(s)',
         Acks(job[s].id)' \in {0, 1},
         status'[job[s].id] = "pending" => Acks(job[s].id)' = 0
  PROVE  OneBearer' /\ Phases' /\ job[s].id \in Msgs
         /\ req[job[s].id] \in {"accepted", "unavailable"}
<1> DEFINE m == job[s].id
<1> USE DEF QInv, Phases
<1>1. m \in Msgs /\ Borne(m)
  BY JobTyped DEF Bears, Borne
<1>2. req[m] \in {"accepted", "unavailable"}
  BY <1>1 DEF MsgPhase, TypeOK
<1>3. \A t \in Slots : Bears(t)' <=> Bears(t)
  BY DEF Bears
<1>4. OneBearer' /\ \A n \in Msgs : Borne(n)' <=> Borne(n)
  BY <1>3 DEF OneBearer, Borne, Copies
<1>5. \A n \in Msgs : MsgPhase(n)'
  BY <1>1, <1>2, <1>4 DEF MsgPhase
<1>6. ASSUME NEW t \in Slots \ {s} PROVE SlotPhase(t)'
  <2>1. Bears(t) => job[t].id \in Msgs \ {m}
    BY JobTyped DEF Bears, OneBearer
  <2> QED
    BY <2>1 DEF SlotPhase, Is, Bears
<1>7. ASSUME NEW c \in dead PROVE DeadPhase(c)'
  <2>1. c.id \in Msgs \ {m}
    BY DEF OneBearer, Copies, TypeOK, Copy
  <2> QED
    BY <2>1 DEF DeadPhase, Is
<1> QED
  BY <1>1, <1>2, <1>4, <1>5, <1>6, <1>7

(* An update of the state by the bearer of m, as the client sees it. *)
LEMMA Updates ==
  ASSUME QInv, NEW s \in Slots, pc[s] # "idle", NEW new \in Statuses \ {Absent},
         UpdateState(job[s].id, new, TRUE), UNCHANGED <<req, job, effects, lates>>,
         Is(job[s].id, {"pending", "in_progress", new})
  PROVE  LET m == job[s].id IN
         /\ \A n \in Msgs \ {m} : status'[n] = status[n]
         /\ \A n \in Msgs : Acks(n)' = Acks(n)
         /\ Is(m, {new})'
         /\ \/ UNCHANGED <<ClientState, Acknowledged>>
            \/ status[m] # Absent /\ Promised!Move(m, status[m], new)
<1> DEFINE m == job[s].id
<1>1. m \in Msgs
  BY JobTyped DEF QInv
<1>a. \A n \in Msgs : Acks(n)' = Acks(n)
  BY DEF Acks
<1>2. CASE status[m] = Absent
  <2>1. status' = status
    BY <1>2 DEF UpdateState
  <2> QED
    BY <1>2, <1>a, <2>1, Unseen DEF Is
<1>3. CASE status[m] # Absent
  <2>1. status' = [status EXCEPT ![m] = new]
    BY <1>3 DEF UpdateState
  <2>2. Promised!Move(m, status[m], new)
    BY <1>1, <1>3, <2>1, Moves DEF QInv, TypeOK
  <2> QED
    BY <1>1, <1>3, <1>a, <2>1, <2>2 DEF Is, QInv, TypeOK
<1> QED
  BY <1>2, <1>3

LEMMA DeliverQueued ==
  ASSUME QInv, NEW s \in Slots, Deliver(s)
  PROVE  OneBearer' /\ Phases' /\ Seen
<1> USE DEF QInv, Phases
<1>1. PICK c \in Copies :
        /\ Copies' = Copies \ {c}
        /\ dead' \subseteq dead /\ ready' \subseteq ready
        /\ job' = [job EXCEPT ![s] = c]
        /\ \/ c \in ready /\ pc' = [pc EXCEPT ![s] = "get"]
           \/ c \in dead /\ pc' = [pc EXCEPT ![s] = "bury"]
  <2>1. ready \cap dead = {}
    BY DEF OneBearer
  <2> QED
    BY <2>1 DEF Deliver, Copies
<1>2. /\ ~Bears(s) /\ Bears(s)' /\ job'[s] = c /\ pc'[s] \in {"get", "bury"}
      /\ \A t \in Slots \ {s} : /\ job'[t] = job[t] /\ pc'[t] = pc[t]
                                /\ Bears(t)' <=> Bears(t)
  BY <1>1 DEF Deliver, Bears, TypeOK
<1>3. OneBearer'
  BY <1>1, <1>2 DEF OneBearer, Copies
<1>4. \A n \in Msgs : Borne(n)' => Borne(n)
  BY <1>1, <1>2 DEF Borne
<1>5. UNCHANGED <<status, req, effects, lates>> /\ \A n \in Msgs : Acks(n)' = Acks(n)
  BY DEF Deliver, apiVars, dbVars, Acks
<1>6. \A n \in Msgs : MsgPhase(n)'
  BY <1>4, <1>5 DEF MsgPhase
<1>7. \A d \in dead' : DeadPhase(d)'
  BY <1>1, <1>5 DEF DeadPhase, Is, Acks
<1>8. \A t \in Slots \ {s} : SlotPhase(t)'
  BY <1>2, <1>5 DEF SlotPhase, Is, Acks
<1>9. SlotPhase(s)'
  BY <1>1, <1>2, <1>5 DEF SlotPhase, DeadPhase, Is, Acks, TypeOK
<1> QED
  BY <1>3, <1>5, <1>6, <1>7, <1>8, <1>9, Unseen DEF Seen

LEMMA AttemptQueued ==
  ASSUME QInv, Calm, NEW s \in Slots,
         GetState(s) \/ MarkInProgress(s) \/ RunWrite(s) \/ ResetPending(s)
           \/ Settle(s) \/ Bury(s)
  PROVE  OneBearer' /\ Phases' /\ Seen
<1> DEFINE m == job[s].id
<1> USE DEF QInv, Phases
<1>0. /\ UNCHANGED <<ready, dead, req>>
      /\ \E next \in {"mark", "done", "write", "complete", "fail", "reset", "retry",
                      "buried"} : Goto(s, next)
      /\ pc[s] \in {"get", "mark", "write", "reset", "complete", "fail", "bury"}
  BY OnlyOutcome
  DEF GetState, MarkInProgress, RunWrite, ResetPending, Settle, Bury, apiVars, Calm,
      Quiet
<1>a. /\ Bears(s) /\ Bears(s)' /\ job' = job
      /\ \A t \in Slots \ {s} : pc'[t] = pc[t]
      /\ m \in Msgs /\ SlotPhase(s) /\ MsgPhase(m)
  BY <1>0, JobTyped DEF Goto, Bears, TypeOK
<1>1. CASE GetState(s)
  <2>1. /\ UNCHANGED <<status, effects, lates>>
        /\ (pc'[s] = "mark" /\ status[m] = "pending") \/ pc'[s] = "done"
    BY <1>1 DEF GetState, Goto, dbVars, Calm, Quiet, TypeOK
  <2>2. \A n \in Msgs : Acks(n)' = Acks(n)
    BY <2>1 DEF Acks
  <2>3. SlotPhase(s)' /\ Acks(m)' \in {0, 1} /\ (status'[m] = "pending" => Acks(m)' = 0)
    BY <1>a, <2>1, <2>2 DEF SlotPhase, MsgPhase, Is
  <2>4. OneBearer' /\ Phases'
    BY <1>0, <1>a, <2>1, <2>2, <2>3, Alone
  <2> QED
    BY <1>0, <2>1, <2>2, <2>4, Unseen DEF Seen
<1>2. CASE MarkInProgress(s)
  <2>1. /\ UpdateState(m, "in_progress", TRUE) /\ pc[s] = "mark" /\ pc'[s] = "write"
        /\ UNCHANGED <<effects, lates>>
    BY <1>2, OnlyOutcome DEF MarkInProgress, Goto, dbVars, Calm, TypeOK, UpdateState
  <2>2. Is(m, {"pending"}) /\ Acks(m) = 0
    BY <1>a, <2>1 DEF SlotPhase
  <2>3. /\ \A n \in Msgs \ {m} : status'[n] = status[n]
        /\ \A n \in Msgs : Acks(n)' = Acks(n)
        /\ Is(m, {"in_progress"})'
        /\ \/ UNCHANGED <<ClientState, Acknowledged>>
           \/ status[m] # Absent /\ Promised!Move(m, status[m], "in_progress")
    BY <1>0, <1>a, <2>1, <2>2, Updates DEF Is
  <2>4. SlotPhase(s)'
    BY <1>a, <2>1, <2>2, <2>3 DEF SlotPhase, Is
  <2>5. OneBearer' /\ Phases'
    BY <1>0, <1>a, <2>2, <2>3, <2>4, Alone DEF Is
  <2>6. Seen
    BY <1>a, <2>2, <2>3 DEF Seen, Promised!Step, Promised!Start, Is
  <2> QED
    BY <2>5, <2>6
<1>3. CASE RunWrite(s)
  <2>1. /\ pc[s] = "write" /\ Is(m, {"in_progress"}) /\ Acks(m) = 0 /\ status' = status
    BY <1>a, <1>3 DEF RunWrite, SlotPhase
  <2>2. UNCHANGED ClientState
    BY <1>0, <2>1 DEF ClientState
  <2>3. CASE pc'[s] = "complete" /\ ApplyWrite(m)
    <3>1. /\ \A n \in Msgs \ {m} : Acks(n)' = Acks(n)
          /\ Acks(m)' = 1
      BY <1>a, <2>1, <2>3 DEF ApplyWrite, Acks, TypeOK
    <3>2. SlotPhase(s)'
      BY <1>a, <2>1, <2>3, <3>1 DEF SlotPhase, Is
    <3>3. OneBearer' /\ Phases' /\ req[m] \in {"accepted", "unavailable"}
      BY <1>0, <1>a, <2>1, <3>1, <3>2, Alone DEF Is
    <3>4. ClientState[m] \in {"in_progress", "forgotten"}
      BY <1>a, <2>1, <3>3 DEF ClientState, Is
    <3>5. Promised!Apply(m)
      BY <1>a, <2>1, <2>2, <2>3, <3>4, Applies
    <3> QED
      BY <1>a, <3>3, <3>5 DEF Seen, Promised!Step
  <2>4. CASE pc'[s] \in {"fail", "reset"} /\ (FailWrite(m) \/ FindNothing(m))
    <3>1. \A n \in Msgs : Acks(n)' = Acks(n)
      BY <1>a, <2>4, NoAck
    <3>2. SlotPhase(s)'
      BY <1>a, <2>1, <2>4, <3>1 DEF SlotPhase, Is
    <3>3. OneBearer' /\ Phases'
      BY <1>0, <1>a, <2>1, <3>1, <3>2, Alone DEF Is
    <3> QED
      BY <1>0, <2>1, <3>1, <3>3, Unseen DEF Seen
  <2> QED
    BY <1>3, <2>3, <2>4 DEF RunWrite, Goto, TypeOK
<1>4. CASE ResetPending(s)
  <2>1. /\ UpdateState(m, "pending", TRUE) /\ pc[s] = "reset" /\ pc'[s] = "retry"
        /\ UNCHANGED <<effects, lates>>
    BY <1>4, OnlyOutcome DEF ResetPending, Goto, dbVars, Calm, TypeOK, UpdateState
  <2>2. Is(m, {"in_progress"}) /\ Acks(m) = 0
    BY <1>a, <2>1 DEF SlotPhase
  <2>3. /\ \A n \in Msgs \ {m} : status'[n] = status[n]
        /\ \A n \in Msgs : Acks(n)' = Acks(n)
        /\ Is(m, {"pending"})'
        /\ \/ UNCHANGED <<ClientState, Acknowledged>>
           \/ status[m] # Absent /\ Promised!Move(m, status[m], "pending")
    BY <1>0, <1>a, <2>1, <2>2, Updates DEF Is
  <2>4. SlotPhase(s)'
    BY <1>a, <2>1, <2>2, <2>3 DEF SlotPhase, Is
  <2>5. OneBearer' /\ Phases'
    BY <1>0, <1>a, <2>2, <2>3, <2>4, Alone DEF Is
  <2>6. Seen
    <3>1. Acknowledged[m] = 0
      BY <1>a, <2>2 DEF Acknowledged, Acks
    <3> QED
      BY <1>a, <2>2, <2>3, <3>1 DEF Seen, Promised!Step, Promised!BackOff, Is
  <2> QED
    BY <2>5, <2>6
<1>5. CASE Settle(s)
  <2>1. PICK new \in {"completed", "failed"} :
        /\ new = Verdict(pc[s]) /\ UpdateState(m, new, TRUE)
        /\ pc[s] \in {"complete", "fail"} /\ pc'[s] = "done"
        /\ UNCHANGED <<effects, lates>>
    BY <1>5, OnlyOutcome
    DEF Settle, Goto, dbVars, Calm, TypeOK, UpdateState, Verdict
  <2>2. /\ Is(m, {"in_progress"})
        /\ \/ new = "completed" /\ Acks(m) = 1
           \/ new = "failed" /\ Acks(m) = 0
    BY <1>a, <2>1 DEF SlotPhase, Verdict
  <2>3. /\ \A n \in Msgs \ {m} : status'[n] = status[n]
        /\ \A n \in Msgs : Acks(n)' = Acks(n)
        /\ Is(m, {new})'
        /\ \/ UNCHANGED <<ClientState, Acknowledged>>
           \/ status[m] # Absent /\ Promised!Move(m, status[m], new)
    BY <1>0, <1>a, <2>1, <2>2, Updates DEF Is
  <2>4. SlotPhase(s)'
    BY <2>1 DEF SlotPhase
  <2>5. OneBearer' /\ Phases'
    BY <1>0, <1>a, <2>2, <2>3, <2>4, Alone DEF Is
  <2>6. Seen
    <3>1. Acknowledged[m] = Acks(m)
      BY <1>a DEF Acknowledged, Acks
    <3> QED
      BY <1>a, <2>2, <2>3, <3>1
      DEF Seen, Promised!Step, Promised!Complete, Promised!Fail, Is
  <2> QED
    BY <2>5, <2>6
<1>6. CASE Bury(s)
  <2>1. /\ UpdateState(m, "failed", TRUE) /\ pc[s] = "bury" /\ pc'[s] = "buried"
        /\ UNCHANGED <<effects, lates>>
    BY <1>6, OnlyOutcome DEF Bury, Goto, dbVars, Calm, TypeOK, UpdateState
  <2>2. Is(m, {"pending", "failed"}) /\ Acks(m) = 0
    BY <1>a, <2>1 DEF SlotPhase
  <2>3. /\ \A n \in Msgs \ {m} : status'[n] = status[n]
        /\ \A n \in Msgs : Acks(n)' = Acks(n)
        /\ Is(m, {"failed"})'
        /\ \/ UNCHANGED <<ClientState, Acknowledged>>
           \/ status[m] # Absent /\ Promised!Move(m, status[m], "failed")
    BY <1>0, <1>a, <2>1, <2>2, Updates DEF Is
  <2>4. SlotPhase(s)'
    BY <1>a, <2>1, <2>2, <2>3 DEF SlotPhase, Is
  <2>5. OneBearer' /\ Phases'
    BY <1>0, <1>a, <2>2, <2>3, <2>4, Alone DEF Is
  <2>6. Seen
    <3>1. Acknowledged[m] = 0
      BY <1>a, <2>2 DEF Acknowledged, Acks
    <3>2. CASE status[m] = "failed"
      <4>1. status' = status
        BY <1>a, <2>1, <3>2 DEF UpdateState, TypeOK
      <4> QED
        BY <1>0, <2>3, <4>1, Unseen DEF Seen
    <3>3. CASE status[m] # "failed"
      BY <1>a, <2>2, <2>3, <3>1, <3>3 DEF Seen, Promised!Step, Promised!Fail, Is
    <3> QED
      BY <3>2, <3>3
  <2> QED
    BY <2>5, <2>6
<1> QED
  BY <1>1, <1>2, <1>3, <1>4, <1>5, <1>6

(* The steps that answer the broker: the message passes to a new bearer or  *)
(* to none.                                                                 *)
LEMMA AnswerQueued ==
  ASSUME QInv, Calm, NEW s \in Slots, RetryOrReject(s) \/ Ack(s) \/ Reject(s)
  PROVE  OneBearer' /\ Phases' /\ Seen
<1> DEFINE m == job[s].id
<1> USE DEF QInv, Phases
<1>0. /\ UNCHANGED <<status, req, effects, lates>>
      /\ \A n \in Msgs : Acks(n)' = Acks(n)
      /\ \A t \in Slots \ {s} : /\ pc'[t] = pc[t] /\ job'[t] = job[t]
                                /\ Bears(t)' <=> Bears(t)
  <2>1. UNCHANGED <<status, req, effects, lates>>
    BY DEF RetryOrReject, Ack, Reject, apiVars, dbVars
  <2>2. \A t \in Slots \ {s} : pc'[t] = pc[t] /\ job'[t] = job[t]
    BY DEF RetryOrReject, Ack, Reject, Goto, Free, TypeOK
  <2> QED
    BY <2>1, <2>2 DEF Acks, Bears
<1>1. CASE RetryOrReject(s) /\ Goto(s, "sent")
  <2> DEFINE c == [job[s] EXCEPT !.retry = @ + 1]
  <2>1. /\ Bears(s) /\ ~Bears(s)' /\ pc'[s] = "sent" /\ dead' = dead
        /\ ready' = ready \cup {c}
    BY <1>1 DEF RetryOrReject, Goto, Bears, TypeOK
  <2>2. c.id = m
    BY <1>1, JobTyped DEF RetryOrReject, Copy
  <2> HIDE DEF c
  <2>3. OneBearer'
    BY <1>0, <2>1, <2>2 DEF OneBearer, Copies
  <2>4. \A n \in Msgs : Borne(n)' => Borne(n)
    BY <1>0, <2>1, <2>2 DEF Borne, Copies
  <2>5. \A n \in Msgs : MsgPhase(n)'
    BY <1>0, <2>4 DEF MsgPhase
  <2>6. \A t \in Slots : SlotPhase(t)'
    BY <1>0, <2>1 DEF SlotPhase, Is, Acks
  <2>7. \A d \in dead' : DeadPhase(d)'
    BY <1>0, <2>1 DEF DeadPhase, Is, Acks
  <2> QED
    BY <1>0, <2>3, <2>5, <2>6, <2>7, Unseen DEF Seen
<1>2. CASE RetryOrReject(s) /\ ~Goto(s, "sent")
  <2>1. /\ Goto(s, "reject") /\ UNCHANGED <<ready, dead>> /\ pc[s] = "retry"
    BY <1>2 DEF RetryOrReject, Calm
  <2>2. /\ Bears(s) /\ Bears(s)' /\ pc'[s] = "reject" /\ job' = job
    BY <2>1 DEF Goto, Bears, TypeOK
  <2>3. m \in Msgs
    BY <2>1, JobTyped
  <2>4. SlotPhase(s)'
    BY <1>0, <2>1, <2>2, <2>3 DEF SlotPhase, Is
  <2>5. MsgPhase(m)
    BY <2>3
  <2>6. OneBearer' /\ Phases'
    BY <1>0, <2>1, <2>2, <2>3, <2>4, <2>5, Alone DEF MsgPhase
  <2> QED
    BY <1>0, <2>6, Unseen DEF Seen
<1>3. CASE Ack(s) \/ Reject(s)
  <2>1. /\ pc'[s] = "idle" /\ ~Bears(s)' /\ ready' = ready
        /\ Reject(s) => Bears(s) /\ dead' = dead \cup {job[s]} /\ pc[s] = "reject"
        /\ Ack(s) => dead' = dead
    BY <1>3 DEF Ack, Reject, Free, Bears, TypeOK
  <2>2. OneBearer'
    BY <1>0, <1>3, <2>1 DEF OneBearer, Copies
  <2>3. \A n \in Msgs : Borne(n)' => Borne(n)
    BY <1>0, <1>3, <2>1 DEF Borne, Copies
  <2>4. \A n \in Msgs : MsgPhase(n)'
    BY <1>0, <2>3 DEF MsgPhase
  <2>5. \A t \in Slots : SlotPhase(t)'
    BY <1>0, <2>1 DEF SlotPhase, Is, Acks
  <2>6. \A d \in dead' : DeadPhase(d)'
    BY <1>0, <1>3, <2>1, JobTyped DEF DeadPhase, SlotPhase, Is, Acks
  <2> QED
    BY <1>0, <2>2, <2>4, <2>5, <2>6, Unseen DEF Seen
<1> QED
  BY <1>1, <1>2, <1>3

(* A dying worker turns its bearers into copies, each in its old queue. *)
LEMMA CrashQueued ==
  ASSUME QInv, Crash
  PROVE  OneBearer' /\ Phases' /\ Seen
<1> USE DEF QInv, Phases
<1>1. /\ ready' = ready \cup {job[s] : s \in {t \in Slots : pc[t] \in MainPCs \ Answered}}
      /\ dead' = dead \cup {job[s] : s \in {t \in Slots : pc[t] \in DeadPCs}}
  BY DEF Crash, Die, Requeue, Open
<1>2. \A s \in Slots :
        /\ Bears(s)' => pc[s] = "reject" /\ pc'[s] = "reject" /\ job'[s] = job[s]
        /\ pc'[s] \in {"idle"} \cup Answered
  BY DEF Crash, Die, TypeOK, Bears
<1>3. \A s \in Slots : pc[s] \in (MainPCs \ Answered) \cup DeadPCs \cup {"reject"} => Bears(s)
  BY DEF Bears
<1>4. OneBearer'
  BY <1>1, <1>2, <1>3 DEF OneBearer, Copies
<1>5. \A n \in Msgs : Borne(n)' => Borne(n)
  BY <1>1, <1>2, <1>3 DEF Borne, Copies
<1>6. UNCHANGED <<status, req, effects, lates>> /\ \A n \in Msgs : Acks(n)' = Acks(n)
  BY DEF Crash, Die, apiVars, dbVars, Acks
<1>7. \A n \in Msgs : MsgPhase(n)'
  BY <1>5, <1>6 DEF MsgPhase
<1>8. \A s \in Slots : SlotPhase(s)'
  BY <1>2, <1>6 DEF SlotPhase, Is, Acks, Bears
<1>9. \A d \in dead' : DeadPhase(d)'
  BY <1>1, <1>6 DEF DeadPhase, SlotPhase, Is, Acks
<1> QED
  BY <1>4, <1>6, <1>7, <1>8, <1>9, Unseen DEF Seen

-----------------------------------------------------------------------------
(* QInv is inductive, and each step is one of QueuedWrite or none. *)
LEMMA InitQueued == Init => QInv /\ Promised!Begin
<1> SUFFICES ASSUME Init PROVE QInv /\ Promised!Begin
  OBVIOUS
<1>1. (\A s \in Slots : ~Bears(s) /\ pc[s] = "idle") /\ Copies = {}
  BY DEF Init, Bears, Copies
<1>2. OneBearer /\ \A m \in Msgs : ~Borne(m)
  BY <1>1 DEF OneBearer, Borne, Copies
<1>3. Phases
  BY <1>1, <1>2 DEF Init, Phases, MsgPhase, SlotPhase, DeadPhase, Acks
<1>4. Promised!Begin
  BY DEF Init, Promised!Begin, ClientState, Acknowledged
<1> QED
  BY <1>2, <1>3, <1>4, InitTyped, InitOpen DEF QInv

LEMMA StepQueued ==
  ASSUME QInv, Calm, [Next]_vars
  PROVE  QInv' /\ Seen
<1>1. TypeOK'
  <2>1. CASE Next
    BY <2>1, ApiTyped, CallbackTyped, LinkTyped DEF Next, QInv
  <2>2. CASE UNCHANGED vars
    BY <2>2 DEF vars, TypeOK, QInv
  <2> QED
    BY <2>1, <2>2
<1>2. Open'
  BY OpenKept DEF QInv, Calm, Quiet
<1>3. ASSUME NEW s \in Slots, Deliver(s) \/ Callback(s)
      PROVE  OneBearer' /\ Phases' /\ Seen
  <2>1. ~AnswerOnClosedChannel(s)
    BY DEF AnswerOnClosedChannel, QInv, Open
  <2> QED
    BY <1>3, <2>1, DeliverQueued, AttemptQueued, AnswerQueued DEF Callback
<1>4. ~ChannelClose
  BY DEF ChannelClose, Calm, Quiet
<1>5. CASE Resubscribe \/ UNCHANGED vars
  <2>1. UNCHANGED <<req, status, ready, dead, pc, job, effects, lates>>
    BY <1>5 DEF Resubscribe, vars, apiVars, slotVars, dbVars
  <2>2. UNCHANGED <<ClientState, Acknowledged>>
    BY <2>1 DEF ClientState, Acknowledged
  <2> QED
    BY <1>1, <1>2, <2>1, <2>2 DEF QInv, Seen, OneBearer, Copies, Bears, Phases, Borne,
       MsgPhase, SlotPhase, DeadPhase, Is, Acks
<1>6. ASSUME NEW m \in Msgs, Api(m) \/ Expire(m)
      PROVE  OneBearer' /\ Phases' /\ Seen
  BY <1>6, ApiQueued
<1>7. OneBearer' /\ Phases' /\ Seen
  BY <1>3, <1>4, <1>5, <1>6, CrashQueued DEF Next, QInv
<1> QED
  BY <1>1, <1>2, <1>7 DEF QInv

(* The queued write path implements what the sequence diagram promises the  *)
(* client: the states in their order, a write done at most once, completed  *)
(* only if it is done and failed only if it is not, whatever the database,  *)
(* the publish and the expiry of states do and whenever workers die.        *)
THEOREM ImplementsQueuedWrite == Calm => (Spec => RefinesQueuedWrite)
<1> SUFFICES ASSUME Calm PROVE Spec => RefinesQueuedWrite
  OBVIOUS
<1>1. Init => QInv /\ Promised!Begin
  BY InitQueued
<1>2. QInv /\ [Next]_vars => QInv' /\ [Promised!Step]_(Promised!vars)
  BY StepQueued DEF Seen, Promised!vars
<1> QED
  BY <1>1, <1>2, PTL DEF Spec, RefinesQueuedWrite, Promised!Promise
=============================================================================
