---------------------------- MODULE QueuedWrite ----------------------------
(***************************************************************************)
(* What the queued write path promises a client, as the sequence diagram   *)
(* docs/diagrams/message-queue-async.plantuml draws it: a write that could *)
(* not be done directly is pending, then in progress, back to pending when *)
(* an attempt fails, and ends completed or failed.  It is done at most     *)
(* once; it is reported completed only once it is done, and failed only if *)
(* it is not.  A state that outlives its TTL is forgotten for good.        *)
(***************************************************************************)
EXTENDS Naturals

CONSTANT Msgs

VARIABLES
  state,  \* what GET /tasks/queued/:id answers
  done    \* the write has been carried out

vars == <<state, done>>

Begin ==
  /\ state = [m \in Msgs |-> "absent"]
  /\ done = [m \in Msgs |-> 0]

Move(m, from, to) ==
  state[m] = from /\ state' = [state EXCEPT ![m] = to] /\ UNCHANGED done

(* The write is carried out, by the API itself or by a worker that holds it. *)
Apply(m) ==
  /\ state[m] \in {"absent", "in_progress", "forgotten"} /\ done[m] = 0
  /\ done' = [done EXCEPT ![m] = 1] /\ UNCHANGED state

Accept(m)   == done[m] = 0 /\ Move(m, "absent", "pending")
Start(m)    == Move(m, "pending", "in_progress")
BackOff(m)  == done[m] = 0 /\ Move(m, "in_progress", "pending")
Complete(m) == done[m] = 1 /\ Move(m, "in_progress", "completed")
Fail(m)     == done[m] = 0 /\ \E from \in {"pending", "in_progress"} :
                                 Move(m, from, "failed")
Forget(m)   == \E from \in {"pending", "in_progress", "completed", "failed"} :
                 Move(m, from, "forgotten")

Step == \E m \in Msgs :
          \/ Apply(m) \/ Accept(m) \/ Start(m) \/ BackOff(m)
          \/ Complete(m) \/ Fail(m) \/ Forget(m)

Promise == Begin /\ [][Step]_vars
=============================================================================
