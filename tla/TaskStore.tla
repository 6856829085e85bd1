------------------------------ MODULE TaskStore ------------------------------
(***************************************************************************)
(* What TaskService takes the task table for: every operation of           *)
(* CommonRepository changes it in one step, an update sets the fields it   *)
(* was given and no other, and a task that has been deleted is gone.       *)
(***************************************************************************)
CONSTANTS Ids, Fields, Clients

VARIABLES
  tasks,  \* tasks[id]: who wrote each field, or Absent
  born    \* the ids that have been given out

Absent == <<>>
Names  == {id \in Ids : tasks[id] # Absent}

(* createOne: under an id that is new. *)
Create(c) ==
  \E id \in Ids \ born :
    /\ tasks' = [tasks EXCEPT ![id] = [f \in Fields |-> c]]
    /\ born' = born \cup {id}

(* updateOne: the fields that c gives, of a task that is there. *)
Update(c) ==
  \E id \in Names, changes \in SUBSET Fields :
    /\ tasks' = [tasks EXCEPT ![id] =
                   [f \in Fields |-> IF f \in changes THEN c ELSE @[f]]]
    /\ UNCHANGED born

(* deleteOne and deleteAll. *)
Delete(ids) ==
  /\ tasks' = [id \in Ids |-> IF id \in ids THEN Absent ELSE tasks[id]]
  /\ UNCHANGED born

Next ==
  \/ \E c \in Clients : Create(c) \/ Update(c)
  \/ \E id \in Ids : Delete({id})
  \/ Delete(Ids)
=============================================================================
