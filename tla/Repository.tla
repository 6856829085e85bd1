----------------------------- MODULE Repository -----------------------------
(***************************************************************************)
(* The task repository behind the circuit breaker, with each of the three  *)
(* adapters that TasksRepositoryModule can wire: CommonPostgresRepository, *)
(* CommonMongoRepository and CommonInMemoryRepository.  Clients call it at *)
(* the same time (requests of several API processes and the worker; with   *)
(* the Map, the requests of one process).                                  *)
(*                                                                         *)
(* A statement that a database runs is one step.  What stands between two  *)
(* steps of one call is an await.  A task is, for each of its fields, the  *)
(* client that wrote it last.                                              *)
(***************************************************************************)
EXTENDS Naturals, Sequences

CONSTANTS
  Clients,   \* each makes one call
  Ids,       \* ids that createOne can draw
  Fields,    \* fields of a task that an update can change
  Adapters,  \* adapters under test, of {"postgres", "mongo", "memory"}
  Seed       \* who wrote the tasks that are there at the beginning

ASSUME RepositoryAssumption ==
  /\ Adapters \subseteq {"postgres", "mongo", "memory"}
  /\ Seed \notin Clients /\ Fields # {}

VARIABLES
  adapter,  \* the adapter that the module provides
  rows,     \* table, collection or Map: rows[id] is a task or Absent
  born,     \* ids that have been given out
  call,     \* call[c]: what c called
  at,       \* at[c]: how far the call is
  read,     \* read[c]: the task that updateOne of the Map has read
  answer,   \* answer[c]: what the call returned or threw
  effects,  \* history: the clients whose writes took effect, in order
  absent,   \* history: ids that were absent at some time during c's call
  raced     \* history: ids that a store from a stale read was made to

vars == <<adapter, rows, born, call, at, read, answer, effects, absent, raced>>

Absent == <<>>
Tasks  == [Fields -> Clients \cup {Seed}]

Calls ==
  [op : {"findAll", "createOne", "deleteAll"}]
    \cup [op : {"findById", "deleteOne"}, id : Ids]
    \cup [op : {"updateOne"}, id : Ids, changes : SUBSET Fields]

NoCall == [op |-> "none"]

(* What a call can come back with. *)
Pending  == [out |-> "pending"]
Error    == [out |-> "error"]
Null     == [out |-> "null"]
Flag(b)  == [out |-> IF b THEN "true" ELSE "false"]
List(ts) == [out |-> "list", tasks |-> ts]
Found(t) == IF t = Absent THEN Null ELSE [out |-> "task", task |-> t]

Answers ==
  [out : {"pending", "error", "null", "true", "false"}]
    \cup [out : {"list"}, tasks : SUBSET Tasks]
    \cup [out : {"task"}, task : Tasks]

TypeOK ==
  /\ adapter \in Adapters
  /\ rows \in [Ids -> Tasks \cup {Absent}]
  /\ born \subseteq Ids
  /\ call \in [Clients -> Calls \cup {NoCall}]
  /\ at \in [Clients -> {"idle", "called", "updated", "read", "done"}]
  /\ read \in [Clients -> Tasks \cup {Absent}]
  /\ answer \in [Clients -> Answers]
  /\ effects \in Seq(Clients)
  /\ absent \in [Clients -> SUBSET Ids] /\ raced \subseteq Ids

Init ==
  /\ adapter \in Adapters
  /\ born \in SUBSET Ids
  /\ rows = [id \in Ids |->
              IF id \in born THEN [f \in Fields |-> Seed] ELSE Absent]
  /\ call = [c \in Clients |-> NoCall]
  /\ at = [c \in Clients |-> "idle"]
  /\ read = [c \in Clients |-> Absent]
  /\ answer = [c \in Clients |-> Pending]
  /\ effects = <<>>
  /\ absent = [c \in Clients |-> {}]
  /\ raced = {}

-----------------------------------------------------------------------------
Called(c, op) == at[c] = "called" /\ call[c].op = op
The(c) == call[c].id

(* t with the changes of c's call. *)
Changed(t, c) == [f \in Fields |-> IF f \in call[c].changes THEN c ELSE t[f]]

(* c's call returns a; the connection to a database can break before its    *)
(* answer is read, and the call then throws although it took effect.        *)
Return(c, a) ==
  /\ at' = [at EXCEPT ![c] = "done"]
  /\ \/ answer' = [answer EXCEPT ![c] = a]
     \/ adapter # "memory" /\ answer' = [answer EXCEPT ![c] = Error]

(* The call goes on behind the next await. *)
Await(c, point) == at' = [at EXCEPT ![c] = point] /\ UNCHANGED answer

Effect(c) == effects' = Append(effects, c)

Reads == UNCHANGED <<rows, born, effects, read, raced>>

-----------------------------------------------------------------------------
Call(c) ==
  /\ at[c] = "idle"
  /\ \E r \in Calls : call' = [call EXCEPT ![c] = r]
  /\ Await(c, "called")
  /\ UNCHANGED <<rows, born, effects, read, raced>>

(* The statement does not reach the database, or fails there. *)
Fail(c) ==
  /\ adapter # "memory" /\ at[c] \in {"called", "updated"}
  /\ at' = [at EXCEPT ![c] = "done"]
  /\ answer' = [answer EXCEPT ![c] = Error]
  /\ Reads /\ UNCHANGED call

FindById(c) ==
  /\ Called(c, "findById")
  /\ Return(c, Found(rows[The(c)]))
  /\ Reads /\ UNCHANGED call

FindAll(c) ==
  /\ Called(c, "findAll")
  /\ Return(c, List({rows[id] : id \in {i \in Ids : rows[i] # Absent}}))
  /\ Reads /\ UNCHANGED call

(* The database or randomUUID draws an id that was never drawn before. *)
CreateOne(c) ==
  /\ Called(c, "createOne")
  /\ \E id \in Ids \ born :
       /\ rows' = [rows EXCEPT ![id] = [f \in Fields |-> c]]
       /\ born' = born \cup {id}
       /\ Return(c, Found(rows'[id]))
  /\ Effect(c)
  /\ UNCHANGED <<call, read, raced>>

(* Mutants of PostgresUpdate: the task is upserted; affected counts only    *)
(* the rows that an update changes.                                         *)
PostgresUpsert(c) ==
  /\ adapter = "postgres" /\ Called(c, "updateOne")
  /\ rows' = [rows EXCEPT ![The(c)] =
                IF @ = Absent THEN [f \in call[c].changes |-> c]
                              ELSE Changed(@, c)]
  /\ Effect(c) /\ Await(c, "updated")
  /\ UNCHANGED <<call, born, read, raced>>
PostgresUpdateIfNew(c) ==
  /\ adapter = "postgres" /\ Called(c, "updateOne")
  /\ \/ /\ rows[The(c)] = Absent \/ call[c].changes = {}
        /\ Return(c, Null) /\ Reads /\ UNCHANGED call
     \/ /\ rows[The(c)] # Absent /\ call[c].changes # {}
        /\ rows' = [rows EXCEPT ![The(c)] = Changed(@, c)]
        /\ Effect(c) /\ Await(c, "updated")
        /\ UNCHANGED <<call, born, read, raced>>

(* updateOne in SQL: the UPDATE, and if it affected a row ... *)
PostgresUpdate(c) ==
  /\ adapter = "postgres" /\ Called(c, "updateOne")
  /\ \/ /\ rows[The(c)] = Absent
        /\ Return(c, Null) /\ Reads /\ UNCHANGED call
     \/ /\ rows[The(c)] # Absent
        /\ rows' = [rows EXCEPT ![The(c)] = Changed(@, c)]
        /\ Effect(c) /\ Await(c, "updated")
        /\ UNCHANGED <<call, born, read, raced>>

(* ... a SELECT of what the row is by now. *)
PostgresSelect(c) ==
  /\ at[c] = "updated"
  /\ Return(c, Found(rows[The(c)]))
  /\ Reads /\ UNCHANGED call

(* Mutant of MongoUpdate: without the option new, the answer is the old one. *)
MongoUpdateOld(c) ==
  /\ adapter = "mongo" /\ Called(c, "updateOne")
  /\ LET t == rows[The(c)] IN
     \/ /\ t = Absent \/ call[c].changes = {}
        /\ Return(c, Found(t)) /\ Reads /\ UNCHANGED call
     \/ /\ t # Absent /\ call[c].changes # {}
        /\ rows' = [rows EXCEPT ![The(c)] = Changed(@, c)]
        /\ Effect(c) /\ Return(c, Found(t))
        /\ UNCHANGED <<call, born, read, raced>>

(* findByIdAndUpdate is one statement; no changes, and it is a find. *)
MongoUpdate(c) ==
  /\ adapter = "mongo" /\ Called(c, "updateOne")
  /\ LET t == rows[The(c)] IN
     \/ /\ t = Absent \/ call[c].changes = {}
        /\ Return(c, Found(t)) /\ Reads /\ UNCHANGED call
     \/ /\ t # Absent /\ call[c].changes # {}
        /\ rows' = [rows EXCEPT ![The(c)] = Changed(t, c)]
        /\ Effect(c) /\ Return(c, Found(rows'[The(c)]))
        /\ UNCHANGED <<call, born, read, raced>>

(* updateOne of the Map: what is there is read before an await ... *)
MemoryRead(c) ==
  /\ adapter = "memory" /\ Called(c, "updateOne")
  /\ LET t == rows[The(c)] IN
     \/ t = Absent /\ Return(c, Null) /\ UNCHANGED read
     \/ t # Absent /\ Await(c, "read") /\ read' = [read EXCEPT ![c] = t]
  /\ UNCHANGED <<call, rows, born, effects, raced>>

(* The task has changed or gone since c read it. *)
IsStale(c) == at[c] = "read" /\ rows[The(c)] # read[c]

(* Mutant of MemoryStore: the task read is spread over the changes. *)
MemoryStoreOld(c) ==
  /\ at[c] = "read"
  /\ rows' = [rows EXCEPT ![The(c)] = read[c]]
  /\ raced' = IF IsStale(c) THEN raced \cup {The(c)} ELSE raced
  /\ Effect(c) /\ Return(c, Found(rows'[The(c)]))
  /\ UNCHANGED <<call, born, read>>

(* ... and stored with the changes behind it, whatever is there by then. *)
MemoryStore(c) ==
  /\ at[c] = "read"
  /\ rows' = [rows EXCEPT ![The(c)] = Changed(read[c], c)]
  /\ raced' = IF IsStale(c) THEN raced \cup {The(c)} ELSE raced
  /\ Effect(c) /\ Return(c, Found(rows'[The(c)]))
  /\ UNCHANGED <<call, born, read>>

(* Mutant of DeleteOne: the count of affected rows is not looked at. *)
DeleteOneTrue(c) ==
  /\ Called(c, "deleteOne")
  /\ rows' = [rows EXCEPT ![The(c)] = Absent]
  /\ Return(c, Flag(TRUE))
  /\ UNCHANGED <<call, born, effects, read, raced>>

DeleteOne(c) ==
  /\ Called(c, "deleteOne")
  /\ rows' = [rows EXCEPT ![The(c)] = Absent]
  /\ Return(c, Flag(rows[The(c)] # Absent))
  /\ UNCHANGED <<call, born, effects, read, raced>>

DeleteAll(c) ==
  /\ Called(c, "deleteAll")
  /\ rows' = [id \in Ids |-> Absent]
  /\ Return(c, Null)
  /\ UNCHANGED <<call, born, effects, read, raced>>

-----------------------------------------------------------------------------
(* History: what each call under way sees absent. *)
Witness ==
  absent' = [c \in Clients |->
    IF at[c] \in {"idle", "done"} /\ at'[c] # "called" THEN absent[c]
    ELSE absent[c] \cup {id \in Ids : Absent \in {rows[id], rows'[id]}}]

Step(c) ==
  \/ Call(c) \/ Fail(c)
  \/ FindById(c) \/ FindAll(c) \/ CreateOne(c)
  \/ PostgresUpdate(c) \/ PostgresSelect(c)
  \/ MongoUpdate(c)
  \/ MemoryRead(c) \/ MemoryStore(c)
  \/ DeleteOne(c) \/ DeleteAll(c)

Next == \E c \in Clients : Step(c) /\ Witness /\ UNCHANGED adapter

Spec == Init /\ [][Next]_vars

-----------------------------------------------------------------------------
Store == INSTANCE TaskStore WITH tasks <- rows

(* The table changes as the abstract one does: nothing an update was not    *)
(* given is written, and no task comes back once deleted, whatever runs at  *)
(* the same time.  The exception is updateOne of the in-memory repository   *)
(* storing over a task that has changed since it was read.                  *)
RefinesTaskStore ==
  [][\/ Store!Next
     \/ \E c \in Clients : IsStale(c) /\ MemoryStore(c)]_<<rows, born>>

(* Clients whose writes took effect after that of c. *)
After(c) ==
  {effects[j] : j \in {j \in DOMAIN effects :
     \E i \in DOMAIN effects : i < j /\ effects[i] = c}}

(* The task that an update answers has each field it was given from this    *)
(* call or from one that took effect after it, although Postgres answers    *)
(* from a second statement.                                                 *)
AnswersOwnWrite ==
  \A c \in Clients :
    call[c].op = "updateOne" /\ answer[c].out = "task" =>
      \A f \in call[c].changes : answer[c].task[f] \in {c} \cup After(c)

(* "There is no such task" is said only of a task that was absent at some   *)
(* time during the call.                                                    *)
MissingWasAbsent ==
  \A c \in Clients :
    call[c].op \in {"findById", "updateOne", "deleteOne"}
      /\ answer[c].out \in {"null", "false"} => call[c].id \in absent[c]

(* One deleteOne of a task is told that it removed it, the Map's stale      *)
(* store aside.                                                             *)
OneRemover ==
  \A c, d \in Clients :
    /\ c # d
    /\ call[c].op = "deleteOne" /\ answer[c].out = "true"
    /\ call[d].op = "deleteOne" /\ answer[d].out = "true"
    => call[c].id # call[d].id \/ call[c].id \in raced
=============================================================================
