-------------------------- MODULE RepositoryProofs --------------------------
(***************************************************************************)
(* Theorems about the task repository, for each adapter and for any        *)
(* number of clients, tasks and fields.                                     *)
(***************************************************************************)
EXTENDS Repository, TLAPS

LEMMA NotAbsent == \A t \in Tasks : t # Absent
<1> SUFFICES ASSUME NEW t \in Tasks, t = Absent PROVE FALSE
  OBVIOUS
<1>1. DOMAIN t = Fields
  BY DEF Tasks
<1>2. DOMAIN t = {}
  BY DEF Absent
<1> QED
  BY <1>1, <1>2, RepositoryAssumption

-----------------------------------------------------------------------------
(* Types. *)
LEMMA CallTyped ==
  ASSUME TypeOK, NEW c \in Clients
  PROVE  /\ call[c].op \in {"findById", "deleteOne", "updateOne"} => The(c) \in Ids
         /\ call[c].op = "updateOne" => call[c].changes \subseteq Fields
BY DEF TypeOK, Calls, NoCall, The

LEMMA ChangedTyped ==
  ASSUME NEW c \in Clients, NEW t \in Tasks
  PROVE  Changed(t, c) \in Tasks
BY DEF Changed, Tasks

LEMMA AnswersTyped ==
  /\ Null \in Answers /\ Error \in Answers /\ Pending \in Answers
  /\ \A b \in BOOLEAN : Flag(b) \in Answers
  /\ \A ts \in SUBSET Tasks : List(ts) \in Answers
  /\ \A t \in Tasks \cup {Absent} : Found(t) \in Answers
BY DEF Answers, Null, Error, Pending, Flag, List, Found

LEMMA ReturnTyped ==
  ASSUME TypeOK, NEW c \in Clients, NEW a \in Answers, Return(c, a)
  PROVE  /\ at' \in [Clients -> {"idle", "called", "updated", "read", "done"}]
         /\ answer' \in [Clients -> Answers]
BY AnswersTyped DEF Return, TypeOK

(* A call that stands behind its first await is an updateOne. *)
Underway ==
  \A c \in Clients :
    /\ at[c] = "updated" => call[c].op = "updateOne" /\ adapter = "postgres"
    /\ at[c] = "read"    => /\ call[c].op = "updateOne" /\ adapter = "memory"
                            /\ read[c] # Absent
    /\ at[c] # "done"    => answer[c] = Pending

UInv == TypeOK /\ Underway

LEMMA InitUnderway == Init => UInv
BY AnswersTyped DEF Init, UInv, TypeOK, Underway, Tasks

Acts(c) == Step(c) /\ Witness /\ UNCHANGED adapter

(* The part of TypeOK that a step and not Witness is answerable for. *)
Typed ==
  /\ rows \in [Ids -> Tasks \cup {Absent}]
  /\ born \subseteq Ids
  /\ call \in [Clients -> Calls \cup {NoCall}]
  /\ at \in [Clients -> {"idle", "called", "updated", "read", "done"}]
  /\ read \in [Clients -> Tasks \cup {Absent}]
  /\ answer \in [Clients -> Answers]
  /\ effects \in Seq(Clients)
  /\ raced \subseteq Ids

LEMMA ReadTyped ==
  ASSUME UInv, NEW c \in Clients, Return(c, Found(rows[The(c)])), The(c) \in Ids
  PROVE  /\ at' \in [Clients -> {"idle", "called", "updated", "read", "done"}]
         /\ answer' \in [Clients -> Answers]
<1>1. Found(rows[The(c)]) \in Answers
  BY AnswersTyped DEF UInv, TypeOK
<1> QED
  BY <1>1, ReturnTyped DEF UInv

LEMMA WrittenTyped ==
  ASSUME UInv, NEW c \in Clients, NEW id \in Ids, NEW t \in Tasks,
         rows' = [rows EXCEPT ![id] = t]
  PROVE  /\ rows' \in [Ids -> Tasks \cup {Absent}]
         /\ rows'[id] = t /\ Found(rows'[id]) \in Answers
BY AnswersTyped DEF UInv, TypeOK

LEMMA EffectTyped ==
  ASSUME TypeOK, NEW c \in Clients, Effect(c)
  PROVE  effects' \in Seq(Clients)
BY DEF Effect, TypeOK

LEMMA ActTyped ==
  ASSUME UInv, NEW c \in Clients, Acts(c)
  PROVE  TypeOK'
<1>1. absent' \in [Clients -> SUBSET Ids] /\ adapter' \in Adapters
  BY DEF Acts, Witness, UInv, TypeOK
<1>2. Typed /\ TypeOK /\ Underway
  BY DEF UInv, TypeOK, Typed
<1> SUFFICES Typed'
  BY <1>1 DEF TypeOK, Typed
<1>3. CASE Call(c)
  BY <1>2, <1>3 DEF Call, Await, Typed
<1>4. CASE Fail(c)
  BY <1>2, <1>4, AnswersTyped DEF Fail, Reads, Typed
<1>5. CASE FindById(c) \/ PostgresSelect(c)
  <2>1. The(c) \in Ids
    BY <1>2, <1>5, CallTyped DEF FindById, PostgresSelect, Called, Underway
  <2> QED
    BY <1>2, <1>5, <2>1, ReadTyped DEF FindById, PostgresSelect, Reads, Typed
<1>6. CASE FindAll(c)
  <2>1. List({rows[id] : id \in {i \in Ids : rows[i] # Absent}}) \in Answers
    <3>1. {rows[id] : id \in {i \in Ids : rows[i] # Absent}} \in SUBSET Tasks
      BY <1>2 DEF Typed
    <3> QED
      BY <3>1, AnswersTyped
  <2> QED
    BY <1>2, <1>6, <2>1, ReturnTyped DEF FindAll, Reads, Typed
<1>7. CASE CreateOne(c)
  <2>1. [f \in Fields |-> c] \in Tasks
    BY DEF Tasks
  <2>2. PICK id \in Ids \ born :
          /\ rows' = [rows EXCEPT ![id] = [f \in Fields |-> c]]
          /\ born' = born \cup {id}
          /\ Return(c, Found(rows'[id]))
    BY <1>7 DEF CreateOne
  <2>3. rows' \in [Ids -> Tasks \cup {Absent}] /\ Found(rows'[id]) \in Answers
    BY <2>1, <2>2, WrittenTyped
  <2>4. effects' \in Seq(Clients)
    BY <1>2, <1>7, EffectTyped DEF CreateOne
  <2> QED
    BY <1>2, <1>7, <2>2, <2>3, <2>4, ReturnTyped DEF CreateOne, Typed
<1>8. CASE PostgresUpdate(c)
  <2>1. The(c) \in Ids
    BY <1>2, <1>8, CallTyped DEF PostgresUpdate, Called
  <2>2. CASE rows[The(c)] = Absent
    BY <1>2, <1>8, <2>2, ReturnTyped, AnswersTyped DEF PostgresUpdate, Reads, Typed
  <2>3. CASE rows[The(c)] # Absent
    <3>1. Changed(rows[The(c)], c) \in Tasks
      BY <1>2, <2>1, <2>3, ChangedTyped DEF Typed
    <3>2. rows' = [rows EXCEPT ![The(c)] = Changed(rows[The(c)], c)] /\ Effect(c)
      BY <1>8, <2>3 DEF PostgresUpdate
    <3>3. rows' \in [Ids -> Tasks \cup {Absent}] /\ effects' \in Seq(Clients)
      BY <1>2, <2>1, <3>1, <3>2, WrittenTyped, EffectTyped
    <3> QED
      BY <1>2, <1>8, <2>3, <3>3 DEF PostgresUpdate, Await, Typed
  <2> QED
    BY <2>2, <2>3
<1>9. CASE MongoUpdate(c)
  <2>1. The(c) \in Ids
    BY <1>2, <1>9, CallTyped DEF MongoUpdate, Called
  <2>2. CASE rows[The(c)] = Absent \/ call[c].changes = {}
    BY <1>2, <1>9, <2>1, <2>2, ReadTyped DEF MongoUpdate, Reads, Typed
  <2>3. CASE ~(rows[The(c)] = Absent \/ call[c].changes = {})
    <3>1. Changed(rows[The(c)], c) \in Tasks
      BY <1>2, <2>1, <2>3, ChangedTyped DEF Typed
    <3>2. /\ rows' = [rows EXCEPT ![The(c)] = Changed(rows[The(c)], c)]
          /\ Effect(c) /\ Return(c, Found(rows'[The(c)]))
      BY <1>9, <2>3 DEF MongoUpdate
    <3>3. /\ rows' \in [Ids -> Tasks \cup {Absent}] /\ effects' \in Seq(Clients)
          /\ Found(rows'[The(c)]) \in Answers
      BY <1>2, <2>1, <3>1, <3>2, WrittenTyped, EffectTyped
    <3> QED
      BY <1>2, <1>9, <2>3, <3>2, <3>3, ReturnTyped DEF MongoUpdate, Typed
  <2> QED
    BY <2>2, <2>3
<1>10. CASE MemoryRead(c)
  <2>1. The(c) \in Ids
    BY <1>2, <1>10, CallTyped DEF MemoryRead, Called
  <2> QED
    BY <1>2, <1>10, <2>1, ReturnTyped, AnswersTyped DEF MemoryRead, Await, Typed
<1>11. CASE MemoryStore(c)
  <2>1. The(c) \in Ids /\ read[c] \in Tasks
    BY <1>2, <1>11, CallTyped DEF MemoryStore, Underway, Typed
  <2>2. Changed(read[c], c) \in Tasks
    BY <2>1, ChangedTyped
  <2>3. /\ rows' \in [Ids -> Tasks \cup {Absent}] /\ effects' \in Seq(Clients)
        /\ Found(rows'[The(c)]) \in Answers
    BY <1>2, <1>11, <2>1, <2>2, WrittenTyped, EffectTyped DEF MemoryStore
  <2> QED
    BY <1>2, <1>11, <2>1, <2>3, ReturnTyped DEF MemoryStore, Typed
<1>12. CASE DeleteOne(c)
  BY <1>2, <1>12, ReturnTyped, AnswersTyped DEF DeleteOne, Typed
<1>13. CASE DeleteAll(c)
  BY <1>2, <1>13, ReturnTyped, AnswersTyped DEF DeleteAll, Typed
<1> QED
  BY <1>3, <1>4, <1>5, <1>6, <1>7, <1>8, <1>9, <1>10, <1>11, <1>12, <1>13 DEF Acts, Step

(* How a step moves its own call, and that it leaves the others alone. *)
LEMMA ActMoves ==
  ASSUME UInv, NEW c \in Clients, Acts(c)
  PROVE  /\ \A d \in Clients \ {c} : /\ at'[d] = at[d] /\ answer'[d] = answer[d]
                                     /\ call'[d] = call[d] /\ read'[d] = read[d]
         /\ UNCHANGED adapter
         /\ \/ at[c] = "idle" /\ at'[c] = "called" /\ answer'[c] = answer[c]
            \/ /\ at[c] \in {"called", "updated", "read"} /\ call' = call
               /\ \/ at'[c] = "done"
                  \/ /\ at'[c] = "updated" /\ answer'[c] = answer[c]
                     /\ call[c].op = "updateOne" /\ adapter = "postgres"
                  \/ /\ at'[c] = "read" /\ answer'[c] = answer[c]
                     /\ call[c].op = "updateOne" /\ adapter = "memory"
                     /\ read'[c] # Absent
<1> USE DEF UInv, TypeOK
<1>1. CASE Call(c)
  BY <1>1 DEF Acts, Call, Await
<1>2. CASE Fail(c) \/ FindById(c) \/ FindAll(c) \/ PostgresSelect(c)
  BY <1>2 DEF Acts, Fail, FindById, FindAll, PostgresSelect, Called, Return, Reads
<1>3. CASE CreateOne(c) \/ DeleteOne(c) \/ DeleteAll(c) \/ MemoryStore(c)
  BY <1>3 DEF Acts, CreateOne, DeleteOne, DeleteAll, MemoryStore, Called, Return
<1>4. CASE PostgresUpdate(c) \/ MongoUpdate(c) \/ MemoryRead(c)
  BY <1>4 DEF Acts, PostgresUpdate, MongoUpdate, MemoryRead, Called, Return, Await, Reads
<1> QED
  BY <1>1, <1>2, <1>3, <1>4 DEF Acts, Step

LEMMA UnderwayKept ==
  ASSUME UInv, [Next]_vars
  PROVE  UInv'
<1>1. ASSUME NEW c \in Clients, Acts(c) PROVE UInv'
  BY <1>1, ActTyped, ActMoves DEF UInv, Underway
<1>2. CASE UNCHANGED vars
  BY <1>2 DEF vars, UInv, TypeOK, Underway
<1> QED
  BY <1>1, <1>2 DEF Next, Acts

(* Every state is well typed: no call ever returns anything but a task, a   *)
(* list, null, a boolean or an error, and no row is ever half written.      *)
THEOREM RepositoryTyping == Spec => []TypeOK
<1>1. UInv => TypeOK
  BY DEF UInv
<1> QED
  BY <1>1, InitUnderway, UnderwayKept, PTL DEF Spec

-----------------------------------------------------------------------------
(* Refinement of the table that changes in one step per operation.         *)
LEMMA UpdatesStore ==
  ASSUME UInv, NEW c \in Clients, The(c) \in Ids, rows[The(c)] # Absent,
         call[c].op = "updateOne",
         rows' = [rows EXCEPT ![The(c)] = Changed(rows[The(c)], c)], UNCHANGED born
  PROVE  Store!Next
<1>1. The(c) \in Store!Names /\ call[c].changes \in SUBSET Fields
  BY CallTyped DEF UInv, Store!Names, Store!Absent, Absent
<1>2. Store!Update(c)
  BY <1>1 DEF Store!Update, Changed
<1> QED
  BY <1>2 DEF Store!Next

LEMMA DeletesStore ==
  ASSUME UInv, NEW id \in Ids, rows' = [rows EXCEPT ![id] = Absent], UNCHANGED born
  PROVE  Store!Next
<1>1. Store!Delete({id})
  BY DEF Store!Delete, Store!Absent, Absent, UInv, TypeOK
<1> QED
  BY <1>1 DEF Store!Next

LEMMA ActRefines ==
  ASSUME UInv, NEW c \in Clients, Acts(c)
  PROVE  \/ Store!Next
         \/ IsStale(c) /\ MemoryStore(c)
         \/ UNCHANGED <<rows, born>>
<1> USE CallTyped DEF Called
<1>1. CASE Call(c) \/ Fail(c) \/ FindById(c) \/ FindAll(c) \/ PostgresSelect(c)
  BY <1>1 DEF Call, Fail, FindById, FindAll, PostgresSelect, Reads
<1>2. CASE CreateOne(c)
  <2>1. Store!Create(c)
    BY <1>2 DEF CreateOne, Store!Create
  <2> QED
    BY <2>1 DEF Store!Next
<1>3. CASE PostgresUpdate(c)
  BY <1>3, UpdatesStore DEF PostgresUpdate, UInv, Reads
<1>4. CASE MongoUpdate(c)
  BY <1>4, UpdatesStore DEF MongoUpdate, UInv, Reads
<1>5. CASE MemoryRead(c)
  BY <1>5 DEF MemoryRead
<1>6. CASE MemoryStore(c) /\ ~IsStale(c)
  BY <1>6, UpdatesStore DEF MemoryStore, IsStale, UInv, Underway
<1>7. CASE DeleteOne(c)
  BY <1>7, DeletesStore DEF DeleteOne, UInv
<1>8. CASE DeleteAll(c)
  <2>1. Store!Delete(Ids)
    BY <1>8 DEF DeleteAll, Store!Delete, Store!Absent, Absent
  <2> QED
    BY <2>1 DEF Store!Next
<1> QED
  BY <1>1, <1>2, <1>3, <1>4, <1>5, <1>6, <1>7, <1>8 DEF Acts, Step

(* Every adapter changes the table the way the abstract one does, whatever  *)
(* runs at the same time, the Map's store from a stale read aside: an       *)
(* update writes only the fields it was given and revives nothing.          *)
THEOREM ImplementsTaskStore == Spec => RefinesTaskStore
<1>1. UInv /\ [Next]_vars =>
        [\/ Store!Next
         \/ \E c \in Clients : IsStale(c) /\ MemoryStore(c)]_<<rows, born>>
  BY ActRefines DEF Next, Acts, vars
<1> QED
  BY <1>1, InitUnderway, UnderwayKept, PTL DEF Spec, RefinesTaskStore

-----------------------------------------------------------------------------
(* A null or a false is only said of a task that is absent.                *)
LEMMA SaysMissing ==
  ASSUME UInv, NEW c \in Clients, Acts(c), at'[c] = "done", at[c] # "idle", at[c] # "done",
         call[c].op \in {"findById", "updateOne", "deleteOne"},
         answer'[c].out \in {"null", "false"}
  PROVE  rows[The(c)] = Absent
<1> USE DEF Called, Return, UInv, TypeOK
<1>1. \A t : t # Absent => Found(t).out = "task"
  BY DEF Found
<1>2. Error.out = "error" /\ Flag(TRUE).out = "true"
  BY DEF Error, Flag
<1>3. CASE Call(c) \/ Fail(c)
  BY <1>2, <1>3 DEF Call, Fail
<1>4. CASE FindById(c) \/ PostgresSelect(c)
  BY <1>1, <1>2, <1>4 DEF FindById, PostgresSelect
<1>5. CASE FindAll(c) \/ CreateOne(c) \/ DeleteAll(c)
  BY <1>5 DEF FindAll, CreateOne, DeleteAll
<1>6. CASE PostgresUpdate(c) \/ MemoryRead(c)
  BY <1>6 DEF PostgresUpdate, MemoryRead, Await
<1>7. CASE MongoUpdate(c)
  <2>1. SUFFICES ASSUME rows[The(c)] # Absent PROVE FALSE
    OBVIOUS
  <2>2. CASE call[c].changes = {}
    BY <1>1, <1>2, <1>7, <2>1, <2>2 DEF MongoUpdate
  <2>3. CASE call[c].changes # {}
    <3>1. The(c) \in Ids /\ Changed(rows[The(c)], c) \in Tasks
      BY <1>7, <2>1, CallTyped, ChangedTyped DEF MongoUpdate
    <3>2. rows'[The(c)] # Absent /\ Return(c, Found(rows'[The(c)]))
      BY <1>7, <2>1, <2>3, <3>1, NotAbsent DEF MongoUpdate
    <3> QED
      BY <1>1, <1>2, <3>2
  <2> QED
    BY <2>2, <2>3
<1>8. CASE MemoryStore(c)
  <2>1. The(c) \in Ids /\ Changed(read[c], c) \in Tasks
    BY <1>8, CallTyped, ChangedTyped DEF MemoryStore, Underway
  <2>2. rows'[The(c)] # Absent /\ Return(c, Found(rows'[The(c)]))
    BY <1>8, <2>1, NotAbsent DEF MemoryStore
  <2> QED
    BY <1>1, <1>2, <2>2
<1>9. CASE DeleteOne(c)
  BY <1>2, <1>9 DEF DeleteOne
<1> QED
  BY <1>3, <1>4, <1>5, <1>6, <1>7, <1>8, <1>9 DEF Acts, Step

LEMMA MissingKept ==
  ASSUME UInv, MissingWasAbsent, [Next]_vars
  PROVE  MissingWasAbsent'
<1>1. ASSUME NEW c \in Clients, Acts(c) PROVE MissingWasAbsent'
  <2> SUFFICES ASSUME NEW d \in Clients,
                      call'[d].op \in {"findById", "updateOne", "deleteOne"},
                      answer'[d].out \in {"null", "false"}
               PROVE  call'[d].id \in absent'[d]
    BY DEF MissingWasAbsent
  <2>1. \A e \in Clients : absent[e] \subseteq absent'[e]
    BY <1>1 DEF Acts, Witness
  <2>2. Pending.out = "pending"
    BY DEF Pending
  <2>3. CASE d # c
    BY <1>1, <2>1, <2>3, ActMoves DEF MissingWasAbsent
  <2>4. CASE d = c
    <3>1. at[c] \in {"called", "updated", "read"} /\ at'[c] = "done" /\ call' = call
      BY <1>1, <2>2, <2>4, ActMoves DEF UInv, Underway
    <3>2. rows[The(c)] = Absent
      BY <1>1, <2>4, <3>1, SaysMissing
    <3>3. The(c) \in Ids
      BY <2>4, <3>1, CallTyped DEF UInv
    <3> QED
      BY <1>1, <2>4, <3>1, <3>2, <3>3 DEF Acts, Witness, The
  <2> QED
    BY <2>3, <2>4
<1>2. CASE UNCHANGED vars
  BY <1>2 DEF vars, MissingWasAbsent
<1> QED
  BY <1>1, <1>2 DEF Next, Acts

(* For every adapter: a call answers that there is no such task only when   *)
(* the task was absent at some time during the call.                        *)
THEOREM MissingIsTrue == Spec => []MissingWasAbsent
<1>1. Init => MissingWasAbsent
  BY DEF Init, MissingWasAbsent, Pending
<1> QED
  BY <1>1, InitUnderway, UnderwayKept, MissingKept, PTL DEF Spec

-----------------------------------------------------------------------------
(* Ids are drawn once: what is in the table, and what an update has read or *)
(* written, is a task whose id has been given out.                          *)
BornInv ==
  /\ \A id \in Ids : rows[id] # Absent => id \in born
  /\ \A c \in Clients : at[c] \in {"updated", "read"} => The(c) \in born

(* What a step does to one row. *)
LEMMA RowChanges ==
  ASSUME UInv, BornInv, NEW c \in Clients, Acts(c), NEW id \in Ids
  PROVE  /\ born \subseteq born' /\ raced \subseteq raced'
         /\ rows'[id] # Absent => id \in born'
         /\ id \in born /\ rows[id] = Absent => rows'[id] = Absent \/ id \in raced'
<1> USE CallTyped DEF Called, UInv, TypeOK, BornInv
<1>1. CASE Call(c) \/ Fail(c) \/ FindById(c) \/ FindAll(c) \/ PostgresSelect(c)
  BY <1>1 DEF Call, Fail, FindById, FindAll, PostgresSelect, Reads
<1>2. CASE CreateOne(c)
  BY <1>2 DEF CreateOne
<1>3. CASE PostgresUpdate(c) \/ MongoUpdate(c) \/ MemoryRead(c)
  BY <1>3 DEF PostgresUpdate, MongoUpdate, MemoryRead, Reads
<1>4. CASE MemoryStore(c)
  BY <1>4 DEF MemoryStore, IsStale, Underway
<1>5. CASE DeleteOne(c) \/ DeleteAll(c)
  BY <1>5 DEF DeleteOne, DeleteAll
<1> QED
  BY <1>1, <1>2, <1>3, <1>4, <1>5 DEF Acts, Step

LEMMA PointsAtBorn ==
  ASSUME UInv, BornInv, NEW c \in Clients, Acts(c), at'[c] \in {"updated", "read"}
  PROVE  The(c) \in born /\ call' = call
<1> USE CallTyped DEF Called, UInv, TypeOK, BornInv, Return
<1>1. CASE Call(c) \/ Fail(c) \/ FindById(c) \/ FindAll(c) \/ PostgresSelect(c)
  BY <1>1 DEF Call, Fail, FindById, FindAll, PostgresSelect, Reads, Await
<1>2. CASE CreateOne(c) \/ MemoryStore(c) \/ DeleteOne(c) \/ DeleteAll(c)
  BY <1>2 DEF CreateOne, MemoryStore, DeleteOne, DeleteAll
<1>3. CASE PostgresUpdate(c) \/ MongoUpdate(c) \/ MemoryRead(c)
  BY <1>3 DEF PostgresUpdate, MongoUpdate, MemoryRead, Reads
<1> QED
  BY <1>1, <1>2, <1>3 DEF Acts, Step

LEMMA BornKept ==
  ASSUME UInv, BornInv, [Next]_vars
  PROVE  BornInv'
<1>1. ASSUME NEW c \in Clients, Acts(c) PROVE BornInv'
  <2>1. \A id \in Ids : rows'[id] # Absent => id \in born'
    BY <1>1, RowChanges
  <2>2. born \subseteq born'
    BY <1>1 DEF Acts, Step, Call, Fail, FindById, FindAll, CreateOne, PostgresUpdate,
               PostgresSelect, MongoUpdate, MemoryRead, MemoryStore, DeleteOne, DeleteAll, Reads
  <2>3. ASSUME NEW d \in Clients, at'[d] \in {"updated", "read"}
        PROVE  call'[d].id \in born'
    BY <1>1, <2>2, <2>3, PointsAtBorn, ActMoves DEF BornInv, The
  <2> QED
    BY <2>1, <2>3 DEF BornInv, The
<1>2. CASE UNCHANGED vars
  BY <1>2 DEF vars, BornInv, The
<1> QED
  BY <1>1, <1>2 DEF Next, Acts

LEMMA InitBorn == Init => BornInv
BY DEF Init, BornInv

(* A task that somebody was told he removed is gone, unless a store from a  *)
(* stale read was made to it.                                               *)
Removed(c) == call[c].op = "deleteOne" /\ answer[c].out = "true"

RemovedIsGone ==
  \A c \in Clients :
    Removed(c) => \/ The(c) \in raced
                  \/ rows[The(c)] = Absent /\ The(c) \in born

LEMMA NewlyRemoved ==
  ASSUME UInv, BornInv, NEW c \in Clients, Acts(c), Removed(c)', ~Removed(c)
  PROVE  /\ call' = call /\ The(c) \in Ids /\ The(c) \in born
         /\ rows[The(c)] # Absent /\ rows'[The(c)] = Absent
<1>1. Pending.out = "pending"
  BY DEF Pending
<1>2. at'[c] = "done" /\ at[c] # "idle" /\ call' = call /\ call[c].op = "deleteOne"
  BY <1>1, ActMoves DEF UInv, Underway, Removed, TypeOK
<1>3. The(c) \in Ids
  BY <1>2, CallTyped DEF UInv
<1>4. CASE Fail(c)
  BY <1>4 DEF Fail, Removed, Error, UInv, TypeOK
<1>5. CASE DeleteOne(c)
  <2>1. rows[The(c)] # Absent
    BY <1>5 DEF DeleteOne, Return, Removed, Error, Flag, UInv, TypeOK
  <2> QED
    BY <1>2, <1>3, <1>5, <2>1 DEF DeleteOne, BornInv, UInv, TypeOK
<1> QED
  BY <1>2, <1>4, <1>5 DEF Acts, Step, Call, FindById, FindAll, CreateOne, PostgresUpdate,
     PostgresSelect, MongoUpdate, MemoryRead, MemoryStore, DeleteAll, Called, UInv, Underway

LEMMA RemovedAgain ==
  ASSUME UInv, NEW c \in Clients, NEW d \in Clients, Acts(c), Removed(d)', d # c
  PROVE  Removed(d) /\ call'[d] = call[d]
BY ActMoves DEF Removed

LEMMA RemovedHasId ==
  ASSUME UInv, NEW c \in Clients, Removed(c)
  PROVE  The(c) \in Ids
BY CallTyped DEF UInv, Removed

LEMMA RemovedBefore ==
  ASSUME UInv, NEW c \in Clients, Acts(c), Removed(c)', Removed(c)
  PROVE  call'[c] = call[c]
<1>1. at[c] = "done"
  BY DEF Removed, UInv, Underway, Pending
<1> QED
  BY <1>1, ActMoves

LEMMA RemoverKept ==
  ASSUME UInv, BornInv, RemovedIsGone, OneRemover, [Next]_vars
  PROVE  RemovedIsGone' /\ OneRemover'
<1>1. ASSUME NEW c \in Clients, Acts(c) PROVE RemovedIsGone' /\ OneRemover'
  <2>1. \A id \in Ids : /\ born \subseteq born' /\ raced \subseteq raced'
                        /\ id \in born /\ rows[id] = Absent =>
                              rows'[id] = Absent \/ id \in raced'
    BY <1>1, RowChanges
  <2>2. ASSUME NEW d \in Clients, Removed(d)'
        PROVE  /\ call'[d] = call[d] /\ The(d) \in Ids
               /\ \/ Removed(d)
                  \/ d = c /\ rows[The(d)] # Absent /\ The(d) \in born /\ rows'[The(d)] = Absent
    BY <1>1, <2>2, NewlyRemoved, RemovedAgain, RemovedHasId, RemovedBefore
  <2>3. RemovedIsGone'
    <3> SUFFICES ASSUME NEW d \in Clients, Removed(d)'
                 PROVE  \/ The(d) \in raced'
                        \/ rows'[The(d)] = Absent /\ The(d) \in born'
      BY <2>2 DEF RemovedIsGone, The
    <3> QED
      BY <2>1, <2>2 DEF RemovedIsGone
  <2>4. ASSUME NEW d \in Clients, NEW e \in Clients, d # e, Removed(d)', Removed(e)'
        PROVE  The(d) # The(e) \/ The(d) \in raced'
    BY <2>1, <2>2, <2>4 DEF OneRemover, RemovedIsGone, Removed, The
  <2> QED
    BY <2>2, <2>3, <2>4 DEF OneRemover, Removed, The
<1>2. CASE UNCHANGED vars
  BY <1>2 DEF vars, RemovedIsGone, OneRemover, Removed, The
<1> QED
  BY <1>1, <1>2 DEF Next, Acts

(* For every adapter: two calls of deleteOne are never both told that they  *)
(* removed the same task, the Map's store from a stale read aside.          *)
THEOREM RemovedOnce == Spec => []OneRemover
<1>1. Init => RemovedIsGone /\ OneRemover
  BY DEF Init, RemovedIsGone, OneRemover, Removed, Pending
<1> QED
  BY <1>1, InitUnderway, InitBorn, UnderwayKept, BornKept, RemoverKept, PTL DEF Spec

-----------------------------------------------------------------------------
(* What takes effect comes after everything that took effect before.       *)
LEMMA AfterGrows ==
  ASSUME TypeOK, NEW c \in Clients, Acts(c), NEW d \in Clients
  PROVE  After(d) \subseteq After(d)'
<1>1. CASE Effect(c)
  BY <1>1 DEF Effect, After, TypeOK
<1>2. CASE UNCHANGED effects
  BY <1>2 DEF After
<1> QED
  BY <1>1, <1>2 DEF Acts, Step, Call, Fail, FindById, FindAll, CreateOne, PostgresUpdate,
     PostgresSelect, MongoUpdate, MemoryRead, MemoryStore, DeleteOne, DeleteAll, Reads

Effective(c) == \E i \in DOMAIN effects : effects[i] = c

LEMMA EffectIsAfter ==
  ASSUME TypeOK, NEW c \in Clients, Effect(c)
  PROVE  /\ Effective(c)'
         /\ \A d \in Clients : Effective(d) => Effective(d)' /\ c \in After(d)'
<1>1. /\ effects' = Append(effects, c) /\ effects \in Seq(Clients)
      /\ DOMAIN effects' = 1..Len(effects) + 1 /\ Len(effects) + 1 \in DOMAIN effects'
      /\ effects'[Len(effects) + 1] = c
      /\ \A i \in DOMAIN effects : i \in DOMAIN effects' /\ effects'[i] = effects[i]
                                  /\ i < Len(effects) + 1
  BY DEF Effect, TypeOK
<1> QED
  BY <1>1 DEF Effective, After

(* What Postgres has updated and not yet selected: while the row is there   *)
(* it has the fields that were given, or what was written after them.       *)
Own(c, t) == \A f \in call[c].changes : t[f] \in {c} \cup After(c)

UpdatedIsOwn ==
  \A c \in Clients :
    at[c] = "updated" => /\ Effective(c)
                         /\ rows[The(c)] # Absent => Own(c, rows[The(c)])

LEMMA OwnChanged ==
  ASSUME UInv, NEW c \in Clients, NEW t, call[c].op = "updateOne"
  PROVE  Own(c, Changed(t, c))
BY CallTyped DEF UInv, Own, Changed

(* A write to the row that another call has updated comes after that call.  *)
LEMMA OverwrittenIsOwn ==
  ASSUME UInv, BornInv, UpdatedIsOwn, NEW c \in Clients, Acts(c),
         NEW d \in Clients, d # c, at[d] = "updated"
  PROVE  /\ Effective(d)'
         /\ rows'[The(d)] # Absent =>
              \A f \in call[d].changes : rows'[The(d)][f] \in {d} \cup After(d)'
<1>1. /\ adapter = "postgres" /\ call[d].op = "updateOne" /\ The(d) \in Ids
      /\ call[d].changes \subseteq Fields /\ The(d) \in born
  BY CallTyped DEF UInv, Underway, BornInv
<1>2. /\ Effective(d) /\ After(d) \subseteq After(d)'
      /\ rows[The(d)] # Absent =>
           \A f \in call[d].changes : rows[The(d)][f] \in {d} \cup After(d)
  BY AfterGrows DEF UInv, UpdatedIsOwn, Own
<1>3. CASE UNCHANGED effects /\ rows'[The(d)] \in {rows[The(d)], Absent}
  BY <1>2, <1>3 DEF Effective
<1>4. CASE Effect(c)
  <2>1. Effective(d)' /\ c \in After(d)'
    BY <1>2, <1>4, EffectIsAfter DEF UInv
  <2>2. CASE rows'[The(d)] = rows[The(d)]
    BY <1>2, <2>1, <2>2
  <2>3. CASE rows'[The(d)] = Changed(rows[The(d)], c) /\ rows[The(d)] # Absent
    BY <1>1, <1>2, <2>1, <2>3 DEF Changed
  <2>4. CASE CreateOne(c)
    BY <1>1, <2>2, <2>4 DEF CreateOne, UInv, TypeOK
  <2>5. CASE PostgresUpdate(c)
    BY <1>1, <2>2, <2>3, <2>5, CallTyped DEF PostgresUpdate, Called, Reads, UInv, TypeOK
  <2>6. CASE UNCHANGED rows
    BY <2>2, <2>6
  <2>7. CASE DeleteOne(c) \/ DeleteAll(c)
    BY <1>1, <1>2, <2>1, <2>7 DEF DeleteOne, DeleteAll, UInv, TypeOK
  <2> QED
    BY <1>1, <2>4, <2>5, <2>6, <2>7 DEF Acts, Step, Call, Fail, FindById, FindAll,
       PostgresSelect, MongoUpdate, MemoryRead, MemoryStore, Reads, UInv, Underway
<1>5. CASE (DeleteOne(c) \/ DeleteAll(c)) /\ UNCHANGED effects
  BY <1>1, <1>3, <1>5 DEF DeleteOne, DeleteAll, UInv, TypeOK, Effective
<1> QED
  BY <1>1, <1>3, <1>4, <1>5 DEF Acts, Step, Call, Fail, FindById, FindAll, CreateOne,
     PostgresUpdate, PostgresSelect, MongoUpdate, MemoryRead, MemoryStore, DeleteOne,
     DeleteAll, Reads, UInv, Underway

LEMMA NewlyUpdated ==
  ASSUME UInv, NEW c \in Clients, Acts(c), at'[c] = "updated"
  PROVE  /\ Effective(c)' /\ call' = call
         /\ \A f \in call[c].changes : rows'[The(c)][f] = c
<1>1. at[c] # "updated" => PostgresUpdate(c) /\ rows[The(c)] # Absent
  BY DEF Acts, Step, Call, Fail, FindById, FindAll, CreateOne, PostgresUpdate,
     PostgresSelect, MongoUpdate, MemoryRead, MemoryStore, DeleteOne, DeleteAll,
     Return, Await, UInv, TypeOK
<1>2. at[c] # "updated"
  BY DEF Acts, Step, Call, Fail, FindById, FindAll, CreateOne, PostgresUpdate,
     PostgresSelect, MongoUpdate, MemoryRead, MemoryStore, DeleteOne, DeleteAll,
     Return, Await, Called, UInv, TypeOK
<1>3. The(c) \in Ids /\ call[c].changes \subseteq Fields
  BY <1>1, <1>2, CallTyped DEF PostgresUpdate, Called, UInv
<1>4. /\ Effect(c) /\ call' = call
      /\ rows' = [rows EXCEPT ![The(c)] = Changed(rows[The(c)], c)]
  BY <1>1, <1>2, <1>3 DEF PostgresUpdate, Return, UInv, TypeOK
<1>5. Effective(c)'
  BY <1>4, EffectIsAfter DEF UInv
<1> QED
  BY <1>3, <1>4, <1>5 DEF Changed, UInv, TypeOK

LEMMA AnswersOwn ==
  ASSUME UInv, UpdatedIsOwn, NEW c \in Clients, Acts(c), at[c] # "idle", at[c] # "done",
         call[c].op = "updateOne", answer'[c].out = "task"
  PROVE  Own(c, answer'[c].task)
<1>1. \A t : Found(t).out = "task" => t # Absent /\ Found(t).task = t
  BY DEF Found, Null
<1>2. Error.out # "task" /\ Null.out # "task" /\ answer[c].out # "task"
  BY DEF Error, Null, Pending, UInv, Underway
<1>3. \A a : Return(c, a) => answer'[c] \in {a, Error}
  BY DEF Return, UInv, TypeOK
<1>4. The(c) \in Ids
  BY CallTyped DEF UInv
<1>5. CASE PostgresSelect(c)
  BY <1>1, <1>2, <1>3, <1>5 DEF PostgresSelect, UpdatedIsOwn
<1>6. CASE MongoUpdate(c)
  <2>1. CASE call[c].changes = {}
    BY <2>1 DEF Own
  <2>2. CASE call[c].changes # {}
    <3>1. \/ Return(c, Found(Absent))
          \/ Return(c, Found(Changed(rows[The(c)], c)))
      BY <1>4, <1>6, <2>2 DEF MongoUpdate, UInv, TypeOK
    <3> QED
      BY <1>1, <1>2, <1>3, <3>1, OwnChanged
  <2> QED
    BY <2>1, <2>2
<1>7. CASE MemoryStore(c)
  <2>1. Return(c, Found(Changed(read[c], c)))
    BY <1>4, <1>7 DEF MemoryStore, UInv, TypeOK
  <2> QED
    BY <1>1, <1>2, <1>3, <2>1, OwnChanged
<1>8. CASE PostgresUpdate(c) \/ MemoryRead(c)
  BY <1>2, <1>3, <1>8 DEF PostgresUpdate, MemoryRead, Await
<1>9. CASE Fail(c)
  BY <1>2, <1>9 DEF Fail, UInv, TypeOK
<1> QED
  BY <1>5, <1>6, <1>7, <1>8, <1>9 DEF Acts, Step, Call, FindById, FindAll, CreateOne,
     DeleteOne, DeleteAll, Called

LEMMA OwnKept ==
  ASSUME UInv, BornInv, UpdatedIsOwn, AnswersOwnWrite, [Next]_vars
  PROVE  UpdatedIsOwn' /\ AnswersOwnWrite'
<1>1. ASSUME NEW c \in Clients, Acts(c) PROVE UpdatedIsOwn'
  <2> SUFFICES ASSUME NEW d \in Clients, at'[d] = "updated"
               PROVE  /\ Effective(d)'
                      /\ rows'[call'[d].id] # Absent =>
                           \A f \in call'[d].changes :
                             rows'[call'[d].id][f] \in {d} \cup After(d)'
    BY DEF UpdatedIsOwn, Own, The
  <2>1. CASE d = c
    BY <1>1, <2>1, NewlyUpdated DEF The
  <2>2. CASE d # c
    BY <1>1, <2>2, ActMoves, OverwrittenIsOwn DEF The
  <2> QED
    BY <2>1, <2>2
<1>2. ASSUME NEW c \in Clients, Acts(c) PROVE AnswersOwnWrite'
  <2> SUFFICES ASSUME NEW d \in Clients, call'[d].op = "updateOne",
                      answer'[d].out = "task", NEW f \in call'[d].changes
               PROVE  answer'[d].task[f] \in {d} \cup After(d)'
    BY DEF AnswersOwnWrite
  <2>1. After(d) \subseteq After(d)'
    BY <1>2, AfterGrows DEF UInv
  <2>2. CASE call'[d] = call[d] /\ answer'[d] = answer[d]
    BY <2>1, <2>2 DEF AnswersOwnWrite
  <2>3. CASE d = c /\ answer'[c] # answer[c]
    BY <1>2, <2>1, <2>3, ActMoves, AnswersOwn DEF Own, UInv, Underway
  <2>4. CASE d = c /\ answer'[c] = answer[c] /\ call'[c] # call[c]
    BY <1>2, <2>4, ActMoves DEF UInv, Underway, Pending
  <2> QED
    BY <1>2, <2>2, <2>3, <2>4, ActMoves
<1>3. CASE UNCHANGED vars
  BY <1>3 DEF vars, UpdatedIsOwn, AnswersOwnWrite, Own, After, Effective, The
<1> QED
  BY <1>1, <1>2, <1>3 DEF Next, Acts

(* For every adapter: the task that an update answers has each field it was *)
(* given from this call or from a write that took effect after it, although *)
(* the SELECT behind Postgres' UPDATE may find what others wrote meanwhile. *)
THEOREM UpdateAnswersItself == Spec => []AnswersOwnWrite
<1>1. Init => UpdatedIsOwn /\ AnswersOwnWrite
  BY DEF Init, UpdatedIsOwn, AnswersOwnWrite, Pending
<1> QED
  BY <1>1, InitUnderway, InitBorn, UnderwayKept, BornKept, OwnKept, PTL DEF Spec
=============================================================================
