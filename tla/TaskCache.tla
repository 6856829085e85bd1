------------------------------ MODULE TaskCache ------------------------------
(***************************************************************************)
(* The fallback cache: TaskService reads and writes the repository, keeps  *)
(* copies of what it read in the cache (TaskCacheService) and answers      *)
(* reads from them when the repository does not.                           *)
(*                                                                         *)
(* The database is one task and the list of all tasks, each known by the   *)
(* number of the write that changed it last.  Cache updates are            *)
(* fire-and-forget: a process sends them to Redis over one connection that *)
(* keeps their order, and nobody waits for them.  setImmediate puts them   *)
(* off to the end of the event loop's turn; what else happens in that turn *)
(* could as well have happened before it, and a request of the same client *)
(* arrives in a later turn, so they are sent with the return that asks for *)
(* them.  The API and the worker are processes of their own.  A tick is    *)
(* the time a breaker gives a call.                                        *)
(***************************************************************************)
EXTENDS Integers, Sequences, FiniteSets, SequencesExt

CONSTANTS
  Clients,    \* requests (or worker deliveries) served at the same time
  Processes,  \* the processes that use the cache
  At,         \* At[c] is the process that serves c
  Ops,        \* Ops[c]: the operations of TaskService that c calls
  Timeout,    \* ticks after which a breaker gives up on a call
  TTL,        \* TTL_S, ticks a cached copy lives
  Lag,        \* bound on the ticks a command waits on a connection
  MaxWrites,  \* bound on the writes of a behaviour
  Faults      \* the kinds of failure the environment produces

Reads  == {"getOne", "getAll"}
Writes == {"createOne", "updateOne", "deleteOne", "deleteAll"}

FaultKinds ==
  { "db",      \* the repository refuses a call
    "slow",    \* a call to it outlasts the breaker; a write may yet be applied
    "store" }  \* the cache's breaker refuses a command, or Redis loses it

ASSUME ClientsAssumption == IsFiniteSet(Clients)
ASSUME AtAssumption     == At \in [Clients -> Processes]
ASSUME OpsAssumption    == Ops \in [Clients -> SUBSET (Reads \cup Writes)]
ASSUME TimesAssumption  == {Timeout, TTL, Lag} \subseteq Nat \ {0} /\ MaxWrites \in Nat
ASSUME FaultsAssumption == Faults \subseteq FaultKinds

VARIABLES
  last,       \* last[k]: the write that changed key k's data last
  live,       \* the task exists
  age,        \* age[k][v]: ticks since v ceased to be key k's last write
  orphans,    \* writes given up on that the database still works on
  pc,         \* pc[c]: the await at which c stands
  timer,      \* timer[c]: ticks since it got there
  op,         \* op[c]: the operation c is executing
  val,        \* val[c]: what the database answered to it
  wire,       \* wire[p]: commands p has sent and Redis has not executed
  stall,      \* stall[p]: ticks since wire[p] was last empty
  cached,     \* cached[k]: the value of Redis key tasks:k
  left        \* left[k]: ticks it still lives, 0 when it is absent

dbVars    == <<last, live, age>>
callVars  == <<pc, timer, op, val>>
linkVars  == <<wire, stall>>
cacheVars == <<cached, left>>
vars      == <<dbVars, orphans, callVars, linkVars, cacheVars>>

Keys     == {"one", "all"}
Versions == 0..MaxWrites
Nothing  == -1  \* null, or an error: no task and no list

StaleCap == Timeout + Lag + TTL + 1  \* ages are not counted further

KeyOf(o) == IF o \in {"getOne", "updateOne", "deleteOne"} THEN "one" ELSE "all"

Set(k, v) == [do |-> "set", key |-> k, arg |-> v]
Del(k)    == [do |-> "del", key |-> k, arg |-> Nothing]
Get(k, c) == [do |-> "get", key |-> k, arg |-> c]

Command == {Set(k, v) : k \in Keys, v \in Versions} \cup {Del(k) : k \in Keys}
             \cup {Get(k, c) : k \in Keys, c \in Clients}

TypeOK ==
  /\ last \in [Keys -> Versions] /\ live \in BOOLEAN
  /\ age \in [Keys -> [Versions -> 0..StaleCap]]
  /\ orphans \subseteq Clients \X Writes
  /\ pc \in [Clients -> {"idle", "db", "reply", "fallback"}]
  /\ timer \in [Clients -> 0..Timeout]
  /\ op \in [Clients -> Reads \cup Writes \cup {"none"}]
  /\ val \in [Clients -> Versions \cup {Nothing}]
  /\ wire \in [Processes -> Seq(Command)]
  /\ stall \in [Processes -> 0..Lag]
  /\ cached \in [Keys -> Versions \cup {Nothing}] /\ left \in [Keys -> 0..TTL]

Init ==
  /\ last = [k \in Keys |-> 0] /\ live = TRUE
  /\ age = [k \in Keys |-> [v \in Versions |-> 0]]
  /\ orphans = {}
  /\ pc = [c \in Clients |-> "idle"] /\ timer = [c \in Clients |-> Timeout]
  /\ op = [c \in Clients |-> "none"] /\ val = [c \in Clients |-> Nothing]
  /\ wire = [p \in Processes |-> <<>>] /\ stall = [p \in Processes |-> 0]
  /\ cached = [k \in Keys |-> Nothing] /\ left = [k \in Keys |-> 0]

-----------------------------------------------------------------------------
(* The repository. *)

(* What findById and findAll find: a task that is gone is null, the list of *)
(* all tasks is never null.                                                 *)
Found(o) == IF KeyOf(o) = "one" /\ ~live THEN Nothing ELSE last[KeyOf(o)]

(* The keys whose data a write changes: another task is created, the task  *)
(* is changed or removed if it exists, all tasks are removed.              *)
Changes(o) == CASE o = "createOne" -> {"all"}
                [] o = "deleteAll" -> Keys
                [] OTHER           -> IF live THEN Keys ELSE {}

Commit(o) ==
  /\ last' = [k \in Keys |-> IF k \in Changes(o) THEN last["all"] + 1 ELSE last[k]]
  /\ live' = (live /\ o \notin {"deleteOne", "deleteAll"})
  /\ UNCHANGED age

(* Writes that may still be applied; Begin keeps them within MaxWrites. *)
Outstanding ==
  Cardinality({c \in Clients : pc[c] = "db" /\ op[c] \in Writes}) + Cardinality(orphans)

(* The database applies a write whose caller has given up on it. *)
OrphanCommits(c, o) ==
  /\ <<c, o>> \in orphans
  /\ orphans' = orphans \ {<<c, o>>}
  /\ Commit(o)
  /\ UNCHANGED <<callVars, linkVars, cacheVars>>

-----------------------------------------------------------------------------
(* TaskService. *)

(* Client c calls operation o, which calls the repository.  A client calls *)
(* at most once in a tick, which bounds what is on the connections.         *)
Begin(c, o) ==
  /\ pc[c] = "idle" /\ timer[c] = Timeout
  /\ o \in Writes => last["all"] + Outstanding < MaxWrites
  /\ pc' = [pc EXCEPT ![c] = "db"] /\ timer' = [timer EXCEPT ![c] = 0]
  /\ op' = [op EXCEPT ![c] = o]
  /\ UNCHANGED <<dbVars, orphans, val, linkVars, cacheVars>>

Finish(c) ==
  /\ pc' = [pc EXCEPT ![c] = "idle"] /\ timer' = [timer EXCEPT ![c] = 0]
  /\ op' = [op EXCEPT ![c] = "none"] /\ val' = [val EXCEPT ![c] = Nothing]

(* The database reads or applies; its answer is on the way. *)
AtDatabase(c) ==
  /\ pc[c] = "db"
  /\ pc' = [pc EXCEPT ![c] = "reply"]
  /\ \/ op[c] \in Reads /\ val' = [val EXCEPT ![c] = Found(op[c])] /\ UNCHANGED dbVars
     \/ op[c] \in Writes /\ Commit(op[c]) /\ UNCHANGED val
  /\ UNCHANGED <<orphans, timer, op, linkVars, cacheVars>>

(* Mutants of Refresh: the copy of the list survives; null is copied too. *)
RefreshKeepsList(o, v) ==
  CASE o \in Reads      -> IF v = Nothing THEN <<>> ELSE <<Set(KeyOf(o), v)>>
    [] o = "createOne"  -> <<Del("all")>>
    [] o = "deleteAll"  -> <<>>
    [] OTHER            -> <<Del("one")>>
RefreshNull(o, v) ==
  CASE o \in Reads      -> <<Set(KeyOf(o), v)>>
    [] o = "createOne"  -> <<Del("all")>>
    [] o = "deleteAll"  -> <<>>
    [] OTHER            -> <<Del("one"), Del("all")>>

(* What an operation that returns does to the cache: copy what was read,   *)
(* drop what a write has changed.  deleteAll leaves the cache alone.       *)
Refresh(o, v) ==
  CASE o \in Reads      -> IF v = Nothing THEN <<>> ELSE <<Set(KeyOf(o), v)>>
    [] o = "createOne"  -> <<Del("all")>>
    [] o = "deleteAll"  -> <<>>
    [] OTHER            -> <<Del("one"), Del("all")>>

(* set and del hand their commands to the cache's breaker, which sends all *)
(* of them, none, or - half open - the first.                               *)
Sent(cmds) == {cmds} \cup IF "store" \in Faults /\ cmds # <<>>
                            THEN {<<>>, <<Head(cmds)>>} ELSE {}

Return(c) ==
  /\ pc[c] = "reply"
  /\ Finish(c)
  /\ \E cmds \in Sent(Refresh(op[c], val[c])) :
       wire' = [wire EXCEPT ![At[c]] = @ \o cmds]
  /\ UNCHANGED <<dbVars, orphans, stall, cacheVars>>

(* The repository's breaker reports a failure: the database refused, or    *)
(* gave no answer in time.  A read goes to the cache, a write gives up.    *)
Unavailable(c) ==
  \/ "db" \in Faults /\ pc[c] = "db" /\ UNCHANGED orphans
  \/ /\ "slow" \in Faults /\ pc[c] \in {"db", "reply"} /\ timer[c] = Timeout
     /\ \/ UNCHANGED orphans
        \/ pc[c] = "db" /\ op[c] \in Writes /\ orphans' = orphans \cup {<<c, op[c]>>}

ReadFails(c) ==
  /\ op[c] \in Reads /\ Unavailable(c)
  /\ pc' = [pc EXCEPT ![c] = "fallback"] /\ timer' = [timer EXCEPT ![c] = 0]
  /\ val' = [val EXCEPT ![c] = Nothing]
  /\ wire' = [wire EXCEPT ![At[c]] = Append(@, Get(KeyOf(op[c]), c))]
  /\ UNCHANGED <<dbVars, op, stall, cacheVars>>

WriteFails(c) ==
  /\ op[c] \in Writes /\ Unavailable(c)
  /\ Finish(c)
  /\ UNCHANGED <<dbVars, linkVars, cacheVars>>

(* The cache fails as well: the read ends in an error. *)
FallbackFails(c) ==
  /\ "store" \in Faults /\ pc[c] = "fallback"
  /\ Finish(c)
  /\ \E i \in DOMAIN wire[At[c]] :
       /\ wire[At[c]][i] = Get(KeyOf(op[c]), c)
       /\ wire' = [wire EXCEPT ![At[c]] = RemoveAt(@, i)]
       /\ stall' = [stall EXCEPT ![At[c]] = IF Len(wire[At[c]]) = 1 THEN 0 ELSE @]
  /\ UNCHANGED <<dbVars, orphans, cacheVars>>

-----------------------------------------------------------------------------
(* TaskCacheService and Redis. *)

(* Mutant of Execute: a hit renews the copy. *)
ExecuteSliding(d) ==
  \/ /\ d.do = "set" /\ UNCHANGED callVars
     /\ cached' = [cached EXCEPT ![d.key] = d.arg]
     /\ left' = [left EXCEPT ![d.key] = TTL]
  \/ /\ d.do = "del" /\ UNCHANGED callVars
     /\ cached' = [cached EXCEPT ![d.key] = Nothing]
     /\ left' = [left EXCEPT ![d.key] = 0]
  \/ /\ d.do = "get" /\ Finish(d.arg) /\ UNCHANGED cached
     /\ left' = [left EXCEPT ![d.key] = IF @ > 0 THEN TTL ELSE 0]

(* SET EX, DEL, and GET, which answers the read that waits for it. *)
Execute(d) ==
  \/ /\ d.do = "set" /\ UNCHANGED callVars
     /\ cached' = [cached EXCEPT ![d.key] = d.arg]
     /\ left' = [left EXCEPT ![d.key] = TTL]
  \/ /\ d.do = "del" /\ UNCHANGED callVars
     /\ cached' = [cached EXCEPT ![d.key] = Nothing]
     /\ left' = [left EXCEPT ![d.key] = 0]
  \/ d.do = "get" /\ Finish(d.arg) /\ UNCHANGED cacheVars

Serve(p) ==
  /\ wire[p] # <<>>
  /\ wire' = [wire EXCEPT ![p] = Tail(@)]
  /\ stall' = [stall EXCEPT ![p] = IF Len(wire[p]) = 1 THEN 0 ELSE @]
  /\ \/ Execute(Head(wire[p]))
     \/ /\ "store" \in Faults /\ Head(wire[p]).do # "get"
        /\ UNCHANGED <<callVars, cacheVars>>
  /\ UNCHANGED <<dbVars, orphans>>

(* Nothing outlasts its limit; copies age and expire. *)
Tick ==
  /\ \A c \in Clients : pc[c] # "idle" => timer[c] < Timeout
  /\ \A p \in Processes : wire[p] # <<>> => stall[p] < Lag
  /\ timer' = [c \in Clients |-> IF timer[c] < Timeout THEN timer[c] + 1 ELSE Timeout]
  /\ stall' = [p \in Processes |-> IF wire[p] = <<>> THEN 0 ELSE stall[p] + 1]
  /\ age' = [k \in Keys |-> [v \in Versions |->
               IF v < last[k] /\ age[k][v] < StaleCap THEN age[k][v] + 1 ELSE age[k][v]]]
  /\ left' = [k \in Keys |-> IF left[k] > 0 THEN left[k] - 1 ELSE 0]
  /\ cached' = [k \in Keys |-> IF left[k] > 1 THEN cached[k] ELSE Nothing]
  /\ UNCHANGED <<last, live, orphans, pc, op, val, wire>>

-----------------------------------------------------------------------------
Continue(c) == \/ AtDatabase(c) \/ Return(c)
               \/ ReadFails(c) \/ WriteFails(c) \/ FallbackFails(c)

Next ==
  \/ \E c \in Clients : \/ Continue(c)
                         \/ \E o \in Ops[c] : Begin(c, o) \/ OrphanCommits(c, o)
  \/ \E p \in Processes : Serve(p)
  \/ Tick

Spec == Init /\ [][Next]_vars

(* Time passes, Redis gets on with what was sent, and every call ends: the *)
(* breaker sees to it.                                                      *)
Fairness ==
  /\ WF_vars(Tick)
  /\ \A p \in Processes : WF_vars(Serve(p))
  /\ \A c \in Clients : WF_vars(Continue(c))

FairSpec == Spec /\ Fairness

-----------------------------------------------------------------------------
(* A copy is at most TTL older than what a read saw, and a read saw it no  *)
(* more than a breaker timeout and the wait on the connection before:      *)
(* whatever overlaps or gets lost, no fallback answer is staler than that. *)
BoundedStaleness ==
  \A k \in Keys :
    left[k] > 0 => age[k][cached[k]] <= Timeout + Lag + (TTL - left[k])

(* When operations do not overlap, a read is answered from the cache only  *)
(* with what the database holds.                                            *)
FallbackIsCurrent ==
  \A p \in Processes :
    wire[p] # <<>> /\ Head(wire[p]).do = "get" =>
      LET k == Head(wire[p]).key IN left[k] > 0 => cached[k] = last[k]

(* Once writes cease, the cache comes to hold nothing but current data.    *)
StalenessHeals ==
  <>[](\A k \in Keys : left[k] > 0 => cached[k] = last[k])
=============================================================================
