--------------------------- MODULE TaskCacheProofs ---------------------------
(***************************************************************************)
(* Theorems about the fallback cache, for any number of clients, processes *)
(* and writes and any times.                                                *)
(***************************************************************************)
EXTENDS TaskCache, FiniteSetTheorems, SequenceTheorems, TLAPS

-----------------------------------------------------------------------------
(* Types, a group of variables at a time. *)
DbTyped ==
  /\ last \in [Keys -> Versions] /\ live \in BOOLEAN
  /\ age \in [Keys -> [Versions -> 0..StaleCap]]
CallsTyped ==
  /\ pc \in [Clients -> {"idle", "db", "reply", "fallback"}]
  /\ timer \in [Clients -> 0..Timeout]
  /\ op \in [Clients -> Reads \cup Writes \cup {"none"}]
  /\ val \in [Clients -> Versions \cup {Nothing}]
LinksTyped ==
  /\ wire \in [Processes -> Seq(Command)] /\ stall \in [Processes -> 0..Lag]
CachesTyped ==
  /\ cached \in [Keys -> Versions \cup {Nothing}] /\ left \in [Keys -> 0..TTL]

LEMMA TypesInGroups ==
  TypeOK <=> /\ DbTyped /\ CallsTyped /\ LinksTyped /\ CachesTyped
             /\ orphans \subseteq Clients \X Writes
BY DEF TypeOK, DbTyped, CallsTyped, LinksTyped, CachesTyped

LEMMA Times ==
  /\ Timeout \in Nat \ {0} /\ TTL \in Nat \ {0} /\ Lag \in Nat \ {0} /\ MaxWrites \in Nat
  /\ StaleCap \in Nat /\ Nothing \notin Versions /\ 0 \in Versions
BY TimesAssumption DEF StaleCap, Nothing, Versions

LEMMA KeysTyped == "one" \in Keys /\ "all" \in Keys /\ \A o : KeyOf(o) \in Keys
BY DEF Keys, KeyOf

LEMMA CommandParts ==
  ASSUME NEW d \in Command
  PROVE  /\ d.do \in {"set", "del", "get"} /\ d.key \in Keys
         /\ d.do = "set" => d.arg \in Versions
         /\ d.do = "get" => d.arg \in Clients
BY DEF Command, Set, Del, Get

LEMMA CommandsTyped ==
  /\ \A k \in Keys : Del(k) \in Command /\ \A v \in Versions : Set(k, v) \in Command
  /\ \A k \in Keys, c \in Clients : Get(k, c) \in Command
BY DEF Command

-----------------------------------------------------------------------------
(* The inductive invariant.                                                *)

(* What a key holds now has no age. *)
Ages ==
  /\ last["one"] <= last["all"]
  /\ \A k \in Keys, v \in Versions : v >= last[k] => age[k][v] = 0

Underway == {c \in Clients : pc[c] = "db" /\ op[c] \in Writes}

(* The bound on writes holds for those that have still to be applied.      *)
Room == IsFiniteSet(orphans) /\ last["all"] + Outstanding <= MaxWrites

(* A read saw its value since its call began. *)
ReadIsRecent ==
  \A c \in Clients :
    pc[c] = "reply" /\ op[c] \in Reads /\ val[c] # Nothing =>
      age[KeyOf(op[c])][val[c]] <= timer[c]

(* A copy on its way was read at most a timeout before it was sent. *)
SentIsRecent ==
  \A p \in Processes : \A i \in DOMAIN wire[p] :
    wire[p][i].do = "set" =>
      age[wire[p][i].key][wire[p][i].arg] <= Timeout + stall[p]

CachedIsRecent ==
  \A k \in Keys :
    left[k] > 0 => /\ cached[k] \in Versions
                   /\ age[k][cached[k]] <= Timeout + Lag + (TTL - left[k])

CInv == TypeOK /\ Ages /\ Room /\ ReadIsRecent /\ SentIsRecent /\ CachedIsRecent

LEMMA InitCache == Init => CInv
<1> SUFFICES ASSUME Init PROVE CInv
  OBVIOUS
<1> USE Times
<1>1. DbTyped /\ CallsTyped /\ LinksTyped /\ CachesTyped /\ orphans = {}
  BY DEF Init, DbTyped, CallsTyped, LinksTyped, CachesTyped, Versions
<1>2. TypeOK
  BY <1>1, TypesInGroups
<1>3. Ages
  BY KeysTyped DEF Init, Ages
<1>4. Room
  <2>1. Underway = {}
    BY DEF Init, Underway
  <2>2. Cardinality(Underway) = 0 /\ Cardinality(orphans) = 0 /\ IsFiniteSet(orphans)
    BY <1>1, <2>1, FS_EmptySet
  <2>3. last["all"] = 0
    BY KeysTyped DEF Init
  <2> QED
    BY <2>2, <2>3 DEF Room, Outstanding, Underway
<1>5. ReadIsRecent /\ SentIsRecent /\ CachedIsRecent
  BY DEF Init, ReadIsRecent, SentIsRecent, CachedIsRecent
<1> QED
  BY <1>2, <1>3, <1>4, <1>5 DEF CInv

-----------------------------------------------------------------------------
(* The database. *)
LEMMA Counts ==
  ASSUME CInv
  PROVE  /\ IsFiniteSet(Underway) /\ Cardinality(Underway) \in Nat
         /\ IsFiniteSet(orphans) /\ Cardinality(orphans) \in Nat
         /\ Outstanding = Cardinality(Underway) + Cardinality(orphans)
         /\ last["all"] \in Nat /\ last["all"] + Outstanding <= MaxWrites
<1>1. IsFiniteSet(Underway)
  BY ClientsAssumption, FS_Subset DEF Underway
<1> QED
  BY <1>1, FS_CardinalityType, KeysTyped DEF CInv, Room, Outstanding, Underway, TypeOK, Versions

LEMMA RoomKept ==
  ASSUME CInv, IsFiniteSet(orphans'),
         Cardinality(Underway') + Cardinality(orphans') + last'["all"]
           <= Cardinality(Underway) + Cardinality(orphans) + last["all"],
         IsFiniteSet(Underway'), last'["all"] \in Nat
  PROVE  Room'
<1>1. Outstanding' = Cardinality(Underway') + Cardinality(orphans')
  BY DEF Outstanding, Underway
<1>2. Cardinality(Underway') \in Nat /\ Cardinality(orphans') \in Nat
  BY FS_CardinalityType
<1> QED
  BY <1>1, <1>2, Counts, Times DEF Room

LEMMA CommitTyped ==
  ASSUME CInv, NEW o \in Writes, Commit(o), last["all"] < MaxWrites
  PROVE  /\ DbTyped' /\ Ages' /\ age' = age
         /\ last'["all"] \in {last["all"], last["all"] + 1}
<1>1. /\ last' = [k \in Keys |-> IF k \in Changes(o) THEN last["all"] + 1 ELSE last[k]]
      /\ live' = (live /\ o \notin {"deleteOne", "deleteAll"}) /\ age' = age
  BY DEF Commit
<1>2. /\ last \in [Keys -> Versions] /\ live \in BOOLEAN
      /\ age \in [Keys -> [Versions -> 0..StaleCap]]
      /\ last["one"] <= last["all"]
      /\ \A k \in Keys, v \in Versions : v >= last[k] => age[k][v] = 0
  BY DEF CInv, TypeOK, Ages
<1>3. Changes(o) \in {{"all"}, Keys, {}}
  BY DEF Changes
<1>4. last["all"] \in 0..MaxWrites /\ last["one"] \in 0..MaxWrites
  BY <1>2, KeysTyped DEF Versions
<1>5. last' \in [Keys -> Versions]
  <2>1. last["all"] + 1 \in Versions
    BY <1>4, Times DEF Versions
  <2> QED
    BY <1>1, <1>2, <2>1
<1>6. live' \in BOOLEAN
  BY <1>1, <1>2
<1>7. /\ last'["one"] <= last'["all"] /\ last'["all"] \in {last["all"], last["all"] + 1}
      /\ \A k \in Keys : last'[k] >= last[k]
  BY <1>1, <1>2, <1>3, <1>4 DEF Keys
<1>8. ASSUME NEW k \in Keys, NEW v \in Versions, v >= last'[k] PROVE age[k][v] = 0
  <2>1. v >= last[k]
    BY <1>2, <1>5, <1>7, <1>8 DEF Versions
  <2> QED
    BY <1>2, <2>1
<1> QED
  BY <1>1, <1>2, <1>5, <1>6, <1>7, <1>8 DEF DbTyped, Ages

-----------------------------------------------------------------------------
(* The connections. *)
LEMMA Concatenated ==
  ASSUME NEW w \in Seq(Command), NEW v \in Seq(Command)
  PROVE  /\ w \o v \in Seq(Command) /\ Len(w \o v) = Len(w) + Len(v)
         /\ \A i \in DOMAIN w : i \in DOMAIN (w \o v) /\ (w \o v)[i] = w[i]
         /\ \A j \in DOMAIN v : /\ Len(w) + j \in DOMAIN (w \o v)
                                /\ (w \o v)[Len(w) + j] = v[j]
         /\ \A i \in DOMAIN (w \o v) :
              i \in DOMAIN w \/ \E j \in DOMAIN v : i = Len(w) + j
<1>1. /\ w \o v \in Seq(Command) /\ Len(w \o v) = Len(w) + Len(v)
      /\ \A i \in 1..Len(w) + Len(v) :
           (w \o v)[i] = IF i <= Len(w) THEN w[i] ELSE v[i - Len(w)]
  BY ConcatProperties
<1>2. DOMAIN (w \o v) = 1..Len(w) + Len(v)
  BY <1>1
<1>3. ASSUME NEW j \in DOMAIN v
      PROVE  /\ Len(w) + j \in DOMAIN (w \o v) /\ (w \o v)[Len(w) + j] = v[j]
  <2>1. Len(w) + j \in 1..Len(w) + Len(v) /\ ~(Len(w) + j <= Len(w)) /\ (Len(w) + j) - Len(w) = j
    OBVIOUS
  <2> QED
    BY <1>1, <1>2, <2>1
<1>4. ASSUME NEW i \in DOMAIN (w \o v), i \notin DOMAIN w
      PROVE  \E j \in DOMAIN v : i = Len(w) + j
  <2>1. i - Len(w) \in DOMAIN v /\ i = Len(w) + (i - Len(w))
    BY <1>2, <1>4
  <2> QED
    BY <2>1
<1>5. \A i \in DOMAIN w : i \in DOMAIN (w \o v) /\ (w \o v)[i] = w[i]
  BY <1>1, <1>2
<1> QED
  BY <1>1, <1>3, <1>4, <1>5

LEMMA Joined ==
  ASSUME NEW w \in Seq(Command), NEW v \in Seq(Command)
  PROVE  \A i \in DOMAIN (w \o v) :
           \/ i \in DOMAIN w /\ (w \o v)[i] = w[i]
           \/ \E j \in DOMAIN v : (w \o v)[i] = v[j]
BY Concatenated

LEMMA Thinned ==
  ASSUME NEW w \in Seq(Command), NEW k \in DOMAIN w
  PROVE  /\ RemoveAt(w, k) \in Seq(Command)
         /\ \A i \in DOMAIN RemoveAt(w, k) : \E j \in DOMAIN w : RemoveAt(w, k)[i] = w[j]
<1> DEFINE a == SubSeq(w, 1, k - 1)
           b == SubSeq(w, k + 1, Len(w))
<1>1. /\ a \in Seq(Command) /\ b \in Seq(Command)
      /\ \A i \in DOMAIN a : i \in DOMAIN w /\ a[i] = w[i]
      /\ \A i \in DOMAIN b : i + k \in DOMAIN w /\ b[i] = w[i + k]
  OBVIOUS
<1> HIDE DEF a, b
<1>2. RemoveAt(w, k) = a \o b
  BY DEF RemoveAt, a, b
<1>3. ASSUME NEW i \in DOMAIN (a \o b)
      PROVE  \E j \in DOMAIN w : (a \o b)[i] = w[j]
  <2>1. \/ i \in DOMAIN a /\ (a \o b)[i] = a[i]
        \/ \E j \in DOMAIN b : (a \o b)[i] = b[j]
    BY <1>1, Joined
  <2> QED
    BY <1>1, <2>1
<1> QED
  BY <1>1, <1>2, <1>3, Concatenated

LEMMA RefreshTyped ==
  ASSUME NEW o, NEW v \in Versions \cup {Nothing}
  PROVE  /\ Refresh(o, v) \in Seq(Command)
         /\ \A i \in DOMAIN Refresh(o, v) :
              Refresh(o, v)[i].do = "set" =>
                o \in Reads /\ v # Nothing /\ Refresh(o, v)[i] = Set(KeyOf(o), v)
<1>1. Reads \cap Writes = {}
  BY DEF Reads, Writes
<1>2. \A k : Del(k).do = "del"
  BY DEF Del
<1>3. CASE o \in Reads
  <2>1. Refresh(o, v) = IF v = Nothing THEN <<>> ELSE <<Set(KeyOf(o), v)>>
    BY <1>3 DEF Refresh, Reads
  <2>2. v # Nothing => Set(KeyOf(o), v) \in Command
    BY CommandsTyped, KeysTyped
  <2> QED
    BY <1>3, <2>1, <2>2
<1>4. CASE o \notin Reads
  <2>1. Refresh(o, v) \in {<<>>, <<Del("all")>>, <<Del("one"), Del("all")>>}
    BY <1>4 DEF Refresh, Reads
  <2>2. Del("all") \in Command /\ Del("one") \in Command
    BY CommandsTyped, KeysTyped
  <2>3. CASE Refresh(o, v) = <<>>
    BY <2>3
  <2>4. CASE Refresh(o, v) = <<Del("all")>>
    BY <1>2, <2>2, <2>4
  <2>5. CASE Refresh(o, v) = <<Del("one"), Del("all")>>
    BY <1>2, <2>2, <2>5
  <2> QED
    BY <2>1, <2>3, <2>4, <2>5
<1> QED
  BY <1>3, <1>4

LEMMA SentTyped ==
  ASSUME NEW r \in Seq(Command), NEW s \in Sent(r)
  PROVE  s \in Seq(Command) /\ \A i \in DOMAIN s : \E j \in DOMAIN r : s[i] = r[j]
<1>1. CASE s = r
  BY <1>1
<1>2. CASE s = <<>>
  BY <1>2
<1>3. CASE r # <<>> /\ s = <<Head(r)>>
  <2>1. Head(r) = r[1] /\ 1 \in DOMAIN r /\ r[1] \in Command
    BY <1>3
  <2> QED
    BY <1>3, <2>1
<1> QED
  BY <1>1, <1>2, <1>3 DEF Sent

(* Commands that are put on a connection or taken off leave the others as   *)
(* they are; what is put on it, if it is a copy, is recent.                 *)
LEMMA WireKept ==
  ASSUME CInv, UNCHANGED age, NEW p \in Processes, NEW w \in Seq(Command),
         wire' = [wire EXCEPT ![p] = w], NEW s \in 0..Lag,
         stall' = [stall EXCEPT ![p] = s], s = stall[p] \/ w = <<>>,
         \A i \in DOMAIN w : \/ \E j \in DOMAIN wire[p] : w[i] = wire[p][j]
                             \/ w[i].do = "set" => age[w[i].key][w[i].arg] <= Timeout
  PROVE  LinksTyped' /\ SentIsRecent'
<1>1. LinksTyped /\ DbTyped
  BY TypesInGroups DEF CInv
<1>2. LinksTyped'
  BY <1>1, Times DEF LinksTyped
<1>3. ASSUME NEW q \in Processes, NEW i \in DOMAIN wire'[q], wire'[q][i].do = "set"
      PROVE  age'[wire'[q][i].key][wire'[q][i].arg] <= Timeout + stall'[q]
  <2>1. stall'[q] \in Nat /\ (q # p => stall'[q] = stall[q]) /\ age' = age
    BY <1>1, Times DEF LinksTyped
  <2>2. CASE q # p
    BY <1>1, <1>3, <2>1, <2>2 DEF LinksTyped, CInv, SentIsRecent
  <2>3. CASE q = p
    <3>1. wire'[q] = w /\ stall'[q] = stall[q]
      BY <1>1, <1>3, <2>3 DEF LinksTyped
    <3>2. CASE \E j \in DOMAIN wire[p] : w[i] = wire[p][j]
      BY <1>3, <2>1, <2>3, <3>1, <3>2 DEF CInv, SentIsRecent
    <3>3. CASE age[w[i].key][w[i].arg] <= Timeout
      <4>1. w[i] \in Command
        BY <1>3, <3>1
      <4>2. age[w[i].key][w[i].arg] \in Nat
        BY <1>1, <1>3, <3>1, <4>1, CommandParts, Times DEF DbTyped
      <4>3. age[w[i].key][w[i].arg] <= Timeout + stall'[q]
        BY <2>1, <3>3, <4>2, Times
      <4> QED
        BY <2>1, <3>1, <4>3
    <3> QED
      BY <1>3, <3>1, <3>2, <3>3
  <2> QED
    BY <2>2, <2>3
<1> QED
  BY <1>2, <1>3 DEF SentIsRecent

-----------------------------------------------------------------------------
(* TaskService.                                                             *)
LEMMA FinishTyped ==
  ASSUME CInv, NEW c \in Clients, Finish(c)
  PROVE  /\ CallsTyped' /\ (UNCHANGED age => ReadIsRecent')
         /\ Underway' = Underway \ {c}
<1>1. CallsTyped
  BY TypesInGroups DEF CInv
<1>2. CallsTyped'
  BY <1>1, Times DEF CallsTyped, Finish
<1>3. Underway' = Underway \ {c}
  BY <1>1 DEF CallsTyped, Finish, Underway
<1>4. age' = age => ReadIsRecent'
  BY <1>1 DEF CInv, ReadIsRecent, CallsTyped, Finish
<1> QED
  BY <1>2, <1>3, <1>4

LEMMA BeginKeeps ==
  ASSUME CInv, NEW c \in Clients, NEW o \in Ops[c], Begin(c, o)
  PROVE  CInv'
<1> USE DEF dbVars, linkVars, cacheVars
<1>1. TypeOK /\ CallsTyped /\ o \in Reads \cup Writes
  BY TypesInGroups, OpsAssumption DEF CInv
<1>2. CallsTyped'
  BY <1>1, Times DEF CallsTyped, Begin
<1>3. TypeOK'
  BY <1>1, <1>2, TypesInGroups DEF TypeOK, CallsTyped, Begin
<1>4. ReadIsRecent'
  BY <1>1 DEF CInv, ReadIsRecent, CallsTyped, Begin
<1>5. Room'
  <2>1. Underway' = IF o \in Writes THEN Underway \cup {c} ELSE Underway
    BY <1>1 DEF Underway, Begin, CallsTyped
  <2>2. o \in Writes => last["all"] + Outstanding < MaxWrites
    BY DEF Begin
  <2>3. /\ IsFiniteSet(Underway \cup {c})
        /\ Cardinality(Underway \cup {c}) <= Cardinality(Underway) + 1
        /\ Cardinality(Underway \cup {c}) \in Nat
    <3>1. Cardinality(Underway \cup {c}) =
            IF c \in Underway THEN Cardinality(Underway) ELSE Cardinality(Underway) + 1
      BY Counts, FS_AddElement
    <3>2. IsFiniteSet(Underway \cup {c})
      BY Counts, FS_AddElement
    <3> QED
      BY <3>1, <3>2, Counts
  <2>4. UNCHANGED <<last, orphans>>
    BY DEF Begin
  <2>5. Outstanding' = Cardinality(Underway') + Cardinality(orphans')
    BY DEF Outstanding, Underway
  <2> QED
    BY <2>1, <2>2, <2>3, <2>4, <2>5, Counts, Times DEF Room
<1>6. Ages' /\ SentIsRecent' /\ CachedIsRecent'
  BY DEF CInv, Ages, SentIsRecent, CachedIsRecent, Begin
<1> QED
  BY <1>3, <1>4, <1>5, <1>6 DEF CInv

(* The reads under way and the copies do not mind what a write changes.     *)
LEMMA OrphanKeeps ==
  ASSUME CInv, NEW c \in Clients, NEW o \in Ops[c], OrphanCommits(c, o)
  PROVE  CInv'
<1> USE DEF callVars, linkVars, cacheVars
<1>1. /\ <<c, o>> \in orphans /\ orphans' = orphans \ {<<c, o>>} /\ Commit(o)
      /\ UNCHANGED <<pc, timer, op, val, wire, stall, cached, left>>
  BY DEF OrphanCommits
<1>2. o \in Writes
  BY <1>1 DEF CInv, TypeOK
<1>3. /\ IsFiniteSet(orphans') /\ Cardinality(orphans') = Cardinality(orphans) - 1
      /\ Cardinality(orphans') \in Nat
  BY <1>1, Counts, FS_RemoveElement, FS_CardinalityType
<1>4. last["all"] < MaxWrites
  BY <1>3, Counts, Times
<1>5. /\ DbTyped' /\ Ages' /\ age' = age /\ last'["all"] \in {last["all"], last["all"] + 1}
  BY <1>1, <1>2, <1>4, CommitTyped
<1>6. TypeOK'
  BY <1>1, <1>5, TypesInGroups DEF CInv, TypeOK, DbTyped
<1>7. Underway' = Underway
  BY <1>1 DEF Underway
<1>8. Room'
  BY <1>3, <1>5, <1>7, Counts, RoomKept
<1>9. ReadIsRecent' /\ SentIsRecent' /\ CachedIsRecent'
  BY <1>1, <1>5 DEF CInv, ReadIsRecent, SentIsRecent, CachedIsRecent
<1> QED
  BY <1>5, <1>6, <1>8, <1>9 DEF CInv

LEMMA AtDatabaseKeeps ==
  ASSUME CInv, NEW c \in Clients, AtDatabase(c)
  PROVE  CInv'
<1> USE DEF dbVars, linkVars, cacheVars
<1>1. /\ pc[c] = "db" /\ pc' = [pc EXCEPT ![c] = "reply"]
      /\ UNCHANGED <<orphans, timer, op, wire, stall, cached, left>>
      /\ DbTyped /\ CallsTyped /\ TypeOK /\ Reads \cap Writes = {}
  BY TypesInGroups DEF AtDatabase, CInv, Reads, Writes
<1>2. CASE op[c] \in Reads
  <2>1. val' = [val EXCEPT ![c] = Found(op[c])] /\ UNCHANGED <<last, live, age>>
    BY <1>1, <1>2 DEF AtDatabase
  <2>2. /\ Found(op[c]) \in Versions \cup {Nothing}
        /\ Found(op[c]) # Nothing => age[KeyOf(op[c])][Found(op[c])] = 0
    <3>1. last[KeyOf(op[c])] \in Versions
      BY <1>1, KeysTyped DEF DbTyped
    <3>2. last[KeyOf(op[c])] >= last[KeyOf(op[c])]
      BY <3>1 DEF Versions
    <3> QED
      BY <3>1, <3>2, KeysTyped DEF Found, CInv, Ages
  <2>3. CallsTyped'
    BY <1>1, <2>1, <2>2 DEF CallsTyped
  <2>4. TypeOK'
    BY <1>1, <2>1, <2>3 DEF TypeOK, CallsTyped
  <2>5. Underway' = Underway
    BY <1>1, <1>2 DEF Underway, CallsTyped
  <2>6. ReadIsRecent'
    <3> SUFFICES ASSUME NEW d \in Clients,
                        pc'[d] = "reply", op'[d] \in Reads, val'[d] # Nothing
                 PROVE  age'[KeyOf(op'[d])][val'[d]] <= timer'[d]
      BY DEF ReadIsRecent
    <3>1. CASE d # c
      BY <1>1, <2>1, <3>1 DEF CInv, ReadIsRecent, CallsTyped
    <3>2. CASE d = c
      BY <1>1, <2>1, <2>2, <3>2, Times DEF CallsTyped
    <3> QED
      BY <3>1, <3>2
  <2>7. Room' /\ Ages' /\ SentIsRecent' /\ CachedIsRecent'
    BY <1>1, <2>1, <2>5, Counts, RoomKept
       DEF CInv, Ages, SentIsRecent, CachedIsRecent
  <2> QED
    BY <2>4, <2>6, <2>7 DEF CInv
<1>3. CASE op[c] \in Writes
  <2>1. Commit(op[c]) /\ UNCHANGED val /\ c \in Underway
    BY <1>1, <1>3 DEF AtDatabase, Underway
  <2>2. Underway' = Underway \ {c}
    BY <1>1 DEF Underway, CallsTyped
  <2>3. /\ IsFiniteSet(Underway') /\ Cardinality(Underway') = Cardinality(Underway) - 1
        /\ Cardinality(Underway') \in Nat
    BY <2>1, <2>2, Counts, FS_RemoveElement, FS_CardinalityType
  <2>4. last["all"] < MaxWrites
    BY <2>3, Counts, Times
  <2>5. DbTyped' /\ Ages' /\ age' = age /\ last'["all"] \in {last["all"], last["all"] + 1}
    BY <1>3, <2>1, <2>4, CommitTyped
  <2>6. TypeOK'
    BY <1>1, <2>1, <2>5 DEF TypeOK, DbTyped, CallsTyped
  <2>7. Room'
    BY <1>1, <2>3, <2>5, Counts, RoomKept
  <2>8. ReadIsRecent'
    BY <1>1, <1>3, <2>1, <2>5 DEF CInv, ReadIsRecent, CallsTyped
  <2>9. SentIsRecent' /\ CachedIsRecent'
    BY <1>1, <2>5 DEF CInv, SentIsRecent, CachedIsRecent
  <2> QED
    BY <2>5, <2>6, <2>7, <2>8, <2>9 DEF CInv
<1> QED
  BY <1>2, <1>3 DEF AtDatabase

(* What keeps the data and the cache leaves to check the calls and wires.   *)
LEMMA CallsMove ==
  ASSUME CInv, UNCHANGED <<last, live, age, cached, left>>,
         CallsTyped', LinksTyped', orphans' \subseteq Clients \X Writes,
         ReadIsRecent', SentIsRecent', Room'
  PROVE  CInv'
<1>1. TypeOK'
  BY DEF CInv, TypeOK, CallsTyped, LinksTyped
<1> QED
  BY <1>1 DEF CInv, Ages, CachedIsRecent

LEMMA FewerUnderway ==
  ASSUME CInv, UNCHANGED <<last, orphans>>, Underway' \subseteq Underway
  PROVE  Room'
<1>1. IsFiniteSet(Underway') /\ Cardinality(Underway') <= Cardinality(Underway)
  BY Counts, FS_Subset
<1>2. Cardinality(Underway') \in Nat
  BY <1>1, FS_CardinalityType
<1> QED
  BY <1>1, <1>2, Counts, RoomKept

LEMMA ReturnKeeps ==
  ASSUME CInv, NEW c \in Clients, Return(c)
  PROVE  CInv'
<1> USE DEF dbVars, cacheVars
<1> DEFINE p == At[c]
           r == Refresh(op[c], val[c])
<1>1. /\ pc[c] = "reply" /\ Finish(c)
      /\ UNCHANGED <<last, live, age, orphans, stall, cached, left>>
      /\ TypeOK /\ CallsTyped /\ LinksTyped /\ p \in Processes
  BY TypesInGroups, AtAssumption DEF Return, CInv
<1>2. PICK cmds \in Sent(r) : wire' = [wire EXCEPT ![p] = @ \o cmds]
  BY DEF Return
<1>3. /\ r \in Seq(Command)
      /\ \A i \in DOMAIN r : r[i].do = "set" =>
           op[c] \in Reads /\ val[c] # Nothing /\ r[i] = Set(KeyOf(op[c]), val[c])
  BY <1>1, RefreshTyped DEF CallsTyped
<1>4. age[KeyOf(op[c])][val[c]] <= Timeout \/ op[c] \notin Reads \/ val[c] = Nothing
  <2> SUFFICES ASSUME op[c] \in Reads, val[c] # Nothing
               PROVE  age[KeyOf(op[c])][val[c]] <= Timeout
    OBVIOUS
  <2>1. age[KeyOf(op[c])][val[c]] <= timer[c]
    BY <1>1 DEF CInv, ReadIsRecent
  <2>2. timer[c] \in 0..Timeout /\ age[KeyOf(op[c])][val[c]] \in 0..StaleCap
    BY <1>1, KeysTyped DEF CallsTyped, TypeOK
  <2> QED
    BY <2>1, <2>2, Times
<1> HIDE DEF p, r
<1>5. cmds \in Seq(Command) /\ \A i \in DOMAIN cmds : \E j \in DOMAIN r : cmds[i] = r[j]
  BY <1>2, <1>3, SentTyped
<1>6. ASSUME NEW i \in DOMAIN cmds, cmds[i].do = "set"
      PROVE  age[cmds[i].key][cmds[i].arg] <= Timeout
  BY <1>3, <1>4, <1>5, <1>6 DEF Set
<1> DEFINE w == wire[p] \o cmds
<1>7. /\ w \in Seq(Command)
      /\ \A i \in DOMAIN w : \/ i \in DOMAIN wire[p] /\ w[i] = wire[p][i]
                             \/ \E j \in DOMAIN cmds : w[i] = cmds[j]
  <2>1. wire[p] \in Seq(Command)
    BY <1>1 DEF LinksTyped
  <2> QED
    BY <1>5, <2>1, Concatenated, Joined
<1>8. wire' = [wire EXCEPT ![p] = w]
  BY <1>2
<1> HIDE DEF w
<1>9. \A i \in DOMAIN w : \/ \E j \in DOMAIN wire[p] : w[i] = wire[p][j]
                          \/ w[i].do = "set" => age[w[i].key][w[i].arg] <= Timeout
  BY <1>6, <1>7
<1>10. stall[p] \in 0..Lag /\ stall' = [stall EXCEPT ![p] = stall[p]]
  BY <1>1 DEF LinksTyped
<1>11. LinksTyped' /\ SentIsRecent'
  BY <1>1, <1>7, <1>8, <1>9, <1>10, WireKept
<1>12. CallsTyped' /\ ReadIsRecent' /\ Underway' = Underway \ {c}
  BY <1>1, FinishTyped
<1> QED
  BY <1>1, <1>11, <1>12, CallsMove, FewerUnderway DEF TypeOK

LEMMA ReadFailsKeeps ==
  ASSUME CInv, NEW c \in Clients, ReadFails(c)
  PROVE  CInv'
<1> USE DEF dbVars, cacheVars
<1> DEFINE p == At[c]
           d == Get(KeyOf(op[c]), c)
           w == Append(wire[p], d)
<1>1. /\ op[c] \in Reads /\ Reads \cap Writes = {}
      /\ pc' = [pc EXCEPT ![c] = "fallback"] /\ timer' = [timer EXCEPT ![c] = 0]
      /\ val' = [val EXCEPT ![c] = Nothing]
      /\ wire' = [wire EXCEPT ![p] = w]
      /\ UNCHANGED <<last, live, age, op, stall, cached, left>>
      /\ TypeOK /\ CallsTyped /\ LinksTyped /\ p \in Processes
  BY TypesInGroups, AtAssumption DEF ReadFails, CInv, Reads, Writes
<1>2. UNCHANGED orphans
  BY <1>1 DEF ReadFails, Unavailable
<1>3. d \in Command /\ d.do # "set"
  BY CommandsTyped, KeysTyped DEF Get
<1> HIDE DEF d
<1>4. /\ w \in Seq(Command)
      /\ \A i \in DOMAIN w : (\E j \in DOMAIN wire[p] : w[i] = wire[p][j]) \/ w[i] = d
  BY <1>1, <1>3 DEF LinksTyped
<1>5. stall[p] \in 0..Lag /\ stall' = [stall EXCEPT ![p] = stall[p]]
  BY <1>1 DEF LinksTyped
<1> HIDE DEF p, w
<1>6. LinksTyped' /\ SentIsRecent'
  <2>1. \A i \in DOMAIN w : \/ \E j \in DOMAIN wire[p] : w[i] = wire[p][j]
                            \/ w[i].do = "set" => age[w[i].key][w[i].arg] <= Timeout
    BY <1>3, <1>4
  <2> QED
    BY <1>1, <1>4, <1>5, <2>1, WireKept
<1>7. CallsTyped' /\ ReadIsRecent'
  BY <1>1, Times DEF CallsTyped, CInv, ReadIsRecent
<1>8. Underway' \subseteq Underway
  BY <1>1 DEF Underway, CallsTyped
<1> QED
  BY <1>1, <1>2, <1>6, <1>7, <1>8, CallsMove, FewerUnderway DEF TypeOK

LEMMA WriteFailsKeeps ==
  ASSUME CInv, NEW c \in Clients, WriteFails(c)
  PROVE  CInv'
<1> USE DEF dbVars, cacheVars, linkVars
<1>1. /\ op[c] \in Writes /\ Unavailable(c) /\ Finish(c)
      /\ UNCHANGED <<last, live, age, wire, stall, cached, left>> /\ TypeOK
  BY DEF WriteFails, CInv
<1>2. CallsTyped' /\ ReadIsRecent' /\ Underway' = Underway \ {c}
  BY <1>1, FinishTyped
<1>3. LinksTyped' /\ SentIsRecent'
  BY <1>1 DEF CInv, TypeOK, LinksTyped, SentIsRecent
<1>4. CASE UNCHANGED orphans
  BY <1>1, <1>2, <1>3, <1>4, CallsMove, FewerUnderway DEF TypeOK
<1>5. CASE pc[c] = "db" /\ orphans' = orphans \cup {<<c, op[c]>>}
  <2>1. c \in Underway /\ orphans' \subseteq Clients \X Writes
    BY <1>1, <1>5 DEF Underway, TypeOK
  <2>2. /\ IsFiniteSet(Underway') /\ Cardinality(Underway') = Cardinality(Underway) - 1
        /\ Cardinality(Underway') \in Nat
    BY <1>2, <2>1, Counts, FS_RemoveElement, FS_CardinalityType
  <2>3. IsFiniteSet(orphans')
    BY <1>5, Counts, FS_AddElement
  <2>4. Cardinality(orphans') \in {Cardinality(orphans), Cardinality(orphans) + 1}
    BY <1>5, Counts, FS_AddElement
  <2>5. Room'
    BY <1>1, <2>2, <2>3, <2>4, Counts, RoomKept
  <2> QED
    BY <1>1, <1>2, <1>3, <2>1, <2>5, CallsMove
<1> QED
  BY <1>1, <1>4, <1>5 DEF Unavailable

LEMMA FallbackFailsKeeps ==
  ASSUME CInv, NEW c \in Clients, FallbackFails(c)
  PROVE  CInv'
<1> USE DEF dbVars, cacheVars
<1> DEFINE p == At[c]
<1>1. /\ Finish(c) /\ UNCHANGED <<last, live, age, orphans, cached, left>>
      /\ TypeOK /\ LinksTyped /\ p \in Processes
  BY TypesInGroups, AtAssumption DEF FallbackFails, CInv
<1>2. PICK k \in DOMAIN wire[p] :
        /\ wire' = [wire EXCEPT ![p] = RemoveAt(wire[p], k)]
        /\ stall' = [stall EXCEPT ![p] = IF Len(wire[p]) = 1 THEN 0 ELSE stall[p]]
  BY DEF FallbackFails
<1> HIDE DEF p
<1> DEFINE w == RemoveAt(wire[p], k)
           s == IF Len(wire[p]) = 1 THEN 0 ELSE stall[p]
<1>3. wire[p] \in Seq(Command) /\ stall[p] \in 0..Lag
  BY <1>1 DEF LinksTyped
<1>4. /\ w \in Seq(Command)
      /\ \A i \in DOMAIN w : \E j \in DOMAIN wire[p] : w[i] = wire[p][j]
  BY <1>2, <1>3, Thinned
<1>5. s \in 0..Lag /\ (s = stall[p] \/ w = <<>>)
  <2>1. Len(wire[p]) = 1 => k = 1 /\ w = <<>>
    BY <1>2, <1>3 DEF RemoveAt
  <2> QED
    BY <1>3, <2>1, Times
<1>6. wire' = [wire EXCEPT ![p] = w] /\ stall' = [stall EXCEPT ![p] = s]
  BY <1>2
<1> HIDE DEF w, s
<1>7. LinksTyped' /\ SentIsRecent'
  <2>1. \A i \in DOMAIN w : \/ \E j \in DOMAIN wire[p] : w[i] = wire[p][j]
                            \/ w[i].do = "set" => age[w[i].key][w[i].arg] <= Timeout
    BY <1>4
  <2> QED
    BY <1>1, <1>4, <1>5, <1>6, <2>1, WireKept
<1>8. CallsTyped' /\ ReadIsRecent' /\ Underway' = Underway \ {c}
  BY <1>1, FinishTyped
<1> QED
  BY <1>1, <1>7, <1>8, CallsMove, FewerUnderway DEF TypeOK

-----------------------------------------------------------------------------
(* Redis, and time.                                                         *)
LEMMA ServeKeeps ==
  ASSUME CInv, NEW p \in Processes, Serve(p)
  PROVE  CInv'
<1> USE DEF dbVars, callVars, cacheVars
<1> DEFINE d == Head(wire[p])
           w == Tail(wire[p])
           s == IF Len(wire[p]) = 1 THEN 0 ELSE stall[p]
<1>1. /\ wire[p] # <<>> /\ UNCHANGED <<last, live, age, orphans>>
      /\ wire' = [wire EXCEPT ![p] = w] /\ stall' = [stall EXCEPT ![p] = s]
      /\ \/ Execute(d)
         \/ d.do # "get" /\ UNCHANGED <<callVars, cacheVars>>
      /\ TypeOK /\ DbTyped /\ CallsTyped /\ LinksTyped /\ CachesTyped
  BY TypesInGroups DEF Serve, CInv
<1>2. wire[p] \in Seq(Command) /\ stall[p] \in 0..Lag
  BY <1>1 DEF LinksTyped
<1>3. /\ w \in Seq(Command) /\ d = wire[p][1] /\ 1 \in DOMAIN wire[p] /\ d \in Command
      /\ \A i \in DOMAIN w : \E j \in DOMAIN wire[p] : w[i] = wire[p][j]
      /\ s \in 0..Lag /\ (s = stall[p] \/ w = <<>>)
  <2>1. \A i \in DOMAIN w : i + 1 \in DOMAIN wire[p] /\ w[i] = wire[p][i + 1]
    BY <1>1, <1>2
  <2>2. w \in Seq(Command) /\ Len(w) = Len(wire[p]) - 1
    BY <1>1, <1>2, HeadTailProperties
  <2>3. Len(wire[p]) = 1 => w = <<>>
    <3> HIDE DEF w
    <3>1. w # <<>> => Len(w) \in Nat \ {0}
      BY <2>2, EmptySeq
    <3> QED
      BY <2>2, <3>1
  <2> QED
    BY <1>1, <1>2, <2>1, <2>2, <2>3, Times
<1>4. d.do = "set" => age[d.key][d.arg] <= Timeout + stall[p]
  BY <1>3 DEF CInv, SentIsRecent
<1> HIDE DEF d, w, s
<1>5. LinksTyped' /\ SentIsRecent'
  <2>1. \A i \in DOMAIN w : \/ \E j \in DOMAIN wire[p] : w[i] = wire[p][j]
                            \/ w[i].do = "set" => age[w[i].key][w[i].arg] <= Timeout
    BY <1>3
  <2> QED
    BY <1>1, <1>3, <2>1, WireKept
<1>6. CASE d.do = "set" /\ UNCHANGED callVars /\ cached' = [cached EXCEPT ![d.key] = d.arg]
           /\ left' = [left EXCEPT ![d.key] = TTL]
  <2>1. d.key \in Keys /\ d.arg \in Versions
    BY <1>3, <1>6, CommandParts
  <2>2. CachesTyped'
    BY <1>1, <1>6, <2>1, Times DEF CachesTyped
  <2>3. TypeOK'
    BY <1>1, <1>5, <1>6, <2>2 DEF TypeOK, CachesTyped, LinksTyped
  <2>4. CachedIsRecent'
    <3> SUFFICES ASSUME NEW k \in Keys, left'[k] > 0
                 PROVE  /\ cached'[k] \in Versions
                        /\ age[k][cached'[k]] <= Timeout + Lag + (TTL - left'[k])
      BY <1>1 DEF CachedIsRecent
    <3>1. CASE k # d.key
      BY <1>1, <1>6, <3>1 DEF CInv, CachedIsRecent, CachesTyped
    <3>2. CASE k = d.key
      <4>1. cached'[k] = d.arg /\ left'[k] = TTL
        BY <1>1, <1>6, <3>2 DEF CachesTyped
      <4>2. age[k][d.arg] \in 0..StaleCap /\ age[k][d.arg] <= Timeout + stall[p]
        BY <1>1, <1>4, <1>6, <2>1, <3>2 DEF DbTyped
      <4>3. age[k][d.arg] <= Timeout + Lag + (TTL - TTL)
        BY <1>2, <4>2, Times
      <4> QED
        BY <2>1, <4>1, <4>3
    <3> QED
      BY <3>1, <3>2
  <2>5. Room'
    BY <1>1, <1>6, FewerUnderway DEF Underway
  <2>6. Ages' /\ ReadIsRecent'
    BY <1>1, <1>6 DEF CInv, Ages, ReadIsRecent
  <2> QED
    BY <1>5, <2>3, <2>4, <2>5, <2>6 DEF CInv
<1>7. CASE d.do = "del" /\ UNCHANGED callVars /\ cached' = [cached EXCEPT ![d.key] = Nothing]
           /\ left' = [left EXCEPT ![d.key] = 0]
  <2>1. CachesTyped'
    <3>1. d.key \in Keys /\ 0 \in 0..TTL
      BY <1>3, CommandParts, Times
    <3> QED
      BY <1>1, <1>7, <3>1 DEF CachesTyped
  <2>2. TypeOK'
    BY <1>1, <1>5, <1>7, <2>1 DEF TypeOK, CachesTyped, LinksTyped
  <2>3. CachedIsRecent'
    BY <1>1, <1>7 DEF CInv, CachedIsRecent, CachesTyped
  <2>4. Room'
    BY <1>1, <1>7, FewerUnderway DEF Underway
  <2>5. Ages' /\ ReadIsRecent'
    BY <1>1, <1>7 DEF CInv, Ages, ReadIsRecent
  <2> QED
    BY <1>5, <2>2, <2>3, <2>4, <2>5 DEF CInv
<1>8. CASE d.do = "get" /\ Finish(d.arg) /\ UNCHANGED cacheVars
  <2>1. d.arg \in Clients
    BY <1>3, <1>8, CommandParts
  <2>2. CallsTyped' /\ ReadIsRecent' /\ Underway' = Underway \ {d.arg}
    BY <1>1, <1>8, <2>1, FinishTyped
  <2> QED
    BY <1>1, <1>5, <1>8, <2>2, CallsMove, FewerUnderway DEF TypeOK
<1>9. CASE UNCHANGED <<callVars, cacheVars>>
  <2>1. CallsTyped' /\ ReadIsRecent' /\ Underway' = Underway
    BY <1>1, <1>9 DEF CallsTyped, CInv, ReadIsRecent, Underway
  <2> QED
    BY <1>1, <1>5, <1>9, <2>1, CallsMove, FewerUnderway DEF TypeOK
<1> QED
  BY <1>1, <1>6, <1>7, <1>8, <1>9 DEF Execute

LEMMA TickAges ==
  ASSUME CInv, Tick
  PROVE  /\ age' \in [Keys -> [Versions -> 0..StaleCap]]
         /\ \A k \in Keys, v \in Versions :
              age'[k][v] <= age[k][v] + 1 /\ (v >= last[k] => age'[k][v] = age[k][v])
<1> DEFINE Older(k, v) ==
      IF v < last[k] /\ age[k][v] < StaleCap THEN age[k][v] + 1 ELSE age[k][v]
<1>1. age' = [k \in Keys |-> [v \in Versions |-> Older(k, v)]]
  BY DEF Tick
<1>2. ASSUME NEW k \in Keys, NEW v \in Versions
      PROVE  /\ Older(k, v) \in 0..StaleCap /\ Older(k, v) <= age[k][v] + 1
             /\ v >= last[k] => Older(k, v) = age[k][v]
  <2>1. age[k][v] \in 0..StaleCap /\ last[k] \in Nat /\ v \in Nat
    BY Times DEF CInv, TypeOK, Versions
  <2> QED
    BY <2>1, Times
<1> HIDE DEF Older
<1> QED
  BY <1>1, <1>2

LEMMA TickKeeps ==
  ASSUME CInv, Tick
  PROVE  CInv'
<1>1. /\ UNCHANGED <<last, live, orphans, pc, op, val, wire>>
      /\ \A c \in Clients : pc[c] # "idle" => timer[c] < Timeout
      /\ \A p \in Processes : wire[p] # <<>> => stall[p] < Lag
      /\ timer' = [c \in Clients |-> IF timer[c] < Timeout THEN timer[c] + 1 ELSE Timeout]
      /\ stall' = [p \in Processes |-> IF wire[p] = <<>> THEN 0 ELSE stall[p] + 1]
      /\ left' = [k \in Keys |-> IF left[k] > 0 THEN left[k] - 1 ELSE 0]
      /\ cached' = [k \in Keys |-> IF left[k] > 1 THEN cached[k] ELSE Nothing]
      /\ TypeOK /\ DbTyped /\ CallsTyped /\ LinksTyped /\ CachesTyped
  BY TypesInGroups DEF Tick, CInv
<1>2. /\ age' \in [Keys -> [Versions -> 0..StaleCap]]
      /\ \A k \in Keys, v \in Versions :
           age'[k][v] <= age[k][v] + 1 /\ (v >= last[k] => age'[k][v] = age[k][v])
  BY TickAges
<1>3. /\ \A k \in Keys, v \in Versions : age[k][v] \in Nat /\ age'[k][v] \in Nat
  BY <1>1, <1>2, Times DEF DbTyped
<1>4. TypeOK'
  <2>1. timer' \in [Clients -> 0..Timeout]
    BY <1>1, Times DEF CallsTyped
  <2>2. stall' \in [Processes -> 0..Lag]
    BY <1>1, Times DEF LinksTyped
  <2>3. left' \in [Keys -> 0..TTL] /\ cached' \in [Keys -> Versions \cup {Nothing}]
    BY <1>1, Times DEF CachesTyped
  <2> QED
    BY <1>1, <1>2, <2>1, <2>2, <2>3 DEF TypeOK
<1>5. Ages'
  BY <1>1, <1>2 DEF CInv, Ages
<1>6. Room'
  BY <1>1, FewerUnderway DEF Underway
<1>7. ReadIsRecent'
  <2> SUFFICES ASSUME NEW c \in Clients, pc[c] = "reply", op[c] \in Reads, val[c] # Nothing
               PROVE  age'[KeyOf(op[c])][val[c]] <= timer'[c]
    BY <1>1 DEF ReadIsRecent
  <2>1. KeyOf(op[c]) \in Keys /\ val[c] \in Versions /\ timer[c] \in Nat
    BY <1>1, KeysTyped, Times DEF CallsTyped
  <2>2. timer'[c] = timer[c] + 1 /\ age[KeyOf(op[c])][val[c]] <= timer[c]
    BY <1>1 DEF CInv, ReadIsRecent
  <2> QED
    BY <1>2, <1>3, <2>1, <2>2
<1>8. SentIsRecent'
  <2> SUFFICES ASSUME NEW p \in Processes, NEW i \in DOMAIN wire[p], wire[p][i].do = "set"
               PROVE  age'[wire[p][i].key][wire[p][i].arg] <= Timeout + stall'[p]
    BY <1>1 DEF SentIsRecent
  <2>1. wire[p][i] \in Command /\ wire[p] # <<>> /\ stall[p] \in Nat
    BY <1>1, Times DEF LinksTyped
  <2>2. wire[p][i].key \in Keys /\ wire[p][i].arg \in Versions
    BY <2>1, CommandParts
  <2>3. stall'[p] = stall[p] + 1
    BY <1>1, <2>1
  <2>4. age[wire[p][i].key][wire[p][i].arg] <= Timeout + stall[p]
    BY DEF CInv, SentIsRecent
  <2>5. /\ age'[wire[p][i].key][wire[p][i].arg] <= age[wire[p][i].key][wire[p][i].arg] + 1
        /\ age'[wire[p][i].key][wire[p][i].arg] \in Nat
        /\ age[wire[p][i].key][wire[p][i].arg] \in Nat
    BY <1>2, <1>3, <2>2
  <2> QED
    BY <2>1, <2>3, <2>4, <2>5, Times
<1>9. CachedIsRecent'
  <2> SUFFICES ASSUME NEW k \in Keys, left'[k] > 0
               PROVE  /\ cached'[k] \in Versions
                      /\ age'[k][cached'[k]] <= Timeout + Lag + (TTL - left'[k])
    BY DEF CachedIsRecent
  <2>1. left[k] \in 0..TTL
    BY <1>1 DEF CachesTyped
  <2>2. left[k] > 1 /\ left'[k] = left[k] - 1 /\ cached'[k] = cached[k]
    BY <1>1, <2>1, Times
  <2>3. /\ cached[k] \in Versions
        /\ age[k][cached[k]] <= Timeout + Lag + (TTL - left[k])
    BY <2>1, <2>2, Times DEF CInv, CachedIsRecent
  <2> QED
    BY <1>2, <1>3, <2>1, <2>2, <2>3, Times
<1> QED
  BY <1>4, <1>5, <1>6, <1>7, <1>8, <1>9 DEF CInv

LEMMA CacheKept ==
  ASSUME CInv, [Next]_vars
  PROVE  CInv'
<1>1. CASE UNCHANGED vars
  BY <1>1 DEF vars, dbVars, callVars, linkVars, cacheVars, CInv, TypeOK, Ages, Room,
     Outstanding, ReadIsRecent, SentIsRecent, CachedIsRecent
<1>2. ASSUME NEW c \in Clients, Continue(c) PROVE CInv'
  BY <1>2, AtDatabaseKeeps, ReturnKeeps, ReadFailsKeeps, WriteFailsKeeps, FallbackFailsKeeps
     DEF Continue
<1>3. ASSUME NEW c \in Clients, NEW o \in Ops[c], Begin(c, o) \/ OrphanCommits(c, o)
      PROVE  CInv'
  BY <1>3, BeginKeeps, OrphanKeeps
<1>4. ASSUME NEW p \in Processes, Serve(p) PROVE CInv'
  BY <1>4, ServeKeeps
<1> QED
  BY <1>1, <1>2, <1>3, <1>4, TickKeeps DEF Next

(* Every state is well typed: numbers of writes, ages and timers stay       *)
(* within their bounds, whatever overlaps, fails or is applied late.        *)
THEOREM CacheTyping == Spec => []TypeOK
<1>1. CInv => TypeOK
  BY DEF CInv
<1> QED
  BY <1>1, InitCache, CacheKept, PTL DEF Spec

(* Under every failure and any overlap, a copy that is answered has been    *)
(* out of date for at most a breaker's timeout, the wait on the connection  *)
(* and what of its TTL is used up.                                          *)
THEOREM CopiesAreBounded == Spec => []BoundedStaleness
<1>1. CInv => BoundedStaleness
  BY DEF CInv, CachedIsRecent, BoundedStaleness
<1> QED
  BY <1>1, InitCache, CacheKept, PTL DEF Spec

-----------------------------------------------------------------------------
(* Operations one after the other, in a system that loses no command: one   *)
(* client, whose calls the repository may refuse.  deleteAll is left out:   *)
(* it leaves the copies of what it deletes.                                *)
Sequential ==
  /\ \A c, d \in Clients : c = d
  /\ Faults \subseteq {"db"}
  /\ \A c \in Clients : "deleteAll" \notin Ops[c]

Touches(d, k) == d.do \in {"set", "del"} /\ d.key = k

(* After its i-th command, w has another one that decides what k holds.     *)
Superseded(w, i, k) == \E j \in DOMAIN w : i < j /\ Touches(w[j], k)

(* Once what is on the connection is executed, k holds current data.        *)
Settled(w, k) ==
  /\ \A i \in DOMAIN w :
       w[i].do = "set" /\ w[i].key = k => w[i].arg = last[k] \/ Superseded(w, i, k)
  /\ left[k] > 0 => cached[k] = last[k] \/ Superseded(w, 0, k)

(* c has changed k and not yet dropped its copy. *)
Dropping(c, k) ==
  pc[c] = "reply" /\ op[c] \in Writes /\ (k = "all" \/ op[c] # "createOne")

OwnWire(c) ==
  /\ pc[c] # "idle" => op[c] \in Ops[c]
  /\ pc[c] = "reply" /\ op[c] \in Reads /\ val[c] # Nothing => val[c] = last[KeyOf(op[c])]
  /\ \A i \in DOMAIN wire[At[c]] : wire[At[c]][i].do = "get" =>
       pc[c] = "fallback" /\ i = Len(wire[At[c]]) /\ wire[At[c]][i].arg = c
  /\ \A k \in Keys : Dropping(c, k) \/ Settled(wire[At[c]], k)

SeqInv ==
  /\ orphans = {}
  /\ \A p \in Processes : wire[p] # <<>> => \E c \in Clients : At[c] = p
  /\ \A c \in Clients : OwnWire(c)

(* What is put behind a command supersedes it, or leaves it superseded.     *)
LEMMA SupersededLater ==
  ASSUME NEW w \in Seq(Command), NEW v \in Seq(Command), NEW k, NEW i \in 0..Len(w)
  PROVE  /\ Superseded(w, i, k) => Superseded(w \o v, i, k)
         /\ (\E j \in DOMAIN v : Touches(v[j], k)) => Superseded(w \o v, i, k)
<1>1. Superseded(w, i, k) => Superseded(w \o v, i, k)
  <2>1. \A j \in DOMAIN w : j \in DOMAIN (w \o v) /\ (w \o v)[j] = w[j]
    BY Concatenated
  <2> QED
    BY <2>1 DEF Superseded
<1>2. ASSUME NEW j \in DOMAIN v, Touches(v[j], k)
      PROVE  Superseded(w \o v, i, k)
  <2>1. Len(w) + j \in DOMAIN (w \o v) /\ (w \o v)[Len(w) + j] = v[j]
    BY Concatenated
  <2>2. i < Len(w) + j
    OBVIOUS
  <2> QED
    BY <1>2, <2>1, <2>2 DEF Superseded
<1> QED
  BY <1>1, <1>2

(* Settled stays when commands that set current data, or drop, are put on   *)
(* the connection; to become so, one of them has to touch the key.          *)
LEMMA SettledLater ==
  ASSUME NEW w \in Seq(Command), NEW v \in Seq(Command), NEW k,
         Settled(w, k) \/ \E j \in DOMAIN v : Touches(v[j], k),
         \A j \in DOMAIN v : v[j].do = "set" /\ v[j].key = k => v[j].arg = last[k]
  PROVE  Settled(w \o v, k)
<1> DEFINE u == w \o v
<1>1. ASSUME NEW i \in DOMAIN u, u[i].do = "set", u[i].key = k
      PROVE  u[i].arg = last[k] \/ Superseded(u, i, k)
  <2>1. CASE i \in DOMAIN w
    <3>1. u[i] = w[i] /\ i \in 0..Len(w)
      BY <2>1, Concatenated
    <3> QED
      BY <1>1, <2>1, <3>1, SupersededLater DEF Settled
  <2>2. CASE i \notin DOMAIN w
    <3>1. PICK j \in DOMAIN v : i = Len(w) + j
      BY <2>2, Concatenated
    <3>2. u[i] = v[j]
      BY <3>1, Concatenated
    <3> QED
      BY <1>1, <3>2
  <2> QED
    BY <2>1, <2>2
<1>2. left[k] > 0 => cached[k] = last[k] \/ Superseded(u, 0, k)
  <2>1. 0 \in 0..Len(w)
    OBVIOUS
  <2> QED
    BY <2>1, SupersededLater DEF Settled
<1> QED
  BY <1>1, <1>2 DEF Settled

(* The head of the connection is executed. *)
LEMMA SupersededSooner ==
  ASSUME NEW w \in Seq(Command), w # <<>>, NEW k, NEW i \in DOMAIN w
  PROVE  /\ Superseded(w, i, k) => Superseded(Tail(w), i - 1, k)
         /\ Superseded(w, 0, k) /\ ~Touches(Head(w), k) => Superseded(Tail(w), 0, k)
<1>1. /\ Len(Tail(w)) = Len(w) - 1 /\ Head(w) = w[1] /\ Tail(w) \in Seq(Command)
      /\ \A j \in 1..Len(Tail(w)) : Tail(w)[j] = w[j + 1]
  BY HeadTailProperties
<1>2. ASSUME NEW j \in DOMAIN w, j > 1, Touches(w[j], k)
      PROVE  j - 1 \in DOMAIN Tail(w) /\ Touches(Tail(w)[j - 1], k)
  <2>1. j - 1 \in 1..Len(Tail(w)) /\ (j - 1) + 1 = j
    BY <1>1, <1>2
  <2> QED
    BY <1>1, <1>2, <2>1
<1>3. ASSUME Superseded(w, i, k)
      PROVE  Superseded(Tail(w), i - 1, k)
  <2>1. PICK j \in DOMAIN w : i < j /\ Touches(w[j], k)
    BY <1>3 DEF Superseded
  <2>2. j > 1 /\ i - 1 < j - 1
    BY <2>1
  <2> QED
    BY <1>2, <2>1, <2>2 DEF Superseded
<1>4. ASSUME Superseded(w, 0, k), ~Touches(Head(w), k)
      PROVE  Superseded(Tail(w), 0, k)
  <2>1. PICK j \in DOMAIN w : 0 < j /\ Touches(w[j], k)
    BY <1>4 DEF Superseded
  <2>2. j > 1 /\ 0 < j - 1
    BY <1>1, <1>4, <2>1
  <2> QED
    BY <1>2, <2>1, <2>2 DEF Superseded
<1> QED
  BY <1>3, <1>4

LEMMA SettledSooner ==
  ASSUME NEW w \in Seq(Command), w # <<>>, NEW k, Settled(w, k), UNCHANGED last,
         \/ ~Touches(Head(w), k) /\ cached'[k] = cached[k] /\ left'[k] = left[k]
         \/ Head(w).do = "set" /\ Head(w).key = k /\ cached'[k] = Head(w).arg
         \/ left'[k] = 0
  PROVE  /\ \A i \in DOMAIN Tail(w) :
              Tail(w)[i].do = "set" /\ Tail(w)[i].key = k =>
                Tail(w)[i].arg = last'[k] \/ Superseded(Tail(w), i, k)
         /\ left'[k] > 0 => cached'[k] = last'[k] \/ Superseded(Tail(w), 0, k)
<1>1. /\ Len(Tail(w)) = Len(w) - 1 /\ Head(w) = w[1] /\ Tail(w) \in Seq(Command)
      /\ 1 \in DOMAIN w /\ \A j \in 1..Len(Tail(w)) : Tail(w)[j] = w[j + 1]
  BY HeadTailProperties
<1>2. ASSUME NEW i \in DOMAIN Tail(w), Tail(w)[i].do = "set", Tail(w)[i].key = k
      PROVE  Tail(w)[i].arg = last[k] \/ Superseded(Tail(w), i, k)
  <2>1. i + 1 \in DOMAIN w /\ Tail(w)[i] = w[i + 1] /\ (i + 1) - 1 = i
    BY <1>1
  <2>2. w[i + 1].arg = last[k] \/ Superseded(w, i + 1, k)
    BY <1>2, <2>1 DEF Settled
  <2>3. Superseded(w, i + 1, k) => Superseded(Tail(w), (i + 1) - 1, k)
    BY <2>1, SupersededSooner
  <2> QED
    BY <2>1, <2>2, <2>3
<1>3. ASSUME left'[k] > 0
      PROVE  cached'[k] = last[k] \/ Superseded(Tail(w), 0, k)
  <2>1. CASE ~Touches(Head(w), k) /\ cached'[k] = cached[k] /\ left'[k] = left[k]
    BY <1>1, <1>3, <2>1, SupersededSooner DEF Settled
  <2>2. CASE Head(w).do = "set" /\ Head(w).key = k /\ cached'[k] = Head(w).arg
    <3>1. w[1].arg = last[k] \/ Superseded(w, 1, k)
      BY <1>1, <2>2 DEF Settled
    <3>2. Superseded(w, 1, k) => Superseded(Tail(w), 1 - 1, k)
      BY <1>1, SupersededSooner
    <3> QED
      BY <1>1, <2>2, <3>1, <3>2
  <2> QED
    BY <1>3, <2>1, <2>2
<1> QED
  BY <1>2, <1>3

-----------------------------------------------------------------------------
(* The steps of a sequential system. *)
SInv == CInv /\ SeqInv

LEMMA InitSequential == Init => SInv
<1>1. Init => SeqInv
  BY AtAssumption, KeysTyped DEF Init, SeqInv, OwnWire, Settled, Dropping
<1> QED
  BY <1>1, InitCache DEF SInv

LEMMA BeginSettled ==
  ASSUME Sequential, SInv, NEW c \in Clients, NEW o \in Ops[c], Begin(c, o)
  PROVE  SeqInv'
<1> USE DEF dbVars, linkVars, cacheVars
<1>1. /\ pc[c] = "idle" /\ pc' = [pc EXCEPT ![c] = "db"] /\ op' = [op EXCEPT ![c] = o]
      /\ UNCHANGED <<last, orphans, val, wire, cached, left>> /\ CallsTyped
  BY TypesInGroups DEF Begin, SInv, CInv
<1>2. ASSUME NEW d \in Clients PROVE OwnWire(d)'
  <2>1. d = c /\ OwnWire(c)
    BY DEF Sequential, SInv, SeqInv
  <2>2. pc'[c] = "db" /\ op'[c] = o
    BY <1>1 DEF CallsTyped
  <2> QED
    BY <1>1, <2>1, <2>2 DEF OwnWire, Settled, Dropping
<1> QED
  BY <1>1, <1>2 DEF SInv, SeqInv

LEMMA AtDatabaseSettled ==
  ASSUME Sequential, SInv, NEW c \in Clients, AtDatabase(c)
  PROVE  SeqInv'
<1> USE DEF dbVars, linkVars, cacheVars
<1>1. /\ pc[c] = "db" /\ pc' = [pc EXCEPT ![c] = "reply"]
      /\ UNCHANGED <<orphans, op, wire, cached, left>> /\ CallsTyped /\ DbTyped
      /\ Reads \cap Writes = {} /\ op[c] \in Ops[c] /\ "deleteAll" \notin Ops[c]
      /\ OwnWire(c)
  BY TypesInGroups
     DEF AtDatabase, SInv, SeqInv, OwnWire, CInv, Sequential, Reads, Writes
<1>2. pc'[c] = "reply" /\ \A k : ~Dropping(c, k)
  BY <1>1 DEF CallsTyped, Dropping
<1>3. CASE op[c] \in Reads
  <2>1. val'[c] = Found(op[c]) /\ UNCHANGED last
    BY <1>1, <1>3 DEF AtDatabase, CallsTyped
  <2>2. Found(op[c]) \in {Nothing, last[KeyOf(op[c])]}
    BY DEF Found
  <2>3. OwnWire(c)'
    BY <1>1, <1>2, <1>3, <2>1, <2>2 DEF OwnWire, Settled, Dropping
  <2> QED
    BY <1>1, <2>3 DEF SInv, SeqInv, Sequential
<1>4. CASE op[c] \in Writes
  <2>1. Commit(op[c])
    BY <1>1, <1>4 DEF AtDatabase
  <2>2. Changes(op[c]) \subseteq IF op[c] = "createOne" THEN {"all"} ELSE Keys
    BY <1>1 DEF Changes
  <2>3. \A k \in Keys : last'[k] = last[k] \/ Dropping(c, k)'
    BY <1>1, <1>2, <1>4, <2>1, <2>2 DEF Commit, DbTyped, Dropping
  <2>4. OwnWire(c)'
    BY <1>1, <1>2, <1>4, <2>3 DEF OwnWire, Settled
  <2> QED
    BY <1>1, <2>4 DEF SInv, SeqInv, Sequential
<1> QED
  BY <1>3, <1>4 DEF AtDatabase

LEMMA ReturnSettled ==
  ASSUME Sequential, SInv, NEW c \in Clients, Return(c)
  PROVE  SeqInv'
<1> USE DEF dbVars, cacheVars
<1> DEFINE p == At[c]
           w == wire[p]
           r == Refresh(op[c], val[c])
<1>1. /\ pc[c] = "reply" /\ Finish(c) /\ UNCHANGED <<last, orphans, cached, left>>
      /\ CallsTyped /\ LinksTyped /\ p \in Processes /\ w \in Seq(Command)
      /\ op[c] \in Ops[c] /\ op[c] \in Reads \cup Writes /\ op[c] # "deleteAll" /\ OwnWire(c)
      /\ Reads \cap Writes = {}
  BY TypesInGroups, AtAssumption, OpsAssumption
     DEF Return, SInv, SeqInv, OwnWire, CInv, Sequential, LinksTyped, Reads, Writes
<1>2. wire' = [wire EXCEPT ![p] = w \o r]
  BY DEF Return, Sent, Sequential
<1>3. /\ r \in Seq(Command)
      /\ \A i \in DOMAIN r : r[i].do = "set" =>
           op[c] \in Reads /\ val[c] # Nothing /\ r[i] = Set(KeyOf(op[c]), val[c])
  BY <1>1, RefreshTyped DEF CallsTyped
<1>4. ASSUME NEW k \in Keys, Dropping(c, k)
      PROVE  \E j \in DOMAIN r : Touches(r[j], k)
  <2>1. Touches(Del(k), k)
    BY DEF Touches, Del
  <2>2. CASE op[c] = "createOne"
    <3>1. k = "all" /\ r = <<Del("all")>>
      BY <1>4, <2>2 DEF Dropping, Refresh, Reads
    <3> QED
      BY <2>1, <3>1
  <2>3. CASE op[c] # "createOne"
    <3>1. r = <<Del("one"), Del("all")>>
      BY <1>1, <1>4, <2>3 DEF Dropping, Refresh
    <3>2. r[1] = Del("one") /\ r[2] = Del("all") /\ 1 \in DOMAIN r /\ 2 \in DOMAIN r
      BY <3>1
    <3> QED
      BY <2>1, <3>2 DEF Keys
  <2> QED
    BY <2>2, <2>3
<1>5. ASSUME NEW i \in DOMAIN r
      PROVE  r[i].do # "get" /\ \A k : r[i].do = "set" /\ r[i].key = k => r[i].arg = last[k]
  <2>1. r[i].do = "set" => r[i].key = KeyOf(op[c]) /\ r[i].arg = last[KeyOf(op[c])]
    BY <1>1, <1>3 DEF Set, OwnWire
  <2>2. r[i].do # "get"
    <3>1. CASE op[c] \in Reads
      <4>1. r = IF val[c] = Nothing THEN <<>> ELSE <<Set(KeyOf(op[c]), val[c])>>
        BY <3>1 DEF Refresh, Reads
      <4> QED
        BY <4>1 DEF Set
    <3>2. CASE op[c] = "createOne"
      <4>1. r = <<Del("all")>>
        BY <3>2 DEF Refresh, Reads
      <4> QED
        BY <4>1 DEF Del
    <3>3. CASE op[c] \notin Reads /\ op[c] # "createOne"
      <4>1. r = <<Del("one"), Del("all")>>
        BY <1>1, <3>3 DEF Refresh
      <4>2. r[1] = Del("one") /\ r[2] = Del("all") /\ DOMAIN r = 1..2
        BY <4>1
      <4> QED
        BY <4>2 DEF Del
    <3> QED
      BY <3>1, <3>2, <3>3
  <2> QED
    BY <2>1, <2>2
<1>6. \A i \in DOMAIN w : w[i].do # "get"
  BY <1>1 DEF OwnWire
<1> HIDE DEF p, r, w
<1>7. \A i \in DOMAIN (w \o r) : (w \o r)[i].do # "get"
  <2>1. \A i \in DOMAIN (w \o r) : \/ i \in DOMAIN w /\ (w \o r)[i] = w[i]
                                   \/ \E j \in DOMAIN r : (w \o r)[i] = r[j]
    BY <1>1, <1>3, Joined
  <2> QED
    BY <1>5, <1>6, <2>1
<1>8. \A k \in Keys : Settled(w \o r, k)
  <2> TAKE k \in Keys
  <2>1. Settled(w, k) \/ \E j \in DOMAIN r : Touches(r[j], k)
    BY <1>1, <1>4 DEF OwnWire, p, w
  <2> QED
    BY <1>1, <1>3, <1>5, <2>1, SettledLater
<1>9. wire'[p] = w \o r /\ pc'[c] = "idle" /\ \A q \in Processes \ {p} : wire'[q] = wire[q]
  BY <1>1, <1>2 DEF LinksTyped, Finish, CallsTyped
<1>10. \A k \in Keys :
         /\ \A i \in DOMAIN wire'[p] :
              wire'[p][i].do = "set" /\ wire'[p][i].key = k =>
                wire'[p][i].arg = last'[k] \/ Superseded(wire'[p], i, k)
         /\ left'[k] > 0 => cached'[k] = last'[k] \/ Superseded(wire'[p], 0, k)
  BY <1>1, <1>8, <1>9 DEF Settled
<1>11. OwnWire(c)'
  BY <1>7, <1>9, <1>10 DEF OwnWire, Settled, Superseded, p
<1> QED
  BY <1>1, <1>9, <1>11 DEF SInv, SeqInv, Sequential, p

LEMMA ReadFailsSettled ==
  ASSUME Sequential, SInv, NEW c \in Clients, ReadFails(c)
  PROVE  SeqInv'
<1> USE DEF dbVars, cacheVars
<1> DEFINE p == At[c]
           w == wire[p]
           d == Get(KeyOf(op[c]), c)
<1>1. /\ op[c] \in Reads /\ Reads \cap Writes = {}
      /\ pc[c] = "db" /\ pc' = [pc EXCEPT ![c] = "fallback"]
      /\ val' = [val EXCEPT ![c] = Nothing] /\ wire' = [wire EXCEPT ![p] = Append(w, d)]
      /\ UNCHANGED <<last, orphans, op, cached, left>>
      /\ CallsTyped /\ LinksTyped /\ p \in Processes /\ w \in Seq(Command) /\ OwnWire(c)
  BY TypesInGroups, AtAssumption
     DEF ReadFails, Unavailable, SInv, SeqInv, CInv, Sequential, LinksTyped, Reads, Writes
<1>2. d \in Command /\ d.do = "get" /\ d.arg = c
  BY CommandsTyped, KeysTyped DEF Get
<1>3. \A i \in DOMAIN w : w[i].do # "get"
  BY <1>1 DEF OwnWire
<1>4. \A k \in Keys : Settled(w, k)
  BY <1>1 DEF OwnWire, Dropping
<1> HIDE DEF p, w, d
<1>5. Append(w, d) = w \o <<d>> /\ <<d>> \in Seq(Command)
  BY <1>1, <1>2
<1>6. \A k \in Keys : Settled(w \o <<d>>, k)
  <2>1. \A j \in DOMAIN <<d>> : <<d>>[j].do # "set"
    BY <1>2
  <2> QED
    BY <1>1, <1>4, <1>5, <2>1, SettledLater
<1>7. /\ wire'[p] = w \o <<d>> /\ pc'[c] = "fallback"
      /\ \A q \in Processes \ {p} : wire'[q] = wire[q]
  BY <1>1, <1>5 DEF LinksTyped, CallsTyped
<1>8. ASSUME NEW i \in DOMAIN wire'[p], wire'[p][i].do = "get"
      PROVE  i = Len(wire'[p]) /\ wire'[p][i].arg = c
  <2>1. wire'[p] = Append(w, d)
    BY <1>5, <1>7
  <2>2. i \in DOMAIN w => wire'[p][i] = w[i]
    BY <1>1, <2>1
  <2>3. i = Len(wire'[p]) /\ wire'[p][i] = d
    BY <1>1, <1>3, <1>8, <2>1, <2>2
  <2> QED
    BY <1>2, <2>3
<1>9. \A k \in Keys :
         /\ \A i \in DOMAIN wire'[p] :
              wire'[p][i].do = "set" /\ wire'[p][i].key = k =>
                wire'[p][i].arg = last'[k] \/ Superseded(wire'[p], i, k)
         /\ left'[k] > 0 => cached'[k] = last'[k] \/ Superseded(wire'[p], 0, k)
  BY <1>1, <1>6, <1>7 DEF Settled
<1>10. OwnWire(c)'
  BY <1>1, <1>7, <1>8, <1>9 DEF OwnWire, Settled, Superseded, p
<1> QED
  BY <1>1, <1>7, <1>10 DEF SInv, SeqInv, Sequential, p

LEMMA WriteFailsSettled ==
  ASSUME Sequential, SInv, NEW c \in Clients, WriteFails(c)
  PROVE  SeqInv'
<1> USE DEF dbVars, cacheVars, linkVars
<1>1. /\ pc[c] = "db" /\ Finish(c) /\ CallsTyped /\ OwnWire(c)
      /\ UNCHANGED <<last, orphans, wire, cached, left>>
  BY TypesInGroups DEF WriteFails, Unavailable, SInv, SeqInv, CInv, Sequential
<1>2. OwnWire(c)'
  BY <1>1 DEF OwnWire, Settled, Dropping, Finish, CallsTyped
<1> QED
  BY <1>1, <1>2 DEF SInv, SeqInv, Sequential

LEMMA ServeSettled ==
  ASSUME Sequential, SInv, NEW p \in Processes, Serve(p)
  PROVE  SeqInv'
<1> USE DEF dbVars, callVars, cacheVars
<1> DEFINE w == wire[p]
           d == Head(w)
<1>1. /\ w # <<>> /\ UNCHANGED <<last, orphans>> /\ wire' = [wire EXCEPT ![p] = Tail(w)]
      /\ Execute(d)
      /\ CallsTyped /\ LinksTyped /\ CachesTyped /\ w \in Seq(Command)
  BY TypesInGroups DEF Serve, SInv, CInv, Sequential, LinksTyped
<1>2. PICK c \in Clients : At[c] = p /\ OwnWire(c)
  BY <1>1 DEF SInv, SeqInv
<1>3. /\ Len(Tail(w)) = Len(w) - 1 /\ d = w[1] /\ 1 \in DOMAIN w
      /\ \A j \in 1..Len(Tail(w)) : Tail(w)[j] = w[j + 1]
      /\ Tail(w) \in Seq(Command) /\ d \in Command
  BY <1>1, HeadTailProperties
<1> HIDE DEF w, d
<1>4. \/ d.do \in {"set", "del"} /\ UNCHANGED callVars
      \/ d.do = "get" /\ pc[c] = "fallback" /\ pc'[c] = "idle" /\ Len(w) = 1
  <2>1. d.do = "get" => d.arg = c /\ pc[c] = "fallback" /\ Len(w) = 1
    BY <1>2, <1>3 DEF OwnWire, w
  <2> QED
    BY <1>1, <2>1 DEF Execute, Finish, CallsTyped
<1>5. ASSUME NEW i \in DOMAIN Tail(w), Tail(w)[i].do = "get"
      PROVE  pc'[c] = "fallback" /\ i = Len(Tail(w)) /\ Tail(w)[i].arg = c
  <2>1. i + 1 \in DOMAIN w /\ Tail(w)[i] = w[i + 1]
    BY <1>1, <1>3
  <2>2. pc[c] = "fallback" /\ i + 1 = Len(w) /\ w[i + 1].arg = c
    BY <1>2, <1>5, <2>1 DEF OwnWire, w
  <2> QED
    BY <1>1, <1>3, <1>4, <2>1, <2>2
<1>6. \A k \in Keys : Dropping(c, k)' = Dropping(c, k)
  BY <1>4 DEF Dropping
<1>7. ASSUME NEW k \in Keys, Settled(w, k)
      PROVE  /\ \A i \in DOMAIN Tail(w) :
                  Tail(w)[i].do = "set" /\ Tail(w)[i].key = k =>
                    Tail(w)[i].arg = last'[k] \/ Superseded(Tail(w), i, k)
             /\ left'[k] > 0 => cached'[k] = last'[k] \/ Superseded(Tail(w), 0, k)
  <2>1. \/ ~Touches(d, k) /\ cached'[k] = cached[k] /\ left'[k] = left[k]
        \/ d.do = "set" /\ d.key = k /\ cached'[k] = d.arg
        \/ left'[k] = 0
    BY <1>1 DEF Execute, Touches, CachesTyped
  <2> QED
    BY <1>1, <1>7, <2>1, SettledSooner DEF d
<1>8. wire'[p] = Tail(w) /\ \A q \in Processes \ {p} : wire'[q] = wire[q]
  BY <1>1 DEF LinksTyped
<1>9. /\ pc'[c] # "idle" => op'[c] \in Ops[c]
      /\ pc'[c] = "reply" /\ op'[c] \in Reads /\ val'[c] # Nothing =>
           val'[c] = last'[KeyOf(op'[c])]
  BY <1>1, <1>2, <1>4 DEF OwnWire
<1>10. \A k \in Keys : Dropping(c, k)' \/ Settled(w, k)
  BY <1>2, <1>6 DEF OwnWire, w
<1>11. OwnWire(c)'
  BY <1>2, <1>5, <1>7, <1>8, <1>9, <1>10 DEF OwnWire, Settled, Superseded
<1> QED
  BY <1>1, <1>2, <1>8, <1>11 DEF SInv, SeqInv, Sequential

LEMMA TickSettled ==
  ASSUME Sequential, SInv, Tick
  PROVE  SeqInv'
<1>1. /\ UNCHANGED <<last, orphans, pc, op, val, wire>> /\ CachesTyped
      /\ left' = [k \in Keys |-> IF left[k] > 0 THEN left[k] - 1 ELSE 0]
      /\ cached' = [k \in Keys |-> IF left[k] > 1 THEN cached[k] ELSE Nothing]
  BY TypesInGroups DEF Tick, SInv, CInv
<1>2. \A k \in Keys : left'[k] > 0 => left[k] > 0 /\ cached'[k] = cached[k]
  <2> TAKE k \in Keys
  <2>1. left[k] \in Nat
    BY <1>1, Times DEF CachesTyped
  <2> QED
    BY <1>1, <2>1
<1> QED
  BY <1>1, <1>2 DEF SInv, SeqInv, OwnWire, Settled, Dropping

LEMMA SequentialKept ==
  ASSUME Sequential, SInv, [Next]_vars
  PROVE  SInv'
<1>1. ASSUME UNCHANGED vars PROVE SeqInv'
  BY <1>1 DEF vars, dbVars, callVars, linkVars, cacheVars, SInv, SeqInv, OwnWire, Settled,
     Dropping
<1>2. ASSUME NEW c \in Clients, Continue(c) PROVE SeqInv'
  <2>1. ~FallbackFails(c)
    BY DEF FallbackFails, Sequential
  <2> QED
    BY <1>2, <2>1, AtDatabaseSettled, ReturnSettled, ReadFailsSettled, WriteFailsSettled
       DEF Continue
<1>3. ASSUME NEW c \in Clients, NEW o \in Ops[c], Begin(c, o) \/ OrphanCommits(c, o)
      PROVE  SeqInv'
  BY <1>3, BeginSettled DEF OrphanCommits, SInv, SeqInv
<1>4. ASSUME NEW p \in Processes, Serve(p) PROVE SeqInv'
  BY <1>4, ServeSettled
<1>5. CInv'
  BY CacheKept DEF SInv
<1>6. CASE Next
  BY <1>2, <1>3, <1>4, <1>5, <1>6, TickSettled DEF Next, SInv
<1> QED
  BY <1>1, <1>5, <1>6 DEF SInv

(* As long as operations do not overlap and no command is lost, a read is   *)
(* answered from the cache with what the database holds, whenever the       *)
(* repository refuses and copies expire.                                    *)
THEOREM SequentialIsCurrent == Sequential => (Spec => []FallbackIsCurrent)
<1> SUFFICES ASSUME Sequential PROVE Spec => []FallbackIsCurrent
  OBVIOUS
<1>1. SInv => FallbackIsCurrent
  <2> SUFFICES ASSUME SInv, NEW p \in Processes, wire[p] # <<>>, Head(wire[p]).do = "get",
                      left[Head(wire[p]).key] > 0
               PROVE  cached[Head(wire[p]).key] = last[Head(wire[p]).key]
    BY DEF FallbackIsCurrent
  <2>1. PICK c \in Clients : At[c] = p /\ OwnWire(c)
    BY DEF SInv, SeqInv
  <2>2. wire[p] \in Seq(Command)
    BY TypesInGroups DEF SInv, CInv, LinksTyped
  <2>3. Head(wire[p]) = wire[p][1] /\ 1 \in DOMAIN wire[p] /\ wire[p][1] \in Command
    BY <2>2
  <2>4. Len(wire[p]) = 1 /\ pc[c] = "fallback" /\ Head(wire[p]).key \in Keys
    BY <2>1, <2>3, CommandParts DEF OwnWire
  <2>5. Settled(wire[p], Head(wire[p]).key)
    BY <2>1, <2>4 DEF OwnWire, Dropping
  <2>6. ~Superseded(wire[p], 0, Head(wire[p]).key)
    BY <2>2, <2>3, <2>4 DEF Superseded, Touches
  <2> QED
    BY <2>5, <2>6 DEF Settled
<1>2. SInv /\ [Next]_vars => SInv'
  BY SequentialKept
<1> QED
  BY <1>1, <1>2, InitSequential, PTL DEF Spec
=============================================================================
