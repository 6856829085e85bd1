------------------------ MODULE CacheAdaptersProofs ------------------------
(***************************************************************************)
(* Theorems about the cache adapters, for any keys, values, lifetimes and  *)
(* size of the Map.                                                         *)
(***************************************************************************)
EXTENDS CacheAdapters, SequenceTheorems, TLAPS

-----------------------------------------------------------------------------
(* Lists of keys, oldest first.                                            *)
Distinct(o) == \A i, j \in DOMAIN o : o[i] = o[j] => i = j

(* What comes later in the list has been read or inserted since.           *)
Ordered(o, s) == \A i, m \in DOMAIN o : i < m => o[m] \in s[o[i]]

Touched(s, k) == [j \in Keys |-> IF j = k THEN {} ELSE s[j] \cup {k}]

(* n is a list that lost what is in gone and kept the order of o.          *)
Shortened(n, o, gone) ==
  /\ n \in Seq(Keys) /\ Distinct(n)
  /\ \A k : Listed(k, n) <=> Listed(k, o) /\ k \notin gone
  /\ \A s : Ordered(o, s) => Ordered(n, s)

LEMMA Removing ==
  ASSUME NEW o \in Seq(Keys), NEW n \in DOMAIN o
  PROVE  /\ RemoveAt(o, n) \in Seq(Keys)
         /\ Len(RemoveAt(o, n)) = Len(o) - 1
         /\ \A j \in 1..Len(o) - 1 :
              RemoveAt(o, n)[j] = o[IF j < n THEN j ELSE j + 1]
<1> DEFINE a == SubSeq(o, 1, n - 1)
           b == SubSeq(o, n + 1, Len(o))
<1>1. /\ a \in Seq(Keys) /\ Len(a) = n - 1
      /\ \A j \in 1..n - 1 : a[j] = o[j]
  OBVIOUS
<1>2. /\ b \in Seq(Keys) /\ Len(b) = Len(o) - n
      /\ \A j \in 1..Len(o) - n : b[j] = o[j + n]
  OBVIOUS
<1>3. /\ a \o b \in Seq(Keys) /\ Len(a \o b) = Len(o) - 1
      /\ \A j \in 1..Len(o) - 1 :
           (a \o b)[j] = IF j <= n - 1 THEN a[j] ELSE b[j - (n - 1)]
  <2> HIDE DEF a, b
  <2>1. /\ a \o b \in Seq(Keys) /\ Len(a \o b) = Len(a) + Len(b)
        /\ \A j \in 1..Len(a) + Len(b) :
             (a \o b)[j] = IF j <= Len(a) THEN a[j] ELSE b[j - Len(a)]
    BY <1>1, <1>2, ConcatProperties
  <2>2. Len(a) + Len(b) = Len(o) - 1
    BY <1>1, <1>2
  <2> QED
    BY <1>1, <2>1, <2>2
<1> HIDE DEF a, b
<1>4. \A j \in 1..Len(o) - 1 :
        (a \o b)[j] = o[IF j < n THEN j ELSE j + 1]
  <2> TAKE j \in 1..Len(o) - 1
  <2>1. CASE j < n
    BY <1>1, <1>3, <2>1
  <2>2. CASE ~(j < n)
    <3>1. j - (n - 1) \in 1..Len(o) - n /\ (j - (n - 1)) + n = j + 1
      BY <2>2
    <3> QED
      BY <1>2, <1>3, <2>2, <3>1
  <2> QED
    BY <2>1, <2>2
<1> QED
  BY <1>3, <1>4 DEF RemoveAt, a, b

LEMMA Removed ==
  ASSUME NEW o \in Seq(Keys), Distinct(o), NEW n \in DOMAIN o
  PROVE  Shortened(RemoveAt(o, n), o, {o[n]})
<1> DEFINE r == RemoveAt(o, n)
           up(j) == IF j < n THEN j ELSE j + 1
<1>1. /\ r \in Seq(Keys) /\ Len(r) = Len(o) - 1 /\ Len(o) \in Nat
      /\ DOMAIN r = 1..Len(o) - 1 /\ DOMAIN o = 1..Len(o)
      /\ \A j \in DOMAIN r : r[j] = o[up(j)]
  <2>1. /\ r \in Seq(Keys) /\ Len(r) = Len(o) - 1
        /\ \A j \in 1..Len(o) - 1 : r[j] = o[up(j)]
    BY Removing
  <2> HIDE DEF r, up
  <2> QED
    BY <2>1
<1> HIDE DEF r
<1>2. \A j \in DOMAIN r : up(j) \in DOMAIN o /\ up(j) # n
  BY <1>1
<1>3. \A i, m \in DOMAIN r : (i < m <=> up(i) < up(m)) /\ (up(i) = up(m) => i = m)
  BY <1>1
<1>4. \A m \in DOMAIN o : m # n => \E j \in DOMAIN r : up(j) = m
  <2> TAKE m \in DOMAIN o
  <2>1. CASE m < n
    BY <1>1, <2>1
  <2>2. CASE m > n
    <3>1. m - 1 \in DOMAIN r /\ up(m - 1) = m
      BY <1>1, <2>2
    <3> QED
      BY <3>1
  <2> QED
    BY <1>1, <2>1, <2>2
<1> HIDE DEF up
<1>5. Distinct(r)
  BY <1>1, <1>2, <1>3 DEF Distinct
<1>6. \A k : Listed(k, r) <=> Listed(k, o) /\ k # o[n]
  BY <1>1, <1>2, <1>4 DEF Listed, Distinct
<1>7. ASSUME NEW s, Ordered(o, s)
      PROVE  Ordered(r, s)
  BY <1>1, <1>2, <1>3, <1>7 DEF Ordered
<1> QED
  BY <1>1, <1>5, <1>6, <1>7 DEF Shortened, r

LEMMA Untouched ==
  ASSUME NEW o \in Seq(Keys), Distinct(o), NEW gone, \A k \in gone : ~Listed(k, o)
  PROVE  Shortened(o, o, gone)
BY DEF Shortened

(* What is asked for or dropped leaves the list. *)
LEMMA WithoutKey ==
  ASSUME order \in Seq(Keys), Distinct(order), NEW k
  PROVE  /\ Shortened(Without(k), order, {k})
         /\ Len(Without(k)) = IF Listed(k, order) THEN Len(order) - 1 ELSE Len(order)
<1>1. CASE Listed(k, order)
  <2>1. Place(k) \in DOMAIN order /\ order[Place(k)] = k
    BY <1>1 DEF Listed, Place
  <2> QED
    BY <1>1, <2>1, Removed, Removing DEF Without
<1>2. CASE ~Listed(k, order)
  BY <1>2, Untouched DEF Without
<1> QED
  BY <1>1, <1>2

LEMMA WithoutFirst ==
  ASSUME NEW o \in Seq(Keys), Distinct(o), o # <<>>
  PROVE  /\ Shortened(Tail(o), o, {Head(o)}) /\ Len(Tail(o)) = Len(o) - 1
         /\ Listed(Head(o), o) /\ Head(o) \in Keys
         /\ \A k, s : Ordered(o, s) /\ Listed(k, o) /\ k # Head(o) => k \in s[Head(o)]
<1>1. /\ Tail(o) \in Seq(Keys) /\ Len(Tail(o)) = Len(o) - 1 /\ Len(o) \in Nat \ {0}
      /\ DOMAIN Tail(o) = 1..Len(o) - 1 /\ DOMAIN o = 1..Len(o) /\ Head(o) = o[1]
      /\ \A j \in DOMAIN Tail(o) : Tail(o)[j] = o[j + 1]
  OBVIOUS
<1> DEFINE t == Tail(o)
<1> HIDE DEF t
<1>2. \A j \in DOMAIN t : j + 1 \in DOMAIN o /\ j + 1 # 1
  BY <1>1 DEF t
<1>3. \A m \in DOMAIN o : m # 1 => m - 1 \in DOMAIN t /\ t[m - 1] = o[m]
  BY <1>1 DEF t
<1>4. Distinct(t)
  BY <1>1, <1>2 DEF Distinct, t
<1>5. \A k : Listed(k, t) <=> Listed(k, o) /\ k # o[1]
  <2>1. ASSUME NEW j \in DOMAIN t PROVE o[j + 1] # o[1]
    BY <1>1, <1>2 DEF Distinct
  <2> QED
    BY <1>1, <1>2, <1>3, <2>1 DEF Listed, t
<1>6. ASSUME NEW s, Ordered(o, s)
      PROVE  Ordered(t, s)
  <2>1. ASSUME NEW i \in DOMAIN t, NEW m \in DOMAIN t, i < m
        PROVE  t[m] \in s[t[i]]
    <3>1. i + 1 \in DOMAIN o /\ m + 1 \in DOMAIN o /\ i + 1 < m + 1
      BY <1>1, <2>1 DEF t
    <3>2. o[m + 1] \in s[o[i + 1]]
      BY <3>1, <1>6 DEF Ordered
    <3> QED
      BY <1>1, <3>2 DEF t
  <2> QED
    BY <2>1 DEF Ordered
<1>7. ASSUME NEW k, NEW s, Ordered(o, s), Listed(k, o), k # o[1]
      PROVE  k \in s[o[1]]
  <2>1. PICK m \in DOMAIN o : o[m] = k
    BY <1>7 DEF Listed
  <2>2. 1 \in DOMAIN o /\ 1 < m
    BY <1>1, <1>7, <2>1
  <2> QED
    BY <1>7, <2>1, <2>2 DEF Ordered
<1>8. Listed(o[1], o) /\ o[1] \in Keys
  BY <1>1 DEF Listed
<1> QED
  BY <1>1, <1>4, <1>5, <1>6, <1>7, <1>8 DEF Shortened, t

(* The newest key goes to the end, and is newer than all others. *)
LEMMA Appended ==
  ASSUME NEW o \in Seq(Keys), Distinct(o), NEW k \in Keys, ~Listed(k, o)
  PROVE  /\ Append(o, k) \in Seq(Keys) /\ Len(Append(o, k)) = Len(o) + 1
         /\ Distinct(Append(o, k))
         /\ \A j : Listed(j, Append(o, k)) <=> Listed(j, o) \/ j = k
         /\ \A s : Ordered(o, s) => Ordered(Append(o, k), Touched(s, k))
<1> DEFINE a == Append(o, k)
<1>1. /\ a \in Seq(Keys) /\ Len(a) = Len(o) + 1 /\ Len(o) \in Nat
      /\ DOMAIN a = 1..Len(o) + 1 /\ DOMAIN o = 1..Len(o) /\ a[Len(o) + 1] = k
      /\ \A j \in DOMAIN o : a[j] = o[j] /\ o[j] \in Keys
  OBVIOUS
<1> HIDE DEF a
<1>2. \A j \in DOMAIN a : j = Len(o) + 1 \/ j \in DOMAIN o
  BY <1>1
<1>3. Len(o) + 1 \in DOMAIN a /\ DOMAIN o \subseteq DOMAIN a
  BY <1>1
<1>4. Distinct(a)
  BY <1>1, <1>2 DEF Distinct, Listed
<1>5. \A j : Listed(j, a) <=> Listed(j, o) \/ j = k
  BY <1>1, <1>2, <1>3 DEF Listed
<1>6. ASSUME NEW s, Ordered(o, s)
      PROVE  Ordered(a, Touched(s, k))
  <2>1. ASSUME NEW i \in DOMAIN a, NEW m \in DOMAIN a, i < m
        PROVE  a[m] \in Touched(s, k)[a[i]]
    <3>1. i \in DOMAIN o /\ a[i] = o[i] /\ o[i] # k /\ o[i] \in Keys
      BY <1>1, <2>1 DEF Listed
    <3>2. Touched(s, k)[a[i]] = s[o[i]] \cup {k}
      BY <3>1 DEF Touched
    <3>3. CASE m \in DOMAIN o
      BY <1>1, <1>6, <2>1, <3>1, <3>2, <3>3 DEF Ordered
    <3>4. CASE m = Len(o) + 1
      BY <1>1, <3>2, <3>4
    <3> QED
      BY <1>2, <3>3, <3>4
  <2> QED
    BY <2>1 DEF Ordered
<1> QED
  BY <1>1, <1>4, <1>5, <1>6 DEF a

-----------------------------------------------------------------------------
(* The inductive invariant.                                                *)

(* The Map holds what is listed; Redis keeps no order. *)
OrderInv ==
  /\ adapter = "memory" => \A k \in Keys : Has(k) <=> Listed(k, order)
  /\ adapter = "redis" => order = <<>>

(* An entry is what was asked for, and one that is gone has had its time.  *)
AskedInv ==
  \A k \in Keys :
    /\ Has(k) => /\ asked[k] = entries[k]
                 /\ entries[k].left \in {0, Expired} => adapter = "memory"
    /\ ~Has(k) => ~Live(k)

(* The keys of the Map, each once, each older than those behind it. *)
ListInv ==
  /\ order \in Seq(Keys) /\ Distinct(order) /\ Ordered(order, since)
  /\ adapter = "memory" => Len(order) <= MaxCacheSize
  /\ since \in [Keys -> SUBSET Keys]
  /\ OrderInv

EntriesTyped == entries \in [Keys -> Entry] /\ asked \in [Keys -> Entry]
AnswerTyped  ==
  answer.call \in {"none", "get", "del", "always", "ifNotExists", "ifExists"}

AInv == adapter \in Adapters /\ AnswerTyped /\ ListInv /\ EntriesTyped /\ AskedInv

LEMMA WellTyped == AInv => TypeOK
BY DEF AInv, AnswerTyped, TypeOK, ListInv, Distinct, EntriesTyped

LEMMA Numbers ==
  /\ MaxCacheSize \in Nat \ {0} /\ Nothing \notin Values
  /\ Forever = -2 /\ Expired = -1
  /\ \A a \in Adapters : a = "redis" \/ a = "memory"
BY AdaptersAssumption DEF Nothing, Forever, Expired

LEMMA Lifetime ==
  ASSUME NEW ttl \in Ttls, NEW v \in Values
  PROVE  /\ Milliseconds(ttl) \in (Nat \ {0}) \cup {Forever}
         /\ Request(v, ttl) = [value |-> v, left |-> Milliseconds(ttl)]
         /\ Request(v, ttl) \in Entry
<1>1. /\ ttl = <<>> \/ ttl \in TtlModes \X (Nat \ {0})
      /\ Second \in Nat \ {0}
  BY AdaptersAssumption
<1>2. CASE ttl = <<>>
  BY <1>2 DEF Milliseconds, Request, Entry, Lifetimes
<1>3. CASE ttl # <<>>
  <2>1. /\ ttl[1] = "seconds" \/ ttl[1] = "milliseconds"
        /\ ttl[2] \in Nat \ {0}
    BY <1>1, <1>3 DEF TtlModes
  <2>2. ttl[2] * Second \in Nat \ {0}
    BY <1>1, <2>1
  <2>3. Milliseconds(ttl) = IF ttl[1] = "seconds" THEN ttl[2] * Second ELSE ttl[2]
    BY <1>3 DEF Milliseconds
  <2>4. Request(v, ttl) = [value |-> v, left |-> Milliseconds(ttl)]
    BY <1>3, <2>1, <2>3 DEF Request
  <2> QED
    BY <2>1, <2>2, <2>3, <2>4 DEF Entry, Lifetimes
<1> QED
  BY <1>2, <1>3

LEMMA EntryParts ==
  /\ NoEntry \in Entry /\ NoEntry.value = Nothing /\ NoEntry.left = Expired
  /\ \A e \in Entry : /\ e.value \in Values \cup {Nothing}
                      /\ e.left \in Nat \cup {Forever, Expired}
                      /\ e = [value |-> e.value, left |-> e.left]
BY DEF Entry, NoEntry, Lifetimes

LEMMA InitAInv == Init => AInv
<1> SUFFICES ASSUME Init PROVE AInv
  OBVIOUS
<1> USE DEF Init
<1>1. ListInv
  <2>1. order \in Seq(Keys) /\ Len(order) = 0 /\ DOMAIN order = {}
    OBVIOUS
  <2> QED
    BY <2>1, Numbers, EntryParts DEF ListInv, OrderInv, Distinct, Ordered, Has, Listed
<1>2. EntriesTyped
  BY EntryParts DEF EntriesTyped
<1>3. AskedInv
  BY Numbers, EntryParts DEF AskedInv, Has, Live
<1> QED
  BY <1>1, <1>2, <1>3 DEF AInv, AnswerTyped

-----------------------------------------------------------------------------
(* The Map's order, operation by operation.                                *)
LEMMA DropKeepsOrder ==
  ASSUME ListInv, EntriesTyped, NEW k \in Keys, Drop(k), UNCHANGED <<adapter, since>>
  PROVE  ListInv'
<1>1. /\ Shortened(order', order, {k})
      /\ Len(order') = IF Listed(k, order) THEN Len(order) - 1 ELSE Len(order)
  BY WithoutKey DEF ListInv, Drop
<1>2. adapter = "memory" => Len(order') <= MaxCacheSize
  BY <1>1, Numbers DEF ListInv
<1>3. \A j \in Keys : Has(j)' <=> Has(j) /\ j # k
  BY EntryParts DEF Drop, Has, EntriesTyped
<1>4. adapter = "redis" => order' = <<>>
  <2>1. ~Listed(k, <<>>)
    BY DEF Listed
  <2> QED
    BY <2>1 DEF ListInv, OrderInv, Drop, Without
<1> QED
  BY <1>1, <1>2, <1>3, <1>4 DEF ListInv, OrderInv, Shortened

LEMMA TouchKeeps ==
  ASSUME ListInv, NEW k \in Keys, Touch(k)
  PROVE  since' = Touched(since, k) /\ since' \in [Keys -> SUBSET Keys]
BY DEF Touch, Touched, ListInv

LEMMA OrderedTouched ==
  ASSUME NEW o \in Seq(Keys), NEW k, ~Listed(k, o), NEW s, Ordered(o, s)
  PROVE  Ordered(o, Touched(s, k))
BY DEF Ordered, Touched, Listed

LEMMA GetKeepsOrder ==
  ASSUME ListInv, EntriesTyped, NEW k \in Keys, Has(k), GetValue(k), MoveToEnd(k),
         adapter \in Adapters, UNCHANGED adapter
  PROVE  ListInv'
<1>1. since' = Touched(since, k) /\ since' \in [Keys -> SUBSET Keys]
  BY TouchKeeps DEF GetValue
<1>2. \A j \in Keys : Has(j)' <=> Has(j)
  BY DEF GetValue, Has
<1>3. CASE adapter = "redis"
  <2>1. order' = <<>> /\ order = <<>> /\ order' \in Seq(Keys) /\ DOMAIN order' = {}
    BY <1>3 DEF ListInv, OrderInv, MoveToEnd
  <2> QED
    BY <1>1, <1>3, <2>1 DEF ListInv, OrderInv, Distinct, Ordered
<1>4. CASE adapter = "memory"
  <2> DEFINE w == Without(k)
  <2>1. /\ Shortened(w, order, {k}) /\ Listed(k, order)
        /\ Len(w) = Len(order) - 1
    BY <1>4, WithoutKey DEF ListInv, OrderInv
  <2>2. order' = Append(w, k)
    BY <1>4 DEF MoveToEnd
  <2> HIDE DEF w
  <2>3. w \in Seq(Keys) /\ Distinct(w) /\ ~Listed(k, w) /\ Ordered(w, since)
    BY <2>1 DEF Shortened, ListInv
  <2>4. /\ order' \in Seq(Keys) /\ Len(order') = Len(w) + 1 /\ Distinct(order')
        /\ \A j : Listed(j, order') <=> Listed(j, w) \/ j = k
        /\ Ordered(order', Touched(since, k))
    BY <2>2, <2>3, Appended
  <2>5. Len(order') <= MaxCacheSize
    BY <1>4, <2>1, <2>4 DEF ListInv
  <2>6. \A j \in Keys : Listed(j, order') <=> Listed(j, order)
    BY <2>1, <2>4 DEF Shortened
  <2> QED
    BY <1>1, <1>2, <1>4, <2>4, <2>5, <2>6 DEF ListInv, OrderInv
<1> QED
  BY <1>3, <1>4, Numbers

(* Room made for a new key: nothing goes, or the first of a full Map.      *)
LEMMA Evicted ==
  ASSUME ListInv, adapter = "memory", NEW k \in Keys, ~Has(k)
  PROVE  \/ /\ Evict(k) = order /\ Len(order) < MaxCacheSize
         \/ /\ Evict(k) = Tail(order) /\ order # <<>> /\ Len(order) = MaxCacheSize
<1>1. Len(order) \in Nat /\ Len(order) <= MaxCacheSize /\ (order = <<>> => Len(order) = 0)
  BY DEF ListInv
<1> QED
  BY <1>1, Numbers DEF Evict

LEMMA EvictShortens ==
  ASSUME ListInv, adapter = "memory", NEW k \in Keys, ~Has(k)
  PROVE  \E gone \in SUBSET Keys :
           /\ Shortened(Evict(k), order, gone) /\ Len(Evict(k)) < MaxCacheSize
           /\ \A j \in gone : Listed(j, order)
           /\ \A j \in gone : \A i : Listed(i, Evict(k)) => i \in since[j]
<1> USE DEF ListInv
<1>1. CASE Evict(k) = order /\ Len(order) < MaxCacheSize
  <2>1. Shortened(Evict(k), order, {})
    BY <1>1, Untouched
  <2> QED
    BY <1>1, <2>1
<1>2. CASE Evict(k) = Tail(order) /\ order # <<>> /\ Len(order) = MaxCacheSize
  <2> DEFINE h == Head(order)
  <2>1. /\ Shortened(Tail(order), order, {h}) /\ Len(Tail(order)) = Len(order) - 1
        /\ Listed(h, order) /\ h \in Keys
        /\ \A j : Listed(j, order) /\ j # h => j \in since[h]
    BY <1>2, WithoutFirst
  <2>2. Len(Tail(order)) < MaxCacheSize
    BY <1>2, <2>1, Numbers
  <2> QED
    BY <1>2, <2>1, <2>2 DEF Shortened
<1> QED
  BY <1>1, <1>2, Evicted

LEMMA WriteKeepsOrder ==
  ASSUME ListInv, EntriesTyped, adapter \in Adapters, NEW k \in Keys, NEW v \in Values,
         NEW mode, NEW ttl, Write(k, v, mode, ttl)
  PROVE  ListInv'
<1>0. Nothing # v
  BY Numbers
<1>1. CASE adapter = "redis"
  <2>1. order' = <<>> /\ order = <<>> /\ order' \in Seq(Keys) /\ DOMAIN order' = {}
    BY <1>1 DEF ListInv, OrderInv, Write, Insert
  <2>2. since' \in [Keys -> SUBSET Keys]
    BY TouchKeeps DEF Write, ListInv
  <2> QED
    BY <1>1, <2>1, <2>2 DEF Write, ListInv, OrderInv, Distinct, Ordered
<1>2. CASE adapter = "memory" /\ Has(k)
  <2>1. Listed(k, order) /\ order' = order /\ since' = since /\ adapter' = adapter
    BY <1>2 DEF ListInv, OrderInv, Write, Insert
  <2>2. \A j \in Keys : Stays(j, k) <=> Listed(j, order)
    BY <1>2 DEF Stays, Evict
  <2>3. \A j \in Keys : Has(j)' <=> Has(j)
    BY <1>0, <1>2, <2>1, <2>2, EntryParts DEF Write, Has, ListInv, OrderInv
  <2> QED
    BY <1>2, <2>1, <2>3 DEF ListInv, OrderInv
<1>3. CASE adapter = "memory" /\ ~Has(k)
  <2> DEFINE w == Evict(k)
  <2>1. PICK gone \in SUBSET Keys :
          /\ Shortened(w, order, gone) /\ Len(w) < MaxCacheSize
          /\ \A j \in gone : Listed(j, order)
    BY <1>3, EvictShortens
  <2>2. order' = Append(w, k) /\ adapter' = adapter
    BY <1>3 DEF Write, Insert
  <2>3. \A j \in Keys : Stays(j, k) <=> Listed(j, w)
    BY <1>3 DEF Stays
  <2> HIDE DEF w
  <2>4. w \in Seq(Keys) /\ Distinct(w) /\ ~Listed(k, w) /\ Ordered(w, since)
    BY <1>3, <2>1 DEF Shortened, ListInv, OrderInv
  <2>5. /\ order' \in Seq(Keys) /\ Len(order') = Len(w) + 1 /\ Distinct(order')
        /\ \A j : Listed(j, order') <=> Listed(j, w) \/ j = k
        /\ Ordered(order', Touched(since, k))
    BY <2>2, <2>4, Appended
  <2>6. Len(order') <= MaxCacheSize
    BY <2>1, <2>4, <2>5, Numbers
  <2>7. since' = Touched(since, k) /\ since' \in [Keys -> SUBSET Keys]
    BY <1>3, TouchKeeps DEF Write
  <2>8. \A j \in Keys : Has(j)' <=> Listed(j, order')
    <3>1. ASSUME NEW j \in Keys, j # k
          PROVE  Has(j)' <=> Listed(j, w)
      <4>1. Listed(j, w) => Has(j)
        BY <1>3, <2>1 DEF Shortened, ListInv, OrderInv
      <4> QED
        BY <2>3, <3>1, <4>1, EntryParts DEF Write, Has
    <3>2. Has(k)'
      BY <1>0 DEF Write, Has
    <3> QED
      BY <2>5, <3>1, <3>2
  <2> QED
    BY <1>3, <2>2, <2>5, <2>6, <2>7, <2>8 DEF ListInv, OrderInv
<1> QED
  BY <1>1, <1>2, <1>3, Numbers

-----------------------------------------------------------------------------
(* Every step keeps the invariant.                                         *)
LEMMA Ageing ==
  ASSUME NEW e \in Entry
  PROVE  /\ Older(e) \in Entry /\ Older(e).value = e.value
         /\ e.left \in {Forever, Expired} => Older(e).left = e.left
         /\ e.left \notin {Forever, Expired} => Older(e).left = e.left - 1
<1>1. /\ Older(e) = [value |-> e.value,
                     left |-> IF e.left \in {Forever, Expired} THEN e.left ELSE e.left - 1]
  BY EntryParts DEF Older, Entry
<1>2. e.left \notin {Forever, Expired} => e.left - 1 \in Nat \cup {Expired}
  BY EntryParts, Numbers
<1> QED
  BY <1>1, <1>2, EntryParts DEF Entry, Lifetimes

LEMMA TickKeeps == ASSUME AInv, Tick PROVE AInv'
<1> USE DEF AInv
<1>1. ASSUME NEW k \in Keys
      PROVE  /\ entries[k] \in Entry /\ asked[k] \in Entry
             /\ entries'[k] = IF adapter = "redis" /\ entries[k].left = 1
                                THEN NoEntry ELSE Older(entries[k])
             /\ asked'[k] = Older(asked[k])
  BY DEF EntriesTyped, Tick
<1>2. EntriesTyped'
  BY <1>1, Ageing, EntryParts DEF EntriesTyped, Tick
<1>3. ASSUME NEW k \in Keys
      PROVE  /\ Has(k)' => Has(k)
             /\ Has(k) /\ ~Has(k)' => adapter = "redis" /\ entries[k].left = 1
             /\ Has(k)' => entries'[k] = Older(entries[k])
  BY <1>1, Ageing, EntryParts DEF Has
<1>4. ListInv'
  <2>1. adapter = "memory" => \A k \in Keys : Has(k)' <=> Has(k)
    BY <1>3
  <2> QED
    BY <2>1 DEF Tick, ListInv, OrderInv
<1>5. ASSUME NEW k \in Keys, Has(k)'
      PROVE  /\ asked'[k] = entries'[k]
             /\ entries'[k].left \in {0, Expired} => adapter' = "memory"
  <2>1. asked[k] = entries[k] /\ (entries[k].left \in {0, Expired} => adapter = "memory")
    BY <1>3, <1>5 DEF AskedInv
  <2>2. adapter # "memory" => entries[k].left # 1
    BY <1>1, <1>5, Numbers, EntryParts DEF Has
  <2> QED
    BY <1>1, <1>3, <1>5, <2>1, <2>2, Ageing, EntryParts, Numbers DEF Tick
<1>6. ASSUME NEW k \in Keys, ~Has(k)'
      PROVE  ~Live(k)'
  <2>1. CASE ~Has(k)
    <3>1. ~Live(k)
      BY <2>1 DEF AskedInv
    <3> QED
      BY <1>1, <3>1, Ageing, EntryParts, Numbers DEF Live, Tick
  <2>2. CASE Has(k)
    <3>1. adapter = "redis" /\ asked[k].left = 1
      BY <1>3, <1>6, <2>2 DEF AskedInv
    <3> QED
      BY <1>1, <3>1, Ageing, Numbers DEF Live, Tick
  <2> QED
    BY <2>1, <2>2
<1>7. AskedInv'
  BY <1>5, <1>6 DEF AskedInv
<1> QED
  BY <1>2, <1>4, <1>7 DEF Tick, AnswerTyped

LEMMA DropKeepsAsked ==
  ASSUME AInv, NEW k \in Keys, Drop(k), UNCHANGED adapter,
         (asked' = asked /\ ~Live(k)) \/ asked' = [asked EXCEPT ![k] = NoEntry]
  PROVE  EntriesTyped' /\ AskedInv'
<1>1. EntriesTyped'
  BY EntryParts DEF AInv, Drop, EntriesTyped
<1>2. ~Has(k)' /\ ~Live(k)'
  BY EntryParts, Numbers DEF AInv, Drop, EntriesTyped, Has, Live
<1>3. \A j \in Keys : j # k => entries'[j] = entries[j] /\ asked'[j] = asked[j]
  BY DEF AInv, Drop, EntriesTyped
<1> QED
  BY <1>1, <1>2, <1>3 DEF AInv, AskedInv, Has, Live

LEMMA GetKeeps == ASSUME AInv, NEW k \in Keys, Get(k) PROVE AInv'
<1> USE DEF AInv
<1>1. CASE ~Has(k) /\ GetNothing(k) /\ UNCHANGED <<entries, order>>
  BY <1>1 DEF Get, GetNothing, Answer, AnswerTyped, ListInv, OrderInv, EntriesTyped, AskedInv, Has, Live
<1>2. CASE Has(k) /\ entries[k].left = Expired /\ GetNothing(k) /\ Drop(k)
  <2>1. ListInv'
    BY <1>2, DropKeepsOrder DEF Get, GetNothing
  <2>2. ~Live(k)
    BY <1>2, Numbers DEF AskedInv, Live
  <2>3. EntriesTyped' /\ AskedInv'
    BY <1>2, <2>2, DropKeepsAsked DEF Get
  <2> QED
    BY <1>2, <2>1, <2>3 DEF Get, GetNothing, Answer, AnswerTyped
<1>3. CASE Has(k) /\ entries[k].left # Expired /\ GetValue(k) /\ MoveToEnd(k)
  <2>1. ListInv'
    BY <1>3, GetKeepsOrder DEF Get
  <2> QED
    BY <1>3, <2>1 DEF Get, GetValue, Answer, AnswerTyped, EntriesTyped, AskedInv, Has, Live
<1> QED
  BY <1>1, <1>2, <1>3 DEF Get

LEMMA DelKeeps == ASSUME AInv, NEW k \in Keys, Del(k) PROVE AInv'
<1>1. ListInv'
  BY DropKeepsOrder DEF AInv, Del
<1>2. EntriesTyped' /\ AskedInv'
  BY DropKeepsAsked DEF Del
<1> QED
  BY <1>1, <1>2 DEF AInv, Del, Answer, AnswerTyped

LEMMA WriteKeeps ==
  ASSUME AInv, NEW k \in Keys, NEW v \in Values, NEW mode \in Modes, NEW ttl \in Ttls,
         Write(k, v, mode, ttl)
  PROVE  AInv'
<1> USE DEF AInv
<1>1. ListInv'
  BY WriteKeepsOrder
<1>2. /\ Milliseconds(ttl) \in (Nat \ {0}) \cup {Forever}
      /\ Request(v, ttl) = [value |-> v, left |-> Milliseconds(ttl)]
      /\ Request(v, ttl) \in Entry
  BY Lifetime
<1>3. /\ entries'[k] = Request(v, ttl) /\ asked'[k] = Request(v, ttl)
      /\ \A j \in Keys \ {k} :
           /\ entries'[j] = entries[j] \/ entries'[j] = NoEntry
           /\ asked'[j] = IF Has(j)' THEN asked[j] ELSE NoEntry
  BY <1>2 DEF Write
<1>4. EntriesTyped'
  BY <1>2, <1>3, EntryParts DEF Write, EntriesTyped
<1>5. AskedInv'
  <2>1. /\ Has(k)' /\ asked'[k] = entries'[k] /\ entries'[k].left \notin {0, Expired}
    BY <1>2, <1>3, Numbers DEF Has
  <2>2. ASSUME NEW j \in Keys \ {k}, Has(j)'
        PROVE  /\ asked'[j] = entries'[j]
               /\ entries'[j].left \in {0, Expired} => adapter' = "memory"
    <3>1. entries'[j] = entries[j] /\ asked'[j] = asked[j]
      BY <1>3, <2>2, EntryParts DEF Has
    <3> QED
      BY <2>2, <3>1 DEF AskedInv, Has, Write
  <2>3. ASSUME NEW j \in Keys \ {k}, ~Has(j)'
        PROVE  ~Live(j)'
    BY <1>3, <2>3, EntryParts, Numbers DEF Live
  <2> QED
    BY <2>1, <2>2, <2>3 DEF AskedInv
<1> QED
  BY <1>1, <1>4, <1>5 DEF Write, Answer, AnswerTyped, Modes

LEMMA SetKeeps ==
  ASSUME AInv, NEW k \in Keys, NEW v \in Values, NEW mode \in Modes, NEW ttl \in Ttls,
         Set(k, v, mode, ttl)
  PROVE  AInv'
<1>1. CASE Refused(mode, k) /\ Answer(mode, k, "false")
           /\ UNCHANGED <<adapter, entries, order, asked, since>>
  BY <1>1 DEF AInv, AnswerTyped, Answer, Modes, ListInv, OrderInv, EntriesTyped,
              AskedInv, Has, Live
<1>2. CASE Write(k, v, mode, ttl)
  BY <1>2, WriteKeeps
<1> QED
  BY <1>1, <1>2 DEF Set

LEMMA StepKeeps == AInv /\ [Next]_vars => AInv'
<1> SUFFICES ASSUME AInv, [Next]_vars PROVE AInv'
  OBVIOUS
<1>1. CASE Tick
  BY <1>1, TickKeeps
<1>2. CASE \E k \in Keys : Get(k) \/ Del(k)
  BY <1>2, GetKeeps, DelKeeps
<1>3. CASE \E k \in Keys, v \in Values, mode \in Modes, ttl \in Ttls : Set(k, v, mode, ttl)
  BY <1>3, SetKeeps
<1>4. CASE UNCHANGED vars
  BY <1>4 DEF vars, AInv, AnswerTyped, ListInv, OrderInv, EntriesTyped, AskedInv, Has, Live
<1> QED
  BY <1>1, <1>2, <1>3, <1>4 DEF Next

LEMMA Inductive == Spec => []AInv
BY InitAInv, StepKeeps, PTL DEF Spec

(* An entry is what was asked for it; the Map is never over its size and    *)
(* holds a key once (cache.service.ts 51-58).                               *)
THEOREM AdaptersTyping == Spec => []TypeOK
BY Inductive, WellTyped, PTL

-----------------------------------------------------------------------------
(* get answers what the last accepted set stored for as long as was asked,  *)
(* and nothing after that (redis/cache.service.ts, cache.service.ts 14-29). *)
THEOREM AsksAreKept == Spec => ReadsWhatWasAsked
<1>1. ASSUME AInv, NEW k \in Keys, Get(k)
      PROVE  answer'.out = IF Live(k) THEN asked[k].value ELSE Nothing
  <2>1. /\ entries[k].left \in Nat \cup {Forever, Expired}
        /\ Has(k) => asked[k] = entries[k]
        /\ Has(k) /\ entries[k].left = 0 => adapter = "memory"
        /\ ~Has(k) => ~Live(k)
    BY <1>1, EntryParts DEF AInv, EntriesTyped, AskedInv
  <2>2. CASE ~Has(k) /\ GetNothing(k)
    BY <2>1, <2>2 DEF GetNothing, Answer
  <2>3. CASE Has(k) /\ entries[k].left = Expired /\ GetNothing(k)
    BY <2>1, <2>3, Numbers DEF GetNothing, Answer, Live
  <2>4. CASE Has(k) /\ entries[k].left # Expired /\ GetValue(k)
    <3>1. Live(k)
      BY <2>1, <2>4, Numbers DEF Live, Has
    <3> QED
      BY <2>1, <2>4, <3>1 DEF GetValue, Answer
  <2> QED
    BY <1>1, <2>2, <2>3, <2>4 DEF Get
<1>2. AInv => [\A k \in Keys :
                 Get(k) => answer'.out = IF Live(k) THEN asked[k].value ELSE Nothing]_vars
  BY <1>1
<1> QED
  BY <1>2, Inductive, PTL DEF ReadsWhatWasAsked

(* A conditional set is decided by the value get would answer, or by an     *)
(* expired entry of the Map that nobody has read (cache.service.ts 47).     *)
THEOREM ConditionsAreLive == Spec => ConditionIsOnLiveEntries
<1>1. ASSUME AInv, NEW k \in Keys, NEW v \in Values, NEW mode \in Modes, NEW ttl \in Ttls,
             Set(k, v, mode, ttl)
      PROVE  \/ answer'.out = "true" <=> mode = "always" \/ (Live(k) <=> mode = "ifExists")
             \/ adapter = "memory" /\ Has(k) /\ entries[k].left = Expired
  <2>1. answer'.out = IF Refused(mode, k) THEN "false" ELSE "true"
    BY <1>1 DEF Set, Write, Answer
  <2>2. /\ entries[k].left \in Nat \cup {Forever, Expired}
        /\ Has(k) => asked[k] = entries[k]
        /\ Has(k) /\ entries[k].left \in {0, Expired} => adapter = "memory"
        /\ ~Has(k) => ~Live(k)
    BY <1>1, EntryParts DEF AInv, EntriesTyped, AskedInv
  <2>3. Has(k) /\ entries[k].left # Expired => Live(k)
    BY <2>2, Numbers DEF Live, Has
  <2>4. Has(k) /\ entries[k].left = Expired => adapter = "memory"
    BY <2>2
  <2>5. mode \in {"always", "ifNotExists", "ifExists"}
    BY DEF Modes
  <2> QED
    BY <2>1, <2>2, <2>3, <2>4, <2>5 DEF Refused
<1>2. AInv =>
        [\A k \in Keys, v \in Values, mode \in Modes, ttl \in Ttls :
           Set(k, v, mode, ttl) =>
             \/ answer'.out = "true" <=> mode = "always" \/ (Live(k) <=> mode = "ifExists")
             \/ adapter = "memory" /\ Has(k) /\ entries[k].left = Expired]_vars
  BY <1>1
<1> QED
  BY <1>2, Inductive, PTL DEF ConditionIsOnLiveEntries

-----------------------------------------------------------------------------
(* The entry a set of another key costs is the one that was read or         *)
(* inserted the longest ago (cache.service.ts 25-26, 51-56).                *)
LEMMA OthersStay ==
  ASSUME AInv, NEW j \in Keys, NEW k \in Keys, j # k, Drop(k) \/ UNCHANGED entries
  PROVE  Has(j)' <=> Has(j)
BY DEF AInv, EntriesTyped, Drop, Has

LEMMA EvictsOldest ==
  ASSUME AInv, adapter = "memory", NEW j \in Keys, NEW k \in Keys, NEW v \in Values,
         NEW mode, NEW ttl, Write(k, v, mode, ttl), j # k, Has(j), ~Has(j)'
  PROVE  \A i \in Keys \ {j} : Has(i) => i \in since[j]
<1> USE DEF AInv, ListInv, OrderInv
<1>1. \A i \in Keys : Has(i) <=> Listed(i, order)
  OBVIOUS
<1>2. ~Listed(j, Evict(k))
  BY EntryParts DEF Write, Stays, Has
<1>3. ~Has(k)
  BY <1>1, <1>2 DEF Evict
<1>4. Evict(k) = Tail(order) /\ order # <<>>
  BY <1>1, <1>2, <1>3, Evicted
<1>5. /\ j = Head(order)
      /\ \A i : Listed(i, order) /\ i # Head(order) => i \in since[Head(order)]
  BY <1>1, <1>2, <1>4, WithoutFirst DEF Shortened
<1> QED
  BY <1>1, <1>5

THEOREM EvictionIsFair == Spec => EvictsLeastRecent
<1>1. ASSUME AInv, Next, NEW j \in Keys,
             Has(j), ~Has(j)', answer'.key # j, adapter = "memory"
      PROVE  \A i \in Keys \ {j} : Has(i) => i \in since[j]
  <2>1. CASE Tick
    <3>1. Has(j)'
      BY <1>1, <2>1, Ageing DEF Tick, Has, AInv, EntriesTyped
    <3> QED
      BY <1>1, <3>1
  <2>2. ASSUME NEW k \in Keys, Get(k) \/ Del(k)
        PROVE  FALSE
    <3>1. answer'.key = k /\ (Drop(k) \/ UNCHANGED entries)
      BY <2>2 DEF Get, Del, GetNothing, GetValue, Answer
    <3> QED
      BY <1>1, <3>1, OthersStay
  <2>3. ASSUME NEW k \in Keys, NEW v \in Values, NEW mode \in Modes, NEW ttl \in Ttls,
               Set(k, v, mode, ttl)
        PROVE  \A i \in Keys \ {j} : Has(i) => i \in since[j]
    <3>1. answer'.key = k
      BY <2>3 DEF Set, Write, Answer
    <3>2. ~UNCHANGED entries
      BY <1>1 DEF Has
    <3>3. Write(k, v, mode, ttl)
      BY <2>3, <3>2 DEF Set
    <3> QED
      BY <1>1, <3>1, <3>3, EvictsOldest
  <2> QED
    BY <1>1, <2>1, <2>2, <2>3 DEF Next
<1>2. AInv /\ [Next]_vars =>
        [\A j \in Keys :
           Has(j) /\ ~Has(j)' /\ answer'.key # j /\ adapter = "memory" =>
             \A i \in Keys \ {j} : Has(i) => i \in since[j]]_vars
  BY <1>1
<1> QED
  BY <1>2, Inductive, PTL DEF Spec, EvictsLeastRecent

-----------------------------------------------------------------------------
(* Both adapters implement the contract.                                   *)
Content == [k \in Keys |-> entries[k].value]

LEMMA ContentTyped ==
  AInv => /\ Content \in [Keys -> Values \cup {Nothing}]
          /\ \A k \in Keys : Has(k) <=> Content[k] # Nothing
BY EntryParts DEF AInv, EntriesTyped, Content, Has

LEMMA TickForgets == ASSUME AInv, AInv', Tick PROVE Promised!Forget
<1>1. \A k \in Keys : Content'[k] \in {Content[k], Nothing}
  BY Ageing, EntryParts DEF Tick, Content, AInv, EntriesTyped
<1>2. Content' \in [Keys -> Values \cup {Nothing}]
  BY ContentTyped, EntryParts DEF AInv, EntriesTyped, Content
<1> QED
  BY <1>1, <1>2 DEF Promised!Forget, Promised!Nothing, Nothing, Content, Tick

LEMMA DropForgets ==
  ASSUME AInv, NEW k \in Keys, Drop(k)
  PROVE  Promised!Forgotten(k)
BY EntryParts DEF AInv, EntriesTyped, Drop, Promised!Forgotten, Promised!Nothing, Nothing

LEMMA GetIsPromised == ASSUME AInv, NEW k \in Keys, Get(k) PROVE Promised!Get(k)
<1> USE DEF Get, GetNothing, GetValue, Answer,
            Promised!Get, Promised!Answer, Promised!Nothing, Nothing, Has
<1>1. CASE ~Has(k) /\ GetNothing(k) /\ UNCHANGED <<entries, order>>
  BY <1>1
<1>2. CASE GetNothing(k) /\ Drop(k)
  BY <1>2, DropForgets
<1>3. CASE GetValue(k)
  BY <1>3
<1> QED
  BY <1>1, <1>2, <1>3

LEMMA WriteStores ==
  ASSUME AInv, AInv', NEW k \in Keys, NEW v \in Values, NEW mode, NEW ttl,
         Write(k, v, mode, ttl)
  PROVE  Promised!Store(k, v) /\ Promised!Answer(mode, k, "true")
<1>1. Content' \in [Keys -> Values \cup {Nothing}]
  BY EntryParts DEF AInv, EntriesTyped, Content
<1>2. Content'[k] = v /\ \A j \in Keys \ {k} : Content'[j] \in {Content[j], Nothing}
  BY EntryParts DEF Write, Content
<1> QED
  BY <1>1, <1>2 DEF Promised!Store, Promised!Answer, Promised!Nothing, Nothing, Content,
                    Write, Answer

LEMMA SetIsPromised ==
  ASSUME AInv, AInv', NEW k \in Keys, NEW v \in Values, NEW mode \in Modes, NEW ttl \in Ttls,
         Set(k, v, mode, ttl)
  PROVE  \/ Promised!Set(k, v)
         \/ Promised!SetIf("ifNotExists", k, v, Content[k] = Nothing)
         \/ Promised!SetIf("ifExists", k, v, Content[k] # Nothing)
<1>1. Has(k) <=> Content[k] # Nothing
  BY ContentTyped
<1>2. CASE Refused(mode, k) /\ Answer(mode, k, "false") /\ UNCHANGED entries
  BY <1>1, <1>2 DEF Refused, Answer, Promised!SetIf, Promised!Answer
<1>3. CASE ~Refused(mode, k) /\ Write(k, v, mode, ttl)
  <2>1. Promised!Store(k, v) /\ Promised!Answer(mode, k, "true")
    BY <1>3, WriteStores
  <2> QED
    BY <1>1, <1>3, <2>1 DEF Refused, Modes, Promised!SetIf, Promised!Set
<1> QED
  BY <1>2, <1>3 DEF Set

(* Whichever adapter CACHE_SERVICE is bound to, callers find what           *)
(* CacheContract says (cache.service.ts).                                   *)
THEOREM ImplementsCacheContract == Spec => RefinesCacheContract
<1>1. Init => Promised!Empty
  BY EntryParts DEF Init, Promised!Empty, Promised!Nothing, Nothing
<1>2. ASSUME AInv, AInv', Next
      PROVE  Promised!Step
  <2>1. CASE Tick
    BY <1>2, <2>1, TickForgets DEF Promised!Step
  <2>2. ASSUME NEW k \in Keys, Get(k)
        PROVE  Promised!Step
    BY <1>2, <2>2, GetIsPromised DEF Promised!Step
  <2>3. ASSUME NEW k \in Keys, Del(k)
        PROVE  Promised!Step
    BY <1>2, <2>3, DropForgets DEF Promised!Step, Promised!Del, Promised!Answer,
       Promised!Nothing, Nothing, Del, Answer
  <2>4. ASSUME NEW k \in Keys, NEW v \in Values, NEW mode \in Modes, NEW ttl \in Ttls,
               Set(k, v, mode, ttl)
        PROVE  Promised!Step
    BY <1>2, <2>4, SetIsPromised DEF Promised!Step, Promised!Nothing, Nothing, Content
  <2> QED
    BY <1>2, <2>1, <2>2, <2>3, <2>4 DEF Next
<1>3. UNCHANGED vars => UNCHANGED Promised!vars
  BY DEF vars, Promised!vars
<1>4. AInv /\ AInv' /\ [Next]_vars => [Promised!Step]_(Promised!vars)
  BY <1>2, <1>3
<1> QED
  BY <1>1, <1>4, Inductive, PTL DEF Spec, RefinesCacheContract, Promised!Contract
=============================================================================
