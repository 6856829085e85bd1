--------------------------- MODULE CacheAdapters ---------------------------
(***************************************************************************)
(* The two adapters of CacheService: RedisCacheService, whose server drops *)
(* an entry the moment its TTL is over, and InMemoryCacheService, a Map in *)
(* insertion order that finds out on the next get, moves what is read to   *)
(* the end and evicts from the front when it is full.                      *)
(*                                                                         *)
(* Each call is one step: the in-memory adapter has no await, and Redis    *)
(* executes a command at a time.  Time passes in milliseconds.             *)
(***************************************************************************)
EXTENDS Integers, Sequences, SequencesExt

CONSTANTS
  Keys, Values,
  Adapters,      \* the adapters CACHE_SERVICE may be bound to
  MaxCacheSize,  \* maxCacheSize of the in-memory one
  Second,        \* milliseconds in a second
  Ttls           \* lifetimes asked for: <<ttlMode, ttl>>, or <<>> for none

TtlModes == {"seconds", "milliseconds"}

ASSUME AdaptersAssumption ==
  /\ Adapters \subseteq {"redis", "memory"} /\ Adapters # {}
  /\ MaxCacheSize \in Nat \ {0} /\ Second \in Nat \ {0}
  /\ Ttls \subseteq ({<<>>} \cup (TtlModes \X (Nat \ {0})))
  /\ "nothing" \notin Values

VARIABLES
  adapter,  \* the one that is bound
  entries,  \* the entry of each key, with the time it has left, or NoEntry
  order,    \* the keys of the Map as it iterates over them
  answer,   \* the last call: its name, its key, what it answered
  asked,    \* history: what the last accepted set of a key asked for
  since     \* history: keys read or inserted since k was

vars == <<adapter, entries, order, answer, asked, since>>

Nothing == "nothing"
Forever == -2       \* expiresAt: null
Expired == -1       \* the time left, once it is below zero

Lifetimes == Nat \cup {Forever, Expired}
Entry     == [value : Values \cup {Nothing}, left : Lifetimes]
NoEntry   == [value |-> Nothing, left |-> Expired]

Has(k) == entries[k].value # Nothing

TypeOK ==
  /\ adapter \in Adapters
  /\ entries \in [Keys -> Entry]
  /\ order \in Seq(Keys)
  /\ adapter = "memory" => Len(order) <= MaxCacheSize
  /\ \A i, j \in DOMAIN order : order[i] = order[j] => i = j
  /\ answer.call \in {"none", "get", "del", "always", "ifNotExists", "ifExists"}
  /\ asked \in [Keys -> Entry]
  /\ since \in [Keys -> SUBSET Keys]

Init ==
  /\ adapter \in Adapters
  /\ entries = [k \in Keys |-> NoEntry] /\ order = <<>>
  /\ answer = [call |-> "none", key |-> Nothing, out |-> Nothing]
  /\ asked = [k \in Keys |-> NoEntry]
  /\ since = [k \in Keys |-> {}]

-----------------------------------------------------------------------------
Listed(k, o) == \E i \in DOMAIN o : o[i] = k
Place(k)     == CHOOSE i \in DOMAIN order : order[i] = k
Without(k)   == IF Listed(k, order) THEN RemoveAt(order, Place(k)) ELSE order

Drop(k) ==
  entries' = [entries EXCEPT ![k] = NoEntry] /\ order' = Without(k)

Answer(call, k, out) == answer' = [call |-> call, key |-> k, out |-> out]

(* k has been read or inserted: it is the newest, and newer than others. *)
Touch(k) ==
  since' = [j \in Keys |-> IF j = k THEN {} ELSE since[j] \cup {k}]

(* Delete and set: what the Map has been asked for becomes its last.       *)
MoveToEnd(k) ==
  order' = IF adapter = "memory" THEN Append(Without(k), k) ELSE order

GetNothing(k) == Answer("get", k, Nothing) /\ UNCHANGED since
GetValue(k)   == Answer("get", k, entries[k].value) /\ UNCHANGED entries /\ Touch(k)

(* Mutants of Get: expiry is not looked at; what is read keeps its place. *)
GetExpired(k) ==
  /\ \/ ~Has(k) /\ GetNothing(k) /\ UNCHANGED <<entries, order>>
     \/ Has(k) /\ GetValue(k) /\ MoveToEnd(k)
  /\ UNCHANGED <<adapter, asked>>
GetInPlace(k) ==
  /\ \/ ~Has(k) /\ GetNothing(k) /\ UNCHANGED <<entries, order>>
     \/ Has(k) /\ entries[k].left = Expired /\ GetNothing(k) /\ Drop(k)
     \/ Has(k) /\ entries[k].left # Expired /\ GetValue(k) /\ UNCHANGED order
  /\ UNCHANGED <<adapter, asked>>

(* An expired entry is only found, and dropped, here. *)
Get(k) ==
  /\ \/ ~Has(k) /\ GetNothing(k) /\ UNCHANGED <<entries, order>>
     \/ Has(k) /\ entries[k].left = Expired /\ GetNothing(k) /\ Drop(k)
     \/ Has(k) /\ entries[k].left # Expired /\ GetValue(k) /\ MoveToEnd(k)
  /\ UNCHANGED <<adapter, asked>>

(* What the caller of a set asked for. *)
Request(v, ttl) ==
  [value |-> v,
   left |-> CASE ttl = <<>>           -> Forever
              [] ttl # <<>> /\ ttl[1] = "seconds"      -> ttl[2] * Second
              [] ttl # <<>> /\ ttl[1] = "milliseconds" -> ttl[2]]

(* EX counts in seconds and PX in milliseconds; the Map in milliseconds. *)
Milliseconds(ttl) ==
  IF ttl = <<>> THEN Forever ELSE
  IF ttl[1] = "seconds" THEN ttl[2] * Second ELSE ttl[2]

(* NX, XX and the in-memory conditions ask whether the key is there. *)
Refused(mode, k) ==
  (mode = "ifExists" /\ ~Has(k)) \/ (mode = "ifNotExists" /\ Has(k))

(* Mutant of Evict: one entry too many. *)
EvictLate(k) ==
  IF Len(order) > MaxCacheSize /\ ~Has(k) THEN Tail(order) ELSE order

(* A full Map makes room for a new key by dropping its first one. *)
Evict(k) ==
  IF Len(order) >= MaxCacheSize /\ ~Has(k) THEN Tail(order) ELSE order

(* Map.set leaves a key that is there in its place. *)
Insert(k) ==
  order' = IF adapter = "memory" /\ ~Has(k) THEN Append(Evict(k), k) ELSE order

Stays(j, k) == adapter = "memory" => Listed(j, Evict(k))

(* What a set that is not refused does. *)
Write(k, v, mode, ttl) ==
  /\ Insert(k)
  /\ entries' = [j \in Keys |->
       IF j = k THEN [value |-> v, left |-> Milliseconds(ttl)]
       ELSE IF Stays(j, k) THEN entries[j] ELSE NoEntry]
  /\ Answer(mode, k, "true")
  /\ asked' = [j \in Keys |-> IF j = k THEN Request(v, ttl)
                             ELSE IF Has(j)' THEN asked[j] ELSE NoEntry]
  /\ IF Has(k) THEN UNCHANGED since ELSE Touch(k)
  /\ UNCHANGED adapter

(* Mutant of Set: ifNotExists is not looked at, and a claim is taken over. *)
SetOver(k, v, mode, ttl) ==
  \/ /\ mode = "ifExists" /\ ~Has(k)
     /\ Answer(mode, k, "false") /\ UNCHANGED <<adapter, entries, order, asked, since>>
  \/ /\ mode = "ifExists" => Has(k)
     /\ Write(k, v, mode, ttl)

Set(k, v, mode, ttl) ==
  \/ /\ Refused(mode, k)
     /\ Answer(mode, k, "false") /\ UNCHANGED <<adapter, entries, order, asked, since>>
  \/ /\ ~Refused(mode, k)
     /\ Write(k, v, mode, ttl)

Del(k) ==
  /\ Drop(k)
  /\ Answer("del", k, Nothing)
  /\ asked' = [asked EXCEPT ![k] = NoEntry]
  /\ UNCHANGED <<adapter, since>>

Older(e) ==
  [e EXCEPT !.left = IF @ \in {Forever, Expired} THEN @ ELSE @ - 1]

(* A millisecond passes.  Redis drops what has no time left; the Map        *)
(* compares now > expiresAt, when asked.                                   *)
Tick ==
  /\ entries' = [k \in Keys |->
       IF adapter = "redis" /\ entries[k].left = 1 THEN NoEntry ELSE Older(entries[k])]
  /\ asked' = [k \in Keys |-> Older(asked[k])]
  /\ UNCHANGED <<adapter, order, answer, since>>

-----------------------------------------------------------------------------
Modes == {"always", "ifNotExists", "ifExists"}

Next ==
  \/ Tick
  \/ \E k \in Keys :
       \/ Get(k) \/ Del(k)
       \/ \E v \in Values, mode \in Modes, ttl \in Ttls : Set(k, v, mode, ttl)

Spec == Init /\ [][Next]_vars

-----------------------------------------------------------------------------
(* Redis deletes at the end of the TTL, the Map keeps through it.           *)
Live(k) ==
  \/ asked[k].left = Forever /\ asked[k].value # Nothing
  \/ asked[k].left > 0
  \/ asked[k].left = 0 /\ adapter = "memory"

(* get answers what the last accepted set of the key stored for as long as  *)
(* the caller asked, and nothing after that, with either adapter, unless    *)
(* the entry was evicted.                                                   *)
ReadsWhatWasAsked ==
  [][\A k \in Keys :
       Get(k) => answer'.out = IF Live(k) THEN asked[k].value ELSE Nothing]_vars

(* A conditional set is decided by whether the key has a value that get     *)
(* would answer; in the Map an expired entry nobody has read since counts.  *)
ConditionIsOnLiveEntries ==
  [][\A k \in Keys, v \in Values, mode \in Modes, ttl \in Ttls :
       Set(k, v, mode, ttl) =>
         \/ answer'.out = "true" <=> mode = "always" \/ (Live(k) <=> mode = "ifExists")
         \/ adapter = "memory" /\ Has(k) /\ entries[k].left = Expired]_vars

(* What a set of another key costs its entry had not been read or inserted  *)
(* since any entry that stays was.                                          *)
EvictsLeastRecent ==
  [][\A j \in Keys :
       Has(j) /\ ~Has(j)' /\ answer'.key # j /\ adapter = "memory" =>
         \A i \in Keys \ {j} : Has(i) => i \in since[j]]_vars

(* Both adapters implement what callers rely on. *)
Promised == INSTANCE CacheContract WITH
  content <- [k \in Keys |-> entries[k].value]

RefinesCacheContract == Promised!Contract
=============================================================================
