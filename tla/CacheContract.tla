--------------------------- MODULE CacheContract ---------------------------
(***************************************************************************)
(* What callers of CacheService can rely on, whichever adapter is bound to *)
(* CACHE_SERVICE.  A key has at most one value, that of the last set that  *)
(* answered true; the conditional sets decide and write in one step; a     *)
(* value can be forgotten at any time (its TTL, eviction, a restart), but  *)
(* an older one never comes back.                                          *)
(***************************************************************************)
CONSTANTS Keys, Values

VARIABLES
  content,  \* content[k]: the value of k, or Nothing
  answer    \* the last call: its name, its key, what it answered

vars == <<content, answer>>

Nothing == "nothing"

Empty ==
  /\ content = [k \in Keys |-> Nothing]
  /\ answer = [call |-> "none", key |-> Nothing, out |-> Nothing]

Answer(call, k, out) == answer' = [call |-> call, key |-> k, out |-> out]

Forgotten(k) == content' = [content EXCEPT ![k] = Nothing]

Get(k) ==
  \/ Answer("get", k, content[k]) /\ UNCHANGED content
  \/ Answer("get", k, Nothing) /\ Forgotten(k)

(* Storing one value may cost others theirs. *)
Store(k, v) ==
  /\ content' \in [Keys -> Values \cup {Nothing}]
  /\ content'[k] = v
  /\ \A j \in Keys \ {k} : content'[j] \in {content[j], Nothing}

Set(k, v) == Answer("always", k, "true") /\ Store(k, v)

SetIf(mode, k, v, holds) ==
  \/ holds /\ Answer(mode, k, "true") /\ Store(k, v)
  \/ ~holds /\ Answer(mode, k, "false") /\ UNCHANGED content

Del(k) == Answer("del", k, Nothing) /\ Forgotten(k)

Forget ==
  /\ content' \in [Keys -> Values \cup {Nothing}]
  /\ \A k \in Keys : content'[k] \in {content[k], Nothing}
  /\ UNCHANGED answer

Step ==
  \/ Forget
  \/ \E k \in Keys :
       \/ Get(k) \/ Del(k)
       \/ \E v \in Values :
            \/ Set(k, v)
            \/ SetIf("ifNotExists", k, v, content[k] = Nothing)
            \/ SetIf("ifExists", k, v, content[k] # Nothing)

Contract == Empty /\ [][Step]_vars
=============================================================================
