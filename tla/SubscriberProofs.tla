-------------------------- MODULE SubscriberProofs --------------------------
(***************************************************************************)
(* Theorems about the worker's consumers, for any number of loops and of   *)
(* channels and for every set of faults.                                    *)
(***************************************************************************)
EXTENDS Subscriber, TLAPS

-----------------------------------------------------------------------------
(* The inductive invariant. *)

Working == {l \in Loops : at[l] # "off"}

(* The consumers that a's answered consumes have brought. *)
Have(a) == [q \in Queues |->
             IF q < nth[a] \/ (q = nth[a] /\ resumed = a) THEN 1 ELSE 0]

(* A channel that is closed has no consumers; a process that is dead, none. *)
LinkInv ==
  /\ at["boot"] \in Calls \cup {"up", "dead"}
  /\ ~open => consumers = NoConsumers /\ latest < MaxChannels
  /\ ~Alive => ~open /\ resumed = Nobody
  /\ resumed # Nobody => at[resumed] \in Calls

(* At most one loop runs, and reconnecting says whether one does. *)
OneLoop ==
  /\ \A l \in Loops : at[l] \in {"off", "sleep", "create", "consume"}
  /\ \A k, l \in Working : k = l
  /\ Alive => (reconnecting <=> Working # {})

(* The start-up has the channel for itself; when that closes under it, the  *)
(* start-up has been answered in the same turn and a loop waits.            *)
BootInv ==
  at["boot"] \in Calls =>
    /\ resumed # "boot" => open
    /\ open => Working = {}
    /\ at["boot"] # "consume" => /\ channel = None /\ heard = {} /\ nth["boot"] = 1
                                 /\ consumers = NoConsumers /\ Working = {}
    /\ at["boot"] = "create" => subscriptions = 1
    /\ at["boot"] = "consume" =>
         /\ subscriptions = nth["boot"] /\ latest \in heard
         /\ open => channel = latest /\ consumers = Have("boot")
         /\ ~open => Working # {} /\ \A l \in Working : at[l] = "sleep"

(* A loop that has been answered may find its channel closed, no other. *)
LoopInv ==
  \A l \in Working :
    /\ at[l] = "sleep" => consumers = NoConsumers
    /\ at[l] = "create" => consumers = NoConsumers /\ nth[l] = 1 /\ (resumed # l => open)
    /\ at[l] = "consume" =>
         /\ latest \in heard /\ channel = latest /\ (resumed # l => open)
         /\ open => consumers = Have(l)
         /\ ~open /\ nth[l] = 2 => missed

UpInv ==
  at["boot"] = "up" =>
    /\ subscriptions = 2
    /\ LoopInv
    /\ Working = {} => \/ missed /\ consumers = NoConsumers
                       \/ open /\ latest \in heard /\ \A q \in Queues : consumers[q] = 1

SInv == TypeOK /\ LinkInv /\ OneLoop /\ BootInv /\ UpInv

-----------------------------------------------------------------------------
(* Types. *)
Stages == Calls \cup {"off", "sleep", "up", "dead"}

LEMMA ActorTyped ==
  /\ Nobody \notin Actors /\ Loops \subseteq Actors /\ "boot" \in Actors
  /\ "boot" \notin Loops /\ Nobody # "boot"
BY SubscriberAssumption DEF Actors, Nobody

LEMMA GoTyped ==
  ASSUME TypeOK, NEW a \in Actors, NEW n \in Queues, NEW await \in Stages, Go(a, await, n)
  PROVE  /\ at' \in [Actors -> Stages] /\ nth' \in [Actors -> Queues]
         /\ at'[a] = await /\ nth'[a] = n
         /\ \A b \in Actors \ {a} : at'[b] = at[b] /\ nth'[b] = nth[b]
BY DEF Go, TypeOK, Stages

LEMMA FailedTyped == \A a : Failed(a) \in {"dead", "sleep"}
BY DEF Failed

LEMMA InitSubscriber == Init => SInv
<1> SUFFICES ASSUME Init PROVE SInv
  OBVIOUS
<1> USE SubscriberAssumption, ActorTyped
<1>1. TypeOK
  <2>1. at \in [Actors -> Calls \cup {"off", "sleep", "up", "dead"}]
    BY DEF Init, Begun, Calls
  <2>2. nth \in [Actors -> Queues] /\ consumers \in [Queues -> Nat]
    BY DEF Init, First, Queues, NoConsumers
  <2>3. latest \in 1..MaxChannels /\ channel \in 0..MaxChannels
    BY DEF Init, None
  <2>4. open \in BOOLEAN /\ reconnecting \in BOOLEAN /\ missed \in BOOLEAN
    BY DEF Init
  <2>5. heard \subseteq 1..MaxChannels /\ subscriptions \in 0..2
    BY DEF Init
  <2>6. resumed \in Actors \cup {Nobody}
    BY DEF Init
  <2> QED
    BY <2>1, <2>2, <2>3, <2>4, <2>5, <2>6 DEF TypeOK
<1>2. Working = {}
  BY DEF Init, Begun, Working, Actors
<1> QED
  BY <1>1, <1>2 DEF Init, SInv, LinkInv, OneLoop, BootInv, UpInv, Begun, First, Actors,
     Alive, Calls, Nobody, None

LEMMA AnswerKeeps ==
  ASSUME SInv, NEW a \in Actors, Answer(a)
  PROVE  SInv'
<1> USE ActorTyped DEF SInv
<1>1. /\ resumed = Nobody /\ resumed' = a /\ at[a] \in Calls /\ Alive
      /\ UNCHANGED <<latest, open, channel, heard, subscriptions, reconnecting, at, nth, missed>>
      /\ consumers' = IF at[a] = "consume" THEN [consumers EXCEPT ![nth[a]] = @ + 1]
                                           ELSE consumers
      /\ Working' = Working
  BY DEF Answer, serviceVars, Working
<1>2. TypeOK'
  BY <1>1 DEF TypeOK, Calls
<1>3. ASSUME at[a] = "consume", open, consumers = Have(a)
      PROVE  consumers' = Have(a)'
  <2>1. \A q \in Queues : consumers'[q] = Have(a)'[q]
    BY <1>1, <1>3 DEF Have, TypeOK, Queues
  <2>2. consumers' \in [Queues -> Nat]
    BY <1>2 DEF TypeOK
  <2> QED
    BY <2>1, <2>2 DEF Have, Queues
<1>4. a = "boot" \/ (a \in Working /\ at["boot"] = "up")
  BY <1>1 DEF Actors, Working, BootInv, LinkInv, Calls, Alive
<1>5. open
  BY <1>1, <1>4 DEF BootInv, UpInv, LoopInv, OneLoop, Calls, Working
<1>6. LinkInv' /\ OneLoop'
  BY <1>1, <1>5 DEF LinkInv, OneLoop, Alive, Working
<1>7. BootInv'
  BY <1>1, <1>3, <1>4, <1>5 DEF BootInv, Calls
<1>8. UpInv'
  BY <1>1, <1>3, <1>4, <1>5 DEF UpInv, LoopInv, OneLoop, Calls
<1> QED
  BY <1>2, <1>6, <1>7, <1>8

-----------------------------------------------------------------------------
(* The code behind an await. *)
Resumes(a) == resumed = a /\ resumed' = Nobody /\ UNCHANGED <<linkVars, missed>>

LEMMA ConsumeTyped ==
  ASSUME TypeOK, NEW a \in Actors, NEW n \in Queues, NEW on, Consume(a, n, on)
  PROVE  /\ at' \in [Actors -> Stages] /\ nth' \in [Actors -> Queues]
         /\ on = latest /\ open => at'[a] = "consume" /\ nth'[a] = n
         /\ ~(on = latest /\ open) => at'[a] = Failed(a)
         /\ \A b \in Actors \ {a} : at'[b] = at[b] /\ nth'[b] = nth[b]
<1>1. (IF on = latest /\ open THEN "consume" ELSE Failed(a)) \in Stages
  BY FailedTyped DEF Stages, Calls
<1> QED
  BY <1>1, GoTyped DEF Consume

(* The start-up fails on a closed channel: nothing of the process counts.   *)
LEMMA BootDies ==
  ASSUME SInv, TypeOK', Resumes("boot"), ~open, at'["boot"] = "dead",
         at["boot"] \in Calls, \A l \in Loops : at'[l] = at[l]
  PROVE  SInv'
<1> USE ActorTyped DEF SInv, Resumes, linkVars
<1>1. Working' = Working
  BY DEF Working
<1>2. LinkInv'
  BY DEF LinkInv
<1>3. OneLoop'
  BY <1>1 DEF OneLoop, Alive, Calls
<1>4. BootInv' /\ UpInv'
  BY DEF BootInv, UpInv, Calls
<1> QED
  BY <1>2, <1>3, <1>4

LEMMA DeclaredKeeps ==
  ASSUME SInv, NEW a \in Actors, Resumes(a), Declared(a)
  PROVE  SInv'
<1> USE ActorTyped DEF SInv, Resumes, linkVars
<1>1. a = "boot" /\ at["boot"] = "declare"
  BY DEF Declared, OneLoop, Actors
<1>2. /\ channel = None /\ heard = {} /\ consumers = NoConsumers /\ Working = {}
  BY <1>1 DEF BootInv, Calls
<1>3. /\ Go("boot", IF open THEN "create" ELSE "dead", 1)
      /\ subscriptions' = 1 /\ UNCHANGED <<channel, heard, reconnecting>>
  BY <1>1, <1>2 DEF Declared, EnsureThenConsume, Failed
<1>4. (IF open THEN "create" ELSE "dead") \in Stages /\ 1 \in Queues
  BY DEF Stages, Calls, Queues
<1>5. /\ at' \in [Actors -> Stages] /\ nth' \in [Actors -> Queues]
      /\ at'["boot"] = (IF open THEN "create" ELSE "dead") /\ nth'["boot"] = 1
      /\ \A l \in Loops : at'[l] = at[l]
  BY <1>3, <1>4, GoTyped
<1>6. TypeOK'
  BY <1>3, <1>5 DEF TypeOK, Stages
<1>7. CASE ~open
  BY <1>1, <1>5, <1>6, <1>7, BootDies DEF Calls
<1>8. CASE open
  <2>1. Working' = {}
    BY <1>2, <1>5 DEF Working
  <2>2. LinkInv' /\ OneLoop'
    BY <1>1, <1>2, <1>3, <1>5, <1>8, <2>1 DEF LinkInv, OneLoop, Alive, Calls
  <2>3. BootInv' /\ UpInv'
    BY <1>2, <1>3, <1>5, <1>8, <2>1 DEF BootInv, UpInv, Calls
  <2> QED
    BY <1>6, <2>2, <2>3
<1> QED
  BY <1>7, <1>8

LEMMA SubscribedKeeps ==
  ASSUME SInv, Resumes("boot"), Subscribed
  PROVE  SInv'
<1> USE ActorTyped DEF SInv, Resumes, linkVars
<1>1. /\ at["boot"] = "consume" /\ latest \in heard /\ subscriptions = nth["boot"]
      /\ open => channel = latest /\ consumers = Have("boot") /\ Working = {}
      /\ ~open => Working # {} /\ \A l \in Working : at[l] = "sleep"
      /\ nth["boot"] \in Queues /\ UNCHANGED <<channel, heard, reconnecting>>
  BY DEF Subscribed, BootInv, Calls, TypeOK
<1>2. latest # None
  BY DEF TypeOK, None
<1>3. CASE nth["boot"] = 1
  <2>1. subscriptions' = 2 /\ EnsureThenConsume("boot", 2) /\ 2 \in Queues
    BY <1>3 DEF Subscribed, Queues
  <2>2. CASE open
    <3>1. Consume("boot", 2, channel) /\ channel = latest
      BY <1>1, <1>2, <2>1, <2>2 DEF EnsureThenConsume
    <3>2. /\ at' \in [Actors -> Stages] /\ nth' \in [Actors -> Queues]
          /\ at'["boot"] = "consume" /\ nth'["boot"] = 2
          /\ \A l \in Loops : at'[l] = at[l]
      BY <2>1, <2>2, <3>1, ConsumeTyped
    <3>3. TypeOK'
      BY <1>1, <2>1, <3>2 DEF TypeOK, Stages
    <3>4. Working' = {}
      BY <1>1, <2>2, <3>2 DEF Working
    <3>5. consumers' = Have("boot")'
      BY <1>1, <1>3, <2>2, <3>2 DEF Have, Queues
    <3>6. LinkInv' /\ OneLoop'
      BY <1>1, <2>2, <3>2, <3>4 DEF LinkInv, OneLoop, Alive, Calls
    <3>7. BootInv' /\ UpInv'
      BY <1>1, <2>1, <2>2, <3>1, <3>2, <3>4, <3>5 DEF BootInv, UpInv, Calls
    <3> QED
      BY <3>3, <3>6, <3>7
  <2>3. CASE ~open
    <3>1. Go("boot", "dead", 2)
      BY <2>1, <2>3 DEF EnsureThenConsume, Consume, Failed
    <3>2. /\ at' \in [Actors -> Stages] /\ nth' \in [Actors -> Queues]
          /\ at'["boot"] = "dead" /\ \A l \in Loops : at'[l] = at[l]
      BY <2>1, <3>1, GoTyped DEF Stages
    <3>3. TypeOK'
      BY <1>1, <2>1, <3>2 DEF TypeOK, Stages
    <3> QED
      BY <1>1, <2>3, <3>2, <3>3, BootDies DEF Calls
  <2> QED
    BY <2>2, <2>3
<1>4. CASE nth["boot"] = 2
  <2>1. UNCHANGED subscriptions /\ Go("boot", "up", 2) /\ 2 \in Queues
    BY <1>4 DEF Subscribed, Queues
  <2>2. /\ at' \in [Actors -> Stages] /\ nth' \in [Actors -> Queues]
        /\ at'["boot"] = "up" /\ \A l \in Loops : at'[l] = at[l]
    BY <2>1, GoTyped DEF Stages
  <2>3. TypeOK'
    BY <1>1, <2>1, <2>2 DEF TypeOK, Stages
  <2>4. Working' = Working
    BY <2>2 DEF Working
  <2>5. LinkInv' /\ OneLoop'
    BY <1>1, <2>2, <2>4 DEF LinkInv, OneLoop, Alive, Calls
  <2>6. open => \A q \in Queues : consumers[q] = 1
    BY <1>1, <1>4 DEF Have, Queues
  <2>7. Working # {} => consumers = NoConsumers
    BY <1>1 DEF LinkInv
  <2>8. LoopInv'
    BY <1>1, <2>2, <2>4, <2>7 DEF LoopInv, Working
  <2>9. BootInv' /\ UpInv'
    BY <1>1, <1>4, <2>1, <2>2, <2>4, <2>6, <2>8 DEF BootInv, UpInv, Calls
  <2> QED
    BY <2>3, <2>5, <2>9
<1> QED
  BY <1>1, <1>3, <1>4 DEF Queues

(* A loop goes on only when the start-up is over, and alone. *)
LEMMA LoopAlone ==
  ASSUME SInv, NEW l \in Loops, resumed = Nobody \/ resumed = l, at[l] # "off", Alive
  PROVE  /\ at["boot"] = "up" /\ Working = {l} /\ reconnecting = TRUE /\ subscriptions = 2
         /\ at[l] \in {"sleep", "create", "consume"}
<1> USE ActorTyped DEF SInv
<1>1. l \in Working
  BY DEF Working
<1>2. at["boot"] \notin Calls
  BY <1>1 DEF BootInv
<1>3. at["boot"] = "up"
  BY <1>2 DEF LinkInv, Alive
<1>4. Working = {l}
  BY <1>1 DEF OneLoop, Working
<1> QED
  BY <1>1, <1>3, <1>4 DEF OneLoop, UpInv, TypeOK

LEMMA LoopMoves ==
  ASSUME SInv, TypeOK', NEW l \in Loops, Resumes(l), at[l] # "off",
         \A b \in Actors \ {l} : at'[b] = at[b],
         at'[l] \in {"sleep", "consume", "off"},
         reconnecting' = (at'[l] # "off"), UNCHANGED subscriptions,
         at'[l] = "sleep" => ~open,
         at'[l] = "consume" =>
           open /\ latest \in heard' /\ channel' = latest /\ consumers = Have(l)',
         at'[l] = "off" =>
           \/ missed /\ consumers = NoConsumers
           \/ open /\ latest \in heard' /\ \A q \in Queues : consumers[q] = 1
  PROVE  SInv'
<1> USE ActorTyped DEF SInv, Resumes, linkVars
<1>1. /\ Alive /\ at["boot"] = "up" /\ at'["boot"] = "up" /\ Working = {l} /\ subscriptions = 2
  BY LoopAlone DEF LinkInv
<1>2. Working' = IF at'[l] = "off" THEN {} ELSE {l}
  BY <1>1 DEF Working, Actors
<1>3. LinkInv'
  BY <1>1 DEF LinkInv, Alive
<1>4. OneLoop'
  <2>1. \A k \in Loops : at'[k] \in {"off", "sleep", "create", "consume"}
    BY DEF OneLoop, Actors
  <2> QED
    BY <1>1, <1>2, <2>1 DEF OneLoop, Alive
<1>5. LoopInv'
  BY <1>1, <1>2 DEF LoopInv, LinkInv
<1>6. BootInv' /\ UpInv'
  BY <1>1, <1>2, <1>5 DEF BootInv, UpInv, Calls
<1> QED
  BY <1>3, <1>4, <1>6

LEMMA CreatedKeeps ==
  ASSUME SInv, NEW a \in Actors, Resumes(a), Created(a)
  PROVE  SInv'
<1> USE ActorTyped DEF SInv, Resumes, linkVars
<1>1. /\ at[a] = "create" /\ nth[a] \in Queues
      /\ channel' = latest /\ heard' = heard \cup {latest}
      /\ Consume(a, nth[a], latest) /\ UNCHANGED <<subscriptions, reconnecting>>
  BY DEF Created, TypeOK
<1>2. /\ at' \in [Actors -> Stages] /\ nth' \in [Actors -> Queues]
      /\ open => at'[a] = "consume" /\ nth'[a] = nth[a]
      /\ ~open => at'[a] = Failed(a)
      /\ \A b \in Actors \ {a} : at'[b] = at[b] /\ nth'[b] = nth[b]
  BY <1>1, ConsumeTyped
<1>3. TypeOK'
  BY <1>1, <1>2 DEF TypeOK, Stages
<1>4. nth[a] = 1 /\ consumers = NoConsumers /\ open => consumers = Have(a)'
  BY <1>1, <1>2 DEF Have, NoConsumers, Queues
<1>5. CASE a = "boot"
  <2>1. nth[a] = 1 /\ consumers = NoConsumers /\ Working = {} /\ subscriptions = 1
    BY <1>1, <1>5 DEF BootInv, Calls
  <2>2. CASE ~open
    BY <1>1, <1>2, <1>3, <1>5, <2>2, BootDies DEF Calls, Failed
  <2>3. CASE open
    <3>1. Working' = {}
      BY <1>2, <1>5, <2>1 DEF Working
    <3>2. LinkInv' /\ OneLoop'
      BY <1>1, <1>2, <1>5, <2>1, <2>3, <3>1 DEF LinkInv, OneLoop, Alive, Calls
    <3>3. BootInv' /\ UpInv'
      BY <1>1, <1>2, <1>4, <1>5, <2>1, <2>3, <3>1 DEF BootInv, UpInv, Calls
    <3> QED
      BY <1>3, <3>2, <3>3
  <2> QED
    BY <2>2, <2>3
<1>6. CASE a \in Loops
  <2>1. Alive
    BY DEF LinkInv
  <2>2. reconnecting = TRUE /\ at["boot"] = "up" /\ a \in Working
    BY <1>1, <1>6, <2>1, LoopAlone
  <2>3. nth[a] = 1 /\ consumers = NoConsumers
    BY <1>1, <2>2 DEF UpInv, LoopInv
  <2>4. at'[a] = (IF open THEN "consume" ELSE "sleep")
    BY <1>2, <1>6 DEF Failed
  <2> QED
    BY <1>1, <1>2, <1>3, <1>4, <1>6, <2>2, <2>3, <2>4, LoopMoves
<1> QED
  BY <1>5, <1>6 DEF Actors

LEMMA ResubscribedKeeps ==
  ASSUME SInv, NEW l \in Loops, Resumes(l), Resubscribed(l)
  PROVE  SInv'
<1> USE ActorTyped DEF SInv, Resumes, linkVars
<1>1. Alive /\ at[l] = "consume" /\ nth[l] \in Queues
  BY DEF LinkInv, Resubscribed, TypeOK
<1>2. at["boot"] = "up" /\ l \in Working /\ reconnecting = TRUE /\ subscriptions = 2
  BY <1>1, LoopAlone
<1>3. /\ latest \in heard /\ channel = latest /\ UNCHANGED <<channel, heard, subscriptions>>
      /\ open => consumers = Have(l)
      /\ ~open /\ nth[l] = 2 => missed
  BY <1>1, <1>2 DEF UpInv, LoopInv, Resubscribed
<1>4. CASE nth[l] = 1
  <2>1. Consume(l, 2, channel) /\ UNCHANGED reconnecting /\ 2 \in Queues
    BY <1>2, <1>4 DEF Resubscribed, Queues
  <2>2. /\ at' \in [Actors -> Stages] /\ nth' \in [Actors -> Queues]
        /\ at'[l] = (IF open THEN "consume" ELSE "sleep") /\ (open => nth'[l] = 2)
        /\ \A b \in Actors \ {l} : at'[b] = at[b]
    BY <1>3, <2>1, ConsumeTyped DEF Failed
  <2>3. TypeOK'
    BY <1>3, <2>1, <2>2 DEF TypeOK, Stages
  <2>4. open => consumers = Have(l)'
    BY <1>3, <1>4, <2>2 DEF Have, Queues
  <2> QED
    BY <1>1, <1>2, <1>3, <2>1, <2>2, <2>3, <2>4, LoopMoves
<1>5. CASE nth[l] = 2
  <2>1. Go(l, "off", 1) /\ reconnecting' = FALSE /\ 1 \in Queues
    BY <1>2, <1>5 DEF Resubscribed, Queues
  <2>2. /\ at' \in [Actors -> Stages] /\ nth' \in [Actors -> Queues] /\ at'[l] = "off"
        /\ \A b \in Actors \ {l} : at'[b] = at[b]
    BY <2>1, GoTyped DEF Stages
  <2>3. TypeOK'
    BY <1>3, <2>1, <2>2 DEF TypeOK, Stages
  <2>4. open => \A q \in Queues : consumers[q] = 1
    BY <1>3, <1>5 DEF Have, Queues
  <2>5. ~open => missed /\ consumers = NoConsumers
    BY <1>3, <1>5 DEF LinkInv
  <2> QED
    BY <1>1, <1>3, <2>1, <2>2, <2>3, <2>4, <2>5, LoopMoves
<1> QED
  BY <1>1, <1>4, <1>5 DEF Queues

LEMMA ContinueKeeps ==
  ASSUME SInv, NEW a \in Actors, Continue(a)
  PROVE  SInv'
<1>1. Resumes(a)
  BY DEF Continue, Resumes
<1> QED
  BY <1>1, DeclaredKeeps, CreatedKeeps, SubscribedKeeps, ResubscribedKeeps DEF Continue

-----------------------------------------------------------------------------
(* Events. *)
LEMMA NoChannel == None \in 0..MaxChannels
BY SubscriberAssumption DEF None

LEMMA WakeKeeps ==
  ASSUME SInv, NEW l \in Loops, Wake(l)
  PROVE  SInv'
<1> USE ActorTyped DEF SInv
<1>1. /\ resumed = Nobody /\ resumed' = Nobody /\ Alive /\ at[l] = "sleep" /\ channel' = None
      /\ Go(l, IF open THEN "create" ELSE "sleep", 1)
      /\ UNCHANGED <<latest, open, consumers, heard, subscriptions, reconnecting, missed>>
  BY DEF Wake, linkVars
<1>2. (IF open THEN "create" ELSE "sleep") \in Stages /\ 1 \in Queues
  BY DEF Stages, Calls, Queues
<1>3. /\ at' \in [Actors -> Stages] /\ nth' \in [Actors -> Queues]
      /\ at'[l] = (IF open THEN "create" ELSE "sleep") /\ nth'[l] = 1
      /\ \A b \in Actors \ {l} : at'[b] = at[b]
  BY <1>1, <1>2, GoTyped
<1>4. /\ at["boot"] = "up" /\ at'["boot"] = "up" /\ Working = {l} /\ Working' = {l}
      /\ reconnecting = TRUE /\ subscriptions = 2
  BY <1>1, <1>3, LoopAlone DEF Working
<1>5. TypeOK'
  BY <1>1, <1>3, NoChannel DEF TypeOK, Stages
<1>6. consumers = NoConsumers
  BY <1>1, <1>4 DEF UpInv, LoopInv
<1>7. LinkInv' /\ OneLoop'
  <2>1. \A k \in Loops : at'[k] \in {"off", "sleep", "create", "consume"}
    BY <1>3 DEF OneLoop
  <2> QED
    BY <1>1, <1>4, <2>1 DEF LinkInv, OneLoop, Alive
<1>8. LoopInv'
  BY <1>1, <1>3, <1>4, <1>6 DEF LoopInv
<1>9. BootInv' /\ UpInv'
  BY <1>1, <1>4, <1>8 DEF BootInv, UpInv, Calls
<1> QED
  BY <1>5, <1>7, <1>9

(* The listeners start a loop when none runs, and one.                     *)
LEMMA StartsOne ==
  ASSUME SInv, Alive, NEW events
  PROVE  /\ reconnecting => ScheduleReconnect(events) = {}
         /\ ~reconnecting => \E l \in Loops : ScheduleReconnect(events) = {l}
         /\ ScheduleReconnect(events) \subseteq {l \in Loops : at[l] = "off"}
<1>1. ~reconnecting => Idle = Loops
  BY DEF SInv, OneLoop, Working, Idle
<1>2. Idle \subseteq Loops
  BY DEF Idle
<1> QED
  BY <1>1, <1>2, SubscriberAssumption DEF ScheduleReconnect, Idle

LEMMA CloseKeeps ==
  ASSUME SInv, NEW events, Close(events)
  PROVE  SInv'
<1> USE ActorTyped DEF SInv
<1> DEFINE started == IF latest \in heard THEN ScheduleReconnect(events) ELSE {}
<1>1. /\ open /\ Alive /\ latest < MaxChannels
      /\ open' = FALSE /\ consumers' = NoConsumers
      /\ channel' = IF started # {} THEN None ELSE channel
      /\ reconnecting' = (reconnecting \/ started # {})
      /\ missed' = (missed \/ /\ resumed \in Loops /\ at[resumed] = "consume"
                              /\ nth[resumed] = subscriptions)
      /\ UNCHANGED <<latest, heard, subscriptions, nth, resumed>>
  BY DEF Close
<1>2. /\ at' \in [Actors -> Stages]
      /\ \A a \in Actors :
           at'[a] = IF a \in started THEN "sleep"
                    ELSE IF at[a] \in Calls /\ a # resumed THEN Failed(a) ELSE at[a]
  <2>1. at' = [a \in Actors |->
                 CASE a \in started                  -> "sleep"
                   [] at[a] \in Calls /\ a # resumed -> Failed(a)
                   [] OTHER                          -> at[a]]
    BY DEF Close
  <2>2. started \subseteq Loops /\ \A a \in started : at[a] = "off"
    BY <1>1, StartsOne
  <2> HIDE DEF started
  <2>3. ASSUME NEW a \in Actors
        PROVE  at'[a] = IF a \in started THEN "sleep"
                        ELSE IF at[a] \in Calls /\ a # resumed THEN Failed(a) ELSE at[a]
    <3>1. CASE a \in started
      BY <2>1, <2>2, <3>1 DEF Calls
    <3>2. CASE a \notin started /\ at[a] \in Calls /\ a # resumed
      BY <2>1, <3>2
    <3>3. CASE a \notin started /\ ~(at[a] \in Calls /\ a # resumed)
      BY <2>1, <3>3
    <3> QED
      BY <3>1, <3>2, <3>3
  <2>4. DOMAIN at' = Actors /\ at' = [a \in Actors |-> at'[a]]
    BY <2>1
  <2> QED
    BY <2>3, <2>4, FailedTyped DEF TypeOK, Stages
<1>3. /\ started \subseteq {l \in Loops : at[l] = "off"}
      /\ reconnecting => started = {}
      /\ ~reconnecting /\ latest \in heard => \E l \in Loops : started = {l}
      /\ latest \notin heard => started = {}
  BY <1>1, StartsOne
<1> HIDE DEF started
<1>4. TypeOK'
  <2>1. /\ open' \in BOOLEAN /\ reconnecting' \in BOOLEAN /\ missed' \in BOOLEAN
        /\ consumers' \in [Queues -> Nat]
    BY <1>1 DEF TypeOK, NoConsumers
  <2>2. channel' \in 0..MaxChannels
    BY <1>1, NoChannel DEF TypeOK
  <2> QED
    BY <1>1, <1>2, <2>1, <2>2 DEF TypeOK, Stages
<1>5. /\ \A l \in Loops : at'[l] # "off" <=> l \in started \/ at[l] # "off"
      /\ \A l \in Loops : at'[l] \in {"off", "sleep", "create", "consume"}
      /\ \A l \in Loops : at'[l] \notin {"off", "sleep"} => resumed = l /\ at'[l] = at[l]
  BY <1>1, <1>2, <1>3 DEF Failed, Calls, OneLoop
<1>6. /\ Working' = Working \cup started
      /\ Working = {} \/ started = {}
      /\ \A k, l \in Working' : k = l
      /\ reconnecting' <=> Working' # {}
  <2>1. Working' = Working \cup started
    BY <1>3, <1>5 DEF Working
  <2>2. reconnecting <=> Working # {}
    BY <1>1 DEF OneLoop
  <2>3. Working = {} \/ started = {}
    BY <1>3, <2>2
  <2>4. \A k, l \in started : k = l
    BY <1>3
  <2> QED
    BY <1>1, <2>1, <2>2, <2>3, <2>4 DEF OneLoop
<1>7. at'["boot"] = IF at["boot"] \in Calls /\ resumed # "boot" THEN "dead" ELSE at["boot"]
  BY <1>2, <1>3 DEF Failed
<1>8. LinkInv'
  <2>1. at["boot"] \in Calls /\ resumed # "boot" => resumed = Nobody
    BY <1>1 DEF BootInv, LinkInv, Working, Calls, TypeOK, Actors
  <2>2. resumed # Nobody => at'[resumed] \in Calls
    BY <1>2, <1>3 DEF LinkInv, TypeOK, Calls
  <2> QED
    BY <1>1, <1>7, <2>1, <2>2 DEF LinkInv, Alive
<1>9. OneLoop'
  BY <1>5, <1>6 DEF OneLoop
<1>10. BootInv'
  <2> SUFFICES ASSUME at'["boot"] \in Calls
               PROVE  BootInv'
    BY DEF BootInv
  <2>1. at["boot"] \in Calls /\ resumed = "boot" /\ at'["boot"] = at["boot"] /\ Working = {}
    BY <1>1, <1>7 DEF Calls, BootInv
  <2>2. ~reconnecting
    BY <1>1, <2>1 DEF OneLoop
  <2>3. CASE at["boot"] # "consume"
    <3>1. started = {}
      BY <1>3, <2>1, <2>3 DEF BootInv
    <3> QED
      BY <1>1, <1>6, <2>1, <2>3, <3>1 DEF BootInv
  <2>4. CASE at["boot"] = "consume"
    <3>1. started # {} /\ latest \in heard
      BY <1>3, <2>1, <2>2, <2>4 DEF BootInv
    <3>2. \A l \in Working' : at'[l] = "sleep"
      BY <1>2, <1>3, <1>6, <2>1
    <3> QED
      BY <1>1, <1>6, <2>1, <2>4, <3>1, <3>2 DEF BootInv
  <2> QED
    BY <2>3, <2>4
<1>11. UpInv'
  <2> SUFFICES ASSUME at'["boot"] = "up"
               PROVE  UpInv'
    BY DEF UpInv
  <2>1. at["boot"] = "up" /\ subscriptions = 2
    BY <1>7 DEF UpInv
  <2>2. LoopInv'
    <3> SUFFICES ASSUME NEW l \in Working', at'[l] \in {"create", "consume"}
                 PROVE  /\ at'[l] = "create" => nth[l] = 1 /\ resumed = l
                        /\ at'[l] = "consume" => /\ latest \in heard /\ channel' = latest
                                                 /\ resumed = l /\ (nth[l] = 2 => missed')
      BY <1>1, <1>5 DEF LoopInv, Working
    <3>1. l \in Loops /\ resumed = l /\ at'[l] = at[l] /\ l \in Working
      BY <1>5 DEF Working
    <3>2. started = {}
      BY <1>6, <3>1
    <3> QED
      BY <1>1, <2>1, <3>1, <3>2 DEF UpInv, LoopInv
  <2>3. Working' = {} => missed'
    BY <1>1, <1>3, <1>6, <2>1 DEF UpInv, OneLoop
  <2> QED
    BY <1>1, <2>1, <2>2, <2>3 DEF UpInv
<1> QED
  BY <1>4, <1>8, <1>9, <1>10, <1>11

LEMMA NewChannelKeeps ==
  ASSUME SInv, NewChannel
  PROVE  SInv'
<1> USE ActorTyped DEF SInv
<1>1. /\ resumed = Nobody /\ Alive /\ ~open /\ latest' = latest + 1 /\ open' = TRUE
      /\ UNCHANGED <<consumers, channel, heard, subscriptions, reconnecting, at, nth,
                     resumed, missed>>
      /\ Working' = Working
  BY DEF NewChannel, serviceVars, Working
<1>2. TypeOK'
  <2>1. latest' \in 1..MaxChannels
    BY <1>1, SubscriberAssumption DEF TypeOK, LinkInv
  <2> QED
    BY <1>1, <2>1 DEF TypeOK
<1>3. at["boot"] = "up" /\ consumers = NoConsumers
  BY <1>1 DEF BootInv, LinkInv, Alive
<1>4. \A l \in Working : at[l] = "sleep"
  BY <1>1, <1>3 DEF UpInv, LoopInv, OneLoop, Working
<1>5. LinkInv' /\ OneLoop'
  BY <1>1 DEF LinkInv, OneLoop, Alive
<1>6. BootInv' /\ UpInv'
  BY <1>1, <1>3, <1>4 DEF BootInv, UpInv, LoopInv, Calls
<1> QED
  BY <1>2, <1>5, <1>6

LEMMA CrashKeeps ==
  ASSUME SInv, Crash
  PROVE  SInv'
<1> USE ActorTyped DEF SInv
<1>1. /\ resumed = Nobody /\ latest < MaxChannels /\ open' = FALSE /\ consumers' = NoConsumers
      /\ at' = [at EXCEPT !["boot"] = "dead"]
      /\ UNCHANGED <<latest, channel, heard, subscriptions, reconnecting, nth, resumed, missed>>
  BY DEF Crash, serviceVars
<1>2. at'["boot"] = "dead" /\ \A l \in Loops : at'[l] = at[l]
  BY <1>1 DEF TypeOK
<1>3. TypeOK'
  BY <1>1 DEF TypeOK, NoConsumers
<1>4. LinkInv' /\ OneLoop'
  BY <1>1, <1>2 DEF LinkInv, OneLoop, Alive, Working
<1>5. BootInv' /\ UpInv'
  BY <1>2 DEF BootInv, UpInv, Calls
<1> QED
  BY <1>3, <1>4, <1>5

LEMMA RestartKeeps ==
  ASSUME SInv, Restart
  PROVE  SInv'
<1> USE ActorTyped DEF SInv
<1>1. /\ ~Alive /\ resumed' = Nobody /\ missed' = FALSE
      /\ latest' = latest + 1 /\ open' = TRUE /\ UNCHANGED consumers
      /\ channel' = None /\ heard' = {} /\ subscriptions' = 0 /\ reconnecting' = FALSE
      /\ at' = Begun /\ nth' = First
  BY DEF Restart
<1>2. /\ at' \in [Actors -> Stages] /\ nth' \in [Actors -> Queues]
      /\ at'["boot"] = "declare" /\ nth'["boot"] = 1 /\ \A l \in Loops : at'[l] = "off"
  BY <1>1 DEF Begun, First, Stages, Calls, Queues
<1>3. consumers = NoConsumers /\ latest < MaxChannels
  BY <1>1 DEF LinkInv
<1>4. TypeOK'
  <2>1. latest' \in 1..MaxChannels
    BY <1>1, <1>3, SubscriberAssumption DEF TypeOK
  <2>2. open' \in BOOLEAN /\ reconnecting' \in BOOLEAN /\ missed' \in BOOLEAN
    BY <1>1
  <2> QED
    BY <1>1, <1>2, <2>1, <2>2, NoChannel DEF TypeOK, Stages
<1>5. Working' = {}
  BY <1>2 DEF Working
<1>6. LinkInv' /\ OneLoop'
  BY <1>1, <1>2, <1>3, <1>5 DEF LinkInv, OneLoop, Alive, Calls
<1>7. BootInv' /\ UpInv'
  BY <1>1, <1>2, <1>3, <1>5 DEF BootInv, UpInv, Calls
<1> QED
  BY <1>4, <1>6, <1>7

LEMMA SubscriberKept ==
  ASSUME SInv, [Next]_vars
  PROVE  SInv'
<1>1. CASE UNCHANGED vars
  BY <1>1 DEF vars, SInv, TypeOK, LinkInv, OneLoop, BootInv, UpInv, LoopInv, Working, Have,
     Alive
<1>2. ASSUME NEW a \in Actors, Answer(a) \/ Continue(a) PROVE SInv'
  BY <1>2, AnswerKeeps, ContinueKeeps
<1>3. ASSUME NEW l \in Loops, Wake(l) PROVE SInv'
  BY <1>3, WakeKeeps
<1>4. CASE ChannelClose
  BY <1>4, CloseKeeps DEF ChannelClose
<1> QED
  BY <1>1, <1>2, <1>3, <1>4, NewChannelKeeps, CrashKeeps, RestartKeeps DEF Next

LEMMA SubscriberInvariant == Spec => []SInv
BY InitSubscriber, SubscriberKept, PTL DEF Spec

-----------------------------------------------------------------------------
(* Every state is well typed; in particular there are never more than two   *)
(* subscriptions to redo, whatever fails and restarts.                      *)
THEOREM SubscriberTyping == Spec => []TypeOK
<1>1. SInv => TypeOK
  BY DEF SInv
<1> QED
  BY <1>1, SubscriberInvariant, PTL

(* Whatever closes, fails or crashes when: no queue ever has two consumers  *)
(* on the channel, of two loops or of a loop and the start-up.              *)
THEOREM NeverTwoConsumers == Spec => []OneConsumer
<1>1. SInv => OneConsumer
  <2> SUFFICES ASSUME SInv, NEW q \in Queues PROVE consumers[q] <= 1
    BY DEF OneConsumer
  <2>1. \A a : Have(a)[q] <= 1 /\ NoConsumers[q] <= 1
    BY DEF Have, NoConsumers
  <2>2. CASE at["boot"] \in Calls
    BY <2>1, <2>2 DEF SInv, BootInv, LinkInv
  <2>3. CASE at["boot"] = "up" /\ Working = {}
    BY <2>1, <2>3 DEF SInv, UpInv
  <2>4. CASE at["boot"] = "up" /\ Working # {}
    BY <2>1, <2>4 DEF SInv, UpInv, LoopInv, LinkInv, OneLoop, Working
  <2>5. CASE at["boot"] = "dead"
    BY <2>1, <2>5 DEF SInv, LinkInv, Alive
  <2> QED
    BY <2>2, <2>3, <2>4, <2>5 DEF SInv, LinkInv
<1> QED
  BY <1>1, SubscriberInvariant, PTL

(* When nobody is at work the worker consumes both queues and will hear of  *)
(* the end of the channel, but for the one close that comes together with   *)
(* the answer to the last consume of a loop.                                *)
THEOREM EveryCloseIsHeard == Spec => []NoCloseOverlooked
<1>1. SInv => NoCloseOverlooked
  BY DEF SInv, NoCloseOverlooked, Subscribing, UpInv, Working
<1> QED
  BY <1>1, SubscriberInvariant, PTL
=============================================================================
