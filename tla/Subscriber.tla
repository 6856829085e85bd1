----------------------------- MODULE Subscriber -----------------------------
(***************************************************************************)
(* How the worker gets its consumers and gets them back: the start-up      *)
(* (topology declared by RabbitMqFeatureModule, two subscribe calls of     *)
(* TasksWorkerModule.onModuleInit) and RabbitMqSubscriberService's         *)
(* scheduleReconnect loop.                                                 *)
(*                                                                         *)
(* connection.channel is the library's: after a close it is the closed     *)
(* channel until a reconnect puts a new one in its place.  Channels are    *)
(* numbered.  A step is one turn of the event loop: an event and every     *)
(* continuation that it lets run.  When a close is read from the socket    *)
(* together with the answer to a call, the close handlers run first and    *)
(* the code behind the await runs on the channel that is closed by then.   *)
(***************************************************************************)
EXTENDS Naturals

CONSTANTS
  Loops,        \* runs of scheduleReconnect there is room for
  MaxChannels,  \* bound on the channels the connection opens
  Faults        \* what goes wrong, out of FaultKinds

FaultKinds ==
  { "close",  \* the channel closes
    "error",  \* the broker closes it for an error: 'error', then 'close'
    "batch",  \* the close arrives together with the answer to a call
    "crash" } \* the process ends

ASSUME SubscriberAssumption ==
  /\ Loops # {} /\ "boot" \notin Loops /\ "nobody" \notin Loops
  /\ MaxChannels \in Nat \ {0}
  /\ Faults \subseteq FaultKinds

VARIABLES
  latest,         \* number of the channel that connection.channel is
  open,           \* it is open
  consumers,      \* consumers[q]: consumers of queue q on it
  channel,        \* the field channel of the service, None for null
  heard,          \* the channels whose close and error are listened to
  subscriptions,  \* how many entries the array has
  reconnecting,   \* the field reconnecting
  at,             \* at[a]: the await at which the start-up or a loop stands
  nth,            \* nth[a]: the subscription it is working on
  resumed,        \* whose await has been answered in this turn
  missed          \* history: a close came as a loop was done but not over

linkVars    == <<latest, open, consumers>>
serviceVars == <<channel, heard, subscriptions, reconnecting>>
vars        == <<latest, open, consumers, channel, heard, subscriptions,
                 reconnecting, at, nth, resumed, missed>>

None   == 0
Nobody == "nobody"
Queues == {1, 2}  \* main and dead-letter, in the order of onModuleInit
Actors == Loops \cup {"boot"}

Calls == {"declare", "create", "consume"}  \* awaits of answers of the broker

TypeOK ==
  /\ latest \in 1..MaxChannels /\ open \in BOOLEAN
  /\ consumers \in [Queues -> Nat]
  /\ channel \in 0..MaxChannels /\ heard \subseteq 1..MaxChannels
  /\ subscriptions \in 0..2 /\ reconnecting \in BOOLEAN
  /\ at \in [Actors -> Calls \cup {"off", "sleep", "up", "dead"}]
  /\ nth \in [Actors -> Queues]
  /\ resumed \in Actors \cup {Nobody} /\ missed \in BOOLEAN

NoConsumers == [q \in Queues |-> 0]

(* The worker process begins: the channel exists (connectionInitOptions    *)
(* waits for it) and the module's provider declares the topology on it.    *)
Begun == [a \in Actors |-> IF a = "boot" THEN "declare" ELSE "off"]
First == [a \in Actors |-> 1]

Init ==
  /\ latest = 1 /\ open = TRUE /\ consumers = NoConsumers
  /\ channel = None /\ heard = {}
  /\ subscriptions = 0 /\ reconnecting = FALSE
  /\ at = Begun /\ nth = First
  /\ resumed = Nobody /\ missed = FALSE

-----------------------------------------------------------------------------
(* What the code behind an await does, up to the next await.               *)

Go(a, await, n) ==
  /\ at' = [at EXCEPT ![a] = await] /\ nth' = [nth EXCEPT ![a] = n]

(* An exception: the loop catches it and sleeps two seconds; at start-up   *)
(* nothing does, and the process ends.                                     *)
Failed(a) == IF a = "boot" THEN "dead" ELSE "sleep"

(* consume(n): on this.channel, which may have closed. *)
Consume(a, n, on) ==
  Go(a, IF on = latest /\ open THEN "consume" ELSE Failed(a), n)

(* ensureChannel and consume: a channel that is there is used as it is. *)
EnsureThenConsume(a, n) ==
  IF channel # None THEN Consume(a, n, channel)
                    ELSE Go(a, IF open THEN "create" ELSE Failed(a), n)

(* The module's topology is declared: subscribe('main'). *)
Declared(a) ==
  /\ at[a] = "declare"
  /\ subscriptions' = 1 /\ EnsureThenConsume(a, 1)
  /\ UNCHANGED <<channel, heard, reconnecting>>

(* Mutant of Created: the listeners are forgotten. *)
CreatedUnheard(a) ==
  /\ at[a] = "create"
  /\ channel' = latest
  /\ Consume(a, nth[a], latest)
  /\ UNCHANGED <<heard, subscriptions, reconnecting>>

(* createChannel has returned: only now is the channel listened to. *)
Created(a) ==
  /\ at[a] = "create"
  /\ channel' = latest /\ heard' = heard \cup {latest}
  /\ Consume(a, nth[a], latest)
  /\ UNCHANGED <<subscriptions, reconnecting>>

(* One subscribe has returned: the next one, or the start-up is over. *)
Subscribed ==
  /\ at["boot"] = "consume"
  /\ IF nth["boot"] = 1
       THEN subscriptions' = 2 /\ EnsureThenConsume("boot", 2)
       ELSE UNCHANGED subscriptions /\ Go("boot", "up", 2)
  /\ UNCHANGED <<channel, heard, reconnecting>>

(* Mutants of Resubscribed: one consume too many; only the first one.      *)
ResubscribedPastEnd(l) ==
  /\ at[l] = "consume"
  /\ IF nth[l] <= subscriptions
       THEN Consume(l, nth[l] + 1, channel) /\ UNCHANGED reconnecting
       ELSE Go(l, "off", 1) /\ reconnecting' = FALSE
  /\ UNCHANGED <<channel, heard, subscriptions>>
ResubscribedOnce(l) ==
  /\ at[l] = "consume"
  /\ Go(l, "off", 1) /\ reconnecting' = FALSE
  /\ UNCHANGED <<channel, heard, subscriptions>>

(* One consume of a loop has returned: the next one, or the loop is over. *)
Resubscribed(l) ==
  /\ at[l] = "consume"
  /\ IF nth[l] < subscriptions
       THEN Consume(l, nth[l] + 1, channel) /\ UNCHANGED reconnecting
       ELSE Go(l, "off", 1) /\ reconnecting' = FALSE
  /\ UNCHANGED <<channel, heard, subscriptions>>

Continue(a) ==
  /\ resumed = a /\ resumed' = Nobody
  /\ \/ Declared(a)
     \/ Created(a)
     \/ a = "boot" /\ Subscribed
     \/ a \in Loops /\ Resubscribed(a)
  /\ UNCHANGED <<linkVars, missed>>

-----------------------------------------------------------------------------
(* Events: each begins a turn, so none comes while an await is resumed.    *)

Alive == at["boot"] # "dead"

(* The broker's answer; a consume that it answers has a consumer. *)
Answer(a) ==
  /\ resumed = Nobody /\ Alive /\ at[a] \in Calls
  /\ resumed' = a
  /\ consumers' = IF at[a] = "consume" THEN [consumers EXCEPT ![nth[a]] = @ + 1]
                                       ELSE consumers
  /\ UNCHANGED <<latest, open, serviceVars, at, nth, missed>>

(* Mutant of Wake: channel keeps the closed one, which ensureChannel uses. *)
WakeWithChannel(l) ==
  /\ resumed = Nobody /\ Alive /\ at[l] = "sleep"
  /\ EnsureThenConsume(l, 1)
  /\ UNCHANGED <<linkVars, serviceVars, resumed, missed>>

(* The two seconds are over: channel = null, ensureChannel. *)
Wake(l) ==
  /\ resumed = Nobody /\ Alive /\ at[l] = "sleep"
  /\ channel' = None
  /\ Go(l, IF open THEN "create" ELSE "sleep", 1)
  /\ UNCHANGED <<linkVars, heard, subscriptions, reconnecting, resumed, missed>>

Idle == {l \in Loops : at[l] = "off"}

(* Mutant of ScheduleReconnect: no look at reconnecting, so that the close  *)
(* after an error starts a loop of its own.                                 *)
ScheduleReconnectTwice(events) ==
  CHOOSE S \in SUBSET Idle : S = Idle \/ \E l \in S : events = 1 /\ S = {l}

(* The loops that the listeners start, each of them called. *)
ScheduleReconnect(events) ==
  IF reconnecting \/ Idle = {} THEN {} ELSE {CHOOSE l \in Idle : TRUE}

(* The channel closes.  A loop starts with the closed channel and fails, so *)
(* it sleeps at once; calls that were not answered are rejected.            *)
Close(events) ==
  LET started == IF latest \in heard THEN ScheduleReconnect(events) ELSE {} IN
  /\ open /\ Alive /\ latest < MaxChannels
  /\ resumed # Nobody => "batch" \in Faults
  /\ open' = FALSE /\ consumers' = NoConsumers
  /\ channel' = IF started # {} THEN None ELSE channel
  /\ reconnecting' = (reconnecting \/ started # {})
  /\ at' = [a \in Actors |->
              CASE a \in started                  -> "sleep"
                [] at[a] \in Calls /\ a # resumed -> Failed(a)
                [] OTHER                          -> at[a]]
  /\ missed' = (missed \/ /\ resumed \in Loops /\ at[resumed] = "consume"
                          /\ nth[resumed] = subscriptions)
  /\ UNCHANGED <<latest, heard, subscriptions, nth, resumed>>

ChannelClose ==
  \/ "close" \in Faults /\ Close(1)
  \/ "error" \in Faults /\ Close(2)

(* The library has reconnected and put a new channel in place. *)
NewChannel ==
  /\ resumed = Nobody /\ Alive /\ ~open
  /\ latest' = latest + 1 /\ open' = TRUE
  /\ UNCHANGED <<consumers, serviceVars, at, nth, resumed, missed>>

Crash ==
  /\ "crash" \in Faults /\ resumed = Nobody /\ Alive /\ latest < MaxChannels
  /\ at' = [at EXCEPT !["boot"] = "dead"]
  /\ open' = FALSE /\ consumers' = NoConsumers
  /\ UNCHANGED <<latest, serviceVars, nth, resumed, missed>>

(* Docker starts the process again, with nothing of the old one left. *)
Restart ==
  /\ ~Alive /\ resumed' = Nobody /\ missed' = FALSE
  /\ latest' = latest + 1 /\ open' = TRUE /\ UNCHANGED consumers
  /\ channel' = None /\ heard' = {}
  /\ subscriptions' = 0 /\ reconnecting' = FALSE
  /\ at' = Begun /\ nth' = First

-----------------------------------------------------------------------------
Next ==
  \/ \E a \in Actors : Answer(a) \/ Continue(a)
  \/ \E l \in Loops : Wake(l)
  \/ ChannelClose \/ NewChannel \/ Crash \/ Restart

Spec == Init /\ [][Next]_vars

(* The broker answers, the timer fires, Docker restarts.  Nothing is       *)
(* assumed of the reconnect of the library.                                *)
Fairness ==
  /\ \A a \in Actors : WF_vars(Answer(a)) /\ WF_vars(Continue(a))
  /\ \A l \in Loops : WF_vars(Wake(l))
  /\ WF_vars(Restart)

FairSpec == Spec /\ Fairness

-----------------------------------------------------------------------------
(* No queue is consumed twice on one channel, whatever closes when: neither *)
(* by two loops nor by a loop and the start-up.                             *)
OneConsumer == \A q \in Queues : consumers[q] <= 1

Subscribing == at["boot"] # "up" \/ \E l \in Loops : at[l] # "off"

(* When nobody is at work the worker consumes both queues and will hear of  *)
(* the end of the channel; no close is overlooked, but for the one that is  *)
(* read together with the answer to the last consume of a loop.             *)
NoCloseOverlooked ==
  \/ Subscribing \/ missed
  \/ open /\ latest \in heard /\ \A q \in Queues : consumers[q] = 1

(* Once a channel stays open, both queues get and keep their consumer.      *)
EventuallySubscribed ==
  <>[]open => <>[](missed \/ \A q \in Queues : consumers[q] = 1)
=============================================================================
