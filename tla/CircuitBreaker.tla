--------------------------- MODULE CircuitBreaker ---------------------------
(***************************************************************************)
(* CircuitBreakerService around a dependency (PostgreSQL, Redis, RabbitMQ) *)
(* that goes down and comes back, and what callers are told about retrying.*)
(*                                                                         *)
(* CircuitBreakerService leaves the state machine to opossum: a closed     *)
(* breaker opens on a failure, if the failures in its rolling window are   *)
(* too many; it is half open when resetTimeout has passed, and then lets   *)
(* one call through; the first success closes it, a failure opens it.      *)
(* Here a failure of a closed breaker may or may not open it.              *)
(*                                                                         *)
(* Time is in ticks.  No tick passes while a timer is due: Node runs due   *)
(* timers in whichever order, with answers between them.                   *)
(***************************************************************************)
EXTENDS Naturals, FiniteSets

CONSTANTS
  Callers,       \* calls through the breaker there is room for at a time
  Timeout,       \* breakerOptions.timeout
  ResetTimeout,  \* breakerOptions.resetTimeout
  Second         \* ticks in a second, the unit of retryAfter for clients

ASSUME CircuitBreakerAssumption ==
  /\ Timeout \in Nat \ {0} /\ ResetTimeout \in Nat /\ Timeout < ResetTimeout
  /\ Second \in Nat \ {0}

VARIABLES
  state,        \* of the breaker
  pendingClose, \* half open, and the probe has not been let through yet
  resetIn,      \* ticks until an open breaker is half open
  running,      \* calls whose operation has been started
  timeLeft,     \* timeLeft[c]: ticks until the breaker gives up on c
  up,           \* the dependency answers, and within the timeout
  doomed,       \* running calls that the dependency was down in
  retryIn,      \* ticks until a client does what it was told, if Advised
  refusedBy     \* the open period it was told about: "this", "past", "none"

breakerVars == <<state, pendingClose, resetIn>>
callVars    == <<running, timeLeft, doomed>>
clientVars  == <<retryIn, refusedBy>>
vars        == <<state, pendingClose, resetIn, running, timeLeft, up, doomed,
                 retryIn, refusedBy>>

(* Mutant of breakerOptions: the two timeouts the other way round. *)
breakerOptionsSwapped == [timeout |-> ResetTimeout, resetTimeout |-> Timeout]

breakerOptions == [timeout |-> Timeout, resetTimeout |-> ResetTimeout]

(* Mutant of RetryAfter: rounded down. *)
RetryAfterDown == breakerOptions.resetTimeout \div Second

(* TransientInfrastructureError.retryAfter in the seconds clients get:     *)
(* Math.ceil(retryAfter / 1000).                                           *)
RetryAfter == (breakerOptions.resetTimeout + Second - 1) \div Second

(* Ticks that a client lets pass when it does as it is told. *)
Wait == RetryAfter * Second

TypeOK ==
  /\ state \in {"closed", "open", "halfOpen"}
  /\ pendingClose \in BOOLEAN /\ (pendingClose => state = "halfOpen")
  /\ resetIn \in 0..ResetTimeout /\ (state # "open" => resetIn = 0)
  /\ running \subseteq Callers /\ doomed \subseteq running
  /\ timeLeft \in [Callers -> 0..Timeout]
  /\ up \in BOOLEAN
  /\ retryIn \in 0..Wait
  /\ refusedBy \in {"this", "past", "none"}

Init ==
  /\ state = "closed" /\ pendingClose = FALSE /\ resetIn = 0
  /\ running = {} /\ timeLeft = [c \in Callers |-> 0]
  /\ up = TRUE /\ doomed = {}
  /\ retryIn = 0 /\ refusedBy = "none"

-----------------------------------------------------------------------------
(* The breaker.                                                            *)

Open ==
  /\ state' = "open" /\ pendingClose' = FALSE
  /\ resetIn' = breakerOptions.resetTimeout

Started(c) ==
  /\ running' = running \cup {c}
  /\ timeLeft' = [timeLeft EXCEPT ![c] = breakerOptions.timeout]
  /\ doomed' = IF up THEN doomed ELSE doomed \cup {c}

Ended(c) ==
  /\ running' = running \ {c} /\ doomed' = doomed \ {c}
  /\ timeLeft' = [timeLeft EXCEPT ![c] = 0]

(* fire throws TransientInfrastructureError: the client of the call is told *)
(* to come back, in a 202 or a 503.  One client is followed at a time, and  *)
(* it may be any.                                                           *)
Throw ==
  \/ UNCHANGED clientVars
  \/ /\ retryIn' = Wait
     /\ refusedBy' = IF state' = "open" THEN "this" ELSE "none"

Fire(c) ==
  /\ c \notin running
  /\ \/ /\ state = "closed" \/ pendingClose
        /\ pendingClose' = FALSE
        /\ Started(c) /\ UNCHANGED <<state, resetIn, clientVars>>
     \/ /\ state # "closed" /\ ~pendingClose
        /\ UNCHANGED <<breakerVars, callVars>> /\ Throw
  /\ UNCHANGED up

(* A success closes a half-open breaker, and leaves an open one open. *)
Succeed(c) ==
  /\ c \in running /\ c \notin doomed
  /\ Ended(c)
  /\ state' = IF state = "halfOpen" THEN "closed" ELSE state
  /\ UNCHANGED <<pendingClose, resetIn, up, clientVars>>

(* A failure opens the breaker: half open, always; closed, if the rate is  *)
(* above errorThresholdPercentage; it is open already if others failed.    *)
Failed(c) ==
  /\ Ended(c)
  /\ \/ state # "open" /\ Open
     \/ state # "halfOpen" /\ UNCHANGED breakerVars
  /\ Throw /\ UNCHANGED up

(* The dependency refuses the connection or answers with an error. *)
Fail(c) == c \in doomed /\ Failed(c)

(* Mutant of GiveUp: the option timeout is false. *)
GiveUpNever(c) == c \in doomed /\ FALSE /\ Failed(c)

(* The dependency is slow, and the breaker gives up on the call: what      *)
(* becomes of the operation is no longer looked at.                        *)
GiveUp(c) == c \in doomed /\ timeLeft[c] = 0 /\ Failed(c)

(* Mutant of HalfOpen: the probe is not let through. *)
HalfOpenShut ==
  /\ state = "open" /\ resetIn = 0
  /\ state' = "halfOpen"
  /\ refusedBy' = IF refusedBy = "this" THEN "past" ELSE refusedBy
  /\ UNCHANGED <<pendingClose, resetIn, callVars, up, retryIn>>

HalfOpen ==
  /\ state = "open" /\ resetIn = 0
  /\ state' = "halfOpen" /\ pendingClose' = TRUE
  /\ refusedBy' = IF refusedBy = "this" THEN "past" ELSE refusedBy
  /\ UNCHANGED <<resetIn, callVars, up, retryIn>>

-----------------------------------------------------------------------------
(* The dependency and time.                                                *)

GoDown == up /\ up' = FALSE /\ doomed' = running
          /\ UNCHANGED <<breakerVars, running, timeLeft, clientVars>>

ComeBack == ~up /\ up' = TRUE
            /\ UNCHANGED <<breakerVars, callVars, clientVars>>

TimersDue ==
  \/ state = "open" /\ resetIn = 0
  \/ \E c \in running : timeLeft[c] = 0

Less(n) == IF n = 0 THEN 0 ELSE n - 1

Tick ==
  /\ ~TimersDue
  /\ resetIn' = Less(resetIn)
  /\ timeLeft' = [c \in Callers |-> Less(timeLeft[c])]
  /\ retryIn' = Less(retryIn)
  /\ UNCHANGED <<state, pendingClose, running, up, doomed, refusedBy>>

Next ==
  \/ \E c \in Callers : Fire(c) \/ Succeed(c) \/ Fail(c) \/ GiveUp(c)
  \/ HalfOpen \/ GoDown \/ ComeBack \/ Tick

(* Time passes and timers run.  A dependency that stays up answers.        *)
Fairness ==
  /\ WF_vars(Tick) /\ WF_vars(HalfOpen)
  /\ \A c \in Callers : WF_vars(GiveUp(c)) /\ WF_vars(Succeed(c))

Spec == Init /\ [][Next]_vars /\ Fairness

-----------------------------------------------------------------------------
(* The half-open breaker has one call under way, its probe, and none before *)
(* the probe: no call of an earlier state is left that could close it or    *)
(* open it in the probe's place.                                            *)
OneProbe ==
  state = "halfOpen" => Cardinality(running) = IF pendingClose THEN 0 ELSE 1

(* A client that waits for as long as it was told is not refused by the     *)
(* open period it was told about: that ends then at the latest.             *)
RetryAfterSuffices ==
  refusedBy = "this" /\ retryIn = 0 => state = "open" /\ resetIn = 0

(* Every call comes back, with the dependency silent too. *)
EveryCallReturns == \A c \in Callers : c \in running ~> c \notin running

(* When the dependency stays up, the breaker ends up closed, or half open   *)
(* with its probe still to come: outages leave it no other way to rest.     *)
Recovers == <>[]up => <>[](state = "closed" \/ pendingClose)
=============================================================================
