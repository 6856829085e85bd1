------------------------ MODULE CircuitBreakerProofs ------------------------
(***************************************************************************)
(* What CircuitBreaker guarantees for any set of callers and any timeouts  *)
(* with timeout < resetTimeout, which the constants of                     *)
(* CircuitBreakerService satisfy.                                          *)
(***************************************************************************)
EXTENDS CircuitBreaker, FiniteSetTheorems, TLAPS

(* Calls under way when the breaker opens are given up on before it is half *)
(* open.                                                                    *)
OutlivesCalls == state = "open" => \A c \in running : timeLeft[c] < resetIn

(* A half-open breaker has nobody under way before its probe, and then it.  *)
ProbeOnly ==
  state = "halfOpen" =>
    IF pendingClose THEN running = {} ELSE \E c \in Callers : running = {c}

(* Who was told to come back will not do so before the open period is over. *)
Advised == refusedBy = "this" => state = "open" /\ resetIn <= retryIn

Inv == TypeOK /\ OutlivesCalls /\ ProbeOnly /\ Advised

-----------------------------------------------------------------------------
(* Rounding up to seconds loses nothing: Math.ceil(retryAfter / 1000)       *)
(* seconds are at least retryAfter milliseconds.                            *)
LEMMA RoundedUp ==
  Wait \in Nat /\ Wait >= ResetTimeout
<1> DEFINE n == ResetTimeout + Second - 1
           q == n \div Second
<1>1. n \in Nat /\ Second \in Nat \ {0}
  BY CircuitBreakerAssumption
<1>2. n = Second * q + (n % Second) /\ n % Second \in 0..(Second - 1) /\ q \in Nat
  BY <1>1, Z3
<1>3. \A a, b \in Nat : a * b = b * a /\ a * b \in Nat
  OBVIOUS
<1>4. q * Second = Second * q /\ q * Second \in Nat
  BY <1>1, <1>2, <1>3
<1>5. q * Second >= ResetTimeout
  <2> HIDE DEF q
  <2> DEFINE p == Second * q
             m == n % Second
  <2>1. p \in Nat /\ m \in 0..(Second - 1) /\ ResetTimeout + Second - 1 = p + m
    BY <1>1, <1>2, <1>3
  <2> HIDE DEF p, m
  <2>2. p >= ResetTimeout
    BY <2>1, CircuitBreakerAssumption
  <2> QED
    BY <2>2, <1>4 DEF p
<1> QED
  BY <1>2, <1>4, <1>5 DEF Wait, RetryAfter, breakerOptions

(* Inv holds of a breaker that has just been made. *)
LEMMA InitInv == Init => Inv
<1> SUFFICES ASSUME Init PROVE Inv
  OBVIOUS
<1>1. timeLeft \in [Callers -> 0..Timeout]
  BY CircuitBreakerAssumption DEF Init
<1>2. resetIn \in 0..ResetTimeout /\ retryIn \in 0..Wait
  BY RoundedUp, CircuitBreakerAssumption DEF Init
<1>3. up \in BOOLEAN /\ pendingClose \in BOOLEAN
  BY DEF Init
<1>4. TypeOK
  BY <1>1, <1>2, <1>3 DEF Init, TypeOK
<1> QED
  BY <1>4 DEF Init, Inv, OutlivesCalls, ProbeOnly, Advised

-----------------------------------------------------------------------------
(* fire throws: whoever is told to come back is told to stay away for at    *)
(* least resetTimeout.                                                      *)
LEMMA ThrowTells ==
  ASSUME Inv, Throw, state' = "open", resetIn' \in 0..ResetTimeout,
         refusedBy = "this" => resetIn' <= retryIn
  PROVE  /\ retryIn' \in 0..(Wait)
         /\ refusedBy' \in {"this", "past", "none"}
         /\ Advised'
<1>1. CASE UNCHANGED clientVars
  BY <1>1 DEF Inv, TypeOK, Advised, clientVars
<1>2. CASE retryIn' = Wait /\ refusedBy' = "this"
  BY <1>2, RoundedUp, CircuitBreakerAssumption DEF Advised
<1> QED
  BY <1>1, <1>2 DEF Throw

(* A call begins or ends: the bookkeeping stays well typed.                 *)
LEMMA StartedTyped ==
  ASSUME TypeOK, NEW c \in Callers, Started(c)
  PROVE  /\ running' \subseteq Callers /\ doomed' \subseteq running'
         /\ timeLeft' \in [Callers -> 0..Timeout]
<1>1. breakerOptions.timeout \in 0..Timeout
  BY CircuitBreakerAssumption DEF breakerOptions
<1>2. timeLeft' \in [Callers -> 0..Timeout]
  BY <1>1 DEF TypeOK, Started
<1>3. running' \subseteq Callers /\ doomed' \subseteq running'
  BY DEF TypeOK, Started
<1> QED
  BY <1>2, <1>3

LEMMA EndedTyped ==
  ASSUME TypeOK, NEW c \in Callers, Ended(c)
  PROVE  /\ running' \subseteq Callers /\ doomed' \subseteq running'
         /\ timeLeft' \in [Callers -> 0..Timeout]
<1>1. 0 \in 0..Timeout
  BY CircuitBreakerAssumption
<1>2. timeLeft' \in [Callers -> 0..Timeout]
  BY <1>1 DEF TypeOK, Ended
<1>3. running' \subseteq Callers /\ doomed' \subseteq running'
  BY DEF TypeOK, Ended
<1> QED
  BY <1>2, <1>3

-----------------------------------------------------------------------------
(* A call is let through or refused. *)
LEMMA FireInv ==
  ASSUME Inv, NEW c \in Callers, Fire(c)
  PROVE  Inv'
<1>1. CASE /\ state = "closed" \/ pendingClose
           /\ pendingClose' = FALSE
           /\ Started(c) /\ UNCHANGED <<state, resetIn, clientVars>>
  <2>1. TypeOK'
    BY <1>1, StartedTyped DEF Inv, TypeOK, Fire, clientVars
  <2>2. state # "open"
    BY <1>1 DEF Inv, TypeOK
  <2>3. ProbeOnly'
    BY <1>1 DEF Inv, TypeOK, ProbeOnly, Started
  <2> QED
    BY <1>1, <2>1, <2>2, <2>3 DEF Inv, OutlivesCalls, Advised, clientVars
<1>2. CASE /\ state # "closed" /\ ~pendingClose
           /\ UNCHANGED <<breakerVars, callVars>> /\ Throw
  <2>1. resetIn' \in 0..ResetTimeout /\ (refusedBy = "this" => resetIn' <= retryIn)
    BY <1>2 DEF Inv, TypeOK, Advised, breakerVars
  <2>2. /\ retryIn' \in 0..Wait
        /\ refusedBy' \in {"this", "past", "none"}
        /\ Advised'
    <3>1. CASE state' = "open"
      BY <1>2, <2>1, <3>1, ThrowTells
    <3>2. CASE state' # "open"
      BY <1>2, <3>2, RoundedUp
      DEF Throw, Inv, TypeOK, Advised, breakerVars, clientVars
    <3> QED
      BY <3>1, <3>2
  <2>3. TypeOK'
    BY <1>2, <2>2 DEF Inv, TypeOK, Fire, breakerVars, callVars
  <2>4. OutlivesCalls' /\ ProbeOnly'
    BY <1>2 DEF Inv, OutlivesCalls, ProbeOnly, breakerVars, callVars
  <2> QED
    BY <2>2, <2>3, <2>4 DEF Inv
<1> QED
  BY <1>1, <1>2 DEF Fire

(* A success leaves an open breaker open and closes a half-open one. *)
LEMMA SucceedInv ==
  ASSUME Inv, NEW c \in Callers, Succeed(c)
  PROVE  Inv'
<1>1. TypeOK'
  <2>1. state' \in {"closed", "open", "halfOpen"}
    BY DEF Inv, TypeOK, Succeed
  <2>2. pendingClose' \in BOOLEAN /\ (pendingClose' => state' = "halfOpen")
    BY DEF Inv, TypeOK, Succeed, ProbeOnly
  <2> QED
    BY <2>1, <2>2, EndedTyped DEF Inv, TypeOK, Succeed, clientVars
<1>2. state' = "open" => state = "open"
  BY DEF Succeed
<1>3. state' # "halfOpen"
  BY DEF Succeed
<1>4. OutlivesCalls'
  BY <1>2, CircuitBreakerAssumption DEF Inv, TypeOK, OutlivesCalls, Succeed, Ended
<1> QED
  BY <1>1, <1>3, <1>4 DEF Inv, ProbeOnly, Advised, Succeed, clientVars

(* Opening sets a timer that outlasts every call under way. *)
LEMMA FailedInv ==
  ASSUME Inv, NEW c \in running, Failed(c)
  PROVE  Inv'
<1> c \in Callers
  BY DEF Inv, TypeOK
<1>1. CASE state # "open" /\ Open
  <2>1. /\ state' = "open" /\ resetIn' = ResetTimeout /\ pendingClose' = FALSE
        /\ resetIn' \in 0..ResetTimeout /\ refusedBy # "this"
    BY <1>1, CircuitBreakerAssumption DEF Open, breakerOptions, Inv, Advised
  <2>2. /\ retryIn' \in 0..Wait
        /\ refusedBy' \in {"this", "past", "none"}
        /\ Advised'
    BY <2>1, ThrowTells DEF Failed
  <2>3. TypeOK'
    BY <2>1, <2>2, EndedTyped DEF Inv, TypeOK, Failed
  <2>4. OutlivesCalls'
    BY <2>1, <2>3, CircuitBreakerAssumption DEF TypeOK, OutlivesCalls
  <2> QED
    BY <2>1, <2>2, <2>3, <2>4 DEF Inv, ProbeOnly
<1>2. CASE state # "halfOpen" /\ UNCHANGED breakerVars
  <2>1. resetIn' \in 0..ResetTimeout /\ (refusedBy = "this" => resetIn' <= retryIn)
    BY <1>2 DEF Inv, TypeOK, Advised, breakerVars
  <2>2. /\ retryIn' \in 0..Wait
        /\ refusedBy' \in {"this", "past", "none"}
        /\ Advised'
    <3>1. CASE state' = "open"
      BY <2>1, <3>1, ThrowTells DEF Failed
    <3>2. CASE state' # "open"
      BY <1>2, <3>2, RoundedUp
      DEF Failed, Throw, Inv, TypeOK, Advised, breakerVars, clientVars
    <3> QED
      BY <3>1, <3>2
  <2>3. TypeOK'
    BY <1>2, <2>2, EndedTyped DEF Inv, TypeOK, Failed, breakerVars
  <2>4. OutlivesCalls'
    BY <1>2, CircuitBreakerAssumption
    DEF Inv, TypeOK, OutlivesCalls, Failed, Ended, breakerVars
  <2> QED
    BY <1>2, <2>2, <2>3, <2>4 DEF Inv, ProbeOnly, breakerVars
<1> QED
  BY <1>1, <1>2 DEF Failed

(* When the timer runs out nobody is under way any more. *)
LEMMA HalfOpenInv ==
  ASSUME Inv, HalfOpen
  PROVE  Inv'
<1>1. running = {}
  BY DEF HalfOpen, Inv, TypeOK, OutlivesCalls
<1>2. TypeOK'
  BY DEF HalfOpen, Inv, TypeOK, callVars
<1> QED
  BY <1>1, <1>2 DEF HalfOpen, Inv, OutlivesCalls, ProbeOnly, Advised, callVars

(* All timers advance together. *)
LEMMA TickInv ==
  ASSUME Inv, Tick
  PROVE  Inv'
<1>1. \A n \in Nat : Less(n) \in Nat /\ Less(n) <= n
  BY DEF Less
<1>2. \A n \in Nat : n # 0 => Less(n) = n - 1
  BY DEF Less
<1>3. timeLeft' \in [Callers -> 0..Timeout]
  BY <1>1, CircuitBreakerAssumption DEF Tick, Inv, TypeOK
<1>4. resetIn' \in 0..ResetTimeout /\ retryIn' \in 0..Wait
  BY <1>1, RoundedUp, CircuitBreakerAssumption DEF Tick, Inv, TypeOK
<1>5. state' # "open" => resetIn' = 0
  BY DEF Tick, Inv, TypeOK, Less
<1>6. TypeOK'
  BY <1>3, <1>4, <1>5 DEF Tick, Inv, TypeOK
<1>7. OutlivesCalls'
  <2> SUFFICES ASSUME state' = "open", NEW c \in running'
               PROVE  timeLeft'[c] < resetIn'
    BY DEF OutlivesCalls
  <2>1. c \in running /\ c \in Callers /\ timeLeft[c] \in Nat /\ timeLeft[c] # 0
    BY CircuitBreakerAssumption DEF Tick, TimersDue, Inv, TypeOK
  <2>2. resetIn \in Nat /\ resetIn # 0 /\ timeLeft[c] < resetIn
    BY <2>1, CircuitBreakerAssumption
    DEF Tick, TimersDue, Inv, TypeOK, OutlivesCalls
  <2>3. timeLeft'[c] = timeLeft[c] - 1 /\ resetIn' = resetIn - 1
    BY <1>2, <2>1, <2>2 DEF Tick
  <2> QED
    BY <2>1, <2>2, <2>3
<1>8. Advised'
  <2> SUFFICES ASSUME refusedBy = "this"
               PROVE  state = "open" /\ resetIn' <= retryIn'
    BY DEF Advised, Tick
  <2>1. state = "open" /\ resetIn <= retryIn
    BY DEF Inv, Advised
  <2>2. resetIn \in Nat /\ retryIn \in Nat /\ resetIn # 0
    BY <2>1, RoundedUp, CircuitBreakerAssumption DEF Tick, TimersDue, Inv, TypeOK
  <2>3. resetIn' = resetIn - 1 /\ retryIn' = retryIn - 1
    BY <1>2, <2>1, <2>2 DEF Tick
  <2> QED
    BY <2>1, <2>2, <2>3
<1> QED
  BY <1>6, <1>7, <1>8 DEF Inv, ProbeOnly, Tick

(* Every action together. *)
LEMMA NextInv == Inv /\ [Next]_vars => Inv'
<1> SUFFICES ASSUME Inv, [Next]_vars PROVE Inv'
  OBVIOUS
<1>1. ASSUME NEW c \in Callers, Fire(c) PROVE Inv'
  BY <1>1, FireInv
<1>2. ASSUME NEW c \in Callers, Succeed(c) PROVE Inv'
  BY <1>2, SucceedInv
<1>3. ASSUME NEW c \in Callers, Fail(c) \/ GiveUp(c) PROVE Inv'
  <2>1. c \in running
    BY <1>3 DEF Fail, GiveUp, Inv, TypeOK
  <2>2. Failed(c)
    BY <1>3 DEF Fail, GiveUp
  <2> QED
    BY <2>1, <2>2, FailedInv
<1>4. CASE HalfOpen
  BY <1>4, HalfOpenInv
<1>5. CASE GoDown \/ ComeBack
  <2>1. /\ UNCHANGED <<state, pendingClose, resetIn, running, timeLeft>>
        /\ UNCHANGED <<retryIn, refusedBy>>
    BY <1>5 DEF GoDown, ComeBack, breakerVars, callVars, clientVars
  <2>2. doomed' \subseteq running' /\ up' \in BOOLEAN
    BY <1>5 DEF GoDown, ComeBack, callVars, Inv, TypeOK
  <2>3. TypeOK'
    BY <2>1, <2>2 DEF Inv, TypeOK
  <2> QED
    BY <2>1, <2>3 DEF Inv, OutlivesCalls, ProbeOnly, Advised
<1>6. CASE Tick
  BY <1>6, TickInv
<1>7. CASE UNCHANGED vars
  BY <1>7 DEF vars, Inv, TypeOK, OutlivesCalls, ProbeOnly, Advised
<1> QED
  BY <1>1, <1>2, <1>3, <1>4, <1>5, <1>6, <1>7 DEF Next

(* Inv is an invariant. *)
LEMMA Invariance == Spec => []Inv
BY InitInv, NextInv, PTL DEF Spec

-----------------------------------------------------------------------------
(* The state, the timers and the advice stay in their ranges, whatever the  *)
(* dependency does.                                                         *)
THEOREM BreakerTyping == Spec => []TypeOK
<1>1. Inv => TypeOK
  BY DEF Inv
<1> QED
  BY <1>1, Invariance, PTL

(* However many callers there are and whenever the dependency fails, a      *)
(* half-open breaker has one call under way, its probe.                     *)
THEOREM SingleProbe == Spec => []OneProbe
<1>1. ASSUME Inv PROVE OneProbe
  <2> SUFFICES ASSUME state = "halfOpen"
               PROVE  Cardinality(running) = IF pendingClose THEN 0 ELSE 1
    BY DEF OneProbe
  <2>1. CASE pendingClose
    BY <1>1, <2>1, FS_EmptySet DEF Inv, ProbeOnly
  <2>2. CASE ~pendingClose
    BY <1>1, <2>2, FS_Singleton DEF Inv, ProbeOnly
  <2> QED
    BY <2>1, <2>2
<1> QED
  BY <1>1, Invariance, PTL

(* The seconds a client is told are enough: once they have passed, the open *)
(* period it was told about is over or ends at this instant.                *)
THEOREM AdviceSuffices == Spec => []RetryAfterSuffices
<1>1. Inv => RetryAfterSuffices
  BY RoundedUp, CircuitBreakerAssumption DEF Inv, TypeOK, Advised, RetryAfterSuffices
<1> QED
  BY <1>1, Invariance, PTL
=============================================================================
