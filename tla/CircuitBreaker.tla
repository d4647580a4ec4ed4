---------------------------- MODULE CircuitBreaker ----------------------------
(***************************************************************************)
(* The rate-limit circuit breaker of one backend                           *)
(* (internal/server/circuit_breaker.go) and the tool calls that go through *)
(* it in phase 3 of callBackendTool.  Allow is called before the backend,  *)
(* one of RecordSuccess, RecordRateLimit and RecordProbeReleased after it; *)
(* the breaker's lock is free while the call is at the backend, so calls   *)
(* admitted in one state report their outcome in another.                  *)
(*                                                                         *)
(* Timestamps are kept as their distance to the current time, saturated at *)
(* Horizon, beyond which no comparison of the code changes its value: the  *)
(* state space is finite and time is unbounded.                            *)
(***************************************************************************)
EXTENDS Integers

CONSTANTS
  ToolCalls,        \* tool calls that may be under way together
  Hanging,          \* calls the backend may never answer
  Threshold,        \* consecutive rate limits that open the circuit
  Cooldown,         \* time the circuit stays open when no reset is known
  StrandedTimeout,  \* probeStrandedTimeout
  ResetDelays,      \* how far ahead (or back) a reported reset may lie
  Horizon,          \* saturation of ages
  Nobody            \* no call

ASSUME BreakerAssumption ==
  /\ Hanging \subseteq ToolCalls /\ Nobody \notin ToolCalls
  /\ Threshold \in Nat \ {0} /\ Cooldown \in Nat \ {0} /\ StrandedTimeout \in Nat
  /\ Horizon \in Nat /\ Horizon > Cooldown /\ Horizon > StrandedTimeout
  /\ ResetDelays \subseteq (-Horizon)..Horizon

VARIABLES
  state,          \* CLOSED, OPEN or HALF-OPEN
  sinceOpen,      \* age of openedAt
  failures,       \* consecutive rate limits, saturated at Threshold
  resetKnown,     \* ~resetAt.IsZero()
  resetIn,        \* resetAt, relative to now
  probeInFlight,
  sinceProbe,     \* age of probeStartedAt, Unset when it is the zero time
  toolCall,       \* where each tool call is
  holder,         \* history: the call the probe slot was last given to
  sinceHolder,    \* history: how long ago
  healthy         \* the backend has recovered for good

breaker == <<state, sinceOpen, failures, resetKnown, resetIn, probeInFlight, sinceProbe>>
breakerVars == <<breaker, toolCall, holder, sinceHolder, healthy>>

Unset == -1

Older(age)  == IF age < Horizon THEN age + 1 ELSE Horizon
OneMore(n)  == IF n < Threshold THEN n + 1 ELSE Threshold

BreakerInit ==
  /\ state = "CLOSED"
  /\ sinceOpen = Horizon
  /\ failures = 0
  /\ resetKnown = FALSE /\ resetIn = 0
  /\ probeInFlight = FALSE /\ sinceProbe = Unset
  /\ toolCall = [c \in ToolCalls |-> "idle"]
  /\ holder = Nobody /\ sinceHolder = Horizon
  /\ healthy = FALSE

(***************************************************************************)
(* Allow                                                                   *)
(***************************************************************************)

\* now.After(openUntil): the upstream reset counts when it lies after the
\* opening, the cooldown otherwise.
OpenElapsed ==
  IF resetKnown /\ resetIn > -sinceOpen THEN resetIn < 0 ELSE sinceOpen > Cooldown

\* The HALF-OPEN probe has been in flight for too long.
Stranded == sinceProbe # Unset /\ sinceProbe > StrandedTimeout

\* The slot is reserved for call c.
TakeProbeSlot(c) ==
  /\ probeInFlight' = TRUE
  /\ sinceProbe' = 0
  /\ toolCall' = [toolCall EXCEPT ![c] = "probe"]
  /\ holder' = c /\ sinceHolder' = 0

AllowClosed(c) ==
  /\ toolCall[c] = "idle"
  /\ state = "CLOSED"
  /\ toolCall' = [toolCall EXCEPT ![c] = "normal"]
  /\ UNCHANGED <<breaker, holder, sinceHolder, healthy>>

AllowOpen(c) ==
  /\ toolCall[c] = "idle"
  /\ state = "OPEN"
  /\ OpenElapsed
  /\ state' = "HALF-OPEN"
  /\ TakeProbeSlot(c)
  /\ UNCHANGED <<sinceOpen, failures, resetKnown, resetIn, healthy>>

\* Mutant: a probe that never comes back keeps the slot.
AllowHalfOpenWedged(c) ==
  /\ toolCall[c] = "idle"
  /\ state = "HALF-OPEN"
  /\ ~probeInFlight
  /\ TakeProbeSlot(c)
  /\ UNCHANGED <<state, sinceOpen, failures, resetKnown, resetIn, healthy>>

AllowHalfOpen(c) ==
  /\ toolCall[c] = "idle"
  /\ state = "HALF-OPEN"
  /\ ~probeInFlight \/ Stranded
  /\ TakeProbeSlot(c)
  /\ UNCHANGED <<state, sinceOpen, failures, resetKnown, resetIn, healthy>>

\* Every other call of Allow is rejected and changes nothing.
Allow(c) == AllowClosed(c) \/ AllowOpen(c) \/ AllowHalfOpen(c)

(***************************************************************************)
(* Outcomes                                                                *)
(***************************************************************************)

FreeProbeSlot == probeInFlight' = FALSE /\ sinceProbe' = Unset

\* The call is back from the backend.
Finish(c) ==
  /\ toolCall[c] # "idle"
  /\ toolCall' = [toolCall EXCEPT ![c] = "idle"]
  /\ UNCHANGED <<holder, sinceHolder, healthy>>

\* Mutant: a transport error is returned without touching the breaker.
TransportErrorKeepsSlot(c) ==
  /\ Finish(c)
  /\ UNCHANGED breaker

\* executeBackendToolCall failed: RecordProbeReleased.
RecordProbeReleased(c) ==
  /\ ~healthy
  /\ Finish(c)
  /\ FreeProbeSlot
  /\ UNCHANGED <<state, sinceOpen, failures, resetKnown, resetIn>>

\* The known reset time is forgotten only when a probe closes the circuit.
RecordSuccess(c) ==
  /\ Finish(c)
  /\ failures' = 0
  /\ FreeProbeSlot
  /\ state' = "CLOSED"
  /\ resetKnown' = (resetKnown /\ state # "HALF-OPEN")
  /\ UNCHANGED <<sinceOpen, resetIn>>

\* Mutant: the circuit opens one rate limit early.
OpensEarly(c, known, delay) ==
  /\ ~healthy
  /\ Finish(c)
  /\ failures' = OneMore(failures)
  /\ FreeProbeSlot
  /\ resetKnown' = (resetKnown \/ known)
  /\ resetIn' = IF known THEN delay ELSE resetIn
  /\ state' = "OPEN"
  /\ sinceOpen' = IF state = "OPEN" THEN sinceOpen ELSE 0

\* Mutant: a rate-limited call leaves the slot taken.
RateLimitKeepsSlot(c, known, delay) ==
  /\ ~healthy
  /\ Finish(c)
  /\ failures' = OneMore(failures)
  /\ resetKnown' = (resetKnown \/ known)
  /\ resetIn' = IF known THEN delay ELSE resetIn
  /\ IF state = "HALF-OPEN" \/ (state = "CLOSED" /\ failures' >= Threshold)
       THEN state' = "OPEN" /\ sinceOpen' = 0
       ELSE UNCHANGED <<state, sinceOpen>>
  /\ UNCHANGED <<probeInFlight, sinceProbe>>

RecordRateLimit(c, known, delay) ==
  /\ ~healthy
  /\ Finish(c)
  /\ failures' = OneMore(failures)
  /\ FreeProbeSlot
  /\ resetKnown' = (resetKnown \/ known)
  /\ resetIn' = IF known THEN delay ELSE resetIn
  /\ IF state = "HALF-OPEN" \/ (state = "CLOSED" /\ failures' >= Threshold)
       THEN state' = "OPEN" /\ sinceOpen' = 0
       ELSE UNCHANGED <<state, sinceOpen>>

(***************************************************************************)
(* Environment                                                             *)
(***************************************************************************)

Tick ==
  /\ sinceOpen' = Older(sinceOpen)
  /\ sinceHolder' = Older(sinceHolder)
  /\ sinceProbe' = IF sinceProbe = Unset THEN Unset ELSE Older(sinceProbe)
  /\ resetIn' = IF resetIn > -Horizon THEN resetIn - 1 ELSE resetIn
  /\ UNCHANGED <<state, failures, resetKnown, probeInFlight, toolCall, holder, healthy>>

\* From here on the backend answers every call it answers with success.
Heal ==
  /\ ~healthy
  /\ healthy' = TRUE
  /\ UNCHANGED <<breaker, toolCall, holder, sinceHolder>>

Outcome(c) ==
  \/ RecordSuccess(c)
  \/ RecordProbeReleased(c)
  \/ \E known \in BOOLEAN, delay \in ResetDelays : RecordRateLimit(c, known, delay)

BreakerNext ==
  \/ \E c \in ToolCalls : Allow(c) \/ Outcome(c)
  \/ Tick
  \/ Heal

BreakerSpec == BreakerInit /\ [][BreakerNext]_breakerVars

\* Clients keep calling, the clock runs, and the backend answers every call
\* but the hanging ones (the tool timeout, where it is set, cuts those too).
Fairness ==
  /\ WF_breakerVars(Tick)
  /\ \A c \in ToolCalls \ Hanging : WF_breakerVars(Allow(c)) /\ WF_breakerVars(Outcome(c))

FairSpec == BreakerSpec /\ Fairness

(***************************************************************************)
(* Properties                                                              *)
(***************************************************************************)

Age == 0..Horizon

\* Type invariant: the breaker's counters stay within their range whatever
\* order outcomes are recorded in, and every age stays within the horizon.
BreakerTypeOK ==
  /\ state \in {"CLOSED", "OPEN", "HALF-OPEN"}
  /\ sinceOpen \in Age
  /\ failures \in 0..Threshold
  /\ resetKnown \in BOOLEAN
  /\ resetIn \in (-Horizon)..Horizon
  /\ probeInFlight \in BOOLEAN
  /\ sinceProbe \in Age \union {Unset}
  /\ toolCall \in [ToolCalls -> {"idle", "normal", "probe"}]
  /\ holder \in ToolCalls \union {Nobody}
  /\ sinceHolder \in Age
  /\ healthy \in BOOLEAN

\* A circuit that is not closed was opened by a full streak of rate limits
\* that no success has interrupted since, whatever order the outcomes of
\* concurrent calls are recorded in.
TrippedHasStreak == state # "CLOSED" => failures = Threshold

\* The probe slot is taken only in HALF-OPEN, and its start is known then:
\* a slot left over from another state would reject calls with no probe.
SlotOnlyHalfOpen ==
  /\ probeInFlight => state = "HALF-OPEN"
  /\ probeInFlight <=> sinceProbe # Unset

\* The slot is held on behalf of a call that is still at the backend: every
\* way a call ends, a transport error included, gives the slot back.
SlotHeldByProbe == probeInFlight => holder \in ToolCalls /\ toolCall[holder] = "probe"

\* Once the backend has recovered, the circuit closes and stays closed, even
\* if a probe hangs for ever.
Recovers == healthy ~> [](state = "CLOSED")

\* circuit_breaker.go: "Only one probe is allowed; further requests are
\* blocked until the probe resolves" (or is stranded).
OneProbeAtATime ==
  [][ \A c \in ToolCalls :
        (state = "HALF-OPEN" /\ toolCall[c] = "idle" /\ toolCall'[c] = "probe") =>
          \/ holder \in ToolCalls /\ toolCall[holder] # "probe"
          \/ sinceHolder > StrandedTimeout ]_breakerVars

=============================================================================
