------------------------- MODULE RateLimitTransform --------------------------
(***************************************************************************)
(* RateLimitTransform (Code/opendatacon/RateLimitTransform.h): threads     *)
(* share a counter of the updates passed on.  It goes down by              *)
(* outputRateLimit for every update period that ends, and an update is     *)
(* dropped while it stands at the burst limit or above.  Each access to    *)
(* the shared counters is atomic, the sequence of them is not.  The        *)
(* counter is unsigned: it wraps at Modulus.  inputRate and droppedUpdates *)
(* are never read, and are left out.                                       *)
(***************************************************************************)
EXTENDS Integers, FiniteSets

CONSTANTS Updaters,
          outputRateLimit, updatePeriodms, updatePeriodMultiplier,
          Modulus,    \* 2^32 or 2^64, as uint_fast32_t is on the platform
          MaxTime     \* bound on the clock

ASSUME RateLimitAssumption ==
    /\ {outputRateLimit, updatePeriodms, updatePeriodMultiplier, MaxTime} \subseteq Nat
    /\ IsFiniteSet(Updaters) /\ Updaters # {}
    /\ Modulus \in Nat
    /\ outputRateLimit * updatePeriodMultiplier + Cardinality(Updaters) < Modulus

VARIABLES now, outputRate, nextUpdatems,
          at, eventTime,
          passed      \* updates passed on since the counter last went down

rateVars == <<now, outputRate, nextUpdatems, at, eventTime, passed>>

RateInit ==
    /\ now = 0
    /\ outputRate = 0
    /\ nextUpdatems = updatePeriodms
    /\ at = [t \in Updaters |-> "idle"]
    /\ eventTime = [t \in Updaters |-> 0]
    /\ passed = 0

Goto(t, l) == at' = [at EXCEPT ![t] = l]

Tick == /\ now < MaxTime
        /\ now' = now + 1
        /\ UNCHANGED <<outputRate, nextUpdatems, at, eventTime, passed>>

\* An update of a rate limited type arrives; the others are passed on as is.
Arrive(t) ==
    /\ at[t] = "idle"
    /\ eventTime' = [eventTime EXCEPT ![t] = now]
    /\ Goto(t, "rollover")
    /\ UNCHANGED <<now, outputRate, nextUpdatems, passed>>

\* if (nextUpdatems < eventTime): the test, then the addition; other threads
\* may pass the same test in between.
Rollover(t) ==
    /\ at[t] = "rollover"
    /\ Goto(t, IF nextUpdatems < eventTime[t] THEN "advance" ELSE "admit")
    /\ UNCHANGED <<now, outputRate, nextUpdatems, eventTime, passed>>

\* nextUpdatems += updatePeriodms
Advance(t) ==
    /\ at[t] = "advance"
    /\ nextUpdatems' = nextUpdatems + updatePeriodms
    /\ Goto(t, "reduce")
    /\ UNCHANGED <<now, outputRate, eventTime, passed>>

\* outputRate -= outputRateLimit, on an unsigned type.
Reduced(rate) == (rate - outputRateLimit) % Modulus

Reduce(t) ==
    /\ at[t] = "reduce"
    /\ outputRate' = Reduced(outputRate)
    /\ passed' = 0
    /\ Goto(t, "clamp")
    /\ UNCHANGED <<now, nextUpdatems, eventTime>>

\* if (outputRate < 0) start a new period from this event.
Clamp(t) ==
    /\ at[t] = "clamp"
    /\ IF outputRate < 0
       THEN nextUpdatems' = eventTime[t] + updatePeriodms /\ outputRate' = 0
       ELSE UNCHANGED <<nextUpdatems, outputRate>>
    /\ Goto(t, "admit")
    /\ UNCHANGED <<now, eventTime, passed>>

Burst == outputRateLimit * updatePeriodMultiplier

\* The update is passed on below the burst limit, dropped otherwise.
Admit(t) ==
    /\ at[t] = "admit"
    /\ Goto(t, IF outputRate < Burst THEN "pass" ELSE "idle")
    /\ UNCHANGED <<now, outputRate, nextUpdatems, eventTime, passed>>

NotCounted(rate) == rate
Counted(rate) == (rate + 1) % Modulus

Pass(t) ==
    /\ at[t] = "pass"
    /\ outputRate' = Counted(outputRate)
    /\ passed' = passed + 1
    /\ Goto(t, "idle")
    /\ UNCHANGED <<now, nextUpdatems, eventTime>>

RateNext ==
    \/ Tick
    \/ \E t \in Updaters : \/ Arrive(t) \/ Rollover(t) \/ Advance(t) \/ Reduce(t)
                           \/ Clamp(t) \/ Admit(t) \/ Pass(t)

RateSpec == RateInit /\ [][RateNext]_rateVars

-----------------------------------------------------------------------------
\* The type invariant.
RateTypeOK ==
    /\ now \in 0 .. MaxTime
    /\ outputRate \in 0 .. Modulus - 1
    /\ nextUpdatems \in Nat
    /\ at \in [Updaters -> {"idle", "rollover", "advance", "reduce", "clamp", "admit", "pass"}]
    /\ eventTime \in [Updaters -> 0 .. MaxTime]
    /\ passed \in Nat

(***************************************************************************)
(* Between two reductions of the counter no more updates are passed on     *)
(* than the burst limit, up to twice one for each thread: threads that     *)
(* were admitted with the same count, before and after the reduction.      *)
(***************************************************************************)
BurstBounded == passed < Burst + 2 * Cardinality(Updaters)
=============================================================================
