------------------------ MODULE CommsRideThroughTimer ------------------------
(***************************************************************************)
(* CommsRideThroughTimer (Code/Ports/DNP3Port): a master port that loses   *)
(* its link waits Timeoutms before it reports the comms point as failed.   *)
(* Trigger, FastForward and Cancel post to a strand; the timer's handler   *)
(* runs on the same strand, but it gets there by way of the pool: a        *)
(* cancelled or expired wait completes first, and its handler joins the    *)
(* strand some time later.  The heart beat only repeats what the comms     *)
(* point says already, and is left out.                                    *)
(***************************************************************************)
EXTENDS Naturals, Sequences

VARIABLES
    timerStrand,            \* handlers waiting on pTimerAccessStrand
    pending,                \* the steady_timer holds a wait
    completed,              \* completed waits whose handler is not there yet
    RideThroughInProgress,
    CommsIsBad,
    commsPoint              \* what the callbacks made of the comms point

timer == <<timerStrand, pending, completed, RideThroughInProgress, CommsIsBad, commsPoint>>

TimerInit == /\ timerStrand = <<>>
             /\ pending = FALSE
             /\ completed = 0
             /\ RideThroughInProgress = FALSE
             /\ CommsIsBad = FALSE
             /\ commsPoint = "unset"

\* Trigger(), FastForward() and Cancel(), called by the port in this order.
TimerPost(ops) ==
    /\ timerStrand' = timerStrand \o ops
    /\ UNCHANGED <<pending, completed, RideThroughInProgress, CommsIsBad, commsPoint>>

TimerRuns(op) == /\ timerStrand # <<>>
                 /\ Head(timerStrand) = op
                 /\ timerStrand' = Tail(timerStrand)

\* pCommsRideThroughTimer->cancel(), also part of expires_from_now(): the
\* wait the timer holds completes.
CancelTimer == completed' = completed + (IF pending THEN 1 ELSE 0)

IgnoredWhenRiding == RideThroughInProgress
Ignored == RideThroughInProgress \/ CommsIsBad

RunTrigger ==
    /\ TimerRuns("Trigger")
    /\ IF Ignored
       THEN UNCHANGED <<RideThroughInProgress, completed, pending>>
       ELSE RideThroughInProgress' = TRUE /\ CancelTimer /\ pending' = TRUE
    /\ UNCHANGED <<CommsIsBad, commsPoint>>

RunFastForward ==
    /\ TimerRuns("FastForward")
    /\ IF RideThroughInProgress
       THEN CancelTimer /\ pending' = FALSE
       ELSE UNCHANGED <<completed, pending>>
    /\ UNCHANGED <<RideThroughInProgress, CommsIsBad, commsPoint>>

\* Cancel during a ride-through ends it.
RunCancelRiding ==
    /\ RideThroughInProgress
    /\ TimerRuns("Cancel")
    /\ RideThroughInProgress' = FALSE
    /\ CancelTimer /\ pending' = FALSE
    /\ UNCHANGED <<CommsIsBad, commsPoint>>

CancelWithoutGood ==
    /\ ~RideThroughInProgress
    /\ TimerRuns("Cancel")
    /\ UNCHANGED <<commsPoint, CommsIsBad, RideThroughInProgress, completed, pending>>

\* Cancel at any other time calls CommsGoodCB.
RunCancelGood ==
    /\ ~RideThroughInProgress
    /\ TimerRuns("Cancel")
    /\ commsPoint' = "good"
    /\ CommsIsBad' = FALSE
    /\ UNCHANGED <<RideThroughInProgress, completed, pending>>

\* The timer runs out.
Expire == /\ pending
          /\ CancelTimer /\ pending' = FALSE
          /\ UNCHANGED <<timerStrand, RideThroughInProgress, CommsIsBad, commsPoint>>

\* A pool thread takes a completed wait, and its handler joins the strand.
Dispatch ==
    /\ completed > 0
    /\ completed' = completed - 1
    /\ timerStrand' = Append(timerStrand, "wait")
    /\ UNCHANGED <<pending, RideThroughInProgress, CommsIsBad, commsPoint>>

\* The wait's handler: it looks at RideThroughInProgress, never at err.
RunWait ==
    /\ TimerRuns("wait")
    /\ IF RideThroughInProgress
       THEN commsPoint' = "failed" /\ CommsIsBad' = TRUE
       ELSE UNCHANGED <<commsPoint, CommsIsBad>>
    /\ RideThroughInProgress' = FALSE
    /\ UNCHANGED <<completed, pending>>

TimerTypeOK ==
    /\ \A i \in DOMAIN timerStrand :
         timerStrand[i] \in {"Trigger", "FastForward", "Cancel", "wait"}
    /\ pending \in BOOLEAN
    /\ completed \in Nat
    /\ RideThroughInProgress \in BOOLEAN /\ CommsIsBad \in BOOLEAN
    /\ commsPoint \in {"unset", "failed", "good"}
=============================================================================
