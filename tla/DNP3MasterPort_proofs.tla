------------------------ MODULE DNP3MasterPort_proofs ------------------------
(***************************************************************************)
(* A failure of the comms is reported once, for any configuration and any  *)
(* number of link changes.  Only the handlers on the timer's strand touch  *)
(* what the proof is about; everything else the port does can at most post *)
(* another handler, in any order.                                          *)
(***************************************************************************)
EXTENDS DNP3MasterPort, TLAPS

ride == <<RideThroughInProgress, CommsIsBad, commsPoint>>

RideTypeOK == /\ RideThroughInProgress \in BOOLEAN /\ CommsIsBad \in BOOLEAN
              /\ commsPoint \in {"unset", "failed", "good"}

RideInv == RideTypeOK /\ FailureReportedOnce

\* A handler of the ChannelHandler's strand posts to the timer at most.
LEMMA ChannelStepRide == ChannelStep => UNCHANGED ride
<1> USE DEF ChanRuns, LinkStays, TimerPost, ride, timer
<1>1. LinkGoesUp => UNCHANGED ride
  BY DEF LinkGoesUp
<1>2. \A to : LinkGoesDown(to) => UNCHANGED ride
  BY DEF LinkGoesDown, PortDown
<1>3. StateListener \/ LinkUp \/ LinkDown => UNCHANGED ride
  BY <1>1, <1>2 DEF StateListener, LinkUp, LinkDown
<1>4. StackEnabled \/ CommsGood => UNCHANGED ride
  BY DEF StackEnabled, CommsGood
<1>5. \A iin : HandleIIN(iin) => UNCHANGED ride
  BY DEF HandleIIN
<1>6. QED
  BY <1>3, <1>4, <1>5 DEF ChannelStep

\* Outside of its strand, nothing touches the timer's state.
LEMMA OnlyTheTimerRides == PortNext => TimerStep \/ TimerCompletes \/ UNCHANGED ride
<1> SUFFICES ASSUME PortNext PROVE TimerStep \/ TimerCompletes \/ UNCHANGED ride
  OBVIOUS
<1> USE DEF ride, timer
<1>1. Enable \/ Disable => UNCHANGED ride
  BY DEF Enable, Disable, PortDown, TimerPost
<1>2. \A c : UpstreamEvent(c) => UNCHANGED ride
  BY DEF UpstreamEvent
<1>3. \A i : StackTask(i) => UNCHANGED ride
  BY DEF StackTask
<1>4. ChannelOpens \/ KeepAliveSuccess \/ KeepAliveFailure => UNCHANGED ride
  BY DEF ChannelOpens, KeepAliveSuccess, KeepAliveFailure, OutsideStays
<1>5. /\ \A p : PeerBecomes(p) => UNCHANGED ride
      /\ \A iin : ReceiveIIN(iin) => UNCHANGED ride
  BY DEF PeerBecomes, ReceiveIIN, OutsideStays
<1>6. StabilityTimer \/ Watchdog => UNCHANGED ride
  BY DEF StabilityTimer, Watchdog
<1>7. QED
  BY <1>1, <1>2, <1>3, <1>4, <1>5, <1>6, ChannelStepRide DEF PortNext

(***************************************************************************)
(* CommsRideThroughTimer calls CommsBadCB at most once between two calls   *)
(* of CommsGoodCB, and Trigger() starts no ride-through while the comms    *)
(* are bad: the run's FailureReportedOnce, for every set of configurations *)
(* and without the run's bound on what opendnp3 reports.                   *)
(***************************************************************************)
THEOREM Spec_FailureReportedOnce == PortSpec => []FailureReportedOnce
<1>1. PortInit => RideInv
  BY DEF PortInit, TimerInit, RideInv, RideTypeOK, FailureReportedOnce
<1>2. RideInv /\ [PortNext]_portVars => RideInv'
  <2> SUFFICES ASSUME RideInv, [PortNext]_portVars PROVE RideInv'
    OBVIOUS
  <2> USE DEF RideInv, RideTypeOK, FailureReportedOnce
  <2>1. CASE UNCHANGED ride
    BY <2>1 DEF ride
  <2>2. CASE TimerCompletes
    BY <2>2 DEF TimerCompletes, Expire, Dispatch
  <2>3. CASE TimerStep
    <3>1. CASE RunTrigger
      BY <3>1 DEF RunTrigger, Ignored
    <3>2. CASE RunFastForward
      BY <3>2 DEF RunFastForward
    <3>3. CASE RunCancelRiding
      BY <3>3 DEF RunCancelRiding
    <3>4. CASE RunWait
      BY <3>4 DEF RunWait
    <3>5. CASE RunCancelGood
      BY <3>5 DEF RunCancelGood
    <3>6. QED
      BY <2>3, <3>1, <3>2, <3>3, <3>4, <3>5 DEF TimerStep
  <2>4. CASE UNCHANGED portVars
    BY <2>1, <2>4 DEF portVars, timer, ride
  <2>5. QED
    BY <2>1, <2>2, <2>3, <2>4, OnlyTheTimerRides
<1>3. RideInv => FailureReportedOnce
  BY DEF RideInv
<1>4. QED
  BY <1>1, <1>2, <1>3, PTL DEF PortSpec
=============================================================================
