------------------------------ MODULE MCLibrary ------------------------------
(***************************************************************************)
(* Five classes whose state several threads share, side by side.  They     *)
(* have no state in common and never call each other, so a behaviour       *)
(* exercises one of them and leaves the others in their initial state.     *)
(*   callback three receivers and three statuses: two receivers can agree   *)
(*            against a third, on a status that is neither SUCCESS nor      *)
(*            UNDEFINED                                                     *)
(*   service  three threads and three generations of the service: one can  *)
(*            create it, one delete the one before, and one spin           *)
(*   demand   two senders that share a receiver, one of them with another  *)
(*            receiver of its own, and two workers                         *)
(*   rate     two updaters, two updates per period, a burst of four        *)
(*   queue    a queue of three, five events and a disable                  *)
(***************************************************************************)
EXTENDS SyncMultiCallback, AsioServiceGet, DemandMux, RateLimitTransform,
        SpecialEventQueue, TLC

CONSTANTS t1, t2, t3, s1, s2, r1, r2, r3, BLOCKED

MCCallers == {r1, r2, r3}
MCStatus == {SUCCESS, BLOCKED, UNDEFINED}
MCThreads == {t1, t2, t3}
MCUpdaters == {t1, t2}
MCSenders == {s1, s2}
MCReceivers == {r1, r2}
MCConnected == s1 :> {r1, r2} @@ s2 :> {r1}
MCWorkers == {t1, t2}

VARIABLE active     \* the class this behaviour exercises

MCInit == /\ active \in {"callback", "service", "demand", "rate", "queue"}
          /\ CallbackInit /\ Init /\ MuxInit /\ RateInit /\ QueueInit

CallbackStep == /\ active = "callback" /\ CallbackNext
                /\ UNCHANGED <<vars, muxVars, rateVars, queueVars, active>>
ServiceStep == /\ active = "service" /\ Next
               /\ UNCHANGED <<callbackVars, muxVars, rateVars, queueVars, active>>
DemandStep == /\ active = "demand" /\ MuxNext
              /\ UNCHANGED <<callbackVars, vars, rateVars, queueVars, active>>
RateStep == /\ active = "rate" /\ RateNext
            /\ UNCHANGED <<callbackVars, vars, muxVars, queueVars, active>>
QueueStep == /\ active = "queue" /\ QueueNext
             /\ UNCHANGED <<callbackVars, vars, muxVars, rateVars, active>>

MCNext == CallbackStep \/ ServiceStep \/ DemandStep \/ RateStep \/ QueueStep

MCSpec == /\ MCInit
          /\ [][MCNext]_<<callbackVars, vars, muxVars, rateVars, queueVars, active>>
          /\ active = "callback" => CallbackFairness
=============================================================================
