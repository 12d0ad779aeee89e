--------------------------- MODULE MCEventRouting ----------------------------
(* Two connectors, one with two receivers and one with a single receiver,  *)
(* so that both forms of the callback nest.  Their transforms move the     *)
(* index in different directions, up to the limits of its range: index 2   *)
(* passes both, the others are dropped by one or both.                     *)
EXTENDS EventRouting, TLC

CONSTANTS c1, c2, r1, r2, BLOCKED

MCSubscribers == {c1, c2}
MCReceivers == {r1, r2}
MCConnections == c1 :> {r1, r2} @@ c2 :> {r1}
MCStatus == {SUCCESS, BLOCKED, UNDEFINED}

MCEvents == {[type |-> "Analog", index |-> i, payload |-> 2] : i \in {1, 2, 3}}
            \cup {[type |-> "Binary", index |-> 1, payload |-> 1],
                  [type |-> "ConnectState", index |-> 0, payload |-> 0]}

Shift(k) == [kind |-> "IndexOffset", offset |-> k]
Remap == [kind |-> "IndexMap", map |-> "Analog" :> (2 :> 1 @@ 3 :> 3) @@ "Binary" :> (1 :> 2)]
Scale == [kind |-> "AnalogScaling", scale |-> 2 :> 3, offsets |-> 2 :> 1]

\* Only the last transform of a chain drops an event in this instance.
MCTransforms == c1 :> << [kind |-> "LogicInv"], Shift(1), Scale, Remap >>
                @@ c2 :> << [kind |-> "Rand"], Shift(-1) >>

\* A transform that drops the indexes it does not map, before another one.
DropsFirst == c1 :> << Remap, [kind |-> "LogicInv"] >>
              @@ c2 :> << >>

\* The loop of DataConnector::Event wraps the handlers of each chain so that they
\* run in the order of the configuration.
ASSUME HandlersAssumption ==
    \A c \in Subscribers : WrapHandlers(SenderTransforms[c]) = SenderTransforms[c]
=============================================================================
