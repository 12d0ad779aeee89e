----------------------------- MODULE MCTransport -----------------------------
(***************************************************************************)
(* How libODC carries events between ports and bytes between a port and    *)
(* its device.  The two have no state in common, and a behaviour takes the *)
(* steps of one of them.                                                   *)
(*   events   an event on its way through connectors and transforms to the *)
(*            receivers, and their answers on the way back                 *)
(*   bytes    a TCPSocketManager, in one of its setups                     *)
(***************************************************************************)
EXTENDS MCEventRouting, MCTCPSocketManager

VARIABLE active     \* the half this behaviour exercises

MCInit == /\ active \in {"events", "bytes"}
          /\ RoutingInit /\ Init
          /\ active = "events" => setup = Client
          /\ active = "bytes" => \A n \in Subscribers : enabled[n]

EventsStep == active = "events" /\ RoutingNext /\ UNCHANGED <<vars, active>>
BytesStep == active = "bytes" /\ Next /\ UNCHANGED <<routingVars, active>>

MCNext == EventsStep \/ BytesStep

\* No fair step is enabled in the initial state of the half left alone.
MCSpec == /\ MCInit /\ [][MCNext]_<<routingVars, vars, active>>
          /\ RoutingFairness /\ Fairness
=============================================================================
