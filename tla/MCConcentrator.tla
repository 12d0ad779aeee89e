--------------------------- MODULE MCConcentrator ----------------------------
(***************************************************************************)
(* The two halves of a concentrator's reload.  ConcentratorThreads keeps   *)
(* the collections to itself while they are changed, ReloadConfig changes  *)
(* them in one step; they have no state in common, and a behaviour takes   *)
(* the steps of one of them.                                               *)
(*   threads  a pool of two threads and the one that calls Run(), and two  *)
(*            elements, one of them enabled after a delay                  *)
(*   graph    three ports and two connectors.  A port may be absent,       *)
(*            invalid or in one of three versions, a connector absent or     *)
(*            with one of two contents.                                    *)
(***************************************************************************)
EXTENDS ReloadConfig, ConcentratorThreads, TLC

CONSTANTS p, q, r, c, d, m, t1, t2, e1, e2

MCWorkers == {m, t1, t2}
MCElements == {e1, e2}
MCDelayed == {e2}

MCPorts == {p, q, r}
MCConnectors == {c, d}

PortEntries ==
    {Absent, <<"v1", 1, 1>>, <<"v1", 1, 2>>, <<"v1", 2, 1>>, <<"invalid", 1, 1>>}
ConnEntries(contents) == {Absent} \cup (contents \X {1} \X {1})

AllEntries(vp, vq, vr, vc, vd) ==
    {p :> a @@ q :> b @@ r :> e @@ c :> x @@ d :> y :
        a \in vp, b \in vq, e \in vr, x \in vc, y \in vd}

PQ == {p, q}
QR == {q, r}
Ok(v) == <<v, 1, 1>>

Entries == AllEntries(PortEntries, {Absent, Ok("v1"), Ok("v2")}, {Ok("v1")},
                      ConnEntries({{PQ}, {PQ, QR}}), ConnEntries({{QR}}))

NoObjects == [n \in MCPorts \cup MCConnectors |-> Absent]
MCConfigs == {[entry |-> e, log |-> 1] : e \in Entries \cup {NoObjects}}

First == [entry |-> p :> Ok("v1") @@ q :> Ok("v1") @@ r :> Ok("v1")
                    @@ c :> <<{PQ}, 1, 1>> @@ d :> <<{QR}, 1, 1>>, log |-> 1]

\* A file that is inherited by an inherited file changes.
AncestorConfigs ==
    {[entry |-> [First.entry EXCEPT ![p] = <<"v1", 1, a>>], log |-> 1] : a \in {1, 2}}

\* The log sinks change, and a port may go.
LogConfigs == {[entry |-> [First.entry EXCEPT ![p] = e], log |-> l] :
                  e \in {Absent, Ok("v1")}, l \in {1, 2}}

\* A port comes and goes.
NewPortConfigs ==
    {[entry |-> [First.entry EXCEPT ![p] = e], log |-> 1] : e \in {Absent, Ok("v1")}}
NewPortFirst == [entry |-> [First.entry EXCEPT ![p] = Absent], log |-> 1]

VARIABLE active     \* the half this behaviour exercises

MCInit == active \in {"threads", "graph"} /\ Init /\ ThreadsInit

ThreadsStep == active = "threads" /\ ThreadsNext /\ UNCHANGED <<vars, active>>
GraphStep == active = "graph" /\ Next /\ UNCHANGED <<threadVars, active>>

MCNext == ThreadsStep \/ GraphStep

MCSpec == /\ MCInit /\ [][MCNext]_<<vars, threadVars, active>>
          /\ active = "threads" => ThreadsFairness
=============================================================================
