------------------------------ MODULE DemandMux ------------------------------
(***************************************************************************)
(* Upstream demand: how the ConnectState events that ports publish reach   *)
(* the DemandMap of a DataConnector and, through it, the DemandMap of each *)
(* receiving port (IOHandler.h, IOHandler.cpp, DataConnector.cpp,          *)
(* DataPort.h).  A port published from outside the thread pool posts one   *)
(* task per subscriber; the tasks start in the order they were posted, but *)
(* they share no strand, so with several workers they overlap.             *)
(***************************************************************************)
EXTENDS Naturals, Sequences

CONSTANTS Senders,      \* ports that publish through the connector
          Receivers,    \* ports at the other end of its connections
          Connected,    \* Connected[s]: the receivers connected to sender s
          Workers,      \* the threads running the io_service
          MaxPublished  \* bound on the number of published events

ASSUME TopologyAssumption == /\ Connected \in [Senders -> SUBSET Receivers]
                             /\ MaxPublished \in Nat

ConnectStates == {"CONNECTED", "DISCONNECTED", "PORT_UP"}

VARIABLES
    linkUp,             \* linkUp[s]: the last link state sender s published
    posted,             \* number of events published so far
    queue,              \* tasks posted to the pool, not yet started
    connection_demands, \* the connector's map: [Receivers -> [Senders -> BOOLEAN]]
    demand,             \* demand[r]: the entry of the connector in r's own map
    task,               \* what each worker is doing
    raced, overtaken    \* history: receivers at which opposite events have
                        \* overlapped, and those where one sender's own have

muxHistory == <<raced, overtaken>>
muxVars == <<linkUp, posted, queue, connection_demands, demand, task, muxHistory>>

NoTask == [pc |-> "idle"]

\* left: the connections the loop has yet to visit; rcv: the one it is at.
Loop(state, sender, left) ==
    [pc |-> "loop", state |-> state, sender |-> sender, left |-> left]
At(pc, t, r) ==
    [pc |-> pc, state |-> t.state, sender |-> t.sender, left |-> t.left \ {r}, rcv |-> r]

MuxInit ==
    /\ linkUp = [s \in Senders |-> FALSE]
    /\ posted = 0
    /\ queue = <<>>
    /\ connection_demands = [r \in Receivers |-> [s \in Senders |-> FALSE]]
    /\ demand = [r \in Receivers |-> FALSE]
    /\ task = [w \in Workers |-> NoTask]
    /\ raced = {} /\ overtaken = {}

-----------------------------------------------------------------------------
\* The tasks PublishEvent(ConnectState) posts to the pool for a connector.
Posted(s, state) == << [state |-> state, sender |-> s] >>

\* PublishEvent(ConnectState) of sender s, posting the connector's Event().
Publish(s, state) ==
    /\ posted < MaxPublished
    /\ posted' = posted + 1
    /\ linkUp' = [linkUp EXCEPT ![s] = CASE state = "CONNECTED"    -> TRUE
                                         [] state = "DISCONNECTED" -> FALSE
                                         [] OTHER                  -> @]
    /\ queue' = queue \o Posted(s, state)
    /\ UNCHANGED <<connection_demands, demand, task, muxHistory>>

\* The receivers a task has yet to tell, or is telling.
Ahead(t) ==
    IF t.pc = "idle" THEN {}
    ELSE t.left \cup (IF t.pc \in {"recheck", "forward"} THEN {t.rcv} ELSE {})

Opposite(a, b) == {a, b} = {"CONNECTED", "DISCONNECTED"}

\* The receivers at which event e starts while task t says the opposite.
Meets(e, t) ==
    IF t.pc # "idle" /\ Opposite(e.state, t.state) THEN Connected[e.sender] \cap Ahead(t) ELSE {}

\* A free worker takes the oldest task: DataConnector::Event(state, sender).
Start(w) ==
    /\ task[w].pc = "idle"
    /\ queue # <<>>
    /\ queue' = Tail(queue)
    /\ task' = [task EXCEPT ![w] = LET e == Head(queue)
                                   IN  Loop(e.state, e.sender, Connected[e.sender])]
    /\ raced' = raced \cup UNION {Meets(Head(queue), task[v]) : v \in Workers}
    /\ overtaken' = overtaken \cup UNION {Meets(Head(queue), task[v]) :
                        v \in {u \in Workers : task[u].pc # "idle" /\ task[u].sender = Head(queue).sender}}
    /\ UNCHANGED <<linkUp, posted, connection_demands, demand>>

\* DemandMap::InDemand(r), under the mutex.
InDemandAnySender(r) == TRUE
InDemand(r) == \E s \in Senders : connection_demands[r][s]

\* DISCONNECTED: the first critical section of MuxConnectionEvents.
MuxDisconnected(w, r) ==
    /\ task[w].state = "DISCONNECTED"
    /\ connection_demands' = [connection_demands EXCEPT ![r][task[w].sender] = FALSE]
    /\ task' = [task EXCEPT ![w] = At("recheck", task[w], r)]
    /\ UNCHANGED demand

\* CONNECTED: passed on only when this sender's demand is new.
NextAfterMux(new_demand) == IF new_demand THEN "forward" ELSE "skip"

MuxConnected(w, r) ==
    /\ task[w].state = "CONNECTED"
    /\ connection_demands' = [connection_demands EXCEPT ![r][task[w].sender] = TRUE]
    /\ task' = [task EXCEPT ![w] =
                  At(NextAfterMux(~connection_demands[r][task[w].sender]), task[w], r)]
    /\ UNCHANGED demand

\* Any other state changes no demand and is always passed on.
MuxOther(w, r) ==
    /\ task[w].state \notin {"CONNECTED", "DISCONNECTED"}
    /\ task' = [task EXCEPT ![w] = At("forward", task[w], r)]
    /\ UNCHANGED <<connection_demands, demand>>

\* One turn of the loop over the sender's connections.
Mux(w, r) == /\ task[w].pc = "loop"
             /\ r \in task[w].left
             /\ MuxDisconnected(w, r) \/ MuxConnected(w, r) \/ MuxOther(w, r)
             /\ UNCHANGED <<linkUp, posted, queue, muxHistory>>

\* DISCONNECTED: InDemand() takes the mutex a second time.
Recheck(w) ==
    /\ task[w].pc = "recheck"
    /\ task' = [task EXCEPT ![w].pc = IF InDemand(task[w].rcv) THEN "skip" ELSE "forward"]
    /\ UNCHANGED <<linkUp, posted, queue, connection_demands, demand, muxHistory>>

\* The receiver's own Event(state, connector), called under no lock.
Forward(w) ==
    /\ task[w].pc = "forward"
    /\ demand' = [demand EXCEPT ![task[w].rcv] =
                    CASE task[w].state = "CONNECTED"    -> TRUE
                      [] task[w].state = "DISCONNECTED" -> FALSE
                      [] OTHER                          -> @]
    /\ task' = [task EXCEPT ![w].pc = "skip"]
    /\ UNCHANGED <<linkUp, posted, queue, connection_demands, muxHistory>>

\* The loop goes on with the next connection, or the task ends.
Continue(w) ==
    /\ \/ /\ task[w].pc = "skip"
          /\ task' = [task EXCEPT ![w] = Loop(@.state, @.sender, @.left)]
       \/ /\ task[w].pc = "loop" /\ task[w].left = {}
          /\ task' = [task EXCEPT ![w] = NoTask]
    /\ UNCHANGED <<linkUp, posted, queue, connection_demands, demand, muxHistory>>

MuxNext ==
    \/ \E s \in Senders, state \in ConnectStates : Publish(s, state)
    \/ \E w \in Workers : \/ Start(w) \/ Recheck(w) \/ Forward(w) \/ Continue(w)
                          \/ \E r \in Receivers : Mux(w, r)

MuxSpec == MuxInit /\ [][MuxNext]_muxVars

-----------------------------------------------------------------------------
TaskRecords ==
    {NoTask}
    \cup {Loop(st, s, l) : st \in ConnectStates, s \in Senders, l \in SUBSET Receivers}
    \cup [pc : {"recheck", "forward", "skip"}, state : ConnectStates,
          sender : Senders, left : SUBSET Receivers, rcv : Receivers]

\* The type invariant.
MuxTypeOK ==
    /\ linkUp \in [Senders -> BOOLEAN]
    /\ posted \in 0 .. MaxPublished
    /\ queue \in Seq([state : ConnectStates, sender : Senders])
    /\ Len(queue) <= posted
    /\ connection_demands \in [Receivers -> [Senders -> BOOLEAN]]
    /\ demand \in [Receivers -> BOOLEAN]
    /\ task \in [Workers -> TaskRecords]
    /\ overtaken \subseteq raced /\ raced \subseteq Receivers

Quiescent == queue = <<>> /\ \A w \in Workers : task[w] = NoTask

Wanted(r) == \E s \in Senders : r \in Connected[s] /\ linkUp[s]

(***************************************************************************)
(* When nothing is under way, a receiver is in demand exactly when some    *)
(* sender connected to it last published CONNECTED (MuxConnectionEvents).  *)
(* An on-demand port opens and closes its link on this answer.  Events of  *)
(* any workers may overlap in any order, as long as no two that say the    *)
(* opposite of each other have been on their way to the receiver at once.  *)
(***************************************************************************)
DemandExact == Quiescent => \A r \in Receivers \ raced : demand[r] = Wanted(r)

(***************************************************************************)
(* Where they have, a withdrawal is still not lost: a receiver that nobody *)
(* wants any more is not left in demand by the events of other senders     *)
(* (InDemand is asked again after each DISCONNECTED), unless a sender's    *)
(* own events have overtaken each other.                                   *)
(***************************************************************************)
NoDemandLeft ==
    Quiescent => \A r \in Receivers \ overtaken : demand[r] => Wanted(r)

(***************************************************************************)
(* The other direction: "disconnect ourselves if it was the last active    *)
(* connection".  A receiver that some sender still wants is in demand.     *)
(***************************************************************************)
DemandKept ==
    Quiescent => \A r \in Receivers \ overtaken : Wanted(r) => demand[r]
=============================================================================
