---------------------------- MODULE EventRouting -----------------------------
(***************************************************************************)
(* One event on its way from the port that publishes it, through the       *)
(* connectors subscribed to that port and their transforms, to the ports   *)
(* at the other end, and the status on its way back (IOHandler.h,          *)
(* IOHandler.cpp, DataConnector.cpp).  PublishEvent combines the status of *)
(* its connectors with one SyncMultiCallback, and each connector combines  *)
(* the status of its receivers with another.                               *)
(***************************************************************************)
EXTENDS Transforms, Sequences, Functions, FiniteSets

CONSTANTS Subscribers,   \* the connectors subscribed to the publisher
          Receivers,     \* the ports at the other end of their connections
          Connections,   \* Connections[c]: the receivers of connector c
          SenderTransforms, \* SenderTransforms[c]: sequence of transforms
          Events,        \* the events that may be published
          Status, SUCCESS, UNDEFINED,
          Publisher,     \* the node of the publisher's own callback
          None

\* The transforms of all the configurations.
Configured == UNION {Range(SenderTransforms[c]) : c \in Subscribers}

ASSUME RoutingAssumption ==
    /\ Connections \in [Subscribers -> SUBSET Receivers]
    /\ Publisher \notin Subscribers
    /\ {SUCCESS, UNDEFINED} \subseteq Status /\ SUCCESS # UNDEFINED
    /\ NULL \notin Events /\ None \notin Events \cup Status
    /\ IsFiniteSet(Subscribers) /\ IsFiniteSet(Receivers)
    /\ \A c \in Subscribers : SenderTransforms[c] \in Seq(Configured)
    /\ \A t \in Configured : t.kind \in Kinds

VARIABLES
    event,    \* the published event, None before that
    enabled,  \* enabled[c]
    stage,    \* stage[c]: how far connector c is with the event
    chain,    \* chain[c]: the handlers still to call, the destination excluded
    evt,      \* evt[c]: connector c's own copy of the event, or NULL
    got,      \* got[c][r]: what receiver r was given by c
    reply,    \* reply[c][r]: the status r passed to its callback
    cbs,      \* the status callbacks: strand queue, combined status and count
              \* of each SyncMultiCallback, and the calls to the publisher
    crashed   \* a null event was dereferenced

routingVars == <<event, enabled, stage, chain, evt, got, reply, cbs, crashed>>

RoutingInit ==
    /\ event = None
    /\ enabled \in [Subscribers -> BOOLEAN]
    /\ stage = [c \in Subscribers |-> "none"]
    /\ chain = [c \in Subscribers |-> <<>>]
    /\ evt = [c \in Subscribers |-> None]
    /\ got = [c \in Subscribers |-> [r \in Connections[c] |-> None]]
    /\ reply = [c \in Subscribers |-> [r \in Connections[c] |-> None]]
    /\ cbs = [strand   |-> [n \in Subscribers \cup {Publisher} |-> <<>>],
              combined |-> [n \in Subscribers \cup {Publisher} |-> SUCCESS],
              count    |-> [n \in Subscribers \cup {Publisher} |-> 0],
              verdict  |-> <<>>]
    /\ crashed = FALSE

-----------------------------------------------------------------------------
(***************************************************************************)
(* Status callbacks.  CallBack(cb, n, s) calls the callback that node n   *)
(* gave to its children: the node's own pStatusCallback when it has fewer  *)
(* than two of them, a handler on the node's strand otherwise.             *)
(***************************************************************************)
cb_number(n) == Cardinality(IF n = Publisher THEN Subscribers ELSE Connections[n])

ToStrand(cb, n, s) == [cb EXCEPT !.strand[n] = Append(@, s)]

CallPublisher(cb, s) ==
    IF cb_number(Publisher) < 2
    THEN [cb EXCEPT !.verdict = Append(@, s)]
    ELSE ToStrand(cb, Publisher, s)

\* The pStatusCallback node n was itself given.
CallParent(cb, n, s) ==
    IF n = Publisher THEN [cb EXCEPT !.verdict = Append(@, s)] ELSE CallPublisher(cb, s)

CallBack(cb, n, s) == IF cb_number(n) < 2 THEN CallParent(cb, n, s) ELSE ToStrand(cb, n, s)

\* multi_cb: the status s gets its turn on the strand of node n.
LatestStatus(cb, n, s) == s

CombinedStatus(cb, n, s) ==
    IF cb.count[n] = 0 THEN s ELSE IF s = cb.combined[n] THEN s ELSE UNDEFINED

Count(cb, n, s) ==
    LET new == CombinedStatus(cb, n, s)
        upd == [cb EXCEPT !.count[n] = @ + 1, !.combined[n] = new]
    IN  IF new = UNDEFINED \/ upd.count[n] >= cb_number(n)
        THEN CallParent(upd, n, new)
        ELSE upd

RunMultiCbAfterVerdict(cb, n, s) == Count(cb, n, s)

RunMultiCb(cb, n, s) == IF cb.combined[n] = UNDEFINED THEN cb ELSE Count(cb, n, s)

-----------------------------------------------------------------------------
\* PublishEvent: every subscriber's Event() is posted, or called in turn.
Publish(e) ==
    /\ ~crashed
    /\ event = None
    /\ event' = e
    /\ stage' = [c \in Subscribers |-> "posted"]
    /\ UNCHANGED <<enabled, chain, evt, got, reply, cbs, crashed>>

(***************************************************************************)
(* The loop that wraps ToDestination runs over the transforms from the     *)
(* last to the first, so that the handler it ends with calls the first:    *)
(* ToDestination[k] is the handler after k turns.                          *)
(***************************************************************************)
WrapHandlers(transforms) ==
    LET n == Len(transforms)
        ToDestination[k \in 0 .. n] ==
          IF k = 0 THEN <<>> ELSE <<transforms[n - k + 1]>> \o ToDestination[k - 1]
    IN  ToDestination[n]

\* The event object the transforms will change: a copy of the published one.
EventOfAnotherConnector(c) ==
    LET held == {d \in Subscribers : evt[d] \notin {None, NULL}}
    IN  IF held = {} THEN event ELSE evt[CHOOSE d \in held : TRUE]

new_event_obj(c) == event

(***************************************************************************)
(* DataConnector::Event on a pool thread.                                  *)
(***************************************************************************)
RefuseSilently(c) ==
    /\ stage' = [stage EXCEPT ![c] = "done"]
    /\ UNCHANGED <<cbs, chain, evt>>

Refuse(c) ==
    /\ stage' = [stage EXCEPT ![c] = "done"]
    /\ cbs' = CallPublisher(cbs, UNDEFINED)
    /\ UNCHANGED <<chain, evt>>

Accept(c) ==
    /\ stage' = [stage EXCEPT ![c] = "chain"]
    /\ chain' = [chain EXCEPT ![c] = WrapHandlers(SenderTransforms[c])]
    /\ evt' = [evt EXCEPT ![c] = new_event_obj(c)]
    /\ UNCHANGED cbs

ConnectorEvent(c) ==
    /\ ~crashed
    /\ stage[c] = "posted"
    /\ IF enabled[c] /\ Connections[c] # {} THEN Accept(c) ELSE Refuse(c)
    /\ UNCHANGED <<event, enabled, got, reply, crashed>>

\* The next transform of the chain is handed the event, null or not.
TransformStep(c) ==
    /\ ~crashed
    /\ stage[c] = "chain" /\ chain[c] # <<>>
    /\ chain' = [chain EXCEPT ![c] = Tail(@)]
    /\ IF evt[c] = NULL /\ Dereferences(Head(chain[c]))
       THEN crashed' = TRUE /\ UNCHANGED evt
       ELSE /\ \E o \in Outcomes(Head(chain[c]), evt[c]) : evt' = [evt EXCEPT ![c] = o]
            /\ UNCHANGED crashed
    /\ UNCHANGED <<event, enabled, stage, got, reply, cbs>>

\* ToDestination with a null event: answered for all the receivers at once.
AnswerDropped(cb) == CallPublisher(cb, UNDEFINED)

Dropped(c) ==
    /\ ~crashed
    /\ stage[c] = "chain" /\ chain[c] = <<>> /\ evt[c] = NULL
    /\ stage' = [stage EXCEPT ![c] = "done"]
    /\ cbs' = AnswerDropped(cbs)
    /\ UNCHANGED <<event, enabled, chain, evt, got, reply, crashed>>

\* ToDestination: the loop calls the receivers one after the other.
Deliver(c, r) ==
    /\ ~crashed
    /\ stage[c] = "chain" /\ chain[c] = <<>> /\ evt[c] # NULL
    /\ r \in Connections[c] /\ got[c][r] = None
    /\ got' = [got EXCEPT ![c][r] = evt[c]]
    /\ stage' = [stage EXCEPT ![c] =
                   IF \E q \in Connections[c] \ {r} : got[c][q] = None THEN @ ELSE "done"]
    /\ UNCHANGED <<event, enabled, chain, evt, reply, cbs, crashed>>

\* A receiver answers, at once or later, from whatever thread.
Answer(c, r, s) ==
    /\ ~crashed
    /\ got[c][r] # None /\ reply[c][r] = None
    /\ reply' = [reply EXCEPT ![c][r] = s]
    /\ cbs' = CallBack(cbs, c, s)
    /\ UNCHANGED <<event, enabled, stage, chain, evt, got, crashed>>

\* The oldest handler on a callback's strand runs.
RunStrand(n) ==
    /\ ~crashed
    /\ cbs.strand[n] # <<>>
    /\ cbs' = RunMultiCb([cbs EXCEPT !.strand[n] = Tail(@)], n, Head(cbs.strand[n]))
    /\ UNCHANGED <<event, enabled, stage, chain, evt, got, reply, crashed>>

\* Enable() and Disable() of a connector, from the user interface.
SetEnabled(c) ==
    /\ ~crashed
    /\ enabled' = [enabled EXCEPT ![c] = ~@]
    /\ UNCHANGED <<event, stage, chain, evt, got, reply, cbs, crashed>>

Connector(c) == \/ ConnectorEvent(c) \/ TransformStep(c) \/ Dropped(c)
                \/ \E r \in Connections[c] : Deliver(c, r)

RoutingNext ==
    \/ \E e \in Events : Publish(e)
    \/ \E c \in Subscribers : \/ Connector(c) \/ SetEnabled(c)
                              \/ \E r \in Connections[c], s \in Status : Answer(c, r, s)
    \/ \E n \in Subscribers \cup {Publisher} : RunStrand(n)

(***************************************************************************)
(* The pool runs every posted task and strand handler, and every receiver  *)
(* answers the events it is given.                                         *)
(***************************************************************************)
RoutingFairness ==
    /\ \A c \in Subscribers :
         /\ WF_routingVars(Connector(c))
         /\ \A r \in Connections[c] : WF_routingVars(\E s \in Status : Answer(c, r, s))
    /\ \A n \in Subscribers \cup {Publisher} : WF_routingVars(RunStrand(n))

RoutingSpec == RoutingInit /\ [][RoutingNext]_routingVars /\ RoutingFairness

-----------------------------------------------------------------------------
\* The type invariant.
RoutingTypeOK ==
    /\ event \in Events \cup {None}
    /\ enabled \in [Subscribers -> BOOLEAN]
    /\ stage \in [Subscribers -> {"none", "posted", "chain", "done"}]
    /\ \A c \in Subscribers : Len(chain[c]) <= Len(SenderTransforms[c])
    /\ \A c \in Subscribers : reply[c] \in [Connections[c] -> Status \cup {None}]
    /\ \A n \in Subscribers \cup {Publisher} :
         /\ cbs.count[n] + Len(cbs.strand[n]) <= cb_number(n)
         /\ cbs.combined[n] \in Status
    /\ crashed \in BOOLEAN

(***************************************************************************)
(* The publisher's callback runs at most once, whatever mixture of refused *)
(* tasks, dropped events and receivers' answers reaches it.                *)
(***************************************************************************)
PublisherCalledAtMostOnce == Len(cbs.verdict) <= 1

(***************************************************************************)
(* A verdict other than UNDEFINED was given by every receiver of every     *)
(* subscribed connector: no connector refused the event, no transform      *)
(* dropped it, no receiver disagreed.                                      *)
(***************************************************************************)
VerdictReachesAllReceivers ==
    cbs.verdict # <<>> /\ cbs.verdict[1] # UNDEFINED
      => \A c \in Subscribers : /\ Connections[c] # {}
                                /\ \A r \in Connections[c] : reply[c][r] = cbs.verdict[1]

(***************************************************************************)
(* What a receiver is given is the published event put through the         *)
(* connector's transforms in the order of its configuration: no other      *)
(* connector's transforms show in it.                                      *)
(***************************************************************************)
Passed(t, es) == UNION {IF e = NULL THEN {NULL} ELSE Outcomes(t, e) : e \in es}

Composed(c) ==
    LET transforms == SenderTransforms[c]
        after[k \in 0 .. Len(transforms)] ==
          IF k = 0 THEN {event} ELSE Passed(transforms[k], after[k - 1])
    IN  after[Len(transforms)]

ReceivedIsComposed ==
    \A c \in Subscribers : \A r \in Connections[c] :
      got[c][r] # None => got[c][r] \in Composed(c) \ {NULL}

\* Every published event is answered (for a publisher with a subscriber).
EventuallyAnswered == event # None ~> cbs.verdict # <<>>

(***************************************************************************)
(* An event that a transform drops is answered: the publisher's callback   *)
(* is called with UNDEFINED.  (BlackHoleTransform.h: "Will result in the   *)
(* callback being called with response undefined".)                        *)
(***************************************************************************)
DropIsAnswered ==
    \A c \in Subscribers : evt[c] = NULL ~> cbs.verdict = <<UNDEFINED>>
=============================================================================
