--------------------------------- MODULE MD3Link ---------------------------------
(***************************************************************************)
(* An MD3 master and an MD3 outstation on one connection.  The connection  *)
(* keeps the order of what it carries; it may lose a message (a block that *)
(* is damaged, a reply dropped), may be slower than the master's timeout,  *)
(* and may go down and come up.  What is sent while it is down is buffered *)
(* by the socket managers of both ends.                                    *)
(***************************************************************************)
EXTENDS MD3Master, MD3Outstation

VARIABLES
    up,              \* the connection
    polls, losses, drops, changes, \* how much of its bounds the environment has used
    asked            \* the controls asked for

envVars == <<up, polls, losses, drops, changes, asked>>
vars == <<setup, masterVars, outstationVars, envVars>>

Init ==
    /\ setup \in Setups
    /\ MasterInit /\ OutstationInit
    /\ up = TRUE
    /\ polls = 0 /\ losses = 0 /\ drops = 0 /\ changes = 0
    /\ asked = {}

\* Polling is stopped while the connection is down.
Poll ==
    /\ up /\ polls < setup.MaxPolls
    /\ polls' = polls + 1
    /\ DoPoll
    /\ UNCHANGED <<setup, outstationVars, up, losses, drops, changes, asked>>

Ask(c) ==
    /\ c \notin asked /\ Cardinality(asked) < setup.MaxControls
    /\ asked' = asked \cup {c}
    /\ Event(c)
    /\ UNCHANGED <<setup, outstationVars, up, polls, losses, drops, changes>>

Change(bit) ==
    /\ changes < setup.MaxChanges
    /\ changes' = changes + 1
    /\ BinaryEvent(bit, setup.Tagged)
    /\ UNCHANGED <<setup, masterVars, up, polls, losses, drops, asked>>

CommandArrives ==
    /\ up /\ data.wire # <<>>
    /\ data' = [data EXCEPT !.wire = Tail(@)]
    /\ OutstationProcessMD3Message(Head(data.wire), setup.StandAlone)
    /\ UNCHANGED <<setup, due, DigitalCommandSequenceNumber, Binary, HasBeenSet, quality, lost, got, envVars>>

ReplyArrives ==
    /\ up /\ toMaster # <<>>
    /\ toMaster' = Tail(toMaster)
    /\ ProcessMD3Message(Head(toMaster))
    /\ UNCHANGED <<setup, Bit, Changed, events, LastSeq, LastReply, performing, made, executed, envVars>>

ControlPerformed == Performed /\ UNCHANGED <<setup, masterVars, envVars>>

\* A connection that is not late delivers before the timeout.
Timer ==
    /\ setup.Late \/ ~up \/ (data.wire = <<>> /\ toMaster = <<>> /\ performing = <<>>)
    /\ TimerExpires
    /\ UNCHANGED <<setup, outstationVars, envVars>>

Timeout == TimeoutHandler /\ UNCHANGED <<setup, outstationVars, envVars>>

QualityPosted == CommsLost /\ UNCHANGED <<setup, outstationVars, envVars>>

Lose ==
    /\ up /\ losses < setup.MaxLosses
    /\ losses' = losses + 1
    /\ \/ /\ data.wire # <<>>
          /\ data' = [data EXCEPT !.wire = Tail(@)]
          /\ UNCHANGED toMaster
       \/ /\ toMaster # <<>>
          /\ toMaster' = Tail(toMaster)
          /\ UNCHANGED data
    /\ UNCHANGED <<setup, due, DigitalCommandSequenceNumber, Binary, HasBeenSet, quality, lost, got,
                   Bit, Changed, events, LastSeq, LastReply, performing, made, executed,
                   up, polls, drops, changes, asked>>

Disconnect ==
    /\ up /\ drops < setup.MaxDrops
    /\ up' = FALSE /\ drops' = drops + 1
    /\ Disconnected
    /\ toMaster' = <<>>
    /\ UNCHANGED <<setup, Bit, Changed, events, LastSeq, LastReply, performing, made, executed,
                   polls, losses, changes, asked>>

Connect ==
    /\ ~up /\ up' = TRUE
    /\ Connected
    /\ UNCHANGED <<setup, outstationVars, polls, losses, drops, changes, asked>>

Next ==
    \/ Poll \/ (\E c \in Controls : Ask(c)) \/ (\E bit \in Bits : Change(bit))
    \/ CommandArrives \/ ReplyArrives \/ ControlPerformed
    \/ Timer \/ Timeout \/ QualityPosted
    \/ Lose \/ Disconnect \/ Connect

\* Messages arrive, ports answer, timers expire and posted handlers run.
Fairness ==
    /\ WF_vars(CommandArrives) /\ WF_vars(ReplyArrives) /\ WF_vars(ControlPerformed)
    /\ WF_vars(Timer) /\ WF_vars(Timeout) /\ WF_vars(Connect)

Spec == Init /\ [][Next]_vars /\ Fairness

-----------------------------------------------------------------------------
(* Properties *)

TypeOK ==
    /\ MasterTypeOK
    /\ Bit \in Bits /\ Changed \in BOOLEAN
    /\ Len(events) <= QueueSize
    /\ LastSeq \in 0..LastSequence
    /\ up \in BOOLEAN
    /\ asked \subseteq Controls

\* A command in flight is always watched: its timer is armed, or has expired
\* and its handler is on the way.  Otherwise the queue would stop for ever.
StaysWatched == data.Processing => data.timer \/ due = 1

\* A command is sent at most once more than it may be repeated, whatever
\* late handlers and late replies there are.
SendsBounded == setup.Retries > 0 => data.sends <= setup.Retries + 1

Ids(s) == {s[i].id : i \in DOMAIN s}

\* What the sequence numbers can bear.  On a connection that is late, or that
\* went down, a reply that was asked for twice passes for that of the next
\* command, so none may be lost and no control be in flight when a scan's
\* reply comes.
Bearable == setup.Late \/ drops > 0 => losses = 0 /\ asked = {}

\* Repeating a scan with its sequence number loses no tagged change: each is
\* still queued, under way, applied by the master, or in the kept reply of
\* the scan in flight.  A connection that went down and a scan that was given
\* up are beyond what the sequence number can repair.
NoEventLost ==
    drops = 0 /\ Bearable /\ ~data.gaveUp =>
    \A id \in 1..made :
        \/ id \in Ids(events) \cup got
        \/ \E i \in DOMAIN toMaster : id \in Ids(toMaster[i].events)
        \/ id \in Ids(LastReply.events) /\ data.Processing /\ data.Current.seq = LastSeq

\* The two have nothing more to say to each other since the last connect.
Quiet ==
    /\ up /\ DigitalCommandSequenceNumber # 0
    /\ data.wire = <<>> /\ toMaster = <<>> /\ ~data.Processing /\ due = 0
    /\ events = <<>> /\ ~Changed

\* When all is quiet the master has the point's value, also after the
\* connection went down in the middle of a scan.  The queue of changes must not
\* have overflowed, and no scan been given up since the last connect.
Agreement == setup.Tagged /\ Bearable /\ made = changes /\ ~data.gaveUp /\ Quiet => HasBeenSet /\ Binary = Bit

\* A control reported as done was published by the outstation, when the
\* connection is not late and has not gone down and the outstation answers
\* each control once.
SuccessIsReal ==
    ~setup.Late /\ ~setup.StandAlone /\ drops = 0 =>
    \A c \in Controls : \A i \in DOMAIN data.calls[c] : data.calls[c][i] = "SUCCESS" => c \in executed

\* Who asks for a control is answered, unless the connection goes down.
EventuallyAnswered ==
    \A c \in Controls : c \in asked ~> data.calls[c] # <<>> \/ drops > 0

-----------------------------------------------------------------------------
(***************************************************************************)
(* "If we have cancelled the timer and this callback is called, ... we do  *)
(* NOT take any action!": the handler of a timeout that finds its command  *)
(* answered, and the timer armed for the next or not at all, does nothing. *)
(***************************************************************************)
CancelledTimeoutInert ==
    [][due = 1 /\ due' = 0 /\ (data.timer \/ ~data.Processing) => data' = data]_vars

-----------------------------------------------------------------------------
(* Not promised by the code: the README says which behaviour refutes each. *)

\* A callback is called once.
CallbackOnce == \A c \in Controls : Len(data.calls[c]) <= 1

\* When all is quiet the quality is no longer that of a lost connection.
QualityRecovers == Quiet /\ lost = 0 => quality = "ONLINE"
=============================================================================
