------------------------------- MODULE MD3Master -------------------------------
(***************************************************************************)
(* MD3MasterPort: the queue of commands of an MD3 master.  One command is  *)
(* in flight; it is repeated on a timeout, and given up after              *)
(* MD3CommandRetries repetitions.  Everything here runs on                 *)
(* MasterCommandStrand, so a handler is atomic; data is the strand's       *)
(* MasterCommandProtectedData, and an operator below takes it and returns  *)
(* what the handler makes of it.                                           *)
(*                                                                         *)
(* The master is modelled for the commands of the new digital style        *)
(* (Fn 11, Fn 12) and for pulsed controls (POM, Fn 17), which the          *)
(* outstation acknowledges; one digital module with one input point.  The  *)
(* port is enabled throughout.                                             *)
(***************************************************************************)
EXTENDS Naturals, Sequences, FiniteSets

CONSTANTS
    Controls,     \* the controls other ports may ask for
    NoCallback,   \* a null SharedStatusCallback_t
    Huge,         \* what RetriesLeft, a uint32_t, is after a decrement at zero
    MaxQueue,     \* MaxCommandQueueSize, 20 in the code
    LastSequence, \* the last sequence number before it is 1 again, 15 in the code
    MostEvents,   \* the tagged events one scan asks for, 15 in the code
    Setups        \* the configurations and environments to look at

ASSUME QueueAssumption ==
    /\ NoCallback \notin Controls
    /\ MaxQueue \in Nat \ {0}
    /\ LastSequence \in Nat /\ LastSequence > 2

\* MD3CommandRetries; is the point TIMETAGGEDINPUT; StandAloneOutstation; can
\* a timeout expire while a message is under way; bounds: messages lost,
\* disconnections, polls, changes of the point and controls.
SetupType ==
    [Retries : Nat, Tagged : BOOLEAN, StandAlone : BOOLEAN, Late : BOOLEAN,
     MaxLosses : Nat, MaxDrops : Nat, MaxPolls : Nat, MaxChanges : Nat, MaxControls : Nat]

ASSUME SetupAssumption ==
    /\ \A u \in Setups : u \in SetupType /\ u.Retries < Huge
    /\ Huge \in Nat

VARIABLES
    setup,
    data,      \* MasterCommandProtectedData, its timer, and what it has sent
    due,       \* expired timeouts whose handler has not run on the strand
    DigitalCommandSequenceNumber,
    Binary, HasBeenSet, \* the point in the master's table
    quality,   \* the quality last published for the point
    lost,      \* posted calls of SetAllPointsQualityToCommsLost
    got        \* history: the tagged events that have been applied

masterVars == <<data, due, DigitalCommandSequenceNumber, Binary, HasBeenSet, quality, lost, got>>

Bits == {0, 1}
NoCommand == [fn |-> 0, seq |-> 0, tagged |-> 0, callback |-> NoCallback]
Command == [fn : {11, 12, 17}, seq : 0..LastSequence, tagged : 0..MostEvents,
            callback : Controls \cup {NoCallback}]

\* RetriesLeft--: at zero it gives Huge, and Huge stays above every count of
\* retries for the next 2^32 decrements.
Decrement(n) == IF n \in {0, Huge} THEN Huge ELSE n - 1

\* PostCallbackCall
Called(calls, callback, status) ==
    IF callback = NoCallback THEN calls ELSE [calls EXCEPT ![callback] = Append(@, status)]

-----------------------------------------------------------------------------
(* The strand's operations *)

\* Mutants: retries that are not counted; a command given up as done.
UncountedTimedOut(d) ==
    IF d.RetriesLeft > 0
    THEN [d EXCEPT !.Processing = TRUE]
    ELSE [d EXCEPT !.RetriesLeft = Decrement(@), !.gaveUp = TRUE,
                   !.calls = Called(@, d.Current.callback, "UNDEFINED")]
GivenUpAsDone(d) ==
    IF d.RetriesLeft > 0
    THEN [d EXCEPT !.RetriesLeft = Decrement(@), !.Processing = TRUE]
    ELSE [d EXCEPT !.RetriesLeft = Decrement(@), !.gaveUp = TRUE,
                   !.calls = Called(@, d.Current.callback, "SUCCESS")]

\* A timeout of the command in flight: it is repeated or given up.
TimedOut(d) ==
    IF d.RetriesLeft > 0
    THEN [d EXCEPT !.RetriesLeft = Decrement(@), !.Processing = TRUE]
    ELSE [d EXCEPT !.RetriesLeft = Decrement(@), !.gaveUp = TRUE,
                   !.calls = Called(@, d.Current.callback, "UNDEFINED")]

\* The first command that waits becomes the current one.
NextCommand(d) ==
    IF d.Processing \/ d.queue = <<>> THEN d
    ELSE [d EXCEPT !.Processing = TRUE, !.RetriesLeft = setup.Retries,
                   !.Current = Head(d.queue), !.queue = Tail(d.queue),
                   !.FunctionCode = Head(d.queue).fn, !.sends = 0]

\* Mutant: only the first transmission arms the timer.
TransmitUnwatched(d) ==
    IF d.Processing
    THEN [d EXCEPT !.wire = Append(@, d.Current), !.timer = (@ \/ d.sends = 0), !.sends = @ + 1]
    ELSE d

\* The current command goes to the connection and its timer is armed.
Transmit(d) ==
    IF d.Processing
    THEN [d EXCEPT !.wire = Append(@, d.Current), !.timer = TRUE, !.sends = @ + 1]
    ELSE d

UnprotectedSendNextMasterCommand(d, timeoutoccured) ==
    IF d.Processing THEN d
    ELSE Transmit(NextCommand(IF timeoutoccured THEN TimedOut(d) ELSE d))

QueueMD3Command(d, command) ==
    UnprotectedSendNextMasterCommand(
        IF Len(d.queue) < MaxQueue
        THEN [d EXCEPT !.queue = Append(@, command)]
        ELSE [d EXCEPT !.calls = Called(@, command.callback, "UNDEFINED")],
        FALSE)

\* The timer is not cancelled, and Current and RetriesLeft stay.
ClearMD3CommandQueue(d) == [d EXCEPT !.queue = <<>>, !.FunctionCode = 0, !.Processing = FALSE]

\* Mutant: the next command has to wait for somebody else.
SucceededAlone(d) ==
    [d EXCEPT !.timer = FALSE, !.Processing = FALSE,
              !.calls = Called(@, d.Current.callback, "SUCCESS")]

\* The command in flight is answered.
Succeeded(d) ==
    UnprotectedSendNextMasterCommand(
        [d EXCEPT !.timer = FALSE, !.Processing = FALSE,
                  !.calls = Called(@, d.Current.callback, "SUCCESS")],
        FALSE)

-----------------------------------------------------------------------------
(* Digital scans *)

GetAndIncrementDigitalCommandSequenceNumber ==
    DigitalCommandSequenceNumber' =
        IF DigitalCommandSequenceNumber = 0 THEN 2
        ELSE (DigitalCommandSequenceNumber % LastSequence) + 1

Scan(fn, tagged) ==
    [fn |-> fn, seq |-> DigitalCommandSequenceNumber, tagged |-> tagged, callback |-> NoCallback]

\* The words of a reply: the module's block, then the tagged events, an
\* overflow flag excepted.  They are applied in this order, so the last one stays.
TaggedWords(reply) == {i \in DOMAIN reply.events : reply.events[i].id > 0}
Words(reply) == {reply.module[i] : i \in DOMAIN reply.module}
                \cup {reply.events[i].bit : i \in TaggedWords(reply)}
LastWord(reply) ==
    LET tagged == TaggedWords(reply)
    IN  IF tagged = {} THEN reply.module[Len(reply.module)]
        ELSE reply.events[CHOOSE i \in tagged : \A j \in tagged : j <= i].bit

\* Only a change is published, or the first value.
GenerateODCEvents(reply) ==
    IF Words(reply) = {} THEN UNCHANGED <<Binary, HasBeenSet, quality>>
    ELSE /\ Binary' = LastWord(reply)
         /\ HasBeenSet' = TRUE
         /\ quality' = IF HasBeenSet /\ \A word \in Words(reply) : word = Binary
                       THEN quality ELSE "ONLINE"

ProcessDigitalScan(reply) ==
    /\ GenerateODCEvents(reply)
    /\ got' = got \cup {reply.events[i].id : i \in DOMAIN reply.events}

\* Which replies answer which command; nothing else of the reply is compared.
Expected(fn, code) ==
    \/ fn \in {11, 12} /\ code \in {11, 14}
    \/ fn = 17 /\ code = 15

\* A scan that reports changes is followed by another one.  It is queued, and
\* sent if nothing is in flight, before the reply counts as a success.
ProcessMD3Message(reply) ==
    LET answered == Expected(data.FunctionCode, reply.code)
        more == answered /\ reply.code = 11 /\ data.FunctionCode = 11 IN
    /\ data' = IF more THEN Succeeded(QueueMD3Command(data, Scan(11, MostEvents)))
               ELSE IF answered THEN Succeeded(data) ELSE data
    /\ IF more THEN GetAndIncrementDigitalCommandSequenceNumber
       ELSE UNCHANGED DigitalCommandSequenceNumber
    /\ IF answered /\ reply.code = 11 THEN ProcessDigitalScan(reply)
       ELSE UNCHANGED <<Binary, HasBeenSet, quality, got>>
    /\ UNCHANGED <<due, lost>>

-----------------------------------------------------------------------------
(* The master's own handlers *)

MasterInit ==
    /\ data = [queue |-> <<>>, Current |-> NoCommand, FunctionCode |-> 0, Processing |-> FALSE,
               RetriesLeft |-> 0, timer |-> FALSE, wire |-> <<>>,
               calls |-> [c \in Controls |-> <<>>], gaveUp |-> FALSE, sends |-> 0]
    /\ due = 0
    /\ DigitalCommandSequenceNumber = 0
    /\ Binary = 1 /\ HasBeenSet = FALSE
    /\ quality = "RESTART" /\ lost = 0 /\ got = {}

\* DoPoll of a group of digital points.  The scheduler's timer runs one poll
\* after the other; a poll's number and its queueing are one step here.
DoPoll ==
    /\ data' = QueueMD3Command(data, IF HasBeenSet
                                     THEN Scan(11, IF setup.Tagged THEN MostEvents ELSE 0)
                                     ELSE Scan(12, 0))
    /\ GetAndIncrementDigitalCommandSequenceNumber
    /\ UNCHANGED <<due, Binary, HasBeenSet, quality, lost, got>>

\* Event of a control: for a POM point it is queued, for a point that
\* is not defined it is answered at once.
Event(c) ==
    /\ \/ data' = QueueMD3Command(data, [fn |-> 17, seq |-> 0, tagged |-> 0, callback |-> c])
       \/ data' = [data EXCEPT !.calls = Called(@, c, "UNDEFINED")]
    /\ UNCHANGED <<due, DigitalCommandSequenceNumber, Binary, HasBeenSet, quality, lost, got>>

\* The timer expires: its handler can no longer be cancelled.  A handler runs
\* before the timer, armed again meanwhile, expires a second time.
TimerExpires ==
    /\ data.timer /\ due = 0
    /\ data' = [data EXCEPT !.timer = FALSE]
    /\ due' = 1
    /\ UNCHANGED <<DigitalCommandSequenceNumber, Binary, HasBeenSet, quality, lost, got>>

\* The handler on the strand.  endtime and TimerExpireTime are both the
\* configured duration, so their comparison always holds.
TimeoutHandler ==
    /\ due = 1 /\ due' = 0
    /\ data' = UnprotectedSendNextMasterCommand([data EXCEPT !.Processing = FALSE], TRUE)
    /\ lost' = IF data.RetriesLeft = 0 THEN lost + 1 ELSE lost
    /\ UNCHANGED <<DigitalCommandSequenceNumber, Binary, HasBeenSet, quality, got>>

\* A posted SetAllPointsQualityToCommsLost runs; HasBeenSet of a digital
\* point stays.
CommsLost ==
    /\ lost > 0 /\ lost' = lost - 1
    /\ quality' = "COMM_LOST"
    /\ UNCHANGED <<data, due, DigitalCommandSequenceNumber, Binary, HasBeenSet, got>>

\* Mutant: the sequence numbers go on over a reconnection.
ConnectedGoingOn ==
    /\ data' = [data EXCEPT !.gaveUp = FALSE]
    /\ UNCHANGED <<due, DigitalCommandSequenceNumber, Binary, HasBeenSet, quality, lost, got>>

\* SocketStateHandler, for a connection that is up and for one that is down.
Connected ==
    /\ DigitalCommandSequenceNumber' = 0
    /\ data' = [data EXCEPT !.gaveUp = FALSE]
    /\ UNCHANGED <<due, Binary, HasBeenSet, quality, lost, got>>
Disconnected ==
    /\ data' = [ClearMD3CommandQueue(data) EXCEPT !.wire = <<>>]
    /\ quality' = "COMM_LOST"
    /\ UNCHANGED <<due, DigitalCommandSequenceNumber, Binary, HasBeenSet, lost, got>>

MasterTypeOK ==
    /\ setup \in Setups
    /\ data \in [queue : Seq(Command), Current : Command \cup {NoCommand},
                 FunctionCode : {0, 11, 12, 17}, Processing : BOOLEAN,
                 RetriesLeft : 0..setup.Retries \cup {Huge}, timer : BOOLEAN, wire : Seq(Command),
                 calls : [Controls -> Seq({"SUCCESS", "UNDEFINED"})],
                 gaveUp : BOOLEAN, sends : Nat]
    /\ Len(data.queue) <= MaxQueue
    /\ due \in {0, 1}
    /\ DigitalCommandSequenceNumber \in 0..LastSequence
    /\ Binary \in Bits /\ HasBeenSet \in BOOLEAN
    /\ quality \in {"RESTART", "ONLINE", "COMM_LOST"}
    /\ lost \in Nat /\ got \subseteq Nat
=============================================================================
