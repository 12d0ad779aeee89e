----------------------------- MODULE MD3Outstation -----------------------------
(***************************************************************************)
(* MD3OutstationPort: how an outstation answers the digital scans Fn 11    *)
(* and Fn 12 and the pulsed controls, Fn 17, of a master.  Protocol        *)
(* messages and events of other ports run on EventSyncExecutor, so each is *)
(* atomic.                                                                 *)
(*                                                                         *)
(* The outstation has one digital module with one input point, value Bit,  *)
(* and a queue of tagged changes.  A scan reports a change and forgets it; *)
(* the reply is kept, and sent again when the same sequence number is      *)
(* asked for again.                                                        *)
(***************************************************************************)
EXTENDS Naturals, Sequences

CONSTANTS QueueSize    \* BinaryTimeTaggedEventQueueSize, 256 in the code

ASSUME QueueSizeAssumption == QueueSize \in Nat \ {0}

VARIABLES
    Bit, Changed,      \* the point: Binary and Changed
    events,            \* BinaryTimeTaggedEventQueue
    LastSeq,           \* LastDigitalScanSequenceNumber
    LastReply,         \* LastDigitialScanResponseMD3Message
    performing,        \* controls that wait for the answer of other ports
    toMaster,          \* replies under way
    made,              \* history: how many tagged events were queued
    executed           \* history: the controls published

outstationVars == <<Bit, Changed, events, LastSeq, LastReply, performing, toMaster, made, executed>>

\* A reply: its function code, the module's block if any, the tagged events.
Reply(code, module, tagged) == [code |-> code, module |-> module, events |-> tagged]
NoChange == Reply(14, <<>>, <<>>)

\* MD3BinaryPoint::OverFlowMarkerPoint; events count from 1.
OverFlowMarker == [id |-> 0, bit |-> 0]

AddToDigitalEvents(bit) ==
    IF Len(events) < QueueSize - 1
    THEN /\ events' = Append(events, [id |-> made + 1, bit |-> bit])
         /\ made' = made + 1
    ELSE /\ events' = IF Len(events) < QueueSize THEN Append(events, OverFlowMarker) ELSE events
         /\ UNCHANGED made

\* Event_ of a binary value: SetBinary, then the queue of changes.
BinaryEvent(bit, tagged) ==
    /\ Bit' = bit
    /\ Changed' = (Bit # bit)
    /\ IF tagged THEN AddToDigitalEvents(bit) ELSE UNCHANGED <<events, made>>
    /\ UNCHANGED <<LastSeq, LastReply, performing, toMaster, executed>>

\* Fn11AddTimeTaggedDataToResponseWords takes at most max events.  It stops
\* after an overflow marker that comes first, and may stop after any event,
\* if the next one is over 65 s younger.
Taken(max) ==
    {n \in 0..Len(events) :
        /\ n <= max
        /\ n = 0 => max = 0 \/ events = <<>>
        /\ n > 1 => events[1] # OverFlowMarker}

\* Mutant: the reply is not kept.
SendOnly(seq, reply) ==
    /\ toMaster' = Append(toMaster, reply)
    /\ LastSeq' = seq
    /\ UNCHANGED LastReply

\* What both scans do in the end.
SendAndKeep(seq, reply) ==
    /\ toMaster' = Append(toMaster, reply)
    /\ LastSeq' = seq /\ LastReply' = reply

\* The master did not get the last reply.
ResendScan(command) ==
    /\ command.seq = LastSeq /\ command.seq # 0
    /\ toMaster' = Append(toMaster, LastReply)
    /\ UNCHANGED <<Bit, Changed, events, LastSeq, LastReply>>

\* Sequence number 0 marks every point as changed.
DoDigitalScan(command) ==
    LET changed == Changed \/ command.seq = 0 IN
    /\ command.seq # LastSeq \/ command.seq = 0
    /\ \E n \in Taken(command.tagged) :
        /\ SendAndKeep(command.seq,
                       IF ~changed /\ events = <<>> THEN NoChange
                       ELSE Reply(11, IF changed THEN <<Bit>> ELSE <<>>, SubSeq(events, 1, n)))
        /\ events' = SubSeq(events, n + 1, Len(events))
    /\ Changed' = FALSE
    /\ UNCHANGED Bit

\* The reply has the format of Fn 11.
DoDigitalUnconditional(command) ==
    /\ command.seq # LastSeq \/ command.seq = 0
    /\ SendAndKeep(command.seq, Reply(11, <<Bit>>, <<>>))
    /\ Changed' = FALSE
    /\ UNCHANGED <<Bit, events>>

\* A control for a point that is not defined, or that fails the checks, is
\* rejected.  Otherwise Perform publishes it to the other ports and waits for
\* the answer; a stand-alone outstation publishes it twice, and answers the
\* first time by itself.
DoPOMControl(command, standalone) ==
    /\ \/ /\ toMaster' = Append(toMaster, Reply(30, <<>>, <<>>))
          /\ UNCHANGED <<performing, executed>>
       \/ /\ performing' = Append(performing, command)
          /\ toMaster' = IF standalone THEN Append(toMaster, Reply(15, <<>>, <<>>)) ELSE toMaster
          /\ executed' = executed \cup {command.callback}
    /\ UNCHANGED <<Bit, Changed, events, LastSeq, LastReply>>

OutstationProcessMD3Message(command, standalone) ==
    /\ \/ /\ command.fn \in {11, 12} /\ ResendScan(command)
          /\ UNCHANGED <<performing, executed>>
       \/ command.fn = 11 /\ DoDigitalScan(command) /\ UNCHANGED <<performing, executed>>
       \/ command.fn = 12 /\ DoDigitalUnconditional(command) /\ UNCHANGED <<performing, executed>>
       \/ command.fn = 17 /\ DoPOMControl(command, standalone)
    /\ UNCHANGED made

\* The other ports answer one of the controls: SendControlOK or
\* SendControlOrScanRejected, which do not tell the controls apart.
Performed ==
    /\ performing # <<>>
    /\ performing' = Tail(performing)
    /\ \E code \in {15, 30} : toMaster' = Append(toMaster, Reply(code, <<>>, <<>>))
    /\ UNCHANGED <<Bit, Changed, events, LastSeq, LastReply, made, executed>>

OutstationInit ==
    /\ Bit = 1 /\ Changed = TRUE
    /\ events = <<>> /\ LastSeq = 0 /\ LastReply = NoChange
    /\ performing = <<>> /\ toMaster = <<>>
    /\ made = 0 /\ executed = {}
=============================================================================
