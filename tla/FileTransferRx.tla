----------------------------- MODULE FileTransferRx -----------------------------
(***************************************************************************)
(* FileTransferPort, the receiving direction.  Events come in any order;   *)
(* each waits in rx_event_buffer, under its index, until its number is the *)
(* next and its CRC continues the chain.  A transfer that makes no         *)
(* progress is reported to the sender, or aborted.                         *)
(*                                                                         *)
(* As in FileTransferTx, a handler is an operator on the port's state.     *)
(***************************************************************************)
EXTENDS FileTransferTx

VARIABLES
    rx,       \* the receiving port
    disk,     \* its directory: the items each file holds, or Absent
    received  \* history: the files whose end has been processed

rxVars == <<rx, disk, received>>

Absent == <<Item("absent", NoFile, 0)>>
Index == {NameIndex} \cup Sequence
Empty == [i \in Index |-> <<>>]

NewReceiver ==
    [enabled |-> FALSE, seq |-> Start, crc |-> NoCRC, in_progress |-> FALSE, transfer_reset |-> FALSE,
     Filename |-> NoFile, fout |-> FALSE, event_buffer |-> Empty, TransferTimeoutTimer |-> FALSE]

RxState == [port |-> rx, disk |-> disk, received |-> received, confirms |-> <<>>]

Confirm(ok, unsol, seq, crc) == [ok |-> ok, unsol |-> unsol, seq |-> seq, crc |-> crc]

\* The default ControlRelayOutputBlock: nothing in it says which sequence.
WholeSequence == Confirm(TRUE, FALSE, 0, NoCRC)

ConfirmCheck(r) ==
    IF setup.UseConfirms /\ r.port.seq = Stop THEN [r EXCEPT !.confirms = Append(@, WholeSequence)] ELSE r

Pop(r, index) == [r EXCEPT !.port.event_buffer[index] = Tail(@)]

\* A name when no transfer is in progress.  With confirms its CRC must continue
\* the chain; without, after a reset, it begins one.  The mode is what the
\* loop below goes on with.
StartFile(r, e) ==
    LET p == r.port
        path == e.item.path
        synced == [r EXCEPT !.port.seq = IF p.transfer_reset /\ ~setup.UseConfirms /\ setup.UseCRCs /\ e.crc = NoCRC
                                         THEN Start ELSE @,
                            !.port.crc = TakeCRC(e.crc, e.item),
                            !.port.Filename = path, !.port.in_progress = TRUE, !.port.transfer_reset = FALSE]
        open == [synced EXCEPT !.port.fout = TRUE,
                               !.disk[path] = IF setup.Mode = "APPEND" /\ @ # Absent THEN @ ELSE <<>>]
    IN  IF (~p.transfer_reset \/ setup.UseConfirms) /\ e.crc # p.crc
        THEN [state |-> r, mode |-> "names"]
        ELSE IF setup.Mode = "FAIL" /\ r.disk[path] # Absent
        THEN [state |-> synced, mode |-> "done"]
        ELSE [state |-> open, mode |-> "data"]

\* The end of a file.
FinishFile(r, e) ==
    LET p == r.port
        closed == [r EXCEPT !.port.crc = TakeCRC(p.crc, e.item), !.port.fout = FALSE, !.port.in_progress = FALSE,
                            !.received = @ \cup {p.Filename}]
    IN  BumpSequence(ConfirmCheck(closed))

WriteChunk(r, e) ==
    LET p == r.port
        written == [r EXCEPT !.port.crc = TakeCRC(p.crc, e.item),
                             !.disk[p.Filename] = IF p.fout THEN Append(@, e.item) ELSE @]
    IN  BumpSequence(ConfirmCheck(written))

\* One turn of the loop of ProcessRxBuffer, or of ProcessQdFilenames, which
\* call each other.
Turn(m) ==
    LET r == m.state
        data == r.port.event_buffer[r.port.seq]
        names == r.port.event_buffer[NameIndex]
    IN  CASE m.mode = "data" /\ data # <<>> ->
               LET e == Head(data)
                   popped == Pop(r, r.port.seq)
               IN  IF e.crc # r.port.crc THEN [state |-> popped, mode |-> "data"]
                   ELSE IF e.item = EOF THEN [state |-> FinishFile(popped, e), mode |-> "names"]
                   ELSE [state |-> WriteChunk(popped, e), mode |-> "data"]
          [] m.mode = "names" /\ names # <<>> -> StartFile(Pop(r, NameIndex), Head(names))
          [] OTHER -> [m EXCEPT !.mode = "done"]

\* Every turn but the last takes an event from the buffer, so there are no
\* more turns than events.
Turns(m) ==
    LET buffer == m.state.port.event_buffer
        size == Cardinality(UNION {{i} \X DOMAIN buffer[i] : i \in Index})
        after[n \in 0..size] == IF n = 0 THEN m ELSE CHOOSE x \in {Turn(y) : y \in {after[n - 1]}} : TRUE
    IN  after[size].state

\* A faulty variant: data that came before its name is not looked at.
NameAlone(r, e) ==
    LET timed == [r EXCEPT !.port.TransferTimeoutTimer = TRUE]
        kept == [timed EXCEPT !.port.event_buffer[e.index] = Append(@, e)]
    IN  CASE ~r.port.enabled -> r
          [] r.port.enabled /\ e.index = NameIndex ->
               IF r.port.in_progress THEN kept ELSE StartFile(timed, e).state
          [] OTHER ->
               IF r.port.in_progress THEN Turns([state |-> kept, mode |-> "data"]) ELSE kept

RxEvent(r, e) ==
    LET timed == [r EXCEPT !.port.TransferTimeoutTimer = TRUE]
        kept == [timed EXCEPT !.port.event_buffer[e.index] = Append(@, e)]
    IN  CASE ~r.port.enabled -> r
          [] r.port.enabled /\ e.index = NameIndex ->
               IF r.port.in_progress THEN kept ELSE Turns(StartFile(timed, e))
          [] OTHER ->
               IF r.port.in_progress THEN Turns([state |-> kept, mode |-> "data"]) ELSE kept

\* A faulty variant: the partial file is left in the directory.
AbortKeepsFile(r) ==
    LET reset == [r EXCEPT !.port.transfer_reset = TRUE, !.port.in_progress = FALSE, !.port.fout = FALSE,
                           !.port.crc = IF setup.UseConfirms THEN NoCRC ELSE @,
                           !.port.seq = IF setup.UseConfirms THEN Start ELSE @]
    IN  IF r.port.transfer_reset THEN r ELSE reset

\* Aborting a transfer removes its file.
RxResetTransfer(r) ==
    LET p == r.port
        reset == [r EXCEPT !.port.transfer_reset = TRUE,
                           !.port.crc = IF setup.UseConfirms THEN NoCRC ELSE @,
                           !.port.seq = IF setup.UseConfirms THEN Start ELSE @]
    IN  IF p.transfer_reset THEN r
        ELSE IF ~p.in_progress THEN reset
        ELSE [reset EXCEPT !.port.in_progress = FALSE, !.port.fout = FALSE, !.disk[p.Filename] = Absent]

TransferTimeoutHandler(r) ==
    LET p == r.port
        waiting == p.in_progress \/ p.event_buffer # Empty
        reported == [r EXCEPT !.confirms = <<Confirm(~waiting, ~p.in_progress, p.seq, p.crc)>>]
        acted == IF setup.UseConfirms THEN reported ELSE IF waiting THEN RxResetTransfer(r) ELSE r
    IN  [acted EXCEPT !.port.event_buffer = Empty, !.port.TransferTimeoutTimer = FALSE]

RxEnable(r) == [r EXCEPT !.port.enabled = TRUE, !.port.transfer_reset = FALSE]

RxDisable(r) == [RxResetTransfer(r) EXCEPT !.port.enabled = FALSE, !.port.TransferTimeoutTimer = FALSE]
=============================================================================
