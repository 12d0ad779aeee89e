----------------------------- MODULE FileTransferTx -----------------------------
(***************************************************************************)
(* FileTransferPort, the sending direction.  A file goes out as a chain of *)
(* OctetString events: its name, its chunks under consecutive sequence     *)
(* numbers, and an empty event that ends it.  With confirms, what is sent  *)
(* stays in a buffer until the receiver confirms it, and the chain stops   *)
(* for a confirmation whenever the sequence numbers wrap.                  *)
(*                                                                         *)
(* Everything runs on pSyncStrand, so a handler is atomic and what it      *)
(* posts to the strand runs in order.  An operator below takes the state   *)
(* of the port and returns what the handler makes of it; publish is what   *)
(* the handler has posted to be published, off the strand.                 *)
(*                                                                         *)
(* A CRC is the list of the items it has been taken over since the last    *)
(* reset: no two chains collide.                                           *)
(***************************************************************************)
EXTENDS Naturals, Sequences, FiniteSets

CONSTANTS
    Files,      \* the files of the directory that match the configuration
    NoFile,
    Start, Stop, \* SequenceIndexStart, SequenceIndexStop
    Setups      \* the configurations and environments to look at

\* The index of FileNameTransmissionEvent, which Build() keeps off the range.
NameIndex == 0

ASSUME RangeAssumption ==
    /\ Start \in Nat /\ Stop \in Nat
    /\ NameIndex < Start /\ Start <= Stop
    /\ NoFile \notin Files

\* UseCRCs; UseConfirms; OverwriteMode; Persistence; the chunks of a file;
\* the files whose last chunk fills its event; the files that cannot be opened;
\* the files the receiver already has; bounds: events lost, timers
\* that expire while an event is under way, times a port is disabled, times
\* the sending process is restarted, files asked for.
SetupType ==
    [UseCRCs : BOOLEAN, UseConfirms : BOOLEAN, Mode : {"FAIL", "OVERWRITE", "APPEND"},
     Persistence : {"INMEMORY", "ONDISK", "PURGEONDISABLE"},
     Chunks : [Files -> Nat], Exact : SUBSET Files, Unreadable : SUBSET Files, Existing : SUBSET Files,
     MaxLosses : Nat, MaxEarly : Nat, MaxTxDisables : Nat, MaxRxDisables : Nat, MaxRestarts : Nat, MaxRequests : Nat]

ASSUME SetupAssumption == Setups \subseteq SetupType

VARIABLES
    setup,
    tx,       \* the sending port
    strand,   \* what is posted to its strand
    saved     \* PersistenceFile: the files it says are sent

txVars == <<tx, strand, saved>>

Sequence == Start..Stop
Closed == [path |-> NoFile, pos |-> 0, good |-> TRUE]
NoHandler == [kind |-> "none", path |-> NoFile]
NoCRC == <<>>
OnDisk == setup.Persistence = "ONDISK"

\* An item of a chain: a file's name, one of its chunks, or the end.
Item(kind, path, n) == [kind |-> kind, path |-> path, n |-> n]
EOF == Item("eof", NoFile, 0)

\* crc_ccitt over the event, which holds the CRC before it.
TakeCRC(crc, item) == IF setup.UseCRCs THEN Append(crc, item) ELSE NoCRC

OctetString(index, item, crc) == [index |-> index, item |-> item, crc |-> crc]

BumpSequence(s) == [s EXCEPT !.port.seq = IF @ = Stop THEN Start ELSE @ + 1]

NewPort ==
    [enabled |-> FALSE, seq |-> Start, crc |-> NoCRC, in_progress |-> FALSE, transfer_reset |-> FALSE,
     filename_q |-> {}, unconfirmed |-> {}, event_buffer |-> <<>>, fin |-> Closed,
     ConfirmHandler |-> NoHandler, ConfirmTimer |-> FALSE, ModTimes |-> {}]

\* What a handler changes: the port, the strand, the file on disk, and what
\* it publishes; ask is the file whose name has been published with send_file
\* as its callback.
State == [port |-> tx, strand |-> strand, saved |-> saved, publish |-> <<>>, ask |-> {}]

Post(s, kind, arg) == [s EXCEPT !.strand = Append(@, [kind |-> kind, arg |-> arg])]

\* *tx_filename_q.begin() of an unordered map: any of the files it holds now.
\* Which one is left open until the handler runs.
PostNext(s) ==
    IF s.port.filename_q = {} THEN s ELSE Post(s, "try", s.port.filename_q)

TXBufferPublishEvent(s, event) ==
    [s EXCEPT !.port.event_buffer = IF setup.UseConfirms THEN Append(@, event) ELSE @,
              !.publish = Append(@, event)]

\* Publish an item under an index, taking the CRC over it.
Send(s, index, item) ==
    LET sent == TXBufferPublishEvent(s, OctetString(index, item, s.port.crc))
    IN  [sent EXCEPT !.port.crc = TakeCRC(@, item)]

\* The event a confirmation expects: its number and CRC, or the name of the
\* file before it.
Expected(e, next, seq, crc) ==
    /\ e.index \in {seq, NameIndex}
    /\ IF setup.UseCRCs THEN e.crc = crc ELSE e.index = NameIndex => next = <<seq>>

\* What is left of the buffer from the event that is expected, and whether
\* there is one.
ClearUpTo(buffer, seq, crc) ==
    LET after(i) == IF i = Len(buffer) THEN <<>> ELSE <<buffer[i + 1].index>>
        match == {i \in DOMAIN buffer : Expected(buffer[i], after(i), seq, crc)}
    IN  IF match = {} THEN [found |-> FALSE, buffer |-> buffer]
        ELSE LET first == CHOOSE i \in match : \A j \in match : i <= j
             IN  [found |-> TRUE, buffer |-> SubSeq(buffer, first, Len(buffer))]

\* next_action of SendEOF.
CheckQueue(s) ==
    IF ~s.port.enabled THEN s
    ELSE LET p == s.port
             done == [s EXCEPT !.port.in_progress = @ /\ ~p.transfer_reset,
                               !.port.transfer_reset = FALSE]
         IN  IF p.filename_q # {} THEN PostNext(done)
             ELSE [done EXCEPT !.saved = IF OnDisk THEN p.ModTimes ELSE @]

\* A sequence has just ended: the next action waits until it is confirmed.
MustConfirm(s) == setup.UseConfirms /\ s.port.seq = Start
Await(s, action) == [s EXCEPT !.port.ConfirmHandler = action, !.port.ConfirmTimer = TRUE]

SendEOF(s, path) ==
    IF s.port.transfer_reset THEN CheckQueue(s)
    ELSE LET sent == Send(s, s.port.seq, EOF)
             moved == IF setup.UseConfirms THEN {path} \cap s.port.filename_q ELSE {}
             done == [BumpSequence(sent) EXCEPT !.port.unconfirmed = @ \cup moved,
                                                !.port.filename_q = @ \ {path},
                                                !.port.in_progress = FALSE]
         IN  IF MustConfirm(done) THEN Await(done, [kind |-> "files", path |-> NoFile])
             ELSE CheckQueue(done)

\* ConfirmHandler().
RunHandler(s, action) ==
    CASE action.kind = "chunk" /\ s.port.enabled -> Post(s, "chunk", action.path)
      [] action.kind = "eof" /\ s.port.enabled -> SendEOF(s, action.path)
      [] action.kind = "files" -> CheckQueue(s)
      [] OTHER -> s

\* fin.read() gives the next chunk; at the end of the file, or on a stream
\* that has failed, it gives nothing.
SendChunk(s, path) ==
    LET p == s.port
        item == Item("data", p.fin.path, p.fin.pos + 1)
        there == p.fin.good /\ p.fin.path # NoFile /\ p.fin.pos < setup.Chunks[p.fin.path]
        more == p.fin.pos + 1 < setup.Chunks[p.fin.path] \/ p.fin.path \in setup.Exact
        sent == Send(s, p.seq, item)
        next == [BumpSequence(sent) EXCEPT
                             !.port.fin = IF more THEN [p.fin EXCEPT !.pos = p.fin.pos + 1] ELSE Closed]
        action == [kind |-> IF more THEN "chunk" ELSE "eof", path |-> path]
    IN  IF p.transfer_reset \/ ~there THEN SendEOF([s EXCEPT !.port.fin = Closed], path)
        ELSE IF MustConfirm(next) THEN Await(next, action)
        ELSE RunHandler(next, action)

TrySend(s, path) ==
    LET queued == [s EXCEPT !.port.filename_q = @ \cup {path}]
        begun == [queued EXCEPT !.port.in_progress = TRUE, !.port.transfer_reset = FALSE, !.ask = {path}]
    IN  IF ~s.port.enabled THEN s
        ELSE IF s.port.in_progress THEN queued
        ELSE Send(begun, NameIndex, Item("name", path, 0))

\* send_file, the callback of the name.  A stream that is still open cannot
\* be opened, and has failed from then on.
SendFile(s, path) ==
    LET busy == s.port.fin.path # NoFile
        failed == [s EXCEPT !.port.in_progress = FALSE, !.port.filename_q = @ \ {path},
                            !.port.fin.good = ~busy]
        opened == [s EXCEPT !.port.fin = [path |-> path, pos |-> 0, good |-> TRUE]]
    IN  IF ~s.port.enabled THEN s
        ELSE IF busy \/ path \in setup.Unreadable THEN PostNext(failed)
        ELSE SendChunk(opened, path)

\* A faulty variant: the action that waits for a confirmation is dropped, not run.
ResetDropsHandler(s) ==
    LET p == s.port
        cleared == [s EXCEPT !.port.transfer_reset = TRUE,
                             !.port.crc = NoCRC, !.port.seq = Start,
                             !.port.filename_q = @ \cup p.unconfirmed, !.port.unconfirmed = {},
                             !.port.event_buffer = <<>>]
    IN  IF p.transfer_reset THEN s
        ELSE IF ~p.in_progress THEN cleared
        ELSE [cleared EXCEPT !.port.fin = Closed, !.port.ConfirmTimer = FALSE, !.port.ConfirmHandler = NoHandler]

ResetTransfer(s) ==
    LET p == s.port
        cleared == [s EXCEPT !.port.transfer_reset = TRUE,
                             !.port.crc = NoCRC, !.port.seq = Start,
                             !.port.filename_q = @ \cup p.unconfirmed, !.port.unconfirmed = {},
                             !.port.event_buffer = <<>>]
        aborted == RunHandler([cleared EXCEPT !.port.fin = Closed, !.port.ConfirmTimer = FALSE], p.ConfirmHandler)
    IN  IF p.transfer_reset THEN s
        ELSE IF ~p.in_progress THEN cleared
        ELSE [aborted EXCEPT !.port.ConfirmHandler = NoHandler]

\* A faulty variant: the CRC is not compared.
CurrentBySequence(p, m) == m.seq = p.seq

\* The receiver has processed all that has been sent.
Current(p, m) == m.seq = p.seq /\ m.crc = p.crc

\* A confirmation: positive, or TIMEOUT (ok or not); unsolicited, or of a whole
\* sequence.
ConfirmEvent(s, m) ==
    LET p == s.port
        left == ClearUpTo(p.event_buffer, m.seq, m.crc)
        forget == [s EXCEPT !.port.event_buffer = <<>>, !.port.unconfirmed = {}]
        keep == [s EXCEPT !.port.event_buffer = left.buffer]
        confirmed ==
            LET ran == RunHandler([forget EXCEPT !.port.ConfirmTimer = FALSE], p.ConfirmHandler)
            IN  [ran EXCEPT !.port.ConfirmHandler = NoHandler]
        again ==
            LET from == IF left.found THEN keep ELSE ResetTransfer(s)
            IN  [from EXCEPT !.publish = from.port.event_buffer,
                             !.port.ConfirmTimer = @ \/ (~m.unsol /\ ~from.port.transfer_reset)]
        acted == IF ~m.ok THEN again
                 ELSE IF ~m.unsol THEN confirmed
                 ELSE IF Current(p, m) THEN forget ELSE keep
    IN  IF ~p.enabled THEN s
        ELSE IF acted.port.in_progress THEN acted ELSE PostNext(acted)

\* ConfirmTimer has expired.
ConfirmTimeout(s) ==
    IF ~s.port.enabled THEN s
    ELSE [s EXCEPT !.publish = s.port.event_buffer, !.port.ConfirmTimer = TRUE]

\* A trigger for one file.  A file does not change while it is looked at:
\* FileModTimes is the set of files whose time is known.
TxPath(s, path, only_modified) ==
    CASE ~s.port.enabled \/ (only_modified /\ path \in s.port.ModTimes) -> s
      [] only_modified /\ path \notin s.port.ModTimes -> TrySend([s EXCEPT !.port.ModTimes = @ \cup {path}], path)
      [] OTHER -> TrySend(s, path)

Enable(s) ==
    LET p == s.port
        on == [s EXCEPT !.port.enabled = TRUE, !.port.in_progress = FALSE, !.port.transfer_reset = FALSE,
                        !.port.ModTimes = IF OnDisk /\ p.filename_q = {} THEN @ \cup s.saved ELSE @]
    IN  PostNext(on)

Disable(s) ==
    LET reset == ResetTransfer(s)
    IN  [reset EXCEPT !.port.enabled = FALSE, !.port.ConfirmTimer = FALSE,
                      !.port.ModTimes = IF setup.Persistence = "PURGEONDISABLE" THEN {} ELSE @,
                      !.saved = IF OnDisk /\ reset.port.filename_q = {} THEN reset.port.ModTimes ELSE @]
=============================================================================
