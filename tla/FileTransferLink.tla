---------------------------- MODULE FileTransferLink ----------------------------
(***************************************************************************)
(* A sending and a receiving FileTransferPort.  Events are published from  *)
(* handlers posted to the thread pool, so they may overtake each other;    *)
(* between the two may be other ports and a lossy link, so an event may be *)
(* lost, and may be under way for longer than a timer.                     *)
(***************************************************************************)
EXTENDS FileTransferRx, Bags

VARIABLES
    net,      \* the events, confirmations and callbacks under way
    asked,    \* history: the files the sender has been asked for
    losses, early, disables, restarts, requests \* how much of its bounds the environment has used

envVars == <<losses, early, disables, restarts, requests>>
vars == <<setup, txVars, rxVars, net, asked, envVars>>

Message(kind, what) == [kind |-> kind, what |-> what]

\* How often each of the events or confirmations is published.
Published(kind, events) ==
    [m \in {Message(kind, events[i]) : i \in DOMAIN events} |->
        Cardinality({i \in DOMAIN events : events[i] = m.what})]

Old == Item("old", NoFile, 0)

Init ==
    /\ setup \in Setups
    /\ tx = [NewPort EXCEPT !.enabled = TRUE] /\ strand = <<>> /\ saved = {}
    /\ rx = [NewReceiver EXCEPT !.enabled = TRUE]
    /\ disk = [f \in Files |-> IF f \in setup.Existing THEN <<Old>> ELSE Absent]
    /\ received = {}
    /\ net = EmptyBag /\ asked = {}
    /\ losses = 0 /\ early = 0 /\ disables = 0 /\ restarts = 0 /\ requests = 0

\* What a handler of either port has done, having taken the message away.
Sender(s, taken) ==
    /\ tx' = s.port /\ strand' = s.strand /\ saved' = s.saved
    /\ net' = ((net (-) taken) (+) Published("event", s.publish)) (+) SetToBag({Message("answer", f) : f \in s.ask})
    /\ UNCHANGED <<setup, rxVars>>

Receiver(r, taken) ==
    /\ rx' = r.port /\ disk' = r.disk /\ received' = r.received
    /\ net' = (net (-) taken) (+) Published("confirm", r.confirms)
    /\ UNCHANGED <<setup, txVars, asked>>

Nothing == EmptyBag
One(m) == SetToBag({m})

\* The handler at the head of the strand runs; next is the file it captured.
Handle(h, next, s) ==
    CASE h.kind = "trigger" -> TxPath(s, h.arg.path, h.arg.only_modified)
      [] h.kind = "try" -> TrySend(s, next)
      [] h.kind = "chunk" -> IF s.port.enabled THEN SendChunk(s, h.arg) ELSE s
      [] h.kind = "answer" -> SendFile(s, h.arg)
      [] h.kind = "confirm" -> ConfirmEvent(s, h.arg)
      [] h.kind = "timeout" -> ConfirmTimeout(s)
      [] h.kind = "idle" -> ResetTransfer(s)
      [] h.kind = "enable" -> Enable(s)
      [] h.kind = "disable" -> Disable(s)

StrandRuns ==
    /\ strand # <<>>
    /\ LET h == Head(strand)
       IN  /\ \E next \in IF h.kind = "try" THEN h.arg ELSE {NoFile} :
                 \E s \in {Handle(h, next, [State EXCEPT !.strand = Tail(@)])} : Sender(s, Nothing)
           /\ asked' = IF h.kind = "trigger" /\ tx.enabled THEN asked \cup {h.arg.path} ELSE asked
    /\ UNCHANGED envVars

\* A trigger, by an event or the period.
Trigger(f, only_modified) ==
    /\ requests < setup.MaxRequests
    /\ requests' = requests + 1
    /\ Sender(Post(State, "trigger", [path |-> f, only_modified |-> only_modified]), Nothing)
    /\ UNCHANGED <<asked, losses, early, disables, restarts>>

\* A message for the sender is posted to its strand.
SenderGets(m) ==
    /\ m.kind \in {"confirm", "answer"}
    /\ Sender(Post(State, m.kind, m.what), One(m))
    /\ UNCHANGED <<asked, envVars>>

ReceiverGets(m) ==
    /\ m.kind = "event"
    /\ \E r \in {RxEvent(RxState, m.what)} : Receiver(r, One(m))
    /\ UNCHANGED envVars

\* A callback is a call within the process and is not lost.
Lose(m) ==
    /\ m.kind # "answer" /\ losses < setup.MaxLosses
    /\ losses' = losses + 1
    /\ net' = net (-) One(m)
    /\ UNCHANGED <<setup, txVars, rxVars, asked, early, disables, restarts, requests>>

\* A timer expires when its time has come, or early.
Expires(time) ==
    \/ time /\ UNCHANGED early
    \/ ~time /\ early < setup.MaxEarly /\ early' = early + 1

\* The receiver's timeout is the shortest, and longer than events are under way.
Quiet == net = EmptyBag /\ strand = <<>>
Idle == Quiet /\ ~rx.TransferTimeoutTimer

ConfirmTimerExpires ==
    /\ tx.ConfirmTimer /\ Expires(Idle)
    /\ Sender([Post(State, "timeout", NoFile) EXCEPT !.port.ConfirmTimer = FALSE], Nothing)
    /\ UNCHANGED <<asked, losses, disables, restarts, requests>>

TransferTimerExpires ==
    /\ rx.TransferTimeoutTimer /\ Expires(Quiet)
    /\ Receiver(TransferTimeoutHandler(RxState), Nothing)
    /\ UNCHANGED <<losses, disables, restarts, requests>>

\* The idle timers are always armed; once a port is reset they change nothing.
SenderIdle ==
    /\ tx.enabled /\ ~tx.transfer_reset /\ Expires(Idle)
    /\ \A i \in DOMAIN strand : strand[i].kind # "idle"
    /\ Sender(Post(State, "idle", NoFile), Nothing)
    /\ UNCHANGED <<asked, losses, disables, restarts, requests>>

ReceiverIdle ==
    /\ rx.enabled /\ ~rx.transfer_reset /\ Expires(Idle)
    /\ Receiver(RxResetTransfer(RxState), Nothing)
    /\ UNCHANGED <<losses, disables, restarts, requests>>

\* The last of Enable() and Disable() called was Disable().
Off == LET calls == SelectSeq(strand, LAMBDA h : h.kind \in {"enable", "disable"})
       IN  IF calls = <<>> THEN ~tx.enabled ELSE calls[Len(calls)].kind = "disable"

\* A port is disabled, and enabled again: both are posted to its strand.
SenderDisables ==
    /\ ~Off /\ disables < setup.MaxTxDisables
    /\ disables' = disables + 1
    /\ Sender(Post(State, "disable", NoFile), Nothing)
    /\ UNCHANGED <<asked, losses, early, restarts, requests>>

SenderEnables ==
    /\ Off /\ setup.MaxTxDisables > 0
    /\ Sender(Post(State, "enable", NoFile), Nothing)
    /\ UNCHANGED <<asked, envVars>>

ReceiverDisables ==
    /\ rx.enabled /\ disables < setup.MaxRxDisables
    /\ disables' = disables + 1
    /\ Receiver(RxDisable(RxState), Nothing)
    /\ UNCHANGED <<losses, early, restarts, requests>>

ReceiverEnables ==
    /\ ~rx.enabled
    /\ Receiver(RxEnable(RxState), Nothing)
    /\ UNCHANGED envVars

\* The sending process dies, and starts again from what is on disk.
Restart ==
    /\ restarts < setup.MaxRestarts
    /\ restarts' = restarts + 1
    /\ LET s == Enable([State EXCEPT !.port = NewPort, !.strand = <<>>])
           dead == {m \in BagToSet(net) : m.kind = "answer"}
       IN  /\ tx' = s.port /\ strand' = s.strand /\ saved' = s.saved
           /\ net' = [m \in BagToSet(net) \ dead |-> net[m]]
    /\ UNCHANGED <<setup, rxVars, asked, losses, early, disables, requests>>

Next ==
    \/ StrandRuns
    \/ \E f \in Files, only_modified \in BOOLEAN : Trigger(f, only_modified)
    \/ \E m \in BagToSet(net) : SenderGets(m) \/ ReceiverGets(m) \/ Lose(m)
    \/ ConfirmTimerExpires \/ TransferTimerExpires \/ SenderIdle \/ ReceiverIdle
    \/ SenderDisables \/ SenderEnables \/ ReceiverDisables \/ ReceiverEnables
    \/ Restart

Fairness ==
    /\ WF_vars(StrandRuns)
    /\ WF_vars(\E m \in BagToSet(net) : SenderGets(m) \/ ReceiverGets(m))
    /\ WF_vars(ConfirmTimerExpires) /\ WF_vars(TransferTimerExpires)
    /\ SF_vars(SenderIdle) /\ SF_vars(ReceiverIdle)
    /\ WF_vars(SenderEnables) /\ WF_vars(ReceiverEnables)

Spec == Init /\ [][Next]_vars /\ Fairness

-----------------------------------------------------------------------------
Chunk(f, n) == Item("data", f, n)
Content(f) == [i \in 1..setup.Chunks[f] |-> Chunk(f, i)]

\* Item i of what has been appended to a file: what was there before, or the
\* chunk after the one before it; a copy begins where another has ended.
Placed(f, s, i) ==
    \/ i = 1 /\ f \in setup.Existing /\ s[i] = Old
    \/ \E n \in 1..setup.Chunks[f] :
          /\ s[i] = Chunk(f, n)
          /\ IF n = 1 THEN i = 1 \/ s[i - 1] \in {Old, Chunk(f, setup.Chunks[f])}
             ELSE i > 1 /\ s[i - 1] = Chunk(f, n - 1)

\* Whole copies of the file, after what was there before.
Copies(f, s) ==
    /\ \A i \in DOMAIN s : Placed(f, s, i)
    /\ IF s = <<>> THEN setup.Chunks[f] = 0 ELSE s[Len(s)] \in {Old, Chunk(f, setup.Chunks[f])}

\* What a file may hold: what was there before, or the whole of the file, once,
\* or as often as it has been appended.
Whole(f, s) ==
    \/ f \in setup.Existing /\ s = <<Old>>
    \/ IF setup.Mode = "APPEND" THEN Copies(f, s) ELSE s = Content(f)

\* A handler that goes on with the transfer of a file is under way: the callback
\* of its name, the handler posted for its next chunk, or one that waits for a
\* confirmation.
Underway ==
    \/ tx.ConfirmHandler.kind \in {"chunk", "eof"}
    \/ \E i \in DOMAIN strand : strand[i].kind \in {"answer", "chunk"}
    \/ \E m \in BagToSet(net) : m.kind = "answer"

\* The sender takes a transfer for ended while a handler of it is under way,
\* which then goes on with the next one: being enabled does this, and so does a
\* reset that runs the handler left by the file before.
Abandons == tx.in_progress /\ ~tx'.in_progress /\ Underway'

\* A file of the receiver's directory that is not being received is whole:
\* whatever is overtaken, lost, sent again or timed out, the sequence numbers
\* and CRCs keep the chunks of a file together, in order, and an aborted
\* transfer leaves nothing behind (ProcessRxBuffer, ResetTransfer).  Without
\* CRCs the name of the next file may overtake data; and the sender's chain
\* must be one of whole files, which Abandons can break.
FileIntact ==
    setup.UseCRCs =>
        \A f \in Files : \/ rx.in_progress /\ rx.Filename = f
                         \/ disk[f] = Absent \/ Whole(f, disk[f])

\* An unsolicited confirmation that makes the sender forget a file
\* (tx_uncofirmed_transfers.clear()) finds the file received: its CRC says that
\* the receiver has processed the very chain the sender has sent.
UnsolicitedConfirmIsSound ==
    [][\A f \in tx.unconfirmed :
        /\ strand # <<>> /\ Head(strand).kind = "confirm" /\ Head(strand).arg.unsol
        /\ restarts' = restarts
        /\ f \notin tx'.unconfirmed \cup tx'.filename_q
        => f \in received]_vars

\* Nothing goes wrong, and one file is sent at a time.  The name of a file that
\* cannot be opened is out, and nothing ends it; events of two files may
\* overtake each other by more than the sequence is long.
Reliable ==
    /\ setup.MaxLosses + setup.MaxEarly + setup.MaxTxDisables + setup.MaxRxDisables + setup.MaxRestarts = 0
    /\ setup.Unreadable = {}
    /\ setup.MaxRequests = 1

\* Where nothing goes wrong the file the sender is asked for is received in the
\* end, in whatever order the thread pool publishes its events and
\* confirmations: no chunk that is early is dropped, and the sender
\* waits for a confirmation only where the receiver sends one.
EventuallyDelivered == \A f \in Files : Reliable /\ f \in asked ~> f \in received

\* The sender always gets out of a transfer: tx_in_progress keeps every other
\* file waiting, and what ends it is a chain of posted handlers, callbacks,
\* confirmations and timers, broken off by resets.
NeverHangs == tx.in_progress ~> ~tx.in_progress
=============================================================================
