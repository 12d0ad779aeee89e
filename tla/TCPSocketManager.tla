---------------------------- MODULE TCPSocketManager ----------------------------
(***************************************************************************)
(* odc::TCPSocketManager: one reconnecting TCP endpoint (client or         *)
(* server) with a write buffer, used by the JSON, MD3 and Conitel ports.   *)
(* Everything it does runs on one strand, pSockStrand, so a handler is     *)
(* atomic here; what interleaves is the order of the handlers: calls of    *)
(* the user, posts of the manager to itself, and completions of the        *)
(* asynchronous operations it has started.                                 *)
(*                                                                         *)
(* strand holds what was posted and has not run, oldest first.  The        *)
(* completion of an operation is run directly when the operation is over:  *)
(* it may overtake a post only if it could have completed before it.       *)
(*                                                                         *)
(* Sockets are numbers.  A number is used again once nobody refers to the  *)
(* socket, as an address would be.  0 is the null pointer.                 *)
(***************************************************************************)
EXTENDS Integers, Sequences, FiniteSets

CONSTANTS
    Socks,      \* the sockets, 1..n
    Setups      \* the managers and environments to look at

Millis == 0..65535    \* the uint16_t of the retry times

\* isServer; how many endpoints the host name resolves to; auto_reopen;
\* retry_time_ms (0 asks for the growing delay); buffer_limit, a number of
\* Write() calls; the bytes of one Write(); is throttle_bitrate set; what can
\* fail in the environment: name resolution, binding an acceptor, and
\* socket::cancel(), which can have no effect; and bounds: calls of Open()
\* and Close(), of Write(), connections and accepts that succeed, resolutions
\* that are found over 15 minutes old.
SetupType ==
    [IsServer : BOOLEAN, Endpoints : Nat \ {0}, AutoReopen : BOOLEAN, RetryTime : Millis,
     BufferLimit : Nat, Parts : Nat \ {0}, Throttled : BOOLEAN,
     ResolveMayFail : BOOLEAN, BindMayFail : BOOLEAN, CancelMayFail : BOOLEAN,
     MaxCalls : Nat, MaxWrites : Nat, MaxConnects : Nat, MaxStale : Nat]

ASSUME SocketAssumption ==
    /\ IsFiniteSet(Socks) /\ Socks \subseteq Nat \ {0}
    /\ \A u \in Setups : u \in SetupType

VARIABLES
    setup,            \* the manager's constructor arguments and its environment
    strand,           \* the posts waiting on pSockStrand
    manuallyClosed, isConnected, pending_write, pending_read,
    ramp_time_ms,
    resolved,         \* EndpointIterator is not the end iterator
    CandidatepSocks, pSock,
    pAcceptor,        \* the socket the acceptor accepts into
    queue_writebufs,  \* a sequence of buffers
    dispatch_writebufs, \* the bytes of the buffers being passed to asio
    retry,            \* pRetryTimer: is it armed, and expired handlers not yet run
    resolving,        \* resolutions under way
    conn,             \* the connect or accept operation of each socket
    reading,          \* sockets with a read under way
    writing,          \* the writes under way
    throttled,        \* sockets of finished writes that wait for the throttle
    fin,              \* sockets whose peer has closed
    dead,             \* sockets reset by the peer, closed or cancelled
    sendShut, recvShut, \* sockets shut down in one direction
    backup,           \* sockets with a backup close 3 seconds away
    wire,             \* history: the bytes handed to the network, in order
    dropped,          \* history: the bytes dropped from a full queue
    calls, nwrites, stale, connects \* what the bounds count

state    == <<manuallyClosed, isConnected, pending_read, pSock, reading>>
buffers  == <<queue_writebufs, dispatch_writebufs, pending_write, writing>>
writes   == <<buffers, throttled, wire, dropped>>
attempts == <<CandidatepSocks, conn, pAcceptor>>
ends     == <<fin, dead, sendShut, recvShut, backup>>
opening  == <<attempts, ends, resolving, stale>>
lookup   == <<resolved, resolving, stale>>
timers   == <<ramp_time_ms, retry>>
counts   == <<calls, nwrites, connects, setup>>
vars == <<strand, state, writes, opening, timers, resolved, counts>>

IsServer       == setup.IsServer
Endpoints      == setup.Endpoints
AutoReopen     == setup.AutoReopen
RetryTime      == setup.RetryTime
BufferLimit    == setup.BufferLimit
Parts          == setup.Parts
Throttled      == setup.Throttled
ResolveMayFail == setup.ResolveMayFail
BindMayFail    == setup.BindMayFail
CancelMayFail  == setup.CancelMayFail
MaxCalls       == setup.MaxCalls
MaxWrites      == setup.MaxWrites
MaxConnects    == setup.MaxConnects
MaxStale       == setup.MaxStale

Post(h) == <<h, 0>>
AutoOpenPost  == <<Post("AutoOpen")>>
AutoClosePost == <<Post("AutoClose")>>

Ramp(t) == t % 65536    \* uint16_t

Bytes(w) == [i \in 1..Parts |-> <<w, i>>]

Concat(q) ==
    LET upto[i \in 0..Len(q)] == IF i = 0 THEN <<>> ELSE upto[i - 1] \o q[i]
    IN  upto[Len(q)]

Elements(s) == {s[i] : i \in 1..Len(s)}

WriteSocks == {o.sock : o \in writing} \cup throttled

\* Who keeps a socket alive: the manager's own pointers and the handlers
\* that capture one.  The read handler does not.
Held(s) == \/ s = pSock
           \/ s \in CandidatepSocks \cup WriteSocks
           \/ conn[s] # "idle"

\* Why an operation on a socket ends with an error.
Broken(s) == s \in dead \/ ~Held(s)

Fresh == {s \in Socks : ~Held(s) /\ s \notin reading}

Init ==
    /\ setup \in Setups
    /\ strand = <<>>
    /\ manuallyClosed = TRUE
    /\ isConnected = FALSE /\ pending_write = FALSE /\ pending_read = FALSE
    /\ ramp_time_ms = 0
    /\ resolved = FALSE
    /\ CandidatepSocks = {} /\ pSock = 0 /\ pAcceptor = 0
    /\ queue_writebufs = <<>> /\ dispatch_writebufs = <<>>
    /\ retry = [armed |-> FALSE, fired |-> 0]
    /\ resolving = 0
    /\ conn = [s \in Socks |-> "idle"]
    /\ reading = {} /\ writing = {} /\ throttled = {}
    /\ fin = {} /\ dead = {} /\ sendShut = {} /\ recvShut = {} /\ backup = {}
    /\ wire = <<>> /\ dropped = {}
    /\ calls = 0 /\ nwrites = 0 /\ stale = 0 /\ connects = 0

---------------------------------------------------------------------------
(* The user.                                                               *)

Call(h) ==
    /\ calls < MaxCalls
    /\ calls' = calls + 1
    /\ strand' = Append(strand, Post(h))
    /\ UNCHANGED <<state, writes, opening, timers, resolved, nwrites,
                   connects, setup>>

CallWrite ==
    /\ nwrites < MaxWrites
    /\ nwrites' = nwrites + 1
    /\ strand' = Append(strand, <<"Write", nwrites'>>)
    /\ UNCHANGED <<state, writes, opening, timers, resolved, calls,
                   connects, setup>>

---------------------------------------------------------------------------
(* Opening.  rest is the strand once the running handler has left it.      *)

\* The sockets of a new attempt forget their earlier lives.
Renew(new) ==
    /\ fin' = fin \ new
    /\ dead' = dead \ new
    /\ sendShut' = sendShut \ new
    /\ recvShut' = recvShut \ new
    /\ backup' = backup \ new

NewSocks(n) == CHOOSE new \in SUBSET Fresh : Cardinality(new) = n

\* The pending accept of an acceptor that is replaced or reset is aborted.
AcceptorGone(c, s) == IF s # 0 /\ c[s] = "connecting" THEN [c EXCEPT ![s] = "failed"] ELSE c

ClientOpen(rest) ==
    /\ Cardinality(Fresh) >= Endpoints
    /\ LET new == NewSocks(Endpoints) IN
       /\ CandidatepSocks' = CandidatepSocks \cup new
       /\ conn' = [s \in Socks |-> IF s \in new THEN "connecting" ELSE conn[s]]
       /\ Renew(new)
    /\ strand' = rest
    /\ UNCHANGED <<pAcceptor, resolving, stale>>

\* An endpoint that does not bind asks for a retry if nothing is being tried
\* yet, that is if none before it has bound.
BindFailures(bound) ==
    [e \in 1..Cardinality({e \in 1..Endpoints : \A b \in bound : e < b}) |-> Post("AutoOpen")]

\* Each endpoint that binds replaces the acceptor of the one before it.
ServerOpen(rest) ==
    \E bound \in SUBSET (1..Endpoints) :
        LET new   == NewSocks(Cardinality(bound))
            last  == CHOOSE s \in new : \A t \in new : t <= s
        IN  /\ BindMayFail \/ bound = 1..Endpoints
            /\ Cardinality(Fresh) >= Cardinality(bound)
            /\ CandidatepSocks' = CandidatepSocks \cup new
            /\ Renew(new)
            /\ strand' = rest \o BindFailures(bound)
            /\ IF bound = {}
               THEN UNCHANGED <<conn, pAcceptor>>
               ELSE /\ pAcceptor' = last
                    /\ conn' = [s \in Socks |->
                                  IF s = last THEN "connecting"
                                  ELSE IF s \in new THEN "failed"
                                  ELSE AcceptorGone(conn, pAcceptor)[s]]
            /\ UNCHANGED <<resolving, stale>>

Busy == isConnected \/ CandidatepSocks # {} \/ pending_read

StartResolve(rest) ==
    /\ resolving' = resolving + 1
    /\ strand' = rest
    /\ UNCHANGED <<attempts, ends>>

\* Found over 15 minutes old is a choice of its own, in Open.
AlwaysResolve == TRUE
NeedsResolving == ~resolved

Open(rest) ==
    /\ manuallyClosed' = FALSE
    /\ \/ /\ Busy
          /\ strand' = rest
          /\ UNCHANGED opening
       \/ /\ ~Busy /\ NeedsResolving
          /\ StartResolve(rest)
          /\ UNCHANGED stale
       \/ /\ ~Busy /\ ~NeedsResolving /\ stale < MaxStale
          /\ stale' = stale + 1
          /\ StartResolve(rest)
       \/ /\ ~Busy /\ ~NeedsResolving
          /\ IF IsServer THEN ServerOpen(rest) ELSE ClientOpen(rest)

\* Open() on the strand.
RunOpen ==
    /\ strand # <<>> /\ Head(strand) = Post("Open")
    /\ Open(Tail(strand))
    /\ UNCHANGED <<writes, timers, counts, isConnected, pending_read, resolved,
                   pSock, reading>>

ResolveDone(ok) ==
    /\ resolving > 0
    /\ ok \/ ResolveMayFail
    /\ resolving' = resolving - 1
    /\ IF manuallyClosed
       THEN UNCHANGED <<resolved, strand>>
       ELSE /\ resolved' = (ok \/ resolved)
            /\ strand' = strand \o AutoOpenPost
    /\ UNCHANGED <<state, writes, attempts, ends, timers, counts, stale>>

NoReopenOnceResolved == ~AutoReopen \/ manuallyClosed \/ Busy \/ resolved
NoReopen == ~AutoReopen \/ manuallyClosed \/ Busy

RunAutoOpen ==
    LET ramp == IF RetryTime # 0 THEN RetryTime ELSE ramp_time_ms IN
    /\ strand # <<>> /\ Head(strand) = Post("AutoOpen")
    /\ \/ /\ NoReopen
          /\ strand' = Tail(strand)
          /\ UNCHANGED <<opening, timers, manuallyClosed>>
       \/ /\ ~NoReopen /\ ramp = 0
          /\ ramp_time_ms' = 125
          /\ Open(Tail(strand))
          /\ UNCHANGED retry
       \/ /\ ~NoReopen /\ ramp # 0
          /\ ramp_time_ms' = ramp
          /\ retry' = [retry EXCEPT !.armed = TRUE]
          /\ strand' = Tail(strand)
          /\ UNCHANGED <<opening, manuallyClosed>>
    /\ UNCHANGED <<writes, counts, isConnected, pending_read, resolved, pSock, reading>>

RetryExpires ==
    /\ retry.armed
    /\ retry' = [armed |-> FALSE, fired |-> retry.fired + 1]
    /\ UNCHANGED <<state, writes, opening, counts, strand, ramp_time_ms, resolved>>

RetryHandler ==
    /\ retry.fired > 0
    /\ retry' = [retry EXCEPT !.fired = @ - 1]
    /\ IF manuallyClosed
       THEN UNCHANGED <<opening, strand, manuallyClosed, ramp_time_ms>>
       ELSE /\ ramp_time_ms' = Ramp(ramp_time_ms * 2)
            /\ Open(strand)
    /\ UNCHANGED <<writes, counts, isConnected, pending_read, resolved, pSock, reading>>

---------------------------------------------------------------------------
(* Writing.                                                                *)

\* A buffer joins the queue; a queue over its limit loses its oldest buffer.
Buffered(buf) ==
    LET q == Append(queue_writebufs, buf) IN
    IF Len(q) > BufferLimit
    THEN queue_writebufs' = Tail(q) /\ dropped' = dropped \cup Elements(Head(q))
    ELSE queue_writebufs' = q /\ UNCHANGED dropped

\* WriteBuffer(), given what the handler that calls it leaves in the buffers
\* and in pending_write, and the other writes under way.
WriteBuffer(s, queue, dispatch, pending, others) ==
    IF (queue # <<>> \/ dispatch # <<>>) /\ ~pending
    THEN /\ IF dispatch = <<>>
            THEN queue_writebufs' = <<>> /\ dispatch_writebufs' = Concat(queue)
            ELSE queue_writebufs' = queue /\ dispatch_writebufs' = dispatch
         /\ pending_write' = TRUE
         /\ writing' = others \cup {[sock |-> s, direct |-> FALSE, buf |-> <<>>]}
    ELSE /\ queue_writebufs' = queue /\ dispatch_writebufs' = dispatch
         /\ pending_write' = pending
         /\ writing' = others

MustBufferUnlessIdle == ~isConnected \/ manuallyClosed
MustBuffer == ~isConnected \/ manuallyClosed \/ pending_write

\* Write() on the strand.
RunWrite ==
    /\ strand # <<>> /\ Head(strand)[1] = "Write"
    /\ strand' = Tail(strand)
    /\ LET buf == Bytes(Head(strand)[2]) IN
       IF MustBuffer
       THEN /\ Buffered(buf)
            /\ UNCHANGED <<dispatch_writebufs, pending_write, writing>>
       ELSE /\ pending_write' = TRUE
            /\ writing' = writing \cup {[sock |-> pSock, direct |-> TRUE, buf |-> buf]}
            /\ UNCHANGED <<queue_writebufs, dispatch_writebufs, dropped>>
    /\ UNCHANGED <<state, opening, timers, counts, wire, resolved, throttled>>

StillConnected(s) == s = pSock /\ isConnected
StillActive(s) == s = pSock /\ isConnected /\ ~manuallyClosed

CheckLastWrite(s, queue, dispatch, others) ==
    IF StillActive(s)
    THEN /\ WriteBuffer(s, queue, dispatch, FALSE, others)
         /\ UNCHANGED <<strand, sendShut>>
    ELSE /\ pending_write' = FALSE
         /\ writing' = others
         /\ queue_writebufs' = queue /\ dispatch_writebufs' = dispatch
         /\ sendShut' = sendShut \cup {s}
         /\ strand' = strand \o AutoOpenPost

\* CheckLastWrite() at once, or after the delay the throttle asks for.
ThrottleCheckLastWrite(s, queue, dispatch, others) ==
    \/ /\ CheckLastWrite(s, queue, dispatch, others)
       /\ UNCHANGED throttled
    \/ /\ Throttled
       /\ throttled' = throttled \cup {s}
       /\ queue_writebufs' = queue /\ dispatch_writebufs' = dispatch
       /\ writing' = others
       /\ UNCHANGED <<pending_write, strand, sendShut>>

\* n bytes of the data were written; fewer than all of them on an error, or
\* when the throttle writes the buffer in chunks.
MayWrite(o, n, size) ==
    IF n = size
    THEN ~Broken(o.sock) /\ o.sock \notin sendShut
    ELSE \/ o.sock \in sendShut \/ Broken(o.sock)
         \/ Throttled /\ ~o.direct /\ n > 0

\* The bytes after the first n.
AllOfIt(buf, n) == buf
Rest(buf, n) == SubSeq(buf, n + 1, Len(buf))

\* What is left of a Write() of its own is buffered behind what was
\* buffered while it was under way.
DirectWriteDone(o, n) ==
    /\ o.direct
    /\ MayWrite(o, n, Len(o.buf))
    /\ wire' = wire \o SubSeq(o.buf, 1, n)
    /\ LET q == IF n < Len(o.buf)
                THEN Append(queue_writebufs, Rest(o.buf, n))
                ELSE queue_writebufs
           kept == IF Len(q) > BufferLimit /\ n < Len(o.buf) THEN Tail(q) ELSE q
       IN  /\ dropped' = dropped \cup (Elements(Concat(q)) \ Elements(Concat(kept)))
           /\ ThrottleCheckLastWrite(o.sock, kept, dispatch_writebufs, writing \ {o})

BufferWriteDone(o, n) ==
    /\ ~o.direct
    /\ MayWrite(o, n, Len(dispatch_writebufs))
    /\ wire' = wire \o SubSeq(dispatch_writebufs, 1, n)
    /\ ThrottleCheckLastWrite(o.sock, queue_writebufs, Rest(dispatch_writebufs, n),
                              writing \ {o})
    /\ UNCHANGED dropped

WriteHandler ==
    /\ \E o \in writing :
          \/ \E n \in 0..Len(o.buf) : DirectWriteDone(o, n)
          \/ \E n \in 0..Len(dispatch_writebufs) : BufferWriteDone(o, n)
    /\ UNCHANGED <<state, attempts, lookup, timers, counts, fin, dead, recvShut,
                   backup>>

ThrottleHandler(s) ==
    /\ s \in throttled
    /\ throttled' = throttled \ {s}
    /\ CheckLastWrite(s, queue_writebufs, dispatch_writebufs, writing)
    /\ UNCHANGED <<state, attempts, lookup, timers, counts, wire, dropped, fin, dead,
                   recvShut, backup>>

---------------------------------------------------------------------------
(* Connecting, reading and closing.                                        *)

Connected(s) ==
    /\ pSock' = s
    /\ isConnected' = TRUE
    /\ ramp_time_ms' = 0
    /\ pending_read' = TRUE
    /\ reading' = reading \cup {s}
    /\ IF manuallyClosed
       THEN strand' = strand \o AutoClosePost /\ UNCHANGED buffers
       ELSE /\ WriteBuffer(s, queue_writebufs, dispatch_writebufs, pending_write, writing)
            /\ UNCHANGED strand

\* The completion of a connect or an accept; the accept handler ends by
\* resetting whatever acceptor there is.
ConnectCompletionHandler(s) ==
    /\ conn[s] \in {"established", "failed"}
    /\ CandidatepSocks' = CandidatepSocks \ {s}
    /\ LET gone == [conn EXCEPT ![s] = "idle"] IN
       IF IsServer
       THEN pAcceptor' = 0 /\ conn' = AcceptorGone(gone, pAcceptor)
       ELSE UNCHANGED pAcceptor /\ conn' = gone
    /\ \/ /\ conn[s] = "failed"
          /\ strand' = IF CandidatepSocks' = {} THEN strand \o AutoOpenPost ELSE strand
          /\ UNCHANGED <<buffers, pSock, isConnected, ramp_time_ms, pending_read,
                         reading>>
       \/ /\ conn[s] = "established" /\ isConnected
          /\ UNCHANGED <<buffers, strand, pSock, isConnected, ramp_time_ms,
                         pending_read, reading>>
       \/ /\ conn[s] = "established" /\ ~isConnected
          /\ Connected(s)
    /\ UNCHANGED <<ends, lookup, counts, manuallyClosed, wire, dropped, retry,
                   throttled>>

CloseThenOpen == AutoClosePost \o AutoOpenPost

\* A read that brings data calls ReadCallback and starts the next read: it
\* changes nothing that is modelled.  A read that ends with an error shuts
\* down receiving on pSock, whichever socket the read was on.
ReadHandler(s) ==
    /\ s \in reading
    /\ s \in fin \cup recvShut \/ Broken(s)
    /\ reading' = reading \ {s}
    /\ pending_read' = FALSE
    /\ recvShut' = recvShut \cup {pSock}
    /\ strand' = strand \o CloseThenOpen
    /\ UNCHANGED <<writes, attempts, lookup, timers, counts, manuallyClosed,
                   isConnected, pSock, fin, dead, sendShut, backup>>

\* Close() on the strand.
RunClose ==
    /\ strand # <<>> /\ Head(strand) = Post("Close")
    /\ manuallyClosed' = TRUE
    /\ ramp_time_ms' = 0
    /\ retry' = [retry EXCEPT !.armed = FALSE]
    /\ dead' = dead \cup CandidatepSocks
    /\ conn' = LET closed == [s \in Socks |->
                                 IF s \in CandidatepSocks /\ conn[s] = "connecting"
                                 THEN "failed" ELSE conn[s]]
               IN  AcceptorGone(closed, pAcceptor)
    /\ CandidatepSocks' = {}
    /\ pAcceptor' = 0
    /\ strand' = Tail(strand) \o AutoClosePost
    /\ UNCHANGED <<writes, lookup, counts, isConnected, pending_read, pSock, reading,
                   fin, sendShut, recvShut, backup>>

\* Shut down sending, or leave that to the write handler; if there is no
\* read to wait for, cancel the write, and close in 3 seconds if need be.
ShutOrCancel ==
    \/ /\ ~pending_write
       /\ sendShut' = sendShut \cup {pSock}
       /\ UNCHANGED <<dead, backup>>
    \/ /\ pending_write /\ ~pending_read
       /\ \/ dead' = dead \cup {pSock}
          \/ CancelMayFail /\ UNCHANGED dead
       /\ backup' = backup \cup {pSock}
       /\ UNCHANGED sendShut
    \/ /\ pending_write /\ pending_read
       /\ UNCHANGED <<sendShut, dead, backup>>

RunAutoClose ==
    /\ strand # <<>> /\ Head(strand) = Post("AutoClose")
    /\ strand' = Tail(strand)
    /\ IF isConnected
       THEN /\ ShutOrCancel
            /\ isConnected' = FALSE
            /\ resolved' = FALSE
       ELSE UNCHANGED <<sendShut, dead, backup, isConnected, resolved>>
    /\ UNCHANGED <<writes, attempts, timers, counts, manuallyClosed, pending_read,
                   pSock, reading, fin, recvShut, resolving, stale>>

BackupClose(s) ==
    /\ s \in backup
    /\ backup' = backup \ {s}
    /\ dead' = IF Held(s) THEN dead \cup {s} ELSE dead
    /\ UNCHANGED <<state, writes, attempts, lookup, timers, counts, strand, fin,
                   sendShut, recvShut>>

---------------------------------------------------------------------------
(* The network.  An operation that is over waits for its handler to reach  *)
(* the strand, and Close() does not take its result back.                  *)

Settle(s, outcome) ==
    /\ conn[s] = "connecting"
    /\ conn' = [conn EXCEPT ![s] = outcome]
    /\ \/ /\ outcome = "established" /\ connects < MaxConnects
          /\ connects' = connects + 1
       \/ /\ outcome = "failed" /\ ~IsServer
          /\ UNCHANGED connects
    /\ UNCHANGED <<state, writes, ends, lookup, timers, strand, calls, nwrites,
                   CandidatepSocks, pAcceptor, setup>>

\* The peer closes its side, or resets the connection.
PeerEnds(s, resets) ==
    /\ s = pSock \/ conn[s] = "established" \/ s \in reading
    /\ s \notin IF resets THEN dead ELSE fin
    /\ fin' = fin \cup {s}
    /\ dead' = IF resets THEN dead \cup {s} ELSE dead
    /\ UNCHANGED <<state, writes, attempts, lookup, timers, counts, strand, sendShut,
                   recvShut, backup>>

Strand == RunOpen \/ RunClose \/ RunAutoOpen \/ RunAutoClose \/ RunWrite

User == Call("Open") \/ Call("Close") \/ CallWrite

Network == \E s \in Socks : \/ Settle(s, "established")
                            \/ Settle(s, "failed")
                            \/ \E resets \in BOOLEAN : PeerEnds(s, resets)

Completion ==
    \/ \E s \in Socks : \/ ConnectCompletionHandler(s)
                        \/ ReadHandler(s)
                        \/ ThrottleHandler(s)
                        \/ BackupClose(s)
    \/ \E ok \in BOOLEAN : ResolveDone(ok)
    \/ RetryExpires
    \/ RetryHandler
    \/ WriteHandler

Next == Strand \/ User \/ Network \/ Completion

\* The pool keeps running the strand and every handler whose operation is
\* over, resolutions end, timers expire, and a peer takes what is written to
\* it.  Nothing is assumed of the user, nor of peers connecting or closing.
Fairness ==
    /\ WF_vars(Strand)
    /\ \A s \in Socks : /\ WF_vars(ConnectCompletionHandler(s))
                        /\ WF_vars(ReadHandler(s))
                        /\ WF_vars(ThrottleHandler(s))
                        /\ WF_vars(BackupClose(s))
    /\ WF_vars(\E ok \in BOOLEAN : ResolveDone(ok))
    /\ WF_vars(RetryExpires)
    /\ WF_vars(RetryHandler)
    /\ WF_vars(WriteHandler)

Spec == Init /\ [][Next]_vars /\ Fairness

---------------------------------------------------------------------------
(* Properties.                                                             *)

\* The type invariant.
TypeOK ==
    /\ setup \in Setups
    /\ strand \in Seq(({"Open", "Close", "AutoOpen", "AutoClose"} \X {0})
                          \cup ({"Write"} \X (1..MaxWrites)))
    /\ {manuallyClosed, isConnected, pending_write, pending_read, resolved} \subseteq BOOLEAN
    /\ ramp_time_ms \in Millis
    /\ CandidatepSocks \subseteq Socks
    /\ {pSock, pAcceptor} \subseteq Socks \cup {0}
    /\ Len(queue_writebufs) <= BufferLimit
    /\ retry.armed \in BOOLEAN /\ retry.fired \in Nat
    /\ resolving \in Nat
    /\ conn \in [Socks -> {"idle", "connecting", "established", "failed"}]
    /\ UNION {reading, throttled, fin, dead, sendShut, recvShut, backup} \subseteq Socks
    /\ {o.sock : o \in writing} \subseteq Socks
    /\ calls \in 0..MaxCalls /\ nwrites \in 0..MaxWrites
    /\ connects \in 0..MaxConnects /\ stale \in 0..MaxStale

\* There is at most one write under way over all the sockets, those of
\* earlier connections included, and pending_write says whether there is one
\* (a write that waits for the throttle counts): two would interleave their
\* bytes and would both consume the dispatch buffer.
OneWriteAtATime ==
    /\ \A o, p \in writing : o = p
    /\ \A s, t \in throttled : s = t
    /\ writing = {} \/ throttled = {}
    /\ pending_write <=> (writing # {} \/ throttled # {})

Unwritten == Concat(queue_writebufs) \o dispatch_writebufs

DirectBytes == UNION {Elements(o.buf) : o \in writing}

Waiting == UNION {Elements(Bytes(strand[i][2])) :
                      i \in {j \in 1..Len(strand) : strand[j][1] = "Write"}}

\* No byte given to Write() is lost or sent twice, whatever connections
\* come and go between: it is on the wire, or in one of the buffers, or in the
\* write under way, or was dropped from a full queue, and only one of these.
EachByteOnce ==
    LET accepted == UNION {Elements(Bytes(w)) : w \in 1..nwrites}
    IN  /\ accepted = Elements(wire) \cup dropped \cup Elements(Unwritten)
                        \cup DirectBytes \cup Waiting
        /\ Cardinality(accepted) = Len(wire) + Cardinality(dropped) + Len(Unwritten)
                                     + Cardinality(DirectBytes) + Cardinality(Waiting)

Posted(hs) == \E i \in 1..Len(strand) : strand[i][1] \in hs

\* A connection that completes after Close() is read from but never written
\* to: no write starts unless the manager is connected and not manually
\* closed.
NoWriteOnceClosed ==
    [][\A o \in writing' : o \in writing \/ (isConnected' /\ ~manuallyClosed')]_vars

\* Open() opens: a manager that is meant to be open gets to attempt a
\* connection, unless it is closed again or still waits for the peer of the
\* previous connection to close.  (Name resolution and binding succeed.)
EventuallyTries ==
    AutoReopen /\ ~ResolveMayFail /\ ~BindMayFail /\ ~manuallyClosed /\ ~isConnected
        ~> CandidatepSocks # {} \/ isConnected \/ manuallyClosed \/ pending_read

\* A server that is open, not connected and able to bind listens, and goes on
\* listening until someone connects.
StaysListening ==
    AutoReopen /\ IsServer /\ ~ResolveMayFail /\ ~BindMayFail
        => <>[](manuallyClosed \/ isConnected \/ pending_read \/ pAcceptor # 0)

---------------------------------------------------------------------------
(* What one would expect and the code does not do; the README says which   *)
(* setups show it.                                                         *)

\* The peer of a connection that is closed is told: once the manager is no
\* longer connected, sending on its last socket has been shut down or the
\* socket closed, or a write on that socket is still under way, whose handler
\* does it.
SendIsShut ==
    ~isConnected /\ pSock # 0 => pSock \in sendShut \cup dead \cup WriteSocks

\* Bytes go out in the order of the Write() calls.
Precedes(a, b) == a[1] < b[1] \/ (a[1] = b[1] /\ a[2] < b[2])

InOrder == \A i, j \in 1..Len(wire) : i < j => Precedes(wire[i], wire[j])

\* What is buffered is written once there is a connection that lasts.
BufferedIsWritten ==
    Unwritten # <<>> /\ isConnected /\ ~manuallyClosed
        ~> Unwritten = <<>> \/ ~isConnected \/ manuallyClosed

\* The delay between attempts grows while attempts fail.
BackoffGrows == [][RetryHandler /\ ~manuallyClosed => ramp_time_ms' > ramp_time_ms]_vars
=============================================================================
