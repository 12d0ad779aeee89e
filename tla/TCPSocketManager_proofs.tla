----------------------- MODULE TCPSocketManager_proofs -----------------------
(***************************************************************************)
(* The write discipline of TCPSocketManager, for every configuration,      *)
(* number of sockets and history of connections: one write at a time over  *)
(* all sockets, none that starts once the manager is closed, and no byte   *)
(* lost or sent twice.                                                     *)
(***************************************************************************)
EXTENDS TCPSocketManager, SequenceTheorems, FiniteSetTheorems, WellFoundedInduction, TLAPS

IInv == pending_write \in BOOLEAN /\ OneWriteAtATime

\* WriteBuffer(), called when no other write is under way, starts at most one.
LEMMA WriteBufferStartsOne ==
    ASSUME NEW s, NEW q, NEW d, NEW pending \in BOOLEAN, NEW others,
           WriteBuffer(s, q, d, pending, others),
           ~pending => others = {}
    PROVE  /\ pending_write' \in BOOLEAN
           /\ ~pending => /\ \A o, p \in writing' : o = p
                          /\ pending_write' <=> writing' # {}
           /\ pending => writing' = others /\ pending_write'
  BY DEF WriteBuffer

\* CheckLastWrite(), called when the last write has ended, leaves at most the
\* one write it starts itself.
LEMMA CheckLastWriteStartsOne ==
    ASSUME NEW s, NEW q, NEW d, CheckLastWrite(s, q, d, {})
    PROVE  /\ pending_write' \in BOOLEAN
           /\ \A o, p \in writing' : o = p
           /\ pending_write' <=> writing' # {}
<1>1. CASE StillActive(s)
  <2>1. WriteBuffer(s, q, d, FALSE, {})
    BY <1>1 DEF CheckLastWrite
  <2>2. QED
    BY <2>1, WriteBufferStartsOne
<1>2. CASE ~StillActive(s)
  BY <1>2 DEF CheckLastWrite
<1>3. QED
  BY <1>1, <1>2

\* The same for a write that may have to wait for the throttle first.
LEMMA ThrottledLastWrite ==
    ASSUME IInv, NEW s, NEW q, NEW d, NEW o \in writing,
           ThrottleCheckLastWrite(s, q, d, writing \ {o})
    PROVE  IInv'
<1>1. writing \ {o} = {} /\ throttled = {} /\ pending_write
  BY DEF IInv, OneWriteAtATime
<1>2. CASE CheckLastWrite(s, q, d, writing \ {o}) /\ UNCHANGED throttled
  <2>1. CheckLastWrite(s, q, d, {})
    BY <1>1, <1>2
  <2>2. throttled' = {}
    BY <1>1, <1>2
  <2>3. QED
    BY <2>1, <2>2, CheckLastWriteStartsOne DEF IInv, OneWriteAtATime
<1>3. CASE /\ throttled' = throttled \cup {s}
           /\ writing' = writing \ {o}
           /\ UNCHANGED pending_write
  BY <1>1, <1>3 DEF IInv, OneWriteAtATime
<1>4. QED
  BY <1>2, <1>3 DEF ThrottleCheckLastWrite

\* No step of the manager, its user or the network breaks the invariant.
LEMMA NextIInv == IInv /\ [Next]_vars => IInv'
<1> SUFFICES ASSUME IInv, [Next]_vars PROVE IInv'
  OBVIOUS
<1>1. ASSUME UNCHANGED <<pending_write, writing, throttled>> PROVE IInv'
  BY <1>1 DEF IInv, OneWriteAtATime
<1>2. CASE RunOpen \/ RunClose \/ RunAutoOpen \/ RunAutoClose
  BY <1>1, <1>2 DEF RunOpen, RunClose, RunAutoOpen, RunAutoClose, writes, buffers
<1>3. CASE RunWrite
  <2>1. CASE MustBuffer
    BY <1>1, <1>3, <2>1 DEF RunWrite
  <2>2. CASE ~MustBuffer
    <3>1. writing = {} /\ throttled = {}
      BY <2>2 DEF MustBuffer, IInv, OneWriteAtATime
    <3>2. PICK w : /\ writing' = writing \cup {w}
                   /\ pending_write' = TRUE
                   /\ throttled' = throttled
      BY <1>3, <2>2 DEF RunWrite
    <3>3. QED
      BY <3>1, <3>2 DEF IInv, OneWriteAtATime
  <2>3. QED
    BY <2>1, <2>2
<1>4. CASE User
  BY <1>1, <1>4 DEF User, Call, CallWrite, writes, buffers
<1>5. CASE Network
  BY <1>1, <1>5 DEF Network, Settle, PeerEnds, writes, buffers
<1>6. ASSUME NEW s \in Socks, ConnectCompletionHandler(s) PROVE IInv'
  <2>1. throttled' = throttled
    BY <1>6 DEF ConnectCompletionHandler
  <2>2. CASE UNCHANGED buffers
    BY <1>1, <2>1, <2>2 DEF buffers
  <2>3. CASE WriteBuffer(s, queue_writebufs, dispatch_writebufs, pending_write, writing)
    <3>1. ~pending_write => writing = {} /\ throttled = {}
      BY DEF IInv, OneWriteAtATime
    <3>2. pending_write \in BOOLEAN
      BY DEF IInv
    <3>3. QED
      BY <2>1, <2>3, <3>1, <3>2, WriteBufferStartsOne DEF IInv, OneWriteAtATime
  <2>4. QED
    BY <1>6, <2>2, <2>3 DEF ConnectCompletionHandler, Connected
<1>7. ASSUME NEW s \in Socks, ReadHandler(s) \/ BackupClose(s) PROVE IInv'
  BY <1>1, <1>7 DEF ReadHandler, BackupClose, writes, buffers
<1>8. ASSUME NEW s \in Socks, ThrottleHandler(s) PROVE IInv'
  <2>1. writing = {} /\ throttled' = {}
    BY <1>8 DEF ThrottleHandler, IInv, OneWriteAtATime
  <2>2. CheckLastWrite(s, queue_writebufs, dispatch_writebufs, {})
    BY <1>8, <2>1 DEF ThrottleHandler
  <2>3. QED
    BY <2>1, <2>2, CheckLastWriteStartsOne DEF IInv, OneWriteAtATime
<1>9. CASE (\E ok \in BOOLEAN : ResolveDone(ok)) \/ RetryExpires \/ RetryHandler
  BY <1>1, <1>9 DEF ResolveDone, RetryExpires, RetryHandler, writes, buffers
<1>10. CASE WriteHandler
  <2>1. PICK o \in writing :
          \/ \E n \in 0..Len(o.buf) : DirectWriteDone(o, n)
          \/ \E n \in 0..Len(dispatch_writebufs) : BufferWriteDone(o, n)
    BY <1>10 DEF WriteHandler
  <2>2. \E q, d : ThrottleCheckLastWrite(o.sock, q, d, writing \ {o})
    BY <2>1, Zenon DEF DirectWriteDone, BufferWriteDone
  <2>3. QED
    BY <2>2, ThrottledLastWrite
<1>11. CASE UNCHANGED vars
  BY <1>1, <1>11 DEF vars, writes, buffers
<1>12. QED
  BY <1>2, <1>3, <1>4, <1>5, <1>6, <1>7, <1>8, <1>9, <1>10, <1>11
  DEF Next, Strand, Completion

\* There is at most one write under way over all sockets, old and new, and
\* pending_write says whether there is: for every number of sockets, of
\* endpoints and of calls, with and without throttling.
THEOREM SingleWriter == Spec => []OneWriteAtATime
<1>1. Init => IInv
  BY DEF Init, IInv, OneWriteAtATime
<1>2. IInv => OneWriteAtATime
  BY DEF IInv
<1>3. QED
  BY <1>1, <1>2, NextIInv, PTL DEF Spec

-----------------------------------------------------------------------------
Active == isConnected /\ ~manuallyClosed

\* CheckLastWrite(), at once or after the throttle, starts a write only on a
\* connection that is still the manager's and not closed.
LEMMA LastWriteNeedsConnection ==
    ASSUME NEW s, NEW q, NEW d, NEW others \in SUBSET writing,
           CheckLastWrite(s, q, d, others) \/ ThrottleCheckLastWrite(s, q, d, others)
    PROVE  \A o \in writing' : o \in writing \/ Active
<1>1. writing' = others \/ StillActive(s)
  BY DEF ThrottleCheckLastWrite, CheckLastWrite
<1>2. QED
  BY <1>1 DEF StillActive, Active

\* No write starts on a connection that completes after Close(), nor once the
\* manager is not connected: the manager's handlers that start a write look
\* at both flags, or set the one and look at the other.
THEOREM ClosedIsQuiet == Spec => NoWriteOnceClosed
<1> DEFINE Quiet == \A o \in writing' : o \in writing \/ Active'
<1>1. [Next]_vars => [Quiet]_vars
  <2> SUFFICES ASSUME [Next]_vars PROVE Quiet
    OBVIOUS
  <2>1. ASSUME writing' = writing PROVE Quiet
    BY <2>1
  <2>2. CASE RunOpen \/ RunClose \/ RunAutoOpen \/ RunAutoClose
    BY <2>1, <2>2 DEF RunOpen, RunClose, RunAutoOpen, RunAutoClose, writes, buffers
  <2>3. CASE RunWrite
    <3>1. UNCHANGED <<isConnected, manuallyClosed>>
      BY <2>3 DEF RunWrite, state
    <3>2. writing' = writing \/ Active
      BY <2>3 DEF RunWrite, MustBuffer, Active
    <3>3. QED
      BY <3>1, <3>2 DEF Active
  <2>4. CASE User \/ Network
    BY <2>1, <2>4 DEF User, Call, CallWrite, Network, Settle, PeerEnds, writes, buffers
  <2>5. ASSUME NEW s \in Socks, ConnectCompletionHandler(s) PROVE Quiet
    <3>1. CASE UNCHANGED buffers
      BY <2>1, <3>1 DEF buffers
    <3>2. CASE Connected(s) /\ ~manuallyClosed
      <4>1. isConnected' /\ manuallyClosed' = manuallyClosed
        BY <2>5, <3>2 DEF ConnectCompletionHandler, Connected
      <4>2. QED
        BY <3>2, <4>1 DEF Active
    <3>3. QED
      BY <2>5, <3>1, <3>2 DEF ConnectCompletionHandler, Connected
  <2>6. ASSUME NEW s \in Socks, ReadHandler(s) \/ BackupClose(s) PROVE Quiet
    BY <2>1, <2>6 DEF ReadHandler, BackupClose, writes, buffers
  <2>7. ASSUME NEW s \in Socks, ThrottleHandler(s) PROVE Quiet
    <3>1. UNCHANGED <<isConnected, manuallyClosed>>
      BY <2>7 DEF ThrottleHandler, state
    <3>2. \A o \in writing' : o \in writing \/ Active
      BY <2>7, LastWriteNeedsConnection DEF ThrottleHandler
    <3>3. QED
      BY <3>1, <3>2 DEF Active
  <2>8. CASE (\E ok \in BOOLEAN : ResolveDone(ok)) \/ RetryExpires \/ RetryHandler
    BY <2>1, <2>8 DEF ResolveDone, RetryExpires, RetryHandler, writes, buffers
  <2>9. CASE WriteHandler
    <3>1. UNCHANGED <<isConnected, manuallyClosed>>
      BY <2>9 DEF WriteHandler, state
    <3>2. \E s, q, d : \E o \in writing : ThrottleCheckLastWrite(s, q, d, writing \ {o})
      BY <2>9, Zenon DEF WriteHandler, DirectWriteDone, BufferWriteDone
    <3>3. \A o \in writing' : o \in writing \/ Active
      BY <3>2, LastWriteNeedsConnection
    <3>4. QED
      BY <3>1, <3>3 DEF Active
  <2>10. CASE UNCHANGED vars
    BY <2>1, <2>10 DEF vars, writes, buffers
  <2>11. QED
    BY <2>2, <2>3, <2>4, <2>5, <2>6, <2>7, <2>8, <2>9, <2>10 DEF Next, Strand, Completion
<1>2. Quiet <=> \A o \in writing' : o \in writing \/ (isConnected' /\ ~manuallyClosed')
  BY DEF Active
<1>3. QED
  BY <1>1, <1>2, PTL DEF Spec, NoWriteOnceClosed

-----------------------------------------------------------------------------
(* Where the bytes go.  Concat is defined by recursion over the queue, so   *)
(* what it returns is proved by induction first.                            *)

\* Induction over the natural numbers, for a set.
LEMMA NatSetInduction ==
    ASSUME NEW S, 0 \in S, \A n \in Nat : n \in S => n + 1 \in S
    PROVE  \A n \in Nat : n \in S
<1> DEFINE Less == {p \in Nat \X Nat : p[1] < p[2]}
           Bad == Nat \ S
<1>1. IsWellFoundedOn(Less, Nat)
  BY NatLessThanWellFounded DEF OpToRel
<1>2. SUFFICES ASSUME Bad # {} PROVE FALSE
  OBVIOUS
<1>3. PICK x \in Bad : \A y \in Bad : <<y, x>> \notin Less
  <2>1. Bad \subseteq Nat
    OBVIOUS
  <2> HIDE DEF Less, Bad
  <2>2. QED
    BY <1>1, <1>2, <2>1, WFMin
<1>4. x \in Nat /\ x # 0 /\ x - 1 \in Nat
  OBVIOUS
<1>5. x - 1 \in Bad /\ <<x - 1, x>> \in Less
  BY <1>4
<1>6. QED
  BY <1>3, <1>5

\* Concat adds the sequences one by one.
Sums(T, q, n, f) == /\ f \in [0..n -> Seq(T)]
                    /\ f[0] = <<>>
                    /\ \A i \in 1..n : f[i] = f[i - 1] \o q[i]

\* The partial sums of Concat exist, ...
LEMMA SumsExist ==
    ASSUME NEW T, NEW q \in Seq(Seq(T)), NEW n \in Nat, n <= Len(q)
    PROVE  \E f : Sums(T, q, n, f)
<1> DEFINE Good == {m \in Nat : m <= Len(q) => \E f : Sums(T, q, m, f)}
<1>0. Len(q) \in Nat /\ \A i \in 1..Len(q) : q[i] \in Seq(T)
  OBVIOUS
<1>1. 0 \in Good
  <2> DEFINE f == [i \in 0..0 |-> <<>>]
  <2>1. f \in [0..0 -> Seq(T)] /\ f[0] = <<>>
    OBVIOUS
  <2> HIDE DEF f
  <2>2. Sums(T, q, 0, f)
    BY <2>1 DEF Sums
  <2>3. QED
    BY <2>2
<1>2. ASSUME NEW m \in Nat, m \in Good, m + 1 <= Len(q)
      PROVE  \E f : Sums(T, q, m + 1, f)
  <2>1. PICK f : Sums(T, q, m, f)
    BY <1>0, <1>2
  <2> DEFINE v == f[m] \o q[m + 1]
             g == [i \in 0..m + 1 |-> IF i = m + 1 THEN v ELSE f[i]]
  <2>2. v \in Seq(T)
    BY <1>0, <1>2, <2>1 DEF Sums
  <2>3. /\ g \in [0..m + 1 -> Seq(T)] /\ g[m + 1] = v
        /\ \A i \in 0..m : g[i] = f[i]
    <3> HIDE DEF v
    <3> QED
      BY <2>1, <2>2 DEF Sums
  <2> HIDE DEF g
  <2>4. ASSUME NEW i \in 1..m + 1 PROVE g[i] = g[i - 1] \o q[i]
    <3>1. CASE i = m + 1
      <4>1. i - 1 = m /\ m \in 0..m
        BY <3>1
      <4>2. g[i - 1] = f[m]
        BY <2>3, <4>1, Zenon
      <4>3. QED
        BY <2>3, <3>1, <4>2, Zenon
    <3>2. CASE i # m + 1
      <4>1. i \in 1..m /\ g[i] = f[i] /\ g[i - 1] = f[i - 1]
        BY <2>3, <3>2
      <4>2. QED
        BY <2>1, <4>1 DEF Sums
    <3>3. QED
      BY <3>1, <3>2
  <2>41. Sums(T, q, m + 1, g)
    <3>1. g[0] = <<>>
      BY <2>1, <2>3 DEF Sums
    <3>2. QED
      BY <2>3, <2>4, <3>1, Zenon DEF Sums
  <2>5. QED
    BY <2>41
<1>3. ASSUME NEW m \in Nat, m \in Good PROVE m + 1 \in Good
  <2>1. m + 1 <= Len(q) => \E f : Sums(T, q, m + 1, f)
    BY <1>2, <1>3
  <2>2. QED
    BY <2>1
<1> HIDE DEF Good
<1>4. n \in Good
  BY <1>1, <1>3, NatSetInduction
<1>5. QED
  BY <1>4 DEF Good

\* ... so its recursive function is defined, and Concat is the last of them.
LEMMA ConcatIsSum ==
    ASSUME NEW T, NEW q \in Seq(Seq(T))
    PROVE  \E f : Sums(T, q, Len(q), f) /\ Concat(q) = f[Len(q)]
<1> DEFINE Eq(f) == f = [i \in 0..Len(q) |-> IF i = 0 THEN <<>> ELSE f[i - 1] \o q[i]]
           f == CHOOSE h : Eq(h)
<1>0. Len(q) \in Nat /\ \A i \in 1..Len(q) : q[i] \in Seq(T)
  OBVIOUS
<1>01. /\ \A i \in 0..Len(q) : i = 0 \/ i \in 1..Len(q)
       /\ \A i \in 1..Len(q) : i \in 0..Len(q) /\ i # 0
       /\ 0 \in 0..Len(q)
  BY <1>0
<1>1. Concat(q) = f[Len(q)]
  BY DEF Concat
<1>2. \E h : Eq(h)
  <2>1. PICK h : Sums(T, q, Len(q), h)
    BY <1>0, SumsExist
  <2> DEFINE r == [i \in 0..Len(q) |-> IF i = 0 THEN <<>> ELSE h[i - 1] \o q[i]]
  <2>2. \A i \in 0..Len(q) : r[i] = h[i]
    BY <1>01, <2>1, Zenon DEF Sums
  <2>3. r = [i \in 0..Len(q) |-> r[i]] /\ h = [i \in 0..Len(q) |-> h[i]]
    BY <2>1 DEF Sums
  <2>4. Eq(h)
    <3>1. h = r
      <4> HIDE DEF r
      <4> QED
        BY <2>2, <2>3
    <3>2. QED
      BY <3>1
  <2>5. QED
    BY <2>4
<1>3. Eq(f)
  BY <1>2, Zenon
<1> HIDE DEF f
<1>4. \A i \in 0..Len(q) : f[i] = IF i = 0 THEN <<>> ELSE f[i - 1] \o q[i]
  BY <1>3, Zenon
<1>5. f[0] = <<>> /\ \A i \in 1..Len(q) : f[i] = f[i - 1] \o q[i]
  BY <1>01, <1>4, Zenon
<1>6. f = [i \in 0..Len(q) |-> f[i]]
  <2> DEFINE r == [i \in 0..Len(q) |-> IF i = 0 THEN <<>> ELSE f[i - 1] \o q[i]]
  <2>1. r = [i \in 0..Len(q) |-> r[i]]
    OBVIOUS
  <2>2. f = r
    BY <1>3
  <2> HIDE DEF r
  <2>3. QED
    BY <2>1, <2>2
<1> HIDE DEF Eq
<1>7. \A i \in 0..Len(q) : f[i] \in Seq(T)
  <2> DEFINE Typed == {n \in Nat : n <= Len(q) => f[n] \in Seq(T)}
  <2>1. 0 \in Typed
    <3>1. f[0] \in Seq(T)
      BY <1>5, EmptySeq, Zenon
    <3>2. QED
      BY <3>1
  <2>2. ASSUME NEW n \in Nat, n \in Typed, n + 1 <= Len(q) PROVE f[n + 1] \in Seq(T)
    <3>1. n + 1 \in 1..Len(q) /\ (n + 1) - 1 = n /\ f[n] \in Seq(T)
      BY <2>2, <1>0
    <3>2. f[n + 1] = f[n] \o q[n + 1] /\ q[n + 1] \in Seq(T)
      BY <3>1, <1>0, <1>5
    <3>3. QED
      BY <3>1, <3>2
  <2>3. \A n \in Nat : n \in Typed => n + 1 \in Typed
    BY <2>2
  <2> HIDE DEF Typed
  <2>4. \A n \in Nat : n \in Typed
    BY <2>1, <2>3, NatSetInduction
  <2>5. QED
    BY <2>4, <1>0 DEF Typed
<1>8. f \in [0..Len(q) -> Seq(T)]
  BY <1>6, <1>7
<1>9. QED
  BY <1>1, <1>5, <1>8 DEF Sums

\* A buffer added at the back comes last, ...
LEMMA ConcatAppend ==
    ASSUME NEW T, NEW q \in Seq(Seq(T)), NEW b \in Seq(T)
    PROVE  Concat(q) \in Seq(T) /\ Concat(Append(q, b)) = Concat(q) \o b
<1> DEFINE p == Append(q, b)
<1>1. /\ p \in Seq(Seq(T)) /\ Len(q) \in Nat /\ Len(p) = Len(q) + 1
      /\ \A i \in 1..Len(q) : p[i] = q[i]
      /\ p[Len(q) + 1] = b
  OBVIOUS
<1> HIDE DEF p
<1>2. PICK f : Sums(T, q, Len(q), f) /\ Concat(q) = f[Len(q)]
  BY ConcatIsSum
<1>3. PICK g : Sums(T, p, Len(p), g) /\ Concat(p) = g[Len(p)]
  BY <1>1, ConcatIsSum
<1> DEFINE Same == {n \in Nat : n <= Len(q) => f[n] = g[n]}
<1>4. 0 \in Same
  BY <1>2, <1>3 DEF Sums
<1>5. ASSUME NEW n \in Nat, n \in Same PROVE n + 1 \in Same
  <2>1. SUFFICES ASSUME n + 1 <= Len(q) PROVE f[n + 1] = g[n + 1]
    OBVIOUS
  <2>2. /\ n + 1 \in 1..Len(q) /\ n + 1 \in 1..Len(p) /\ (n + 1) - 1 = n /\ f[n] = g[n]
    BY <1>1, <1>5, <2>1
  <2>3. QED
    BY <1>1, <1>2, <1>3, <2>2, Zenon DEF Sums
<1> HIDE DEF Same
<1>6. \A n \in Nat : n \in Same
  BY <1>4, <1>5, NatSetInduction
<1>7. f[Len(q)] = g[Len(q)] /\ f[Len(q)] \in Seq(T)
  <2>1. Len(q) \in Same /\ Len(q) <= Len(q) /\ Len(q) \in 0..Len(q)
    BY <1>1, <1>6
  <2>2. QED
    BY <2>1, <1>2, Zenon DEF Same, Sums
<1>8. Len(p) \in 1..Len(p) /\ Len(p) - 1 = Len(q)
  BY <1>1
<1>9. g[Len(p)] = g[Len(q)] \o b
  BY <1>1, <1>3, <1>8, Zenon DEF Sums
<1>10. QED
  <2>1. Concat(p) = Concat(q) \o b /\ Concat(q) \in Seq(T)
    BY <1>2, <1>3, <1>7, <1>9, Zenon
  <2>2. QED
    BY <2>1, Zenon DEF p

\* ... one taken from the front came first, ...
LEMMA ConcatTail ==
    ASSUME NEW T, NEW q \in Seq(Seq(T)), q # <<>>
    PROVE  Concat(q) = Head(q) \o Concat(Tail(q))
<1> DEFINE p == Tail(q)
           h == Head(q)
<1>1. /\ p \in Seq(Seq(T)) /\ Len(q) \in Nat /\ Len(q) = Len(p) + 1 /\ Len(p) \in Nat
      /\ \A i \in 1..Len(p) : p[i] = q[i + 1]
      /\ h = q[1] /\ h \in Seq(T)
      /\ \A i \in 1..Len(p) : p[i] \in Seq(T)
  OBVIOUS
<1> HIDE DEF p, h
<1>2. PICK f : Sums(T, q, Len(q), f) /\ Concat(q) = f[Len(q)]
  BY ConcatIsSum
<1>3. PICK g : Sums(T, p, Len(p), g) /\ Concat(p) = g[Len(p)]
  BY <1>1, ConcatIsSum
<1> DEFINE Same == {n \in Nat : n <= Len(p) => f[n + 1] = h \o g[n]}
<1>4. 0 \in Same
  <2>1. 1 \in 1..Len(q) /\ 1 - 1 = 0 /\ 0 + 1 = 1
    BY <1>1
  <2>2. f[1] = <<>> \o h /\ g[0] = <<>>
    BY <1>1, <1>2, <1>3, <2>1, Zenon DEF Sums
  <2>3. f[1] = h \o g[0]
    BY <1>1, <2>2, ConcatEmptySeq, Zenon
  <2>4. QED
    BY <2>1, <2>3
<1>5. ASSUME NEW n \in Nat, n \in Same PROVE n + 1 \in Same
  <2>1. SUFFICES ASSUME n + 1 <= Len(p) PROVE f[(n + 1) + 1] = h \o g[n + 1]
    OBVIOUS
  <2>2. /\ n + 1 \in 1..Len(p) /\ (n + 1) + 1 \in 1..Len(q)
        /\ ((n + 1) + 1) - 1 = n + 1 /\ (n + 1) - 1 = n
        /\ n \in 0..Len(p) /\ n <= Len(p)
    BY <1>1, <2>1
  <2>21. f[n + 1] = h \o g[n]
    BY <1>5, <2>2, Zenon
  <2>3. /\ f[(n + 1) + 1] = (h \o g[n]) \o p[n + 1]
        /\ g[n + 1] = g[n] \o p[n + 1]
    BY <1>1, <1>2, <1>3, <2>2, <2>21, Zenon DEF Sums
  <2>4. (h \o g[n]) \o p[n + 1] = h \o (g[n] \o p[n + 1])
    <3>1. h \in Seq(T) /\ g[n] \in Seq(T) /\ p[n + 1] \in Seq(T)
      BY <1>1, <1>3, <2>2 DEF Sums
    <3>2. \A u, v, w \in Seq(T) : (u \o v) \o w = u \o (v \o w)
      BY ConcatAssociative
    <3>3. QED
      BY <3>1, <3>2, Zenon
  <2>5. QED
    BY <2>3, <2>4, Zenon
<1> HIDE DEF Same
<1>6. \A n \in Nat : n \in Same
  BY <1>4, <1>5, NatSetInduction
<1>7. f[Len(q)] = h \o g[Len(p)]
  <2>1. Len(p) \in Same /\ Len(p) <= Len(p)
    BY <1>1, <1>6
  <2>2. QED
    BY <2>1, <1>1, Zenon DEF Same
<1>8. Concat(q) = h \o Concat(p)
  BY <1>2, <1>3, <1>7, Zenon
<1>9. QED
  BY <1>8, Zenon DEF p, h

\* ... and no buffers hold no bytes.
LEMMA ConcatEmpty == Concat(<<>>) = <<>>
<1>1. <<>> \in Seq(Seq({})) /\ Len(<<>>) = 0
  OBVIOUS
<1>2. PICK f : Sums({}, <<>>, Len(<<>>), f) /\ Concat(<<>>) = f[Len(<<>>)]
  BY <1>1, ConcatIsSum
<1>3. QED
  BY <1>1, <1>2 DEF Sums

-----------------------------------------------------------------------------
\* No element occurs twice in s.
NoRepeats(s) == \A i, j \in 1..Len(s) : s[i] = s[j] => i = j

\* Two sequences in a row: what is in them, and whether anything is twice.
LEMMA JoinElements ==
    ASSUME NEW T, NEW a \in Seq(T), NEW b \in Seq(T)
    PROVE  /\ a \o b \in Seq(T)
           /\ Elements(a \o b) = Elements(a) \cup Elements(b)
           /\ NoRepeats(a \o b) <=> /\ NoRepeats(a) /\ NoRepeats(b)
                                    /\ Elements(a) \cap Elements(b) = {}
<1> DEFINE c == a \o b
<1>1. /\ c \in Seq(T) /\ Len(c) = Len(a) + Len(b) /\ Len(a) \in Nat /\ Len(b) \in Nat
      /\ \A i \in 1..Len(a) : c[i] = a[i]
      /\ \A i \in 1..Len(b) : c[Len(a) + i] = b[i]
  OBVIOUS
<1>2. \A k \in 1..Len(c) : k \in 1..Len(a) \/ \E i \in 1..Len(b) : k = Len(a) + i
  <2> SUFFICES ASSUME NEW k \in 1..Len(c), k \notin 1..Len(a)
               PROVE  \E i \in 1..Len(b) : k = Len(a) + i
    OBVIOUS
  <2>1. k - Len(a) \in 1..Len(b) /\ k = Len(a) + (k - Len(a))
    BY <1>1
  <2>2. QED
    BY <2>1
<1>3. \A i \in 1..Len(a) : i \in 1..Len(c) /\ \A j \in 1..Len(b) : i # Len(a) + j
  BY <1>1
<1>4. \A i \in 1..Len(b) : Len(a) + i \in 1..Len(c)
  BY <1>1
<1>5. \A i, j \in 1..Len(b) : Len(a) + i = Len(a) + j => i = j
  BY <1>1
<1> HIDE DEF c
<1>6. Elements(c) = Elements(a) \cup Elements(b)
  <2>1. ASSUME NEW x \in Elements(c) PROVE x \in Elements(a) \cup Elements(b)
    <3>1. PICK k \in 1..Len(c) : x = c[k]
      BY <2>1 DEF Elements
    <3>2. QED
      BY <1>1, <1>2, <3>1, Zenon DEF Elements
  <2>2. Elements(a) \subseteq Elements(c)
    BY <1>1, <1>3, Zenon DEF Elements
  <2>3. Elements(b) \subseteq Elements(c)
    BY <1>1, <1>4, Zenon DEF Elements
  <2>4. QED
    BY <2>1, <2>2, <2>3, Zenon
<1>7. ASSUME NoRepeats(c)
      PROVE  NoRepeats(a) /\ NoRepeats(b) /\ Elements(a) \cap Elements(b) = {}
  <2>1. NoRepeats(a)
    BY <1>1, <1>3, <1>7, Zenon DEF NoRepeats
  <2>2. ASSUME NEW i \in 1..Len(b), NEW j \in 1..Len(b), b[i] = b[j] PROVE i = j
    BY <1>1, <1>4, <1>5, <1>7, <2>2, Zenon DEF NoRepeats
  <2>3. ASSUME NEW i \in 1..Len(a), NEW j \in 1..Len(b), a[i] = b[j] PROVE FALSE
    BY <1>1, <1>3, <1>4, <1>7, <2>3, Zenon DEF NoRepeats
  <2>4. QED
    BY <2>1, <2>2, <2>3, Zenon DEF NoRepeats, Elements
<1>8. ASSUME NoRepeats(a), NoRepeats(b), Elements(a) \cap Elements(b) = {}
      PROVE  NoRepeats(c)
  <2> SUFFICES ASSUME NEW i \in 1..Len(c), NEW j \in 1..Len(c), c[i] = c[j] PROVE i = j
    BY Zenon DEF NoRepeats
  <2>1. \A k \in 1..Len(a), l \in 1..Len(b) : a[k] # b[l]
    BY <1>8, Zenon DEF Elements
  <2>2. CASE i \in 1..Len(a) /\ j \in 1..Len(a)
    BY <1>1, <1>8, <2>2, Zenon DEF NoRepeats
  <2>3. ASSUME NEW k \in 1..Len(b), NEW l \in 1..Len(b), i = Len(a) + k, j = Len(a) + l
        PROVE  i = j
    <3>1. b[k] = b[l]
      BY <1>1, <2>3
    <3>2. QED
      BY <1>8, <2>3, <3>1, Zenon DEF NoRepeats
  <2>4. CASE i \in 1..Len(a) /\ j \notin 1..Len(a)
    <3>1. PICK k \in 1..Len(b) : j = Len(a) + k
      BY <1>2, <2>4
    <3>2. QED
      BY <1>1, <2>1, <2>4, <3>1
  <2>5. CASE i \notin 1..Len(a) /\ j \in 1..Len(a)
    <3>1. PICK k \in 1..Len(b) : i = Len(a) + k
      BY <1>2, <2>5
    <3>2. QED
      BY <1>1, <2>1, <2>5, <3>1
  <2>6. QED
    BY <1>2, <2>2, <2>3, <2>4, <2>5, Zenon
<1>9. QED
  BY <1>1, <1>6, <1>7, <1>8, Zenon DEF c

\* The first n elements of a sequence and the rest make up the sequence.
LEMMA SplitElements ==
    ASSUME NEW T, NEW s \in Seq(T), NEW n \in 0..Len(s)
    PROVE  /\ SubSeq(s, 1, n) \in Seq(T) /\ Rest(s, n) \in Seq(T)
           /\ s = SubSeq(s, 1, n) \o Rest(s, n)
<1>1. Len(s) \in Nat /\ n \in Nat /\ n <= Len(s)
  OBVIOUS
<1>2. /\ SubSeq(s, 1, n) \in Seq(T) /\ Rest(s, n) \in Seq(T)
      /\ Len(SubSeq(s, 1, n)) = n /\ Len(Rest(s, n)) = Len(s) - n
      /\ \A i \in 1..n : SubSeq(s, 1, n)[i] = s[i]
      /\ \A i \in 1..Len(s) - n : Rest(s, n)[i] = s[n + i]
  BY <1>1 DEF Rest
<1> DEFINE a == SubSeq(s, 1, n)
           b == Rest(s, n)
<1> HIDE DEF a, b
<1>3. QED
  <2>1. /\ a \in Seq(T) /\ b \in Seq(T) /\ Len(a) = n /\ Len(b) = Len(s) - n
        /\ \A i \in 1..n : a[i] = s[i]
        /\ \A i \in 1..Len(s) - n : b[i] = s[n + i]
    BY <1>2 DEF a, b
  <2>2. a \o b \in Seq(T) /\ Len(a \o b) = Len(s)
    BY <1>1, <2>1
  <2>3. ASSUME NEW i \in 1..Len(s) PROVE (a \o b)[i] = s[i]
    <3>1. (a \o b)[i] = IF i <= Len(a) THEN a[i] ELSE b[i - Len(a)]
      BY <1>1, <2>1
    <3>2. CASE i <= n
      BY <2>1, <3>1, <3>2
    <3>3. CASE i > n
      <4>1. i - n \in 1..Len(s) - n /\ n + (i - n) = i
        BY <1>1, <3>3
      <4>2. QED
        BY <2>1, <3>1, <3>3, <4>1
    <3>4. i <= n \/ i > n
      BY <1>1
    <3>5. QED
      BY <3>2, <3>3, <3>4, Zenon
  <2>4. a \o b = s
    BY <2>2, <2>3, SeqEqual
  <2>5. QED
    BY <1>2, <2>4 DEF a, b

\* A sequence without repetitions has as many elements as it is long.
LEMMA CountElements ==
    ASSUME NEW T, NEW s \in Seq(T), NoRepeats(s)
    PROVE  IsFiniteSet(Elements(s)) /\ Cardinality(Elements(s)) = Len(s)
<1>1. Len(s) \in Nat /\ s \in [1..Len(s) -> Elements(s)]
  BY DEF Elements
<1>2. s \in Bijection(1..Len(s), Elements(s))
  BY <1>1 DEF Bijection, Injection, Surjection, NoRepeats, Elements, IsInjective
<1>3. ExistsBijection(1..Len(s), Elements(s))
  BY <1>2 DEF ExistsBijection
<1>4. QED
  BY <1>1, <1>3, FS_CountingElements, FS_NatBijection

-----------------------------------------------------------------------------
(* Where the bytes are: on the wire (w), dropped (dr), in the queue (q), in  *)
(* the dispatch buffer (d), in a Write() under way (b), or still on the      *)
(* strand (s).  Each of the bytes in all is in one place, once.              *)
Byte == Nat \X Nat

Apart(w, dr, q, d, b, s) ==
    /\ w \cap dr = {} /\ w \cap q = {} /\ w \cap d = {} /\ w \cap b = {} /\ w \cap s = {}
    /\ dr \cap q = {} /\ dr \cap d = {} /\ dr \cap b = {} /\ dr \cap s = {}
    /\ q \cap d = {} /\ q \cap b = {} /\ q \cap s = {}
    /\ d \cap b = {} /\ d \cap s = {} /\ b \cap s = {}

Placed(w, dr, q, d, b, s, all) ==
    /\ w \in Seq(Byte) /\ q \in Seq(Seq(Byte)) /\ d \in Seq(Byte) /\ b \in Seq(Byte)
    /\ NoRepeats(w) /\ NoRepeats(Concat(q)) /\ NoRepeats(d) /\ NoRepeats(b)
    /\ Apart(Elements(w), dr, Elements(Concat(q)), Elements(d), Elements(b), s)
    /\ all = Elements(w) \cup dr \cup Elements(Concat(q)) \cup Elements(d)
               \cup Elements(b) \cup s

\* Nothing is in an empty buffer.
LEMMA EmptyElements == <<>> \in Seq(Byte) /\ Elements(<<>>) = {} /\ NoRepeats(<<>>)
  BY DEF Elements, NoRepeats

\* Write() is called: new bytes are on the strand.
LEMMA PlaceNew ==
    ASSUME NEW w, NEW dr, NEW q, NEW d, NEW b, NEW s, NEW all, Placed(w, dr, q, d, b, s, all),
           NEW new, new \cap all = {}
    PROVE  Placed(w, dr, q, d, b, s \cup new, all \cup new)
<1> DEFINE W == Elements(w)
           Q == Elements(Concat(q))
           D == Elements(d)
           B == Elements(b)
<1>1. Apart(W, dr, Q, D, B, s) /\ all = W \cup dr \cup Q \cup D \cup B \cup s
  BY DEF Placed
<1> HIDE DEF W, Q, D, B
<1>2. /\ Apart(W, dr, Q, D, B, s \cup new)
      /\ all \cup new = W \cup dr \cup Q \cup D \cup B \cup (s \cup new)
  BY <1>1 DEF Apart
<1>3. QED
  BY <1>2 DEF Placed, W, Q, D, B

\* A buffer goes from the strand to the back of the queue.
LEMMA PlaceBack ==
    ASSUME NEW w, NEW dr, NEW q, NEW d, NEW b, NEW s, NEW all, Placed(w, dr, q, d, b, s, all),
           NEW buf \in Seq(Byte), NoRepeats(buf), Elements(buf) \subseteq s
    PROVE  Placed(w, dr, Append(q, buf), d, b, s \ Elements(buf), all)
<1> DEFINE W == Elements(w)
           Q == Elements(Concat(q))
           D == Elements(d)
           B == Elements(b)
           X == Elements(buf)
<1>1. /\ Apart(W, dr, Q, D, B, s) /\ all = W \cup dr \cup Q \cup D \cup B \cup s
      /\ X \subseteq s /\ q \in Seq(Seq(Byte)) /\ NoRepeats(Concat(q))
  BY DEF Placed
<1>2. Append(q, buf) \in Seq(Seq(Byte)) /\ Concat(q) \in Seq(Byte)
  BY <1>1, ConcatAppend
<1>3. Concat(Append(q, buf)) = Concat(q) \o buf
  BY <1>1, ConcatAppend
<1> HIDE DEF W, Q, D, B, X
<1>4. /\ Apart(W, dr, Q \cup X, D, B, s \ X) /\ Q \cap X = {}
      /\ all = W \cup dr \cup (Q \cup X) \cup D \cup B \cup (s \ X)
  BY <1>1 DEF Apart
<1>5. Elements(Concat(q) \o buf) = Q \cup X /\ NoRepeats(Concat(q) \o buf)
  BY <1>1, <1>2, <1>4, JoinElements DEF Q, X
<1>6. QED
  BY <1>2, <1>3, <1>4, <1>5 DEF Placed, W, Q, D, B, X

\* The oldest buffer of the queue is dropped.
LEMMA PlaceDropped ==
    ASSUME NEW w, NEW dr, NEW q, NEW d, NEW b, NEW s, NEW all, Placed(w, dr, q, d, b, s, all),
           q # <<>>
    PROVE  /\ Placed(w, dr \cup Elements(Head(q)), Tail(q), d, b, s, all)
           /\ Elements(Concat(q)) \ Elements(Concat(Tail(q))) = Elements(Head(q))
<1> DEFINE W == Elements(w)
           Q == Elements(Concat(q))
           R == Elements(Concat(Tail(q)))
           D == Elements(d)
           B == Elements(b)
           X == Elements(Head(q))
<1>1. /\ Apart(W, dr, Q, D, B, s) /\ all = W \cup dr \cup Q \cup D \cup B \cup s
      /\ q \in Seq(Seq(Byte)) /\ NoRepeats(Concat(q))
  BY DEF Placed
<1>2. Tail(q) \in Seq(Seq(Byte)) /\ Head(q) \in Seq(Byte)
  BY <1>1
<1>3. Concat(Tail(q)) \in Seq(Byte)
  BY <1>2, ConcatAppend
<1>4. Concat(q) = Head(q) \o Concat(Tail(q))
  BY <1>1, ConcatTail
<1>5. Q = X \cup R /\ X \cap R = {} /\ NoRepeats(Concat(Tail(q)))
  BY <1>1, <1>2, <1>3, <1>4, JoinElements
<1> HIDE DEF W, Q, D, B, X, R
<1>6. /\ Apart(W, dr \cup X, R, D, B, s) /\ Q \ R = X
      /\ all = W \cup (dr \cup X) \cup R \cup D \cup B \cup s
  BY <1>1, <1>5 DEF Apart
<1>7. QED
  BY <1>2, <1>5, <1>6 DEF Placed, W, Q, D, B, X, R

\* A Write() of its own is started with a buffer of the strand.
LEMMA PlaceDirect ==
    ASSUME NEW w, NEW dr, NEW q, NEW d, NEW b, NEW s, NEW all, Placed(w, dr, q, d, b, s, all),
           b = <<>>, NEW buf \in Seq(Byte), NoRepeats(buf), Elements(buf) \subseteq s
    PROVE  Placed(w, dr, q, d, buf, s \ Elements(buf), all)
<1> DEFINE W == Elements(w)
           Q == Elements(Concat(q))
           D == Elements(d)
           X == Elements(buf)
<1>1. /\ Apart(W, dr, Q, D, {}, s) /\ all = W \cup dr \cup Q \cup D \cup {} \cup s
      /\ X \subseteq s
  BY EmptyElements DEF Placed
<1> HIDE DEF W, Q, D, X
<1>2. /\ Apart(W, dr, Q, D, X, s \ X)
      /\ all = W \cup dr \cup Q \cup D \cup X \cup (s \ X)
  BY <1>1 DEF Apart
<1>3. QED
  BY <1>2 DEF Placed, W, Q, D, X

\* WriteBuffer() makes the queue the dispatch buffer.
LEMMA PlaceDispatch ==
    ASSUME NEW w, NEW dr, NEW q, NEW d, NEW b, NEW s, NEW all, Placed(w, dr, q, d, b, s, all),
           d = <<>>
    PROVE  Placed(w, dr, <<>>, Concat(q), b, s, all)
<1> DEFINE W == Elements(w)
           Q == Elements(Concat(q))
           B == Elements(b)
<1>1. /\ Apart(W, dr, Q, {}, B, s) /\ all = W \cup dr \cup Q \cup {} \cup B \cup s
      /\ q \in Seq(Seq(Byte)) /\ NoRepeats(Concat(q))
  BY EmptyElements DEF Placed
<1>2. /\ Concat(q) \in Seq(Byte) /\ <<>> \in Seq(Seq(Byte))
      /\ Elements(Concat(<<>>)) = {} /\ NoRepeats(Concat(<<>>))
  BY <1>1, ConcatAppend, ConcatEmpty, EmptyElements
<1> HIDE DEF W, Q, B
<1>3. /\ Apart(W, dr, {}, Q, B, s)
      /\ all = W \cup dr \cup {} \cup Q \cup B \cup s
  BY <1>1 DEF Apart
<1>4. QED
  BY <1>1, <1>2, <1>3 DEF Placed, W, Q, B

\* The first n bytes of the dispatch buffer are written ...
LEMMA PlaceWritten ==
    ASSUME NEW w, NEW dr, NEW q, NEW d, NEW b, NEW s, NEW all, Placed(w, dr, q, d, b, s, all),
           NEW n \in 0..Len(d)
    PROVE  Placed(w \o SubSeq(d, 1, n), dr, q, Rest(d, n), b, s, all)
<1> DEFINE x == SubSeq(d, 1, n)
           r == Rest(d, n)
           W == Elements(w)
           Q == Elements(Concat(q))
           D == Elements(d)
           X == Elements(x)
           R == Elements(r)
           B == Elements(b)
<1>1. /\ Apart(W, dr, Q, D, B, s) /\ all = W \cup dr \cup Q \cup D \cup B \cup s
      /\ d \in Seq(Byte) /\ NoRepeats(d) /\ w \in Seq(Byte) /\ NoRepeats(w)
  BY DEF Placed
<1>2. x \in Seq(Byte) /\ r \in Seq(Byte) /\ d = x \o r
  BY <1>1, SplitElements
<1> HIDE DEF x, r
<1>3. /\ D = X \cup R /\ X \cap R = {} /\ NoRepeats(x) /\ NoRepeats(r)
  BY <1>1, <1>2, JoinElements
<1> HIDE DEF W, Q, D, X, R, B
<1>4. /\ Apart(W \cup X, dr, Q, R, B, s) /\ W \cap X = {}
      /\ all = (W \cup X) \cup dr \cup Q \cup R \cup B \cup s
  BY <1>1, <1>3 DEF Apart
<1>5. w \o x \in Seq(Byte) /\ Elements(w \o x) = W \cup X /\ NoRepeats(w \o x)
  BY <1>1, <1>2, <1>3, <1>4, JoinElements DEF W, X
<1>6. Placed(w \o x, dr, q, r, b, s, all)
  BY <1>2, <1>3, <1>4, <1>5 DEF Placed, W, Q, D, X, R, B
<1>7. QED
  BY <1>6 DEF x, r

\* ... or those of a Write() of its own.
LEMMA PlaceWrittenDirect ==
    ASSUME NEW w, NEW dr, NEW q, NEW d, NEW b, NEW s, NEW all, Placed(w, dr, q, d, b, s, all),
           NEW n \in 0..Len(b)
    PROVE  Placed(w \o SubSeq(b, 1, n), dr, q, d, Rest(b, n), s, all)
<1>1. Placed(w, dr, q, b, d, s, all)
  BY DEF Placed, Apart
<1>2. Placed(w \o SubSeq(b, 1, n), dr, q, Rest(b, n), d, s, all)
  BY <1>1, PlaceWritten
<1>3. QED
  BY <1>2 DEF Placed, Apart

\* What is left of a Write() of its own joins the queue.
LEMMA PlaceLeft ==
    ASSUME NEW w, NEW dr, NEW q, NEW d, NEW b, NEW s, NEW all, Placed(w, dr, q, d, b, s, all)
    PROVE  Placed(w, dr, Append(q, b), d, <<>>, s, all)
<1> DEFINE B == Elements(b)
           Q == Elements(Concat(q))
           D == Elements(d)
           W == Elements(w)
<1>1. /\ Apart(W, dr, Q, D, B, s) /\ all = W \cup dr \cup Q \cup D \cup B \cup s
      /\ b \in Seq(Byte) /\ NoRepeats(b)
  BY DEF Placed
<1> HIDE DEF B, Q, D, W
<1>2. /\ Apart(W, dr, Q, D, {}, s \cup B) /\ B \subseteq s \cup B /\ (s \cup B) \ B = s
      /\ all = W \cup dr \cup Q \cup D \cup {} \cup (s \cup B)
  BY <1>1 DEF Apart
<1>3. Placed(w, dr, q, d, <<>>, s \cup B, all)
  BY <1>2, EmptyElements DEF Placed, B, Q, D, W
<1>4. QED
  BY <1>1, <1>2, <1>3, PlaceBack DEF B

-----------------------------------------------------------------------------
(* The Write() calls that wait on the strand.                               *)
AutoCalls == {"Open", "Close", "AutoOpen", "AutoClose"} \X {0}
Posts == AutoCalls \cup ({"Write"} \X Nat)

Numbers(s) == {s[i][2] : i \in {j \in 1..Len(s) : s[j][1] = "Write"}}

WritesInOrder(s, n) ==
    /\ s \in Seq(Posts)
    /\ Numbers(s) \subseteq 1..n
    /\ \A i, j \in 1..Len(s) :
         s[i][1] = "Write" /\ s[j][1] = "Write" /\ s[i][2] = s[j][2] => i = j

\* Whatever the manager posts to itself leaves them alone, ...
LEMMA PostKeepsWrites ==
    ASSUME NEW s, NEW n \in Nat, WritesInOrder(s, n), NEW h \in Seq(AutoCalls)
    PROVE  WritesInOrder(s \o h, n) /\ Numbers(s \o h) = Numbers(s)
<1> DEFINE t == s \o h
<1>1. /\ s \in Seq(Posts) /\ h \in Seq(Posts) /\ Len(s) \in Nat /\ Len(h) \in Nat
      /\ \A i \in 1..Len(h) : h[i] \in AutoCalls
  BY DEF WritesInOrder, Posts
<1>2. /\ t \in Seq(Posts) /\ Len(t) = Len(s) + Len(h)
      /\ \A i \in 1..Len(s) : t[i] = s[i]
      /\ \A i \in 1..Len(h) : t[Len(s) + i] = h[i]
  BY <1>1
<1> HIDE DEF t
<1>3. ASSUME NEW k \in 1..Len(t), t[k][1] = "Write" PROVE k \in 1..Len(s) /\ t[k] = s[k]
  <2>1. CASE k \in 1..Len(s)
    BY <1>2, <2>1
  <2>2. CASE k \notin 1..Len(s)
    <3>1. k - Len(s) \in 1..Len(h) /\ k = Len(s) + (k - Len(s))
      BY <1>1, <1>2, <2>2
    <3>2. t[k] \in AutoCalls
      BY <1>1, <1>2, <3>1
    <3>3. QED
      BY <1>3, <3>2 DEF AutoCalls
  <2>3. QED
    BY <2>1, <2>2
<1>4. \A k \in 1..Len(s) : k \in 1..Len(t) /\ t[k] = s[k]
  BY <1>1, <1>2
<1>5. Numbers(t) = Numbers(s)
  BY <1>3, <1>4, Zenon DEF Numbers
<1>6. WritesInOrder(t, n)
  BY <1>2, <1>3, <1>5 DEF WritesInOrder
<1>7. QED
  BY <1>5, <1>6 DEF t

\* ... and so does running one of those handlers.
LEMMA RunKeepsWrites ==
    ASSUME NEW s, NEW n \in Nat, WritesInOrder(s, n), s # <<>>
    PROVE  /\ WritesInOrder(Tail(s), n)
           /\ Head(s)[1] # "Write" => Numbers(Tail(s)) = Numbers(s)
           /\ Head(s)[1] = "Write" => /\ Head(s)[2] \in Numbers(s)
                                      /\ Numbers(Tail(s)) = Numbers(s) \ {Head(s)[2]}
<1> DEFINE t == Tail(s)
<1>1. /\ s \in Seq(Posts) /\ Len(s) \in Nat /\ t \in Seq(Posts) /\ Len(s) = Len(t) + 1
      /\ Len(t) \in Nat /\ Head(s) = s[1] /\ 1 \in 1..Len(s)
      /\ \A i \in 1..Len(t) : t[i] = s[i + 1]
  BY DEF WritesInOrder
<1>2. /\ \A i \in 1..Len(t) : i + 1 \in 1..Len(s) /\ i + 1 # 1
      /\ \A i, j \in 1..Len(t) : i + 1 = j + 1 => i = j
  BY <1>1
<1>3. ASSUME NEW k \in 1..Len(s), k # 1 PROVE \E i \in 1..Len(t) : k = i + 1 /\ t[i] = s[k]
  <2>1. k - 1 \in 1..Len(t) /\ k = (k - 1) + 1
    BY <1>1, <1>3
  <2>2. QED
    BY <1>1, <2>1
<1> HIDE DEF t
<1>4. /\ \A x \in Numbers(t) : x \in Numbers(s)
      /\ \A x \in Numbers(s) : x \in Numbers(t) \/ (s[1][1] = "Write" /\ x = s[1][2])
  <2>1. ASSUME NEW x \in Numbers(t) PROVE x \in Numbers(s)
    <3>1. PICK i \in 1..Len(t) : t[i][1] = "Write" /\ x = t[i][2]
      BY <2>1 DEF Numbers
    <3>2. QED
      BY <1>1, <1>2, <3>1, Zenon DEF Numbers
  <2>2. ASSUME NEW x \in Numbers(s) PROVE x \in Numbers(t) \/ (s[1][1] = "Write" /\ x = s[1][2])
    <3>1. PICK k \in 1..Len(s) : s[k][1] = "Write" /\ x = s[k][2]
      BY <2>2 DEF Numbers
    <3>2. CASE k = 1
      BY <3>1, <3>2
    <3>3. CASE k # 1
      <4>1. PICK i \in 1..Len(t) : k = i + 1 /\ t[i] = s[k]
        BY <1>3, <3>3
      <4>2. QED
        BY <3>1, <4>1, Zenon DEF Numbers
    <3>4. QED
      BY <3>2, <3>3
  <2>3. QED
    BY <2>1, <2>2
<1>5. ASSUME s[1][1] = "Write" PROVE s[1][2] \in Numbers(s) /\ s[1][2] \notin Numbers(t)
  <2>1. s[1][2] \in Numbers(s)
    BY <1>1, <1>5, Zenon DEF Numbers
  <2>2. ASSUME NEW i \in 1..Len(t), t[i][1] = "Write", t[i][2] = s[1][2] PROVE FALSE
    BY <1>1, <1>2, <1>5, <2>2, Zenon DEF WritesInOrder
  <2>3. QED
    BY <2>1, <2>2, Zenon DEF Numbers
<1>6. WritesInOrder(t, n)
  <2>1. Numbers(t) \subseteq 1..n
    BY <1>4 DEF WritesInOrder
  <2>2. ASSUME NEW i \in 1..Len(t), NEW j \in 1..Len(t), t[i][1] = "Write", t[j][1] = "Write",
               t[i][2] = t[j][2]
        PROVE  i = j
    BY <1>1, <1>2, <2>2, Zenon DEF WritesInOrder
  <2>3. QED
    BY <1>1, <2>1, <2>2, Zenon DEF WritesInOrder
<1>7. QED
  BY <1>1, <1>4, <1>5, <1>6, Zenon DEF t

\* Write() posts the next number.
LEMMA CallAddsWrite ==
    ASSUME NEW s, NEW n \in Nat, WritesInOrder(s, n)
    PROVE  /\ WritesInOrder(Append(s, <<"Write", n + 1>>), n + 1)
           /\ Numbers(Append(s, <<"Write", n + 1>>)) = Numbers(s) \cup {n + 1}
<1> DEFINE e == <<"Write", n + 1>>
           t == Append(s, e)
<1>1. /\ s \in Seq(Posts) /\ e \in Posts /\ Len(s) \in Nat
      /\ Numbers(s) \subseteq 1..n /\ e[1] = "Write" /\ e[2] = n + 1
  BY DEF WritesInOrder, Posts
<1> HIDE DEF e
<1>2. /\ t \in Seq(Posts) /\ Len(t) = Len(s) + 1 /\ t[Len(s) + 1] = e
      /\ \A i \in 1..Len(s) : t[i] = s[i]
  BY <1>1
<1>3. /\ \A i \in 1..Len(t) : i \in 1..Len(s) \/ i = Len(s) + 1
      /\ \A i \in 1..Len(s) : i \in 1..Len(t)
      /\ Len(s) + 1 \in 1..Len(t)
  BY <1>1, <1>2
<1> HIDE DEF t
<1>4. Numbers(t) = Numbers(s) \cup {n + 1}
  <2>1. ASSUME NEW x \in Numbers(t) PROVE x \in Numbers(s) \cup {n + 1}
    <3>1. PICK i \in 1..Len(t) : t[i][1] = "Write" /\ x = t[i][2]
      BY <2>1 DEF Numbers
    <3>2. QED
      BY <1>1, <1>2, <1>3, <3>1, Zenon DEF Numbers
  <2>2. Numbers(s) \subseteq Numbers(t)
    BY <1>2, <1>3, Zenon DEF Numbers
  <2>3. n + 1 \in Numbers(t)
    BY <1>1, <1>2, <1>3, Zenon DEF Numbers
  <2>4. QED
    BY <2>1, <2>2, <2>3
<1>5. \A i \in 1..Len(s) : s[i][1] = "Write" => s[i][2] \in Numbers(s) /\ s[i][2] # n + 1
  <2>1. n + 1 \notin Numbers(s)
    BY <1>1
  <2>2. QED
    BY <2>1, Zenon DEF Numbers
<1>6. ASSUME NEW i \in 1..Len(t), NEW j \in 1..Len(t), t[i][1] = "Write", t[j][1] = "Write",
             t[i][2] = t[j][2]
      PROVE  i = j
  BY <1>1, <1>2, <1>3, <1>5, <1>6, Zenon DEF WritesInOrder
<1>7. Numbers(t) \subseteq 1..n + 1
  BY <1>1, <1>4
<1>8. WritesInOrder(t, n + 1)
  BY <1>2, <1>6, <1>7, Zenon DEF WritesInOrder
<1>9. QED
  BY <1>4, <1>8 DEF t, e

-----------------------------------------------------------------------------
\* The sizes of a setup are numbers.
LEMMA SetupSizes ==
    ASSUME NEW u \in SetupType PROVE u.Parts \in Nat \ {0} /\ u.Endpoints \in Nat \ {0}
  BY DEF SetupType

\* The same for the setup the behaviour has.
LEMMA SetupTyped == ASSUME setup \in Setups PROVE Parts \in Nat /\ Endpoints \in Nat
<1>1. setup \in SetupType
  BY SocketAssumption
<1>2. QED
  BY <1>1, SetupSizes DEF Parts, Endpoints

\* The bytes of one Write().
LEMMA BytesOfOne ==
    ASSUME setup \in Setups, NEW k \in Nat
    PROVE  /\ Parts \in Nat
           /\ Bytes(k) \in Seq(Byte) /\ NoRepeats(Bytes(k)) /\ Len(Bytes(k)) = Parts
           /\ Elements(Bytes(k)) = {k} \X (1..Parts)
<1>1. Parts \in Nat
  BY SetupTyped
<1>2. /\ Bytes(k) \in Seq(Byte) /\ Len(Bytes(k)) = Parts
      /\ \A i \in 1..Parts : Bytes(k)[i] = <<k, i>>
  BY <1>1 DEF Bytes, Byte
<1>3. NoRepeats(Bytes(k))
  BY <1>2 DEF NoRepeats
<1>4. Elements(Bytes(k)) = {k} \X (1..Parts)
  <2>1. Elements(Bytes(k)) = {<<k, i>> : i \in 1..Parts}
    BY <1>2, Zenon DEF Elements
  <2>2. QED
    BY <2>1
<1>5. QED
  BY <1>1, <1>2, <1>3, <1>4

OnStrand == Numbers(strand) \X (1..Parts)
AllBytes == (1..nwrites) \X (1..Parts)

\* The inductive invariant: b is the buffer of the Write() under way.
BytesInv ==
    /\ IInv
    /\ setup \in Setups /\ nwrites \in Nat /\ WritesInOrder(strand, nwrites)
    /\ \A o \in writing : o.direct \in BOOLEAN /\ (~o.direct => o.buf = <<>>)
    /\ \E b : /\ writing = {} => b = <<>>
              /\ \A o \in writing : o.buf = b
              /\ Placed(wire, dropped, queue_writebufs, dispatch_writebufs, b, OnStrand, AllBytes)

KeepsWrites == WritesInOrder(strand', nwrites) /\ Numbers(strand') = Numbers(strand)

\* A step that leaves the buffers alone.
LEMMA BuffersStay ==
    ASSUME BytesInv, IInv', KeepsWrites,
           UNCHANGED <<buffers, wire, dropped, nwrites, setup>>
    PROVE  BytesInv'
<1>1. OnStrand' = OnStrand /\ AllBytes' = AllBytes
  BY DEF KeepsWrites, OnStrand, AllBytes, Parts
<1>2. WritesInOrder(strand, nwrites)'
  BY DEF KeepsWrites
<1>3. PICK b : /\ writing = {} => b = <<>>
               /\ \A o \in writing : o.buf = b
               /\ Placed(wire, dropped, queue_writebufs, dispatch_writebufs, b, OnStrand, AllBytes)
  BY DEF BytesInv
<1>4. Placed(wire, dropped, queue_writebufs, dispatch_writebufs, b, OnStrand, AllBytes)'
  BY <1>1, <1>3 DEF buffers
<1>5. QED
  BY <1>2, <1>3, <1>4 DEF BytesInv, buffers

\* What the manager posts to itself.
LEMMA AutoPosts == AutoOpenPost \in Seq(AutoCalls) /\ AutoClosePost \in Seq(AutoCalls)
                   /\ CloseThenOpen \in Seq(AutoCalls)
  BY DEF AutoOpenPost, AutoClosePost, CloseThenOpen, Post, AutoCalls

\* Open() posts at most retries, for the endpoints that do not bind.
LEMMA OpenKeepsWrites ==
    ASSUME setup \in Setups, NEW rest, NEW n \in Nat, WritesInOrder(rest, n), Open(rest)
    PROVE  WritesInOrder(strand', n) /\ Numbers(strand') = Numbers(rest)
<1>1. CASE strand' = rest
  BY <1>1
<1>2. CASE \E bound \in SUBSET (1..Endpoints) : strand' = rest \o BindFailures(bound)
  <2>1. PICK bound \in SUBSET (1..Endpoints) : strand' = rest \o BindFailures(bound)
    BY <1>2
  <2> DEFINE first == {e \in 1..Endpoints : \A b \in bound : e < b}
  <2>2. Endpoints \in Nat
    BY SetupTyped
  <2>3. Cardinality(first) \in Nat
    <3>1. IsFiniteSet(1..Endpoints) /\ first \subseteq 1..Endpoints
      BY <2>2, FS_Interval
    <3>2. QED
      BY <3>1, FS_Subset, FS_CardinalityType
  <2>4. BindFailures(bound) \in Seq(AutoCalls)
    <3> HIDE DEF first
    <3>1. BindFailures(bound) = [e \in 1..Cardinality(first) |-> Post("AutoOpen")]
      BY DEF BindFailures, first
    <3>2. Post("AutoOpen") \in AutoCalls
      BY DEF Post, AutoCalls
    <3>3. QED
      BY <2>3, <3>1, <3>2
  <2>5. QED
    BY <2>1, <2>4, PostKeepsWrites
<1>3. QED
  BY <1>1, <1>2 DEF Open, StartResolve, ServerOpen, ClientOpen

\* The handlers that do not write.
LEMMA RunKeeps ==
    ASSUME BytesInv, RunOpen \/ RunClose \/ RunAutoOpen \/ RunAutoClose
    PROVE  KeepsWrites
<1>1. strand # <<>> /\ Head(strand)[1] # "Write"
  BY DEF RunOpen, RunClose, RunAutoOpen, RunAutoClose, Post
<1>2. /\ setup \in Setups /\ nwrites \in Nat
      /\ WritesInOrder(Tail(strand), nwrites) /\ Numbers(Tail(strand)) = Numbers(strand)
  BY <1>1, RunKeepsWrites DEF BytesInv
<1>3. \/ Open(Tail(strand))
      \/ strand' = Tail(strand)
      \/ strand' = Tail(strand) \o AutoClosePost
  BY DEF RunOpen, RunClose, RunAutoOpen, RunAutoClose
<1>4. CASE Open(Tail(strand))
  BY <1>2, <1>4, OpenKeepsWrites DEF KeepsWrites
<1>5. CASE strand' = Tail(strand)
  BY <1>2, <1>5 DEF KeepsWrites
<1>6. CASE strand' = Tail(strand) \o AutoClosePost
  BY <1>2, <1>6, PostKeepsWrites, AutoPosts DEF KeepsWrites
<1>7. QED
  BY <1>3, <1>4, <1>5, <1>6

\* WriteBuffer() moves bytes between the two buffers only.
LEMMA WriteBufferPlaces ==
    ASSUME NEW w, NEW dr, NEW q, NEW d, NEW S, NEW all, Placed(w, dr, q, d, <<>>, S, all),
           NEW s, WriteBuffer(s, q, d, FALSE, {})
    PROVE  /\ Placed(w, dr, queue_writebufs', dispatch_writebufs', <<>>, S, all)
           /\ \A o \in writing' : o.direct = FALSE /\ o.buf = <<>>
<1>1. \/ queue_writebufs' = q /\ dispatch_writebufs' = d
      \/ d = <<>> /\ queue_writebufs' = <<>> /\ dispatch_writebufs' = Concat(q)
  BY DEF WriteBuffer
<1>2. \/ writing' = {}
      \/ writing' = {[sock |-> s, direct |-> FALSE, buf |-> <<>>]}
  BY DEF WriteBuffer
<1>3. Placed(w, dr, queue_writebufs', dispatch_writebufs', <<>>, S, all)
  BY <1>1, PlaceDispatch
<1>4. QED
  BY <1>2, <1>3

\* The end of a write, once its bytes are where they belong.
LEMMA LastWritePlaces ==
    ASSUME BytesInv, IInv', UNCHANGED <<nwrites, setup>>, NEW q, NEW d, NEW s,
           Placed(wire', dropped', q, d, <<>>, OnStrand, AllBytes),
           \/ CheckLastWrite(s, q, d, {})
           \/ /\ queue_writebufs' = q /\ dispatch_writebufs' = d /\ writing' = {}
              /\ strand' = strand
    PROVE  BytesInv'
<1>1. KeepsWrites
  <2>1. strand' = strand \/ strand' = strand \o AutoOpenPost
    BY DEF CheckLastWrite
  <2>2. QED
    BY <2>1, PostKeepsWrites, AutoPosts DEF KeepsWrites, BytesInv
<1>2. OnStrand' = OnStrand /\ AllBytes' = AllBytes /\ WritesInOrder(strand, nwrites)'
  BY <1>1 DEF KeepsWrites, OnStrand, AllBytes, Parts
<1>3. /\ Placed(wire', dropped', queue_writebufs', dispatch_writebufs', <<>>, OnStrand, AllBytes)
      /\ \A o \in writing' : o.direct = FALSE /\ o.buf = <<>>
  <2>1. CASE WriteBuffer(s, q, d, FALSE, {})
    BY <2>1, WriteBufferPlaces
  <2>2. CASE queue_writebufs' = q /\ dispatch_writebufs' = d /\ writing' = {}
    BY <2>2
  <2>3. QED
    BY <2>1, <2>2 DEF CheckLastWrite
<1>4. Placed(wire, dropped, queue_writebufs, dispatch_writebufs, <<>>, OnStrand, AllBytes)'
  BY <1>2, <1>3
<1>5. QED
  BY <1>2, <1>3, <1>4 DEF BytesInv

\* All of a buffer is written: nothing is left of it.
LEMMA NothingLeft == ASSUME NEW T, NEW b \in Seq(T) PROVE Rest(b, Len(b)) = <<>>
  BY DEF Rest

\* Write() runs: its bytes leave the strand for the queue or for the network.
LEMMA RunWriteKeepsBytes == ASSUME BytesInv, IInv', RunWrite PROVE BytesInv'
<1> DEFINE k == Head(strand)[2]
           buf == Bytes(k)
<1>1. /\ strand # <<>> /\ Head(strand)[1] = "Write" /\ strand' = Tail(strand)
      /\ UNCHANGED <<wire, nwrites, setup>>
  BY DEF RunWrite, counts
<1>2. /\ setup \in Setups /\ nwrites \in Nat /\ WritesInOrder(strand, nwrites)
      /\ \A o \in writing : o.direct \in BOOLEAN /\ (~o.direct => o.buf = <<>>)
  BY DEF BytesInv
<1>3. /\ WritesInOrder(strand', nwrites) /\ k \in Numbers(strand)
      /\ Numbers(strand') = Numbers(strand) \ {k}
  BY <1>1, <1>2, RunKeepsWrites
<1>4. k \in Nat /\ Parts \in Nat /\ Parts' = Parts
  BY <1>1, <1>2, <1>3, SetupTyped DEF WritesInOrder, Parts
<1> HIDE DEF k
<1>5. /\ buf \in Seq(Byte) /\ NoRepeats(buf) /\ Elements(buf) = {k} \X (1..Parts)
  BY <1>2, <1>4, BytesOfOne
<1> HIDE DEF buf
<1>6. /\ OnStrand' = OnStrand \ Elements(buf) /\ Elements(buf) \subseteq OnStrand
      /\ AllBytes' = AllBytes
  BY <1>1, <1>3, <1>4, <1>5 DEF OnStrand, AllBytes
<1>7. PICK b : /\ writing = {} => b = <<>>
               /\ \A o \in writing : o.buf = b
               /\ Placed(wire, dropped, queue_writebufs, dispatch_writebufs, b, OnStrand, AllBytes)
  BY DEF BytesInv
<1>8. CASE MustBuffer
  <2> DEFINE q == Append(queue_writebufs, buf)
  <2>1. /\ IF Len(q) > BufferLimit
           THEN queue_writebufs' = Tail(q) /\ dropped' = dropped \cup Elements(Head(q))
           ELSE queue_writebufs' = q /\ UNCHANGED dropped
        /\ UNCHANGED <<dispatch_writebufs, writing>>
    BY <1>8 DEF RunWrite, Buffered, k, buf
  <2>2. Placed(wire, dropped, q, dispatch_writebufs, b, OnStrand', AllBytes')
    BY <1>5, <1>6, <1>7, PlaceBack
  <2>3. q # <<>>
    <3>1. queue_writebufs \in Seq(Seq(Byte))
      BY <1>7 DEF Placed
    <3>2. QED
      BY <1>5, <3>1
  <2> HIDE DEF q
  <2>4. Placed(wire', dropped', queue_writebufs', dispatch_writebufs', b, OnStrand', AllBytes')
    <3>1. CASE Len(q) > BufferLimit
      <4>1. queue_writebufs' = Tail(q) /\ dropped' = dropped \cup Elements(Head(q))
        BY <2>1, <3>1, Zenon
      <4>2. Placed(wire, dropped', queue_writebufs', dispatch_writebufs, b, OnStrand', AllBytes')
        BY <2>2, <2>3, <4>1, PlaceDropped
      <4>3. QED
        BY <1>1, <2>1, <4>2
    <3>2. CASE ~(Len(q) > BufferLimit)
      BY <1>1, <2>1, <2>2, <3>2
    <3>3. QED
      BY <3>1, <3>2
  <2>5. QED
    BY <1>1, <1>2, <1>3, <1>7, <2>1, <2>4 DEF BytesInv
<1>9. CASE ~MustBuffer
  <2>1. writing = {} /\ b = <<>>
    BY <1>7, <1>9 DEF MustBuffer, BytesInv, IInv, OneWriteAtATime
  <2>2. /\ writing' = {[sock |-> pSock, direct |-> TRUE, buf |-> buf]}
        /\ UNCHANGED <<queue_writebufs, dispatch_writebufs, dropped>>
    BY <1>9, <2>1 DEF RunWrite, k, buf
  <2>3. Placed(wire', dropped', queue_writebufs', dispatch_writebufs', buf, OnStrand', AllBytes')
    BY <1>1, <1>5, <1>6, <1>7, <2>1, <2>2, PlaceDirect
  <2>4. writing' # {} /\ \A o \in writing' : o.direct = TRUE /\ o.buf = buf
    BY <2>2
  <2>5. \E c : /\ writing' = {} => c = <<>>
              /\ \A o \in writing' : o.buf = c
              /\ Placed(wire', dropped', queue_writebufs', dispatch_writebufs', c, OnStrand', AllBytes')
    BY <2>3, <2>4
  <2>6. QED
    BY <1>1, <1>2, <1>3, <2>4, <2>5 DEF BytesInv
<1>10. QED
  BY <1>8, <1>9

\* Write() is called.
LEMMA CallKeepsBytes == ASSUME BytesInv, IInv', CallWrite PROVE BytesInv'
<1> DEFINE new == {nwrites + 1} \X (1..Parts)
<1>1. /\ nwrites' = nwrites + 1 /\ strand' = Append(strand, <<"Write", nwrites + 1>>)
      /\ UNCHANGED <<writes, setup>>
  BY DEF CallWrite
<1>2. /\ setup \in Setups /\ nwrites \in Nat /\ WritesInOrder(strand, nwrites)
      /\ \A o \in writing : o.direct \in BOOLEAN /\ (~o.direct => o.buf = <<>>)
  BY DEF BytesInv
<1>3. WritesInOrder(strand', nwrites') /\ Numbers(strand') = Numbers(strand) \cup {nwrites + 1}
  BY <1>1, <1>2, CallAddsWrite
<1>4. Parts' = Parts
  BY <1>1 DEF Parts
<1>5. /\ OnStrand' = OnStrand \cup new /\ AllBytes' = AllBytes \cup new
      /\ new \cap AllBytes = {}
  BY <1>1, <1>2, <1>3, <1>4 DEF OnStrand, AllBytes
<1>6. PICK b : /\ writing = {} => b = <<>>
               /\ \A o \in writing : o.buf = b
               /\ Placed(wire, dropped, queue_writebufs, dispatch_writebufs, b, OnStrand, AllBytes)
  BY DEF BytesInv
<1> HIDE DEF new
<1>7. Placed(wire', dropped', queue_writebufs', dispatch_writebufs', b, OnStrand', AllBytes')
  BY <1>1, <1>5, <1>6, PlaceNew DEF writes, buffers
<1>8. QED
  BY <1>1, <1>2, <1>3, <1>6, <1>7 DEF BytesInv, writes, buffers

\* A write ends, of its own bytes or of the dispatch buffer.
LEMMA WriteHandlerKeepsBytes == ASSUME BytesInv, IInv', WriteHandler PROVE BytesInv'
<1>1. PICK o \in writing :
        \/ \E n \in 0..Len(o.buf) : DirectWriteDone(o, n)
        \/ \E n \in 0..Len(dispatch_writebufs) : BufferWriteDone(o, n)
  BY DEF WriteHandler
<1>2. UNCHANGED <<nwrites, setup>>
  BY DEF WriteHandler, counts
<1>3. writing \ {o} = {}
  BY DEF BytesInv, IInv, OneWriteAtATime
<1>4. /\ Placed(wire, dropped, queue_writebufs, dispatch_writebufs, o.buf, OnStrand, AllBytes)
      /\ ~o.direct => o.buf = <<>>
  BY DEF BytesInv
<1>5. ASSUME NEW q, NEW d, ThrottleCheckLastWrite(o.sock, q, d, writing \ {o}),
             Placed(wire', dropped', q, d, <<>>, OnStrand, AllBytes)
      PROVE  BytesInv'
  BY <1>2, <1>3, <1>5, LastWritePlaces DEF ThrottleCheckLastWrite
<1>6. ASSUME NEW n \in 0..Len(o.buf), DirectWriteDone(o, n) PROVE BytesInv'
  <2> DEFINE left == Rest(o.buf, n)
             q == IF n < Len(o.buf) THEN Append(queue_writebufs, left) ELSE queue_writebufs
             kept == IF Len(q) > BufferLimit /\ n < Len(o.buf) THEN Tail(q) ELSE q
  <2>1. /\ wire' = wire \o SubSeq(o.buf, 1, n)
        /\ dropped' = dropped \cup (Elements(Concat(q)) \ Elements(Concat(kept)))
        /\ ThrottleCheckLastWrite(o.sock, kept, dispatch_writebufs, writing \ {o})
    BY <1>6, Zenon DEF DirectWriteDone
  <2>2. Placed(wire', dropped, queue_writebufs, dispatch_writebufs, left, OnStrand, AllBytes)
    BY <1>4, <2>1, PlaceWrittenDirect
  <2>3. Placed(wire', dropped, q, dispatch_writebufs, <<>>, OnStrand, AllBytes)
    <3>1. CASE n < Len(o.buf)
      <4>1. q = Append(queue_writebufs, left)
        BY <3>1
      <4> HIDE DEF left, q
      <4>2. QED
        BY <2>2, <4>1, PlaceLeft
    <3>2. CASE ~(n < Len(o.buf))
      <4>1. o.buf \in Seq(Byte) /\ n = Len(o.buf)
        BY <1>4, <3>2 DEF Placed
      <4>2. q = queue_writebufs /\ left = <<>>
        BY <3>2, <4>1, NothingLeft
      <4> HIDE DEF left, q
      <4>3. QED
        BY <2>2, <4>2
    <3>3. QED
      BY <3>1, <3>2
  <2>4. Placed(wire', dropped', kept, dispatch_writebufs, <<>>, OnStrand, AllBytes)
    <3>1. CASE Len(q) > BufferLimit /\ n < Len(o.buf)
      <4>1. kept = Tail(q) /\ q = Append(queue_writebufs, left)
        BY <3>1
      <4>2. q # <<>>
        <5>1. queue_writebufs \in Seq(Seq(Byte)) /\ left \in Seq(Byte)
          BY <2>2 DEF Placed
        <5> HIDE DEF left, q
        <5>2. QED
          BY <4>1, <5>1
      <4> HIDE DEF left, q, kept
      <4>3. dropped' = dropped \cup Elements(Head(q))
        BY <2>1, <2>3, <4>1, <4>2, PlaceDropped
      <4>4. QED
        BY <2>3, <4>1, <4>2, <4>3, PlaceDropped
    <3>2. CASE ~(Len(q) > BufferLimit /\ n < Len(o.buf))
      <4>1. kept = q
        BY <3>2, Zenon
      <4> HIDE DEF left, q, kept
      <4>2. dropped' = dropped
        BY <2>1, <4>1
      <4>3. QED
        BY <2>3, <4>1, <4>2
    <3>3. QED
      BY <3>1, <3>2, Zenon
  <2> HIDE DEF left, q, kept
  <2>5. QED
    BY <1>5, <2>1, <2>4
<1>7. ASSUME NEW n \in 0..Len(dispatch_writebufs), BufferWriteDone(o, n) PROVE BytesInv'
  <2>1. /\ o.buf = <<>>
        /\ wire' = wire \o SubSeq(dispatch_writebufs, 1, n)
        /\ ThrottleCheckLastWrite(o.sock, queue_writebufs, Rest(dispatch_writebufs, n),
                                  writing \ {o})
        /\ dropped' = dropped
    BY <1>4, <1>7 DEF BufferWriteDone
  <2>2. Placed(wire', dropped', queue_writebufs, Rest(dispatch_writebufs, n), <<>>, OnStrand,
               AllBytes)
    BY <1>4, <2>1, PlaceWritten
  <2>3. QED
    BY <1>5, <2>1, <2>2
<1>8. QED
  BY <1>1, <1>6, <1>7

\* No step of the manager, its user or the network loses or doubles a byte.
LEMMA NextBytesInv == BytesInv /\ [Next]_vars => BytesInv'
<1> SUFFICES ASSUME BytesInv, [Next]_vars PROVE BytesInv'
  OBVIOUS
<1>1. IInv'
  BY NextIInv DEF BytesInv
<1>2. nwrites \in Nat /\ WritesInOrder(strand, nwrites) /\ setup \in Setups
  BY DEF BytesInv
<1>3. ASSUME NEW h \in Seq(AutoCalls), strand' = strand \o h PROVE KeepsWrites
  BY <1>2, <1>3, PostKeepsWrites DEF KeepsWrites
<1>4. ASSUME strand' = strand PROVE KeepsWrites
  BY <1>2, <1>4 DEF KeepsWrites
<1>5. CASE RunOpen \/ RunClose \/ RunAutoOpen \/ RunAutoClose
  <2>1. UNCHANGED <<buffers, wire, dropped, nwrites, setup>>
    BY <1>5 DEF RunOpen, RunClose, RunAutoOpen, RunAutoClose, writes, counts
  <2>2. QED
    BY <1>1, <1>5, <2>1, RunKeeps, BuffersStay
<1>6. CASE RunWrite
  BY <1>1, <1>6, RunWriteKeepsBytes
<1>7. CASE CallWrite
  BY <1>1, <1>7, CallKeepsBytes
<1>8. CASE Call("Open") \/ Call("Close")
  <2>1. PICK h \in {"Open", "Close"} : Call(h)
    BY <1>8
  <2>2. <<Post(h)>> \in Seq(AutoCalls)
    BY DEF Post, AutoCalls
  <2>3. strand' = strand \o <<Post(h)>>
    <3>1. strand \in Seq(Posts) /\ Post(h) \in Posts
      BY <1>2 DEF WritesInOrder, Post, Posts, AutoCalls
    <3>2. strand' = Append(strand, Post(h))
      BY <2>1 DEF Call
    <3>3. QED
      BY <3>1, <3>2, AppendIsConcat
  <2>4. KeepsWrites
    BY <1>3, <2>2, <2>3
  <2>5. UNCHANGED <<buffers, wire, dropped, nwrites, setup>>
    BY <2>1 DEF Call, writes
  <2>6. QED
    BY <1>1, <2>4, <2>5, BuffersStay
<1>9. CASE Network
  <2>1. UNCHANGED <<strand, buffers, wire, dropped, nwrites, setup>>
    BY <1>9 DEF Network, Settle, PeerEnds, writes, counts
  <2>2. QED
    BY <1>1, <1>4, <2>1, BuffersStay
<1>10. ASSUME NEW s \in Socks, ConnectCompletionHandler(s) PROVE BytesInv'
  <2>1. UNCHANGED <<wire, dropped, nwrites, setup>>
    BY <1>10 DEF ConnectCompletionHandler, counts
  <2>2. CASE UNCHANGED buffers
    <3>1. strand' = strand \/ strand' = strand \o AutoOpenPost \/ strand' = strand \o AutoClosePost
      BY <1>10 DEF ConnectCompletionHandler, Connected
    <3>2. KeepsWrites
      BY <1>3, <1>4, <3>1, AutoPosts
    <3>3. QED
      BY <1>1, <2>1, <2>2, <3>2, BuffersStay
  <2>3. CASE WriteBuffer(s, queue_writebufs, dispatch_writebufs, pending_write, writing)
             /\ strand' = strand
    <3>1. CASE pending_write
      BY <1>1, <1>4, <2>1, <2>3, <3>1, BuffersStay DEF WriteBuffer, buffers
    <3>2. CASE ~pending_write
      <4>1. writing = {} /\ pending_write = FALSE
        BY <3>2 DEF BytesInv, IInv, OneWriteAtATime
      <4>2. WriteBuffer(s, queue_writebufs, dispatch_writebufs, FALSE, {})
        BY <2>3, <4>1
      <4>3. Placed(wire, dropped, queue_writebufs, dispatch_writebufs, <<>>, OnStrand, AllBytes)
        BY <4>1 DEF BytesInv
      <4>4. /\ Placed(wire, dropped, queue_writebufs', dispatch_writebufs', <<>>, OnStrand, AllBytes)
            /\ \A o \in writing' : o.direct = FALSE /\ o.buf = <<>>
        BY <4>2, <4>3, WriteBufferPlaces
      <4>5. OnStrand' = OnStrand /\ AllBytes' = AllBytes
        BY <2>1, <2>3 DEF OnStrand, AllBytes, Parts
      <4>6. Placed(wire', dropped', queue_writebufs', dispatch_writebufs', <<>>, OnStrand', AllBytes')
        BY <2>1, <4>4, <4>5
      <4>7. QED
        BY <1>1, <1>2, <2>1, <2>3, <4>4, <4>6 DEF BytesInv
    <3>3. QED
      BY <3>1, <3>2
  <2>4. QED
    BY <1>10, <2>2, <2>3 DEF ConnectCompletionHandler, Connected
<1>11. ASSUME NEW s \in Socks, ReadHandler(s) PROVE BytesInv'
  <2>1. strand' = strand \o CloseThenOpen
    BY <1>11 DEF ReadHandler
  <2>2. UNCHANGED <<buffers, wire, dropped, nwrites, setup>>
    BY <1>11 DEF ReadHandler, writes, counts
  <2>3. KeepsWrites
    BY <1>3, <2>1, AutoPosts
  <2>4. QED
    BY <1>1, <2>2, <2>3, BuffersStay
<1>12. ASSUME NEW s \in Socks, ThrottleHandler(s) PROVE BytesInv'
  <2>1. writing = {}
    BY <1>12 DEF ThrottleHandler, BytesInv, IInv, OneWriteAtATime
  <2>2. /\ CheckLastWrite(s, queue_writebufs, dispatch_writebufs, {})
        /\ UNCHANGED <<wire, dropped, nwrites, setup>>
    BY <1>12, <2>1 DEF ThrottleHandler, counts
  <2>3. Placed(wire', dropped', queue_writebufs, dispatch_writebufs, <<>>, OnStrand, AllBytes)
    BY <2>1, <2>2 DEF BytesInv
  <2>4. QED
    BY <1>1, <2>2, <2>3, LastWritePlaces
<1>13. CASE (\E s \in Socks : BackupClose(s)) \/ RetryExpires
  <2>1. UNCHANGED <<strand, buffers, wire, dropped, nwrites, setup>>
    BY <1>13 DEF BackupClose, RetryExpires, writes, counts
  <2>2. QED
    BY <1>1, <1>4, <2>1, BuffersStay
<1>14. CASE \E ok \in BOOLEAN : ResolveDone(ok)
  <2>1. strand' = strand \/ strand' = strand \o AutoOpenPost
    BY <1>14 DEF ResolveDone
  <2>2. UNCHANGED <<buffers, wire, dropped, nwrites, setup>>
    BY <1>14 DEF ResolveDone, writes, counts
  <2>3. QED
    BY <1>1, <1>3, <1>4, <2>1, <2>2, AutoPosts, BuffersStay
<1>15. CASE RetryHandler
  <2>1. strand' = strand \/ Open(strand)
    BY <1>15 DEF RetryHandler
  <2>2. KeepsWrites
    BY <1>2, <1>4, <2>1, OpenKeepsWrites DEF KeepsWrites
  <2>3. UNCHANGED <<buffers, wire, dropped, nwrites, setup>>
    BY <1>15 DEF RetryHandler, writes, counts
  <2>4. QED
    BY <1>1, <2>2, <2>3, BuffersStay
<1>16. CASE WriteHandler
  BY <1>1, <1>16, WriteHandlerKeepsBytes
<1>17. CASE UNCHANGED vars
  <2>1. UNCHANGED <<strand, buffers, wire, dropped, nwrites, setup>>
    BY <1>17 DEF vars, writes, counts
  <2>2. QED
    BY <1>1, <1>4, <2>1, BuffersStay
<1>18. QED
  BY <1>5, <1>6, <1>7, <1>8, <1>9, <1>10, <1>11, <1>12, <1>13, <1>14, <1>15, <1>16, <1>17
  DEF Next, Strand, User, Completion

\* A new manager has no bytes.
LEMMA InitBytesInv == Init => BytesInv
<1> SUFFICES ASSUME Init PROVE BytesInv
  OBVIOUS
<1>1. Numbers(<<>>) = {} /\ WritesInOrder(<<>>, 0)
  BY DEF Numbers, WritesInOrder
<1>2. OnStrand = {} /\ AllBytes = {}
  BY <1>1 DEF Init, OnStrand, AllBytes
<1>3. Concat(<<>>) = <<>> /\ <<>> \in Seq(Seq(Byte))
  BY ConcatEmpty
<1>4. Placed(<<>>, {}, <<>>, <<>>, <<>>, {}, {})
  BY <1>3, EmptyElements DEF Placed, Apart
<1>5. QED
  BY <1>1, <1>2, <1>4 DEF Init, BytesInv, IInv, OneWriteAtATime

-----------------------------------------------------------------------------
\* Sets that are apart are counted one by one.
LEMMA CountApart ==
    ASSUME NEW W, NEW dr, NEW Q, NEW D, NEW B, NEW S, Apart(W, dr, Q, D, B, S),
           NEW all, IsFiniteSet(all), all = W \cup dr \cup Q \cup D \cup B \cup S
    PROVE  Cardinality(all) = Cardinality(W) + Cardinality(dr) + Cardinality(Q)
                                + Cardinality(D) + Cardinality(B) + Cardinality(S)
<1>1. \A T : T \subseteq all => IsFiniteSet(T) /\ Cardinality(T) \in Nat
  BY FS_Subset, FS_CardinalityType
<1>2. ASSUME NEW T, NEW U, T \subseteq all, U \subseteq all, T \cap U = {}
      PROVE  Cardinality(T \cup U) = Cardinality(T) + Cardinality(U)
  <2>1. IsFiniteSet(T) /\ IsFiniteSet(U) /\ Cardinality(T) \in Nat /\ Cardinality(U) \in Nat
    BY <1>1, <1>2
  <2>2. Cardinality(T \cap U) = 0
    BY <1>2, FS_EmptySet
  <2>3. Cardinality(T \cup U) = Cardinality(T) + Cardinality(U) - Cardinality(T \cap U)
    BY <2>1, FS_Union
  <2>4. QED
    BY <2>1, <2>2, <2>3
<1> DEFINE e == W \cup dr
           f == e \cup Q
           g == f \cup D
           h == g \cup B
<1>3. /\ W \subseteq all /\ dr \subseteq all /\ Q \subseteq all /\ D \subseteq all
      /\ B \subseteq all /\ S \subseteq all
      /\ e \subseteq all /\ f \subseteq all /\ g \subseteq all /\ h \subseteq all
      /\ W \cap dr = {} /\ e \cap Q = {} /\ f \cap D = {} /\ g \cap B = {} /\ h \cap S = {}
      /\ all = h \cup S
  BY Zenon DEF Apart
<1>4. /\ Cardinality(e) = Cardinality(W) + Cardinality(dr)
      /\ Cardinality(f) = Cardinality(e) + Cardinality(Q)
  BY <1>2, <1>3, Zenon
<1>5. /\ Cardinality(g) = Cardinality(f) + Cardinality(D)
      /\ Cardinality(h) = Cardinality(g) + Cardinality(B)
  BY <1>2, <1>3, Zenon
<1>6. Cardinality(all) = Cardinality(h) + Cardinality(S)
  BY <1>2, <1>3, Zenon
<1> HIDE DEF e, f, g, h
<1>7. QED
  BY <1>4, <1>5, <1>6, Zenon

\* The invariant places and counts every byte.
LEMMA BytesInvOnce == BytesInv => EachByteOnce
<1> SUFFICES ASSUME BytesInv PROVE EachByteOnce
  OBVIOUS
<1>1. /\ setup \in Setups /\ nwrites \in Nat /\ WritesInOrder(strand, nwrites)
  BY DEF BytesInv
<1>2. Parts \in Nat /\ \A k \in Nat : Elements(Bytes(k)) = {k} \X (1..Parts)
  BY <1>1, BytesOfOne
<1>3. UNION {Elements(Bytes(w)) : w \in 1..nwrites} = AllBytes
  <2>1. {Elements(Bytes(w)) : w \in 1..nwrites} = {{w} \X (1..Parts) : w \in 1..nwrites}
    <3>1. \A w \in 1..nwrites : Elements(Bytes(w)) = {w} \X (1..Parts)
      BY <1>1, <1>2
    <3>2. QED
      BY <3>1, Zenon
  <2>2. UNION {{w} \X (1..Parts) : w \in 1..nwrites} = (1..nwrites) \X (1..Parts)
    OBVIOUS
  <2>3. QED
    BY <2>1, <2>2 DEF AllBytes
<1>4. Waiting = OnStrand
  <2> DEFINE I == {j \in 1..Len(strand) : strand[j][1] = "Write"}
  <2>1. \A i \in I : strand[i][2] \in Numbers(strand) /\ strand[i][2] \in Nat
    <3>1. \A i \in I : strand[i][2] \in Numbers(strand)
      BY Zenon DEF Numbers
    <3>2. Numbers(strand) \subseteq Nat
      BY <1>1 DEF WritesInOrder
    <3>3. QED
      BY <3>1, <3>2
  <2>2. \A i \in I : Elements(Bytes(strand[i][2])) = {strand[i][2]} \X (1..Parts)
    BY <1>2, <2>1
  <2>3. Waiting = UNION {Elements(Bytes(strand[i][2])) : i \in I}
    BY DEF Waiting
  <2>4. Numbers(strand) = {strand[i][2] : i \in I}
    BY DEF Numbers
  <2> HIDE DEF I
  <2>5. UNION {Elements(Bytes(strand[i][2])) : i \in I}
          = UNION {{strand[i][2]} \X (1..Parts) : i \in I}
    BY <2>2, Zenon
  <2>6. UNION {{strand[i][2]} \X (1..Parts) : i \in I} = {strand[i][2] : i \in I} \X (1..Parts)
    OBVIOUS
  <2>7. QED
    BY <2>3, <2>4, <2>5, <2>6 DEF OnStrand
<1>5. PICK b : /\ writing = {} => b = <<>>
               /\ \A o \in writing : o.buf = b
               /\ Placed(wire, dropped, queue_writebufs, dispatch_writebufs, b, OnStrand, AllBytes)
  BY DEF BytesInv
<1>6. DirectBytes = Elements(b)
  <2>1. CASE writing = {}
    BY <1>5, <2>1, EmptyElements DEF DirectBytes
  <2>2. CASE writing # {}
    <3>1. {Elements(o.buf) : o \in writing} = {Elements(b)}
      BY <1>5, <2>2, Zenon
    <3>2. QED
      BY <3>1 DEF DirectBytes
  <2>3. QED
    BY <2>1, <2>2
<1> DEFINE c == Concat(queue_writebufs)
           d == dispatch_writebufs
<1>7. /\ wire \in Seq(Byte) /\ NoRepeats(wire) /\ c \in Seq(Byte) /\ NoRepeats(c)
      /\ d \in Seq(Byte) /\ NoRepeats(d)
      /\ Apart(Elements(wire), dropped, Elements(c), Elements(d), DirectBytes, Waiting)
      /\ AllBytes = Elements(wire) \cup dropped \cup Elements(c) \cup Elements(d)
                      \cup DirectBytes \cup Waiting
  <2>1. queue_writebufs \in Seq(Seq(Byte))
    BY <1>5 DEF Placed
  <2>2. c \in Seq(Byte)
    BY <2>1, ConcatAppend, EmptyElements
  <2>3. QED
    BY <1>4, <1>5, <1>6, <2>2 DEF Placed
<1> HIDE DEF c, d
<1>8. /\ Elements(Unwritten) = Elements(c) \cup Elements(d)
      /\ Len(Unwritten) = Len(c) + Len(d)
  BY <1>7, JoinElements DEF Unwritten, c, d
<1>9. IsFiniteSet(AllBytes)
  <2>1. IsFiniteSet(1..nwrites) /\ IsFiniteSet(1..Parts)
    BY <1>1, <1>2, FS_Interval
  <2>2. QED
    BY <2>1, FS_Product DEF AllBytes
<1>10. Cardinality(AllBytes)
         = Cardinality(Elements(wire)) + Cardinality(dropped) + Cardinality(Elements(c))
             + Cardinality(Elements(d)) + Cardinality(DirectBytes) + Cardinality(Waiting)
  BY <1>7, <1>9, CountApart
<1>11. /\ Cardinality(Elements(wire)) = Len(wire) /\ Cardinality(Elements(c)) = Len(c)
       /\ Cardinality(Elements(d)) = Len(d)
  BY <1>7, CountElements
<1>12. /\ Cardinality(dropped) \in Nat /\ Cardinality(DirectBytes) \in Nat
       /\ Cardinality(Waiting) \in Nat /\ Len(wire) \in Nat /\ Len(c) \in Nat /\ Len(d) \in Nat
  <2>1. dropped \subseteq AllBytes /\ DirectBytes \subseteq AllBytes /\ Waiting \subseteq AllBytes
    BY <1>7, Zenon
  <2>2. \A T : T \subseteq AllBytes => Cardinality(T) \in Nat
    BY <1>9, FS_Subset, FS_CardinalityType
  <2>3. QED
    BY <1>7, <2>1, <2>2
<1>13. Cardinality(AllBytes) = Len(wire) + Cardinality(dropped) + Len(Unwritten)
                                 + Cardinality(DirectBytes) + Cardinality(Waiting)
  <2>1. Cardinality(AllBytes) = Len(wire) + Cardinality(dropped) + Len(c) + Len(d)
                                  + Cardinality(DirectBytes) + Cardinality(Waiting)
    BY <1>10, <1>11, Zenon
  <2> DEFINE i == Len(wire)
             j == Cardinality(dropped)
             k == Len(c)
             l == Len(d)
             m == Cardinality(DirectBytes)
             n == Cardinality(Waiting)
  <2>2. i \in Nat /\ j \in Nat /\ k \in Nat /\ l \in Nat /\ m \in Nat /\ n \in Nat
    BY <1>12
  <2> HIDE DEF i, j, k, l, m, n
  <2>3. i + j + k + l + m + n = i + j + (k + l) + m + n
    BY <2>2
  <2>4. QED
    BY <1>8, <2>1, <2>3, Zenon DEF i, j, k, l, m, n
<1>14. AllBytes = Elements(wire) \cup dropped \cup Elements(Unwritten)
                    \cup DirectBytes \cup Waiting
  BY <1>7, <1>8, Zenon
<1>15. QED
  BY <1>3, <1>13, <1>14, Zenon DEF EachByteOnce

\* Whatever connections come and go, and however much of each write they take,
\* no byte given to Write() is lost or sent twice: for any number of sockets,
\* writes and connections, any write size and any limit of the queue.
THEOREM Spec_EachByteOnce == Spec => []EachByteOnce
<1>1. BytesInv /\ [Next]_vars => BytesInv'
  BY NextBytesInv
<1>2. QED
  BY InitBytesInv, <1>1, BytesInvOnce, PTL DEF Spec
=============================================================================
