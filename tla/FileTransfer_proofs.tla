--------------------------- MODULE FileTransfer_proofs ---------------------------
(***************************************************************************)
(* Proofs about file transfers with CRCs, for any files, configurations,   *)
(* losses, delays, timeouts, resets and restarts: files at rest in the     *)
(* receiver's directory are whole, and an unsolicited confirmation that    *)
(* makes the sender forget a file finds it received.  Both as long as the  *)
(* sender does not take a transfer for ended while a handler of it is      *)
(* under way; without confirms only being enabled again can make it do so. *)
(***************************************************************************)
EXTENDS FileTransferLink, FiniteSetTheorems, WellFoundedInduction, TLAPS

-----------------------------------------------------------------------------
(* The chains the sender makes                                             *)

Items == [kind : {"name", "data", "eof"}, path : Files \cup {NoFile}, n : Nat]

\* Where a chain is in a file: after its name, or after its k-th chunk.
At(f, k) == IF k = 0 THEN Item("name", f, 0) ELSE Chunk(f, k)
Ends(crc, item) == crc # <<>> /\ crc[Len(crc)] = item

\* A chunk continues its file, and the end comes after its last chunk.
Follows(crc, item) ==
    \/ \E f \in Files : item = At(f, 0)
    \/ \E f \in Files : \E k \in 1..setup.Chunks[f] : item = Chunk(f, k) /\ Ends(crc, At(f, k - 1))
    \/ \E f \in Files : item = EOF /\ Ends(crc, At(f, setup.Chunks[f]))

\* The events published: a name under its own index, all else in the sequence.
Octets ==
    {e \in [index : Index, item : Items, crc : Seq(Items)] :
        /\ Follows(e.crc, e.item)
        /\ e.index = NameIndex <=> \E f \in Files : e.item = At(f, 0)}

\* The files a chain has brought to their ends.
Done(crc) ==
    {f \in Files : \E i \in DOMAIN crc : /\ i + 1 \in DOMAIN crc
                                         /\ crc[i] = At(f, setup.Chunks[f]) /\ crc[i + 1] = EOF}

\* What a receiver that has received those files may report.
Reports(files) == {m \in [ok : BOOLEAN, unsol : BOOLEAN, seq : Nat, crc : Seq(Items)] : Done(m.crc) \subseteq files}

-----------------------------------------------------------------------------
(* The sender                                                              *)

Going == {"answer", "chunk"}     \* posted handlers that go on with a transfer
Waiting == {"chunk", "eof"}      \* those that wait for a confirmation

Posted(files) ==
    [kind : {"try"}, arg : SUBSET Files]
    \cup [kind : {"chunk", "answer"}, arg : Files]
    \cup [kind : {"trigger"}, arg : [path : Files, only_modified : BOOLEAN]]
    \cup [kind : {"confirm"}, arg : Reports(files)]
    \cup [kind : {"timeout", "idle"}, arg : {NoFile}]
    \cup (IF setup.MaxTxDisables = 0 THEN {} ELSE [kind : {"enable", "disable"}, arg : {NoFile}])

PortFields == {"enabled", "seq", "crc", "in_progress", "transfer_reset", "filename_q", "unconfirmed",
               "event_buffer", "fin", "ConfirmHandler", "ConfirmTimer", "ModTimes"}
StreamFields == {"path", "pos", "good"}

PortOK(p) ==
    /\ DOMAIN p = PortFields /\ DOMAIN p.fin = StreamFields
    /\ p.in_progress \in BOOLEAN /\ p.transfer_reset \in BOOLEAN /\ p.seq \in Sequence
    /\ p.crc \in Seq(Items) /\ p.event_buffer \in Seq(Octets) /\ p.filename_q \subseteq Files
    /\ p.fin.pos \in Nat
    /\ setup.UseConfirms \/ p.ConfirmHandler = NoHandler

\* What is not confirmed has been sent to its end.
Sent(p) == p.unconfirmed \subseteq (IF setup.UseConfirms THEN Done(p.crc) ELSE {})

\* The chain is where handler kind of file f expects it, unless it has been reset.
Linked(p, kind, f) ==
    \/ p.transfer_reset
    \/ kind = "answer" /\ Ends(p.crc, At(f, 0))
    \/ /\ kind = "chunk" /\ p.fin.path = f /\ p.fin.good /\ p.fin.pos <= setup.Chunks[f]
       /\ Ends(p.crc, At(f, p.fin.pos))
    \/ kind = "eof" /\ Ends(p.crc, At(f, setup.Chunks[f]))

Still(w) == \A i \in DOMAIN w : w[i].kind \notin Going
Idling(p) == p.ConfirmHandler.kind \notin Waiting

\* Port p, strand w and the files A whose name is to be answered: nothing goes
\* on, or one handler does.
Free(p, w, A) == Still(w) /\ Idling(p) /\ A = {}
Answering(p, w, A) == Still(w) /\ Idling(p) /\ \E f \in Files : A = {f} /\ Linked(p, "answer", f)
Confirming(p, w, A) ==
    /\ Still(w) /\ A = {} /\ ~Idling(p) /\ p.ConfirmHandler.path \in Files
    /\ Linked(p, p.ConfirmHandler.kind, p.ConfirmHandler.path)
Reading(p, w, A) ==
    /\ Idling(p) /\ A = {}
    /\ \E i \in DOMAIN w : /\ w[i].kind \in Going /\ Linked(p, w[i].kind, w[i].arg)
                           /\ \A j \in DOMAIN w : w[j].kind \in Going => j = i
Chained(p, w, A) ==
    \/ Free(p, w, A)
    \/ p.in_progress /\ (Answering(p, w, A) \/ Confirming(p, w, A) \/ Reading(p, w, A))

\* Nothing takes a transfer for ended: no handler of the file before waits for a
\* confirmation, and the port is not enabled again.
Steady == ~setup.UseConfirms /\ setup.MaxTxDisables = 0

\* From p to q the transfer in progress is taken for ended, and something goes on.
Broken(p, q, w, A) == p.in_progress /\ ~q.in_progress /\ ~Free(q, w, A) /\ ~Steady

\* A step that does not do so.
Orderly == Steady \/ ~Abandons

-----------------------------------------------------------------------------
(* The receiver                                                            *)

ReceiverFields == {"enabled", "seq", "crc", "in_progress", "transfer_reset", "Filename", "fout",
                   "event_buffer", "TransferTimeoutTimer"}
Contents == Items \cup {Old} \cup {Item("absent", NoFile, 0)}

\* Events wait under their own index.
Buffered(b) ==
    /\ b \in [Index -> Seq(Octets)]
    /\ \A i \in Index : \A j \in DOMAIN b[i] : b[i][j].index = i

ReceiverOK(p) ==
    /\ DOMAIN p = ReceiverFields
    /\ p.in_progress \in BOOLEAN /\ p.transfer_reset \in BOOLEAN /\ p.fout \in BOOLEAN
    /\ p.seq \in Sequence /\ p.crc \in Seq(Items) /\ Buffered(p.event_buffer)

\* The first k chunks have been written.
Partly(f, s, k) ==
    IF setup.Mode = "APPEND"
    THEN /\ \A i \in DOMAIN s : Placed(f, s, i)
         /\ IF k = 0 THEN s = <<>> \/ Ends(s, Old) \/ Ends(s, Chunk(f, setup.Chunks[f]))
            ELSE Ends(s, Chunk(f, k))
    ELSE s = [i \in 1..k |-> Chunk(f, i)]

Rests(f, s) == s = Absent \/ Whole(f, s)

\* Files at rest are whole; that of the transfer in progress has what the chain
\* has brought, or is not written to.
Filed(p, d) ==
    /\ \A f \in Files : Rests(f, d[f]) \/ (p.in_progress /\ p.Filename = f)
    /\ ~p.in_progress => ~p.fout
    /\ p.in_progress =>
         /\ p.Filename \in Files
         /\ \E k \in 0..setup.Chunks[p.Filename] :
              /\ Ends(p.crc, At(p.Filename, k))
              /\ IF p.fout THEN Partly(p.Filename, d[p.Filename], k) ELSE Rests(p.Filename, d[p.Filename])

Got(p, files) == setup.UseConfirms => Done(p.crc) \subseteq files

-----------------------------------------------------------------------------
(* The inductive invariant                                                 *)

Messages(files) ==
    [kind : {"event"}, what : Octets] \cup [kind : {"confirm"}, what : Reports(files)]
    \cup [kind : {"answer"}, what : Files]
Awaited(b) == {f \in Files : Message("answer", f) \in BagToSet(b)}

\* A name is answered once.
Carries(b, files) ==
    /\ BagToSet(b) \subseteq Messages(files)
    /\ \A f \in Awaited(b) : b[Message("answer", f)] = 1

SenderInv ==
    /\ PortOK(tx) /\ Sent(tx) /\ strand \in Seq(Posted(received))
    /\ Chained(tx, strand, Awaited(net))
ReceiverInv ==
    /\ ReceiverOK(rx) /\ disk \in [Files -> Seq(Contents)] /\ received \subseteq Files
    /\ Filed(rx, disk) /\ Got(rx, received)
NetInv == Carries(net, received)

IInv == setup \in Setups /\ restarts \in Nat /\ disables \in Nat /\ (setup.UseCRCs => SenderInv /\ ReceiverInv /\ NetInv)

-----------------------------------------------------------------------------
(* Items, chains and messages                                              *)

LEMMA LeastNat ==
    ASSUME NEW S, S \subseteq Nat, S # {}
    PROVE  \E x \in S : \A y \in S : x <= y
<1> DEFINE Less == {p \in Nat \X Nat : p[1] < p[2]}
<1>1. IsWellFoundedOn(Less, Nat)
  BY NatLessThanWellFounded DEF OpToRel
<1>2. PICK x \in S : \A y \in S : <<y, x>> \notin Less
  <2> HIDE DEF Less
  <2> QED
    BY <1>1, WFMin
<1>3. ASSUME NEW y \in S PROVE x <= y
  <2>1. x \in Nat /\ y \in Nat /\ <<y, x>> \in Nat \X Nat /\ <<y, x>>[1] = y /\ <<y, x>>[2] = x
    OBVIOUS
  <2>2. ~(y < x)
    BY <1>2, <2>1
  <2> QED
    BY <2>1, <2>2
<1> QED
  BY <1>3

LEMMA NatSetInduction ==
    ASSUME NEW S, 0 \in S, \A n \in Nat : n \in S => n + 1 \in S
    PROVE  \A n \in Nat : n \in S
<1> DEFINE Bad == Nat \ S
<1>1. SUFFICES ASSUME Bad # {} PROVE FALSE
  OBVIOUS
<1>2. PICK x \in Bad : \A y \in Bad : x <= y
  <2>1. Bad \subseteq Nat
    OBVIOUS
  <2> HIDE DEF Bad
  <2> QED
    BY <1>1, <2>1, LeastNat
<1>3. x \in Nat /\ x # 0 /\ x - 1 \in Nat
  OBVIOUS
<1>4. x - 1 \in Bad /\ ~(x <= x - 1)
  BY <1>3
<1> QED
  BY <1>2, <1>4

LEMMA SetupFacts ==
    ASSUME setup \in Setups
    PROVE  /\ setup.Chunks \in [Files -> Nat] /\ setup.UseConfirms \in BOOLEAN /\ setup.UseCRCs \in BOOLEAN
           /\ \A f \in Files : setup.Chunks[f] \in Nat
BY SetupAssumption DEF SetupType

LEMMA SequenceFacts ==
    /\ \A i \in Sequence : i \in Index /\ i # NameIndex /\ i \in Nat
    /\ NameIndex \in Index /\ Start \in Sequence
    /\ \A i \in Sequence : (IF i = Stop THEN Start ELSE i + 1) \in Sequence
BY RangeAssumption DEF Sequence, Index, NameIndex

LEMMA AtFacts ==
    ASSUME NEW f \in Files, NEW k \in Nat
    PROVE  /\ At(f, k) \in Items /\ EOF \in Items /\ At(f, k) # EOF
           /\ k # 0 => At(f, k) = Chunk(f, k)
           /\ \A g \in Files, j \in Nat : At(f, k) = At(g, j) => f = g /\ k = j
           /\ \A g \in Files : At(f, k) = At(g, 0) => k = 0
BY DEF At, Items, Item, EOF, Chunk

LEMMA EndsAppend ==
    ASSUME NEW T, NEW s \in Seq(T), NEW x
    PROVE  /\ Ends(Append(s, x), x) /\ Append(s, x) # <<>> /\ Len(Append(s, x)) = Len(s) + 1
           /\ \A y : Ends(Append(s, x), y) => y = x
           /\ (x \in T => Append(s, x) \in Seq(T))
BY DEF Ends

LEMMA SeqGrows == ASSUME NEW S, NEW T, S \subseteq T, NEW s \in Seq(S) PROVE s \in Seq(T)
<1>1. Len(s) \in Nat /\ DOMAIN s = 1 .. Len(s) /\ \A i \in 1 .. Len(s) : s[i] \in S
  OBVIOUS
<1>2. s = [i \in 1 .. Len(s) |-> s[i]]
  BY <1>1
<1>3. \A i \in 1 .. Len(s) : s[i] \in T
  BY <1>1
<1> QED
  BY <1>1, <1>2, <1>3

\* An end that is taken over adds the file it ends, and nothing else adds one.
LEMMA DoneAppend ==
    ASSUME NEW crc \in Seq(Items), NEW x
    PROVE  /\ Done(crc) \subseteq Done(Append(crc, x))
           /\ \A f \in Files : x = EOF /\ Ends(crc, At(f, setup.Chunks[f])) => f \in Done(Append(crc, x))
           /\ \A f \in Done(Append(crc, x)) :
                 f \in Done(crc) \/ (x = EOF /\ Ends(crc, At(f, setup.Chunks[f])))
<1> DEFINE a == Append(crc, x)
           n == Len(crc)
<1>1. /\ n \in Nat /\ DOMAIN crc = 1 .. n /\ DOMAIN a = 1 .. n + 1 /\ a[n + 1] = x
      /\ \A i \in 1 .. n : a[i] = crc[i]
      /\ crc # <<>> => n \in 1 .. n
  OBVIOUS
<1> HIDE DEF a, n
<1>2. /\ \A i \in 1 .. n : i \in 1 .. n + 1
      /\ n + 1 \in 1 .. n + 1
      /\ \A i \in 1 .. n + 1 : i + 1 \in 1 .. n + 1 => i \in 1 .. n /\ (i = n \/ i + 1 \in 1 .. n)
  BY <1>1
<1>3. Done(crc) \subseteq Done(a)
  BY <1>1, <1>2, Zenon DEF Done
<1>4. ASSUME NEW f \in Files, x = EOF, Ends(crc, At(f, setup.Chunks[f])) PROVE f \in Done(a)
  <2>1. n \in 1 .. n /\ crc[n] = At(f, setup.Chunks[f])
    BY <1>1, <1>4 DEF Ends, n
  <2> QED
    BY <1>1, <1>2, <1>4, <2>1, Zenon DEF Done
<1>5. ASSUME NEW f \in Done(a) PROVE f \in Done(crc) \/ (x = EOF /\ Ends(crc, At(f, setup.Chunks[f])))
  <2>1. PICK i \in 1 .. n + 1 : i + 1 \in 1 .. n + 1 /\ a[i] = At(f, setup.Chunks[f]) /\ a[i + 1] = EOF /\ f \in Files
    BY <1>1, <1>5, Zenon DEF Done
  <2>2. i \in 1 .. n /\ a[i] = crc[i]
    BY <1>1, <1>2, <2>1, Zenon
  <2>3. CASE i + 1 \in 1 .. n
    BY <1>1, <2>1, <2>2, <2>3, Zenon DEF Done
  <2>4. CASE i = n
    <3>1. crc # <<>>
      <4>1. n # 0
        BY <2>2, <2>4
      <4>2. Len(<<>>) = 0
        OBVIOUS
      <4> QED
        BY <4>1, <4>2, Zenon DEF n
    <3> QED
      BY <1>1, <2>1, <2>2, <2>4, <3>1, Zenon DEF Ends, n
  <2> QED
    BY <1>2, <2>1, <2>3, <2>4, Zenon
<1> QED
  BY <1>3, <1>4, <1>5, Zenon DEF a

LEMMA DoneNothing == Done(<<>>) = {} /\ <<>> \in Seq(Items)
<1>1. DOMAIN <<>> = {}
  OBVIOUS
<1> QED
  BY <1>1 DEF Done

LEMMA OctetFacts ==
    ASSUME NEW e \in Octets
    PROVE  /\ e.index \in Index /\ e.item \in Items /\ e.crc \in Seq(Items) /\ Follows(e.crc, e.item)
           /\ e.index = NameIndex => \E f \in Files : e.item = At(f, 0)
           /\ e.index # NameIndex => ~\E f \in Files : e.item = At(f, 0)
BY DEF Octets

LEMMA OctetMade ==
    ASSUME NEW index \in Index, NEW item \in Items, NEW crc \in Seq(Items), Follows(crc, item),
           index = NameIndex <=> \E f \in Files : item = At(f, 0)
    PROVE  OctetString(index, item, crc) \in Octets
BY DEF Octets, OctetString

LEMMA PostedFacts ==
    ASSUME NEW R, NEW h \in Posted(R)
    PROVE  /\ h.kind \in {"try", "chunk", "answer", "trigger", "confirm", "timeout", "idle", "enable", "disable"}
           /\ h.kind \in {"chunk", "answer"} => h.arg \in Files
           /\ h.kind = "try" => h.arg \subseteq Files
           /\ h.kind = "trigger" => h.arg.path \in Files
           /\ h.kind = "confirm" => h.arg \in Reports(R)
           /\ h.kind = "enable" => setup.MaxTxDisables # 0
BY DEF Posted

LEMMA PostedMade ==
    ASSUME NEW R
    PROVE  /\ \A q \in SUBSET Files : [kind |-> "try", arg |-> q] \in Posted(R)
           /\ \A f \in Files : /\ [kind |-> "chunk", arg |-> f] \in Posted(R)
                               /\ [kind |-> "answer", arg |-> f] \in Posted(R)
           /\ \A m \in Reports(R) : [kind |-> "confirm", arg |-> m] \in Posted(R)
           /\ \A k \in {"timeout", "idle"} : [kind |-> k, arg |-> NoFile] \in Posted(R)
           /\ setup.MaxTxDisables # 0 =>
                 \A k \in {"enable", "disable"} : [kind |-> k, arg |-> NoFile] \in Posted(R)
           /\ \A f \in Files, b \in BOOLEAN :
                 [kind |-> "trigger", arg |-> [path |-> f, only_modified |-> b]] \in Posted(R)
BY DEF Posted

\* What has been received stays so.
LEMMA MoreReceived ==
    ASSUME NEW R, NEW Q, R \subseteq Q
    PROVE  Reports(R) \subseteq Reports(Q) /\ Posted(R) \subseteq Posted(Q) /\ Messages(R) \subseteq Messages(Q)
<1>1. Reports(R) \subseteq Reports(Q)
  BY DEF Reports
<1> QED
  BY <1>1 DEF Posted, Messages

-----------------------------------------------------------------------------
(* The sender's handlers: what each makes of the port's state s, which has *)
(* been told of the files R                                                *)

StateFields == {"port", "strand", "saved", "publish", "ask"}

SenderOK(s, R) ==
    /\ DOMAIN s = StateFields /\ PortOK(s.port) /\ Sent(s.port)
    /\ s.strand \in Seq(Posted(R)) /\ s.publish \in Seq(Octets)

\* Strand v has a handler more than w, if any, and that goes on with nothing.
Longer(R, w, v) == v = w \/ \E h \in Posted(R) : h.kind \notin Going /\ v = Append(w, h)

\* All of the port that says what goes on is as before.
Alike(p, q) ==
    /\ (p.in_progress <=> q.in_progress) /\ (p.transfer_reset <=> q.transfer_reset)
    /\ p.crc = q.crc /\ p.fin = q.fin
    /\ p.ConfirmHandler = q.ConfirmHandler \/ (Idling(p) /\ Idling(q))

LEMMA AlikeChained ==
    ASSUME NEW p, NEW q, NEW w, NEW A, Alike(p, q)
    PROVE  /\ Free(p, w, A) <=> Free(q, w, A)
           /\ Chained(p, w, A) => Chained(q, w, A)
BY DEF Alike, Free, Chained, Idling, Answering, Confirming, Reading, Linked

LEMMA LongerChained ==
    ASSUME NEW R, NEW w \in Seq(Posted(R)), NEW v, Longer(R, w, v)
    PROVE  /\ v \in Seq(Posted(R))
           /\ Still(w) <=> Still(v)
           /\ \A p, A : Free(p, w, A) <=> Free(p, v, A)
           /\ \A p, A : Chained(p, w, A) => Chained(p, v, A)
<1>1. CASE v = w
  BY <1>1
<1>2. ASSUME NEW h \in Posted(R), h.kind \notin Going, v = Append(w, h)
      PROVE  /\ v \in Seq(Posted(R))
             /\ Still(w) <=> Still(v)
             /\ \A p, A : Reading(p, w, A) => Reading(p, v, A)
  <2>1. /\ v \in Seq(Posted(R)) /\ Len(w) \in Nat /\ DOMAIN w = 1 .. Len(w) /\ DOMAIN v = 1 .. Len(w) + 1
        /\ v[Len(w) + 1] = h /\ \A i \in 1 .. Len(w) : v[i] = w[i]
    BY <1>2
  <2>2. /\ \A i \in 1 .. Len(w) : i \in 1 .. Len(w) + 1
        /\ \A i \in 1 .. Len(w) + 1 : i \in 1 .. Len(w) \/ i = Len(w) + 1
    BY <2>1
  <2>3. Still(w) <=> Still(v)
    BY <1>2, <2>1, <2>2 DEF Still
  <2>4. ASSUME NEW p, NEW A, Reading(p, w, A) PROVE Reading(p, v, A)
    <3>1. PICK i \in 1 .. Len(w) : /\ w[i].kind \in Going /\ Linked(p, w[i].kind, w[i].arg)
                                   /\ \A j \in 1 .. Len(w) : w[j].kind \in Going => j = i
      BY <2>1, <2>4 DEF Reading
    <3>2. i \in 1 .. Len(w) + 1 /\ v[i] = w[i]
      BY <2>1, <2>2
    <3>3. \A j \in 1 .. Len(w) + 1 : v[j].kind \in Going => j = i
      BY <1>2, <2>1, <2>2, <3>1
    <3>4. v[i].kind \in Going /\ Linked(p, v[i].kind, v[i].arg)
      BY <3>1, <3>2
    <3> QED
      BY <2>1, <2>4, <3>2, <3>3, <3>4 DEF Reading
  <2> QED
    BY <2>1, <2>3, <2>4
<1>3. CASE v # w
  <2>1. PICK h \in Posted(R) : h.kind \notin Going /\ v = Append(w, h)
    BY <1>3 DEF Longer
  <2>2. /\ v \in Seq(Posted(R))
        /\ Still(w) <=> Still(v)
        /\ \A p, A : Reading(p, w, A) => Reading(p, v, A)
    BY <1>2, <2>1
  <2> QED
    BY <2>2, Zenon DEF Free, Chained, Answering, Confirming
<1> QED
  BY <1>1, <1>3

\* What a handler may make of the port p.
Outcome(p, q, w, A) == Chained(q, w, A) \/ Broken(p, q, w, A)

LEMMA SameOutcome ==
    ASSUME NEW R, NEW w \in Seq(Posted(R)), NEW v, Longer(R, w, v), NEW A, NEW p, NEW q, NEW r, Alike(q, r),
           Outcome(p, q, w, A)
    PROVE  Outcome(p, r, v, A)
<1>1. /\ Free(q, w, A) <=> Free(q, v, A)
      /\ Chained(q, w, A) => Chained(q, v, A)
  BY LongerChained
<1>2. /\ Free(q, v, A) <=> Free(r, v, A)
      /\ Chained(q, v, A) => Chained(r, v, A)
  BY AlikeChained
<1> QED
  BY <1>1, <1>2 DEF Outcome, Broken, Alike

LEMMA PostFacts ==
    ASSUME NEW s, DOMAIN s = StateFields, NEW kind, NEW arg, NEW t, t = Post(s, kind, arg)
    PROVE  /\ DOMAIN t = StateFields /\ t.port = s.port /\ t.publish = s.publish /\ t.ask = s.ask
           /\ t.saved = s.saved /\ t.strand = Append(s.strand, [kind |-> kind, arg |-> arg])
BY DEF StateFields, Post

LEMMA PostNextFacts ==
    ASSUME NEW R, NEW s, DOMAIN s = StateFields, s.port.filename_q \subseteq Files, NEW t, t = PostNext(s)
    PROVE  /\ DOMAIN t = StateFields /\ t.port = s.port /\ t.publish = s.publish /\ t.ask = s.ask
           /\ Longer(R, s.strand, t.strand)
<1>1. CASE s.port.filename_q = {}
  BY <1>1 DEF PostNext, Longer
<1>2. CASE s.port.filename_q # {}
  <2> DEFINE q == s.port.filename_q
             h == [kind |-> "try", arg |-> q]
  <2>1. q \in SUBSET Files
    OBVIOUS
  <2>2. t = Post(s, "try", q)
    BY <1>2 DEF PostNext
  <2> HIDE DEF q
  <2>3. h \in Posted(R) /\ h.kind \notin Going
    BY <2>1, PostedMade DEF Going
  <2>4. /\ DOMAIN t = StateFields /\ t.port = s.port /\ t.publish = s.publish /\ t.ask = s.ask
        /\ t.strand = Append(s.strand, h)
    BY <2>2, PostFacts
  <2> QED
    BY <2>3, <2>4 DEF Longer
<1> QED
  BY <1>1, <1>2

LEMMA SendFacts ==
    ASSUME setup \in Setups, setup.UseCRCs, NEW R, NEW s, SenderOK(s, R),
           NEW index, NEW item \in Items, OctetString(index, item, s.port.crc) \in Octets,
           NEW t, t = Send(s, index, item)
    PROVE  /\ SenderOK(t, R) /\ t.strand = s.strand /\ t.ask = s.ask /\ t.saved = s.saved
           /\ t.port.crc = Append(s.port.crc, item)
           /\ t.port.in_progress = s.port.in_progress /\ t.port.transfer_reset = s.port.transfer_reset
           /\ t.port.fin = s.port.fin /\ t.port.ConfirmHandler = s.port.ConfirmHandler
           /\ t.port.enabled = s.port.enabled /\ t.port.seq = s.port.seq /\ t.port.filename_q = s.port.filename_q
           /\ t.port.unconfirmed = s.port.unconfirmed
<1> DEFINE e == OctetString(index, item, s.port.crc)
           crc == Append(s.port.crc, item)
           buffer == IF setup.UseConfirms THEN Append(s.port.event_buffer, e) ELSE s.port.event_buffer
           publish == Append(s.publish, e)
<1>1. /\ DOMAIN s = StateFields /\ DOMAIN s.port = PortFields
      /\ s.port.crc \in Seq(Items) /\ s.port.event_buffer \in Seq(Octets) /\ s.publish \in Seq(Octets)
  BY DEF SenderOK, PortOK
<1>2. crc \in Seq(Items) /\ buffer \in Seq(Octets) /\ publish \in Seq(Octets)
  BY <1>1
<1>3. s.port.unconfirmed \subseteq (IF setup.UseConfirms THEN Done(crc) ELSE {})
  <2>1. Done(s.port.crc) \subseteq Done(crc)
    BY <1>1, DoneAppend
  <2> QED
    BY <2>1 DEF SenderOK, Sent
<1>4. TakeCRC(s.port.crc, item) = crc
  BY DEF TakeCRC
<1> HIDE DEF e, crc, buffer, publish
<1>5. t = [s EXCEPT !.port = [s.port EXCEPT !.event_buffer = buffer, !.crc = crc], !.publish = publish]
  BY <1>1, <1>4 DEF Send, TXBufferPublishEvent, e, buffer, publish, StateFields, PortFields
<1>6. /\ DOMAIN t = StateFields /\ t.strand = s.strand /\ t.ask = s.ask /\ t.saved = s.saved /\ t.publish = publish
      /\ t.port = [s.port EXCEPT !.event_buffer = buffer, !.crc = crc]
  BY <1>1, <1>5 DEF StateFields
<1>7. /\ DOMAIN t.port = PortFields /\ t.port.crc = crc /\ t.port.event_buffer = buffer
      /\ t.port.in_progress = s.port.in_progress /\ t.port.transfer_reset = s.port.transfer_reset
      /\ t.port.fin = s.port.fin /\ t.port.ConfirmHandler = s.port.ConfirmHandler
      /\ t.port.enabled = s.port.enabled /\ t.port.seq = s.port.seq /\ t.port.filename_q = s.port.filename_q
      /\ t.port.unconfirmed = s.port.unconfirmed
  BY <1>1, <1>6 DEF PortFields
<1>8. SenderOK(t, R)
  BY <1>2, <1>3, <1>6, <1>7 DEF SenderOK, PortOK, Sent
<1> QED
  BY <1>6, <1>7, <1>8 DEF crc

LEMMA CheckQueueFacts ==
    ASSUME setup \in Setups, NEW R, NEW s, SenderOK(s, R), NEW t, t = CheckQueue(s)
    PROVE  /\ SenderOK(t, R) /\ Longer(R, s.strand, t.strand) /\ t.ask = s.ask
           /\ t.port.crc = s.port.crc /\ t.port.fin = s.port.fin /\ t.port.ConfirmHandler = s.port.ConfirmHandler
           /\ t.port.filename_q = s.port.filename_q /\ t.port.unconfirmed = s.port.unconfirmed
           /\ ~s.port.enabled => t = s
           /\ s.port.enabled => /\ t.port.in_progress <=> s.port.in_progress /\ ~s.port.transfer_reset
                               /\ ~t.port.transfer_reset
<1>1. CASE ~s.port.enabled
  BY <1>1 DEF CheckQueue, Longer
<1>2. CASE s.port.enabled
  <2> DEFINE going == s.port.in_progress /\ ~s.port.transfer_reset
             q == [s.port EXCEPT !.in_progress = going, !.transfer_reset = FALSE]
             done == [s EXCEPT !.port = q]
  <2>1. DOMAIN s = StateFields /\ DOMAIN s.port = PortFields /\ going \in BOOLEAN
    BY DEF SenderOK, PortOK
  <2> HIDE DEF going
  <2>2. /\ DOMAIN q = PortFields /\ q.crc = s.port.crc /\ q.fin = s.port.fin
        /\ q.ConfirmHandler = s.port.ConfirmHandler /\ q.filename_q = s.port.filename_q
        /\ q.unconfirmed = s.port.unconfirmed /\ q.seq = s.port.seq /\ q.event_buffer = s.port.event_buffer
        /\ q.in_progress = going /\ q.transfer_reset = FALSE
    BY <2>1 DEF PortFields
  <2>3. \/ s.port.filename_q # {} /\ t = PostNext(done)
        \/ t = [done EXCEPT !.saved = IF OnDisk THEN s.port.ModTimes ELSE @]
    BY <1>2, <2>1 DEF CheckQueue, StateFields, PortFields, going
  <2> HIDE DEF q
  <2>4. /\ DOMAIN done = StateFields /\ done.port = q /\ done.strand = s.strand /\ done.ask = s.ask
        /\ done.publish = s.publish
    BY <2>1 DEF StateFields
  <2> HIDE DEF done
  <2>5. q.filename_q \subseteq Files
    BY <2>2 DEF SenderOK, PortOK
  <2>6. /\ DOMAIN t = StateFields /\ t.port = q /\ Longer(R, s.strand, t.strand) /\ t.ask = s.ask
        /\ t.publish = s.publish
    <3>1. CASE t = PostNext(done)
      BY <2>4, <2>5, <3>1, PostNextFacts
    <3>2. CASE t = [done EXCEPT !.saved = IF OnDisk THEN s.port.ModTimes ELSE @]
      BY <2>4, <3>2 DEF StateFields, Longer
    <3> QED
      BY <2>3, <3>1, <3>2
  <2>7. s.strand \in Seq(Posted(R)) /\ t.strand \in Seq(Posted(R))
    <3>1. s.strand \in Seq(Posted(R))
      BY DEF SenderOK
    <3> QED
      BY <2>6, <3>1, LongerChained
  <2>8. SenderOK(t, R)
    BY <2>1, <2>2, <2>6, <2>7 DEF SenderOK, PortOK, Sent
  <2> QED
    BY <1>2, <2>2, <2>6, <2>8 DEF going
<1> QED
  BY <1>1, <1>2

LEMMA BumpFacts ==
    ASSUME NEW s, DOMAIN s = StateFields, DOMAIN s.port = PortFields, s.port.seq \in Sequence,
           NEW t, t = BumpSequence(s)
    PROVE  /\ DOMAIN t = StateFields /\ DOMAIN t.port = PortFields
           /\ t.strand = s.strand /\ t.ask = s.ask /\ t.saved = s.saved /\ t.publish = s.publish
           /\ t.port.seq \in Sequence /\ t.port.crc = s.port.crc /\ t.port.event_buffer = s.port.event_buffer
           /\ t.port.in_progress = s.port.in_progress /\ t.port.transfer_reset = s.port.transfer_reset
           /\ t.port.fin = s.port.fin /\ t.port.ConfirmHandler = s.port.ConfirmHandler
           /\ t.port.enabled = s.port.enabled /\ t.port.filename_q = s.port.filename_q
           /\ t.port.unconfirmed = s.port.unconfirmed
<1> DEFINE seq == IF s.port.seq = Stop THEN Start ELSE s.port.seq + 1
<1>1. seq \in Sequence
  BY SequenceFacts
<1>2. t = [s EXCEPT !.port = [s.port EXCEPT !.seq = seq]]
  BY DEF BumpSequence, StateFields, PortFields
<1> HIDE DEF seq
<1>3. /\ DOMAIN t = StateFields /\ t.port = [s.port EXCEPT !.seq = seq]
      /\ t.strand = s.strand /\ t.ask = s.ask /\ t.saved = s.saved /\ t.publish = s.publish
  BY <1>2 DEF StateFields
<1> QED
  BY <1>1, <1>3 DEF PortFields

LEMMA AwaitFacts ==
    ASSUME setup.UseConfirms, NEW R, NEW s, SenderOK(s, R), NEW action, NEW t, t = Await(s, action)
    PROVE  /\ SenderOK(t, R) /\ t.strand = s.strand /\ t.ask = s.ask
           /\ t.port.ConfirmHandler = action
           /\ t.port.crc = s.port.crc /\ t.port.fin = s.port.fin
           /\ t.port.in_progress = s.port.in_progress /\ t.port.transfer_reset = s.port.transfer_reset
<1>1. DOMAIN s = StateFields /\ DOMAIN s.port = PortFields
  BY DEF SenderOK, PortOK
<1>2. t = [s EXCEPT !.port = [s.port EXCEPT !.ConfirmHandler = action, !.ConfirmTimer = TRUE]]
  BY <1>1 DEF Await, StateFields, PortFields
<1>3. /\ DOMAIN t = StateFields /\ t.strand = s.strand /\ t.ask = s.ask /\ t.publish = s.publish
      /\ t.port = [s.port EXCEPT !.ConfirmHandler = action, !.ConfirmTimer = TRUE]
  BY <1>1, <1>2 DEF StateFields
<1>4. /\ DOMAIN t.port = PortFields /\ t.port.ConfirmHandler = action
      /\ t.port.seq = s.port.seq /\ t.port.crc = s.port.crc /\ t.port.event_buffer = s.port.event_buffer
      /\ t.port.transfer_reset = s.port.transfer_reset /\ t.port.in_progress = s.port.in_progress
      /\ t.port.fin = s.port.fin /\ t.port.filename_q = s.port.filename_q
      /\ t.port.unconfirmed = s.port.unconfirmed
  BY <1>1, <1>3 DEF PortFields
<1>5. SenderOK(t, R)
  BY <1>3, <1>4 DEF SenderOK, PortOK, Sent
<1> QED
  BY <1>3, <1>4, <1>5

\* The end of a file, where nothing else goes on.
LEMMA SendEOFFacts ==
    ASSUME setup \in Setups, setup.UseCRCs, NEW R, NEW s, SenderOK(s, R),
           NEW path \in Files, Linked(s.port, "eof", path), Still(s.strand), NEW t, t = SendEOF(s, path)
    PROVE  /\ SenderOK(t, R) /\ Still(t.strand) /\ t.ask = s.ask
           /\ t.port.fin = s.port.fin
           /\ t.port.ConfirmHandler \in {s.port.ConfirmHandler, [kind |-> "files", path |-> NoFile]}
           /\ s.port.transfer_reset => /\ t.port.filename_q = s.port.filename_q
                                       /\ t.port.unconfirmed = s.port.unconfirmed
<1>0. /\ DOMAIN s = StateFields /\ DOMAIN s.port = PortFields /\ s.port.transfer_reset \in BOOLEAN
      /\ s.strand \in Seq(Posted(R)) /\ s.port.crc \in Seq(Items) /\ s.port.seq \in Sequence
      /\ s.port.filename_q \subseteq Files
  BY DEF SenderOK, PortOK
<1>1. CASE s.port.transfer_reset
  <2>1. t = CheckQueue(s)
    BY <1>1 DEF SendEOF
  <2>2. /\ SenderOK(t, R) /\ Longer(R, s.strand, t.strand) /\ t.ask = s.ask
        /\ t.port.fin = s.port.fin /\ t.port.ConfirmHandler = s.port.ConfirmHandler
        /\ t.port.filename_q = s.port.filename_q /\ t.port.unconfirmed = s.port.unconfirmed
    BY <2>1, CheckQueueFacts
  <2>3. Still(t.strand)
    BY <1>0, <2>2, LongerChained
  <2> QED
    BY <2>2, <2>3
<1>2. CASE ~s.port.transfer_reset
  <2> DEFINE sent == Send(s, s.port.seq, EOF)
             bumped == BumpSequence(sent)
             moved == IF setup.UseConfirms THEN {path} \cap s.port.filename_q ELSE {}
             done == [bumped EXCEPT !.port.unconfirmed = @ \cup moved, !.port.filename_q = @ \ {path},
                                    !.port.in_progress = FALSE]
             files == [kind |-> "files", path |-> NoFile]
             unconfirmed == bumped.port.unconfirmed \cup moved
             queue == bumped.port.filename_q \ {path}
  <2>1. t = IF MustConfirm(done) THEN Await(done, files) ELSE CheckQueue(done)
    BY <1>2 DEF SendEOF
  <2>2. EOF \in Items /\ Ends(s.port.crc, At(path, setup.Chunks[path])) /\ Follows(s.port.crc, EOF)
    <3>1. EOF \in Items
      BY AtFacts
    <3>2. Ends(s.port.crc, At(path, setup.Chunks[path]))
      BY <1>2 DEF Linked
    <3> QED
      BY <3>1, <3>2 DEF Follows
  <2>3. \A f \in Files : EOF # At(f, 0)
    BY AtFacts
  <2>4. OctetString(s.port.seq, EOF, s.port.crc) \in Octets
    BY <1>0, <2>2, <2>3, SequenceFacts, OctetMade
  <2>5. /\ SenderOK(sent, R) /\ sent.strand = s.strand /\ sent.ask = s.ask
        /\ sent.port.crc = Append(s.port.crc, EOF)
        /\ sent.port.transfer_reset = s.port.transfer_reset
        /\ sent.port.fin = s.port.fin /\ sent.port.ConfirmHandler = s.port.ConfirmHandler
        /\ sent.port.filename_q = s.port.filename_q /\ sent.port.unconfirmed = s.port.unconfirmed
    BY <2>2, <2>4, SendFacts
  <2> HIDE DEF sent, moved
  <2>6. /\ DOMAIN sent = StateFields /\ DOMAIN sent.port = PortFields /\ sent.port.seq \in Sequence
    BY <2>5 DEF SenderOK, PortOK
  <2>7. /\ DOMAIN bumped = StateFields /\ DOMAIN bumped.port = PortFields
        /\ bumped.strand = s.strand /\ bumped.ask = s.ask /\ bumped.publish = sent.publish
        /\ bumped.port.seq \in Sequence /\ bumped.port.crc = sent.port.crc
        /\ bumped.port.event_buffer = sent.port.event_buffer
        /\ bumped.port.transfer_reset = s.port.transfer_reset
        /\ bumped.port.fin = s.port.fin /\ bumped.port.ConfirmHandler = s.port.ConfirmHandler
        /\ bumped.port.filename_q = s.port.filename_q /\ bumped.port.unconfirmed = s.port.unconfirmed
    BY <2>5, <2>6, BumpFacts
  <2> HIDE DEF bumped
  <2> DEFINE q == [bumped.port EXCEPT !.unconfirmed = unconfirmed, !.filename_q = queue, !.in_progress = FALSE]
  <2>8. /\ DOMAIN done = StateFields /\ done.strand = s.strand /\ done.ask = s.ask /\ done.publish = sent.publish
        /\ done.port = q
    BY <2>7 DEF StateFields, PortFields
  <2> HIDE DEF unconfirmed, queue, done
  <2>9. /\ DOMAIN done.port = PortFields
        /\ done.port.seq \in Sequence /\ done.port.crc = sent.port.crc
        /\ done.port.event_buffer = sent.port.event_buffer
        /\ done.port.transfer_reset = s.port.transfer_reset
        /\ done.port.fin = s.port.fin /\ done.port.ConfirmHandler = s.port.ConfirmHandler
        /\ done.port.filename_q = queue /\ done.port.in_progress = FALSE
        /\ done.port.unconfirmed = unconfirmed
    BY <2>7, <2>8 DEF PortFields
  <2> HIDE DEF q
  <2>10. done.port.unconfirmed \subseteq (IF setup.UseConfirms THEN Done(sent.port.crc) ELSE {})
    <3>1. path \in Done(sent.port.crc)
      BY <1>0, <2>2, <2>5, DoneAppend
    <3>2. sent.port.unconfirmed \subseteq (IF setup.UseConfirms THEN Done(sent.port.crc) ELSE {})
      BY <2>5 DEF SenderOK, Sent
    <3> QED
      BY <2>5, <2>7, <2>9, <3>1, <3>2 DEF moved, unconfirmed
  <2>11. SenderOK(done, R)
    <3>1. PortOK(done.port)
      BY <1>0, <2>5, <2>7, <2>9 DEF SenderOK, PortOK, queue
    <3>2. Sent(done.port)
      BY <2>9, <2>10 DEF Sent
    <3> QED
      BY <1>0, <2>5, <2>8, <3>1, <3>2 DEF SenderOK
  <2>12. CASE MustConfirm(done)
    <3> HIDE DEF files
    <3>1. t = Await(done, files)
      BY <2>1, <2>12
    <3>2. /\ SenderOK(t, R) /\ t.strand = done.strand /\ t.ask = done.ask
          /\ t.port.ConfirmHandler = files /\ t.port.fin = done.port.fin
      <4>1. setup.UseConfirms
        BY <2>12 DEF MustConfirm
      <4> QED
        BY <2>11, <3>1, <4>1, AwaitFacts
    <3> QED
      BY <1>2, <2>8, <2>9, <3>2 DEF files
  <2>13. CASE ~MustConfirm(done)
    <3>1. t = CheckQueue(done)
      BY <2>1, <2>13
    <3>2. /\ SenderOK(t, R) /\ Longer(R, done.strand, t.strand) /\ t.ask = done.ask
          /\ t.port.fin = done.port.fin /\ t.port.ConfirmHandler = done.port.ConfirmHandler
      BY <2>11, <3>1, CheckQueueFacts
    <3>3. Still(t.strand)
      BY <1>0, <2>8, <3>2, LongerChained
    <3> QED
      BY <1>2, <2>8, <2>9, <3>2, <3>3
  <2> QED
    BY <2>12, <2>13
<1> QED
  BY <1>0, <1>1, <1>2

LEMMA PostGoing ==
    ASSUME NEW R, NEW s, SenderOK(s, R), NEW f \in Files, Free(s.port, s.strand, {}), NEW kind \in Going,
           Linked(s.port, kind, f), NEW t, t = Post(s, kind, f)
    PROVE  SenderOK(t, R) /\ t.ask = s.ask /\ t.port = s.port /\ Reading(t.port, t.strand, {})
<1> DEFINE h == [kind |-> kind, arg |-> f]
           w == s.strand
<1>1. /\ DOMAIN t = StateFields /\ t.port = s.port /\ t.publish = s.publish /\ t.ask = s.ask
      /\ t.strand = Append(w, h)
  BY PostFacts DEF SenderOK
<1>2. h \in Posted(R) /\ h.kind = kind /\ h.arg = f
  BY PostedMade DEF Going
<1>3. w \in Seq(Posted(R)) /\ Still(w)
  BY DEF SenderOK, Free
<1> HIDE DEF h, w
<1>4. /\ t.strand \in Seq(Posted(R)) /\ Len(w) \in Nat /\ DOMAIN w = 1 .. Len(w) /\ DOMAIN t.strand = 1 .. Len(w) + 1
      /\ t.strand[Len(w) + 1] = h /\ \A i \in 1 .. Len(w) : t.strand[i] = w[i]
  BY <1>1, <1>2, <1>3
<1>5. /\ Len(w) + 1 \in 1 .. Len(w) + 1
      /\ \A i \in 1 .. Len(w) + 1 : i \in 1 .. Len(w) \/ i = Len(w) + 1
  BY <1>4
<1>6. \A j \in 1 .. Len(w) + 1 : t.strand[j].kind \in Going => j = Len(w) + 1
  BY <1>3, <1>4, <1>5 DEF Still
<1>7. t.strand[Len(w) + 1].kind \in Going /\ Linked(t.port, t.strand[Len(w) + 1].kind, t.strand[Len(w) + 1].arg)
  BY <1>1, <1>2, <1>4
<1>8. Reading(t.port, t.strand, {})
  BY <1>1, <1>4, <1>5, <1>6, <1>7 DEF Reading, Free
<1> QED
  BY <1>1, <1>4, <1>8 DEF SenderOK

\* The next chunk of the file, by the handler that goes on with it.
LEMMA SendChunkFacts ==
    ASSUME setup \in Setups, setup.UseCRCs, NEW R, NEW s, SenderOK(s, R),
           NEW path \in Files, Free(s.port, s.strand, {}), s.port.in_progress = TRUE,
           Linked(s.port, "chunk", path),
           NEW t, t = SendChunk(s, path)
    PROVE  SenderOK(t, R) /\ t.ask = s.ask /\ Chained(t.port, t.strand, {})
<1> DEFINE fin == s.port.fin
           there == fin.good /\ fin.path # NoFile /\ fin.pos < setup.Chunks[fin.path]
           more == fin.pos + 1 < setup.Chunks[fin.path] \/ fin.path \in setup.Exact
<1>0. /\ DOMAIN s = StateFields /\ DOMAIN s.port = PortFields /\ DOMAIN fin = StreamFields
      /\ s.port.crc \in Seq(Items) /\ s.port.seq \in Sequence /\ fin.pos \in Nat
      /\ setup.Chunks[path] \in Nat /\ path # NoFile
      /\ Still(s.strand) /\ Idling(s.port)
  BY SetupFacts, RangeAssumption DEF SenderOK, PortOK, Free
<1>1. CASE s.port.transfer_reset \/ ~there
  <2> DEFINE q == [s.port EXCEPT !.fin = Closed]
             c == [s EXCEPT !.port = q]
  <2>1. t = SendEOF(c, path)
    BY <1>0, <1>1 DEF SendChunk, StateFields, PortFields
  <2>2. /\ DOMAIN q = PortFields /\ q.fin = Closed /\ q.crc = s.port.crc
        /\ q.in_progress = s.port.in_progress /\ q.transfer_reset = s.port.transfer_reset
        /\ q.ConfirmHandler = s.port.ConfirmHandler /\ q.seq = s.port.seq /\ q.filename_q = s.port.filename_q
        /\ q.unconfirmed = s.port.unconfirmed /\ q.event_buffer = s.port.event_buffer
    BY <1>0 DEF PortFields
  <2> HIDE DEF q
  <2>3. /\ DOMAIN c = StateFields /\ c.port = q /\ c.strand = s.strand /\ c.ask = s.ask /\ c.publish = s.publish
    BY <1>0 DEF StateFields
  <2> HIDE DEF c
  <2>4. DOMAIN Closed = StreamFields /\ Closed.pos = 0 /\ 0 \in Nat
    BY DEF Closed, StreamFields
  <2>5. SenderOK(c, R)
    BY <2>2, <2>3, <2>4 DEF SenderOK, PortOK, Sent
  <2>6. Linked(c.port, "eof", path)
    <3>1. CASE s.port.transfer_reset
      BY <2>2, <2>3, <3>1 DEF Linked
    <3>2. CASE ~s.port.transfer_reset
      <4>1. fin.path = path /\ fin.good /\ fin.pos <= setup.Chunks[path] /\ Ends(s.port.crc, At(path, fin.pos))
        BY <3>2 DEF Linked
      <4>2. fin.pos = setup.Chunks[path]
        BY <1>0, <1>1, <3>2, <4>1
      <4> QED
        BY <2>2, <2>3, <4>1, <4>2 DEF Linked
    <3> QED
      BY <3>1, <3>2
  <2>7. /\ SenderOK(t, R) /\ Still(t.strand) /\ t.ask = c.ask
        /\ t.port.ConfirmHandler \in {c.port.ConfirmHandler, [kind |-> "files", path |-> NoFile]}
    BY <1>0, <2>1, <2>3, <2>5, <2>6, SendEOFFacts
  <2>8. Idling(t.port)
    BY <1>0, <2>2, <2>3, <2>7 DEF Idling, Waiting
  <2> QED
    BY <2>3, <2>7, <2>8 DEF Chained, Free
<1>2. CASE ~s.port.transfer_reset /\ there
  <2>0. PICK item : item = Item("data", fin.path, fin.pos + 1)
    OBVIOUS
  <2> DEFINE sent == Send(s, s.port.seq, item)
             bumped == BumpSequence(sent)
             newfin == IF more THEN [fin EXCEPT !.pos = fin.pos + 1] ELSE Closed
             q == [bumped.port EXCEPT !.fin = newfin]
             next == [bumped EXCEPT !.port = q]
             action == [kind |-> IF more THEN "chunk" ELSE "eof", path |-> path]
  <2>1. fin.path = path /\ fin.good /\ fin.pos <= setup.Chunks[path] /\ Ends(s.port.crc, At(path, fin.pos))
    BY <1>2 DEF Linked
  <2>2. /\ fin.pos + 1 \in Nat /\ fin.pos + 1 \in 1 .. setup.Chunks[path] /\ (fin.pos + 1) - 1 = fin.pos
        /\ fin.pos + 1 # 0 /\ (~more => fin.pos + 1 = setup.Chunks[path])
    BY <1>0, <1>2, <2>1
  <2>3. /\ item \in Items /\ item = Chunk(path, fin.pos + 1) /\ item = At(path, fin.pos + 1)
        /\ \A f \in Files : item # At(f, 0)
    <3>1. item = Chunk(path, fin.pos + 1)
      BY <2>0, <2>1 DEF Chunk
    <3>2. At(path, fin.pos + 1) = Chunk(path, fin.pos + 1) /\ At(path, fin.pos + 1) \in Items
      BY <2>2, AtFacts
    <3>3. \A f \in Files : At(path, fin.pos + 1) # At(f, 0)
      BY <2>2, AtFacts
    <3> QED
      BY <3>1, <3>2, <3>3
  <2>4. Follows(s.port.crc, item)
    <3>1. Ends(s.port.crc, At(path, (fin.pos + 1) - 1)) /\ fin.pos + 1 \in 1 .. setup.Chunks[path]
      BY <2>1, <2>2
    <3>2. \E k \in 1 .. setup.Chunks[path] : item = Chunk(path, k) /\ Ends(s.port.crc, At(path, k - 1))
      <4> DEFINE k == fin.pos + 1
      <4>1. k \in 1 .. setup.Chunks[path] /\ Ends(s.port.crc, At(path, k - 1))
        BY <3>1, Zenon
      <4>2. item = Chunk(path, k)
        BY <2>3, Zenon
      <4> HIDE DEF k
      <4> QED
        BY <4>1, <4>2
    <3> QED
      BY <3>2, Zenon DEF Follows
  <2>5. OctetString(s.port.seq, item, s.port.crc) \in Octets
    BY <1>0, <2>3, <2>4, SequenceFacts, OctetMade
  <2>6. /\ SenderOK(sent, R) /\ sent.strand = s.strand /\ sent.ask = s.ask
        /\ sent.port.crc = Append(s.port.crc, item)
        /\ sent.port.in_progress = s.port.in_progress /\ sent.port.transfer_reset = s.port.transfer_reset
        /\ sent.port.fin = s.port.fin /\ sent.port.ConfirmHandler = s.port.ConfirmHandler
    <3>1. item \in Items
      BY <2>3
    <3> HIDE DEF fin, there, more
    <3> QED
      BY <2>5, <3>1, SendFacts
  <2>7. t = IF MustConfirm(next) THEN Await(next, action) ELSE RunHandler(next, action)
    <3>1. /\ DOMAIN sent = StateFields /\ DOMAIN sent.port = PortFields /\ sent.port.seq \in Sequence
      BY <2>6 DEF SenderOK, PortOK
    <3>2. DOMAIN bumped = StateFields /\ DOMAIN bumped.port = PortFields /\ bumped.port.fin = fin
      BY <2>6, <3>1, BumpFacts
    <3> DEFINE nx == [bumped EXCEPT !.port.fin = IF more THEN [fin EXCEPT !.pos = fin.pos + 1] ELSE Closed]
    <3>3. t = IF MustConfirm(nx) THEN Await(nx, action) ELSE RunHandler(nx, action)
      BY <1>2, <2>0 DEF SendChunk
    <3>4. nx = next
      <4> HIDE DEF bumped, more, fin
      <4>1. nx = [bumped EXCEPT !.port.fin = newfin]
        OBVIOUS
      <4> HIDE DEF newfin
      <4> QED
        BY <3>2, <4>1 DEF StateFields, PortFields
    <3> QED
      BY <3>3, <3>4
  <2> HIDE DEF sent
  <2>8. /\ DOMAIN sent = StateFields /\ DOMAIN sent.port = PortFields /\ sent.port.seq \in Sequence
    BY <2>6 DEF SenderOK, PortOK
  <2>9. /\ DOMAIN bumped = StateFields /\ DOMAIN bumped.port = PortFields
        /\ bumped.strand = s.strand /\ bumped.ask = s.ask /\ bumped.publish = sent.publish
        /\ bumped.port.seq \in Sequence /\ bumped.port.crc = sent.port.crc
        /\ bumped.port.event_buffer = sent.port.event_buffer
        /\ bumped.port.in_progress = s.port.in_progress /\ bumped.port.transfer_reset = s.port.transfer_reset
        /\ bumped.port.ConfirmHandler = s.port.ConfirmHandler
        /\ bumped.port.filename_q = sent.port.filename_q /\ bumped.port.unconfirmed = sent.port.unconfirmed
    BY <2>6, <2>8, BumpFacts
  <2> HIDE DEF bumped, more
  <2>10. /\ DOMAIN newfin = StreamFields /\ newfin.pos \in Nat
         /\ more => newfin.path = path /\ newfin.good /\ newfin.pos = fin.pos + 1
    BY <1>0, <2>1, <2>2 DEF Closed, StreamFields
  <2> HIDE DEF newfin, fin
  <2>11. /\ DOMAIN q = PortFields /\ q.fin = newfin
         /\ q.seq \in Sequence /\ q.crc = sent.port.crc
         /\ q.event_buffer = sent.port.event_buffer
         /\ q.in_progress = s.port.in_progress /\ q.transfer_reset = s.port.transfer_reset
         /\ q.ConfirmHandler = s.port.ConfirmHandler
         /\ q.filename_q = sent.port.filename_q /\ q.unconfirmed = sent.port.unconfirmed
    BY <2>9 DEF PortFields
  <2> HIDE DEF q
  <2>12. /\ DOMAIN next = StateFields /\ next.port = q /\ next.strand = s.strand /\ next.ask = s.ask
         /\ next.publish = sent.publish
    BY <2>9 DEF StateFields
  <2> HIDE DEF next
  <2>13. SenderOK(next, R)
    <3>1. PortOK(next.port)
      BY <2>6, <2>10, <2>11, <2>12 DEF SenderOK, PortOK
    <3>2. Sent(next.port)
      BY <2>6, <2>11, <2>12 DEF SenderOK, Sent
    <3> QED
      BY <2>6, <2>12, <3>1, <3>2 DEF SenderOK
  <2>14. Free(next.port, next.strand, {}) /\ next.port.in_progress = TRUE
    BY <1>0, <2>11, <2>12 DEF Free, Idling
  <2>15. Linked(next.port, action.kind, path) /\ action.kind \in Waiting /\ action.path = path
    <3>1. Ends(next.port.crc, At(path, fin.pos + 1))
      <4>1. Ends(Append(s.port.crc, item), item)
        BY <1>0, EndsAppend
      <4>2. next.port.crc = Append(s.port.crc, item) /\ item = At(path, fin.pos + 1)
        BY <2>3, <2>6, <2>11, <2>12
      <4> QED
        BY <4>1, <4>2
    <3>2. CASE more
      <4>1. /\ next.port.fin.path = path /\ next.port.fin.good /\ next.port.fin.pos = fin.pos + 1
            /\ fin.pos + 1 <= setup.Chunks[path] /\ action.kind = "chunk"
        BY <2>2, <2>10, <2>11, <2>12, <3>2
      <4> QED
        BY <3>1, <4>1 DEF Linked, Waiting
    <3>3. CASE ~more
      <4>1. action.kind = "eof" /\ fin.pos + 1 = setup.Chunks[path]
        BY <2>2, <3>3
      <4> QED
        BY <3>1, <4>1 DEF Linked, Waiting
    <3> QED
      BY <3>2, <3>3
  <2> HIDE DEF action
  <2>16. CASE MustConfirm(next)
    <3>1. t = Await(next, action)
      BY <2>7, <2>16
    <3>2. /\ SenderOK(t, R) /\ t.strand = next.strand /\ t.ask = next.ask
          /\ t.port.ConfirmHandler = action
          /\ t.port.crc = next.port.crc /\ t.port.fin = next.port.fin
          /\ t.port.in_progress = next.port.in_progress /\ t.port.transfer_reset = next.port.transfer_reset
      <4>1. setup.UseConfirms
        BY <2>16 DEF MustConfirm
      <4> QED
        BY <2>13, <3>1, <4>1, AwaitFacts
    <3>3. Confirming(t.port, t.strand, {})
      BY <2>14, <2>15, <3>2 DEF Confirming, Free, Idling, Linked
    <3> QED
      BY <2>12, <2>14, <3>2, <3>3 DEF Chained
  <2>17. CASE ~MustConfirm(next)
    <3>1. t = RunHandler(next, action)
      BY <2>7, <2>17
    <3>2. CASE action.kind = "chunk" /\ next.port.enabled
      <4>1. t = Post(next, "chunk", path)
        BY <2>15, <3>1, <3>2 DEF RunHandler
      <4>2. Linked(next.port, "chunk", path)
        BY <2>15, <3>2
      <4>3. Free(next.port, next.strand, {}) /\ next.port.in_progress = TRUE
        BY <2>14
      <4>4. SenderOK(t, R) /\ t.ask = next.ask /\ t.port = next.port /\ Reading(t.port, t.strand, {})
        BY <2>13, <4>1, <4>2, <4>3, PostGoing DEF Going
      <4> QED
        BY <2>12, <4>3, <4>4 DEF Chained
    <3>3. CASE action.kind = "eof" /\ next.port.enabled
      <4>1. t = SendEOF(next, path)
        BY <2>15, <3>1, <3>3 DEF RunHandler
      <4>2. Linked(next.port, "eof", path) /\ Still(next.strand)
        BY <2>14, <2>15, <3>3 DEF Free
      <4>3. /\ SenderOK(t, R) /\ Still(t.strand) /\ t.ask = next.ask
            /\ t.port.ConfirmHandler \in {next.port.ConfirmHandler, [kind |-> "files", path |-> NoFile]}
        BY <2>13, <4>1, <4>2, SendEOFFacts
      <4>4. Idling(t.port)
        BY <2>14, <4>3 DEF Free, Idling, Waiting
      <4> QED
        BY <2>12, <4>3, <4>4 DEF Chained, Free
    <3>4. CASE ~next.port.enabled
      <4>1. t = next
        BY <2>15, <3>1, <3>4 DEF RunHandler, Waiting
      <4> QED
        BY <2>12, <2>13, <2>14, <4>1 DEF Chained
    <3> QED
      BY <2>15, <3>2, <3>3, <3>4 DEF Waiting
  <2> QED
    BY <2>16, <2>17
<1> QED
  BY <1>1, <1>2

Cleared(s) == [s EXCEPT !.port.ConfirmHandler = NoHandler]

LEMMA ClearFacts ==
    ASSUME NEW R, NEW s, SenderOK(s, R), NEW t, t = Cleared(s)
    PROVE  /\ SenderOK(t, R) /\ t.strand = s.strand /\ t.ask = s.ask /\ t.publish = s.publish /\ Idling(t.port)
           /\ t.port.crc = s.port.crc /\ t.port.fin = s.port.fin
           /\ t.port.in_progress = s.port.in_progress /\ t.port.transfer_reset = s.port.transfer_reset
           /\ t.port.filename_q = s.port.filename_q /\ t.port.unconfirmed = s.port.unconfirmed
           /\ t.port.enabled = s.port.enabled
<1>1. DOMAIN s = StateFields /\ DOMAIN s.port = PortFields
  BY DEF SenderOK, PortOK
<1>2. t = [s EXCEPT !.port = [s.port EXCEPT !.ConfirmHandler = NoHandler]]
  BY <1>1 DEF Cleared, StateFields, PortFields
<1>3. /\ DOMAIN t = StateFields /\ t.strand = s.strand /\ t.ask = s.ask /\ t.publish = s.publish
      /\ t.port = [s.port EXCEPT !.ConfirmHandler = NoHandler]
  BY <1>1, <1>2 DEF StateFields
<1>4. /\ DOMAIN t.port = PortFields /\ t.port.ConfirmHandler = NoHandler
      /\ t.port.seq = s.port.seq /\ t.port.crc = s.port.crc /\ t.port.event_buffer = s.port.event_buffer
      /\ t.port.transfer_reset = s.port.transfer_reset /\ t.port.in_progress = s.port.in_progress
      /\ t.port.fin = s.port.fin /\ t.port.filename_q = s.port.filename_q
      /\ t.port.unconfirmed = s.port.unconfirmed /\ t.port.enabled = s.port.enabled
  BY <1>1, <1>3 DEF PortFields
<1>5. SenderOK(t, R)
  BY <1>3, <1>4 DEF SenderOK, PortOK, Sent
<1>6. Idling(t.port)
  BY <1>4 DEF Idling, NoHandler, Waiting
<1> QED
  BY <1>3, <1>4, <1>5, <1>6

\* The handler that waits for a confirmation runs, and is gone.
LEMMA HandlerRuns ==
    ASSUME setup \in Setups, setup.UseCRCs, NEW R, NEW s, SenderOK(s, R), NEW A, Chained(s.port, s.strand, A),
           NEW t, t = Cleared(RunHandler(s, s.port.ConfirmHandler))
    PROVE  /\ SenderOK(t, R) /\ t.ask = s.ask
           /\ Outcome(s.port, t.port, t.strand, A)
           /\ s.port.transfer_reset = TRUE => /\ t.port.filename_q = s.port.filename_q
                                              /\ t.port.unconfirmed = s.port.unconfirmed
<1> DEFINE action == s.port.ConfirmHandler
           r == RunHandler(s, action)
           c == Cleared(s)
<1>0. /\ DOMAIN s = StateFields /\ DOMAIN s.port = PortFields /\ s.strand \in Seq(Posted(R))
      /\ s.port.in_progress \in BOOLEAN /\ s.port.transfer_reset \in BOOLEAN
  BY DEF SenderOK, PortOK
<1>1. /\ SenderOK(c, R) /\ c.strand = s.strand /\ c.ask = s.ask /\ Idling(c.port)
      /\ c.port.crc = s.port.crc /\ c.port.fin = s.port.fin
      /\ c.port.in_progress = s.port.in_progress /\ c.port.transfer_reset = s.port.transfer_reset
      /\ c.port.filename_q = s.port.filename_q /\ c.port.unconfirmed = s.port.unconfirmed
  BY ClearFacts
<1>2. ASSUME action.kind \in Waiting
      PROVE  /\ Still(s.strand) /\ A = {} /\ action.path \in Files /\ Linked(s.port, action.kind, action.path)
             /\ s.port.in_progress = TRUE
  BY <1>0, <1>2 DEF Chained, Free, Answering, Confirming, Reading, Idling
<1>3. CASE action.kind = "chunk" /\ s.port.enabled
  <2>1. /\ Still(s.strand) /\ A = {} /\ action.path \in Files /\ Linked(s.port, "chunk", action.path)
        /\ s.port.in_progress = TRUE
    BY <1>2, <1>3 DEF Waiting
  <2>2. r = Post(s, "chunk", action.path)
    BY <1>3 DEF RunHandler
  <2>3. t = Post(c, "chunk", action.path)
    <3> HIDE DEF action
    <3>1. t = Cleared(Post(s, "chunk", action.path))
      BY <2>2 DEF action
    <3> QED
      BY <1>0, <3>1 DEF Cleared, Post, StateFields, PortFields
  <2>4. Free(c.port, c.strand, {}) /\ c.port.in_progress = TRUE /\ Linked(c.port, "chunk", action.path)
    BY <1>1, <2>1 DEF Free, Linked
  <2> HIDE DEF c, action
  <2>5. SenderOK(t, R) /\ t.ask = c.ask /\ t.port = c.port /\ Reading(t.port, t.strand, {})
    BY <1>1, <2>1, <2>3, <2>4, PostGoing DEF Going
  <2> QED
    BY <1>1, <2>1, <2>4, <2>5 DEF Chained, Outcome
<1>4. CASE action.kind = "eof" /\ s.port.enabled
  <2>1. /\ Still(s.strand) /\ A = {} /\ action.path \in Files /\ Linked(s.port, "eof", action.path)
    BY <1>2, <1>4 DEF Waiting
  <2>2. r = SendEOF(s, action.path)
    BY <1>4 DEF RunHandler
  <2> HIDE DEF r
  <2>3. /\ SenderOK(r, R) /\ Still(r.strand) /\ r.ask = s.ask
        /\ s.port.transfer_reset => /\ r.port.filename_q = s.port.filename_q
                                    /\ r.port.unconfirmed = s.port.unconfirmed
    BY <2>1, <2>2, SendEOFFacts
  <2>4. t = Cleared(r)
    BY DEF r
  <2>5. /\ SenderOK(t, R) /\ t.strand = r.strand /\ t.ask = r.ask /\ Idling(t.port)
        /\ t.port.filename_q = r.port.filename_q /\ t.port.unconfirmed = r.port.unconfirmed
    BY <2>3, <2>4, ClearFacts
  <2> QED
    BY <2>1, <2>3, <2>5 DEF Chained, Free, Outcome
<1>5. CASE action.kind = "files"
  <2>1. r = CheckQueue(s)
    BY <1>5 DEF RunHandler
  <2> HIDE DEF r
  <2>2. /\ SenderOK(r, R) /\ Longer(R, s.strand, r.strand) /\ r.ask = s.ask
        /\ r.port.crc = s.port.crc /\ r.port.fin = s.port.fin
        /\ r.port.filename_q = s.port.filename_q /\ r.port.unconfirmed = s.port.unconfirmed
        /\ ~s.port.enabled => r = s
        /\ s.port.enabled => /\ r.port.in_progress <=> s.port.in_progress /\ ~s.port.transfer_reset
                            /\ ~r.port.transfer_reset
    BY <2>1, CheckQueueFacts
  <2>3. t = Cleared(r)
    BY DEF r
  <2>4. /\ SenderOK(t, R) /\ t.strand = r.strand /\ t.ask = r.ask /\ Idling(t.port)
        /\ t.port.crc = r.port.crc /\ t.port.fin = r.port.fin
        /\ t.port.in_progress = r.port.in_progress /\ t.port.transfer_reset = r.port.transfer_reset
        /\ t.port.filename_q = r.port.filename_q /\ t.port.unconfirmed = r.port.unconfirmed
    BY <2>2, <2>3, ClearFacts
  <2>5. Idling(s.port)
    BY <1>5 DEF Idling, Waiting
  <2>6. /\ Still(s.strand) <=> Still(t.strand)
        /\ Chained(s.port, t.strand, A)
    BY <1>0, <2>2, <2>4, LongerChained
  <2>7. CASE ~s.port.enabled \/ ~s.port.transfer_reset
    <3>1. Alike(s.port, t.port)
      BY <1>0, <2>2, <2>4, <2>5, <2>7 DEF Alike
    <3>2. Chained(t.port, t.strand, A)
      BY <2>6, <3>1, AlikeChained
    <3> QED
      BY <2>2, <2>4, <3>2 DEF Outcome
  <2>8. CASE s.port.enabled /\ s.port.transfer_reset
    <3>1. ~t.port.in_progress
      BY <2>2, <2>4, <2>8
    <3>2. Chained(t.port, t.strand, A) \/ Broken(s.port, t.port, t.strand, A)
      <4>1. CASE s.port.in_progress
        <5>1. setup.UseConfirms
          BY <1>5 DEF SenderOK, PortOK, NoHandler
        <5> QED
          BY <3>1, <4>1, <5>1 DEF Chained, Broken, Steady
      <4>2. CASE ~s.port.in_progress
        <5>1. Free(s.port, t.strand, A)
          BY <2>6, <4>2 DEF Chained
        <5> QED
          BY <2>4, <5>1 DEF Chained, Free
      <4> QED
        BY <4>1, <4>2
    <3> QED
      BY <2>2, <2>4, <3>2 DEF Outcome
  <2> QED
    BY <2>7, <2>8
<1>6. CASE ~(action.kind = "chunk" /\ s.port.enabled) /\ ~(action.kind = "eof" /\ s.port.enabled) /\ action.kind # "files"
  <2>1. t = c
    BY <1>6 DEF RunHandler
  <2>2. CASE action.kind \in Waiting
    <3>1. Still(s.strand) /\ A = {}
      BY <1>2, <2>2
    <3> QED
      BY <1>1, <2>1, <3>1 DEF Chained, Free, Outcome
  <2>3. CASE action.kind \notin Waiting
    <3>1. Alike(s.port, t.port)
      BY <1>1, <2>1, <2>3 DEF Alike, Idling
    <3>2. Chained(t.port, t.strand, A)
      BY <1>1, <2>1, <3>1, AlikeChained
    <3> QED
      BY <1>1, <2>1, <3>2 DEF Outcome
  <2> QED
    BY <2>2, <2>3
<1> QED
  BY <1>3, <1>4, <1>5, <1>6

\* What goes on may be the callback of a name that has just gone out.
Starts(t, R, A) ==
    /\ SenderOK(t, R) /\ Chained(t.port, t.strand, A \cup t.ask) /\ t.ask \subseteq Files
    /\ t.ask # {} => A = {}

\* A file is to be sent: it waits, or its name goes out.
LEMMA TrySendFacts ==
    ASSUME setup \in Setups, setup.UseCRCs, NEW R, NEW s, SenderOK(s, R), s.ask = {}, NEW A,
           Chained(s.port, s.strand, A), NEW path \in Files, NEW t, t = TrySend(s, path)
    PROVE  Starts(t, R, A)
<1> USE DEF Starts
<1>0. /\ DOMAIN s = StateFields /\ DOMAIN s.port = PortFields /\ s.port.crc \in Seq(Items)
      /\ s.port.filename_q \cup {path} \subseteq Files
      /\ s.port.in_progress \in BOOLEAN
  BY DEF SenderOK, PortOK
<1>1. CASE ~s.port.enabled
  BY <1>1 DEF TrySend
<1>2. CASE s.port.enabled
  <2> DEFINE queue == s.port.filename_q \cup {path}
             q == [s.port EXCEPT !.filename_q = queue]
             queued == [s EXCEPT !.port = q]
             b == [q EXCEPT !.in_progress = TRUE, !.transfer_reset = FALSE]
             begun == [queued EXCEPT !.port = b, !.ask = {path}]
             item == Item("name", path, 0)
  <2>1. t = IF s.port.in_progress THEN queued ELSE Send(begun, NameIndex, item)
    BY <1>0, <1>2 DEF TrySend, StateFields, PortFields
  <2> HIDE DEF queue, item
  <2>2. /\ DOMAIN q = PortFields /\ q.fin = s.port.fin /\ q.crc = s.port.crc
        /\ q.in_progress = s.port.in_progress /\ q.transfer_reset = s.port.transfer_reset
        /\ q.ConfirmHandler = s.port.ConfirmHandler /\ q.seq = s.port.seq /\ q.filename_q = queue
        /\ q.unconfirmed = s.port.unconfirmed /\ q.event_buffer = s.port.event_buffer
    BY <1>0 DEF PortFields
  <2> HIDE DEF q
  <2>3. /\ DOMAIN queued = StateFields /\ queued.port = q /\ queued.strand = s.strand /\ queued.ask = {}
        /\ queued.publish = s.publish
    BY <1>0 DEF StateFields
  <2> HIDE DEF queued
  <2>4. queue \subseteq Files
    BY <1>0 DEF queue
  <2>5. CASE s.port.in_progress
    <3>1. t = queued
      BY <2>1, <2>5
    <3>2. SenderOK(t, R)
      BY <2>2, <2>3, <2>4, <3>1 DEF SenderOK, PortOK, Sent
    <3>3. Alike(s.port, t.port)
      BY <2>2, <2>3, <3>1 DEF Alike
    <3>4. Chained(t.port, t.strand, A)
      BY <2>3, <3>1, <3>3, AlikeChained
    <3>5. A \cup t.ask = A /\ t.ask = {}
      BY <2>3, <3>1
    <3> QED
      BY <3>2, <3>4, <3>5
  <2>6. CASE ~s.port.in_progress
    <3>1. Free(s.port, s.strand, A)
      BY <2>6 DEF Chained
    <3>2. /\ DOMAIN b = PortFields /\ b.fin = s.port.fin /\ b.crc = s.port.crc
          /\ b.in_progress = TRUE /\ b.transfer_reset = FALSE
          /\ b.ConfirmHandler = s.port.ConfirmHandler /\ b.seq = s.port.seq /\ b.filename_q = queue
          /\ b.unconfirmed = s.port.unconfirmed /\ b.event_buffer = s.port.event_buffer
      BY <2>2 DEF PortFields
    <3> HIDE DEF b
    <3>3. /\ DOMAIN begun = StateFields /\ begun.port = b /\ begun.strand = s.strand /\ begun.ask = {path}
          /\ begun.publish = s.publish
      BY <2>3 DEF StateFields
    <3>4. SenderOK(begun, R)
      <4> HIDE DEF begun
      <4> QED
        BY <2>4, <3>2, <3>3 DEF SenderOK, PortOK, Sent
    <3>5. item \in Items /\ item = At(path, 0)
      <4>1. At(path, 0) \in Items
        BY AtFacts
      <4>2. item = At(path, 0)
        BY DEF item, At
      <4> QED
        BY <4>1, <4>2
    <3>6. OctetString(NameIndex, item, begun.port.crc) \in Octets
      <4>1. Follows(begun.port.crc, item) /\ \E f \in Files : item = At(f, 0)
        BY <3>5 DEF Follows
      <4>2. begun.port.crc \in Seq(Items)
        BY <1>0, <3>2, <3>3
      <4> QED
        BY <3>5, <4>1, <4>2, SequenceFacts, OctetMade
    <3>7. t = Send(begun, NameIndex, item)
      BY <2>1, <2>6
    <3> HIDE DEF begun
    <3>8. /\ SenderOK(t, R) /\ t.strand = begun.strand /\ t.ask = begun.ask
          /\ t.port.crc = Append(begun.port.crc, item)
          /\ t.port.in_progress = begun.port.in_progress
          /\ t.port.ConfirmHandler = begun.port.ConfirmHandler
      BY <3>4, <3>5, <3>6, <3>7, SendFacts
    <3>9. Ends(t.port.crc, At(path, 0))
      <4>1. Ends(Append(s.port.crc, item), item)
        BY <1>0, EndsAppend
      <4> QED
        BY <3>2, <3>3, <3>5, <3>8, <4>1
    <3>10. /\ Still(t.strand) /\ Idling(t.port) /\ t.port.in_progress /\ A = {} /\ t.ask = {path}
           /\ A \cup t.ask = {path}
      BY <3>1, <3>2, <3>3, <3>8 DEF Free, Idling
    <3>11. Linked(t.port, "answer", path)
      BY <3>9 DEF Linked
    <3> QED
      BY <3>8, <3>10, <3>11 DEF Chained, Answering
  <2> QED
    BY <2>5, <2>6
<1> QED
  BY <1>1, <1>2

\* The callback of a file's name.
LEMMA SendFileFacts ==
    ASSUME setup \in Setups, setup.UseCRCs, NEW R, NEW s, SenderOK(s, R),
           NEW path \in Files, Free(s.port, s.strand, {}), s.port.in_progress = TRUE,
           Linked(s.port, "answer", path), NEW t, t = SendFile(s, path)
    PROVE  SenderOK(t, R) /\ t.ask = s.ask /\ Chained(t.port, t.strand, {})
<1> DEFINE busy == s.port.fin.path # NoFile
<1>0. /\ DOMAIN s = StateFields /\ DOMAIN s.port = PortFields /\ DOMAIN s.port.fin = StreamFields
      /\ s.port.fin.pos \in Nat /\ s.port.filename_q \ {path} \subseteq Files /\ s.strand \in Seq(Posted(R))
      /\ setup.Chunks[path] \in Nat
  BY SetupFacts DEF SenderOK, PortOK
<1>1. CASE ~s.port.enabled
  BY <1>1 DEF SendFile, Chained
<1>2. CASE s.port.enabled /\ (busy \/ path \in setup.Unreadable)
  <2> DEFINE good == ~busy
             fin == [s.port.fin EXCEPT !.good = good]
             queue == s.port.filename_q \ {path}
             q == [s.port EXCEPT !.in_progress = FALSE, !.filename_q = queue, !.fin = fin]
             failed == [s EXCEPT !.port = q]
  <2>1. t = PostNext(failed)
    <3> DEFINE fl == [s EXCEPT !.port.in_progress = FALSE, !.port.filename_q = @ \ {path}, !.port.fin.good = ~busy]
    <3>1. t = PostNext(fl)
      BY <1>2 DEF SendFile
    <3>2. fl = failed
      <4> HIDE DEF busy
      <4> QED
        BY <1>0 DEF StateFields, PortFields, StreamFields
    <3> QED
      BY <3>1, <3>2
  <2> HIDE DEF good, queue
  <2>2. DOMAIN fin = StreamFields /\ fin.pos \in Nat
    BY <1>0 DEF StreamFields
  <2> HIDE DEF fin
  <2>3. /\ DOMAIN q = PortFields /\ q.fin = fin /\ q.crc = s.port.crc
        /\ q.in_progress = FALSE /\ q.transfer_reset = s.port.transfer_reset
        /\ q.ConfirmHandler = s.port.ConfirmHandler /\ q.seq = s.port.seq /\ q.filename_q = queue
        /\ q.unconfirmed = s.port.unconfirmed /\ q.event_buffer = s.port.event_buffer
    BY <1>0 DEF PortFields
  <2> HIDE DEF q
  <2>4. /\ DOMAIN failed = StateFields /\ failed.port = q /\ failed.strand = s.strand /\ failed.ask = s.ask
        /\ failed.publish = s.publish
    BY <1>0 DEF StateFields
  <2> HIDE DEF failed
  <2>5. queue \subseteq Files
    BY <1>0 DEF queue
  <2>6. /\ DOMAIN t = StateFields /\ t.port = q /\ t.publish = s.publish /\ t.ask = s.ask
        /\ Longer(R, s.strand, t.strand)
    BY <2>1, <2>3, <2>4, <2>5, PostNextFacts
  <2>7. t.strand \in Seq(Posted(R)) /\ Still(t.strand)
    BY <1>0, <2>6, LongerChained DEF Free
  <2>8. SenderOK(t, R)
    BY <2>2, <2>3, <2>5, <2>6, <2>7 DEF SenderOK, PortOK, Sent
  <2>9. Free(t.port, t.strand, {})
    BY <2>3, <2>6, <2>7 DEF Free, Idling
  <2> QED
    BY <2>6, <2>8, <2>9 DEF Chained
<1>3. CASE s.port.enabled /\ ~(busy \/ path \in setup.Unreadable)
  <2> DEFINE fin == [path |-> path, pos |-> 0, good |-> TRUE]
             q == [s.port EXCEPT !.fin = fin]
             opened == [s EXCEPT !.port = q]
  <2>1. t = SendChunk(opened, path)
    BY <1>0, <1>3 DEF SendFile, StateFields, PortFields
  <2>2. DOMAIN fin = StreamFields /\ fin.pos = 0 /\ fin.path = path /\ fin.good /\ 0 \in Nat
    BY DEF StreamFields
  <2> HIDE DEF fin
  <2>3. /\ DOMAIN q = PortFields /\ q.fin = fin /\ q.crc = s.port.crc
        /\ q.in_progress = TRUE /\ q.transfer_reset = s.port.transfer_reset
        /\ q.ConfirmHandler = s.port.ConfirmHandler /\ q.seq = s.port.seq /\ q.filename_q = s.port.filename_q
        /\ q.unconfirmed = s.port.unconfirmed /\ q.event_buffer = s.port.event_buffer
    BY <1>0 DEF PortFields
  <2> HIDE DEF q
  <2>4. /\ DOMAIN opened = StateFields /\ opened.port = q /\ opened.strand = s.strand /\ opened.ask = s.ask
        /\ opened.publish = s.publish
    BY <1>0 DEF StateFields
  <2> HIDE DEF opened
  <2>5. SenderOK(opened, R)
    BY <2>2, <2>3, <2>4 DEF SenderOK, PortOK, Sent
  <2>6. Free(opened.port, opened.strand, {}) /\ opened.port.in_progress = TRUE
    BY <2>3, <2>4 DEF Free, Idling
  <2>7. Linked(opened.port, "chunk", path)
    <3>1. s.port.transfer_reset \/ Ends(s.port.crc, At(path, 0))
      BY DEF Linked
    <3>2. 0 <= setup.Chunks[path]
      BY <1>0
    <3> QED
      BY <2>2, <2>3, <2>4, <3>1, <3>2 DEF Linked
  <2>8. SenderOK(t, R) /\ t.ask = opened.ask /\ Chained(t.port, t.strand, {})
    BY <2>1, <2>5, <2>6, <2>7, SendChunkFacts
  <2> QED
    BY <2>4, <2>8
<1> QED
  BY <1>1, <1>2, <1>3

\* A transfer is reset: what is not confirmed is queued again, and a handler
\* that waits is run.
LEMMA ResetTransferFacts ==
    ASSUME setup \in Setups, setup.UseCRCs, NEW R, NEW s, SenderOK(s, R), NEW A, Chained(s.port, s.strand, A),
           NEW t, t = ResetTransfer(s)
    PROVE  /\ SenderOK(t, R) /\ t.ask = s.ask
           /\ Outcome(s.port, t.port, t.strand, A)
           /\ s.port.unconfirmed \subseteq t.port.unconfirmed \cup t.port.filename_q
<1> DEFINE queue == s.port.filename_q \cup s.port.unconfirmed
           none == <<>>
           q == [s.port EXCEPT !.transfer_reset = TRUE, !.crc = none, !.seq = Start, !.filename_q = queue,
                               !.unconfirmed = {}, !.event_buffer = none]
           cleared == [s EXCEPT !.port = q]
           b == [q EXCEPT !.fin = Closed, !.ConfirmTimer = FALSE]
           begun == [cleared EXCEPT !.port = b]
<1>0. /\ DOMAIN s = StateFields /\ DOMAIN s.port = PortFields
      /\ s.port.in_progress \in BOOLEAN /\ s.port.transfer_reset \in BOOLEAN
      /\ s.port.filename_q \subseteq Files /\ s.port.unconfirmed \subseteq Files
  BY DEF SenderOK, PortOK, Sent, Done
<1>1. CASE s.port.transfer_reset
  BY <1>1 DEF ResetTransfer, Outcome
<1>2. CASE ~s.port.transfer_reset
  <2>1. t = IF ~s.port.in_progress THEN cleared ELSE Cleared(RunHandler(begun, s.port.ConfirmHandler))
    <3> DEFINE cl == [s EXCEPT !.port.transfer_reset = TRUE,
                               !.port.crc = NoCRC, !.port.seq = Start,
                               !.port.filename_q = @ \cup s.port.unconfirmed, !.port.unconfirmed = {},
                               !.port.event_buffer = <<>>]
               bg == [cl EXCEPT !.port.fin = Closed, !.port.ConfirmTimer = FALSE]
    <3>1. t = IF ~s.port.in_progress THEN cl ELSE Cleared(RunHandler(bg, s.port.ConfirmHandler))
      BY <1>2 DEF ResetTransfer, Cleared
    <3>2. cl = cleared
      BY <1>0 DEF StateFields, PortFields, NoCRC
    <3>3. bg = begun
      <4>1. DOMAIN cleared = StateFields /\ cleared.port = q
        BY <1>0 DEF StateFields
      <4>2. DOMAIN q = PortFields
        BY <1>0 DEF PortFields
      <4> HIDE DEF cl, cleared, q
      <4> QED
        BY <3>2, <4>1, <4>2 DEF StateFields, PortFields
    <3> QED
      BY <3>1, <3>2, <3>3
  <2>2. none \in Seq(Items) /\ none \in Seq(Octets) /\ queue \subseteq Files /\ Done(none) = {} /\ Start \in Sequence
    BY <1>0, DoneNothing, SequenceFacts
  <2> HIDE DEF none, queue
  <2>3. /\ DOMAIN q = PortFields /\ q.fin = s.port.fin /\ q.crc = none
        /\ q.in_progress = s.port.in_progress /\ q.transfer_reset = TRUE
        /\ q.ConfirmHandler = s.port.ConfirmHandler /\ q.seq = Start /\ q.filename_q = queue
        /\ q.unconfirmed = {} /\ q.event_buffer = none
    BY <1>0 DEF PortFields
  <2> HIDE DEF q
  <2>4. /\ DOMAIN cleared = StateFields /\ cleared.port = q /\ cleared.strand = s.strand /\ cleared.ask = s.ask
        /\ cleared.publish = s.publish
    BY <1>0 DEF StateFields
  <2> HIDE DEF cleared
  <2>5. /\ DOMAIN b = PortFields /\ b.fin = Closed /\ b.crc = none
        /\ b.in_progress = s.port.in_progress /\ b.transfer_reset = TRUE
        /\ b.ConfirmHandler = s.port.ConfirmHandler /\ b.seq = Start /\ b.filename_q = queue
        /\ b.unconfirmed = {} /\ b.event_buffer = none
    BY <2>3 DEF PortFields
  <2> HIDE DEF b
  <2>6. /\ DOMAIN begun = StateFields /\ begun.port = b /\ begun.strand = s.strand /\ begun.ask = s.ask
        /\ begun.publish = s.publish
    BY <2>4 DEF StateFields
  <2> HIDE DEF begun
  <2>7. DOMAIN Closed = StreamFields /\ Closed.pos = 0 /\ 0 \in Nat
    BY DEF Closed, StreamFields
  <2>8. SenderOK(cleared, R) /\ SenderOK(begun, R)
    <3>1. SenderOK(cleared, R)
      BY <2>2, <2>3, <2>4 DEF SenderOK, PortOK, Sent
    <3>2. SenderOK(begun, R)
      BY <2>2, <2>5, <2>6, <2>7 DEF SenderOK, PortOK, Sent
    <3> QED
      BY <3>1, <3>2
  <2>9. s.port.unconfirmed \subseteq queue
    BY DEF queue
  <2>10. CASE ~s.port.in_progress
    <3>1. t = cleared
      BY <2>1, <2>10
    <3>2. Free(s.port, s.strand, A)
      BY <2>10 DEF Chained
    <3>3. Chained(t.port, t.strand, A)
      BY <2>3, <2>4, <3>1, <3>2 DEF Chained, Free, Idling
    <3> QED
      BY <2>3, <2>4, <2>8, <2>9, <3>1, <3>3 DEF Outcome
  <2>11. CASE s.port.in_progress
    <3>1. t = Cleared(RunHandler(begun, begun.port.ConfirmHandler))
      BY <2>1, <2>5, <2>6, <2>11
    <3>2. Chained(begun.port, begun.strand, A)
      <4>1. /\ begun.port.in_progress = TRUE /\ begun.port.transfer_reset = TRUE
            /\ begun.port.ConfirmHandler = s.port.ConfirmHandler /\ begun.strand = s.strand
        BY <1>0, <2>5, <2>6, <2>11
      <4>2. \A k, f : Linked(begun.port, k, f)
        BY <4>1 DEF Linked
      <4> QED
        BY <4>1, <4>2 DEF Chained, Free, Idling, Answering, Confirming, Reading
    <3>3. /\ SenderOK(t, R) /\ t.ask = begun.ask
          /\ Outcome(begun.port, t.port, t.strand, A)
          /\ begun.port.transfer_reset = TRUE => /\ t.port.filename_q = begun.port.filename_q
                                                 /\ t.port.unconfirmed = begun.port.unconfirmed
      BY <2>8, <3>1, <3>2, HandlerRuns
    <3>4. Outcome(s.port, t.port, t.strand, A)
      BY <2>5, <2>6, <3>3 DEF Outcome, Broken
    <3> QED
      BY <2>5, <2>6, <2>9, <3>3, <3>4
  <2> QED
    BY <2>10, <2>11
<1> QED
  BY <1>1, <1>2

LEMMA SubSeqFacts ==
    ASSUME NEW T, NEW s \in Seq(T), NEW i \in DOMAIN s
    PROVE  SubSeq(s, i, Len(s)) \in Seq(T)
OBVIOUS

LEMMA ClearUpToFacts ==
    ASSUME NEW buffer \in Seq(Octets), NEW seq, NEW crc
    PROVE  ClearUpTo(buffer, seq, crc).buffer \in Seq(Octets)
<1> DEFINE after(i) == IF i = Len(buffer) THEN <<>> ELSE <<buffer[i + 1].index>>
           match == {i \in DOMAIN buffer : Expected(buffer[i], after(i), seq, crc)}
           first == CHOOSE i \in match : \A j \in match : i <= j
           left == SubSeq(buffer, first, Len(buffer))
<1>1. CASE match = {}
  <2>1. ClearUpTo(buffer, seq, crc) = [found |-> FALSE, buffer |-> buffer]
    BY <1>1 DEF ClearUpTo
  <2> QED
    BY <2>1
<1>2. CASE match # {}
  <2>1. ClearUpTo(buffer, seq, crc) = [found |-> TRUE, buffer |-> left]
    BY <1>2 DEF ClearUpTo
  <2>2. first \in DOMAIN buffer
    <3>1. match \subseteq DOMAIN buffer /\ DOMAIN buffer \subseteq Nat
      OBVIOUS
    <3> HIDE DEF match
    <3>2. \E i \in match : \A j \in match : i <= j
      BY <1>2, <3>1, LeastNat
    <3> QED
      BY <3>1, <3>2
  <2>3. left \in Seq(Octets)
    BY <2>2, SubSeqFacts
  <2> HIDE DEF left
  <2> QED
    BY <2>1, <2>3
<1> QED
  BY <1>1, <1>2

\* Changes that do not touch what goes on.
Edit(s, b, U, timer, pub) ==
    [s EXCEPT !.port = [s.port EXCEPT !.event_buffer = b, !.unconfirmed = U, !.ConfirmTimer = timer],
              !.publish = pub]

LEMMA EditFacts ==
    ASSUME NEW R, NEW s, SenderOK(s, R), NEW b \in Seq(Octets), NEW U, U \subseteq s.port.unconfirmed, NEW timer,
           NEW pub \in Seq(Octets), NEW t, t = Edit(s, b, U, timer, pub)
    PROVE  /\ SenderOK(t, R) /\ t.strand = s.strand /\ t.ask = s.ask /\ Alike(s.port, t.port)
           /\ t.port.ConfirmHandler = s.port.ConfirmHandler
           /\ t.port.filename_q = s.port.filename_q /\ t.port.unconfirmed = U /\ t.port.event_buffer = b
           /\ t.port.enabled = s.port.enabled
<1> DEFINE q == [s.port EXCEPT !.event_buffer = b, !.unconfirmed = U, !.ConfirmTimer = timer]
<1>1. DOMAIN s = StateFields /\ DOMAIN s.port = PortFields
  BY DEF SenderOK, PortOK
<1>2. /\ DOMAIN q = PortFields /\ q.fin = s.port.fin /\ q.crc = s.port.crc
      /\ q.in_progress = s.port.in_progress /\ q.transfer_reset = s.port.transfer_reset
      /\ q.ConfirmHandler = s.port.ConfirmHandler /\ q.seq = s.port.seq /\ q.filename_q = s.port.filename_q
      /\ q.unconfirmed = U /\ q.event_buffer = b /\ q.enabled = s.port.enabled
  BY <1>1 DEF PortFields
<1>3. t = [s EXCEPT !.port = q, !.publish = pub]
  BY DEF Edit
<1> HIDE DEF q
<1>4. DOMAIN t = StateFields /\ t.port = q /\ t.strand = s.strand /\ t.ask = s.ask /\ t.publish = pub
  BY <1>1, <1>3 DEF StateFields
<1>5. SenderOK(t, R)
  BY <1>2, <1>4 DEF SenderOK, PortOK, Sent
<1> QED
  BY <1>2, <1>4, <1>5 DEF Alike

\* What t has forgotten of s has been received.
Forgets(s, t, R) == \A f \in s.port.unconfirmed : f \in t.port.unconfirmed \cup t.port.filename_q \cup R

LEMMA Kept ==
    ASSUME NEW R, NEW s, SenderOK(s, R), NEW m \in Reports(R), Current(s.port, m)
    PROVE  s.port.unconfirmed \subseteq R
BY DEF SenderOK, Sent, Reports, Current

\* A confirmation: the file it makes the sender forget, if it is unsolicited, is
\* one the receiver has.
LEMMA ConfirmEventFacts ==
    ASSUME setup \in Setups, setup.UseCRCs, NEW R, NEW s, SenderOK(s, R), NEW A, Chained(s.port, s.strand, A),
           NEW m \in Reports(R), NEW t, t = ConfirmEvent(s, m)
    PROVE  /\ SenderOK(t, R) /\ t.ask = s.ask
           /\ Outcome(s.port, t.port, t.strand, A)
           /\ m.unsol => Forgets(s, t, R)
<1> DEFINE p == s.port
           left == ClearUpTo(p.event_buffer, m.seq, m.crc)
           none == <<>>
           forget == Edit(s, none, {}, p.ConfirmTimer, s.publish)
           keep == Edit(s, left.buffer, p.unconfirmed, p.ConfirmTimer, s.publish)
           off == FALSE
           stopped == Edit(s, none, {}, off, s.publish)
           confirmed == Cleared(RunHandler(stopped, p.ConfirmHandler))
           from == IF left.found THEN keep ELSE ResetTransfer(s)
           timer == from.port.ConfirmTimer \/ (~m.unsol /\ ~from.port.transfer_reset)
           again == Edit(from, from.port.event_buffer, from.port.unconfirmed, timer, from.port.event_buffer)
           acted == IF ~m.ok THEN again
                    ELSE IF ~m.unsol THEN confirmed
                    ELSE IF Current(p, m) THEN forget ELSE keep
           Good(r) == /\ SenderOK(r, R) /\ r.ask = s.ask
                      /\ Outcome(s.port, r.port, r.strand, A)
                      /\ m.unsol => Forgets(s, r, R)
<1> USE DEF Forgets
<1>0. /\ DOMAIN s = StateFields /\ DOMAIN p = PortFields /\ p.event_buffer \in Seq(Octets)
      /\ s.publish \in Seq(Octets) /\ none \in Seq(Octets) /\ s.strand \in Seq(Posted(R))
      /\ {} \subseteq p.unconfirmed
  BY DEF SenderOK, PortOK
<1>1. left.buffer \in Seq(Octets)
  BY <1>0, ClearUpToFacts
<1> HIDE DEF left, none, off
<1>2. Longer(R, s.strand, s.strand)
  BY DEF Longer
<1>3. Outcome(p, p, s.strand, A)
  BY DEF Outcome
<1>4. Good(keep)
  <2>1. /\ SenderOK(keep, R) /\ keep.strand = s.strand /\ keep.ask = s.ask /\ Alike(p, keep.port)
        /\ keep.port.unconfirmed = p.unconfirmed
    BY <1>0, <1>1, EditFacts
  <2> HIDE DEF keep, p
  <2>2. Outcome(p, keep.port, s.strand, A)
    BY <1>0, <1>2, <1>3, <2>1, SameOutcome
  <2> QED
    BY <2>1, <2>2 DEF p
<1>5. ASSUME m.unsol => Current(p, m) PROVE Good(forget)
  <2>1. /\ SenderOK(forget, R) /\ forget.strand = s.strand /\ forget.ask = s.ask /\ Alike(p, forget.port)
    BY <1>0, EditFacts
  <2> HIDE DEF forget, p
  <2>2. Outcome(p, forget.port, s.strand, A)
    BY <1>0, <1>2, <1>3, <2>1, SameOutcome
  <2>3. m.unsol => s.port.unconfirmed \subseteq R
    BY <1>5, Kept DEF p
  <2> QED
    BY <2>1, <2>2, <2>3 DEF p
<1>6. ASSUME ~m.unsol PROVE Good(confirmed)
  <2>1. /\ SenderOK(stopped, R) /\ stopped.strand = s.strand /\ stopped.ask = s.ask /\ Alike(p, stopped.port)
        /\ stopped.port.ConfirmHandler = p.ConfirmHandler
    BY <1>0, EditFacts
  <2>2. confirmed = Cleared(RunHandler(stopped, stopped.port.ConfirmHandler))
    BY <2>1
  <2> HIDE DEF stopped, confirmed, p
  <2>3. Chained(stopped.port, stopped.strand, A)
    BY <2>1, AlikeChained DEF p
  <2>4. SenderOK(confirmed, R) /\ confirmed.ask = stopped.ask
        /\ Outcome(stopped.port, confirmed.port, confirmed.strand, A)
    BY <2>1, <2>2, <2>3, HandlerRuns
  <2>5. Outcome(p, confirmed.port, confirmed.strand, A)
    BY <2>1, <2>4 DEF Outcome, Broken, Alike
  <2> QED
    BY <1>6, <2>1, <2>4, <2>5 DEF p
<1>7. Good(from)
  <2>1. CASE left.found
    BY <1>4, <2>1
  <2>2. CASE ~left.found
    <3>1. from = ResetTransfer(s)
      BY <2>2
    <3> HIDE DEF from
    <3>2. /\ SenderOK(from, R) /\ from.ask = s.ask
          /\ Outcome(s.port, from.port, from.strand, A)
          /\ s.port.unconfirmed \subseteq from.port.unconfirmed \cup from.port.filename_q
      BY <3>1, ResetTransferFacts
    <3> QED
      BY <3>2
  <2> QED
    BY <2>1, <2>2
<1> HIDE DEF from, timer
<1>8. Good(again)
  <2>0. from.port.event_buffer \in Seq(Octets) /\ SenderOK(from, R)
    BY <1>7 DEF SenderOK, PortOK
  <2>1. /\ SenderOK(again, R) /\ again.strand = from.strand /\ again.ask = from.ask /\ Alike(from.port, again.port)
        /\ again.port.unconfirmed = from.port.unconfirmed /\ again.port.filename_q = from.port.filename_q
    BY <2>0, EditFacts
  <2> HIDE DEF again
  <2>2. from.strand \in Seq(Posted(R)) /\ Longer(R, from.strand, from.strand)
    BY <2>0 DEF SenderOK, Longer
  <2>3. Outcome(p, again.port, from.strand, A)
    BY <1>7, <2>1, <2>2, SameOutcome
  <2> QED
    BY <1>7, <2>1, <2>3
<1>9. Good(acted)
  <2> HIDE DEF again, confirmed, keep, forget, Good
  <2>1. CASE ~m.ok
    BY <1>8, <2>1
  <2>2. CASE m.ok /\ ~m.unsol
    BY <1>6, <2>2
  <2>3. CASE m.ok /\ m.unsol
    BY <1>4, <1>5, <2>3
  <2> QED
    BY <2>1, <2>2, <2>3
<1>10. t = IF ~p.enabled THEN s ELSE IF acted.port.in_progress THEN acted ELSE PostNext(acted)
  <2> DEFINE forget0 == [s EXCEPT !.port.event_buffer = <<>>, !.port.unconfirmed = {}]
             keep0 == [s EXCEPT !.port.event_buffer = left.buffer]
             stopped0 == [forget0 EXCEPT !.port.ConfirmTimer = FALSE]
             confirmed0 == Cleared(RunHandler(stopped0, p.ConfirmHandler))
             from0 == IF left.found THEN keep0 ELSE ResetTransfer(s)
             again0 == [from0 EXCEPT !.publish = from0.port.event_buffer,
                                     !.port.ConfirmTimer = @ \/ (~m.unsol /\ ~from0.port.transfer_reset)]
             acted0 == IF ~m.ok THEN again0
                       ELSE IF ~m.unsol THEN confirmed0
                       ELSE IF Current(p, m) THEN forget0 ELSE keep0
  <2>1. t = IF ~p.enabled THEN s ELSE IF acted0.port.in_progress THEN acted0 ELSE PostNext(acted0)
    BY DEF ConfirmEvent, Cleared, left
  <2>2. forget0 = forget /\ keep0 = keep
    <3>1. forget0 = forget
      BY <1>0 DEF Edit, StateFields, PortFields, none
    <3>2. keep0 = keep
      BY <1>0 DEF Edit, StateFields, PortFields, none
    <3> QED
      BY <3>1, <3>2
  <2>3. confirmed0 = confirmed
    <3>1. stopped0 = stopped
      BY <1>0 DEF Edit, StateFields, PortFields, none, off
    <3> QED
      BY <3>1
  <2>4. from0 = from
    BY <2>2 DEF from
  <2>5. again0 = again
    <3>1. DOMAIN from = StateFields /\ DOMAIN from.port = PortFields
      BY <1>7 DEF SenderOK, PortOK
    <3>2. again0 = [from EXCEPT !.publish = from.port.event_buffer, !.port.ConfirmTimer = timer]
      <4> HIDE DEF from0
      <4> QED
        BY <2>4 DEF timer
    <3> HIDE DEF again0
    <3> QED
      BY <3>1, <3>2 DEF Edit, StateFields, PortFields
  <2> HIDE DEF forget0, keep0, confirmed0, again0, forget, keep, confirmed, again
  <2>6. acted0 = acted
    BY <2>2, <2>3, <2>5
  <2> QED
    BY <2>1, <2>6
<1> HIDE DEF acted
<1>11. CASE ~p.enabled
  BY <1>3, <1>10, <1>11
<1>12. CASE p.enabled /\ acted.port.in_progress
  BY <1>9, <1>10, <1>12
<1>13. CASE p.enabled /\ ~acted.port.in_progress
  <2>1. t = PostNext(acted)
    BY <1>10, <1>13
  <2>2. DOMAIN acted = StateFields /\ acted.port.filename_q \subseteq Files /\ acted.strand \in Seq(Posted(R))
    BY <1>9 DEF SenderOK, PortOK
  <2>3. /\ DOMAIN t = StateFields /\ t.port = acted.port /\ t.publish = acted.publish /\ t.ask = acted.ask
        /\ Longer(R, acted.strand, t.strand)
    BY <2>1, <2>2, PostNextFacts
  <2>4. t.strand \in Seq(Posted(R))
    BY <2>2, <2>3, LongerChained
  <2>5. SenderOK(t, R)
    BY <1>9, <2>3, <2>4 DEF SenderOK
  <2>6. Alike(acted.port, t.port)
    BY <2>3 DEF Alike
  <2>7. Outcome(s.port, t.port, t.strand, A)
    BY <1>9, <2>2, <2>3, <2>6, SameOutcome
  <2> QED
    BY <1>9, <2>3, <2>5, <2>7
<1> QED
  BY <1>11, <1>12, <1>13

\* Enabled: what was in progress is taken for ended.
LEMMA EnableFacts ==
    ASSUME setup \in Setups, NEW R, NEW s, SenderOK(s, R), NEW A, Chained(s.port, s.strand, A),
           setup.MaxTxDisables # 0 \/ s.port.in_progress = FALSE, NEW t, t = Enable(s)
    PROVE  SenderOK(t, R) /\ t.ask = s.ask /\ t.publish = s.publish /\ Outcome(s.port, t.port, t.strand, A)
<1> DEFINE known == IF OnDisk /\ s.port.filename_q = {} THEN s.port.ModTimes \cup s.saved ELSE s.port.ModTimes
           q == [s.port EXCEPT !.enabled = TRUE, !.in_progress = FALSE, !.transfer_reset = FALSE, !.ModTimes = known]
           on == [s EXCEPT !.port = q]
<1>0. /\ DOMAIN s = StateFields /\ DOMAIN s.port = PortFields /\ s.strand \in Seq(Posted(R))
      /\ s.port.filename_q \subseteq Files
  BY DEF SenderOK, PortOK
<1>1. t = PostNext(on)
  <2> DEFINE on0 == [s EXCEPT !.port.enabled = TRUE, !.port.in_progress = FALSE, !.port.transfer_reset = FALSE,
                        !.port.ModTimes = IF OnDisk /\ s.port.filename_q = {} THEN @ \cup s.saved ELSE @]
  <2>1. t = PostNext(on0)
    BY DEF Enable
  <2>2. on0 = on
    BY <1>0 DEF StateFields, PortFields
  <2> QED
    BY <2>1, <2>2
<1> HIDE DEF known
<1>2. /\ DOMAIN q = PortFields /\ q.fin = s.port.fin /\ q.crc = s.port.crc
      /\ q.in_progress = FALSE /\ q.transfer_reset = FALSE
      /\ q.ConfirmHandler = s.port.ConfirmHandler /\ q.seq = s.port.seq /\ q.filename_q = s.port.filename_q
      /\ q.unconfirmed = s.port.unconfirmed /\ q.event_buffer = s.port.event_buffer
  BY <1>0 DEF PortFields
<1> HIDE DEF q
<1>3. DOMAIN on = StateFields /\ on.port = q /\ on.strand = s.strand /\ on.ask = s.ask /\ on.publish = s.publish
  BY <1>0 DEF StateFields
<1> HIDE DEF on
<1>4. q.filename_q \subseteq Files
  BY <1>0, <1>2
<1>5. /\ DOMAIN t = StateFields /\ t.port = q /\ t.publish = s.publish /\ t.ask = s.ask
      /\ Longer(R, s.strand, t.strand)
  BY <1>1, <1>3, <1>4, PostNextFacts
<1>6. /\ t.strand \in Seq(Posted(R))
      /\ Free(s.port, s.strand, A) <=> Free(s.port, t.strand, A)
  BY <1>0, <1>5, LongerChained
<1>7. SenderOK(t, R)
  BY <1>2, <1>5, <1>6 DEF SenderOK, PortOK, Sent
<1>8. Free(s.port, t.strand, A) <=> Free(t.port, t.strand, A)
  BY <1>2, <1>5 DEF Free, Idling
<1>9. Outcome(s.port, t.port, t.strand, A)
  BY <1>2, <1>5, <1>6, <1>8 DEF Outcome, Chained, Broken, Steady
<1> QED
  BY <1>5, <1>7, <1>9

LEMMA DisableFacts ==
    ASSUME setup \in Setups, setup.UseCRCs, NEW R, NEW s, SenderOK(s, R), NEW A, Chained(s.port, s.strand, A),
           NEW t, t = Disable(s)
    PROVE  SenderOK(t, R) /\ t.ask = s.ask /\ Outcome(s.port, t.port, t.strand, A)
<1> DEFINE reset == ResetTransfer(s)
           known == IF setup.Persistence = "PURGEONDISABLE" THEN {} ELSE reset.port.ModTimes
           kept == IF OnDisk /\ reset.port.filename_q = {} THEN reset.port.ModTimes ELSE reset.saved
           q == [reset.port EXCEPT !.enabled = FALSE, !.ConfirmTimer = FALSE, !.ModTimes = known]
<1>1. SenderOK(reset, R) /\ reset.ask = s.ask /\ Outcome(s.port, reset.port, reset.strand, A)
  BY ResetTransferFacts
<1> HIDE DEF reset
<1>2. /\ DOMAIN reset = StateFields /\ DOMAIN reset.port = PortFields /\ reset.strand \in Seq(Posted(R))
  BY <1>1 DEF SenderOK, PortOK
<1>3. t = [reset EXCEPT !.port = q, !.saved = kept]
  <2>1. t = [reset EXCEPT !.port.enabled = FALSE, !.port.ConfirmTimer = FALSE,
                      !.port.ModTimes = IF setup.Persistence = "PURGEONDISABLE" THEN {} ELSE @,
                      !.saved = IF OnDisk /\ reset.port.filename_q = {} THEN reset.port.ModTimes ELSE @]
    BY DEF Disable, reset
  <2> QED
    BY <1>2, <2>1 DEF StateFields, PortFields
<1> HIDE DEF known, kept
<1>4. /\ DOMAIN q = PortFields /\ q.fin = reset.port.fin /\ q.crc = reset.port.crc
      /\ q.in_progress = reset.port.in_progress /\ q.transfer_reset = reset.port.transfer_reset
      /\ q.ConfirmHandler = reset.port.ConfirmHandler /\ q.seq = reset.port.seq
      /\ q.filename_q = reset.port.filename_q
      /\ q.unconfirmed = reset.port.unconfirmed /\ q.event_buffer = reset.port.event_buffer
  BY <1>2 DEF PortFields
<1> HIDE DEF q
<1>5. /\ DOMAIN t = StateFields /\ t.port = q /\ t.strand = reset.strand /\ t.ask = reset.ask
      /\ t.publish = reset.publish
  BY <1>2, <1>3 DEF StateFields
<1>6. SenderOK(t, R)
  BY <1>1, <1>4, <1>5 DEF SenderOK, PortOK, Sent
<1>7. Alike(reset.port, t.port) /\ Longer(R, reset.strand, t.strand)
  BY <1>4, <1>5 DEF Alike, Longer
<1>8. Outcome(s.port, t.port, t.strand, A)
  BY <1>1, <1>2, <1>7, SameOutcome
<1> QED
  BY <1>1, <1>5, <1>6, <1>8

LEMMA ConfirmTimeoutFacts ==
    ASSUME NEW R, NEW s, SenderOK(s, R), NEW A, Chained(s.port, s.strand, A), NEW t, t = ConfirmTimeout(s)
    PROVE  SenderOK(t, R) /\ t.ask = s.ask /\ Outcome(s.port, t.port, t.strand, A)
<1> DEFINE set == TRUE
           u == Edit(s, s.port.event_buffer, s.port.unconfirmed, set, s.port.event_buffer)
<1>0. /\ DOMAIN s = StateFields /\ DOMAIN s.port = PortFields /\ s.port.event_buffer \in Seq(Octets)
  BY DEF SenderOK, PortOK
<1> HIDE DEF set
<1>1. SenderOK(u, R) /\ u.strand = s.strand /\ u.ask = s.ask /\ Alike(s.port, u.port)
  BY <1>0, EditFacts
<1>2. CASE ~s.port.enabled
  BY <1>2 DEF ConfirmTimeout, Outcome
<1>3. CASE s.port.enabled
  <2>1. t = u
    BY <1>0, <1>3 DEF ConfirmTimeout, Edit, StateFields, PortFields, set
  <2> HIDE DEF u
  <2>2. Chained(t.port, t.strand, A)
    BY <1>1, <2>1, AlikeChained
  <2> QED
    BY <1>1, <2>1, <2>2 DEF Outcome
<1> QED
  BY <1>2, <1>3

LEMMA TxPathFacts ==
    ASSUME setup \in Setups, setup.UseCRCs, NEW R, NEW s, SenderOK(s, R), s.ask = {}, NEW A,
           Chained(s.port, s.strand, A), NEW path \in Files, NEW modified, NEW t, t = TxPath(s, path, modified)
    PROVE  Starts(t, R, A)
<1> DEFINE known == s.port.ModTimes \cup {path}
           q == [s.port EXCEPT !.ModTimes = known]
           u == [s EXCEPT !.port = q]
<1>0. DOMAIN s = StateFields /\ DOMAIN s.port = PortFields
  BY DEF SenderOK, PortOK
<1>1. t = s \/ t = TrySend(s, path) \/ t = TrySend(u, path)
  BY <1>0 DEF TxPath, StateFields, PortFields
<1> HIDE DEF known
<1>2. /\ DOMAIN q = PortFields /\ q.fin = s.port.fin /\ q.crc = s.port.crc
      /\ q.in_progress = s.port.in_progress /\ q.transfer_reset = s.port.transfer_reset
      /\ q.ConfirmHandler = s.port.ConfirmHandler /\ q.seq = s.port.seq /\ q.filename_q = s.port.filename_q
      /\ q.unconfirmed = s.port.unconfirmed /\ q.event_buffer = s.port.event_buffer
  BY <1>0 DEF PortFields
<1> HIDE DEF q
<1>3. /\ DOMAIN u = StateFields /\ u.port = q /\ u.strand = s.strand /\ u.ask = {} /\ u.publish = s.publish
  BY <1>0 DEF StateFields
<1> HIDE DEF u
<1>4. SenderOK(u, R)
  BY <1>2, <1>3 DEF SenderOK, PortOK, Sent
<1>5. Alike(s.port, u.port)
  BY <1>2, <1>3 DEF Alike
<1>6. Chained(u.port, u.strand, A)
  BY <1>3, <1>5, AlikeChained
<1>7. CASE t = s
  <2>1. A \cup t.ask = A
    BY <1>7
  <2> QED
    BY <1>7, <2>1 DEF Starts
<1>8. CASE t = TrySend(s, path)
  BY <1>8, TrySendFacts
<1>9. CASE t = TrySend(u, path)
  BY <1>3, <1>4, <1>6, <1>9, TrySendFacts
<1> QED
  BY <1>1, <1>7, <1>8, <1>9

\* The head of strand w is taken off: it is what goes on, or that is still to come.
LEMMA TailChained ==
    ASSUME NEW R, NEW w \in Seq(Posted(R)), w # <<>>, NEW p, NEW A, Chained(p, w, A)
    PROVE  /\ Head(w) \in Posted(R) /\ Tail(w) \in Seq(Posted(R))
           /\ Head(w).kind \in Going => /\ Free(p, Tail(w), A) /\ p.in_progress
                                        /\ Linked(p, Head(w).kind, Head(w).arg)
           /\ Head(w).kind \notin Going => Chained(p, Tail(w), A)
<1> DEFINE v == Tail(w)
           n == Len(w)
<1>1. /\ n \in Nat /\ n # 0 /\ DOMAIN w = 1 .. n /\ DOMAIN v = 1 .. n - 1 /\ Head(w) = w[1]
      /\ v \in Seq(Posted(R)) /\ w[1] \in Posted(R) /\ \A i \in 1 .. n - 1 : v[i] = w[i + 1]
  OBVIOUS
<1>2. /\ 1 \in 1 .. n
      /\ \A i \in 1 .. n - 1 : i + 1 \in 1 .. n /\ i + 1 # 1
      /\ \A i \in 1 .. n : i # 1 => i - 1 \in 1 .. n - 1 /\ (i - 1) + 1 = i
  BY <1>1
<1>3. \A i, j \in 1 .. n - 1 : i + 1 = j + 1 => i = j
  BY <1>1
<1> HIDE DEF v, n
<1>4. Still(w) => Still(v)
  BY <1>1, <1>2 DEF Still
<1>5. CASE w[1].kind \in Going
  <2>1. ~Still(w)
    BY <1>1, <1>2, <1>5 DEF Still
  <2>2. Reading(p, w, A) /\ p.in_progress
    BY <2>1 DEF Chained, Free, Answering, Confirming
  <2>3. PICK i \in 1 .. n : /\ w[i].kind \in Going /\ Linked(p, w[i].kind, w[i].arg)
                            /\ \A j \in 1 .. n : w[j].kind \in Going => j = i
    BY <1>1, <2>2 DEF Reading
  <2>4. i = 1
    BY <1>2, <1>5, <2>3
  <2>5. Still(v)
    BY <1>1, <1>2, <2>3, <2>4 DEF Still
  <2>6. Free(p, v, A)
    BY <2>2, <2>5 DEF Free, Reading
  <2> QED
    BY <1>1, <1>5, <2>2, <2>3, <2>4, <2>6 DEF v
<1>6. CASE w[1].kind \notin Going
  <2>1. Reading(p, w, A) => Reading(p, v, A)
    <3>1. SUFFICES ASSUME Reading(p, w, A) PROVE Reading(p, v, A)
      OBVIOUS
    <3>2. PICK i \in 1 .. n : /\ w[i].kind \in Going /\ Linked(p, w[i].kind, w[i].arg)
                              /\ \A j \in 1 .. n : w[j].kind \in Going => j = i
      BY <1>1, <3>1 DEF Reading
    <3>3. i # 1
      BY <1>6, <3>2
    <3>4. i - 1 \in 1 .. n - 1 /\ v[i - 1] = w[i]
      BY <1>1, <1>2, <3>3
    <3>5. ASSUME NEW j \in 1 .. n - 1, v[j].kind \in Going PROVE j = i - 1
      <4>1. w[j + 1].kind \in Going /\ j + 1 \in 1 .. n
        BY <1>1, <1>2, <3>5
      <4>2. j + 1 = i
        BY <3>2, <4>1
      <4> QED
        BY <1>1, <1>2, <1>3, <3>3, <3>4, <4>2
    <3>6. v[i - 1].kind \in Going /\ Linked(p, v[i - 1].kind, v[i - 1].arg)
      BY <3>2, <3>4
    <3> HIDE DEF v
    <3> QED
      BY <1>1, <3>1, <3>4, <3>5, <3>6 DEF Reading
  <2>2. Chained(p, v, A)
    BY <1>4, <2>1 DEF Chained, Free, Answering, Confirming
  <2> QED
    BY <1>1, <1>6, <2>2 DEF v
<1> QED
  BY <1>5, <1>6

\* The head of strand w runs.
LEMMA HandleFacts ==
    ASSUME setup \in Setups, setup.UseCRCs, NEW R, NEW w \in Seq(Posted(R)), w # <<>>,
           NEW s, DOMAIN s = StateFields, PortOK(s.port), Sent(s.port), s.strand = Tail(w),
           s.publish = <<>>, s.ask = {}, NEW A, Chained(s.port, w, A),
           NEW next, Head(w).kind = "try" => next \in Files, NEW t, t = Handle(Head(w), next, s)
    PROVE  /\ SenderOK(t, R) /\ t.ask \subseteq Files
           /\ t.ask # {} => A = {}
           /\ Outcome(s.port, t.port, t.strand, A \cup t.ask)
           /\ Head(w).kind = "confirm" /\ Head(w).arg.unsol => Forgets(s, t, R)
<1> DEFINE h == Head(w)
           Good == /\ SenderOK(t, R) /\ t.ask \subseteq Files
                   /\ t.ask # {} => A = {}
                   /\ Outcome(s.port, t.port, t.strand, A \cup t.ask)
           Fine == SenderOK(t, R) /\ t.ask = s.ask /\ Outcome(s.port, t.port, t.strand, A)
<1>0. /\ h \in Posted(R) /\ Tail(w) \in Seq(Posted(R))
      /\ h.kind \in Going => /\ Free(s.port, Tail(w), A) /\ s.port.in_progress /\ Linked(s.port, h.kind, h.arg)
      /\ h.kind \notin Going => Chained(s.port, Tail(w), A)
  BY TailChained
<1>1. SenderOK(s, R)
  <2>1. s.publish \in Seq(Octets)
    OBVIOUS
  <2> QED
    BY <1>0, <2>1 DEF SenderOK
<1>2. ASSUME Fine PROVE Good
  <2>1. t.ask = {} /\ A \cup t.ask = A
    BY <1>2
  <2> QED
    BY <1>2, <2>1
<1> HIDE DEF h
<1>3. /\ h.kind \in {"try", "chunk", "answer", "trigger", "confirm", "timeout", "idle", "enable", "disable"}
      /\ h.kind \in {"chunk", "answer"} => h.arg \in Files
      /\ h.kind = "trigger" => h.arg.path \in Files
      /\ h.kind = "confirm" => h.arg \in Reports(R)
      /\ h.kind = "enable" => setup.MaxTxDisables # 0
  BY <1>0, PostedFacts
<1>4. ASSUME h.kind \in Going
      PROVE  /\ Free(s.port, s.strand, {}) /\ A = {} /\ s.port.in_progress = TRUE
             /\ Linked(s.port, h.kind, h.arg) /\ h.arg \in Files
  BY <1>0, <1>3, <1>4 DEF Going, Free, PortOK
<1>5. ASSUME h.kind \notin Going PROVE Chained(s.port, s.strand, A)
  BY <1>0, <1>5
<1>6. t = Handle(h, next, s) /\ (h.kind = "try" => next \in Files)
  BY DEF h
<1>7. CASE h.kind = "trigger"
  <2>1. t = TxPath(s, h.arg.path, h.arg.only_modified)
    BY <1>6, <1>7 DEF Handle
  <2>2. Chained(s.port, s.strand, A) /\ h.arg.path \in Files
    BY <1>3, <1>5, <1>7 DEF Going
  <2>3. Starts(t, R, A)
    BY <1>1, <2>1, <2>2, TxPathFacts
  <2> QED
    BY <1>7, <2>3 DEF Starts, Outcome, h
<1>8. CASE h.kind = "try"
  <2>1. t = TrySend(s, next)
    BY <1>6, <1>8 DEF Handle
  <2>2. Chained(s.port, s.strand, A) /\ next \in Files
    BY <1>5, <1>6, <1>8 DEF Going
  <2>3. Starts(t, R, A)
    BY <1>1, <2>1, <2>2, TrySendFacts
  <2> QED
    BY <1>8, <2>3 DEF Starts, Outcome, h
<1>9. CASE h.kind = "chunk"
  <2>1. /\ Free(s.port, s.strand, {}) /\ A = {} /\ s.port.in_progress = TRUE
        /\ Linked(s.port, "chunk", h.arg) /\ h.arg \in Files
    BY <1>4, <1>9 DEF Going
  <2>2. t = IF s.port.enabled THEN SendChunk(s, h.arg) ELSE s
    BY <1>6, <1>9 DEF Handle
  <2>3. SenderOK(t, R) /\ t.ask = s.ask /\ Chained(t.port, t.strand, {})
    <3>1. CASE s.port.enabled
      BY <1>1, <2>1, <2>2, <3>1, SendChunkFacts
    <3>2. CASE ~s.port.enabled
      BY <1>1, <2>1, <2>2, <3>2 DEF Chained
    <3> QED
      BY <3>1, <3>2
  <2>4. Good
    BY <1>2, <2>1, <2>3 DEF Outcome
  <2> QED
    BY <1>9, <2>4 DEF h
<1>10. CASE h.kind = "answer"
  <2>1. /\ Free(s.port, s.strand, {}) /\ A = {} /\ s.port.in_progress = TRUE
        /\ Linked(s.port, "answer", h.arg) /\ h.arg \in Files
    BY <1>4, <1>10 DEF Going
  <2>2. t = SendFile(s, h.arg)
    BY <1>6, <1>10 DEF Handle
  <2>3. SenderOK(t, R) /\ t.ask = s.ask /\ Chained(t.port, t.strand, {})
    BY <1>1, <2>1, <2>2, SendFileFacts
  <2>4. Good
    BY <1>2, <2>1, <2>3 DEF Outcome
  <2> QED
    BY <1>10, <2>4 DEF h
<1>11. CASE h.kind = "confirm"
  <2>1. t = ConfirmEvent(s, h.arg)
    BY <1>6, <1>11 DEF Handle
  <2>2. Chained(s.port, s.strand, A) /\ h.arg \in Reports(R)
    BY <1>3, <1>5, <1>11 DEF Going
  <2>3. /\ SenderOK(t, R) /\ t.ask = s.ask /\ Outcome(s.port, t.port, t.strand, A)
        /\ h.arg.unsol => Forgets(s, t, R)
    <3>1. PICK m : m = h.arg
      OBVIOUS
    <3>2. m \in Reports(R) /\ t = ConfirmEvent(s, m)
      BY <2>1, <2>2, <3>1
    <3>3. /\ SenderOK(t, R) /\ t.ask = s.ask /\ Outcome(s.port, t.port, t.strand, A)
          /\ m.unsol => Forgets(s, t, R)
      <4> HIDE DEF Good, Fine
      <4> QED
        BY <1>1, <2>2, <3>2, ConfirmEventFacts, Zenon
    <3> QED
      BY <3>1, <3>3, Zenon
  <2>4. Good
    BY <1>2, <2>3
  <2> QED
    BY <2>3, <2>4 DEF h
<1>12. CASE h.kind \in {"timeout", "idle", "enable", "disable"}
  <2>1. Chained(s.port, s.strand, A)
    BY <1>5, <1>12 DEF Going
  <2>2. CASE h.kind = "timeout"
    <3>1. t = ConfirmTimeout(s)
      BY <1>6, <2>2 DEF Handle
    <3>2. Fine
      BY <1>1, <2>1, <3>1, ConfirmTimeoutFacts
    <3> QED
      BY <1>2, <2>2, <3>2 DEF h
  <2>3. CASE h.kind = "idle"
    <3>1. t = ResetTransfer(s)
      BY <1>6, <2>3 DEF Handle
    <3>2. Fine
      BY <1>1, <2>1, <3>1, ResetTransferFacts
    <3> QED
      BY <1>2, <2>3, <3>2 DEF h
  <2>4. CASE h.kind = "enable"
    <3>1. t = Enable(s)
      BY <1>6, <2>4 DEF Handle
    <3>2. setup.MaxTxDisables # 0
      BY <1>3, <2>4
    <3>3. Fine
      BY <1>1, <2>1, <3>1, <3>2, EnableFacts
    <3> QED
      BY <1>2, <2>4, <3>3 DEF h
  <2>5. CASE h.kind = "disable"
    <3>1. t = Disable(s)
      BY <1>6, <2>5 DEF Handle
    <3>2. Fine
      BY <1>1, <2>1, <3>1, DisableFacts
    <3> QED
      BY <1>2, <2>5, <3>2 DEF h
  <2> QED
    BY <1>12, <2>2, <2>3, <2>4, <2>5
<1> QED
  BY <1>3, <1>7, <1>8, <1>9, <1>10, <1>11, <1>12

-----------------------------------------------------------------------------
(* What is under way                                                       *)

LEMMA TakeNothing ==
    ASSUME NEW b, NEW R, Carries(b, R), NEW c, c = b (-) Nothing
    PROVE  Carries(c, R) /\ Awaited(c) = Awaited(b)
<1>1. /\ DOMAIN c = {d \in DOMAIN b : b[d] > 0} /\ \A d \in DOMAIN c : c[d] = b[d]
  BY DEF (-), Nothing, EmptyBag, SetToBag
<1>2. \A f \in Awaited(b) : Message("answer", f) \in DOMAIN b /\ b[Message("answer", f)] > 0
  BY DEF Carries, Awaited, BagToSet
<1>3. Awaited(c) = Awaited(b)
  BY <1>1, <1>2 DEF Awaited, BagToSet
<1> QED
  BY <1>1, <1>3 DEF Carries, Awaited, BagToSet

LEMMA TakeOne ==
    ASSUME NEW b, NEW R, Carries(b, R), NEW m \in BagToSet(b), NEW c, c = b (-) One(m)
    PROVE  /\ Carries(c, R)
           /\ m.kind # "answer" => Awaited(c) = Awaited(b)
           /\ m.kind = "answer" => Awaited(c) = Awaited(b) \ {m.what} /\ m.what \in Awaited(b)
<1>1. /\ DOMAIN c = {d \in DOMAIN b : (IF d = m THEN b[d] - 1 ELSE b[d]) > 0}
      /\ \A d \in DOMAIN c : c[d] = IF d = m THEN b[d] - 1 ELSE b[d]
  BY DEF (-), One, SetToBag
<1>2. \A f \in Awaited(b) : Message("answer", f) \in DOMAIN b /\ b[Message("answer", f)] = 1
  BY DEF Carries, Awaited, BagToSet
<1>3. m \in DOMAIN b /\ m \in Messages(R)
  BY DEF BagToSet, Carries
<1>4. \A f : Message("answer", f).kind = "answer" /\ Message("answer", f).what = f
  BY DEF Message
<1>5. ASSUME m.kind = "answer" PROVE m.what \in Files /\ m = Message("answer", m.what)
  BY <1>3, <1>5 DEF Messages, Message
<1>6. ASSUME NEW f \in Files, Message("answer", f) # m
      PROVE  f \in Awaited(c) <=> f \in Awaited(b)
  <2> DEFINE x == Message("answer", f)
  <2> HIDE DEF x
  <2>1. x \in DOMAIN b => b[x] > 0
    BY <1>2, <1>6 DEF Awaited, BagToSet, x
  <2>2. x \in DOMAIN c <=> x \in DOMAIN b
    BY <1>1, <1>6, <2>1 DEF x
  <2> QED
    BY <2>2 DEF Awaited, BagToSet, x
<1>7. ASSUME m.kind # "answer" PROVE Awaited(c) = Awaited(b)
  <2>1. \A f \in Files : f \in Awaited(c) <=> f \in Awaited(b)
    BY <1>4, <1>6, <1>7
  <2> QED
    BY <2>1 DEF Awaited
<1>8. ASSUME m.kind = "answer" PROVE Awaited(c) = Awaited(b) \ {m.what} /\ m.what \in Awaited(b)
  <2>1. m.what \in Awaited(b)
    BY <1>3, <1>5, <1>8 DEF Awaited, BagToSet
  <2>2. m \notin DOMAIN c
    <3>1. b[m] = 1
      BY <1>2, <1>5, <1>8, <2>1
    <3> QED
      BY <1>1, <3>1
  <2>3. m.what \notin Awaited(c)
    BY <1>5, <1>8, <2>2 DEF Awaited, BagToSet
  <2>4. \A f \in Files : f # m.what => (f \in Awaited(c) <=> f \in Awaited(b))
    BY <1>4, <1>6
  <2> QED
    BY <2>1, <2>3, <2>4 DEF Awaited
<1>9. ASSUME NEW f \in Awaited(c) PROVE c[Message("answer", f)] = 1
  <2>1. f \in Awaited(b) /\ Message("answer", f) \in DOMAIN c
    BY <1>7, <1>8 DEF Awaited, BagToSet
  <2>2. Message("answer", f) # m
    BY <1>4, <1>8
  <2> QED
    BY <1>1, <1>2, <2>1, <2>2
<1>10. BagToSet(c) \subseteq Messages(R)
  BY <1>1 DEF BagToSet, Carries
<1> QED
  BY <1>7, <1>8, <1>9, <1>10 DEF Carries

LEMMA AddOther ==
    ASSUME NEW b, NEW R, Carries(b, R), NEW d, DOMAIN d \subseteq Messages(R),
           \A m \in DOMAIN d : m.kind # "answer", NEW c, c = b (+) d
    PROVE  Carries(c, R) /\ Awaited(c) = Awaited(b)
<1>1. /\ DOMAIN c = DOMAIN b \cup DOMAIN d
      /\ \A m \in DOMAIN b : m \notin DOMAIN d => c[m] = b[m] + 0
  BY DEF (+)
<1>2. \A f : Message("answer", f) \notin DOMAIN d
  BY DEF Message
<1>3. Awaited(c) = Awaited(b)
  BY <1>1, <1>2 DEF Awaited, BagToSet
<1>4. ASSUME NEW f \in Awaited(c) PROVE c[Message("answer", f)] = 1
  <2>1. Message("answer", f) \in DOMAIN b /\ b[Message("answer", f)] = 1
    BY <1>3 DEF Awaited, BagToSet, Carries
  <2> QED
    BY <1>1, <1>2, <2>1
<1> QED
  BY <1>1, <1>3, <1>4 DEF Carries, BagToSet

LEMMA AddAnswers ==
    ASSUME NEW b, NEW R, Carries(b, R), NEW ask, ask \subseteq Files, ask \cap Awaited(b) = {},
           NEW c, c = b (+) SetToBag({Message("answer", f) : f \in ask})
    PROVE  Carries(c, R) /\ Awaited(c) = Awaited(b) \cup ask
<1> DEFINE D == {Message("answer", f) : f \in ask}
<1>1. /\ DOMAIN c = DOMAIN b \cup D
      /\ \A m \in DOMAIN b : m \notin D => c[m] = b[m] + 0
      /\ \A m \in D : m \notin DOMAIN b => c[m] = 0 + 1
  BY DEF (+), SetToBag
<1>2. \A f : Message("answer", f) \in D <=> f \in ask
  BY DEF Message
<1>3. D \subseteq Messages(R)
  BY DEF Messages, Message
<1> HIDE DEF D
<1>4. Awaited(c) = Awaited(b) \cup ask
  BY <1>1, <1>2 DEF Awaited, BagToSet
<1>5. ASSUME NEW f \in Awaited(c) PROVE c[Message("answer", f)] = 1
  <2>1. CASE f \in ask
    <3>1. Message("answer", f) \in D /\ Message("answer", f) \notin DOMAIN b
      BY <1>2, <2>1 DEF Awaited, BagToSet
    <3> QED
      BY <1>1, <3>1
  <2>2. CASE f \notin ask
    <3>1. f \in Awaited(b) /\ Message("answer", f) \notin D
      BY <1>2, <1>4, <2>2
    <3>2. Message("answer", f) \in DOMAIN b /\ b[Message("answer", f)] = 1
      BY <3>1 DEF Awaited, BagToSet, Carries
    <3> QED
      BY <1>1, <3>1, <3>2
  <2> QED
    BY <2>1, <2>2
<1> QED
  BY <1>1, <1>3, <1>4, <1>5 DEF Carries, BagToSet

LEMMA PublishedFacts ==
    ASSUME NEW kind, kind # "answer", NEW S, NEW M, \A e \in S : Message(kind, e) \in M, NEW events \in Seq(S)
    PROVE  /\ DOMAIN Published(kind, events) \subseteq M
           /\ \A m \in DOMAIN Published(kind, events) : m.kind # "answer"
<1>1. DOMAIN Published(kind, events) = {Message(kind, events[i]) : i \in DOMAIN events}
  BY DEF Published
<1>2. \A i \in DOMAIN events : events[i] \in S
  OBVIOUS
<1>3. \A e : Message(kind, e).kind = kind
  BY DEF Message
<1> QED
  BY <1>1, <1>2, <1>3

-----------------------------------------------------------------------------
(* The steps of the sender                                                 *)

\* What is said of a state is said of the next one by the same setup.
LEMMA SameSetup ==
    ASSUME setup' = setup, NEW Q, received' = Q
    PROVE  /\ Octets' = Octets /\ Posted(received)' = Posted(Q) /\ Messages(received)' = Messages(Q)
<1>1. Octets' = Octets
  BY DEF Octets, Follows, Items, Index, Sequence
<1>2. Reports(received)' = Reports(Q)
  BY DEF Reports, Done
<1> QED
  BY <1>1, <1>2 DEF Posted, Messages

\* A state of the sender, when the receiver has received the files Q.
LEMMA SenderInvMade ==
    ASSUME setup' = setup, NEW Q, received' = Q,
           NEW p, tx' = p, NEW w, strand' = w, NEW b, net' = b,
           PortOK(p), Sent(p), w \in Seq(Posted(Q)), Chained(p, w, Awaited(b)), Carries(b, Q)
    PROVE  SenderInv' /\ NetInv'
<1>1. /\ Octets' = Octets /\ Posted(received)' = Posted(Q) /\ Messages(received)' = Messages(Q)
  BY SameSetup
<1>2. Awaited(net)' = Awaited(b)
  BY DEF Awaited
<1>3. PortOK(tx)'
  BY <1>1 DEF PortOK
<1>4. Sent(tx)'
  BY DEF Sent, Done
<1>5. Chained(tx, strand, Awaited(net))'
  BY <1>2 DEF Chained, Free, Answering, Confirming, Reading, Linked, Idling
<1>6. NetInv'
  BY <1>1, <1>2 DEF NetInv, Carries
<1> QED
  BY <1>1, <1>3, <1>4, <1>5, <1>6 DEF SenderInv

LEMMA SenderInvKept ==
    ASSUME setup' = setup, received' = received,
           NEW p, tx' = p, NEW w, strand' = w, NEW b, net' = b,
           PortOK(p), Sent(p), w \in Seq(Posted(received)), Chained(p, w, Awaited(b)), Carries(b, received)
    PROVE  SenderInv' /\ NetInv'
<1> DEFINE R == received
<1>1. received' = R /\ w \in Seq(Posted(R)) /\ Carries(b, R)
  OBVIOUS
<1> HIDE DEF R
<1> QED
  BY <1>1, SenderInvMade

LEMMA UnderwayWhenNotFree ==
    ASSUME NEW p, tx' = p, NEW w, strand' = w, NEW b, net' = b, ~Free(p, w, Awaited(b))
    PROVE  Underway'
<1>1. Underway' <=> \/ p.ConfirmHandler.kind \in {"chunk", "eof"}
                    \/ \E i \in DOMAIN w : w[i].kind \in {"answer", "chunk"}
                    \/ \E m \in BagToSet(b) : m.kind = "answer"
  BY DEF Underway
<1>2. CASE ~Still(w)
  BY <1>1, <1>2 DEF Still, Going
<1>3. CASE ~Idling(p)
  BY <1>1, <1>3 DEF Idling, Waiting
<1>4. CASE Awaited(b) # {}
  <2>1. PICK f : Message("answer", f) \in BagToSet(b)
    BY <1>4 DEF Awaited
  <2>2. Message("answer", f).kind = "answer"
    BY DEF Message
  <2> QED
    BY <1>1, <2>1, <2>2
<1> QED
  BY <1>2, <1>3, <1>4 DEF Free

\* What a handler leaves behind, when bag b is left under way.
LEMMA SenderStep ==
    ASSUME NEW s, NEW b, SenderOK(s, received), s.ask \subseteq Files, Carries(b, received),
           s.ask \cap Awaited(b) = {}, Outcome(tx, s.port, s.strand, Awaited(b) \cup s.ask), Orderly,
           tx' = s.port, strand' = s.strand, setup' = setup, received' = received,
           net' = (b (+) Published("event", s.publish)) (+) SetToBag({Message("answer", f) : f \in s.ask})
    PROVE  SenderInv' /\ NetInv'
<1> DEFINE c == b (+) Published("event", s.publish)
           d == c (+) SetToBag({Message("answer", f) : f \in s.ask})
<1>1. s.publish \in Seq(Octets) /\ PortOK(s.port) /\ Sent(s.port) /\ s.strand \in Seq(Posted(received))
  BY DEF SenderOK
<1>2. /\ DOMAIN Published("event", s.publish) \subseteq Messages(received)
      /\ \A m \in DOMAIN Published("event", s.publish) : m.kind # "answer"
  <2>1. \A e \in Octets : Message("event", e) \in Messages(received)
    BY DEF Messages, Message
  <2> QED
    BY <1>1, <2>1, PublishedFacts
<1>3. Carries(c, received) /\ Awaited(c) = Awaited(b)
  BY <1>2, AddOther
<1> HIDE DEF c
<1>4. s.ask \cap Awaited(c) = {}
  BY <1>3
<1>5. Carries(d, received) /\ Awaited(d) = Awaited(c) \cup s.ask
  BY <1>3, <1>4, AddAnswers
<1>6. net' = d
  BY DEF c
<1> HIDE DEF d
<1>7. Outcome(tx, s.port, s.strand, Awaited(d))
  BY <1>3, <1>5
<1>8. Chained(s.port, s.strand, Awaited(d))
  <2>1. SUFFICES ASSUME Broken(tx, s.port, s.strand, Awaited(d)) PROVE FALSE
    BY <1>7 DEF Outcome
  <2>2. tx.in_progress /\ ~tx'.in_progress /\ ~Free(s.port, s.strand, Awaited(d))
    BY <2>1 DEF Broken
  <2>3. Underway'
    BY <1>6, <2>2, UnderwayWhenNotFree
  <2>4. ~Steady
    BY <2>1 DEF Broken
  <2> QED
    BY <2>2, <2>3, <2>4 DEF Abandons, Orderly
<1> QED
  BY <1>1, <1>5, <1>6, <1>8, SenderInvKept

LEMMA StateFacts ==
    ASSUME SenderInv
    PROVE  /\ SenderOK(State, received) /\ State.port = tx /\ State.strand = strand /\ State.publish = <<>>
           /\ State.ask = {} /\ State.saved = saved
<1>1. /\ DOMAIN State = StateFields /\ State.port = tx /\ State.strand = strand /\ State.publish = <<>>
      /\ State.ask = {} /\ State.saved = saved
  BY DEF State, StateFields
<1>2. <<>> \in Seq(Octets)
  OBVIOUS
<1> QED
  BY <1>1, <1>2 DEF SenderOK, SenderInv

\* Something is posted that goes on with nothing.
LEMMA PostOther ==
    ASSUME NEW R, NEW s, SenderOK(s, R), NEW kind, NEW arg, [kind |-> kind, arg |-> arg] \in Posted(R),
           kind \notin Going, NEW t, t = Post(s, kind, arg)
    PROVE  SenderOK(t, R) /\ t.port = s.port /\ t.ask = s.ask /\ t.publish = s.publish /\ Longer(R, s.strand, t.strand)
<1> DEFINE h == [kind |-> kind, arg |-> arg]
<1>1. h.kind = kind
  OBVIOUS
<1> HIDE DEF h
<1>2. /\ DOMAIN t = StateFields /\ t.port = s.port /\ t.publish = s.publish /\ t.ask = s.ask
      /\ t.strand = Append(s.strand, h)
  BY PostFacts DEF SenderOK, h
<1>3. Longer(R, s.strand, t.strand)
  BY <1>1, <1>2 DEF Longer, h
<1>4. s.strand \in Seq(Posted(R))
  BY DEF SenderOK
<1>5. t.strand \in Seq(Posted(R))
  BY <1>3, <1>4, LongerChained
<1> QED
  BY <1>2, <1>3, <1>5 DEF SenderOK

\* A step that only posts such a thing, to a port that is alike, and leaves bag b.
LEMMA QuietStep ==
    ASSUME SenderInv, NEW s, NEW b, SenderOK(s, received), s.ask = {}, Longer(received, strand, s.strand),
           Alike(tx, s.port), Carries(b, received), Awaited(b) = Awaited(net), Orderly,
           tx' = s.port, strand' = s.strand, setup' = setup, received' = received,
           net' = (b (+) Published("event", s.publish)) (+) SetToBag({Message("answer", f) : f \in s.ask})
    PROVE  SenderInv' /\ NetInv'
<1>1. strand \in Seq(Posted(received)) /\ Chained(tx, strand, Awaited(net))
  BY DEF SenderInv
<1> DEFINE A == Awaited(b)
           p == tx
           w == strand
           R == received
<1>2. Outcome(p, p, w, A)
  BY <1>1 DEF Outcome
<1>3. w \in Seq(Posted(R)) /\ Longer(R, w, s.strand) /\ Alike(p, s.port)
  BY <1>1
<1> HIDE DEF A, p, w, R
<1>4. Outcome(p, s.port, s.strand, A)
  BY <1>2, <1>3, SameOutcome
<1>5. A \cup s.ask = A /\ s.ask \subseteq Files /\ s.ask \cap A = {}
  OBVIOUS
<1>6. Outcome(tx, s.port, s.strand, Awaited(b) \cup s.ask) /\ s.ask \cap Awaited(b) = {}
  BY <1>4, <1>5 DEF A, p
<1> QED
  BY <1>5, <1>6, SenderStep

LEMMA StrandRunsKeeps ==
    ASSUME setup \in Setups, setup.UseCRCs, SenderInv, NetInv, StrandRuns, Orderly
    PROVE  /\ SenderInv' /\ NetInv'
           /\ Head(strand).kind = "confirm" /\ Head(strand).arg.unsol =>
                \A f \in tx.unconfirmed : f \in tx'.unconfirmed \cup tx'.filename_q \cup received
<1> DEFINE s == [State EXCEPT !.strand = Tail(@)]
           A == Awaited(net)
<1>1. PICK next, t : /\ t = Handle(Head(strand), next, s) /\ Sender(t, Nothing) /\ strand # <<>>
                     /\ next \in IF Head(strand).kind = "try" THEN Head(strand).arg ELSE {NoFile}
  BY DEF StrandRuns
<1>2. /\ SenderOK(State, received) /\ State.port = tx /\ State.strand = strand /\ State.publish = <<>>
      /\ State.ask = {}
  BY StateFacts
<1>3. /\ DOMAIN s = StateFields /\ s.port = tx /\ s.strand = Tail(strand) /\ s.publish = <<>> /\ s.ask = {}
  BY <1>2 DEF SenderOK, StateFields
<1>4. strand \in Seq(Posted(received)) /\ PortOK(s.port) /\ Sent(s.port) /\ Chained(s.port, strand, A)
  BY <1>3 DEF SenderInv
<1>0. Head(strand).kind = "try" => next \in Files
  <2>1. Head(strand) \in Posted(received)
    BY <1>1, <1>4
  <2> QED
    BY <1>1, <2>1, PostedFacts
<1> HIDE DEF s, A
<1>5. /\ SenderOK(t, received) /\ t.ask \subseteq Files
      /\ t.ask # {} => A = {}
      /\ Outcome(s.port, t.port, t.strand, A \cup t.ask)
      /\ Head(strand).kind = "confirm" /\ Head(strand).arg.unsol => Forgets(s, t, received)
  BY <1>0, <1>1, <1>3, <1>4, HandleFacts
<1>6. /\ tx' = t.port /\ strand' = t.strand /\ setup' = setup /\ received' = received
      /\ net' = ((net (-) Nothing) (+) Published("event", t.publish)) (+) SetToBag({Message("answer", f) : f \in t.ask})
  BY <1>1 DEF Sender, rxVars
<1> DEFINE b == net (-) Nothing
<1>7. Carries(b, received) /\ Awaited(b) = A
  BY TakeNothing DEF NetInv, A
<1>8. net' = (b (+) Published("event", t.publish)) (+) SetToBag({Message("answer", f) : f \in t.ask})
  BY <1>6
<1> HIDE DEF b
<1>9. t.ask \cap Awaited(b) = {} /\ Outcome(tx, t.port, t.strand, Awaited(b) \cup t.ask)
  BY <1>3, <1>5, <1>7
<1>10. SenderInv' /\ NetInv'
  BY <1>5, <1>6, <1>7, <1>8, <1>9, SenderStep
<1> QED
  BY <1>3, <1>5, <1>6, <1>10 DEF Forgets

\* A step that posts something that goes on with nothing.
LEMMA PostKeeps ==
    ASSUME SenderInv, NetInv, Orderly, NEW kind, NEW arg, [kind |-> kind, arg |-> arg] \in Posted(received),
           kind \notin Going, Sender(Post(State, kind, arg), Nothing)
    PROVE  SenderInv' /\ NetInv'
<1> DEFINE b == net (-) Nothing
           R == received
           s == Post(State, kind, arg)
<1>1. /\ SenderOK(State, received) /\ State.port = tx /\ State.strand = strand /\ State.publish = <<>>
      /\ State.ask = {}
  BY StateFacts
<1>2. SenderOK(s, R) /\ s.port = tx /\ s.ask = {} /\ s.publish = <<>> /\ Longer(R, strand, s.strand)
  BY <1>1, PostOther
<1>3. Carries(b, R) /\ Awaited(b) = Awaited(net)
  BY TakeNothing DEF NetInv
<1>4. /\ tx' = s.port /\ strand' = s.strand /\ setup' = setup /\ received' = received
      /\ net' = (b (+) Published("event", s.publish)) (+) SetToBag({Message("answer", f) : f \in s.ask})
  BY DEF Sender, rxVars
<1>5. Alike(tx, s.port)
  BY <1>2 DEF Alike
<1> HIDE DEF s, b
<1> QED
  BY <1>2, <1>3, <1>4, <1>5, QuietStep

LEMMA TriggerKeeps ==
    ASSUME SenderInv, NetInv, Orderly, NEW f \in Files, NEW only_modified \in BOOLEAN, Trigger(f, only_modified)
    PROVE  SenderInv' /\ NetInv'
<1> DEFINE arg == [path |-> f, only_modified |-> only_modified]
<1>1. [kind |-> "trigger", arg |-> arg] \in Posted(received) /\ "trigger" \notin Going
  BY PostedMade DEF Going
<1>2. Sender(Post(State, "trigger", arg), Nothing)
  BY DEF Trigger
<1> HIDE DEF arg
<1> QED
  BY <1>1, <1>2, PostKeeps

LEMMA SenderIdleKeeps ==
    ASSUME SenderInv, NetInv, Orderly, SenderIdle
    PROVE  SenderInv' /\ NetInv'
<1>1. [kind |-> "idle", arg |-> NoFile] \in Posted(received) /\ "idle" \notin Going
  BY PostedMade DEF Going
<1>2. Sender(Post(State, "idle", NoFile), Nothing)
  BY DEF SenderIdle
<1> QED
  BY <1>1, <1>2, PostKeeps

LEMMA ConfirmTimerKeeps ==
    ASSUME SenderInv, NetInv, Orderly, ConfirmTimerExpires
    PROVE  SenderInv' /\ NetInv'
<1> DEFINE b == net (-) Nothing
           R == received
           u == Post(State, "timeout", NoFile)
           off == FALSE
           s == Edit(u, u.port.event_buffer, u.port.unconfirmed, off, u.publish)
<1>1. /\ SenderOK(State, received) /\ State.port = tx /\ State.strand = strand /\ State.publish = <<>>
      /\ State.ask = {}
  BY StateFacts
<1>2. [kind |-> "timeout", arg |-> NoFile] \in Posted(received) /\ "timeout" \notin Going
  BY PostedMade DEF Going
<1>3. SenderOK(u, R) /\ u.port = tx /\ u.ask = {} /\ u.publish = <<>> /\ Longer(R, strand, u.strand)
  BY <1>1, <1>2, PostOther
<1>4. Sender([u EXCEPT !.port.ConfirmTimer = FALSE], Nothing)
  BY DEF ConfirmTimerExpires
<1> HIDE DEF u
<1>5. /\ DOMAIN u = StateFields /\ DOMAIN u.port = PortFields /\ u.port.event_buffer \in Seq(Octets)
      /\ u.publish \in Seq(Octets)
  BY <1>3 DEF SenderOK, PortOK
<1>6. [u EXCEPT !.port.ConfirmTimer = FALSE] = s
  BY <1>5 DEF Edit, StateFields, PortFields
<1> HIDE DEF off
<1>7. SenderOK(s, R) /\ s.strand = u.strand /\ s.ask = u.ask /\ Alike(u.port, s.port)
  <2>1. SenderOK(u, R) /\ u.port.event_buffer \in Seq(Octets) /\ u.publish \in Seq(Octets)
    BY <1>3, <1>5
  <2> QED
    BY <2>1, EditFacts
<1>8. Carries(b, R) /\ Awaited(b) = Awaited(net)
  BY TakeNothing DEF NetInv
<1>9. Sender(s, Nothing)
  BY <1>4, <1>6
<1> HIDE DEF s
<1>10. /\ tx' = s.port /\ strand' = s.strand /\ setup' = setup /\ received' = received
       /\ net' = (b (+) Published("event", s.publish)) (+) SetToBag({Message("answer", f) : f \in s.ask})
  BY <1>9 DEF Sender, rxVars
<1> HIDE DEF b
<1> QED
  BY <1>3, <1>7, <1>8, <1>10, QuietStep

LEMMA SenderDisablesKeeps ==
    ASSUME setup \in Setups, disables \in Nat, SenderInv, NetInv, Orderly, SenderDisables \/ SenderEnables
    PROVE  SenderInv' /\ NetInv'
<1>1. setup.MaxTxDisables # 0
  BY SetupFacts DEF SenderDisables, SenderEnables
<1>2. \A k \in {"enable", "disable"} : [kind |-> k, arg |-> NoFile] \in Posted(received) /\ k \notin Going
  BY <1>1, PostedMade DEF Going
<1>3. PICK k \in {"enable", "disable"} : Sender(Post(State, k, NoFile), Nothing)
  BY DEF SenderDisables, SenderEnables
<1> QED
  BY <1>2, <1>3, PostKeeps

LEMMA SenderGetsKeeps ==
    ASSUME SenderInv, NetInv, Orderly, NEW m \in BagToSet(net), SenderGets(m)
    PROVE  SenderInv' /\ NetInv'
<1> DEFINE b == net (-) One(m)
           R == received
           s == Post(State, m.kind, m.what)
<1>1. /\ SenderOK(State, received) /\ State.port = tx /\ State.strand = strand /\ State.publish = <<>>
      /\ State.ask = {}
  BY StateFacts
<1>2. /\ Carries(b, R)
      /\ m.kind # "answer" => Awaited(b) = Awaited(net)
      /\ m.kind = "answer" => Awaited(b) = Awaited(net) \ {m.what} /\ m.what \in Awaited(net)
  BY TakeOne DEF NetInv
<1>3. /\ tx' = s.port /\ strand' = s.strand /\ setup' = setup /\ received' = received
      /\ net' = (b (+) Published("event", s.publish)) (+) SetToBag({Message("answer", f) : f \in s.ask})
  BY DEF SenderGets, Sender, rxVars
<1> HIDE DEF b
<1>4. m \in Messages(received) /\ m.kind \in {"confirm", "answer"}
  BY DEF SenderGets, NetInv, Carries
<1>5. CASE m.kind = "confirm"
  <2>1. [kind |-> m.kind, arg |-> m.what] \in Posted(received) /\ m.kind \notin Going
    <3>1. m.what \in Reports(received)
      BY <1>4, <1>5 DEF Messages
    <3> QED
      BY <1>5, <3>1, PostedMade DEF Going
  <2>2. SenderOK(s, R) /\ s.port = tx /\ s.ask = {} /\ s.publish = <<>> /\ Longer(R, strand, s.strand)
    BY <1>1, <2>1, PostOther
  <2>3. Alike(tx, s.port)
    BY <2>2 DEF Alike
  <2> HIDE DEF s
  <2> QED
    BY <1>2, <1>3, <1>5, <2>2, <2>3, QuietStep
<1>6. CASE m.kind = "answer"
  <2> DEFINE f == m.what
  <2>1. Chained(tx, strand, Awaited(net)) /\ f \in Awaited(net) /\ Awaited(b) = Awaited(net) \ {f} /\ f \in Files
    BY <1>2, <1>6 DEF SenderInv, Awaited
  <2> HIDE DEF f
  <2>2. Answering(tx, strand, Awaited(net)) /\ tx.in_progress
    BY <2>1 DEF Chained, Free, Confirming, Reading
  <2>3. Still(strand) /\ Idling(tx) /\ Awaited(net) = {f} /\ Linked(tx, "answer", f)
    BY <2>1, <2>2 DEF Answering
  <2>4. Awaited(b) = {} /\ Free(State.port, State.strand, {}) /\ Linked(State.port, "answer", f)
    BY <1>1, <2>1, <2>3 DEF Free
  <2>5. s = Post(State, "answer", f) /\ "answer" \in Going
    BY <1>6 DEF f, Going
  <2> HIDE DEF s
  <2>6. SenderOK(s, R) /\ s.ask = State.ask /\ s.port = State.port /\ Reading(s.port, s.strand, {})
    BY <1>1, <2>1, <2>4, <2>5, PostGoing
  <2>7. Chained(s.port, s.strand, {})
    BY <1>1, <2>2, <2>6 DEF Chained
  <2>8. /\ Outcome(tx, s.port, s.strand, Awaited(b) \cup s.ask) /\ s.ask \cap Awaited(b) = {} /\ s.ask \subseteq Files
    <3>1. Awaited(b) \cup s.ask = {} /\ s.ask \cap Awaited(b) = {} /\ s.ask \subseteq Files
      BY <1>1, <2>4, <2>6
    <3> QED
      BY <2>7, <3>1 DEF Outcome
  <2> QED
    BY <1>2, <1>3, <2>6, <2>8, SenderStep
<1> QED
  BY <1>4, <1>5, <1>6

LEMMA LoseKeeps ==
    ASSUME SenderInv, NetInv, NEW m \in BagToSet(net), Lose(m)
    PROVE  SenderInv' /\ NetInv'
<1> DEFINE b == net (-) One(m)
<1>1. Carries(b, received) /\ Awaited(b) = Awaited(net)
  BY TakeOne DEF NetInv, Lose
<1>2. setup' = setup /\ received' = received /\ tx' = tx /\ strand' = strand /\ net' = b
  BY DEF Lose, txVars, rxVars
<1> HIDE DEF b
<1>3. PortOK(tx) /\ Sent(tx) /\ strand \in Seq(Posted(received)) /\ Chained(tx, strand, Awaited(b))
  BY <1>1 DEF SenderInv
<1> QED
  BY <1>1, <1>2, <1>3, SenderInvKept

LEMMA RestartKeeps ==
    ASSUME setup \in Setups, setup.UseCRCs, SenderInv, NetInv, Restart
    PROVE  SenderInv' /\ NetInv'
<1> DEFINE n == [State EXCEPT !.port = NewPort, !.strand = <<>>]
           s == Enable(n)
           dead == {m \in BagToSet(net) : m.kind = "answer"}
           b == [m \in BagToSet(net) \ dead |-> net[m]]
           R == received
<1>1. /\ tx' = s.port /\ strand' = s.strand /\ setup' = setup /\ received' = received /\ net' = b
  BY DEF Restart, rxVars
<1>2. Awaited(b) = {} /\ Carries(b, R)
  <2>1. DOMAIN b = BagToSet(net) \ dead
    OBVIOUS
  <2>2. \A f \in Files : Message("answer", f) \notin BagToSet(net) \ dead
    BY DEF Message
  <2> HIDE DEF b
  <2>3. Awaited(b) = {}
    BY <2>1, <2>2 DEF Awaited, BagToSet
  <2> QED
    BY <2>1, <2>3 DEF Carries, NetInv, BagToSet
<1>3. /\ DOMAIN n = StateFields /\ n.port = NewPort /\ n.strand = <<>> /\ n.publish = <<>> /\ n.ask = {}
  BY DEF State, StateFields
<1>4. /\ DOMAIN NewPort = PortFields /\ NewPort.fin = Closed /\ NewPort.in_progress = FALSE
      /\ NewPort.transfer_reset = FALSE /\ NewPort.seq = Start /\ NewPort.crc = <<>>
      /\ NewPort.event_buffer = <<>> /\ NewPort.filename_q = {} /\ NewPort.unconfirmed = {}
      /\ NewPort.ConfirmHandler = NoHandler
  BY DEF NewPort, PortFields, NoCRC
<1>5. /\ DOMAIN Closed = StreamFields /\ Closed.pos = 0 /\ 0 \in Nat
  BY DEF Closed, StreamFields
<1>6. /\ <<>> \in Seq(Octets) /\ <<>> \in Seq(Items) /\ <<>> \in Seq(Posted(R)) /\ Start \in Sequence
  BY SequenceFacts
<1>7. PortOK(NewPort) /\ Sent(NewPort)
  <2> HIDE DEF NewPort, Closed
  <2> QED
    BY <1>4, <1>5, <1>6 DEF PortOK, Sent
<1>8. SenderOK(n, R)
  BY <1>3, <1>6, <1>7 DEF SenderOK
<1>9. Chained(n.port, n.strand, {})
  BY <1>3, <1>4 DEF Chained, Free, Still, Idling, NoHandler, Waiting
<1> HIDE DEF n
<1>10. SenderOK(s, R) /\ Outcome(n.port, s.port, s.strand, {})
  BY <1>3, <1>4, <1>8, <1>9, EnableFacts
<1>11. Chained(s.port, s.strand, Awaited(b))
  BY <1>2, <1>3, <1>4, <1>10 DEF Outcome, Broken
<1> HIDE DEF s, b
<1>12. PortOK(s.port) /\ Sent(s.port) /\ s.strand \in Seq(Posted(R))
  BY <1>10 DEF SenderOK
<1> QED
  BY <1>1, <1>2, <1>11, <1>12, SenderInvKept

-----------------------------------------------------------------------------
(* The receiver's handlers: what each makes of the port's state r          *)

RxFields == {"port", "disk", "received", "confirms"}

\* The receiver's part of the invariant, of a state that a handler works on.
RxOK(r) ==
    /\ DOMAIN r = RxFields /\ ReceiverOK(r.port) /\ r.disk \in [Files -> Seq(Contents)] /\ r.received \subseteq Files
    /\ Filed(r.port, r.disk) /\ Got(r.port, r.received) /\ r.confirms \in Seq(Reports(r.received))

LEMMA PopFacts ==
    ASSUME NEW b, Buffered(b), NEW i \in Index, b[i] # <<>>
    PROVE  /\ Head(b[i]) \in Octets /\ Head(b[i]).index = i
           /\ Buffered([b EXCEPT ![i] = Tail(b[i])])
<1> DEFINE s == b[i]
           c == [b EXCEPT ![i] = Tail(s)]
<1>1. /\ s \in Seq(Octets) /\ DOMAIN b = Index /\ \A j \in DOMAIN s : s[j].index = i
  BY DEF Buffered
<1>2. /\ Head(s) \in Octets /\ 1 \in DOMAIN s /\ Head(s) = s[1] /\ Tail(s) \in Seq(Octets)
      /\ \A j \in DOMAIN Tail(s) : j + 1 \in DOMAIN s /\ Tail(s)[j] = s[j + 1]
  BY <1>1
<1>3. \A j \in DOMAIN Tail(s) : Tail(s)[j].index = i
  BY <1>1, <1>2
<1>4. DOMAIN c = Index /\ c[i] = Tail(s) /\ c = [k \in Index |-> c[k]] /\ \A k \in Index : k # i => c[k] = b[k]
  BY <1>1
<1> HIDE DEF s, c
<1>5. \A k \in Index : c[k] \in Seq(Octets) /\ \A j \in DOMAIN c[k] : c[k][j].index = k
  <2> DEFINE t == Tail(s)
  <2>1. t \in Seq(Octets) /\ c[i] = t /\ \A j \in DOMAIN t : t[j].index = i
    BY <1>2, <1>3, <1>4
  <2> HIDE DEF t
  <2>2. \A k \in Index : k # i => c[k] = b[k]
    BY <1>4
  <2> QED
    BY <2>1, <2>2 DEF Buffered
<1>6. Buffered(c)
  BY <1>4, <1>5 DEF Buffered
<1> QED
  BY <1>1, <1>2, <1>6 DEF s, c

LEMMA KeepFacts ==
    ASSUME NEW b, Buffered(b), NEW e \in Octets
    PROVE  Buffered([b EXCEPT ![e.index] = Append(b[e.index], e)])
<1> DEFINE i == e.index
           s == Append(b[i], e)
           c == [b EXCEPT ![i] = s]
<1>1. i \in Index
  BY OctetFacts
<1>2. /\ b[i] \in Seq(Octets) /\ DOMAIN b = Index /\ \A j \in DOMAIN b[i] : b[i][j].index = i
  BY <1>1 DEF Buffered
<1>3. /\ s \in Seq(Octets) /\ \A j \in DOMAIN s : (j \in DOMAIN b[i] /\ s[j] = b[i][j]) \/ s[j] = e
  BY <1>2
<1>4. \A j \in DOMAIN s : s[j].index = i
  BY <1>2, <1>3
<1>5. DOMAIN c = Index /\ c[i] = s /\ c = [k \in Index |-> c[k]] /\ \A k \in Index : k # i => c[k] = b[k]
  BY <1>1, <1>2
<1> HIDE DEF s, c, i
<1>6. \A k \in Index : c[k] \in Seq(Octets) /\ \A j \in DOMAIN c[k] : c[k][j].index = k
  BY <1>3, <1>4, <1>5 DEF Buffered
<1>7. Buffered(c)
  BY <1>5, <1>6 DEF Buffered
<1> QED
  BY <1>7 DEF i, s, c

LEMMA EmptyBuffered == Buffered(Empty)
<1>1. \A i \in Index : Empty[i] = <<>> /\ Empty[i] \in Seq(Octets) /\ DOMAIN Empty[i] = {}
  BY DEF Empty
<1>2. Empty = [i \in Index |-> Empty[i]]
  BY DEF Empty
<1> QED
  BY <1>1, <1>2 DEF Buffered

\* Changes to what waits, to the timer and to being enabled.
Rebuffer(r, b, timer, on) ==
    [r EXCEPT !.port = [r.port EXCEPT !.event_buffer = b, !.TransferTimeoutTimer = timer, !.enabled = on]]

LEMMA RebufferFacts ==
    ASSUME NEW r, RxOK(r), NEW b, Buffered(b), NEW timer, NEW on, NEW t, t = Rebuffer(r, b, timer, on)
    PROVE  /\ RxOK(t) /\ t.port.in_progress = r.port.in_progress /\ t.port.seq = r.port.seq
           /\ t.port.crc = r.port.crc /\ t.port.event_buffer = b /\ t.received = r.received
           /\ t.port.fout = r.port.fout /\ t.port.Filename = r.port.Filename /\ t.disk = r.disk
           /\ t.port.transfer_reset = r.port.transfer_reset
<1> DEFINE q == [r.port EXCEPT !.event_buffer = b, !.TransferTimeoutTimer = timer, !.enabled = on]
<1>1. DOMAIN r = RxFields /\ DOMAIN r.port = ReceiverFields
  BY DEF RxOK, ReceiverOK
<1>2. /\ DOMAIN q = ReceiverFields /\ q.in_progress = r.port.in_progress
      /\ q.transfer_reset = r.port.transfer_reset /\ q.fout = r.port.fout /\ q.seq = r.port.seq
      /\ q.crc = r.port.crc /\ q.Filename = r.port.Filename /\ q.event_buffer = b
  BY <1>1 DEF ReceiverFields
<1>3. t = [r EXCEPT !.port = q]
  BY DEF Rebuffer
<1> HIDE DEF q
<1>4. DOMAIN t = RxFields /\ t.port = q /\ t.disk = r.disk /\ t.received = r.received /\ t.confirms = r.confirms
  BY <1>1, <1>3 DEF RxFields
<1>5. ReceiverOK(q)
  BY <1>2 DEF RxOK, ReceiverOK
<1>6. Filed(q, r.disk) /\ Got(q, r.received)
  BY <1>2 DEF RxOK, Filed, Got
<1> QED
  BY <1>2, <1>4, <1>5, <1>6 DEF RxOK

\* A step of the sequence, with the confirmation that its last number calls for.
LEMMA AdvanceFacts ==
    ASSUME NEW r, RxOK(r), NEW t, t = BumpSequence(ConfirmCheck(r))
    PROVE  RxOK(t) /\ t.port.in_progress = r.port.in_progress /\ t.received = r.received
<1> DEFINE c == ConfirmCheck(r)
           q == [r.port EXCEPT !.seq = IF r.port.seq = Stop THEN Start ELSE r.port.seq + 1]
<1>1. DOMAIN r = RxFields /\ DOMAIN r.port = ReceiverFields /\ r.port.seq \in Sequence
  BY DEF RxOK, ReceiverOK
<1>2. WholeSequence \in Reports(r.received)
  <2>1. 0 \in Nat /\ NoCRC \in Seq(Items) /\ Done(NoCRC) \subseteq r.received
    BY DoneNothing DEF NoCRC
  <2> QED
    BY <2>1 DEF WholeSequence, Confirm, Reports
<1>3. /\ DOMAIN c = RxFields /\ c.port = r.port /\ c.disk = r.disk /\ c.received = r.received
      /\ c.confirms \in Seq(Reports(r.received))
  BY <1>1, <1>2 DEF ConfirmCheck, RxFields, RxOK
<1>4. t = [c EXCEPT !.port = q]
  <2> HIDE DEF c
  <2> QED
    BY <1>1, <1>3 DEF BumpSequence, RxFields, ReceiverFields, c
<1>5. /\ DOMAIN q = ReceiverFields /\ q.in_progress = r.port.in_progress
      /\ q.transfer_reset = r.port.transfer_reset /\ q.fout = r.port.fout
      /\ q.crc = r.port.crc /\ q.Filename = r.port.Filename /\ q.event_buffer = r.port.event_buffer
      /\ q.seq = IF r.port.seq = Stop THEN Start ELSE r.port.seq + 1
  BY <1>1 DEF ReceiverFields
<1> HIDE DEF c, q
<1>6. /\ DOMAIN t = RxFields /\ t.port = q /\ t.disk = r.disk /\ t.received = r.received
      /\ t.confirms \in Seq(Reports(r.received))
  BY <1>3, <1>4 DEF RxFields
<1>7. q.seq \in Sequence
  BY <1>1, <1>5, SequenceFacts
<1>8. ReceiverOK(q)
  BY <1>5, <1>7 DEF RxOK, ReceiverOK
<1>9. Filed(q, r.disk) /\ Got(q, r.received)
  BY <1>5 DEF RxOK, Filed, Got
<1> QED
  BY <1>5, <1>6, <1>8, <1>9 DEF RxOK

LEMMA ContentFacts ==
    /\ Old \in Contents /\ Absent \in Seq(Contents) /\ <<>> \in Seq(Contents)
    /\ \A f \in Files, k \in Nat : Chunk(f, k) \in Contents
<1>1. \A f \in Files, k \in Nat : Chunk(f, k) \in Contents
  BY DEF Contents, Items, Chunk, Item
<1>2. Old \in Contents /\ Item("absent", NoFile, 0) \in Contents
  BY DEF Contents
<1> QED
  BY <1>1, <1>2 DEF Absent

\* A file that is opened holds none of the chunks to come.
LEMMA OpenedPartly ==
    ASSUME NEW f \in Files, NEW s \in Seq(Contents), Rests(f, s),
           NEW d, d = IF setup.Mode = "APPEND" /\ s # Absent THEN s ELSE <<>>
    PROVE  d \in Seq(Contents) /\ Partly(f, d, 0)
<1>1. CASE setup.Mode = "APPEND" /\ s # Absent
  <2>1. CASE f \in setup.Existing /\ s = <<Old>>
    <3>1. DOMAIN s = {1} /\ s[1] = Old /\ Len(s) = 1 /\ s # <<>>
      BY <2>1
    <3> QED
      BY <1>1, <2>1, <3>1 DEF Partly, Placed, Ends
  <2>2. CASE Copies(f, s)
    BY <1>1, <2>2 DEF Partly, Copies, Ends
  <2> QED
    BY <1>1, <2>1, <2>2 DEF Rests, Whole
<1>2. CASE ~(setup.Mode = "APPEND" /\ s # Absent)
  <2>1. d = <<>> /\ d \in Seq(Contents) /\ DOMAIN d = {}
    BY <1>2
  <2>2. d = [i \in 1 .. 0 |-> Chunk(f, i)]
    BY <2>1
  <2> QED
    BY <2>1, <2>2 DEF Partly
<1> QED
  BY <1>1, <1>2

LEMMA WrittenPartly ==
    ASSUME setup \in Setups, NEW f \in Files, NEW s \in Seq(Contents), NEW k \in Nat, k + 1 <= setup.Chunks[f],
           Partly(f, s, k), NEW d, d = Append(s, Chunk(f, k + 1))
    PROVE  d \in Seq(Contents) /\ Partly(f, d, k + 1)
<1> DEFINE x == Chunk(f, k + 1)
           n == Len(s)
           c == setup.Chunks[f]
<1>1. c \in Nat /\ k + 1 \in 1 .. c /\ k + 1 # 0 /\ (k + 1) - 1 = k /\ k + 1 \in Nat
  BY SetupFacts
<1>2. x \in Contents
  BY <1>1, ContentFacts
<1> HIDE DEF x
<1>3. d = Append(s, x)
  BY DEF x
<1>4. /\ d \in Seq(Contents) /\ n \in Nat /\ DOMAIN s = 1 .. n /\ DOMAIN d = 1 .. n + 1 /\ d[n + 1] = x
      /\ Len(d) = n + 1 /\ d # <<>>
      /\ \A i \in 1 .. n : d[i] = s[i]
  BY <1>2, <1>3
<1> HIDE DEF n
<1>5. CASE setup.Mode = "APPEND"
  <2>1. /\ \A i \in 1 .. n : Placed(f, s, i)
        /\ IF k = 0 THEN s = <<>> \/ Ends(s, Old) \/ Ends(s, Chunk(f, c)) ELSE Ends(s, Chunk(f, k))
    BY <1>4, <1>5 DEF Partly
  <2>2. ASSUME NEW i \in 1 .. n PROVE Placed(f, d, i)
    <3>1. i = 1 \/ (i - 1 \in 1 .. n /\ i > 1)
      BY <1>4
    <3>2. d[i] = s[i] /\ (i > 1 => d[i - 1] = s[i - 1])
      BY <1>4, <3>1
    <3> QED
      BY <2>1, <3>2, <3>1 DEF Placed
  <2>3. Placed(f, d, n + 1)
    <3>1. (n + 1) - 1 = n
      BY <1>4
    <3>2. CASE k = 0
      <4>1. s = <<>> => n = 0
        BY DEF n
      <4>2. s # <<>> => n \in 1 .. n /\ s[n] \in {Old, Chunk(f, c)}
        BY <1>4, <2>1, <3>2 DEF Ends, n
      <4>3. n + 1 = 1 \/ d[n] \in {Old, Chunk(f, c)}
        BY <1>4, <4>1, <4>2
      <4>4. k + 1 = 1
        BY <3>2
      <4> QED
        BY <1>1, <1>4, <3>1, <4>3, <4>4 DEF Placed, x
    <3>3. CASE k # 0
      <4>1. n \in 1 .. n /\ s[n] = Chunk(f, k)
        BY <1>4, <2>1, <3>3 DEF Ends, n
      <4>2. d[(n + 1) - 1] = Chunk(f, (k + 1) - 1) /\ n + 1 > 1 /\ k + 1 # 1
        BY <1>1, <1>4, <3>1, <3>3, <4>1
      <4> QED
        BY <1>1, <1>4, <4>2 DEF Placed, x
    <3> QED
      BY <3>2, <3>3
  <2>4. \A i \in DOMAIN d : Placed(f, d, i)
    <3>1. \A i \in 1 .. n + 1 : i \in 1 .. n \/ i = n + 1
      BY <1>4
    <3> QED
      BY <1>4, <2>2, <2>3, <3>1
  <2>5. Ends(d, x)
    BY <1>4 DEF Ends
  <2> QED
    BY <1>1, <1>4, <1>5, <2>4, <2>5 DEF Partly, x
<1>6. CASE setup.Mode # "APPEND"
  <2>1. s = [i \in 1 .. k |-> Chunk(f, i)]
    BY <1>6 DEF Partly
  <2>2. n = k
    BY <1>4, <2>1
  <2>3. \A i \in 1 .. k + 1 : d[i] = Chunk(f, i)
    <3>1. \A i \in 1 .. k + 1 : i \in 1 .. k \/ i = k + 1
      OBVIOUS
    <3> QED
      BY <1>4, <2>1, <2>2, <3>1 DEF x
  <2>4. d = [i \in 1 .. k + 1 |-> d[i]]
    BY <1>4, <2>2
  <2>5. d = [i \in 1 .. k + 1 |-> Chunk(f, i)]
    BY <2>3, <2>4
  <2> QED
    BY <1>4, <1>6, <2>5 DEF Partly
<1> QED
  BY <1>5, <1>6

LEMMA FinishedWhole ==
    ASSUME NEW f \in Files, NEW s \in Seq(Contents), Partly(f, s, setup.Chunks[f])
    PROVE  Rests(f, s)
BY DEF Rests, Whole, Copies, Content, Partly, Ends

\* One turn of the loop of ProcessRxBuffer and ProcessQdFilenames.
Looping(m) ==
    /\ DOMAIN m = {"state", "mode"} /\ RxOK(m.state)
    /\ m.mode = "data" => m.state.port.in_progress = TRUE
    /\ m.mode = "names" => m.state.port.in_progress = FALSE

\* A transfer begins: the chain ends with its name, and its file is empty or
\* ends with a copy, or is left alone.
LEMMA BegunFacts ==
    ASSUME NEW r, RxOK(r), r.port.in_progress = FALSE, NEW f \in Files, NEW t, DOMAIN t = RxFields,
           t.received = r.received, t.confirms = r.confirms, t.disk \in [Files -> Seq(Contents)],
           \A g \in Files : g # f => t.disk[g] = r.disk[g],
           DOMAIN t.port = ReceiverFields, t.port.seq \in Sequence, t.port.crc \in Seq(Items),
           t.port.event_buffer = r.port.event_buffer, t.port.in_progress = TRUE, t.port.transfer_reset = FALSE,
           t.port.fout \in BOOLEAN, t.port.Filename = f, Ends(t.port.crc, At(f, 0)),
           setup.UseConfirms => Done(t.port.crc) \subseteq r.received, setup \in Setups,
           IF t.port.fout THEN Partly(f, t.disk[f], 0) ELSE Rests(f, t.disk[f])
    PROVE  RxOK(t)
<1>1. 0 \in 0 .. setup.Chunks[f]
  BY SetupFacts
<1>2. Buffered(t.port.event_buffer)
  BY DEF RxOK, ReceiverOK
<1>3. ReceiverOK(t.port)
  BY <1>2 DEF ReceiverOK
<1>4. \A g \in Files : g # f => Rests(g, t.disk[g])
  BY DEF RxOK, Filed
<1>5. Filed(t.port, t.disk)
  BY <1>1, <1>4 DEF Filed
<1> QED
  BY <1>3, <1>5 DEF RxOK, Got
LEMMA StartFileFacts ==
    ASSUME setup \in Setups, setup.UseCRCs, NEW r, RxOK(r), r.port.in_progress = FALSE,
           NEW e \in Octets, e.index = NameIndex, NEW m, m = StartFile(r, e)
    PROVE  Looping(m) /\ m.state.received = r.received
<1> DEFINE p == r.port
           f == e.item.path
           crc == Append(e.crc, e.item)
           seq == IF p.transfer_reset /\ ~setup.UseConfirms /\ setup.UseCRCs /\ e.crc = NoCRC THEN Start ELSE p.seq
           d == IF setup.Mode = "APPEND" /\ r.disk[f] # Absent THEN r.disk[f] ELSE <<>>
           q == [p EXCEPT !.seq = seq, !.crc = crc, !.Filename = f, !.in_progress = TRUE, !.transfer_reset = FALSE]
           o == [q EXCEPT !.fout = TRUE]
           synced == [r EXCEPT !.port = q]
           open == [r EXCEPT !.port = o, !.disk = [r.disk EXCEPT ![f] = d]]
<1>1. /\ DOMAIN r = RxFields /\ DOMAIN p = ReceiverFields /\ p.seq \in Sequence /\ p.fout = FALSE
      /\ r.disk \in [Files -> Seq(Contents)] /\ DOMAIN r.disk = Files
  BY DEF RxOK, ReceiverOK, Filed
<1>2. e.item \in Items /\ e.crc \in Seq(Items) /\ \E g \in Files : e.item = At(g, 0)
  BY OctetFacts
<1>3. f \in Files /\ e.item = At(f, 0)
  BY <1>2 DEF At, Item
<1>4. TakeCRC(e.crc, e.item) = crc /\ crc \in Seq(Items) /\ Ends(crc, At(f, 0))
  BY <1>2, <1>3, EndsAppend DEF TakeCRC
<1>5. seq \in Sequence
  BY <1>1, SequenceFacts
<1>6. Rests(f, r.disk[f]) /\ r.disk[f] \in Seq(Contents)
  BY <1>1, <1>3 DEF RxOK, Filed
<1>7. d \in Seq(Contents) /\ Partly(f, d, 0)
  BY <1>3, <1>6, OpenedPartly
<1>8. ASSUME ~setup.UseConfirms \/ e.crc = p.crc PROVE setup.UseConfirms => Done(crc) \subseteq r.received
  <2>1. SUFFICES ASSUME setup.UseConfirms PROVE Done(crc) \subseteq r.received
    OBVIOUS
  <2>2. Done(e.crc) \subseteq r.received
    BY <1>8, <2>1 DEF RxOK, Got
  <2>3. e.item # EOF
    BY <1>3, AtFacts
  <2>4. Done(crc) \subseteq Done(e.crc)
    BY <1>2, <2>3, DoneAppend
  <2> QED
    BY <2>2, <2>4
<1> HIDE DEF crc, seq, d
<1>9. m = IF (~p.transfer_reset \/ setup.UseConfirms) /\ e.crc # p.crc THEN [state |-> r, mode |-> "names"]
          ELSE IF setup.Mode = "FAIL" /\ r.disk[f] # Absent THEN [state |-> synced, mode |-> "done"]
          ELSE [state |-> open, mode |-> "data"]
  <2> DEFINE A == [r EXCEPT !.port.seq = IF p.transfer_reset /\ ~setup.UseConfirms /\ setup.UseCRCs /\ e.crc = NoCRC
                                           THEN Start ELSE @,
                              !.port.crc = TakeCRC(e.crc, e.item),
                              !.port.Filename = f, !.port.in_progress = TRUE, !.port.transfer_reset = FALSE]
             B(a) == [a EXCEPT !.port.fout = TRUE,
                               !.disk[f] = IF setup.Mode = "APPEND" /\ @ # Absent THEN @ ELSE <<>>]
  <2>1. A = synced
    BY <1>1, <1>4 DEF seq, RxFields, ReceiverFields
  <2>2. DOMAIN synced = RxFields /\ synced.port = q /\ DOMAIN q = ReceiverFields /\ synced.disk = r.disk
    BY <1>1 DEF RxFields, ReceiverFields
  <2> HIDE DEF q
  <2>3. B(synced) = open
    BY <1>1, <1>3, <2>2 DEF d, RxFields, ReceiverFields
  <2> HIDE DEF synced, open
  <2>4. m = IF (~p.transfer_reset \/ setup.UseConfirms) /\ e.crc # p.crc THEN [state |-> r, mode |-> "names"]
            ELSE IF setup.Mode = "FAIL" /\ r.disk[f] # Absent THEN [state |-> A, mode |-> "done"]
            ELSE [state |-> B(A), mode |-> "data"]
    BY Zenon DEF StartFile
  <2> HIDE DEF A, B
  <2> QED
    BY <2>1, <2>3, <2>4
<1>10. /\ DOMAIN q = ReceiverFields /\ q.seq = seq /\ q.crc = crc /\ q.Filename = f /\ q.in_progress = TRUE
       /\ q.transfer_reset = FALSE /\ q.fout = p.fout /\ q.event_buffer = p.event_buffer
  BY <1>1 DEF ReceiverFields
<1> HIDE DEF q
<1>11. /\ DOMAIN o = ReceiverFields /\ o.seq = seq /\ o.crc = crc /\ o.Filename = f /\ o.in_progress = TRUE
       /\ o.transfer_reset = FALSE /\ o.fout = TRUE /\ o.event_buffer = p.event_buffer
  BY <1>10 DEF ReceiverFields
<1> HIDE DEF o
<1>12. /\ DOMAIN synced = RxFields /\ synced.port = q /\ synced.disk = r.disk /\ synced.received = r.received
       /\ synced.confirms = r.confirms
  BY <1>1 DEF RxFields
<1> DEFINE disk1 == [r.disk EXCEPT ![f] = d]
<1>13. disk1 \in [Files -> Seq(Contents)] /\ disk1[f] = d /\ \A g \in Files : g # f => disk1[g] = r.disk[g]
  BY <1>1, <1>3, <1>7
<1> HIDE DEF disk1
<1>14. /\ DOMAIN open = RxFields /\ open.port = o /\ open.disk = disk1 /\ open.received = r.received
       /\ open.confirms = r.confirms
  BY <1>1 DEF RxFields, disk1
<1> HIDE DEF synced, open
<1>15. CASE (~p.transfer_reset \/ setup.UseConfirms) /\ e.crc # p.crc
  <2>1. m = [state |-> r, mode |-> "names"]
    BY <1>9, <1>15
  <2> QED
    BY <2>1 DEF Looping
<1>16. CASE ~((~p.transfer_reset \/ setup.UseConfirms) /\ e.crc # p.crc)
  <2>1. setup.UseConfirms => Done(crc) \subseteq r.received
    BY <1>8, <1>16
  <2>2. CASE setup.Mode = "FAIL" /\ r.disk[f] # Absent
    <3>1. m = [state |-> synced, mode |-> "done"]
      BY <1>9, <1>16, <2>2
    <3>2. RxOK(synced)
      BY <1>1, <1>3, <1>4, <1>5, <1>6, <1>10, <1>12, <2>1, BegunFacts
    <3> QED
      BY <1>12, <3>1, <3>2 DEF Looping
  <2>3. CASE ~(setup.Mode = "FAIL" /\ r.disk[f] # Absent)
    <3>1. m = [state |-> open, mode |-> "data"]
      BY <1>9, <1>16, <2>3
    <3>2. RxOK(open)
      BY <1>3, <1>4, <1>5, <1>7, <1>11, <1>13, <1>14, <2>1, BegunFacts
    <3> QED
      BY <1>11, <1>14, <3>1, <3>2 DEF Looping
  <2> QED
    BY <2>2, <2>3
<1> QED
  BY <1>15, <1>16

\* What an event that continues the chain is, in a transfer.
LEMMA NextItem ==
    ASSUME setup \in Setups, NEW r, RxOK(r), r.port.in_progress = TRUE, NEW e \in Octets, e.index # NameIndex,
           e.crc = r.port.crc, NEW f, f = r.port.Filename
    PROVE  /\ f \in Files
           /\ \E k \in 0 .. setup.Chunks[f] :
                /\ IF r.port.fout THEN Partly(f, r.disk[f], k) ELSE Rests(f, r.disk[f])
                /\ IF e.item = EOF THEN k = setup.Chunks[f] ELSE k + 1 <= setup.Chunks[f] /\ e.item = Chunk(f, k + 1)
           /\ \A g \in Files : Ends(e.crc, At(g, setup.Chunks[g])) /\ e.item = EOF => g = f
<1>1. PICK k \in 0 .. setup.Chunks[f] :
         /\ Ends(r.port.crc, At(f, k)) /\ f \in Files
         /\ IF r.port.fout THEN Partly(f, r.disk[f], k) ELSE Rests(f, r.disk[f])
  BY DEF RxOK, Filed
<1>2. \A g \in Files : setup.Chunks[g] \in Nat
  BY SetupFacts
<1>3. Follows(e.crc, e.item) /\ ~\E g \in Files : e.item = At(g, 0)
  BY OctetFacts
<1>4. k \in Nat
  BY <1>1, <1>2
<1>5. ASSUME NEW g \in Files, NEW j \in Nat, Ends(e.crc, At(g, j)) PROVE g = f /\ j = k
  <2>1. At(f, k) = At(g, j)
    BY <1>1, <1>5 DEF Ends
  <2> QED
    BY <1>1, <1>4, <2>1, AtFacts
<1>6. CASE e.item = EOF
  <2>1. ASSUME NEW g \in Files, NEW j \in 1 .. setup.Chunks[g] PROVE Chunk(g, j) # EOF
    BY DEF Chunk, Item, EOF
  <2>2. PICK g \in Files : Ends(e.crc, At(g, setup.Chunks[g]))
    BY <1>3, <1>6, <2>1 DEF Follows
  <2>3. k = setup.Chunks[f]
    BY <1>2, <1>5, <2>2
  <2> QED
    BY <1>1, <1>2, <1>5, <1>6, <2>3
<1>7. CASE e.item # EOF
  <2>1. PICK g \in Files : \E j \in 1 .. setup.Chunks[g] : e.item = Chunk(g, j) /\ Ends(e.crc, At(g, j - 1))
    BY <1>3, <1>7 DEF Follows
  <2>2. PICK j \in 1 .. setup.Chunks[g] : e.item = Chunk(g, j) /\ Ends(e.crc, At(g, j - 1))
    BY <2>1
  <2>3. j - 1 \in Nat /\ j = (j - 1) + 1 /\ j <= setup.Chunks[g]
    BY <1>2
  <2>4. g = f /\ j - 1 = k
    BY <1>5, <2>2, <2>3
  <2>5. k + 1 <= setup.Chunks[f] /\ e.item = Chunk(f, k + 1)
    BY <2>2, <2>3, <2>4
  <2> QED
    BY <1>1, <1>7, <2>5
<1> QED
  BY <1>6, <1>7
LEMMA FinishFileFacts ==
    ASSUME setup \in Setups, setup.UseCRCs, NEW r, RxOK(r), r.port.in_progress = TRUE,
           NEW e \in Octets, e.index # NameIndex, e.crc = r.port.crc, e.item = EOF, NEW t, t = FinishFile(r, e)
    PROVE  RxOK(t) /\ t.port.in_progress = FALSE /\ r.received \subseteq t.received
<1> DEFINE p == r.port
           f == p.Filename
           crc == Append(p.crc, e.item)
           q == [p EXCEPT !.crc = crc, !.fout = FALSE, !.in_progress = FALSE]
           R == r.received \cup {f}
           c == [r EXCEPT !.port = q, !.received = R]
<1>1. /\ DOMAIN r = RxFields /\ ReceiverOK(p) /\ DOMAIN p = ReceiverFields /\ p.crc \in Seq(Items)
      /\ r.disk \in [Files -> Seq(Contents)]
  BY DEF RxOK, ReceiverOK
<1>2. /\ f \in Files
      /\ \E k \in 0 .. setup.Chunks[f] :
           /\ IF p.fout THEN Partly(f, r.disk[f], k) ELSE Rests(f, r.disk[f])
           /\ IF e.item = EOF THEN k = setup.Chunks[f] ELSE k + 1 <= setup.Chunks[f] /\ e.item = Chunk(f, k + 1)
      /\ \A g \in Files : Ends(e.crc, At(g, setup.Chunks[g])) /\ e.item = EOF => g = f
  BY NextItem
<1>3. Rests(f, r.disk[f])
  <2>1. IF p.fout THEN Partly(f, r.disk[f], setup.Chunks[f]) ELSE Rests(f, r.disk[f])
    BY <1>2
  <2>2. r.disk[f] \in Seq(Contents)
    BY <1>1, <1>2
  <2> QED
    BY <1>2, <2>1, <2>2, FinishedWhole
<1>4. crc \in Seq(Items) /\ TakeCRC(p.crc, e.item) = crc
  BY <1>1, OctetFacts DEF TakeCRC
<1>5. Done(crc) \subseteq Done(p.crc) \cup {f}
  <2>1. \A g \in Done(crc) : g \in Done(p.crc) \/ (e.item = EOF /\ Ends(p.crc, At(g, setup.Chunks[g])))
    BY <1>1, DoneAppend
  <2>2. \A g \in Done(crc) : g \in Files
    BY DEF Done
  <2> HIDE DEF crc
  <2> QED
    BY <1>2, <2>1, <2>2
<1> HIDE DEF crc
<1>6. [r EXCEPT !.port.crc = TakeCRC(p.crc, e.item), !.port.fout = FALSE, !.port.in_progress = FALSE,
                !.received = @ \cup {p.Filename}] = c
  BY <1>1, <1>4 DEF RxFields, ReceiverFields
<1>7. t = BumpSequence(ConfirmCheck(c))
  <2> HIDE DEF c
  <2> QED
    BY <1>6, Zenon DEF FinishFile
<1>8. /\ DOMAIN q = ReceiverFields /\ q.seq = p.seq /\ q.crc = crc /\ q.Filename = f /\ q.in_progress = FALSE
      /\ q.transfer_reset = p.transfer_reset /\ q.fout = FALSE /\ q.event_buffer = p.event_buffer
  BY <1>1 DEF ReceiverFields
<1> HIDE DEF q
<1>9. R \subseteq Files /\ r.received \subseteq R
  BY <1>2 DEF RxOK
<1>10. setup.UseConfirms => Done(crc) \subseteq R
  BY <1>5 DEF RxOK, Got
<1> HIDE DEF R
<1>11. DOMAIN c = RxFields /\ c.port = q /\ c.disk = r.disk /\ c.received = R /\ c.confirms = r.confirms
  BY <1>1 DEF RxFields
<1> HIDE DEF c
<1>12. c.confirms \in Seq(Reports(R))
  BY <1>9, <1>11, MoreReceived, SeqGrows DEF RxOK
<1>13. ReceiverOK(q)
  BY <1>1, <1>4, <1>8 DEF ReceiverOK
<1>14. Filed(q, r.disk)
  BY <1>3, <1>8 DEF Filed, RxOK
<1>15. RxOK(c)
  BY <1>1, <1>8, <1>9, <1>10, <1>11, <1>12, <1>13, <1>14 DEF RxOK, Got
<1> QED
  BY <1>7, <1>8, <1>9, <1>11, <1>15, AdvanceFacts

LEMMA WriteChunkFacts ==
    ASSUME setup \in Setups, setup.UseCRCs, NEW r, RxOK(r), r.port.in_progress = TRUE,
           NEW e \in Octets, e.index # NameIndex, e.crc = r.port.crc, e.item # EOF, NEW t, t = WriteChunk(r, e)
    PROVE  RxOK(t) /\ t.port.in_progress = TRUE /\ t.received = r.received
<1> DEFINE p == r.port
           f == p.Filename
           crc == Append(p.crc, e.item)
           q == [p EXCEPT !.crc = crc]
           s == IF p.fout THEN Append(r.disk[f], e.item) ELSE r.disk[f]
           d == [r.disk EXCEPT ![f] = s]
           c == [r EXCEPT !.port = q, !.disk = d]
<1>1. /\ DOMAIN r = RxFields /\ ReceiverOK(p) /\ DOMAIN p = ReceiverFields /\ p.crc \in Seq(Items)
      /\ r.disk \in [Files -> Seq(Contents)] /\ DOMAIN r.disk = Files
  BY DEF RxOK, ReceiverOK
<1>2. f \in Files /\ r.disk[f] \in Seq(Contents) /\ setup.Chunks[f] \in Nat
  BY <1>1, NextItem, SetupFacts
<1>3. PICK k \in 0 .. setup.Chunks[f] :
           /\ IF p.fout THEN Partly(f, r.disk[f], k) ELSE Rests(f, r.disk[f])
           /\ k + 1 <= setup.Chunks[f] /\ e.item = Chunk(f, k + 1)
  <2>1. \E k \in 0 .. setup.Chunks[f] :
           /\ IF p.fout THEN Partly(f, r.disk[f], k) ELSE Rests(f, r.disk[f])
           /\ IF e.item = EOF THEN k = setup.Chunks[f] ELSE k + 1 <= setup.Chunks[f] /\ e.item = Chunk(f, k + 1)
    BY NextItem
  <2> QED
    BY <2>1, Zenon
<1>4. k \in Nat /\ k + 1 \in 0 .. setup.Chunks[f] /\ k + 1 \in Nat /\ k + 1 # 0
  BY <1>2, <1>3
<1>5. s \in Seq(Contents) /\ IF p.fout THEN Partly(f, s, k + 1) ELSE Rests(f, s)
  <2>1. CASE p.fout
    <3>1. s = Append(r.disk[f], Chunk(f, k + 1))
      BY <1>3, <2>1
    <3> QED
      BY <1>2, <1>3, <1>4, <2>1, <3>1, WrittenPartly
  <2>2. CASE ~p.fout
    BY <1>2, <1>3, <2>2
  <2> QED
    BY <2>1, <2>2
<1>6. TakeCRC(p.crc, e.item) = crc /\ crc \in Seq(Items) /\ Ends(crc, At(f, k + 1))
  <2>1. e.item \in Items
    BY OctetFacts
  <2>2. e.item = At(f, k + 1)
    BY <1>2, <1>3, <1>4, AtFacts
  <2> QED
    BY <1>1, <2>1, <2>2, EndsAppend DEF TakeCRC
<1>7. Done(crc) \subseteq Done(p.crc)
  BY <1>1, DoneAppend
<1> HIDE DEF crc
<1>8. [r EXCEPT !.port.crc = TakeCRC(p.crc, e.item),
                !.disk[p.Filename] = IF p.fout THEN Append(@, e.item) ELSE @] = c
  BY <1>1, <1>2, <1>6 DEF RxFields, ReceiverFields
<1>9. t = BumpSequence(ConfirmCheck(c))
  <2> HIDE DEF c
  <2> QED
    BY <1>8, Zenon DEF WriteChunk
<1> HIDE DEF s
<1>10. /\ DOMAIN q = ReceiverFields /\ q.seq = p.seq /\ q.crc = crc /\ q.Filename = f /\ q.in_progress = TRUE
       /\ q.transfer_reset = p.transfer_reset /\ q.fout = p.fout /\ q.event_buffer = p.event_buffer
  BY <1>1 DEF ReceiverFields
<1> HIDE DEF q
<1>11. d \in [Files -> Seq(Contents)] /\ d[f] = s /\ \A g \in Files : g # f => d[g] = r.disk[g]
  BY <1>1, <1>2, <1>5
<1> HIDE DEF d
<1>12. DOMAIN c = RxFields /\ c.port = q /\ c.disk = d /\ c.received = r.received /\ c.confirms = r.confirms
  BY <1>1 DEF RxFields
<1> HIDE DEF c
<1>13. ReceiverOK(q)
  BY <1>1, <1>6, <1>10 DEF ReceiverOK
<1>14. Filed(q, d)
  <2>1. \A g \in Files : g # f => Rests(g, d[g])
    BY <1>11 DEF RxOK, Filed
  <2>2. \E j \in 0 .. setup.Chunks[f] :
           Ends(crc, At(f, j)) /\ IF p.fout THEN Partly(f, d[f], j) ELSE Rests(f, d[f])
    BY <1>4, <1>5, <1>6, <1>11
  <2> QED
    BY <1>2, <1>10, <2>1, <2>2 DEF Filed
<1>15. RxOK(c)
  BY <1>7, <1>10, <1>11, <1>12, <1>13, <1>14 DEF RxOK, Got
<1> QED
  BY <1>9, <1>10, <1>12, <1>15, AdvanceFacts

LEMMA TurnFacts ==
    ASSUME setup \in Setups, setup.UseCRCs, NEW m, Looping(m), NEW n, n = Turn(m)
    PROVE  Looping(n) /\ m.state.received \subseteq n.state.received
<1> DEFINE r == m.state
           b == r.port.event_buffer
           seq == r.port.seq
           data == b[seq]
           names == b[NameIndex]
           Popped(i) == Rebuffer(r, [b EXCEPT ![i] = Tail(b[i])], r.port.TransferTimeoutTimer, r.port.enabled)
<1>1. /\ DOMAIN m = {"state", "mode"} /\ RxOK(r) /\ DOMAIN r = RxFields /\ DOMAIN r.port = ReceiverFields
      /\ Buffered(b) /\ DOMAIN b = Index /\ seq \in Sequence
  BY DEF Looping, RxOK, ReceiverOK, Buffered
<1>2. seq \in Index /\ seq # NameIndex /\ NameIndex \in Index
  BY <1>1, SequenceFacts
<1>3. ASSUME NEW i \in Index PROVE Pop(r, i) = Popped(i)
  BY <1>1 DEF Pop, Rebuffer, RxFields, ReceiverFields
<1>4. ASSUME NEW i \in Index, b[i] # <<>>
      PROVE  /\ Head(b[i]) \in Octets /\ Head(b[i]).index = i /\ RxOK(Pop(r, i)) /\ Pop(r, i).received = r.received
             /\ Pop(r, i).port.in_progress = r.port.in_progress /\ Pop(r, i).port.crc = r.port.crc
  <2> DEFINE c == [b EXCEPT ![i] = Tail(b[i])]
  <2>1. Head(b[i]) \in Octets /\ Head(b[i]).index = i /\ Buffered(c)
    BY <1>1, <1>4, PopFacts
  <2> DEFINE t == Rebuffer(r, c, r.port.TransferTimeoutTimer, r.port.enabled)
  <2>2. Pop(r, i) = t
    BY <1>3
  <2> HIDE DEF c
  <2>3. RxOK(t) /\ t.port.in_progress = r.port.in_progress /\ t.port.crc = r.port.crc /\ t.received = r.received
    BY <1>1, <2>1, RebufferFacts
  <2> QED
    BY <2>1, <2>2, <2>3
<1> HIDE DEF r, b, seq, data, names
<1>5. CASE m.mode = "data" /\ data # <<>>
  <2> DEFINE e == Head(data)
             popped == Pop(r, seq)
  <2>1. n = IF e.crc # r.port.crc THEN [state |-> popped, mode |-> "data"]
            ELSE IF e.item = EOF THEN [state |-> FinishFile(popped, e), mode |-> "names"]
            ELSE [state |-> WriteChunk(popped, e), mode |-> "data"]
    BY <1>5 DEF Turn, r, b, seq, data, names
  <2>2. r.port.in_progress = TRUE
    BY <1>5 DEF Looping, r
  <2>3. /\ e \in Octets /\ e.index # NameIndex /\ RxOK(popped) /\ popped.port.in_progress = TRUE
        /\ popped.port.crc = r.port.crc /\ popped.received = m.state.received
    BY <1>2, <1>4, <1>5, <2>2 DEF data, r
  <2> HIDE DEF e, popped
  <2>4. CASE e.crc # r.port.crc
    <3>1. n = [state |-> popped, mode |-> "data"]
      BY <2>1, <2>4
    <3> QED
      BY <2>3, <3>1 DEF Looping
  <2>5. CASE e.crc = r.port.crc /\ e.item = EOF
    <3> DEFINE t == FinishFile(popped, e)
    <3>1. n = [state |-> t, mode |-> "names"]
      BY <2>1, <2>5
    <3>2. RxOK(t) /\ t.port.in_progress = FALSE /\ popped.received \subseteq t.received
      BY <2>3, <2>5, FinishFileFacts
    <3> HIDE DEF t
    <3> QED
      BY <2>3, <3>1, <3>2 DEF Looping
  <2>6. CASE e.crc = r.port.crc /\ e.item # EOF
    <3> DEFINE t == WriteChunk(popped, e)
    <3>1. n = [state |-> t, mode |-> "data"]
      BY <2>1, <2>6
    <3>2. RxOK(t) /\ t.port.in_progress = TRUE /\ t.received = popped.received
      BY <2>3, <2>6, WriteChunkFacts
    <3> HIDE DEF t
    <3> QED
      BY <2>3, <3>1, <3>2 DEF Looping
  <2> QED
    BY <2>4, <2>5, <2>6
<1>6. CASE m.mode = "names" /\ names # <<>>
  <2>1. n = StartFile(Pop(r, NameIndex), Head(names))
    BY <1>6 DEF Turn, r, b, seq, data, names
  <2>2. r.port.in_progress = FALSE
    BY <1>6 DEF Looping, r
  <2>3. /\ Head(names) \in Octets /\ Head(names).index = NameIndex /\ RxOK(Pop(r, NameIndex))
        /\ Pop(r, NameIndex).port.in_progress = FALSE /\ Pop(r, NameIndex).received = m.state.received
    BY <1>2, <1>4, <1>6, <2>2 DEF names, r
  <2> QED
    BY <2>1, <2>3, StartFileFacts
<1>7. CASE ~(m.mode = "data" /\ data # <<>>) /\ ~(m.mode = "names" /\ names # <<>>)
  <2>1. n = [m EXCEPT !.mode = "done"]
    BY <1>7 DEF Turn, r, b, seq, data, names
  <2>2. DOMAIN n = {"state", "mode"} /\ n.state = m.state /\ n.mode = "done"
    BY <1>1, <2>1
  <2> QED
    BY <2>2 DEF Looping
<1> QED
  BY <1>5, <1>6, <1>7
\* f[k] is where the loop is after k turns.
Loops(m, n, f) ==
    /\ f = [k \in 0 .. n |-> f[k]]
    /\ f[0] = m
    /\ \A k \in 1 .. n : f[k] = Turn(f[k - 1])

LEMMA LoopsExist ==
    ASSUME NEW m, NEW n \in Nat
    PROVE  \E f : Loops(m, n, f)
<1> DEFINE Good == {j \in Nat : \E f : Loops(m, j, f)}
<1>1. 0 \in Good
  <2> DEFINE f == [k \in 0 .. 0 |-> m]
  <2>1. f[0] = m /\ f = [k \in 0 .. 0 |-> f[k]] /\ 1 .. 0 = {}
    OBVIOUS
  <2> HIDE DEF f
  <2>2. Loops(m, 0, f)
    BY <2>1, Zenon DEF Loops
  <2> QED
    BY <2>2
<1>2. ASSUME NEW j \in Nat, j \in Good PROVE j + 1 \in Good
  <2>1. PICK f : Loops(m, j, f)
    BY <1>2
  <2> DEFINE v == Turn(f[j])
             g == [k \in 0 .. j + 1 |-> IF k = j + 1 THEN v ELSE f[k]]
  <2> HIDE DEF v
  <2>2. /\ g = [k \in 0 .. j + 1 |-> g[k]] /\ g[j + 1] = v
        /\ \A k \in 0 .. j : g[k] = f[k]
    OBVIOUS
  <2> HIDE DEF g
  <2>3. g[0] = m
    <3>1. 0 \in 0 .. j
      OBVIOUS
    <3> QED
      BY <2>1, <2>2, <3>1, Zenon DEF Loops
  <2>4. ASSUME NEW k \in 1 .. j + 1 PROVE g[k] = Turn(g[k - 1])
    <3>1. CASE k = j + 1
      <4>1. k - 1 = j /\ j \in 0 .. j
        BY <3>1
      <4>2. g[k - 1] = f[j]
        BY <2>2, <4>1, Zenon
      <4> QED
        BY <2>2, <3>1, <4>2, Zenon DEF v
    <3>2. CASE k # j + 1
      <4>1. k \in 1 .. j /\ k \in 0 .. j /\ k - 1 \in 0 .. j
        BY <3>2
      <4>2. g[k] = f[k] /\ g[k - 1] = f[k - 1]
        BY <2>2, <4>1, Zenon
      <4> QED
        BY <2>1, <4>1, <4>2, Zenon DEF Loops
    <3> QED
      BY <3>1, <3>2
  <2>5. Loops(m, j + 1, g)
    BY <2>2, <2>3, <2>4, Zenon DEF Loops
  <2> QED
    BY <2>5
<1> HIDE DEF Good
<1>3. n \in Good
  BY <1>1, <1>2, NatSetInduction
<1> QED
  BY <1>3 DEF Good

\* The recursive function of Turns.
Looped(m, n) ==
    CHOOSE f : f = [k \in 0 .. n |-> IF k = 0 THEN m ELSE CHOOSE x \in {Turn(y) : y \in {f[k - 1]}} : TRUE]

LEMMA LoopedFacts ==
    ASSUME NEW m, NEW n \in Nat
    PROVE  Loops(m, n, Looped(m, n))
<1> DEFINE Step(x) == CHOOSE t \in {Turn(y) : y \in {x}} : TRUE
           Eq(f) == f = [k \in 0 .. n |-> IF k = 0 THEN m ELSE Step(f[k - 1])]
           a == Looped(m, n)
<1>1. \A x : Step(x) = Turn(x)
  <2>1. ASSUME NEW x PROVE {Turn(y) : y \in {x}} = {Turn(x)}
    OBVIOUS
  <2>2. ASSUME NEW z PROVE (CHOOSE t \in {z} : TRUE) = z
    OBVIOUS
  <2> QED
    BY <2>1, <2>2, Zenon
<1> HIDE DEF Step
<1>2. /\ \A k \in 0 .. n : k = 0 \/ k \in 1 .. n
      /\ \A k \in 1 .. n : k \in 0 .. n /\ k # 0
      /\ 0 \in 0 .. n
  OBVIOUS
<1>3. \E h : Eq(h)
  <2>1. PICK h : Loops(m, n, h)
    BY LoopsExist
  <2> DEFINE r == [k \in 0 .. n |-> IF k = 0 THEN m ELSE Step(h[k - 1])]
  <2>2. \A k \in 0 .. n : r[k] = h[k]
    BY <1>1, <1>2, <2>1, Zenon DEF Loops
  <2>3. r = [k \in 0 .. n |-> r[k]] /\ h = [k \in 0 .. n |-> h[k]]
    BY <2>1, Zenon DEF Loops
  <2>4. h = r
    <3> HIDE DEF r
    <3> QED
      BY <2>2, <2>3
  <2> QED
    BY <2>4
<1>4. Eq(a)
  BY <1>3, Zenon DEF Looped, Step
<1> HIDE DEF a
<1>5. \A k \in 0 .. n : a[k] = IF k = 0 THEN m ELSE Step(a[k - 1])
  BY <1>4, Zenon
<1>6. a = [k \in 0 .. n |-> a[k]]
  <2> DEFINE r == [k \in 0 .. n |-> IF k = 0 THEN m ELSE Step(a[k - 1])]
  <2>1. r = [k \in 0 .. n |-> r[k]]
    BY Zenon
  <2>2. a = r
    BY <1>4, Zenon
  <2> HIDE DEF r
  <2> QED
    BY <2>1, <2>2, Zenon
<1>7. Loops(m, n, a)
  BY <1>1, <1>2, <1>5, <1>6, Zenon DEF Loops
<1> QED
  BY <1>7 DEF a

LEMMA LoopKeeps ==
    ASSUME setup \in Setups, setup.UseCRCs, NEW m, Looping(m), NEW n \in Nat, NEW f, Loops(m, n, f)
    PROVE  RxOK(f[n].state) /\ m.state.received \subseteq f[n].state.received
<1> DEFINE Good == {k \in Nat : k <= n => Looping(f[k]) /\ m.state.received \subseteq f[k].state.received}
<1>1. 0 \in Good
  BY DEF Loops
<1>2. ASSUME NEW k \in Nat, k \in Good PROVE k + 1 \in Good
  <2>1. SUFFICES ASSUME k + 1 <= n PROVE Looping(f[k + 1]) /\ m.state.received \subseteq f[k + 1].state.received
    OBVIOUS
  <2>2. k + 1 \in 1 .. n /\ (k + 1) - 1 = k /\ k <= n
    BY <2>1
  <2>3. f[k + 1] = Turn(f[k])
    BY <2>2 DEF Loops
  <2>4. Looping(f[k]) /\ m.state.received \subseteq f[k].state.received
    BY <1>2, <2>2
  <2> QED
    BY <2>3, <2>4, TurnFacts
<1> HIDE DEF Good
<1>3. n \in Good
  BY <1>1, <1>2, NatSetInduction
<1> QED
  BY <1>3 DEF Good, Looping

\* The number of events that wait.
Size(b) == Cardinality(UNION {{i} \X DOMAIN b[i] : i \in Index})

LEMMA SizeFacts == ASSUME NEW b, Buffered(b) PROVE Size(b) \in Nat
<1> DEFINE D(i) == {i} \X DOMAIN b[i]
           F == {D(i) : i \in Index}
<1>1. IsFiniteSet(Index)
  <2>1. Sequence = Start .. Stop /\ Start \in Int /\ Stop \in Int
    BY RangeAssumption DEF Sequence
  <2>2. IsFiniteSet(Sequence) /\ IsFiniteSet({NameIndex})
    BY <2>1, FS_Interval, FS_Singleton
  <2> QED
    BY <2>2, FS_Union DEF Index
<1>2. ASSUME NEW i \in Index PROVE IsFiniteSet(D(i))
  <2>1. DOMAIN b[i] = 1 .. Len(b[i]) /\ Len(b[i]) \in Int
    BY DEF Buffered
  <2> DEFINE l == Len(b[i])
  <2>2. l \in Int /\ 1 \in Int /\ DOMAIN b[i] = 1 .. l
    BY <2>1
  <2> HIDE DEF l
  <2>3. IsFiniteSet(1 .. l)
    BY <2>2, FS_Interval
  <2>4. IsFiniteSet(DOMAIN b[i]) /\ IsFiniteSet({i})
    BY <2>2, <2>3, FS_Singleton
  <2> QED
    BY <2>4, FS_Product
<1> HIDE DEF D
<1>3. IsFiniteSet(F) /\ \A T \in F : IsFiniteSet(T)
  <2>1. IsFiniteSet(F)
    <3> DEFINE g == [i \in Index |-> D(i)]
    <3>1. g \in Surjection(Index, F)
      BY DEF Surjection
    <3> HIDE DEF g, F
    <3> QED
      BY <1>1, <3>1, FS_Surjection
  <2> QED
    BY <1>2, <2>1
<1>4. IsFiniteSet(UNION F)
  <2> HIDE DEF F
  <2> QED
    BY <1>3, FS_UNION
<1> HIDE DEF F
<1>5. Cardinality(UNION F) \in Nat
  BY <1>4, FS_CardinalityType
<1> QED
  BY <1>5 DEF F, D, Size

LEMMA TurnsFacts ==
    ASSUME setup \in Setups, setup.UseCRCs, NEW m, Looping(m), NEW t, t = Turns(m)
    PROVE  RxOK(t) /\ m.state.received \subseteq t.received
<1> DEFINE n == Size(m.state.port.event_buffer)
           f == Looped(m, n)
<1>1. n \in Nat
  BY SizeFacts DEF Looping, RxOK, ReceiverOK
<1>2. t = f[n].state
  BY Zenon DEF Turns, Looped, Size
<1> HIDE DEF n
<1>3. Loops(m, n, f)
  BY <1>1, LoopedFacts
<1> HIDE DEF f
<1> QED
  BY <1>1, <1>2, <1>3, LoopKeeps
LEMMA RxEventFacts ==
    ASSUME setup \in Setups, setup.UseCRCs, NEW r, RxOK(r), NEW e \in Octets, NEW t, t = RxEvent(r, e)
    PROVE  RxOK(t) /\ r.received \subseteq t.received
<1> DEFINE p == r.port
           set == TRUE
           b == [p.event_buffer EXCEPT ![e.index] = Append(p.event_buffer[e.index], e)]
           timed == Rebuffer(r, p.event_buffer, set, p.enabled)
           kept == Rebuffer(r, b, set, p.enabled)
           A == [r EXCEPT !.port.TransferTimeoutTimer = TRUE]
           B(a) == [a EXCEPT !.port.event_buffer[e.index] = Append(@, e)]
           Cases(a, c) == CASE ~p.enabled -> r
                            [] p.enabled /\ e.index = NameIndex ->
                                 IF p.in_progress THEN c ELSE Turns(StartFile(a, e))
                            [] OTHER -> IF p.in_progress THEN Turns([state |-> c, mode |-> "data"]) ELSE c
<1>1. /\ DOMAIN r = RxFields /\ DOMAIN p = ReceiverFields /\ Buffered(p.event_buffer) /\ p.in_progress \in BOOLEAN
  BY DEF RxOK, ReceiverOK
<1>2. e.index \in Index /\ DOMAIN p.event_buffer = Index
  BY <1>1, OctetFacts DEF Buffered
<1>3. Buffered(b)
  BY <1>1, KeepFacts
<1>4. A = timed
  BY <1>1 DEF Rebuffer, RxFields, ReceiverFields
<1>5. B(timed) = kept
  BY <1>1, <1>2 DEF Rebuffer, RxFields, ReceiverFields
<1> HIDE DEF b, set
<1>6. RxOK(timed) /\ timed.port.in_progress = p.in_progress /\ timed.received = r.received
  BY <1>1, RebufferFacts
<1>7. RxOK(kept) /\ kept.port.in_progress = p.in_progress /\ kept.received = r.received
  BY <1>3, RebufferFacts
<1> HIDE DEF timed, kept
<1>8. t = Cases(timed, kept)
  <2>1. t = Cases(A, B(A))
    BY Zenon DEF RxEvent
  <2> HIDE DEF A, B, Cases
  <2> QED
    BY <1>4, <1>5, <2>1
<1>9. t = r \/ t = kept \/ (e.index = NameIndex /\ ~p.in_progress /\ t = Turns(StartFile(timed, e)))
         \/ (p.in_progress /\ t = Turns([state |-> kept, mode |-> "data"]))
  BY <1>8
<1>10. CASE e.index = NameIndex /\ ~p.in_progress /\ t = Turns(StartFile(timed, e))
  <2> DEFINE m == StartFile(timed, e)
  <2>1. timed.port.in_progress = FALSE
    BY <1>1, <1>6, <1>10
  <2>2. Looping(m) /\ m.state.received = timed.received
    BY <1>6, <1>10, <2>1, StartFileFacts
  <2> HIDE DEF m
  <2>3. t = Turns(m)
    BY <1>10 DEF m
  <2> QED
    BY <1>6, <2>2, <2>3, TurnsFacts
<1>11. CASE p.in_progress /\ t = Turns([state |-> kept, mode |-> "data"])
  <2> DEFINE m == [state |-> kept, mode |-> "data"]
  <2>1. DOMAIN m = {"state", "mode"} /\ m.state = kept /\ m.mode = "data" /\ t = Turns(m)
    BY <1>11
  <2>2. kept.port.in_progress = TRUE
    BY <1>1, <1>7, <1>11
  <2> HIDE DEF m
  <2>3. Looping(m)
    BY <1>7, <2>1, <2>2 DEF Looping
  <2> QED
    BY <1>7, <2>1, <2>3, TurnsFacts
<1> QED
  BY <1>7, <1>9, <1>10, <1>11

LEMMA RxResetFacts ==
    ASSUME NEW r, RxOK(r), NEW t, t = RxResetTransfer(r)
    PROVE  RxOK(t) /\ t.received = r.received
<1> DEFINE p == r.port
           crc == IF setup.UseConfirms THEN NoCRC ELSE p.crc
           seq == IF setup.UseConfirms THEN Start ELSE p.seq
           q == [p EXCEPT !.transfer_reset = TRUE, !.crc = crc, !.seq = seq]
           o == [q EXCEPT !.in_progress = FALSE, !.fout = FALSE]
           f == p.Filename
           d == [r.disk EXCEPT ![f] = Absent]
           reset == [r EXCEPT !.port = q]
           aborted == [r EXCEPT !.port = o, !.disk = d]
<1>1. /\ DOMAIN r = RxFields /\ ReceiverOK(p) /\ DOMAIN p = ReceiverFields /\ p.seq \in Sequence /\ p.crc \in Seq(Items)
      /\ r.disk \in [Files -> Seq(Contents)] /\ DOMAIN r.disk = Files /\ p.in_progress \in BOOLEAN
  BY DEF RxOK, ReceiverOK
<1>2. seq \in Sequence /\ crc \in Seq(Items) /\ (setup.UseConfirms => Done(crc) \subseteq r.received)
  BY <1>1, SequenceFacts, DoneNothing DEF NoCRC
<1> HIDE DEF seq, crc
<1>3. [r EXCEPT !.port.transfer_reset = TRUE, !.port.crc = IF setup.UseConfirms THEN NoCRC ELSE @,
                !.port.seq = IF setup.UseConfirms THEN Start ELSE @] = reset
  BY <1>1 DEF RxFields, ReceiverFields, seq, crc
<1>4. /\ DOMAIN q = ReceiverFields /\ q.seq = seq /\ q.crc = crc /\ q.Filename = f /\ q.in_progress = p.in_progress
      /\ q.transfer_reset = TRUE /\ q.fout = p.fout /\ q.event_buffer = p.event_buffer
  BY <1>1 DEF ReceiverFields
<1>5. [reset EXCEPT !.port.in_progress = FALSE, !.port.fout = FALSE, !.disk[p.Filename] = Absent] = aborted
  <2> HIDE DEF q
  <2> QED
    BY <1>1, <1>4 DEF RxFields, ReceiverFields
<1> HIDE DEF q
<1>6. /\ DOMAIN o = ReceiverFields /\ o.seq = seq /\ o.crc = crc /\ o.in_progress = FALSE
      /\ o.transfer_reset = TRUE /\ o.fout = FALSE /\ o.event_buffer = p.event_buffer
  BY <1>4 DEF ReceiverFields
<1> HIDE DEF o
<1>7. DOMAIN reset = RxFields /\ reset.port = q /\ reset.disk = r.disk /\ reset.received = r.received /\ reset.confirms = r.confirms
  BY <1>1 DEF RxFields
<1>8. ASSUME p.in_progress PROVE f \in Files /\ d \in [Files -> Seq(Contents)] /\ d[f] = Absent /\ \A g \in Files : g # f => d[g] = r.disk[g]
  <2>1. f \in Files
    BY <1>8 DEF RxOK, Filed
  <2> QED
    BY <1>1, <2>1, ContentFacts
<1> HIDE DEF d
<1>9. DOMAIN aborted = RxFields /\ aborted.port = o /\ aborted.disk = d /\ aborted.received = r.received /\ aborted.confirms = r.confirms
  BY <1>1 DEF RxFields
<1> HIDE DEF reset, aborted
<1>10. t = IF p.transfer_reset THEN r ELSE IF ~p.in_progress THEN reset ELSE aborted
  BY <1>3, <1>5, Zenon DEF RxResetTransfer
<1>11. ASSUME ~p.in_progress PROVE RxOK(reset)
  <2>1. ReceiverOK(q)
    BY <1>1, <1>2, <1>4 DEF ReceiverOK
  <2>2. Filed(q, r.disk)
    BY <1>4, <1>11 DEF Filed, RxOK
  <2> QED
    BY <1>1, <1>2, <1>4, <1>7, <2>1, <2>2 DEF RxOK, Got
<1>12. ASSUME p.in_progress PROVE RxOK(aborted)
  <2>1. ReceiverOK(o)
    BY <1>1, <1>2, <1>6 DEF ReceiverOK
  <2>2. \A g \in Files : Rests(g, d[g])
    BY <1>8, <1>12 DEF Rests, RxOK, Filed
  <2>3. Filed(o, d)
    BY <1>6, <2>2 DEF Filed
  <2> QED
    BY <1>2, <1>6, <1>8, <1>9, <1>12, <2>1, <2>3 DEF RxOK, Got
<1> QED
  BY <1>7, <1>9, <1>10, <1>11, <1>12

LEMMA TransferTimeoutFacts ==
    ASSUME NEW r, RxOK(r), NEW t, t = TransferTimeoutHandler(r)
    PROVE  RxOK(t) /\ t.received = r.received
<1> DEFINE p == r.port
           waiting == p.in_progress \/ p.event_buffer # Empty
           c == Confirm(~waiting, ~p.in_progress, p.seq, p.crc)
           reported == [r EXCEPT !.confirms = <<c>>]
           acted == IF setup.UseConfirms THEN reported ELSE IF waiting THEN RxResetTransfer(r) ELSE r
           off == FALSE
<1>1. /\ DOMAIN r = RxFields /\ ReceiverOK(p) /\ p.seq \in Sequence /\ p.crc \in Seq(Items)
      /\ p.in_progress \in BOOLEAN
  BY DEF RxOK, ReceiverOK
<1>2. p.seq \in Nat
  BY <1>1, SequenceFacts
<1>3. ASSUME setup.UseConfirms PROVE c \in Reports(r.received)
  <2>1. Done(p.crc) \subseteq r.received
    BY <1>3 DEF RxOK, Got
  <2>2. (~waiting) \in BOOLEAN /\ (~p.in_progress) \in BOOLEAN
    BY Zenon
  <2> DEFINE x == ~waiting
             y == ~p.in_progress
  <2>3. x \in BOOLEAN /\ y \in BOOLEAN /\ c = Confirm(x, y, p.seq, p.crc)
    BY <2>2, Zenon
  <2> HIDE DEF x, y, c
  <2> QED
    BY <1>1, <1>2, <2>1, <2>3 DEF Reports, Confirm
<1> HIDE DEF waiting, c
<1>4. RxOK(acted) /\ acted.received = r.received
  <2>1. CASE setup.UseConfirms
    <3>1. /\ DOMAIN reported = RxFields /\ reported.port = p /\ reported.disk = r.disk
          /\ reported.received = r.received /\ reported.confirms = <<c>>
      BY <1>1 DEF RxFields
    <3>2. acted = reported
      BY <2>1
    <3> HIDE DEF reported, acted
    <3>3. <<c>> \in Seq(Reports(r.received))
      BY <1>3, <2>1
    <3> QED
      BY <2>1, <3>1, <3>2, <3>3 DEF RxOK
  <2>2. CASE ~setup.UseConfirms /\ waiting
    <3>1. acted = RxResetTransfer(r)
      BY <2>2
    <3> HIDE DEF acted
    <3> QED
      BY <3>1, RxResetFacts
  <2>3. CASE ~setup.UseConfirms /\ ~waiting
    BY <2>3
  <2> QED
    BY <2>1, <2>2, <2>3
<1>5. t = [acted EXCEPT !.port.event_buffer = Empty, !.port.TransferTimeoutTimer = FALSE]
  BY Zenon DEF TransferTimeoutHandler, acted, reported, c, waiting
<1> HIDE DEF acted
<1>6. DOMAIN acted = RxFields /\ DOMAIN acted.port = ReceiverFields
  BY <1>4 DEF RxOK, ReceiverOK
<1>7. t = Rebuffer(acted, Empty, off, acted.port.enabled)
  BY <1>5, <1>6 DEF Rebuffer, RxFields, ReceiverFields
<1> HIDE DEF off
<1> QED
  BY <1>4, <1>7, EmptyBuffered, RebufferFacts

LEMMA RxEnableFacts ==
    ASSUME NEW r, RxOK(r), NEW t, t = RxEnable(r)
    PROVE  RxOK(t) /\ t.received = r.received
<1> DEFINE p == r.port
           q == [p EXCEPT !.enabled = TRUE, !.transfer_reset = FALSE]
<1>1. DOMAIN r = RxFields /\ ReceiverOK(p) /\ DOMAIN p = ReceiverFields
  BY DEF RxOK, ReceiverOK
<1>2. t = [r EXCEPT !.port = q]
  BY <1>1 DEF RxEnable, RxFields, ReceiverFields
<1>3. /\ DOMAIN q = ReceiverFields /\ q.seq = p.seq /\ q.crc = p.crc /\ q.Filename = p.Filename
      /\ q.in_progress = p.in_progress /\ q.transfer_reset = FALSE /\ q.fout = p.fout /\ q.event_buffer = p.event_buffer
  BY <1>1 DEF ReceiverFields
<1> HIDE DEF q
<1>4. DOMAIN t = RxFields /\ t.port = q /\ t.disk = r.disk /\ t.received = r.received /\ t.confirms = r.confirms
  BY <1>1, <1>2 DEF RxFields
<1>5. ReceiverOK(q)
  BY <1>1, <1>3 DEF ReceiverOK
<1>6. Filed(q, r.disk) /\ Got(q, r.received)
  BY <1>3 DEF RxOK, Filed, Got
<1> QED
  BY <1>4, <1>5, <1>6 DEF RxOK

LEMMA RxDisableFacts ==
    ASSUME NEW r, RxOK(r), NEW t, t = RxDisable(r)
    PROVE  RxOK(t) /\ t.received = r.received
<1> DEFINE c == RxResetTransfer(r)
           off == FALSE
<1>1. RxOK(c) /\ c.received = r.received
  BY RxResetFacts
<1>2. t = [c EXCEPT !.port.enabled = FALSE, !.port.TransferTimeoutTimer = FALSE]
  BY Zenon DEF RxDisable
<1> HIDE DEF c
<1>3. DOMAIN c = RxFields /\ DOMAIN c.port = ReceiverFields /\ Buffered(c.port.event_buffer)
  BY <1>1 DEF RxOK, ReceiverOK
<1>4. t = Rebuffer(c, c.port.event_buffer, off, off)
  BY <1>2, <1>3 DEF Rebuffer, RxFields, ReceiverFields
<1> HIDE DEF off
<1> QED
  BY <1>1, <1>3, <1>4, RebufferFacts
-----------------------------------------------------------------------------
(* The steps of the receiver                                               *)

LEMMA ReceiverInvMade ==
    ASSUME setup' = setup, NEW r, RxOK(r), rx' = r.port, disk' = r.disk, received' = r.received
    PROVE  ReceiverInv'
<1> DEFINE p == r.port
           d == r.disk
           R == r.received
<1>1. rx' = p /\ disk' = d /\ received' = R
  OBVIOUS
<1>2. ReceiverOK(p) /\ d \in [Files -> Seq(Contents)] /\ R \subseteq Files /\ Filed(p, d) /\ Got(p, R)
  BY DEF RxOK
<1> HIDE DEF p, d, R
<1>3. Octets' = Octets
  BY <1>1, SameSetup
<1>4. ReceiverOK(rx)'
  BY <1>1, <1>2, <1>3 DEF ReceiverOK, Buffered, Index, Sequence
<1>5. Filed(rx, disk)'
  <2>1. \A f \in Files : Rests(f, disk[f])' <=> Rests(f, d[f])
    BY <1>1 DEF Rests, Whole, Copies, Placed, Content
  <2>3. (\A f \in Files : Rests(f, disk[f]) \/ (rx.in_progress /\ rx.Filename = f))'
    BY <1>1, <1>2, <2>1 DEF Filed
  <2>4. (~rx.in_progress => ~rx.fout)'
    BY <1>1, <1>2 DEF Filed
  <2>5. ASSUME p.in_progress
        PROVE  /\ p.Filename \in Files
               /\ (\E k \in 0 .. setup.Chunks[rx.Filename] :
                     /\ Ends(rx.crc, At(rx.Filename, k))
                     /\ IF rx.fout THEN Partly(rx.Filename, disk[rx.Filename], k)
                        ELSE Rests(rx.Filename, disk[rx.Filename]))'
    <3>0. PICK f \in Files : p.Filename = f
      BY <1>2, <2>5 DEF Filed
    <3>1. PICK k \in 0 .. setup.Chunks[f] :
             /\ p.Filename = f /\ Ends(p.crc, At(f, k))
             /\ IF p.fout THEN Partly(f, d[f], k) ELSE Rests(f, d[f])
      BY <1>2, <2>5, <3>0 DEF Filed
    <3>2. (k \in 0 .. setup.Chunks[rx.Filename])' /\ Ends(rx.crc, At(rx.Filename, k))' /\ rx'.Filename = f
      BY <1>1, <3>1
    <3>3. p.fout => Partly(rx.Filename, disk[rx.Filename], k)'
      <4>1. SUFFICES ASSUME p.fout PROVE Partly(rx.Filename, disk[rx.Filename], k)'
        OBVIOUS
      <4> DEFINE z == d[f]
                 u == setup
      <4>2. disk'[rx'.Filename] = z /\ setup' = u /\ Partly(f, z, k)
        BY <1>1, <3>1, <3>2, <4>1
      <4>3. \A i : Placed(rx.Filename, disk[rx.Filename], i)' <=> Placed(f, z, i)
        BY <3>2, <4>2 DEF Placed
      <4> HIDE DEF z
      <4>4. CASE setup.Mode = "APPEND"
        <5>1. /\ \A i \in DOMAIN z : Placed(f, z, i)
              /\ IF k = 0 THEN z = <<>> \/ Ends(z, Old) \/ Ends(z, Chunk(f, setup.Chunks[f])) ELSE Ends(z, Chunk(f, k))
          BY <4>2, <4>4 DEF Partly
        <5>2. (\A i \in DOMAIN disk[rx.Filename] : Placed(rx.Filename, disk[rx.Filename], i))'
          BY <4>2, <4>3, <5>1
        <5> QED
          BY <3>2, <4>2, <4>4, <5>1, <5>2 DEF Partly
      <4>5. CASE setup.Mode # "APPEND"
        BY <3>2, <4>2, <4>5 DEF Partly
      <4> QED
        BY <4>4, <4>5
    <3>4. ~p.fout => Rests(rx.Filename, disk[rx.Filename])'
      <4>1. ~p.fout => Rests(f, disk[f])'
        BY <2>1, <3>1
      <4> QED
        BY <3>2, <4>1 DEF Rests, Whole, Copies, Placed, Content
    <3>5. (IF rx.fout THEN Partly(rx.Filename, disk[rx.Filename], k)
           ELSE Rests(rx.Filename, disk[rx.Filename]))'
      BY <1>1, <3>3, <3>4
    <3> QED
      BY <3>1, <3>2, <3>5
  <2> QED
    BY <1>1, <2>3, <2>4, <2>5 DEF Filed
<1>6. Got(rx, received)'
  BY <1>1, <1>2 DEF Got, Done
<1>7. (disk \in [Files -> Seq(Contents)])' /\ (received \subseteq Files)'
  BY <1>1, <1>2 DEF Contents, Items
<1> QED
  BY <1>4, <1>5, <1>6, <1>7 DEF ReceiverInv

LEMMA RxStateFacts ==
    ASSUME ReceiverInv
    PROVE  RxOK(RxState) /\ RxState.port = rx /\ RxState.disk = disk /\ RxState.received = received
<1>1. /\ DOMAIN RxState = RxFields /\ RxState.port = rx /\ RxState.disk = disk /\ RxState.received = received
      /\ RxState.confirms = <<>>
  BY DEF RxState, RxFields
<1> QED
  BY <1>1 DEF RxOK, ReceiverInv

\* The receiver keeps its part in the sender's steps.
LEMMA ReceiverInvKept ==
    ASSUME ReceiverInv, setup' = setup, UNCHANGED rxVars
    PROVE  ReceiverInv'
<1>1. RxOK(RxState) /\ RxState.port = rx /\ RxState.disk = disk /\ RxState.received = received
  BY RxStateFacts
<1>2. rx' = RxState.port /\ disk' = RxState.disk /\ received' = RxState.received
  BY <1>1 DEF rxVars
<1> QED
  BY <1>1, <1>2, ReceiverInvMade

\* What a handler leaves behind, when bag b is left under way.
LEMMA ReceiverStep ==
    ASSUME SenderInv, NEW r, RxOK(r), received \subseteq r.received, NEW b, Carries(b, received),
           Awaited(b) = Awaited(net), rx' = r.port, disk' = r.disk, received' = r.received,
           net' = b (+) Published("confirm", r.confirms),
           setup' = setup, tx' = tx, strand' = strand
    PROVE  SenderInv' /\ ReceiverInv' /\ NetInv'
<1> DEFINE Q == r.received
           d == Published("confirm", r.confirms)
           c == b (+) d
           p == tx
           w == strand
<1>1. ReceiverInv'
  BY ReceiverInvMade
<1>2. Posted(received) \subseteq Posted(Q) /\ Messages(received) \subseteq Messages(Q)
  BY MoreReceived
<1>3. Carries(b, Q)
  BY <1>2 DEF Carries
<1>4. w \in Seq(Posted(Q)) /\ PortOK(p) /\ Sent(p) /\ Chained(p, w, Awaited(b))
  <2>1. strand \in Seq(Posted(received)) /\ PortOK(p) /\ Sent(p) /\ Chained(p, w, Awaited(b))
    BY DEF SenderInv
  <2> QED
    BY <1>2, <2>1, SeqGrows
<1>5. DOMAIN d \subseteq Messages(Q) /\ \A m \in DOMAIN d : m.kind # "answer"
  <2>1. r.confirms \in Seq(Reports(Q))
    BY DEF RxOK
  <2>2. \A m \in Reports(Q) : Message("confirm", m) \in Messages(Q)
    BY DEF Messages, Message
  <2> QED
    BY <2>1, <2>2, PublishedFacts
<1>6. net' = c /\ tx' = p /\ strand' = w /\ received' = Q
  OBVIOUS
<1> HIDE DEF d, p, w, Q
<1>7. Carries(c, Q) /\ Awaited(c) = Awaited(b)
  BY <1>3, <1>5, AddOther
<1> HIDE DEF c
<1>8. Chained(p, w, Awaited(c))
  BY <1>4, <1>7
<1> QED
  BY <1>1, <1>4, <1>6, <1>7, <1>8, SenderInvMade

\* A step of the receiver that takes nothing away.
LEMMA ReceiverActs ==
    ASSUME SenderInv, NetInv, NEW r, RxOK(r), r.received = received, Receiver(r, Nothing)
    PROVE  SenderInv' /\ ReceiverInv' /\ NetInv'
<1> DEFINE b == net (-) Nothing
<1>1. Carries(b, received) /\ Awaited(b) = Awaited(net)
  BY TakeNothing DEF NetInv
<1>2. /\ rx' = r.port /\ disk' = r.disk /\ received' = r.received
      /\ net' = b (+) Published("confirm", r.confirms)
      /\ setup' = setup /\ tx' = tx /\ strand' = strand
  BY DEF Receiver, txVars
<1>3. received \subseteq r.received
  OBVIOUS
<1> HIDE DEF b
<1> QED
  BY <1>1, <1>2, <1>3, ReceiverStep

LEMMA ReceiverGetsKeeps ==
    ASSUME setup \in Setups, setup.UseCRCs, SenderInv, ReceiverInv, NetInv, NEW m \in BagToSet(net), ReceiverGets(m)
    PROVE  SenderInv' /\ ReceiverInv' /\ NetInv'
<1> DEFINE b == net (-) One(m)
<1>1. PICK r : r = RxEvent(RxState, m.what) /\ Receiver(r, One(m)) /\ m.kind = "event"
  BY DEF ReceiverGets
<1>2. RxOK(RxState) /\ RxState.received = received
  BY RxStateFacts
<1>3. m.what \in Octets
  BY <1>1 DEF NetInv, Carries, Messages
<1>4. RxOK(r) /\ received \subseteq r.received
  BY <1>1, <1>2, <1>3, RxEventFacts
<1>5. Carries(b, received) /\ Awaited(b) = Awaited(net)
  BY <1>1, TakeOne DEF NetInv
<1>6. /\ rx' = r.port /\ disk' = r.disk /\ received' = r.received
      /\ net' = b (+) Published("confirm", r.confirms)
      /\ setup' = setup /\ tx' = tx /\ strand' = strand
  BY <1>1 DEF Receiver, txVars
<1> HIDE DEF b
<1> QED
  BY <1>4, <1>5, <1>6, ReceiverStep

LEMMA ReceiverKeeps ==
    ASSUME SenderInv, ReceiverInv, NetInv,
           TransferTimerExpires \/ ReceiverIdle \/ ReceiverDisables \/ ReceiverEnables
    PROVE  SenderInv' /\ ReceiverInv' /\ NetInv'
<1>1. PICK s : s = RxState
  OBVIOUS
<1>2. RxOK(s) /\ s.received = received
  BY <1>1, RxStateFacts
<1>3. CASE TransferTimerExpires
  <2>1. PICK r : r = TransferTimeoutHandler(s)
    OBVIOUS
  <2>2. Receiver(r, Nothing)
    BY <1>1, <1>3, <2>1 DEF TransferTimerExpires
  <2> QED
    BY <1>2, <2>1, <2>2, TransferTimeoutFacts, ReceiverActs
<1>4. CASE ReceiverIdle
  <2>1. PICK r : r = RxResetTransfer(s)
    OBVIOUS
  <2>2. Receiver(r, Nothing)
    BY <1>1, <1>4, <2>1 DEF ReceiverIdle
  <2> QED
    BY <1>2, <2>1, <2>2, RxResetFacts, ReceiverActs
<1>5. CASE ReceiverDisables
  <2>1. PICK r : r = RxDisable(s)
    OBVIOUS
  <2>2. Receiver(r, Nothing)
    BY <1>1, <1>5, <2>1 DEF ReceiverDisables
  <2> QED
    BY <1>2, <2>1, <2>2, RxDisableFacts, ReceiverActs
<1>6. CASE ReceiverEnables
  <2>1. PICK r : r = RxEnable(s)
    OBVIOUS
  <2>2. Receiver(r, Nothing)
    BY <1>1, <1>6, <2>1 DEF ReceiverEnables
  <2> QED
    BY <1>2, <2>1, <2>2, RxEnableFacts, ReceiverActs
<1> QED
  BY <1>3, <1>4, <1>5, <1>6
-----------------------------------------------------------------------------
(* The invariant holds                                                     *)

LEMMA InitIInv == Init => IInv
<1>1. SUFFICES ASSUME Init, setup.UseCRCs PROVE IInv
  BY DEF Init, IInv
<1> DEFINE p == [NewPort EXCEPT !.enabled = TRUE]
           q == [NewReceiver EXCEPT !.enabled = TRUE]
           d == [f \in Files |-> IF f \in setup.Existing THEN <<Old>> ELSE Absent]
<1>2. /\ setup \in Setups /\ tx = p /\ strand = <<>> /\ rx = q /\ disk = d /\ received = {} /\ net = EmptyBag
      /\ restarts \in Nat /\ disables \in Nat
  BY <1>1 DEF Init
<1>3. /\ DOMAIN p = PortFields /\ p.fin = Closed /\ p.in_progress = FALSE
      /\ p.transfer_reset = FALSE /\ p.seq = Start /\ p.crc = <<>>
      /\ p.event_buffer = <<>> /\ p.filename_q = {} /\ p.unconfirmed = {} /\ p.ConfirmHandler = NoHandler
  BY DEF NewPort, PortFields, NoCRC
<1>4. /\ DOMAIN Closed = StreamFields /\ Closed.pos = 0 /\ 0 \in Nat
  BY DEF Closed, StreamFields
<1>5. /\ <<>> \in Seq(Octets) /\ <<>> \in Seq(Items) /\ <<>> \in Seq(Posted({})) /\ Start \in Sequence
      /\ DOMAIN <<>> = {}
  BY SequenceFacts
<1>6. BagToSet(net) = {} /\ Awaited(net) = {}
  BY <1>2 DEF BagToSet, EmptyBag, SetToBag, Awaited
<1>7. SenderInv
  <2>1. PortOK(p) /\ Sent(p)
    <3> HIDE DEF p, Closed
    <3> QED
      BY <1>3, <1>4, <1>5 DEF PortOK, Sent
  <2>2. Chained(p, <<>>, {})
    <3> HIDE DEF p
    <3> QED
      BY <1>3, <1>5 DEF Chained, Free, Still, Idling, NoHandler, Waiting
  <2> HIDE DEF p
  <2> QED
    BY <1>2, <1>5, <1>6, <2>1, <2>2 DEF SenderInv
<1>8. NetInv
  BY <1>6 DEF NetInv, Carries
<1>9. /\ DOMAIN q = ReceiverFields /\ q.seq = Start /\ q.crc = <<>> /\ q.in_progress = FALSE
      /\ q.transfer_reset = FALSE /\ q.fout = FALSE /\ q.event_buffer = Empty
  BY DEF NewReceiver, ReceiverFields, NoCRC
<1> HIDE DEF q
<1>10. ReceiverOK(q)
  BY <1>5, <1>9, EmptyBuffered DEF ReceiverOK
<1>11. d \in [Files -> Seq(Contents)]
  <2>1. <<Old>> \in Seq(Contents) /\ Absent \in Seq(Contents)
    BY ContentFacts
  <2> QED
    BY <2>1
<1>12. \A f \in Files : Rests(f, d[f])
  BY DEF Rests, Whole
<1> HIDE DEF d
<1>13. Filed(q, d) /\ Got(q, {})
  BY <1>9, <1>12, DoneNothing DEF Filed, Got
<1>14. ReceiverInv
  BY <1>2, <1>10, <1>11, <1>13 DEF ReceiverInv
<1> QED
  BY <1>2, <1>7, <1>8, <1>14 DEF IInv

LEMMA Unchanged ==
    ASSUME IInv, UNCHANGED vars
    PROVE  IInv'
<1>1. /\ setup' = setup /\ received' = received /\ tx' = tx /\ strand' = strand /\ net' = net /\ restarts' = restarts
      /\ disables' = disables /\ UNCHANGED rxVars
  BY DEF vars, txVars, rxVars, envVars
<1>2. ASSUME SenderInv, NetInv PROVE SenderInv' /\ NetInv'
  <2> DEFINE b == net
             p == tx
             w == strand
  <2>1. PortOK(p) /\ Sent(p) /\ w \in Seq(Posted(received)) /\ Chained(p, w, Awaited(b)) /\ Carries(b, received)
    BY <1>2 DEF SenderInv, NetInv
  <2>2. tx' = p /\ strand' = w /\ net' = b
    BY <1>1
  <2> HIDE DEF b, p, w
  <2> QED
    BY <1>1, <2>1, <2>2, SenderInvKept
<1> QED
  BY <1>1, <1>2, ReceiverInvKept DEF IInv

LEMMA SenderActions ==
    ASSUME setup \in Setups, setup.UseCRCs, disables \in Nat, SenderInv, NetInv, Orderly,
           \/ StrandRuns \/ ConfirmTimerExpires \/ SenderIdle \/ SenderDisables \/ SenderEnables \/ Restart
           \/ \E f \in Files, only_modified \in BOOLEAN : Trigger(f, only_modified)
           \/ \E m \in BagToSet(net) : SenderGets(m) \/ Lose(m)
    PROVE  SenderInv' /\ NetInv' /\ setup' = setup /\ UNCHANGED rxVars
<1>1. setup' = setup /\ UNCHANGED rxVars
  BY DEF StrandRuns, ConfirmTimerExpires, SenderIdle, SenderDisables, SenderEnables, Restart, Trigger, SenderGets, Lose, Sender
<1>2. SenderInv' /\ NetInv'
  BY StrandRunsKeeps, ConfirmTimerKeeps, SenderIdleKeeps, SenderDisablesKeeps, RestartKeeps, TriggerKeeps,
     SenderGetsKeeps, LoseKeeps
<1> QED
  BY <1>1, <1>2

LEMMA NextIInv ==
    ASSUME IInv, [Next]_vars, [Orderly]_vars
    PROVE  IInv'
<1>1. CASE UNCHANGED vars
  BY <1>1, Unchanged
<1>2. ASSUME Next, Orderly PROVE IInv'
  <2>1. setup' = setup
    BY <1>2 DEF Next, StrandRuns, ConfirmTimerExpires, SenderIdle, SenderDisables, SenderEnables, Restart, Trigger, SenderGets, Lose,
                Sender, ReceiverGets, TransferTimerExpires, ReceiverIdle, ReceiverDisables, ReceiverEnables, Receiver
  <2>2. restarts' \in Nat /\ disables' \in Nat
    <3>0. disables' = disables \/ disables' = disables + 1
      BY <1>2 DEF Next, StrandRuns, ConfirmTimerExpires, SenderIdle, SenderDisables, SenderEnables, Restart, Trigger, SenderGets,
                  Lose, ReceiverGets, TransferTimerExpires, ReceiverIdle, ReceiverDisables, ReceiverEnables, envVars
    <3>1. restarts' = restarts \/ Restart
      BY <1>2 DEF Next, StrandRuns, ConfirmTimerExpires, SenderIdle, SenderDisables, SenderEnables, Trigger, SenderGets,
                  Lose, ReceiverGets, TransferTimerExpires, ReceiverIdle, ReceiverDisables, ReceiverEnables, envVars
    <3>2. restarts \in Nat /\ disables \in Nat
      BY DEF IInv
    <3> QED
      BY <3>0, <3>1, <3>2 DEF Restart
  <2>3. SUFFICES ASSUME setup.UseCRCs PROVE SenderInv' /\ ReceiverInv' /\ NetInv'
    BY <2>1, <2>2 DEF IInv
  <2>4. setup \in Setups /\ disables \in Nat /\ SenderInv /\ ReceiverInv /\ NetInv
    BY <2>3 DEF IInv
  <2>5. CASE \/ StrandRuns \/ ConfirmTimerExpires \/ SenderIdle \/ SenderDisables \/ SenderEnables \/ Restart
             \/ \E f \in Files, only_modified \in BOOLEAN : Trigger(f, only_modified)
             \/ \E m \in BagToSet(net) : SenderGets(m) \/ Lose(m)
    BY <1>2, <2>3, <2>4, <2>5, SenderActions, ReceiverInvKept
  <2>6. CASE \E m \in BagToSet(net) : ReceiverGets(m)
    BY <2>3, <2>4, <2>6, ReceiverGetsKeeps
  <2>7. CASE TransferTimerExpires \/ ReceiverIdle \/ ReceiverDisables \/ ReceiverEnables
    BY <2>4, <2>7, ReceiverKeeps
  <2> QED
    BY <1>2, <2>5, <2>6, <2>7 DEF Next
<1> QED
  BY <1>1, <1>2

LEMMA SetupKept == ASSUME [Next]_vars PROVE setup' = setup
BY DEF vars, Next, StrandRuns, ConfirmTimerExpires, SenderIdle, SenderDisables, SenderEnables, Restart, Trigger, SenderGets, Lose,
       Sender, ReceiverGets, TransferTimerExpires, ReceiverIdle, ReceiverDisables, ReceiverEnables, Receiver

LEMMA IInvHolds == Spec /\ [][~Abandons]_vars => []IInv
<1>1. [~Abandons]_vars => [Orderly]_vars
  BY DEF Orderly
<1> QED
  BY <1>1, InitIInv, NextIInv, PTL DEF Spec

LEMMA FilesIntact == IInv => FileIntact
BY DEF IInv, FileIntact, ReceiverInv, Filed, Rests

\* Whatever is overtaken, lost, repeated or timed out, a file that lies in the
\* receiver's directory and is not being received is whole (ProcessRxBuffer,
\* ProcessQdFilenames, ResetTransfer, TransferTimeoutHandler), as long as the
\* sender takes no transfer for ended while a handler of it is under way.
THEOREM Spec_FileIntact == Spec /\ [][~Abandons]_vars => []FileIntact
BY FilesIntact, IInvHolds, PTL

\* Without confirms nothing but being enabled again makes the sender do that:
\* with any losses, delays, idle timeouts and restarts, and the receiver
\* disabled at any time, files at rest are whole.
THEOREM Spec_SteadyFileIntact ==
    Spec /\ ~setup.UseConfirms /\ setup.MaxTxDisables = 0 => []FileIntact
<1>1. ASSUME Steady, [Next]_vars PROVE Steady' /\ [Orderly]_vars
  BY <1>1, SetupKept DEF Steady, Orderly
<1>2. ~setup.UseConfirms /\ setup.MaxTxDisables = 0 => Steady
  BY DEF Steady
<1> QED
  BY <1>1, <1>2, InitIInv, NextIInv, FilesIntact, PTL DEF Spec

\* The port of the sender is as before, but for what an unsolicited confirmation
\* does not look at, in every step but those of its strand and a restart.
LEMMA OthersForgetNothing ==
    ASSUME SenderInv, Next, ~StrandRuns, ~Restart
    PROVE  tx'.unconfirmed = tx.unconfirmed
<1>1. DOMAIN State = StateFields /\ State.port = tx /\ DOMAIN tx = PortFields
  BY StateFacts DEF SenderOK, SenderInv, PortOK
<1>0. ASSUME NEW s, DOMAIN s = StateFields, NEW kind, NEW arg
      PROVE  DOMAIN Post(s, kind, arg) = StateFields /\ Post(s, kind, arg).port = s.port
  BY <1>0 DEF Post, StateFields
<1>2. ASSUME NEW kind, NEW arg, NEW taken, Sender(Post(State, kind, arg), taken)
      PROVE  tx' = tx
  BY <1>0, <1>1, <1>2 DEF Sender
<1>3. CASE ConfirmTimerExpires
  <2> DEFINE u == Post(State, "timeout", NoFile)
  <2>1. DOMAIN u = StateFields /\ u.port = tx
    BY <1>0, <1>1
  <2>2. tx' = [u EXCEPT !.port.ConfirmTimer = FALSE].port
    BY <1>3 DEF ConfirmTimerExpires, Sender
  <2> HIDE DEF u
  <2> QED
    BY <1>1, <2>1, <2>2 DEF StateFields, PortFields
<1>4. CASE SenderDisables \/ SenderEnables
  BY <1>2, <1>4 DEF SenderDisables, SenderEnables
<1>5. CASE SenderIdle \/ \E f \in Files, only_modified \in BOOLEAN : Trigger(f, only_modified)
  BY <1>2, <1>5 DEF SenderIdle, Trigger
<1>6. CASE \E m \in BagToSet(net) : SenderGets(m)
  BY <1>2, <1>6 DEF SenderGets
<1>7. CASE \/ \E m \in BagToSet(net) : ReceiverGets(m) \/ Lose(m)
           \/ TransferTimerExpires \/ ReceiverIdle \/ ReceiverDisables \/ ReceiverEnables
  BY <1>7 DEF ReceiverGets, Lose, TransferTimerExpires, ReceiverIdle, ReceiverDisables, ReceiverEnables, Receiver, txVars
<1> QED
  BY <1>3, <1>4, <1>5, <1>6, <1>7 DEF Next

\* A step as UnsolicitedConfirmIsSound wants it.
Sound ==
    \A f \in tx.unconfirmed :
        /\ strand # <<>> /\ Head(strand).kind = "confirm" /\ Head(strand).arg.unsol
        /\ restarts' = restarts
        /\ f \notin tx'.unconfirmed \cup tx'.filename_q
        => f \in received

\* With CRCs, an unsolicited confirmation that makes the sender forget a file
\* (tx_uncofirmed_transfers.clear()) finds the file received: no report of a
\* chain that misses its end has the CRC the sender compares with.
THEOREM Spec_UnsolicitedConfirmIsSound ==
    Spec /\ setup.UseCRCs /\ [][~Abandons]_vars => UnsolicitedConfirmIsSound
<1>1. ASSUME IInv, setup.UseCRCs, [Next]_vars, [~Abandons]_vars PROVE [Sound]_vars
  <2>1. SUFFICES ASSUME Next, ~Abandons, NEW f \in tx.unconfirmed,
                        Head(strand).kind = "confirm", Head(strand).arg.unsol, restarts' = restarts,
                        f \notin tx'.unconfirmed \cup tx'.filename_q
                 PROVE  f \in received
    BY <1>1, Zenon DEF Sound
  <2>2. setup \in Setups /\ SenderInv /\ NetInv /\ restarts \in Nat /\ Orderly
    BY <1>1, <2>1 DEF IInv, Orderly
  <2>3. ~Restart
    BY <2>1, <2>2 DEF Restart
  <2>4. StrandRuns
    BY <2>1, <2>2, <2>3, OthersForgetNothing
  <2> QED
    BY <1>1, <2>1, <2>2, <2>4, StrandRunsKeeps
<1>2. ASSUME setup.UseCRCs, [Next]_vars PROVE setup.UseCRCs'
  BY <1>2, SetupKept
<1>3. UnsolicitedConfirmIsSound <=> [][Sound]_vars
  BY PTL DEF UnsolicitedConfirmIsSound, Sound
<1> QED
  BY <1>1, <1>2, <1>3, IInvHolds, PTL DEF Spec
=============================================================================
