-------------------------- MODULE EventRouting_proofs --------------------------
(***************************************************************************)
(* Proofs about an event and its status, for any connectors, receivers,    *)
(* transforms and statuses.  On the way back: the publisher's callback     *)
(* runs at most once, and a status it is given was given by every receiver *)
(* of every connector.  On the way there: what a receiver is given is the  *)
(* event put through its connector's transforms in order.                  *)
(***************************************************************************)
EXTENDS EventRouting, FiniteSetTheorems, WellFoundedInduction, TLAPS

-----------------------------------------------------------------------------
(* A SyncMultiCallback and those that call it                              *)

\* The calls of the strand q and the n counted ones, of status k, are those of
\* n + Len(q) different members of the domain of rep, where rep[d] is the status
\* with which d has called, or None: w are those whose calls wait, D the others.
Waiting(q, rep, w, D) ==
    /\ w \in Seq(DOMAIN rep) /\ DOMAIN w = DOMAIN q
    /\ \A i \in DOMAIN w : w[i] \notin D /\ q[i] = rep[w[i]] /\ rep[w[i]] # None
    /\ \A i, j \in DOMAIN w : w[i] = w[j] => i = j

Counted(k, n, rep, D) ==
    /\ D \subseteq DOMAIN rep /\ Cardinality(D) = n
    /\ \A d \in D : rep[d] = k

Heard(q, k, n, rep) ==
    /\ k # None
    /\ \E w, D : Waiting(q, rep, w, D) /\ Counted(k, n, rep, D)

\* A sequence without places is empty.
LEMMA EmptyIfNoPlace ==
    ASSUME NEW S, NEW q \in Seq(S), \A i \in DOMAIN q : FALSE PROVE q = <<>>
<1>1. Len(q) \in Nat /\ DOMAIN q = 1 .. Len(q) /\ (Len(q) = 0 => q = <<>>)
  OBVIOUS
<1>2. 1 \notin 1 .. Len(q)
  BY <1>1
<1> QED
  BY <1>1, <1>2

\* Nobody has called at first.
LEMMA HeardNone ==
    ASSUME NEW k, k # None, NEW rep PROVE Heard(<<>>, k, 0, rep)
<1>1. <<>> \in Seq(DOMAIN rep) /\ \A i \in DOMAIN <<>> : FALSE
  OBVIOUS
<1>2. {} \subseteq DOMAIN rep /\ Cardinality({}) = 0
  BY FS_EmptySet
<1>3. Waiting(<<>>, rep, <<>>, {}) /\ Counted(k, 0, rep, {})
  BY <1>1, <1>2 DEF Waiting, Counted
<1> QED
  BY <1>3 DEF Heard

\* One that has not called calls.
LEMMA HeardCall ==
    ASSUME NEW S, NEW q \in Seq(S), NEW k, NEW n, NEW rep, Heard(q, k, n, rep),
           NEW d \in DOMAIN rep, rep[d] = None, NEW s, s # None,
           NEW rep2, rep2 = [rep EXCEPT ![d] = s]
    PROVE  Heard(Append(q, s), k, n, rep2)
<1>1. PICK w, D : Waiting(q, rep, w, D) /\ Counted(k, n, rep, D)
  BY DEF Heard
<1>2. k # None /\ DOMAIN rep2 = DOMAIN rep /\ rep2[d] = s
      /\ \A x \in DOMAIN rep : x # d => rep2[x] = rep[x]
  BY DEF Heard
<1>3. d \notin D
  BY <1>1, <1>2 DEF Counted
<1>4. Counted(k, n, rep2, D)
  BY <1>1, <1>2, <1>3 DEF Counted
<1> DEFINE v == Append(w, d)
           p == Append(q, s)
           l == Len(w) + 1
<1>5. w \in Seq(DOMAIN rep) /\ DOMAIN w = DOMAIN q
  BY <1>1 DEF Waiting
<1>6. Len(w) = Len(q)
  BY <1>5
<1>7. /\ v \in Seq(DOMAIN rep) /\ DOMAIN v = DOMAIN p /\ v[l] = d /\ p[l] = s
      /\ \A i \in DOMAIN v : i = l \/ (i \in DOMAIN w /\ v[i] = w[i] /\ p[i] = q[i])
  BY <1>5, <1>6
<1> HIDE DEF v, p, l
<1>8. \A i \in DOMAIN w : w[i] \in DOMAIN rep /\ w[i] # d
  <2>1. \A i \in DOMAIN w : w[i] \in DOMAIN rep
    BY <1>5
  <2> QED
    BY <1>1, <2>1 DEF Waiting
<1>9. \A i \in DOMAIN v : v[i] \notin D /\ p[i] = rep2[v[i]] /\ rep2[v[i]] # None
  BY <1>1, <1>2, <1>3, <1>7, <1>8 DEF Waiting
<1>10. \A i, j \in DOMAIN v : v[i] = v[j] => i = j
  BY <1>1, <1>7, <1>8 DEF Waiting
<1>11. Waiting(p, rep2, v, D)
  BY <1>2, <1>7, <1>9, <1>10 DEF Waiting
<1> QED
  BY <1>2, <1>4, <1>11 DEF Heard, p

\* The oldest call of the strand is counted, unless it disagrees.
LEMMA HeardCount ==
    ASSUME NEW S, NEW q \in Seq(S), q # <<>>, NEW k, NEW n \in Nat, NEW rep,
           IsFiniteSet(DOMAIN rep), Heard(q, k, n, rep), NEW new,
           new = Head(q), n = 0 \/ new = k
    PROVE  Heard(Tail(q), new, n + 1, rep)
<1>1. PICK w, D : Waiting(q, rep, w, D) /\ Counted(k, n, rep, D)
  BY DEF Heard
<1>2. w \in Seq(DOMAIN rep) /\ DOMAIN w = DOMAIN q
  BY <1>1 DEF Waiting
<1>3. w # <<>> /\ Len(w) = Len(q) /\ 1 \in DOMAIN w /\ w[1] \in DOMAIN rep /\ q[1] = Head(q)
  BY <1>2
<1> DEFINE h == w[1]
           v == Tail(w)
           p == Tail(q)
           E == D \cup {h}
<1>4. /\ v \in Seq(DOMAIN rep) /\ DOMAIN v = DOMAIN p
      /\ \A i \in DOMAIN v : i + 1 \in DOMAIN w /\ i + 1 # 1 /\ v[i] = w[i + 1] /\ p[i] = q[i + 1]
  BY <1>2, <1>3
<1>5. \A i, j \in DOMAIN v : i + 1 = j + 1 => i = j
  BY <1>4
<1> HIDE DEF v, p
<1>6. h \notin D /\ rep[h] = new /\ new # None
  BY <1>1, <1>3 DEF Waiting
<1>7. \A i \in DOMAIN v : v[i] \notin E /\ p[i] = rep[v[i]] /\ rep[v[i]] # None
  BY <1>1, <1>3, <1>4 DEF Waiting
<1>8. \A i, j \in DOMAIN v : v[i] = v[j] => i = j
  BY <1>1, <1>4, <1>5 DEF Waiting
<1>9. Waiting(p, rep, v, E)
  BY <1>4, <1>7, <1>8 DEF Waiting
<1>10. /\ IsFiniteSet(D) /\ D \subseteq DOMAIN rep /\ Cardinality(D) = n
       /\ \A d \in D : rep[d] = k
  BY <1>1, FS_Subset DEF Counted
<1>11. E \subseteq DOMAIN rep /\ Cardinality(E) = n + 1
  BY <1>3, <1>6, <1>10, FS_AddElement
<1>12. \A d \in E : rep[d] = new
  <2>1. CASE n = 0
    <3>1. D = {}
      BY <1>10, <2>1, FS_EmptySet
    <3> QED
      BY <1>6, <3>1
  <2>2. CASE new = k
    BY <1>6, <1>10, <2>2
  <2> QED
    BY <2>1, <2>2
<1>13. Counted(new, n + 1, rep, E)
  BY <1>11, <1>12 DEF Counted
<1> QED
  BY <1>6, <1>9, <1>13 DEF Heard, p

\* When all have been counted they agree, and nothing waits.
LEMMA HeardAll ==
    ASSUME NEW S, NEW q \in Seq(S), NEW k, NEW n \in Nat, NEW rep, IsFiniteSet(DOMAIN rep),
           Heard(q, k, n, rep), n >= Cardinality(DOMAIN rep)
    PROVE  q = <<>> /\ \A d \in DOMAIN rep : rep[d] = k
<1>1. PICK w, D : Waiting(q, rep, w, D) /\ Counted(k, n, rep, D)
  BY DEF Heard
<1>2. D \subseteq DOMAIN rep /\ Cardinality(D) = n /\ \A d \in D : rep[d] = k
  BY <1>1 DEF Counted
<1>3. Cardinality(D) <= Cardinality(DOMAIN rep)
      /\ (Cardinality(DOMAIN rep) = Cardinality(D) => DOMAIN rep = D)
      /\ Cardinality(DOMAIN rep) \in Nat
  BY <1>2, FS_Subset, FS_CardinalityType
<1>4. D = DOMAIN rep
  BY <1>2, <1>3
<1>5. q = <<>>
  <2>1. w \in Seq(DOMAIN rep) /\ DOMAIN w = DOMAIN q /\ \A i \in DOMAIN w : w[i] \notin D
    BY <1>1 DEF Waiting
  <2>2. \A i \in DOMAIN w : w[i] \in DOMAIN rep
    BY <2>1
  <2>3. \A i \in DOMAIN q : FALSE
    BY <1>4, <2>1, <2>2
  <2> QED
    BY <2>3, EmptyIfNoPlace
<1> QED
  BY <1>2, <1>4, <1>5

\* While something waits, or before one is counted, somebody has called.
LEMMA HeardSome ==
    ASSUME NEW S, NEW q \in Seq(S), NEW k, NEW n, NEW rep, Heard(q, k, n, rep),
           \A d \in DOMAIN rep : rep[d] = None
    PROVE  q = <<>> /\ n = 0
<1>1. PICK w, D : Waiting(q, rep, w, D) /\ Counted(k, n, rep, D)
  BY DEF Heard
<1>2. D = {}
  BY <1>1 DEF Counted, Heard
<1>3. n = 0
  BY <1>1, <1>2, FS_EmptySet DEF Counted
<1>4. w \in Seq(DOMAIN rep) /\ DOMAIN w = DOMAIN q
  BY <1>1 DEF Waiting
<1>5. \A i \in DOMAIN w : w[i] \in DOMAIN rep
  BY <1>4
<1>6. \A i \in DOMAIN q : FALSE
  BY <1>1, <1>4, <1>5 DEF Waiting
<1> QED
  BY <1>3, <1>6, EmptyIfNoPlace

-----------------------------------------------------------------------------
(* What the loop over the transforms builds, and what their composition is *)

\* Induction over the natural numbers, for a set.
LEMMA NatSetInduction ==
    ASSUME NEW S, 0 \in S, \A n \in Nat : n \in S => n + 1 \in S
    PROVE  \A n \in Nat : n \in S
<1> DEFINE Less == {p \in Nat \X Nat : p[1] < p[2]}
           Bad == Nat \ S
<1>1. IsWellFoundedOn(Less, Nat)
  BY NatLessThanWellFounded DEF OpToRel
<1>2. SUFFICES ASSUME Bad # {} PROVE FALSE
  OBVIOUS
<1>3. PICK x \in Bad : \A y \in Bad : <<y, x>> \notin Less
  <2>1. Bad \subseteq Nat
    OBVIOUS
  <2> HIDE DEF Less, Bad
  <2> QED
    BY <1>1, <1>2, <2>1, WFMin
<1>4. x \in Nat /\ x # 0 /\ x - 1 \in Nat
  OBVIOUS
<1>5. x - 1 \in Bad /\ <<x - 1, x>> \in Less
  BY <1>4
<1> QED
  BY <1>3, <1>5

\* The loop from the last transform to the first makes a handler that calls them
\* in the order of the configuration.
LEMMA WrapIsInOrder ==
    ASSUME NEW T, NEW ts \in Seq(T)
    PROVE  WrapHandlers(ts) = ts
<1> DEFINE n == Len(ts)
           Rest(k) == SubSeq(ts, n - k + 1, n)
           Eq(f) == f = [k \in 0 .. n |-> IF k = 0 THEN <<>> ELSE <<ts[n - k + 1]>> \o f[k - 1]]
           f == CHOOSE h : Eq(h)
           Good == {k \in Nat : k <= n => f[k] = Rest(k)}
<1>1. n \in Nat
  OBVIOUS
<1>2. Rest(0) = <<>> /\ Rest(n) = ts
  OBVIOUS
<1>3. ASSUME NEW k \in 1 .. n PROVE Rest(k) = <<ts[n - k + 1]>> \o Rest(k - 1)
  <2>1. n - k + 1 \in 1 .. n /\ n - (k - 1) + 1 = (n - k + 1) + 1
    BY <1>1
  <2> DEFINE j == n - k + 1
  <2>2. ASSUME NEW i \in 1 .. n PROVE SubSeq(ts, i, n) = <<ts[i]>> \o SubSeq(ts, i + 1, n)
    <3>1. /\ SubSeq(ts, i, n) \in Seq(T) /\ SubSeq(ts, i + 1, n) \in Seq(T) /\ ts[i] \in T
      BY <1>1
    <3>2. <<ts[i]>> \o SubSeq(ts, i + 1, n) \in Seq(T)
      BY <3>1
    <3>3. /\ Len(SubSeq(ts, i, n)) = n - i + 1
          /\ Len(<<ts[i]>> \o SubSeq(ts, i + 1, n)) = n - i + 1
      BY <1>1, <3>1
    <3>4. \A m \in 1 .. (n - i + 1) :
             SubSeq(ts, i, n)[m] = (<<ts[i]>> \o SubSeq(ts, i + 1, n))[m]
      BY <1>1, <3>1
    <3> QED
      BY <3>1, <3>2, <3>3, <3>4
  <2> QED
    BY <2>1, <2>2
<1>4. Eq([k \in 0 .. n |-> Rest(k)])
  <2> DEFINE h == [k \in 0 .. n |-> Rest(k)]
  <2> HIDE DEF Rest
  <2>1. \A k \in 0 .. n : h[k] = IF k = 0 THEN <<>> ELSE <<ts[n - k + 1]>> \o h[k - 1]
    <3> SUFFICES ASSUME NEW k \in 0 .. n
                 PROVE  h[k] = IF k = 0 THEN <<>> ELSE <<ts[n - k + 1]>> \o h[k - 1]
      OBVIOUS
    <3>1. CASE k = 0
      BY <1>2, <3>1
    <3>2. CASE k # 0
      <4>1. k \in 1 .. n /\ k - 1 \in 0 .. n
        BY <1>1, <3>2
      <4>2. h[k] = Rest(k) /\ h[k - 1] = Rest(k - 1)
        BY <4>1
      <4> HIDE DEF h
      <4> QED
        BY <1>3, <3>2, <4>1, <4>2, Zenon
    <3> QED
      BY <3>1, <3>2
  <2> QED
    BY <2>1, Zenon
<1>5. Eq(f)
  BY <1>4, Zenon
<1>6. \A k \in 0 .. n : f[k] = IF k = 0 THEN <<>> ELSE <<ts[n - k + 1]>> \o f[k - 1]
  <2> HIDE DEF f
  <2> QED
    BY <1>5, Zenon
<1> HIDE DEF f, Rest, n
<1>7. 0 \in Good
  <2>1. 0 \in 0 .. n
    BY <1>1
  <2>2. f[0] = Rest(0)
    BY <1>2, <1>6, <2>1, Zenon
  <2> QED
    BY <2>2
<1>8. ASSUME NEW k \in Nat, k \in Good PROVE k + 1 \in Good
  <2>1. SUFFICES ASSUME k + 1 <= n PROVE f[k + 1] = Rest(k + 1)
    OBVIOUS
  <2>2. k + 1 \in 1 .. n /\ k + 1 \in 0 .. n /\ k + 1 # 0 /\ (k + 1) - 1 = k /\ f[k] = Rest(k)
    BY <1>1, <1>8, <2>1
  <2>3. f[k + 1] = <<ts[n - (k + 1) + 1]>> \o f[(k + 1) - 1]
    BY <1>6, <2>2, Zenon
  <2>4. Rest(k + 1) = <<ts[n - (k + 1) + 1]>> \o Rest((k + 1) - 1)
    BY <1>3, <2>2
  <2> QED
    BY <2>2, <2>3, <2>4, Zenon
<1>9. f[n] = Rest(n)
  <2> HIDE DEF Good
  <2>1. n \in Good
    BY <1>1, <1>7, <1>8, NatSetInduction
  <2> QED
    BY <1>1, <2>1 DEF Good
<1>10. WrapHandlers(ts) = f[n]
  BY DEF WrapHandlers, f, n
<1> QED
  BY <1>2, <1>9, <1>10, Zenon

\* f[k] is what k transforms may make of the event e.
Afters(ts, e, n, f) == /\ f = [k \in 0 .. n |-> f[k]]
                       /\ f[0] = {e}
                       /\ \A k \in 1 .. n : f[k] = Passed(ts[k], f[k - 1])

LEMMA AftersExist ==
    ASSUME NEW ts, NEW e, NEW n \in Nat
    PROVE  \E f : Afters(ts, e, n, f)
<1> DEFINE Good == {m \in Nat : \E f : Afters(ts, e, m, f)}
<1>1. 0 \in Good
  <2> DEFINE f == [k \in 0 .. 0 |-> {e}]
  <2>1. f[0] = {e} /\ f = [k \in 0 .. 0 |-> f[k]] /\ 1 .. 0 = {}
    OBVIOUS
  <2> HIDE DEF f
  <2>2. Afters(ts, e, 0, f)
    BY <2>1, Zenon DEF Afters
  <2> QED
    BY <2>2
<1>2. ASSUME NEW m \in Nat, m \in Good PROVE m + 1 \in Good
  <2>1. PICK f : Afters(ts, e, m, f)
    BY <1>2
  <2> DEFINE v == Passed(ts[m + 1], f[m])
             g == [k \in 0 .. m + 1 |-> IF k = m + 1 THEN v ELSE f[k]]
  <2> HIDE DEF v
  <2>2. /\ g = [k \in 0 .. m + 1 |-> g[k]] /\ g[m + 1] = v
        /\ \A k \in 0 .. m : g[k] = f[k]
    OBVIOUS
  <2> HIDE DEF g
  <2>3. g[0] = {e}
    <3>1. 0 \in 0 .. m
      OBVIOUS
    <3> QED
      BY <2>1, <2>2, <3>1, Zenon DEF Afters
  <2>4. ASSUME NEW k \in 1 .. m + 1 PROVE g[k] = Passed(ts[k], g[k - 1])
    <3>1. CASE k = m + 1
      <4>1. k - 1 = m /\ m \in 0 .. m
        BY <3>1
      <4>2. g[k - 1] = f[m]
        BY <2>2, <4>1, Zenon
      <4> QED
        BY <2>2, <3>1, <4>2, Zenon DEF v
    <3>2. CASE k # m + 1
      <4>0. k \in 1 .. m /\ k \in 0 .. m /\ k - 1 \in 0 .. m
        BY <3>2
      <4>1. k \in 1 .. m /\ g[k] = f[k] /\ g[k - 1] = f[k - 1]
        BY <2>2, <4>0, Zenon
      <4> QED
        BY <2>1, <4>1, Zenon DEF Afters
    <3> QED
      BY <3>1, <3>2
  <2>5. Afters(ts, e, m + 1, g)
    BY <2>2, <2>3, <2>4, Zenon DEF Afters
  <2> QED
    BY <2>5
<1> HIDE DEF Good
<1>3. n \in Good
  BY <1>1, <1>2, NatSetInduction
<1> QED
  BY <1>3 DEF Good

\* The recursive function of Composed.
After(ts, e) ==
    CHOOSE f : f = [k \in 0 .. Len(ts) |-> IF k = 0 THEN {e} ELSE Passed(ts[k], f[k - 1])]

LEMMA AfterIsComposed ==
    ASSUME NEW T, NEW ts \in Seq(T), NEW e
    PROVE  /\ Afters(ts, e, Len(ts), After(ts, e))
           /\ \A c : SenderTransforms[c] = ts /\ event = e => Composed(c) = After(ts, e)[Len(ts)]
<1> DEFINE n == Len(ts)
           Eq(f) == f = [k \in 0 .. n |-> IF k = 0 THEN {e} ELSE Passed(ts[k], f[k - 1])]
           a == After(ts, e)
<1>1. n \in Nat
  OBVIOUS
<1>2. /\ \A k \in 0 .. n : k = 0 \/ k \in 1 .. n
      /\ \A k \in 1 .. n : k \in 0 .. n /\ k # 0
      /\ 0 \in 0 .. n
  BY <1>1
<1>3. \E h : Eq(h)
  <2>1. PICK h : Afters(ts, e, n, h)
    BY <1>1, AftersExist
  <2> DEFINE r == [k \in 0 .. n |-> IF k = 0 THEN {e} ELSE Passed(ts[k], h[k - 1])]
  <2>2. \A k \in 0 .. n : r[k] = h[k]
    BY <1>2, <2>1, Zenon DEF Afters
  <2>3. r = [k \in 0 .. n |-> r[k]] /\ h = [k \in 0 .. n |-> h[k]]
    BY <2>1, Zenon DEF Afters
  <2>4. h = r
    <3> HIDE DEF r
    <3> QED
      BY <2>2, <2>3
  <2> QED
    BY <2>4
<1>4. Eq(a)
  BY <1>3, Zenon DEF After
<1> HIDE DEF n, a
<1>5. Afters(ts, e, n, a)
  <2>1. \A k \in 0 .. n : a[k] = IF k = 0 THEN {e} ELSE Passed(ts[k], a[k - 1])
    BY <1>4, Zenon
  <2>2. a = [k \in 0 .. n |-> a[k]]
    <3> DEFINE r == [k \in 0 .. n |-> IF k = 0 THEN {e} ELSE Passed(ts[k], a[k - 1])]
    <3>1. r = [k \in 0 .. n |-> r[k]]
      BY Zenon
    <3>2. a = r
      BY <1>4, Zenon
    <3> HIDE DEF r
    <3> QED
      BY <3>1, <3>2, Zenon
  <2> QED
    BY <1>2, <2>1, <2>2, Zenon DEF Afters
<1>6. \A c : SenderTransforms[c] = ts /\ event = e => Composed(c) = a[n]
  BY Zenon DEF Composed, After, a, n
<1> QED
  BY <1>5, <1>6 DEF a, n

-----------------------------------------------------------------------------
(* The inductive invariant                                                 *)

Nodes == Subscribers \cup {Publisher}
Cbs == [strand : [Nodes -> Seq(Status)], combined : [Nodes -> Status], count : [Nodes -> Nat],
        verdict : Seq(Status)]

Silent(c, g) == \A r \in Connections[c] : g[c][r] = None

\* The status with which connector c has called the publisher, or None: that of
\* an event it ended itself, of its only receiver, or of its SyncMultiCallback.
UpOf(c, ended, rep, k, n) ==
    IF ended THEN UNDEFINED
    ELSE IF cb_number(c) < 2
         THEN IF Connections[c] = {} THEN None ELSE rep[CHOOSE r \in Connections[c] : TRUE]
         ELSE IF k = UNDEFINED \/ n >= cb_number(c) THEN k ELSE None

Ended(c, st, g) == st[c] = "done" /\ Silent(c, g)

Up(c) == UpOf(c, Ended(c, stage, got), reply[c], cbs.combined[c], cbs.count[c])
ups == [c \in Subscribers |-> Up(c)]

\* The SyncMultiCallback of a connector, if it has one, has heard its receivers.
Node(c, rep, cb) ==
    IF cb_number(c) < 2 THEN cb.strand[c] = <<>>
    ELSE cb.combined[c] # UNDEFINED => Heard(cb.strand[c], cb.combined[c], cb.count[c], rep)

\* That of the publisher has heard the connectors; once it is decided, by
\* disagreement or by the last of them, the publisher has been called, once.
Pub(cb, u) ==
    IF cb_number(Publisher) < 2
    THEN /\ cb.strand[Publisher] = <<>>
         /\ Subscribers = {} => cb.verdict = <<>>
         /\ \A c \in Subscribers : cb.verdict = IF u[c] = None THEN <<>> ELSE <<u[c]>>
    ELSE /\ cb.combined[Publisher] # UNDEFINED =>
               Heard(cb.strand[Publisher], cb.combined[Publisher], cb.count[Publisher], u)
         /\ cb.verdict = IF cb.combined[Publisher] = UNDEFINED THEN <<UNDEFINED>>
                         ELSE IF cb.count[Publisher] >= cb_number(Publisher)
                              THEN <<cb.combined[Publisher]>> ELSE <<>>

Typed ==
    /\ event \in Events \cup {None}
    /\ stage \in [Subscribers -> {"none", "posted", "chain", "done"}]
    /\ DOMAIN chain = Subscribers /\ DOMAIN evt = Subscribers
    /\ DOMAIN got = Subscribers /\ DOMAIN reply = Subscribers
    /\ \A c \in Subscribers : /\ DOMAIN got[c] = Connections[c]
                              /\ reply[c] \in [Connections[c] -> Status \cup {None}]
    /\ cbs \in Cbs

\* Events are records of these fields; T holds the handlers of every chain.
Fields == {"type", "index", "payload"}
IsEvent(e) == e = [f \in Fields |-> e[f]]
HandlersIn(T) ==
    /\ \A t \in T : t.kind \in Kinds
    /\ \A c \in Subscribers : WrapHandlers(SenderTransforms[c]) \in Seq(T)
EventsAreRecords ==
    /\ \A e \in Events : IsEvent(e)
    /\ ~IsEvent(None) /\ ~IsEvent(NULL)

\* A connector ends an event itself only if no receiver is given it.
Local(c, T) ==
    /\ event = None => stage[c] = "none"
    /\ stage[c] \in {"none", "posted"} => Silent(c, got)
    /\ stage[c] = "chain" => /\ chain[c] \in Seq(T) /\ (evt[c] = NULL \/ IsEvent(evt[c]))
                             /\ chain[c] # <<>> \/ evt[c] = NULL => Silent(c, got)
    /\ \A r \in Connections[c] : reply[c][r] # None => got[c][r] # None
    /\ Silent(c, got) => cbs.combined[c] # UNDEFINED
    /\ Node(c, reply[c], cbs)

IInv(T) ==
    /\ Typed
    /\ \A c \in Subscribers : Local(c, T)
    /\ Pub(cbs, ups)

-----------------------------------------------------------------------------
(* The callbacks                                                           *)

\* Receivers and connectors are finitely many.
LEMMA Finite ==
    /\ \A n \in Nodes : cb_number(n) \in Nat
    /\ IsFiniteSet(Subscribers) /\ \A c \in Subscribers : IsFiniteSet(Connections[c])
    /\ cb_number(Publisher) = Cardinality(Subscribers)
    /\ \A c \in Subscribers : cb_number(c) = Cardinality(Connections[c])
<1>1. /\ IsFiniteSet(Subscribers) /\ IsFiniteSet(Receivers) /\ Publisher \notin Subscribers
      /\ \A c \in Subscribers : Connections[c] \subseteq Receivers
  BY RoutingAssumption
<1>2. \A c \in Subscribers : IsFiniteSet(Connections[c])
  BY <1>1, FS_Subset
<1>3. /\ cb_number(Publisher) = Cardinality(Subscribers)
      /\ \A c \in Subscribers : cb_number(c) = Cardinality(Connections[c])
  BY <1>1 DEF cb_number
<1>4. /\ Cardinality(Subscribers) \in Nat
      /\ \A c \in Subscribers : Cardinality(Connections[c]) \in Nat
  BY <1>1, <1>2, FS_CardinalityType
<1> QED
  BY <1>1, <1>2, <1>3, <1>4 DEF Nodes

\* A set of fewer than two has no other.
LEMMA Lone ==
    ASSUME NEW S, IsFiniteSet(S), Cardinality(S) < 2, NEW x \in S PROVE S = {x}
<1>1. Cardinality(S) \in Nat /\ Cardinality(S) # 0
  BY FS_CardinalityType, FS_EmptySet
<1>2. Cardinality(S) = 1
  BY <1>1
<1>3. PICK y : S = {y}
  BY <1>2, FS_Singleton
<1> QED
  BY <1>3

\* Statuses.
LEMMA Statuses ==
    /\ UNDEFINED \in Status /\ SUCCESS \in Status /\ SUCCESS # UNDEFINED
    /\ None \notin Status /\ UNDEFINED # None /\ SUCCESS # None
  BY RoutingAssumption

\* A connector that has not called the publisher calls it.
LEMMA PubCall ==
    ASSUME NEW cb \in Cbs, NEW u, DOMAIN u = Subscribers, Pub(cb, u),
           NEW c \in Subscribers, u[c] = None, NEW s \in Status, NEW u2, u2 = [u EXCEPT ![c] = s]
    PROVE  LET e == CallPublisher(cb, s)
           IN  /\ e \in Cbs /\ Pub(e, u2)
               /\ \A n \in Subscribers : e.strand[n] = cb.strand[n]
               /\ e.combined = cb.combined /\ e.count = cb.count
<1> DEFINE e == CallPublisher(cb, s)
           P == Publisher
<1>1. P \in Nodes /\ P \notin Subscribers /\ Subscribers \subseteq Nodes
  BY RoutingAssumption DEF Nodes
<1>2. s # None /\ u2[c] = s /\ DOMAIN u2 = Subscribers
  BY Statuses
<1>3. /\ cb.strand \in [Nodes -> Seq(Status)] /\ cb.verdict \in Seq(Status)
      /\ cb.combined \in [Nodes -> Status] /\ cb.count \in [Nodes -> Nat]
  BY DEF Cbs
<1>4. CASE cb_number(P) < 2
  <2>1. e = [cb EXCEPT !.verdict = Append(cb.verdict, s)]
    BY <1>4 DEF CallPublisher
  <2>2. Append(cb.verdict, s) \in Seq(Status)
    BY <1>3
  <2>3. /\ e \in Cbs /\ e.strand = cb.strand /\ e.combined = cb.combined /\ e.count = cb.count
        /\ e.verdict = Append(cb.verdict, s)
    BY <2>1, <2>2 DEF Cbs
  <2>4. cb.verdict = <<>> /\ cb.strand[P] = <<>>
    BY <1>4 DEF Pub
  <2>5. Append(cb.verdict, s) = <<s>>
    BY <2>4
  <2>6. Subscribers = {c}
    BY <1>4, Finite, Lone
  <2> HIDE DEF e
  <2>7. Pub(e, u2)
    BY <1>2, <1>4, <2>3, <2>4, <2>5, <2>6 DEF Pub
  <2> QED
    BY <2>3, <2>7 DEF e
<1>5. CASE ~(cb_number(P) < 2)
  <2> DEFINE q == Append(cb.strand[P], s)
  <2>1. e = [cb EXCEPT !.strand[P] = q]
    BY <1>5 DEF CallPublisher, ToStrand
  <2>2. cb.strand[P] \in Seq(Status) /\ q \in Seq(Status)
    BY <1>1, <1>3
  <2> HIDE DEF q
  <2>3. /\ e \in Cbs /\ e.strand = [cb.strand EXCEPT ![P] = q] /\ e.combined = cb.combined
        /\ e.count = cb.count /\ e.verdict = cb.verdict
    BY <1>1, <1>3, <2>1, <2>2 DEF Cbs
  <2>4. e.strand[P] = q /\ \A n \in Subscribers : e.strand[n] = cb.strand[n]
    BY <1>1, <1>3, <2>3
  <2> HIDE DEF e
  <2>5. ASSUME cb.combined[P] # UNDEFINED
        PROVE  Heard(q, cb.combined[P], cb.count[P], u2)
    <3>1. Heard(cb.strand[P], cb.combined[P], cb.count[P], u)
      BY <1>5, <2>5 DEF Pub
    <3> QED
      BY <1>2, <2>2, <3>1, HeardCall DEF q
  <2>6. Pub(e, u2)
    BY <1>5, <2>3, <2>4, <2>5 DEF Pub
  <2> QED
    BY <2>3, <2>4, <2>6 DEF e
<1> QED
  BY <1>4, <1>5

\* A handler of node n's strand runs: it finds the matter decided, or counts.
Turned(cb, n) == [cb EXCEPT !.strand[n] = Tail(@)]
Verdict(cb, n) ==
    LET s == Head(cb.strand[n])
    IN  IF cb.count[n] = 0 THEN s ELSE IF s = cb.combined[n] THEN s ELSE UNDEFINED

LEMMA RunShape ==
    ASSUME NEW cb \in Cbs, NEW n \in Nodes, cb.strand[n] # <<>>
    PROVE  LET p == Turned(cb, n)
               e == RunMultiCb(p, n, Head(cb.strand[n]))
               new == Verdict(cb, n)
           IN  /\ p \in Cbs /\ p.strand = [cb.strand EXCEPT ![n] = Tail(cb.strand[n])]
               /\ p.combined = cb.combined /\ p.count = cb.count /\ p.verdict = cb.verdict
               /\ new \in Status
               /\ cb.combined[n] = UNDEFINED => e = p
               /\ cb.combined[n] # UNDEFINED =>
                     \E f \in Cbs :
                        /\ f.strand = p.strand /\ f.verdict = cb.verdict
                        /\ f.count = [cb.count EXCEPT ![n] = cb.count[n] + 1]
                        /\ f.combined = [cb.combined EXCEPT ![n] = new]
                        /\ e = IF new = UNDEFINED \/ f.count[n] >= cb_number(n)
                               THEN CallParent(f, n, new) ELSE f
<1> DEFINE q == cb.strand[n]
           s == Head(q)
           p == Turned(cb, n)
           new == Verdict(cb, n)
           f == [p EXCEPT !.count[n] = @ + 1, !.combined[n] = new]
<1>1. /\ cb.strand \in [Nodes -> Seq(Status)] /\ cb.verdict \in Seq(Status)
      /\ cb.combined \in [Nodes -> Status] /\ cb.count \in [Nodes -> Nat]
  BY DEF Cbs
<1>2. q \in Seq(Status)
  BY <1>1
<1>3. Tail(q) \in Seq(Status) /\ s \in Status
  BY <1>2
<1>4. /\ p \in Cbs /\ p.strand = [cb.strand EXCEPT ![n] = Tail(q)]
      /\ p.combined = cb.combined /\ p.count = cb.count /\ p.verdict = cb.verdict
  <2> DEFINE t == Tail(q)
  <2>1. p = [cb EXCEPT !.strand[n] = t] /\ t \in Seq(Status)
    BY <1>3 DEF Turned
  <2> HIDE DEF t
  <2> QED
    BY <1>1, <2>1 DEF Cbs, t
<1>5. new \in Status
  BY <1>1, <1>3, Statuses DEF Verdict
<1>6. CombinedStatus(p, n, s) = new
  BY <1>4 DEF CombinedStatus, Verdict
<1>7. RunMultiCb(p, n, s) = IF cb.combined[n] = UNDEFINED THEN p ELSE Count(p, n, s)
  BY <1>4 DEF RunMultiCb
<1>8. Count(p, n, s) = IF new = UNDEFINED \/ f.count[n] >= cb_number(n)
                       THEN CallParent(f, n, new) ELSE f
  <2> DEFINE k == CombinedStatus(p, n, s)
             g == [p EXCEPT !.count[n] = @ + 1, !.combined[n] = k]
  <2>1. Count(p, n, s) = IF k = UNDEFINED \/ g.count[n] >= cb_number(n)
                         THEN CallParent(g, n, k) ELSE g
    BY DEF Count
  <2>2. k = new /\ g = f
    BY <1>6
  <2> HIDE DEF f, g, k, p, new, s
  <2> QED
    BY <2>1, <2>2
<1> HIDE DEF p, new
<1>9. /\ f \in Cbs /\ f.strand = p.strand /\ f.verdict = cb.verdict
      /\ f.count = [cb.count EXCEPT ![n] = cb.count[n] + 1]
      /\ f.combined = [cb.combined EXCEPT ![n] = new]
  <2>1. cb.count[n] + 1 \in Nat
    BY <1>1
  <2> QED
    BY <1>1, <1>4, <1>5, <2>1 DEF Cbs
<1> HIDE DEF f, s
<1> QED
  BY <1>4, <1>5, <1>7, <1>8, <1>9, Zenon DEF p, new, s

\* The strand of the publisher's callback runs.
LEMMA PubRun ==
    ASSUME NEW cb \in Cbs, NEW u, DOMAIN u = Subscribers, Pub(cb, u),
           cb.strand[Publisher] # <<>>
    PROVE  LET e == RunMultiCb(Turned(cb, Publisher), Publisher, Head(cb.strand[Publisher]))
           IN  /\ e \in Cbs /\ Pub(e, u)
               /\ \A n \in Subscribers : /\ e.strand[n] = cb.strand[n]
                                         /\ e.combined[n] = cb.combined[n] /\ e.count[n] = cb.count[n]
<1> DEFINE P == Publisher
           q == cb.strand[P]
           p == Turned(cb, P)
           new == Verdict(cb, P)
           e == RunMultiCb(p, P, Head(q))
<1>1. P \in Nodes /\ P \notin Subscribers /\ Subscribers \subseteq Nodes
  BY RoutingAssumption DEF Nodes
<1>2. /\ cb.strand \in [Nodes -> Seq(Status)] /\ cb.verdict \in Seq(Status)
      /\ cb.combined \in [Nodes -> Status] /\ cb.count \in [Nodes -> Nat]
  BY DEF Cbs
<1>3. q \in Seq(Status) /\ cb.count[P] \in Nat /\ Tail(q) \in Seq(Status)
  BY <1>1, <1>2
<1>4. ~(cb_number(P) < 2) /\ cb_number(P) \in Nat /\ IsFiniteSet(Subscribers)
      /\ cb_number(P) = Cardinality(Subscribers)
  BY <1>1, Finite DEF Pub
<1>5. /\ p \in Cbs /\ p.strand = [cb.strand EXCEPT ![P] = Tail(q)]
      /\ p.combined = cb.combined /\ p.count = cb.count /\ p.verdict = cb.verdict
      /\ new \in Status
      /\ cb.combined[P] = UNDEFINED => e = p
      /\ cb.combined[P] # UNDEFINED =>
            \E f \in Cbs :
               /\ f.strand = p.strand /\ f.verdict = cb.verdict
               /\ f.count = [cb.count EXCEPT ![P] = cb.count[P] + 1]
               /\ f.combined = [cb.combined EXCEPT ![P] = new]
               /\ e = IF new = UNDEFINED \/ f.count[P] >= cb_number(P)
                      THEN CallParent(f, P, new) ELSE f
  BY <1>1, RunShape
<1> HIDE DEF p, e
<1>6. p.strand[P] = Tail(q) /\ \A n \in Subscribers : p.strand[n] = cb.strand[n]
  BY <1>1, <1>2, <1>5
<1>7. CASE cb.combined[P] = UNDEFINED
  <2>1. e = p /\ Pub(p, u)
    BY <1>4, <1>5, <1>7 DEF Pub
  <2> QED
    BY <1>5, <1>6, <2>1 DEF e, p
<1>8. CASE cb.combined[P] # UNDEFINED
  <2>1. Heard(q, cb.combined[P], cb.count[P], u)
    BY <1>4, <1>8 DEF Pub
  <2>2. ~(cb.count[P] >= cb_number(P))
    BY <1>3, <1>4, <2>1, HeardAll
  <2>3. cb.verdict = <<>>
    BY <1>4, <1>8, <2>2 DEF Pub
  <2>4. PICK f \in Cbs :
               /\ f.strand = p.strand /\ f.verdict = cb.verdict
               /\ f.count = [cb.count EXCEPT ![P] = cb.count[P] + 1]
               /\ f.combined = [cb.combined EXCEPT ![P] = new]
               /\ e = IF new = UNDEFINED \/ f.count[P] >= cb_number(P)
                      THEN CallParent(f, P, new) ELSE f
    BY <1>5, <1>8
  <2>5. /\ f.count[P] = cb.count[P] + 1 /\ f.combined[P] = new
        /\ \A n \in Subscribers : f.count[n] = cb.count[n] /\ f.combined[n] = cb.combined[n]
    BY <1>1, <1>2, <2>4
  <2>6. new # UNDEFINED => Heard(Tail(q), new, cb.count[P] + 1, u)
    <3>1. ASSUME new # UNDEFINED PROVE new = Head(q) /\ (cb.count[P] = 0 \/ new = cb.combined[P])
      BY <3>1 DEF Verdict
    <3> HIDE DEF new
    <3> QED
      BY <1>3, <1>4, <2>1, <3>1, HeardCount
  <2> DEFINE decided == new = UNDEFINED \/ f.count[P] >= cb_number(P)
  <2> HIDE DEF new
  <2>7. CASE decided
    <3>1. e = [f EXCEPT !.verdict = Append(f.verdict, new)]
      BY <2>4, <2>7 DEF CallParent
    <3>2. Append(f.verdict, new) = <<new>> /\ <<new>> \in Seq(Status)
      BY <1>5, <2>3, <2>4
    <3>3. /\ e \in Cbs /\ e.strand = p.strand /\ e.count = f.count /\ e.combined = f.combined
          /\ e.verdict = <<new>>
      BY <2>4, <3>1, <3>2 DEF Cbs
    <3>4. Pub(e, u)
      BY <1>4, <1>6, <2>5, <2>6, <2>7, <3>3 DEF Pub
    <3> QED
      BY <1>6, <2>5, <3>3, <3>4 DEF e, p
  <2>8. CASE ~decided
    <3>1. e = f /\ e.verdict = <<>> /\ e.strand = p.strand
      BY <2>3, <2>4, <2>8
    <3>2. Pub(e, u)
      BY <1>4, <1>6, <2>5, <2>6, <2>8, <3>1 DEF Pub
    <3> QED
      BY <1>6, <2>5, <3>1, <3>2 DEF e, p
  <2> QED
    BY <2>7, <2>8
<1> QED
  BY <1>7, <1>8

\* That of a connector's callback runs, and may call the publisher.
LEMMA NodeRun ==
    ASSUME NEW cb \in Cbs, NEW u \in [Subscribers -> Status \cup {None}], Pub(cb, u),
           NEW c \in Subscribers, cb.strand[c] # <<>>,
           NEW rep, DOMAIN rep = Connections[c], Node(c, rep, cb),
           u[c] = UpOf(c, FALSE, rep, cb.combined[c], cb.count[c])
    PROVE  LET e == RunMultiCb(Turned(cb, c), c, Head(cb.strand[c]))
           IN  /\ e \in Cbs /\ Node(c, rep, e)
               /\ Pub(e, [u EXCEPT ![c] = UpOf(c, FALSE, rep, e.combined[c], e.count[c])])
               /\ \A n \in Subscribers \ {c} :
                     /\ e.strand[n] = cb.strand[n]
                     /\ e.combined[n] = cb.combined[n] /\ e.count[n] = cb.count[n]
<1> DEFINE q == cb.strand[c]
           p == Turned(cb, c)
           new == Verdict(cb, c)
           e == RunMultiCb(p, c, Head(q))
           N == cb_number(c)
<1>1. c \in Nodes /\ c # Publisher /\ Publisher \in Nodes /\ Subscribers \subseteq Nodes
  BY RoutingAssumption DEF Nodes
<1>2. /\ cb.strand \in [Nodes -> Seq(Status)] /\ cb.verdict \in Seq(Status)
      /\ cb.combined \in [Nodes -> Status] /\ cb.count \in [Nodes -> Nat]
  BY DEF Cbs
<1>3. q \in Seq(Status) /\ cb.count[c] \in Nat /\ Tail(q) \in Seq(Status)
  BY <1>1, <1>2
<1>4. ~(N < 2) /\ N \in Nat /\ IsFiniteSet(DOMAIN rep) /\ N = Cardinality(DOMAIN rep)
  BY <1>1, Finite DEF Node
<1>5. /\ p \in Cbs /\ p.strand = [cb.strand EXCEPT ![c] = Tail(q)]
      /\ p.combined = cb.combined /\ p.count = cb.count /\ p.verdict = cb.verdict
      /\ new \in Status
      /\ cb.combined[c] = UNDEFINED => e = p
      /\ cb.combined[c] # UNDEFINED =>
            \E f \in Cbs :
               /\ f.strand = p.strand /\ f.verdict = cb.verdict
               /\ f.count = [cb.count EXCEPT ![c] = cb.count[c] + 1]
               /\ f.combined = [cb.combined EXCEPT ![c] = new]
               /\ e = IF new = UNDEFINED \/ f.count[c] >= N
                      THEN CallParent(f, c, new) ELSE f
  BY <1>1, RunShape
<1> HIDE DEF p, e
<1>6. /\ p.strand[c] = Tail(q) /\ p.strand[Publisher] = cb.strand[Publisher]
      /\ \A n \in Subscribers \ {c} : p.strand[n] = cb.strand[n]
  BY <1>1, <1>2, <1>5
<1>7. CASE cb.combined[c] = UNDEFINED
  <2>1. e = p /\ Node(c, rep, p) /\ UpOf(c, FALSE, rep, p.combined[c], p.count[c]) = u[c]
    BY <1>4, <1>5, <1>7 DEF Node
  <2>2. Pub(p, u)
    BY <1>5, <1>6 DEF Pub
  <2>3. [u EXCEPT ![c] = u[c]] = u
    OBVIOUS
  <2>4. Pub(e, [u EXCEPT ![c] = UpOf(c, FALSE, rep, e.combined[c], e.count[c])])
    BY <2>1, <2>2, <2>3, Zenon
  <2>5. \A n \in Subscribers \ {c} :
                     /\ e.strand[n] = cb.strand[n]
                     /\ e.combined[n] = cb.combined[n] /\ e.count[n] = cb.count[n]
    BY <1>5, <1>6, <2>1
  <2>6. e \in Cbs /\ Node(c, rep, e)
    BY <1>5, <2>1, Zenon
  <2> QED
    BY <2>4, <2>5, <2>6, Zenon DEF e, p
<1>8. CASE cb.combined[c] # UNDEFINED
  <2>1. Heard(q, cb.combined[c], cb.count[c], rep)
    BY <1>4, <1>8 DEF Node
  <2>2. ~(cb.count[c] >= N)
    <3> DEFINE n == cb.count[c]
               k == cb.combined[c]
    <3> HIDE DEF q, n, k
    <3>1. Heard(q, k, n, rep) /\ q \in Seq(Status) /\ n \in Nat /\ q # <<>>
      BY <1>3, <2>1 DEF q, n, k
    <3>2. ASSUME n >= Cardinality(DOMAIN rep) PROVE FALSE
      BY <1>4, <3>1, <3>2, HeardAll
    <3> QED
      BY <1>4, <3>2 DEF n
  <2>3. u[c] = None
    BY <1>4, <1>8, <2>2 DEF UpOf
  <2>4. PICK f \in Cbs :
               /\ f.strand = p.strand /\ f.verdict = cb.verdict
               /\ f.count = [cb.count EXCEPT ![c] = cb.count[c] + 1]
               /\ f.combined = [cb.combined EXCEPT ![c] = new]
               /\ e = IF new = UNDEFINED \/ f.count[c] >= N
                      THEN CallParent(f, c, new) ELSE f
    BY <1>5, <1>8
  <2>5. /\ f.count[c] = cb.count[c] + 1 /\ f.combined[c] = new
        /\ f.count[Publisher] = cb.count[Publisher] /\ f.combined[Publisher] = cb.combined[Publisher]
        /\ \A n \in Subscribers \ {c} : f.count[n] = cb.count[n] /\ f.combined[n] = cb.combined[n]
    BY <1>1, <1>2, <2>4
  <2>6. new # UNDEFINED => Heard(Tail(q), new, cb.count[c] + 1, rep)
    <3>1. ASSUME new # UNDEFINED PROVE new = Head(q) /\ (cb.count[c] = 0 \/ new = cb.combined[c])
      BY <3>1 DEF Verdict
    <3> HIDE DEF new
    <3> QED
      BY <1>3, <1>4, <2>1, <3>1, HeardCount
  <2> DEFINE decided == new = UNDEFINED \/ f.count[c] >= N
  <2> HIDE DEF new
  <2>7. Pub(f, u)
    BY <1>6, <2>4, <2>5 DEF Pub
  <2>8. f.strand[c] = Tail(q)
    BY <1>6, <2>4
  <2>9. CASE decided
    <3>1. e = CallPublisher(f, new)
      BY <1>1, <2>4, <2>9 DEF CallParent
    <3> DEFINE u2 == [u EXCEPT ![c] = new]
    <3>2. /\ e \in Cbs /\ Pub(e, u2)
          /\ \A n \in Subscribers : e.strand[n] = f.strand[n]
          /\ e.combined = f.combined /\ e.count = f.count
      <4>1. DOMAIN u = Subscribers
        OBVIOUS
      <4>2. u2 = [u EXCEPT ![c] = new]
        OBVIOUS
      <4> HIDE DEF u2, decided, N, q
      <4>3. new \in Status
        BY <1>5
      <4>4. LET x == CallPublisher(f, new)
            IN  /\ x \in Cbs /\ Pub(x, u2)
                /\ \A n \in Subscribers : x.strand[n] = f.strand[n]
                /\ x.combined = f.combined /\ x.count = f.count
        BY <2>3, <2>7, <4>1, <4>2, <4>3, PubCall, Zenon
      <4> QED
        BY <3>1, <4>4, Zenon
    <3>3. UpOf(c, FALSE, rep, e.combined[c], e.count[c]) = new
      BY <1>4, <2>5, <2>9, <3>2 DEF UpOf
    <3>4. Node(c, rep, e)
      BY <1>4, <2>5, <2>6, <2>8, <3>2 DEF Node
    <3>5. \A n \in Subscribers \ {c} :
                     /\ e.strand[n] = cb.strand[n]
                     /\ e.combined[n] = cb.combined[n] /\ e.count[n] = cb.count[n]
      BY <1>6, <2>4, <2>5, <3>2
    <3> QED
      BY <3>2, <3>3, <3>4, <3>5, Zenon DEF e, p
  <2>10. CASE ~decided
    <3>1. e = f
      BY <2>4, <2>10
    <3>2. UpOf(c, FALSE, rep, f.combined[c], f.count[c]) = u[c]
      BY <1>4, <2>3, <2>5, <2>10 DEF UpOf
    <3>3. [u EXCEPT ![c] = u[c]] = u
      OBVIOUS
    <3>4. Node(c, rep, f)
      BY <1>4, <2>5, <2>6, <2>8, <2>10 DEF Node
    <3>5. \A n \in Subscribers \ {c} :
                     /\ f.strand[n] = cb.strand[n]
                     /\ f.combined[n] = cb.combined[n] /\ f.count[n] = cb.count[n]
      BY <1>6, <2>4, <2>5
    <3> QED
      BY <2>7, <3>1, <3>2, <3>3, <3>4, <3>5, Zenon DEF e, p
  <2> QED
    BY <2>9, <2>10
<1> QED
  BY <1>7, <1>8

-----------------------------------------------------------------------------
(* The transforms                                                          *)

\* A field of an event is set.
LEMMA FieldSet ==
    ASSUME NEW e, IsEvent(e), NEW f \in Fields, NEW v PROVE IsEvent([e EXCEPT ![f] = v])
<1> DEFINE o == [e EXCEPT ![f] = v]
<1>1. DOMAIN e = Fields
  BY DEF IsEvent
<1>2. o = [x \in Fields |-> IF x = f THEN v ELSE e[x]]
  BY <1>1
<1> HIDE DEF o
<1>3. \A x \in Fields : o[x] = IF x = f THEN v ELSE e[x]
  BY <1>2
<1>4. o = [x \in Fields |-> o[x]]
  BY <1>2, <1>3
<1> QED
  BY <1>4 DEF IsEvent, o

\* A transform passes an event on, changed or not, or drops it; a null event
\* gets through none but BlackHole, and stays null.
LEMMA TransformsKeepEvents ==
    ASSUME NEW t, t.kind \in Kinds, NEW e, NEW o \in Outcomes(t, e),
           IsEvent(e) \/ (e = NULL /\ ~Dereferences(t))
    PROVE  o = NULL \/ IsEvent(o)
<1>1. CASE ~Dereferences(t)
  BY <1>1 DEF Dereferences, Outcomes, BlackHole
<1>2. CASE IsEvent(e)
  <2>1. \A v : /\ IsEvent([e EXCEPT !.index = v]) /\ IsEvent([e EXCEPT !.payload = v])
    BY <1>2, FieldSet DEF Fields
  <2>2. CASE t.kind = "IndexOffset"
    BY <2>1, <2>2 DEF Outcomes, IndexOffset
  <2>3. CASE t.kind = "IndexMap"
    BY <1>2, <2>1, <2>3 DEF Outcomes, IndexMap
  <2>4. CASE t.kind = "LogicInv"
    BY <1>2, <2>1, <2>4 DEF Outcomes, LogicInv
  <2>5. CASE t.kind = "AnalogScaling"
    <3>1. IsEvent(Scaled(t, e))
      BY <1>2, <2>1 DEF Scaled
    <3>2. IsEvent(Offset(t, Scaled(t, e)))
      <4> DEFINE x == Scaled(t, e)
      <4> HIDE DEF x
      <4>1. \A v : IsEvent([x EXCEPT !.payload = v])
        BY <3>1, FieldSet DEF Fields, x
      <4>2. IsEvent(Offset(t, x))
        BY <3>1, <4>1 DEF Offset, x
      <4> QED
        BY <4>2 DEF x
    <3> QED
      BY <1>2, <2>5, <3>2 DEF Outcomes, AnalogScaling
  <2>6. CASE t.kind = "Rand"
    BY <1>2, <2>1, <2>6 DEF Outcomes, Rand
  <2>7. CASE t.kind = "BlackHole"
    BY <2>7 DEF Outcomes, BlackHole
  <2>8. CASE t.kind \in {"Threshold", "RateLimit"}
    BY <1>2, <2>8 DEF Outcomes, Gate
  <2> QED
    BY <2>2, <2>3, <2>4, <2>5, <2>6, <2>7, <2>8 DEF Kinds
<1> QED
  BY <1>1, <1>2

-----------------------------------------------------------------------------
(* The steps                                                               *)

\* What connector d keeps of its own is left alone.
Untouched(d) ==
    /\ stage'[d] = stage[d] /\ chain'[d] = chain[d] /\ evt'[d] = evt[d]
    /\ got'[d] = got[d] /\ reply'[d] = reply[d]
    /\ cbs'.strand[d] = cbs.strand[d] /\ cbs'.combined[d] = cbs.combined[d]
    /\ cbs'.count[d] = cbs.count[d]

LEMMA UntouchedKeeps ==
    ASSUME NEW T, NEW d, Local(d, T), Untouched(d), event' = None => event = None
    PROVE  Local(d, T)' /\ Up(d)' = Up(d)
<1>1. Silent(d, got') <=> Silent(d, got)
  BY DEF Untouched, Silent
<1>2. Node(d, reply[d], cbs)'
  BY DEF Untouched, Local, Node
<1>3. Up(d)' = Up(d)
  BY <1>1 DEF Up, Untouched, Ended
<1>4. Local(d, T)'
  BY <1>1, <1>2 DEF Local, Untouched
<1> QED
  BY <1>3, <1>4

\* A connector's status for the publisher is a status.
LEMMA UpsType ==
    ASSUME Typed PROVE ups \in [Subscribers -> Status \cup {None}]
<1> SUFFICES ASSUME NEW c \in Subscribers PROVE Up(c) \in Status \cup {None}
  BY DEF ups
<1>1. /\ reply[c] \in [Connections[c] -> Status \cup {None}]
      /\ cbs.combined[c] \in Status
  BY DEF Typed, Cbs, Nodes
<1>2. Connections[c] # {} => (CHOOSE r \in Connections[c] : TRUE) \in Connections[c]
  OBVIOUS
<1> QED
  BY <1>1, <1>2, Statuses DEF Up, UpOf

\* A step of connector c, and what it tells the publisher's callback.
LEMMA StepOf ==
    ASSUME NEW T, IInv(T), Typed', NEW c \in Subscribers, Local(c, T)',
           event' = None => event = None,
           \A d \in Subscribers \ {c} : Untouched(d),
           Pub(cbs', [ups EXCEPT ![c] = Up(c)'])
    PROVE  IInv(T)'
<1>1. \A d \in Subscribers \ {c} : Local(d, T)' /\ Up(d)' = Up(d)
  BY UntouchedKeeps DEF IInv
<1>2. ups' = [ups EXCEPT ![c] = Up(c)']
  <2>1. ups' = [d \in Subscribers |-> Up(d)']
    BY DEF ups
  <2>2. [ups EXCEPT ![c] = Up(c)'] = [d \in Subscribers |-> IF d = c THEN Up(c)' ELSE Up(d)]
    BY DEF ups
  <2> QED
    BY <1>1, <2>1, <2>2
<1>3. Pub(cbs', ups')
  BY <1>2
<1> QED
  BY <1>1, <1>3 DEF IInv

\* A step of c that leaves the callbacks and its status alone.
LEMMA QuietStep ==
    ASSUME NEW T, IInv(T), Typed', NEW c \in Subscribers, Local(c, T)',
           event' = None => event = None,
           \A d \in Subscribers \ {c} : Untouched(d),
           cbs' = cbs, Up(c)' = Up(c)
    PROVE  IInv(T)'
<1>1. ups[c] = Up(c) /\ [ups EXCEPT ![c] = ups[c]] = ups
  BY DEF ups
<1>2. Pub(cbs', [ups EXCEPT ![c] = Up(c)'])
  BY <1>1 DEF IInv
<1> QED
  BY <1>2, StepOf

\* A step that leaves every connector alone.
LEMMA StepOfNone ==
    ASSUME NEW T, IInv(T), Typed', event' = None => event = None,
           \A d \in Subscribers : Untouched(d), Pub(cbs', ups)
    PROVE  IInv(T)'
<1>1. \A d \in Subscribers : Local(d, T)' /\ Up(d)' = Up(d)
  BY UntouchedKeeps DEF IInv
<1>2. ups' = ups
  BY <1>1 DEF ups
<1> QED
  BY <1>1, <1>2 DEF IInv

LEMMA IdleKeeps ==
    ASSUME NEW T, IInv(T), UNCHANGED <<event, stage, chain, evt, got, reply, cbs>>
    PROVE  IInv(T)'
<1>1. Typed'
  BY DEF IInv, Typed
<1>2. \A d \in Subscribers : Untouched(d)
  BY DEF Untouched
<1>3. Pub(cbs', ups)
  BY DEF IInv
<1> QED
  BY <1>1, <1>2, <1>3, StepOfNone

\* A connector whose receivers were given nothing has not called the publisher,
\* unless it has ended the event itself.
LEMMA SilentUp ==
    ASSUME NEW T, Typed, NEW c \in Subscribers, Local(c, T), Silent(c, got), stage[c] # "done"
    PROVE  Up(c) = None /\ cbs.strand[c] = <<>>
<1>1. /\ reply[c] \in [Connections[c] -> Status \cup {None}]
      /\ cbs.combined[c] \in Status /\ cbs.strand[c] \in Seq(Status) /\ cbs.count[c] \in Nat
      /\ cb_number(c) \in Nat
  BY Finite DEF Typed, Cbs, Nodes
<1>2. \A r \in Connections[c] : reply[c][r] = None
  BY DEF Local, Silent
<1>3. Up(c) = UpOf(c, FALSE, reply[c], cbs.combined[c], cbs.count[c])
  BY DEF Up, Ended
<1>4. CASE cb_number(c) < 2
  <2>1. Connections[c] # {} => (CHOOSE r \in Connections[c] : TRUE) \in Connections[c]
    OBVIOUS
  <2> QED
    BY <1>2, <1>3, <1>4, <2>1 DEF UpOf, Local, Node
<1>5. CASE ~(cb_number(c) < 2)
  <2> DEFINE q == cbs.strand[c]
             k == cbs.combined[c]
             n == cbs.count[c]
  <2>1. k # UNDEFINED /\ Heard(q, k, n, reply[c]) /\ DOMAIN reply[c] = Connections[c]
    BY <1>1, <1>5 DEF Local, Node
  <2> HIDE DEF q, k, n
  <2>2. q \in Seq(Status)
    BY <1>1 DEF q
  <2>3. \A d \in DOMAIN reply[c] : reply[c][d] = None
    BY <1>2, <2>1
  <2>4. q = <<>> /\ n = 0
    BY <2>1, <2>2, <2>3, HeardSome
  <2> QED
    BY <1>1, <1>3, <1>5, <2>1, <2>4 DEF UpOf, q, k, n
<1> QED
  BY <1>4, <1>5

LEMMA PublishKeeps ==
    ASSUME NEW T, IInv(T), NEW e \in Events, Publish(e) PROVE IInv(T)'
<1>1. e # None /\ event' = e /\ event = None
  BY RoutingAssumption DEF Publish
<1>2. Typed'
  BY <1>1 DEF IInv, Typed, Publish
<1>3. \A c \in Subscribers : Local(c, T)' /\ Up(c)' = Up(c)
  <2> SUFFICES ASSUME NEW c \in Subscribers PROVE Local(c, T)' /\ Up(c)' = Up(c)
    OBVIOUS
  <2>1. /\ stage[c] = "none" /\ stage'[c] = "posted" /\ Silent(c, got)
        /\ UNCHANGED <<chain, evt, got, reply, cbs>>
    BY <1>1 DEF IInv, Local, Publish
  <2>2. Node(c, reply[c], cbs)'
    BY <2>1 DEF IInv, Local
  <2>3. Local(c, T)'
    BY <1>1, <2>1, <2>2 DEF IInv, Local
  <2>4. Up(c)' = Up(c)
    BY <2>1 DEF Up, Ended
  <2> QED
    BY <2>3, <2>4
<1>4. ups' = ups /\ cbs' = cbs
  BY <1>3 DEF ups, Publish
<1> QED
  BY <1>2, <1>3, <1>4 DEF IInv

LEMMA AcceptKeeps ==
    ASSUME NEW T, HandlersIn(T), EventsAreRecords, IInv(T), NEW c \in Subscribers,
           ConnectorEvent(c), Accept(c)
    PROVE  IInv(T)'
<1>1. /\ Typed /\ Local(c, T) /\ stage[c] = "posted" /\ stage' = [stage EXCEPT ![c] = "chain"]
      /\ chain' = [chain EXCEPT ![c] = WrapHandlers(SenderTransforms[c])]
      /\ evt' = [evt EXCEPT ![c] = event]
      /\ UNCHANGED <<event, got, reply, cbs>>
  BY DEF IInv, ConnectorEvent, Accept, new_event_obj
<1>2. event \in Events
  BY <1>1 DEF Typed, Local
<1>3. /\ stage'[c] = "chain" /\ chain'[c] = WrapHandlers(SenderTransforms[c]) /\ evt'[c] = event
      /\ \A d \in Subscribers \ {c} :
            stage'[d] = stage[d] /\ chain'[d] = chain[d] /\ evt'[d] = evt[d]
  BY <1>1 DEF Typed
<1>4. Typed'
  BY <1>1 DEF Typed
<1>5. \A d \in Subscribers \ {c} : Untouched(d)
  BY <1>1, <1>3 DEF Untouched
<1>6. chain'[c] \in Seq(T) /\ IsEvent(evt'[c]) /\ Silent(c, got) /\ Node(c, reply[c], cbs)'
  BY <1>1, <1>2, <1>3 DEF HandlersIn, EventsAreRecords, Local
<1>7. Local(c, T)'
  BY <1>1, <1>3, <1>6 DEF Local
<1>8. Up(c)' = Up(c)
  BY <1>1, <1>3 DEF Up, Ended
<1> QED
  BY <1>1, <1>4, <1>5, <1>7, <1>8, QuietStep

\* An event that is refused or dropped is answered by the connector itself.
LEMMA EndKeeps ==
    ASSUME NEW T, IInv(T), NEW c \in Subscribers, stage[c] # "done", Silent(c, got), event # None,
           stage' = [stage EXCEPT ![c] = "done"], cbs' = CallPublisher(cbs, UNDEFINED),
           UNCHANGED <<event, chain, evt, got, reply>>
    PROVE  IInv(T)'
<1>1. Typed /\ Local(c, T) /\ Pub(cbs, ups) /\ cbs \in Cbs
  BY DEF IInv, Typed
<1>2. ups \in [Subscribers -> Status \cup {None}] /\ ups[c] = None
  BY <1>1, UpsType, SilentUp DEF ups
<1> DEFINE u2 == [ups EXCEPT ![c] = UNDEFINED]
<1>3. /\ cbs' \in Cbs /\ Pub(cbs', u2)
      /\ \A n \in Subscribers : cbs'.strand[n] = cbs.strand[n]
      /\ cbs'.combined = cbs.combined /\ cbs'.count = cbs.count
  <2>1. DOMAIN ups = Subscribers /\ u2 = [ups EXCEPT ![c] = UNDEFINED] /\ UNDEFINED \in Status
    BY <1>2, Statuses
  <2> HIDE DEF u2
  <2>2. LET x == CallPublisher(cbs, UNDEFINED)
        IN  /\ x \in Cbs /\ Pub(x, u2)
            /\ \A n \in Subscribers : x.strand[n] = cbs.strand[n]
            /\ x.combined = cbs.combined /\ x.count = cbs.count
    BY <1>1, <1>2, <2>1, PubCall, Zenon
  <2> QED
    BY <2>2
<1>4. stage'[c] = "done" /\ \A d \in Subscribers \ {c} : stage'[d] = stage[d]
  BY <1>1 DEF Typed
<1>5. Typed'
  BY <1>1, <1>3 DEF Typed
<1>6. \A d \in Subscribers \ {c} : Untouched(d)
  BY <1>3, <1>4 DEF Untouched
<1>7. Node(c, reply[c], cbs)'
  BY <1>1, <1>3 DEF Local, Node
<1>8. Local(c, T)'
  BY <1>1, <1>3, <1>4, <1>7 DEF Local
<1>9. Up(c)' = UNDEFINED
  BY <1>4 DEF Up, UpOf, Ended
<1>10. Pub(cbs', [ups EXCEPT ![c] = Up(c)'])
  BY <1>3, <1>9
<1> QED
  BY <1>5, <1>6, <1>8, <1>10, StepOf

LEMMA ConnectorEventKeeps ==
    ASSUME NEW T, HandlersIn(T), EventsAreRecords, IInv(T), NEW c \in Subscribers,
           ConnectorEvent(c)
    PROVE  IInv(T)'
<1>1. Local(c, T) /\ stage[c] = "posted" /\ UNCHANGED <<event, got, reply>>
  BY DEF IInv, ConnectorEvent
<1>2. CASE Accept(c)
  BY <1>2, AcceptKeeps
<1>3. CASE Refuse(c)
  <2>1. /\ stage' = [stage EXCEPT ![c] = "done"] /\ cbs' = CallPublisher(cbs, UNDEFINED)
        /\ UNCHANGED <<chain, evt>>
    BY <1>3 DEF Refuse
  <2>2. Silent(c, got) /\ event # None /\ stage[c] # "done"
    BY <1>1 DEF Local
  <2> QED
    BY <1>1, <2>1, <2>2, EndKeeps
<1> QED
  BY <1>2, <1>3 DEF ConnectorEvent

LEMMA DroppedKeeps ==
    ASSUME NEW T, IInv(T), NEW c \in Subscribers, Dropped(c) PROVE IInv(T)'
<1>1. /\ Local(c, T) /\ stage[c] = "chain" /\ evt[c] = NULL
      /\ stage' = [stage EXCEPT ![c] = "done"] /\ cbs' = CallPublisher(cbs, UNDEFINED)
      /\ UNCHANGED <<event, chain, evt, got, reply>>
  BY DEF IInv, Dropped, AnswerDropped
<1>2. Silent(c, got) /\ event # None /\ stage[c] # "done"
  BY <1>1 DEF Local
<1> QED
  BY <1>1, <1>2, EndKeeps

LEMMA TransformKeeps ==
    ASSUME NEW T, HandlersIn(T), IInv(T), NEW c \in Subscribers, TransformStep(c)
    PROVE  IInv(T)'
<1>1. /\ Typed /\ Local(c, T) /\ stage[c] = "chain" /\ chain[c] # <<>>
      /\ chain' = [chain EXCEPT ![c] = Tail(chain[c])]
      /\ UNCHANGED <<event, stage, got, reply, cbs>>
  BY DEF IInv, TransformStep
<1>2. chain[c] \in Seq(T) /\ (evt[c] = NULL \/ IsEvent(evt[c])) /\ Silent(c, got)
  BY <1>1 DEF Local
<1>3. Tail(chain[c]) \in Seq(T) /\ Head(chain[c]) \in T
  BY <1>1, <1>2
<1>4. PICK o : /\ evt'[c] = o /\ (o = NULL \/ IsEvent(o)) /\ DOMAIN evt' = Subscribers
               /\ \A d \in Subscribers \ {c} : evt'[d] = evt[d]
  <2> DEFINE t == Head(chain[c])
  <2>1. t.kind \in Kinds
    BY <1>3 DEF HandlersIn
  <2> HIDE DEF t
  <2>2. CASE evt[c] = NULL /\ Dereferences(t)
    <3>1. evt' = evt
      BY <2>2 DEF TransformStep, t
    <3> QED
      BY <1>1, <1>2, <3>1 DEF Typed
  <2>3. CASE ~(evt[c] = NULL /\ Dereferences(t))
    <3>1. PICK o \in Outcomes(t, evt[c]) : evt' = [evt EXCEPT ![c] = o]
      BY <2>3 DEF TransformStep, t
    <3>2. IsEvent(evt[c]) \/ (evt[c] = NULL /\ ~Dereferences(t))
      BY <1>2, <2>3
    <3>3. o = NULL \/ IsEvent(o)
      BY <2>1, <3>2, TransformsKeepEvents
    <3> QED
      BY <1>1, <3>1, <3>3 DEF Typed
  <2> QED
    BY <2>2, <2>3
<1>5. /\ chain'[c] = Tail(chain[c]) /\ evt'[c] = o
      /\ \A d \in Subscribers \ {c} : chain'[d] = chain[d] /\ evt'[d] = evt[d]
  BY <1>1, <1>4 DEF Typed
<1>6. Typed'
  BY <1>1, <1>4 DEF Typed
<1>7. \A d \in Subscribers \ {c} : Untouched(d)
  BY <1>1, <1>5 DEF Untouched
<1>8. Local(c, T)'
  BY <1>1, <1>2, <1>3, <1>4, <1>5 DEF Local
<1>9. Up(c)' = Up(c)
  BY <1>1 DEF Up, Ended
<1> QED
  BY <1>1, <1>6, <1>7, <1>8, <1>9, QuietStep

LEMMA DeliverKeeps ==
    ASSUME NEW T, EventsAreRecords, IInv(T), NEW c \in Subscribers, NEW r \in Connections[c],
           Deliver(c, r)
    PROVE  IInv(T)'
<1>1. /\ Typed /\ Local(c, T) /\ stage[c] = "chain" /\ chain[c] = <<>> /\ evt[c] # NULL
      /\ got' = [got EXCEPT ![c][r] = evt[c]]
      /\ UNCHANGED <<event, chain, evt, reply, cbs>>
  BY DEF IInv, Deliver
<1>2. IsEvent(evt[c]) /\ evt[c] # None
  BY <1>1 DEF Local, EventsAreRecords
<1>3. PICK st \in {"chain", "done"} : stage' = [stage EXCEPT ![c] = st]
  BY <1>1 DEF Deliver
<1>4. /\ stage'[c] = st /\ got'[c] = [got[c] EXCEPT ![r] = evt[c]]
      /\ \A d \in Subscribers \ {c} : stage'[d] = stage[d] /\ got'[d] = got[d]
  BY <1>1, <1>3 DEF Typed
<1>5. DOMAIN got[c] = Connections[c]
  BY <1>1 DEF Typed
<1>6. /\ got'[c][r] # None /\ DOMAIN got'[c] = Connections[c]
      /\ \A x \in Connections[c] : got[c][x] # None => got'[c][x] # None
  BY <1>2, <1>4, <1>5
<1>7. ~Silent(c, got')
  BY <1>6 DEF Silent
<1>8. Typed'
  <2>1. stage' \in [Subscribers -> {"none", "posted", "chain", "done"}]
    BY <1>1, <1>3 DEF Typed
  <2>2. DOMAIN got' = Subscribers /\ \A d \in Subscribers : DOMAIN got'[d] = Connections[d]
    BY <1>1, <1>4, <1>6 DEF Typed
  <2> QED
    BY <1>1, <2>1, <2>2 DEF Typed
<1>9. \A d \in Subscribers \ {c} : Untouched(d)
  BY <1>1, <1>4 DEF Untouched
<1>10. Node(c, reply[c], cbs)' /\ event' # None
  BY <1>1 DEF Local
<1>11. Local(c, T)'
  BY <1>1, <1>2, <1>4, <1>6, <1>7, <1>10 DEF Local
<1>12. Up(c)' = Up(c)
  BY <1>1, <1>7 DEF Up, Ended
<1> QED
  BY <1>1, <1>8, <1>9, <1>11, <1>12, QuietStep

\* A receiver's status goes to the publisher if it is the only one, or waits on
\* the strand of the connector's callback.
LEMMA AnswerKeeps ==
    ASSUME NEW T, IInv(T), NEW c \in Subscribers, NEW r \in Connections[c], NEW s \in Status,
           Answer(c, r, s)
    PROVE  IInv(T)'
<1>1. /\ Typed /\ Local(c, T) /\ Pub(cbs, ups) /\ cbs \in Cbs
      /\ got[c][r] # None /\ reply[c][r] = None
      /\ reply' = [reply EXCEPT ![c][r] = s] /\ cbs' = CallBack(cbs, c, s)
      /\ UNCHANGED <<event, stage, chain, evt, got>>
  BY DEF IInv, Typed, Answer
<1>2. /\ reply[c] \in [Connections[c] -> Status \cup {None}] /\ s # None
      /\ reply'[c] = [reply[c] EXCEPT ![r] = s]
      /\ \A d \in Subscribers \ {c} : reply'[d] = reply[d]
  BY <1>1, Statuses DEF Typed
<1>3. /\ reply'[c][r] = s /\ reply'[c] \in [Connections[c] -> Status \cup {None}]
      /\ \A x \in Connections[c] : reply'[c][x] # None => x = r \/ reply[c][x] # None
  BY <1>2
<1>4. ~Silent(c, got)
  BY <1>1 DEF Silent
<1>5. c # Publisher /\ Publisher \in Nodes /\ c \in Nodes /\ Subscribers \subseteq Nodes
  BY RoutingAssumption DEF Nodes
<1>6. Up(c) = UpOf(c, FALSE, reply[c], cbs.combined[c], cbs.count[c])
      /\ Up(c)' = UpOf(c, FALSE, reply'[c], cbs'.combined[c], cbs'.count[c])
  BY <1>1, <1>4 DEF Up, Ended
<1>7. ASSUME cbs' \in Cbs, \A d \in Subscribers \ {c} : cbs'.strand[d] = cbs.strand[d],
             cbs'.combined = cbs.combined, cbs'.count = cbs.count,
             Node(c, reply'[c], cbs'), Pub(cbs', [ups EXCEPT ![c] = Up(c)'])
      PROVE  IInv(T)'
  <2>1. Typed'
    <3>1. DOMAIN reply' = Subscribers
          /\ \A d \in Subscribers : reply'[d] \in [Connections[d] -> Status \cup {None}]
      BY <1>1, <1>2, <1>3 DEF Typed
    <3> QED
      BY <1>1, <1>7, <3>1 DEF Typed
  <2>2. \A d \in Subscribers \ {c} : Untouched(d)
    BY <1>1, <1>2, <1>7 DEF Untouched
  <2>3. Local(c, T)'
    BY <1>1, <1>3, <1>4, <1>7 DEF Local
  <2> QED
    BY <1>1, <1>7, <2>1, <2>2, <2>3, StepOf
<1>8. CASE cb_number(c) < 2
  <2>1. Connections[c] = {r}
    BY <1>8, Finite, Lone
  <2>2. Up(c) = None
    BY <1>1, <1>6, <1>8, <2>1 DEF UpOf
  <2>3. Up(c)' = s
    BY <1>3, <1>6, <1>8, <2>1 DEF UpOf
  <2>4. cbs' = CallPublisher(cbs, s)
    BY <1>1, <1>5, <1>8 DEF CallBack, CallParent
  <2> DEFINE u2 == [ups EXCEPT ![c] = s]
  <2>5. /\ cbs' \in Cbs /\ Pub(cbs', u2)
        /\ \A n \in Subscribers : cbs'.strand[n] = cbs.strand[n]
        /\ cbs'.combined = cbs.combined /\ cbs'.count = cbs.count
    <3>1. DOMAIN ups = Subscribers /\ ups[c] = None /\ u2 = [ups EXCEPT ![c] = s]
      BY <2>2 DEF ups
    <3> HIDE DEF u2
    <3>2. LET x == CallPublisher(cbs, s)
          IN  /\ x \in Cbs /\ Pub(x, u2)
              /\ \A n \in Subscribers : x.strand[n] = cbs.strand[n]
              /\ x.combined = cbs.combined /\ x.count = cbs.count
      <4>1. cbs \in Cbs /\ Pub(cbs, ups)
        BY <1>1
      <4> QED
        BY <3>1, <4>1, PubCall, Zenon
    <3> QED
      BY <2>4, <3>2
  <2>6. Node(c, reply'[c], cbs')
    BY <1>1, <1>8, <2>5 DEF Local, Node
  <2> QED
    BY <1>7, <2>3, <2>5, <2>6
<1>9. CASE ~(cb_number(c) < 2)
  <2> DEFINE q == cbs.strand[c]
             p == Append(q, s)
  <2>1. cbs' = [cbs EXCEPT !.strand[c] = p]
    BY <1>1, <1>9 DEF CallBack, ToStrand
  <2>2. cbs.strand \in [Nodes -> Seq(Status)] /\ q \in Seq(Status) /\ p \in Seq(Status)
    BY <1>1, <1>5 DEF Cbs
  <2> HIDE DEF p
  <2>3. /\ cbs' \in Cbs /\ cbs'.strand = [cbs.strand EXCEPT ![c] = p]
        /\ cbs'.combined = cbs.combined /\ cbs'.count = cbs.count /\ cbs'.verdict = cbs.verdict
    BY <1>1, <1>5, <2>1, <2>2 DEF Cbs
  <2>4. /\ cbs'.strand[c] = p /\ cbs'.strand[Publisher] = cbs.strand[Publisher]
        /\ \A d \in Subscribers \ {c} : cbs'.strand[d] = cbs.strand[d]
    BY <1>5, <2>2, <2>3
  <2>5. Up(c)' = Up(c)
    BY <1>6, <1>9, <2>3 DEF UpOf
  <2>6. Pub(cbs', ups)
    BY <1>1, <2>3, <2>4 DEF Pub
  <2>7. [ups EXCEPT ![c] = Up(c)'] = ups
    BY <2>5 DEF ups
  <2>8. ASSUME cbs.combined[c] # UNDEFINED
        PROVE  Heard(p, cbs.combined[c], cbs.count[c], reply'[c])
    <3> DEFINE rep == reply[c]
               rep2 == reply'[c]
               k == cbs.combined[c]
               n == cbs.count[c]
    <3>1. /\ Heard(q, k, n, rep) /\ r \in DOMAIN rep /\ rep[r] = None /\ s # None
          /\ rep2 = [rep EXCEPT ![r] = s] /\ q \in Seq(Status)
      BY <1>1, <1>2, <1>9, <2>2, <2>8 DEF Local, Node
    <3> HIDE DEF rep, rep2, q, k, n
    <3>2. Heard(Append(q, s), k, n, rep2)
      BY <3>1, HeardCall
    <3> QED
      BY <3>2 DEF p, rep2, k, n
  <2>9. Node(c, reply'[c], cbs')
    BY <1>9, <2>3, <2>4, <2>8 DEF Node
  <2> QED
    BY <1>7, <2>3, <2>4, <2>6, <2>7, <2>9
<1> QED
  BY <1>8, <1>9

\* A handler on the strand of a callback runs.
LEMMA RunStrandKeeps ==
    ASSUME NEW T, IInv(T), NEW n \in Nodes, RunStrand(n) PROVE IInv(T)'
<1> DEFINE s == Head(cbs.strand[n])
           e == RunMultiCb(Turned(cbs, n), n, s)
<1>1. /\ Typed /\ Pub(cbs, ups) /\ cbs \in Cbs /\ cbs.strand[n] # <<>>
      /\ cbs' = e /\ UNCHANGED <<event, stage, chain, evt, got, reply>>
  BY DEF IInv, Typed, RunStrand, Turned
<1>2. ups \in [Subscribers -> Status \cup {None}]
  BY <1>1, UpsType
<1>3. ASSUME cbs' \in Cbs PROVE Typed'
  BY <1>1, <1>3 DEF Typed
<1>4. CASE n = Publisher
  <2>1. DOMAIN ups = Subscribers /\ cbs.strand[Publisher] # <<>>
    BY <1>1, <1>2, <1>4
  <2>2. /\ cbs' \in Cbs /\ Pub(cbs', ups)
        /\ \A d \in Subscribers : /\ cbs'.strand[d] = cbs.strand[d]
                                  /\ cbs'.combined[d] = cbs.combined[d]
                                  /\ cbs'.count[d] = cbs.count[d]
    <3>1. cbs' = RunMultiCb(Turned(cbs, Publisher), Publisher, Head(cbs.strand[Publisher]))
      BY <1>1, <1>4
    <3>2. cbs \in Cbs /\ Pub(cbs, ups)
      BY <1>1
    <3>3. LET x == RunMultiCb(Turned(cbs, Publisher), Publisher, Head(cbs.strand[Publisher]))
          IN  /\ x \in Cbs /\ Pub(x, ups)
              /\ \A d \in Subscribers : /\ x.strand[d] = cbs.strand[d]
                                        /\ x.combined[d] = cbs.combined[d]
                                        /\ x.count[d] = cbs.count[d]
      BY <2>1, <3>2, PubRun, Zenon
    <3> QED
      BY <3>1, <3>3, Zenon
  <2>3. \A d \in Subscribers : Untouched(d)
    BY <1>1, <2>2 DEF Untouched
  <2> QED
    BY <1>1, <1>3, <2>2, <2>3, StepOfNone
<1>5. CASE n \in Subscribers
  <2>1. Local(n, T) /\ Node(n, reply[n], cbs) /\ DOMAIN reply[n] = Connections[n]
    BY <1>1, <1>5 DEF IInv, Typed, Local
  <2>2. ~Silent(n, got)
    <3> SUFFICES ASSUME Silent(n, got) PROVE FALSE
      OBVIOUS
    <3>1. reply[n] \in [Connections[n] -> Status \cup {None}] /\ cbs.strand[n] \in Seq(Status)
      BY <1>1, <1>5 DEF Typed, Cbs
    <3>2. \A r \in DOMAIN reply[n] : reply[n][r] = None
      BY <2>1 DEF Local, Silent
    <3>3. Heard(cbs.strand[n], cbs.combined[n], cbs.count[n], reply[n])
      BY <1>1, <2>1 DEF Local, Node
    <3>4. cbs.strand[n] = <<>>
      BY <3>1, <3>2, <3>3, HeardSome
    <3> QED
      BY <1>1, <3>4
  <2>3. /\ Up(n) = UpOf(n, FALSE, reply[n], cbs.combined[n], cbs.count[n])
        /\ Up(n)' = UpOf(n, FALSE, reply[n], cbs'.combined[n], cbs'.count[n])
    BY <1>1, <2>2 DEF Up, Ended
  <2>4. ups[n] = UpOf(n, FALSE, reply[n], cbs.combined[n], cbs.count[n])
    BY <1>5, <2>3 DEF ups
  <2>5. LET x == RunMultiCb(Turned(cbs, n), n, Head(cbs.strand[n]))
        IN  /\ x \in Cbs /\ Node(n, reply[n], x)
            /\ Pub(x, [ups EXCEPT ![n] = UpOf(n, FALSE, reply[n], x.combined[n], x.count[n])])
            /\ \A d \in Subscribers \ {n} :
                  /\ x.strand[d] = cbs.strand[d]
                  /\ x.combined[d] = cbs.combined[d] /\ x.count[d] = cbs.count[d]
    <3>1. cbs \in Cbs /\ Pub(cbs, ups) /\ cbs.strand[n] # <<>>
      BY <1>1
    <3> QED
      BY <1>2, <1>5, <2>1, <2>4, <3>1, NodeRun, Zenon
  <2>6. cbs' = RunMultiCb(Turned(cbs, n), n, Head(cbs.strand[n]))
    BY <1>1
  <2>7. /\ cbs' \in Cbs /\ Node(n, reply[n], cbs')
        /\ Pub(cbs', [ups EXCEPT ![n] = UpOf(n, FALSE, reply[n], cbs'.combined[n], cbs'.count[n])])
        /\ \A d \in Subscribers \ {n} :
              /\ cbs'.strand[d] = cbs.strand[d]
              /\ cbs'.combined[d] = cbs.combined[d] /\ cbs'.count[d] = cbs.count[d]
    BY <2>5, <2>6, Zenon
  <2>8. \A d \in Subscribers \ {n} : Untouched(d)
    BY <1>1, <2>7 DEF Untouched
  <2>9. Local(n, T)'
    BY <1>1, <2>1, <2>2, <2>7 DEF Local
  <2>10. Pub(cbs', [ups EXCEPT ![n] = Up(n)'])
    BY <2>3, <2>7, Zenon
  <2>11. Typed' /\ (event' = None => event = None)
    BY <1>1, <1>3, <2>7
  <2> QED
    BY <1>5, <2>8, <2>9, <2>10, <2>11, StepOf
<1> QED
  BY <1>4, <1>5 DEF Nodes

\* Before the event is published nobody has called anybody.
LEMMA InitHolds == ASSUME NEW T, RoutingInit PROVE IInv(T)
<1>1. cbs \in Cbs
  <2> DEFINE none == <<>>
  <2>1. none \in Seq(Status) /\ SUCCESS \in Status
    BY Statuses
  <2>2. cbs = [strand |-> [n \in Nodes |-> none], combined |-> [n \in Nodes |-> SUCCESS],
               count |-> [n \in Nodes |-> 0], verdict |-> none]
    BY DEF RoutingInit, Nodes
  <2> HIDE DEF none
  <2> QED
    BY <2>1, <2>2 DEF Cbs
<1>2. /\ cbs.verdict = <<>> /\ \A n \in Nodes : /\ cbs.strand[n] = <<>> /\ cbs.count[n] = 0
                                                /\ cbs.combined[n] = SUCCESS
  BY DEF RoutingInit, Nodes
<1>3. Typed
  <2>1. \A c \in Subscribers : reply[c] = [r \in Connections[c] |-> None]
                               /\ got[c] = [r \in Connections[c] |-> None]
    BY DEF RoutingInit
  <2> QED
    BY <1>1, <2>1 DEF RoutingInit, Typed
<1>4. \A rep : Heard(<<>>, SUCCESS, 0, rep)
  BY Statuses, HeardNone
<1>5. \A c \in Subscribers : Local(c, T) /\ Up(c) = None
  <2> SUFFICES ASSUME NEW c \in Subscribers PROVE Local(c, T) /\ Up(c) = None
    OBVIOUS
  <2>1. /\ event = None /\ stage[c] = "none" /\ Silent(c, got) /\ c \in Nodes
        /\ \A r \in Connections[c] : reply[c][r] = None
    BY DEF RoutingInit, Silent, Nodes
  <2>2. Node(c, reply[c], cbs)
    BY <1>2, <1>4, <2>1 DEF Node
  <2>3. Local(c, T)
    BY <1>2, <2>1, <2>2, Statuses DEF Local
  <2> QED
    BY <1>3, <2>1, <2>3, SilentUp
<1>6. Pub(cbs, ups)
  <2>1. Publisher \in Nodes /\ cb_number(Publisher) \in Nat
    BY Finite DEF Nodes
  <2>2. \A c \in Subscribers : ups[c] = None
    BY <1>5 DEF ups
  <2>3. Heard(<<>>, SUCCESS, 0, ups)
    BY <1>4
  <2>4. CASE cb_number(Publisher) < 2
    BY <1>2, <2>1, <2>2, <2>4 DEF Pub
  <2>5. CASE ~(cb_number(Publisher) < 2)
    <3>1. ~(0 >= cb_number(Publisher))
      BY <2>1, <2>5
    <3> QED
      BY <1>2, <2>1, <2>3, <2>5, <3>1, Statuses DEF Pub
  <2> QED
    BY <2>4, <2>5
<1> QED
  BY <1>3, <1>5, <1>6 DEF IInv

LEMMA StepKeeps ==
    ASSUME NEW T, HandlersIn(T), EventsAreRecords, IInv(T), [RoutingNext]_routingVars PROVE IInv(T)'
<1>1. CASE \E e \in Events : Publish(e)
  BY <1>1, PublishKeeps
<1>2. CASE \E c \in Subscribers : Connector(c)
  <2>1. PICK c \in Subscribers : Connector(c)
    BY <1>2
  <2> QED
    BY <2>1, ConnectorEventKeeps, TransformKeeps, DroppedKeeps, DeliverKeeps DEF Connector
<1>3. CASE \E c \in Subscribers : SetEnabled(c)
  BY <1>3, IdleKeeps DEF SetEnabled
<1>4. CASE \E c \in Subscribers : \E r \in Connections[c], s \in Status : Answer(c, r, s)
  BY <1>4, AnswerKeeps
<1>5. CASE \E n \in Nodes : RunStrand(n)
  BY <1>5, RunStrandKeeps
<1>6. CASE UNCHANGED routingVars
  BY <1>6, IdleKeeps DEF routingVars
<1> QED
  BY <1>1, <1>2, <1>3, <1>4, <1>5, <1>6 DEF RoutingNext, Nodes

-----------------------------------------------------------------------------
(* What the invariant says of the publisher                                *)

\* The publisher is called with what every connector has told its callback.
LEMMA VerdictOfAll ==
    ASSUME NEW T, IInv(T), NEW v, v = cbs.verdict
    PROVE  /\ Len(v) <= 1
           /\ v # <<>> /\ v[1] # UNDEFINED => \A c \in Subscribers : Up(c) = v[1] /\ v[1] # None
<1> DEFINE P == Publisher
<1>1. /\ Typed /\ Pub(cbs, ups) /\ P \in Nodes
      /\ cb_number(P) \in Nat /\ IsFiniteSet(Subscribers) /\ cb_number(P) = Cardinality(Subscribers)
  BY Finite DEF IInv, Nodes
<1>2. /\ cbs.combined[P] \in Status /\ cbs.count[P] \in Nat /\ cbs.strand[P] \in Seq(Status)
  BY <1>1 DEF Typed, Cbs
<1>3. Len(<<>>) = 0 /\ \A x : Len(<<x>>) = 1 /\ <<x>>[1] = x
  OBVIOUS
<1>4. \A c \in Subscribers : ups[c] = Up(c)
  BY DEF ups
<1>5. CASE cb_number(P) < 2
  <2>1. CASE Subscribers = {}
    BY <1>1, <1>3, <1>5, <2>1 DEF Pub
  <2>2. CASE Subscribers # {}
    <3>1. \A c \in Subscribers : v = IF Up(c) = None THEN <<>> ELSE <<Up(c)>>
      BY <1>1, <1>4, <1>5 DEF Pub
    <3>2. v = <<>> \/ \E x : v = <<x>>
      BY <2>2, <3>1
    <3>3. \A c \in Subscribers : v # <<>> => Up(c) = v[1] /\ v[1] # None
      BY <1>3, <3>1
    <3>4. Len(v) = 0 \/ Len(v) = 1
      BY <1>3, <3>2, Zenon
    <3>5. 0 <= 1 /\ 1 <= 1
      OBVIOUS
    <3>6. Len(v) <= 1
      BY <3>4, <3>5, Zenon
    <3> QED
      BY <3>3, <3>6, Zenon
  <2> QED
    BY <2>1, <2>2
<1>6. CASE ~(cb_number(P) < 2)
  <2> DEFINE k == cbs.combined[P]
             n == cbs.count[P]
             q == cbs.strand[P]
  <2>1. /\ v = IF k = UNDEFINED THEN <<UNDEFINED>> ELSE IF n >= cb_number(P) THEN <<k>> ELSE <<>>
        /\ k # UNDEFINED => Heard(q, k, n, ups)
    BY <1>1, <1>6 DEF Pub
  <2> HIDE DEF k, n, q
  <2>2. Len(v) <= 1
    BY <1>3, <2>1
  <2>3. ASSUME v # <<>>, v[1] # UNDEFINED
        PROVE  \A c \in Subscribers : Up(c) = v[1] /\ v[1] # None
    <3>1. k # UNDEFINED /\ n >= cb_number(P) /\ v[1] = k /\ Heard(q, k, n, ups)
      BY <1>3, <2>1, <2>3
    <3>2. q \in Seq(Status) /\ n \in Nat /\ k # None
      BY <1>2, Statuses DEF k, n, q
    <3>3. DOMAIN ups = Subscribers
      BY DEF ups
    <3>4. \A c \in DOMAIN ups : ups[c] = k
      BY <1>1, <3>1, <3>2, <3>3, HeardAll
    <3> QED
      BY <1>4, <3>1, <3>2, <3>3, <3>4
  <2> QED
    BY <2>2, <2>3
<1> QED
  BY <1>5, <1>6

\* A connector passes on a status other than UNDEFINED only if all its receivers gave it.
LEMMA UpOfAll ==
    ASSUME NEW T, IInv(T), NEW c \in Subscribers, Up(c) # None, Up(c) # UNDEFINED
    PROVE  Connections[c] # {} /\ \A r \in Connections[c] : reply[c][r] = Up(c)
<1>1. /\ Typed /\ Node(c, reply[c], cbs) /\ cb_number(c) \in Nat /\ IsFiniteSet(Connections[c])
      /\ cb_number(c) = Cardinality(Connections[c])
  BY Finite DEF IInv, Local, Nodes
<1>2. /\ reply[c] \in [Connections[c] -> Status \cup {None}]
      /\ cbs.count[c] \in Nat /\ cbs.strand[c] \in Seq(Status)
  BY <1>1 DEF Typed, Cbs, Nodes
<1>3. Up(c) = UpOf(c, FALSE, reply[c], cbs.combined[c], cbs.count[c])
  BY DEF Up, UpOf
<1>4. CASE cb_number(c) < 2
  <2>1. Connections[c] # {}
    BY <1>3, <1>4 DEF UpOf
  <2>2. PICK r : r \in Connections[c]
    BY <2>1
  <2>3. Connections[c] = {r}
    BY <1>1, <1>4, <2>2, Lone
  <2> QED
    BY <1>3, <1>4, <2>3 DEF UpOf
<1>5. CASE ~(cb_number(c) < 2)
  <2> DEFINE k == cbs.combined[c]
             n == cbs.count[c]
             q == cbs.strand[c]
             rep == reply[c]
  <2>1. n >= cb_number(c) /\ k = Up(c)
    BY <1>3, <1>5 DEF UpOf
  <2>2. Heard(q, k, n, rep)
    BY <1>1, <1>5, <2>1 DEF Node
  <2>3. Connections[c] # {}
    BY <1>1, <1>5, FS_EmptySet
  <2>4. q \in Seq(Status) /\ n \in Nat /\ DOMAIN rep = Connections[c]
    BY <1>2
  <2> HIDE DEF q, n, k, rep
  <2>5. \A r \in DOMAIN rep : rep[r] = k
    BY <1>1, <2>1, <2>2, <2>4, HeardAll
  <2> QED
    BY <2>1, <2>3, <2>4, <2>5 DEF rep
<1> QED
  BY <1>4, <1>5

\* The handlers wrapped for a chain are the transforms of its configuration.
LEMMA HandlersConfigured == HandlersIn(Configured)
<1>1. \A c \in Subscribers : SenderTransforms[c] \in Seq(Configured)
  BY RoutingAssumption
<1>2. \A c \in Subscribers : WrapHandlers(SenderTransforms[c]) = SenderTransforms[c]
  BY <1>1, WrapIsInOrder
<1> QED
  BY <1>1, <1>2, RoutingAssumption DEF HandlersIn

LEMMA InvariantHolds ==
    ASSUME EventsAreRecords PROVE RoutingSpec => []IInv(Configured)
<1>1. RoutingInit => IInv(Configured)
  BY InitHolds
<1>2. IInv(Configured) /\ [RoutingNext]_routingVars => IInv(Configured)'
  BY HandlersConfigured, StepKeeps
<1> QED
  BY <1>1, <1>2, PTL DEF RoutingSpec

(***************************************************************************)
(* For any connectors, receivers and statuses, and any chains of the       *)
(* in-built transforms: the publisher's status callback is called at most  *)
(* once, whatever refusals, drops and answers race to it (PublishEvent,    *)
(* DataConnector::Event and SyncMultiCallback).                            *)
(***************************************************************************)
THEOREM CalledAtMostOnce ==
    ASSUME EventsAreRecords
    PROVE  RoutingSpec => []PublisherCalledAtMostOnce
<1>1. IInv(Configured) => PublisherCalledAtMostOnce
  BY VerdictOfAll DEF PublisherCalledAtMostOnce
<1> QED
  BY <1>1, InvariantHolds, PTL

(***************************************************************************)
(* And a status it is given, other than UNDEFINED, is the one that every   *)
(* receiver of every subscribed connector has passed to its own callback.  *)
(***************************************************************************)
THEOREM VerdictIsEveryReceivers ==
    ASSUME EventsAreRecords
    PROVE  RoutingSpec => []VerdictReachesAllReceivers
<1>1. IInv(Configured) => VerdictReachesAllReceivers
  <2> SUFFICES ASSUME IInv(Configured), cbs.verdict # <<>>, cbs.verdict[1] # UNDEFINED,
                      NEW c \in Subscribers
               PROVE  /\ Connections[c] # {}
                      /\ \A r \in Connections[c] : reply[c][r] = cbs.verdict[1]
    BY DEF VerdictReachesAllReceivers
  <2> DEFINE v == cbs.verdict
  <2>1. Up(c) = v[1] /\ v[1] # None
    BY VerdictOfAll
  <2> QED
    BY <2>1, UpOfAll
<1> QED
  BY <1>1, InvariantHolds, PTL

-----------------------------------------------------------------------------
(* What a receiver is given                                                *)

\* k transforms have run: the rest of the configuration is still to come.
OnTheWay(ts, e, ch, x) ==
    \E k \in 0 .. Len(ts) : ch = SubSeq(ts, k + 1, Len(ts)) /\ x \in After(ts, e)[k]

ReceivedInv ==
    /\ DOMAIN stage = Subscribers /\ DOMAIN chain = Subscribers
    /\ DOMAIN evt = Subscribers /\ DOMAIN got = Subscribers
    /\ \A c \in Subscribers :
         /\ DOMAIN got[c] = Connections[c]
         /\ event = None => stage[c] = "none"
         /\ stage[c] \in {"none", "posted"} => Silent(c, got)
         /\ stage[c] = "chain" /\ ~crashed
              => OnTheWay(SenderTransforms[c], event, chain[c], evt[c])
    /\ ReceivedIsComposed

\* The chain starts as the whole configuration, with the published event.
LEMMA WaySet ==
    ASSUME NEW T, NEW ts \in Seq(T), NEW e
    PROVE  OnTheWay(ts, e, WrapHandlers(ts), e)
<1>1. Len(ts) \in Nat /\ 0 \in 0 .. Len(ts) /\ SubSeq(ts, 0 + 1, Len(ts)) = ts
  OBVIOUS
<1>2. e \in After(ts, e)[0]
  BY AfterIsComposed DEF Afters
<1> QED
  BY <1>1, <1>2, WrapIsInOrder, Zenon DEF OnTheWay

\* A transform takes the event, or the null pointer, one step along the way.
LEMMA WayStep ==
    ASSUME NEW T, NEW ts \in Seq(T), NEW e, NEW ch, NEW x, OnTheWay(ts, e, ch, x), ch # <<>>,
           ~(x = NULL /\ Dereferences(Head(ch))), NEW y \in Outcomes(Head(ch), x)
    PROVE  OnTheWay(ts, e, Tail(ch), y)
<1> DEFINE n == Len(ts)
           a == After(ts, e)
<1>1. PICK k \in 0 .. n : ch = SubSeq(ts, k + 1, n) /\ x \in a[k]
  BY Zenon DEF OnTheWay
<1>2. n \in Nat /\ k \in Nat /\ k <= n /\ SubSeq(ts, n + 1, n) = <<>>
  OBVIOUS
<1>3. k # n
  BY <1>1, <1>2
<1>4. k + 1 \in 1 .. n /\ k + 1 \in 0 .. n /\ (k + 1) - 1 = k
  BY <1>2, <1>3
<1>5. Head(ch) = ts[k + 1] /\ Tail(ch) = SubSeq(ts, (k + 1) + 1, n)
  <2>1. ch \in Seq(T) /\ Len(ch) = n - k
    BY <1>1, <1>2
  <2>2. \A i \in 1 .. n - k : ch[i] = ts[k + i]
    BY <1>1, <1>2
  <2>3. Head(ch) = ts[k + 1]
    BY <1>2, <1>3, <2>1, <2>2
  <2>4. Tail(ch) \in Seq(T) /\ SubSeq(ts, (k + 1) + 1, n) \in Seq(T)
        /\ Len(Tail(ch)) = n - (k + 1) /\ Len(SubSeq(ts, (k + 1) + 1, n)) = n - (k + 1)
    BY <1>2, <1>3, <2>1
  <2>5. \A i \in 1 .. n - (k + 1) : Tail(ch)[i] = SubSeq(ts, (k + 1) + 1, n)[i]
    BY <1>2, <1>3, <2>1, <2>2
  <2> QED
    BY <2>3, <2>4, <2>5
<1>6. a[k + 1] = Passed(ts[k + 1], a[k])
  BY <1>4, AfterIsComposed DEF Afters
<1> HIDE DEF a
<1>7. y \in (IF x = NULL THEN {NULL} ELSE Outcomes(ts[k + 1], x))
  <2>1. CASE x = NULL
    <3>1. ts[k + 1].kind = "BlackHole"
      BY <1>5, <2>1 DEF Dereferences
    <3>2. Outcomes(ts[k + 1], x) = {NULL}
      BY <3>1 DEF Outcomes, BlackHole
    <3> QED
      BY <1>5, <2>1, <3>2, Zenon
  <2>2. CASE x # NULL
    BY <1>5, <2>2, Zenon
  <2> QED
    BY <2>1, <2>2
<1>8. y \in Passed(ts[k + 1], a[k])
  BY <1>1, <1>7, Zenon DEF Passed
<1> QED
  BY <1>4, <1>5, <1>6, <1>8, Zenon DEF OnTheWay, a

\* Past the last transform the event is one of those Composed allows.
LEMMA WayEnd ==
    ASSUME NEW c \in Subscribers, OnTheWay(SenderTransforms[c], event, <<>>, evt[c])
    PROVE  evt[c] \in Composed(c)
<1> DEFINE ts == SenderTransforms[c]
           n == Len(ts)
<1>1. ts \in Seq(Configured) /\ n \in Nat
  BY RoutingAssumption
<1>2. PICK k \in 0 .. n : <<>> = SubSeq(ts, k + 1, n) /\ evt[c] \in After(ts, event)[k]
  BY Zenon DEF OnTheWay
<1>3. k = n
  <2>1. Len(SubSeq(ts, k + 1, n)) = n - k
    BY <1>1
  <2>2. Len(<<>>) = 0
    OBVIOUS
  <2>3. n - k = 0
    BY <1>2, <2>1, <2>2, Zenon
  <2> QED
    BY <1>1, <2>3
<1>4. Composed(c) = After(ts, event)[n]
  BY <1>1, AfterIsComposed, Zenon
<1> QED
  BY <1>2, <1>3, <1>4, Zenon

\* Composed depends on nothing but the published event.
LEMMA ComposedStays ==
    ASSUME event' = event, NEW c PROVE Composed(c)' = Composed(c)
  BY DEF Composed

LEMMA ReceivedInit == RoutingInit => ReceivedInv
  BY DEF RoutingInit, ReceivedInv, ReceivedIsComposed, Silent

\* A step of connector c that gives a receiver nothing.
LEMMA ReceivedQuiet ==
    ASSUME ReceivedInv, NEW c \in Subscribers, event' = event, got' = got, crashed => crashed',
           NEW s, stage[c] # "none", s \in {"chain", "done"}, DOMAIN stage' = Subscribers,
           stage'[c] = s, \A d \in Subscribers \ {c} : stage'[d] = stage[d],
           DOMAIN chain' = Subscribers /\ DOMAIN evt' = Subscribers,
           \A d \in Subscribers \ {c} : chain'[d] = chain[d] /\ evt'[d] = evt[d],
           s = "chain" /\ ~crashed' => OnTheWay(SenderTransforms[c], event, chain'[c], evt'[c])
    PROVE  ReceivedInv'
<1>1. event # None
  BY DEF ReceivedInv
<1>2. ReceivedIsComposed'
  <2>1. \A d \in Subscribers : Composed(d)' = Composed(d)
    BY ComposedStays
  <2> QED
    BY <2>1 DEF ReceivedInv, ReceivedIsComposed
<1>3. ASSUME NEW d \in Subscribers
      PROVE  /\ DOMAIN got'[d] = Connections[d]
             /\ event' = None => stage'[d] = "none"
             /\ stage'[d] \in {"none", "posted"} => Silent(d, got')
             /\ stage'[d] = "chain" /\ ~crashed'
                  => OnTheWay(SenderTransforms[d], event', chain'[d], evt'[d])
  <2>1. DOMAIN got'[d] = Connections[d] /\ (event' = None => stage'[d] = "none")
    BY <1>1 DEF ReceivedInv
  <2>2. CASE d = c
    BY <2>1, <2>2 DEF ReceivedInv
  <2>3. CASE d # c
    <3>1. stage'[d] = stage[d]
      BY <2>3 DEF ReceivedInv
    <3> QED
      BY <2>1, <2>3, <3>1 DEF ReceivedInv
  <2> QED
    BY <2>2, <2>3
<1>4. DOMAIN got' = Subscribers
  BY DEF ReceivedInv
<1> QED
  BY <1>2, <1>3, <1>4, Zenon DEF ReceivedInv

LEMMA ReceivedDeliver ==
    ASSUME ReceivedInv, NEW c \in Subscribers, NEW r \in Connections[c], Deliver(c, r)
    PROVE  ReceivedInv'
<1> DEFINE s == IF \E q \in Connections[c] \ {r} : got[c][q] = None THEN stage[c] ELSE "done"
<1>1. /\ ~crashed /\ stage[c] = "chain" /\ chain[c] = <<>> /\ evt[c] # NULL
      /\ got' = [got EXCEPT ![c][r] = evt[c]] /\ stage' = [stage EXCEPT ![c] = s]
      /\ UNCHANGED <<event, chain, evt, crashed>>
  BY DEF Deliver
<1>2. s \in {"chain", "done"}
  BY <1>1
<1> HIDE DEF s
<1>3. event # None
  BY <1>1 DEF ReceivedInv
<1>4. evt[c] \in Composed(c) \ {NULL}
  <2>1. OnTheWay(SenderTransforms[c], event, <<>>, evt[c])
    BY <1>1 DEF ReceivedInv
  <2> QED
    BY <1>1, <2>1, WayEnd
<1>5. /\ DOMAIN got' = Subscribers /\ DOMAIN got'[c] = Connections[c]
      /\ \A d \in Subscribers \ {c} : got'[d] = got[d]
      /\ got'[c][r] = evt[c] /\ \A q \in Connections[c] \ {r} : got'[c][q] = got[c][q]
  BY <1>1 DEF ReceivedInv
<1>6. ReceivedIsComposed'
  <2>1. \A d \in Subscribers : Composed(d)' = Composed(d)
    BY <1>1, ComposedStays
  <2> SUFFICES ASSUME NEW d \in Subscribers, NEW q \in Connections[d], got'[d][q] # None
               PROVE  got'[d][q] \in Composed(d) \ {NULL}
    BY <2>1, Zenon DEF ReceivedIsComposed
  <2>2. CASE d = c /\ q = r
    BY <1>4, <1>5, <2>2
  <2>3. CASE ~(d = c /\ q = r)
    <3>1. got'[d][q] = got[d][q]
      BY <1>5, <2>3
    <3> QED
      BY <3>1 DEF ReceivedInv, ReceivedIsComposed
  <2> QED
    BY <2>2, <2>3
<1>7. ASSUME NEW d \in Subscribers
      PROVE  /\ DOMAIN got'[d] = Connections[d]
             /\ event' = None => stage'[d] = "none"
             /\ stage'[d] \in {"none", "posted"} => Silent(d, got')
             /\ stage'[d] = "chain" /\ ~crashed'
                  => OnTheWay(SenderTransforms[d], event', chain'[d], evt'[d])
  <2>1. CASE d = c
    BY <1>1, <1>2, <1>3, <1>5, <2>1 DEF ReceivedInv
  <2>2. CASE d # c
    <3>1. stage'[d] = stage[d] /\ got'[d] = got[d] /\ chain'[d] = chain[d] /\ evt'[d] = evt[d]
      BY <1>1, <1>5, <2>2 DEF ReceivedInv
    <3> QED
      BY <1>1, <3>1 DEF ReceivedInv, Silent
  <2> QED
    BY <2>1, <2>2
<1>8. DOMAIN stage' = Subscribers /\ DOMAIN chain' = Subscribers /\ DOMAIN evt' = Subscribers
  BY <1>1 DEF ReceivedInv
<1> QED
  BY <1>5, <1>6, <1>7, <1>8, Zenon DEF ReceivedInv

LEMMA ReceivedStep ==
    ASSUME ReceivedInv, [RoutingNext]_routingVars PROVE ReceivedInv'
<1>0. \A c \in Subscribers : SenderTransforms[c] \in Seq(Configured)
  BY RoutingAssumption
<1>1. ASSUME NEW e \in Events, Publish(e) PROVE ReceivedInv'
  <2>1. /\ event = None /\ event' = e /\ stage' = [c \in Subscribers |-> "posted"]
        /\ UNCHANGED <<chain, evt, got>>
    BY <1>1 DEF Publish
  <2>2. \A c \in Subscribers : Silent(c, got)
    BY <2>1 DEF ReceivedInv
  <2>3. e # None
    BY RoutingAssumption
  <2> QED
    BY <2>1, <2>2, <2>3 DEF ReceivedInv, ReceivedIsComposed, Silent
<1>2. ASSUME NEW c \in Subscribers, ConnectorEvent(c) PROVE ReceivedInv'
  <2>1. stage[c] = "posted" /\ UNCHANGED <<event, got, crashed>>
    BY <1>2 DEF ConnectorEvent
  <2>2. CASE Accept(c)
    <3>1. /\ stage' = [stage EXCEPT ![c] = "chain"]
          /\ chain' = [chain EXCEPT ![c] = WrapHandlers(SenderTransforms[c])]
          /\ evt' = [evt EXCEPT ![c] = event]
      BY <2>2 DEF Accept, new_event_obj
    <3> DEFINE w == WrapHandlers(SenderTransforms[c])
    <3>2. OnTheWay(SenderTransforms[c], event, w, event)
      BY <1>0, WaySet
    <3> HIDE DEF w
    <3>3. /\ DOMAIN chain' = Subscribers /\ DOMAIN evt' = Subscribers
          /\ chain'[c] = w /\ evt'[c] = event
          /\ \A d \in Subscribers \ {c} : chain'[d] = chain[d] /\ evt'[d] = evt[d]
      BY <3>1 DEF ReceivedInv, w
    <3>4. OnTheWay(SenderTransforms[c], event, chain'[c], evt'[c])
      BY <3>2, <3>3, Zenon
    <3>5. /\ DOMAIN stage' = Subscribers /\ stage'[c] = "chain"
          /\ \A d \in Subscribers \ {c} : stage'[d] = stage[d]
      BY <3>1 DEF ReceivedInv
    <3> QED
      BY <2>1, <3>3, <3>4, <3>5, ReceivedQuiet
  <2>3. CASE Refuse(c)
    <3>1. stage' = [stage EXCEPT ![c] = "done"] /\ UNCHANGED <<chain, evt>>
      BY <2>3 DEF Refuse
    <3>2. DOMAIN chain' = Subscribers /\ DOMAIN evt' = Subscribers
      BY <3>1 DEF ReceivedInv
    <3>3. /\ DOMAIN stage' = Subscribers /\ stage'[c] = "done"
          /\ \A d \in Subscribers \ {c} : stage'[d] = stage[d]
      BY <3>1 DEF ReceivedInv
    <3> QED
      BY <2>1, <3>1, <3>2, <3>3, ReceivedQuiet
  <2> QED
    BY <1>2, <2>2, <2>3 DEF ConnectorEvent
<1>3. ASSUME NEW c \in Subscribers, TransformStep(c) PROVE ReceivedInv'
  <2>1. /\ ~crashed /\ stage[c] = "chain" /\ chain[c] # <<>>
        /\ chain' = [chain EXCEPT ![c] = Tail(chain[c])] /\ UNCHANGED <<event, got, stage>>
    BY <1>3 DEF TransformStep
  <2>2. DOMAIN stage' = Subscribers /\ stage'[c] = "chain" /\ stage' = stage
    BY <2>1 DEF ReceivedInv
  <2>3. /\ DOMAIN chain' = Subscribers /\ chain'[c] = Tail(chain[c])
        /\ \A d \in Subscribers \ {c} : chain'[d] = chain[d]
    BY <2>1 DEF ReceivedInv
  <2>4. CASE evt[c] = NULL /\ Dereferences(Head(chain[c]))
    <3>1. crashed' /\ evt' = evt /\ DOMAIN evt' = Subscribers
      BY <1>3, <2>4 DEF TransformStep, ReceivedInv
    <3> QED
      BY <2>1, <2>2, <2>3, <3>1, ReceivedQuiet
  <2>5. CASE ~(evt[c] = NULL /\ Dereferences(Head(chain[c])))
    <3>1. crashed' = crashed /\ \E o \in Outcomes(Head(chain[c]), evt[c]) : evt' = [evt EXCEPT ![c] = o]
      BY <1>3, <2>5 DEF TransformStep
    <3>2. PICK o \in Outcomes(Head(chain[c]), evt[c]) : evt' = [evt EXCEPT ![c] = o]
      BY <3>1
    <3>3. /\ DOMAIN evt' = Subscribers /\ evt'[c] = o
          /\ \A d \in Subscribers \ {c} : evt'[d] = evt[d]
      BY <3>2 DEF ReceivedInv
    <3>4. OnTheWay(SenderTransforms[c], event, chain[c], evt[c])
      BY <2>1 DEF ReceivedInv
    <3>5. OnTheWay(SenderTransforms[c], event, Tail(chain[c]), o)
      BY <1>0, <2>1, <2>5, <3>4, WayStep
    <3>6. OnTheWay(SenderTransforms[c], event, chain'[c], evt'[c])
      BY <2>3, <3>3, <3>5, Zenon
    <3> QED
      BY <2>1, <2>2, <2>3, <3>1, <3>3, <3>6, ReceivedQuiet
  <2> QED
    BY <2>4, <2>5
<1>4. ASSUME NEW c \in Subscribers, Dropped(c) PROVE ReceivedInv'
  <2>1. /\ stage[c] = "chain" /\ stage' = [stage EXCEPT ![c] = "done"]
        /\ UNCHANGED <<event, got, chain, evt, crashed>>
    BY <1>4 DEF Dropped
  <2>2. DOMAIN chain' = Subscribers /\ DOMAIN evt' = Subscribers
    BY <2>1 DEF ReceivedInv
  <2>3. /\ DOMAIN stage' = Subscribers /\ stage'[c] = "done"
        /\ \A d \in Subscribers \ {c} : stage'[d] = stage[d]
    BY <2>1 DEF ReceivedInv
  <2> QED
    BY <2>1, <2>2, <2>3, ReceivedQuiet
<1>5. CASE UNCHANGED <<event, stage, chain, evt, got, crashed>>
  <2>1. \A d \in Subscribers : Composed(d)' = Composed(d)
    BY <1>5, ComposedStays
  <2> QED
    BY <1>5, <2>1 DEF ReceivedInv, ReceivedIsComposed, Silent
<1>6. ASSUME NEW c \in Subscribers, Connector(c) PROVE ReceivedInv'
  BY <1>2, <1>3, <1>4, <1>6, ReceivedDeliver DEF Connector
<1>7. ASSUME NEW c \in Subscribers, SetEnabled(c) PROVE ReceivedInv'
  BY <1>5, <1>7 DEF SetEnabled
<1>8. ASSUME NEW c \in Subscribers, NEW r \in Connections[c], NEW s \in Status, Answer(c, r, s)
      PROVE  ReceivedInv'
  BY <1>5, <1>8 DEF Answer
<1>9. ASSUME NEW n \in Nodes, RunStrand(n) PROVE ReceivedInv'
  BY <1>5, <1>9 DEF RunStrand
<1>10. CASE UNCHANGED routingVars
  BY <1>5, <1>10 DEF routingVars
<1> QED
  BY <1>1, <1>6, <1>7, <1>8, <1>9, <1>10 DEF RoutingNext, Nodes

(***************************************************************************)
(* For any connectors and any chains of the in-built transforms: what a    *)
(* receiver is given is the published event, put through the transforms of *)
(* its connector in the order of the configuration, whatever the other     *)
(* connectors do with their copies at the same time                        *)
(* (DataConnector::Event).                                                 *)
(***************************************************************************)
THEOREM ReceivedInOrder == RoutingSpec => []ReceivedIsComposed
<1>1. ReceivedInv => ReceivedIsComposed
  BY DEF ReceivedInv
<1> QED
  BY <1>1, ReceivedInit, ReceivedStep, PTL DEF RoutingSpec
=============================================================================
