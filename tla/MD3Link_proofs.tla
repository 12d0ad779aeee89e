----------------------------- MODULE MD3Link_proofs -----------------------------
(***************************************************************************)
(* Proofs about the MD3 link, for every number of retries, controls,       *)
(* losses and disconnections: a command in flight stays watched by a       *)
(* timer and is sent a bounded number of times; as long as the connection  *)
(* has not gone down no tagged change is lost, and a control reported as   *)
(* done was published; when all is quiet the master has the point's value. *)
(***************************************************************************)
EXTENDS MD3Link, TLAPS

-----------------------------------------------------------------------------
(* The inductive invariant, of the strand's data d and of u, the number of *)
(* expired timeouts whose handler has not run                              *)

Fields == {"queue", "Current", "FunctionCode", "Processing", "RetriesLeft", "timer", "wire",
           "calls", "gaveUp", "sends"}

Typed(d) ==
    /\ DOMAIN d = Fields
    /\ d.Processing \in BOOLEAN /\ d.timer \in BOOLEAN
    /\ d.RetriesLeft \in Nat /\ d.sends \in Nat

Watched(d, u) == d.Processing => d.timer \/ u = 1

\* Retries left and transmissions made add up, until the command is given up;
\* then no timeout is left that could take the wrapped counter for retries.
\* A timer armed beside an expired one belongs to a command just started.
Counted(d, u) ==
    setup.Retries > 0 =>
        /\ u = 1 /\ d.timer => d.RetriesLeft = setup.Retries
        /\ d.RetriesLeft = Huge => ~d.timer /\ u = 0 /\ d.sends <= setup.Retries + 1
        /\ d.RetriesLeft # Huge => d.RetriesLeft + d.sends <= setup.Retries + 1

Good(d, u) == Typed(d) /\ Watched(d, u) /\ Counted(d, u)

IInv == setup \in Setups /\ due \in {0, 1} /\ Good(data, due)

-----------------------------------------------------------------------------
(* Operators of the strand *)

\* The retries configured are a number below the wrapped counter.
LEMMA SetupFacts ==
    ASSUME setup \in Setups
    PROVE  setup.Retries \in Nat /\ Huge \in Nat /\ setup.Retries < Huge
BY SetupAssumption DEF SetupType

\* Fields other than Processing, timer, RetriesLeft and sends do not matter.
LEMMA GoodCongruence ==
    ASSUME NEW d, NEW e, NEW u, Good(d, u), DOMAIN e = Fields,
           e.Processing = d.Processing, e.timer = d.timer,
           e.RetriesLeft = d.RetriesLeft, e.sends = d.sends
    PROVE  Good(e, u)
BY DEF Good, Typed, Watched, Counted

\* Putting a command to rest, its timer stopped or not, keeps the invariant if
\* the counters stay.
LEMMA GoodAtRest ==
    ASSUME NEW d, NEW e, NEW u \in {0, 1}, Good(d, u), DOMAIN e = Fields,
           e.Processing \in BOOLEAN, ~e.Processing, e.timer \in BOOLEAN, e.timer => d.timer,
           e.RetriesLeft = d.RetriesLeft, e.sends = d.sends
    PROVE  Good(e, u)
BY DEF Good, Typed, Watched, Counted

\* A command that has just been sent is watched, and good if its counters are.
LEMMA GoodSent ==
    ASSUME NEW e, NEW u \in {0, 1}, setup \in Setups, DOMAIN e = Fields,
           e.Processing = TRUE, e.timer = TRUE,
           e.RetriesLeft \in Nat, e.sends \in Nat,
           setup.Retries > 0 =>
               /\ u = 1 => e.RetriesLeft = setup.Retries
               /\ e.RetriesLeft # Huge
               /\ e.RetriesLeft + e.sends <= setup.Retries + 1
    PROVE  Good(e, u)
<1>1. e.Processing \in BOOLEAN /\ e.timer \in BOOLEAN
  BY Zenon
<1>2. Typed(e)
  BY <1>1, Zenon DEF Typed
<1>3. Watched(e, u)
  BY Zenon DEF Watched
<1>4. Counted(e, u)
  BY Zenon DEF Counted
<1> QED BY <1>2, <1>3, <1>4 DEF Good

\* The same of one sent for the first time.
LEMMA GoodStarted ==
    ASSUME NEW e, NEW u \in {0, 1}, setup \in Setups, DOMAIN e = Fields,
           e.Processing = TRUE, e.timer = TRUE, e.RetriesLeft = setup.Retries, e.sends = 1
    PROVE  Good(e, u)
<1>1. setup.Retries \in Nat /\ Huge \in Nat /\ setup.Retries < Huge
  BY SetupFacts
<1>2. e.RetriesLeft \in Nat /\ e.sends \in Nat /\ e.RetriesLeft # Huge
  BY <1>1
<1>3. e.RetriesLeft + e.sends <= setup.Retries + 1
  BY <1>1
<1> QED BY <1>2, <1>3, GoodSent, Zenon

\* NextCommand followed by Transmit, from a command at rest: nothing waits
\* and nothing changes, or a command is sent for the first time.
LEMMA StartFacts ==
    ASSUME NEW d, Typed(d), d.Processing = FALSE, setup \in Setups
    PROVE  LET e == Transmit(NextCommand(d)) IN
           \/ e = d
           \/ /\ DOMAIN e = Fields /\ e.Processing = TRUE /\ e.timer = TRUE
              /\ e.RetriesLeft = setup.Retries /\ e.sends = 1
<1> DEFINE n == NextCommand(d)
<1>1. CASE d.queue = <<>>
  BY <1>1 DEF NextCommand, Transmit
<1>2. CASE d.queue # <<>>
  <2>1. /\ DOMAIN n = Fields
        /\ n.Processing = TRUE /\ n.RetriesLeft = setup.Retries /\ n.sends = 0
    BY <1>2 DEF NextCommand, Typed, Fields
  <2>2. Transmit(n) = [n EXCEPT !.wire = Append(@, n.Current), !.timer = TRUE, !.sends = @ + 1]
    BY <2>1 DEF Transmit
  <2>3. /\ DOMAIN Transmit(n) = Fields
        /\ Transmit(n).Processing = TRUE /\ Transmit(n).timer = TRUE
        /\ Transmit(n).RetriesLeft = setup.Retries /\ Transmit(n).sends = 1
    BY <2>1, <2>2 DEF Fields
  <2> QED BY <2>3
<1> QED BY <1>1, <1>2

\* Sending without a timeout keeps the invariant.
LEMMA SendGood ==
    ASSUME NEW d, NEW u \in {0, 1}, Good(d, u), setup \in Setups
    PROVE  Good(UnprotectedSendNextMasterCommand(d, FALSE), u)
<1> DEFINE e == UnprotectedSendNextMasterCommand(d, FALSE)
<1>1. CASE d.Processing
  BY <1>1 DEF UnprotectedSendNextMasterCommand
<1>2. CASE ~d.Processing
  <2>1. e = Transmit(NextCommand(d))
    BY <1>2 DEF UnprotectedSendNextMasterCommand
  <2>2. Typed(d) /\ d.Processing = FALSE
    BY <1>2 DEF Good, Typed
  <2>3. CASE e = d
    BY <2>3
  <2>4. CASE /\ DOMAIN e = Fields /\ e.Processing = TRUE /\ e.timer = TRUE
             /\ e.RetriesLeft = setup.Retries /\ e.sends = 1
    BY <2>4, GoodStarted
  <2> QED BY <2>1, <2>2, <2>3, <2>4, StartFacts
<1> QED BY <1>1, <1>2

\* QueueMD3Command keeps it: the command waits, is refused or is sent.
LEMMA QueueGood ==
    ASSUME NEW d, NEW u \in {0, 1}, NEW command, Good(d, u), setup \in Setups
    PROVE  Good(QueueMD3Command(d, command), u)
<1> DEFINE e == IF Len(d.queue) < MaxQueue
                THEN [d EXCEPT !.queue = Append(@, command)]
                ELSE [d EXCEPT !.calls = Called(@, command.callback, "UNDEFINED")]
<1>1. /\ DOMAIN e = Fields
      /\ e.Processing = d.Processing /\ e.timer = d.timer
      /\ e.RetriesLeft = d.RetriesLeft /\ e.sends = d.sends
  BY DEF Good, Typed, Fields
<1>2. Good(e, u)
  BY <1>1, GoodCongruence
<1>3. Good(UnprotectedSendNextMasterCommand(e, FALSE), u)
  BY <1>2, SendGood
<1> QED BY <1>3 DEF QueueMD3Command

\* So does an answer, which starts the next command.
LEMMA SucceededGood ==
    ASSUME NEW d, NEW u \in {0, 1}, Good(d, u), setup \in Setups
    PROVE  Good(Succeeded(d), u)
<1> DEFINE e == [d EXCEPT !.timer = FALSE, !.Processing = FALSE,
                          !.calls = Called(@, d.Current.callback, "SUCCESS")]
<1>1. /\ DOMAIN e = Fields
      /\ e.Processing = FALSE /\ e.timer = FALSE
      /\ e.RetriesLeft = d.RetriesLeft /\ e.sends = d.sends
  BY DEF Good, Typed, Fields
<1>2. /\ e.timer \in BOOLEAN /\ (e.timer => d.timer)
      /\ e.Processing \in BOOLEAN /\ ~e.Processing
  BY <1>1, Zenon
<1> HIDE DEF e
<1>3. Good(e, u)
  BY <1>1, <1>2, GoodAtRest
<1> QED BY <1>3, SendGood DEF Succeeded, e

\* The handler of a timeout: the command is repeated, given up or followed by
\* the next one, and afterwards no expired timeout is left.
LEMMA TimeoutGood ==
    ASSUME NEW d, Good(d, 1), setup \in Setups
    PROVE  Good(UnprotectedSendNextMasterCommand([d EXCEPT !.Processing = FALSE], TRUE), 0)
<1> DEFINE r == [d EXCEPT !.Processing = FALSE]
           t == TimedOut(r)
           e == UnprotectedSendNextMasterCommand(r, TRUE)
<1>1. /\ DOMAIN r = Fields /\ r.Processing = FALSE
      /\ r.timer = d.timer /\ r.RetriesLeft = d.RetriesLeft /\ r.sends = d.sends
  BY DEF Good, Typed, Fields
<1>2. Typed(r)
  BY <1>1 DEF Good, Typed
<1>3. e = Transmit(NextCommand(t))
  BY <1>1 DEF UnprotectedSendNextMasterCommand
<1>4. CASE d.RetriesLeft > 0
  <2>1. /\ DOMAIN t = Fields /\ t.Processing = TRUE
        /\ t.timer = d.timer /\ t.RetriesLeft = Decrement(d.RetriesLeft) /\ t.sends = d.sends
    BY <1>1, <1>4 DEF TimedOut, Fields
  <2>2. NextCommand(t) = t
    BY <2>1 DEF NextCommand
  <2>3. e = [t EXCEPT !.wire = Append(@, t.Current), !.timer = TRUE, !.sends = @ + 1]
    BY <1>3, <2>1, <2>2 DEF Transmit
  <2>4. /\ DOMAIN e = Fields /\ e.Processing = TRUE /\ e.timer = TRUE
        /\ e.RetriesLeft = Decrement(d.RetriesLeft) /\ e.sends = d.sends + 1
    BY <2>1, <2>3 DEF Fields
  <2> HIDE DEF e
  <2>d. d.RetriesLeft \in Nat /\ d.sends \in Nat
    BY DEF Good, Typed
  <2>h. setup.Retries \in Nat /\ Huge \in Nat /\ setup.Retries < Huge
    BY SetupFacts
  <2>5. e.RetriesLeft \in Nat /\ e.sends \in Nat
    BY <2>4, <2>d, <2>h, <1>4 DEF Decrement
  <2>6. ASSUME setup.Retries > 0
        PROVE  d.RetriesLeft # Huge /\ d.RetriesLeft + d.sends <= setup.Retries + 1
    BY <2>6 DEF Good, Counted
  <2>7. ASSUME setup.Retries > 0
        PROVE  e.RetriesLeft # Huge /\ e.RetriesLeft + e.sends <= setup.Retries + 1
    BY <2>4, <2>6, <2>7, <2>d, <2>h, <1>4 DEF Decrement
  <2>8. Good(e, 0)
    <3>1. 0 \in {0, 1} /\ 0 # 1
      OBVIOUS
    <3> QED BY <2>4, <2>5, <2>7, <3>1, GoodSent, Zenon
  <2> QED BY <2>8 DEF e
<1>5. CASE ~(d.RetriesLeft > 0)
  <2>1. d.RetriesLeft = 0
    BY <1>5 DEF Good, Typed
  <2>2. /\ DOMAIN t = Fields /\ t.Processing = FALSE
        /\ t.timer = d.timer /\ t.RetriesLeft = Huge /\ t.sends = d.sends
    BY <1>1, <1>5, <2>1 DEF TimedOut, Decrement, Fields
  <2>3. Typed(t)
    BY <2>2, SetupFacts DEF Good, Typed
  <2>4. Watched(t, 0)
    BY <2>2 DEF Watched
  <2>5. Counted(t, 0)
    BY <2>1, <2>2, SetupFacts DEF Good, Typed, Counted
  <2>6. CASE e = t
    BY <2>3, <2>4, <2>5, <2>6 DEF Good
  <2>7. CASE /\ DOMAIN e = Fields /\ e.Processing = TRUE /\ e.timer = TRUE
             /\ e.RetriesLeft = setup.Retries /\ e.sends = 1
    BY <2>7, GoodStarted
  <2> QED BY <1>3, <2>2, <2>3, <2>6, <2>7, StartFacts
<1> QED BY <1>4, <1>5

-----------------------------------------------------------------------------
(* The specification *)

\* Nothing is in flight at first.
LEMMA InitIInv == Init => IInv
<1> SUFFICES ASSUME Init PROVE IInv
  OBVIOUS
<1>1. /\ DOMAIN data = Fields
      /\ data.Processing = FALSE /\ data.timer = FALSE /\ data.RetriesLeft = 0 /\ data.sends = 0
  BY DEF Init, MasterInit, Fields
<1>2. setup \in Setups /\ due = 0
  BY DEF Init, MasterInit
<1>3. Typed(data)
  <2>1. data.Processing \in BOOLEAN /\ data.timer \in BOOLEAN
    BY <1>1, Zenon
  <2>2. data.RetriesLeft \in Nat /\ data.sends \in Nat
    BY <1>1
  <2> QED BY <1>1, <2>1, <2>2, Zenon DEF Typed
<1>4. Watched(data, due)
  BY <1>1, Zenon DEF Watched
<1>5. Counted(data, due)
  <2>1. 0 # 1 /\ 0 + 0 <= setup.Retries + 1 /\ 0 <= setup.Retries + 1
    BY <1>2, SetupFacts
  <2> QED BY <1>1, <1>2, <2>1, Zenon DEF Counted
<1> QED BY <1>2, <1>3, <1>4, <1>5 DEF IInv, Good

\* Each step of the link keeps it.
LEMMA NextIInv == IInv /\ [Next]_vars => IInv'
<1> SUFFICES ASSUME IInv, [Next]_vars PROVE IInv'
  OBVIOUS
<1> USE DEF IInv
<1>u. ASSUME setup' = setup, due' \in {0, 1}, Good(data', due') PROVE IInv'
  BY <1>u DEF Good, Typed, Watched, Counted
<1>q. ASSUME NEW e, DOMAIN e = Fields,
             e.Processing = data.Processing, e.timer = data.timer,
             e.RetriesLeft = data.RetriesLeft, e.sends = data.sends
      PROVE  Good(e, due)
  BY <1>q, GoodCongruence
<1>1. CASE Poll
  BY <1>1, <1>u, QueueGood DEF Poll, DoPoll
<1>2. ASSUME NEW c \in Controls, Ask(c) PROVE IInv'
  <2>1. CASE data' = [data EXCEPT !.calls = Called(@, c, "UNDEFINED")]
    <3>1. Good(data', due)
      BY <2>1, <1>q DEF Good, Typed, Fields
    <3> QED BY <3>1, <1>2, <1>u DEF Ask, Event
  <2>2. CASE data' = QueueMD3Command(data, [fn |-> 17, seq |-> 0, tagged |-> 0, callback |-> c])
    BY <2>2, <1>2, <1>u, QueueGood DEF Ask, Event
  <2> QED BY <1>2, <2>1, <2>2 DEF Ask, Event
<1>3. ASSUME NEW bit \in Bits, Change(bit) PROVE IInv'
  BY <1>3, <1>u DEF Change, masterVars
<1>4. CASE CommandArrives
  <2>1. Good(data', due)
    BY <1>4, <1>q DEF CommandArrives, Good, Typed, Fields
  <2> QED BY <2>1, <1>4, <1>u DEF CommandArrives
<1>5. CASE ReplyArrives
  <2>1. /\ setup' = setup /\ due' = due
        /\ \/ data' = data
           \/ data' = Succeeded(data)
           \/ data' = Succeeded(QueueMD3Command(data, Scan(11, MostEvents)))
    BY <1>5 DEF ReplyArrives, ProcessMD3Message
  <2>2. Good(Succeeded(data), due)
    BY SucceededGood
  <2>3. Good(Succeeded(QueueMD3Command(data, Scan(11, MostEvents))), due)
    BY SucceededGood, QueueGood
  <2> QED BY <2>1, <2>2, <2>3, <1>u
<1>6. CASE ControlPerformed
  BY <1>6, <1>u DEF ControlPerformed, masterVars
<1>7. CASE Timer
  <2>1. /\ setup' = setup /\ due = 0 /\ due' = 1 /\ data.timer
        /\ data' = [data EXCEPT !.timer = FALSE]
    BY <1>7 DEF Timer, TimerExpires
  <2>2. /\ DOMAIN data' = Fields /\ data'.timer = FALSE
        /\ data'.Processing = data.Processing
        /\ data'.RetriesLeft = data.RetriesLeft /\ data'.sends = data.sends
    BY <2>1 DEF Good, Typed, Fields
  <2>3. Good(data', 1)
    BY <2>1, <2>2 DEF Good, Typed, Watched, Counted
  <2> QED BY <2>1, <2>3, <1>u
<1>8. CASE Timeout
  BY <1>8, <1>u, TimeoutGood DEF Timeout, TimeoutHandler
<1>9. CASE QualityPosted
  BY <1>9, <1>u DEF QualityPosted, CommsLost
<1>10. CASE Lose
  <2>1. CASE data' = [data EXCEPT !.wire = Tail(@)]
    <3>1. Good(data', due)
      BY <2>1, <1>q DEF Good, Typed, Fields
    <3> QED BY <3>1, <1>10, <1>u DEF Lose
  <2>2. CASE data' = data
    BY <2>2, <1>10, <1>u DEF Lose
  <2> QED BY <1>10, <2>1, <2>2 DEF Lose
<1>11. CASE Disconnect
  <2>1. /\ setup' = setup /\ due' = due
        /\ data' = [ClearMD3CommandQueue(data) EXCEPT !.wire = <<>>]
    BY <1>11 DEF Disconnect, Disconnected
  <2>2. /\ DOMAIN data' = Fields /\ data'.Processing = FALSE /\ data'.timer = data.timer
        /\ data'.RetriesLeft = data.RetriesLeft /\ data'.sends = data.sends
    BY <2>1 DEF ClearMD3CommandQueue, Good, Typed, Fields
  <2>3. Good(data', due)
    <3>1. /\ data'.timer \in BOOLEAN /\ (data'.timer => data.timer)
          /\ data'.Processing \in BOOLEAN /\ ~data'.Processing
      BY <2>2, Zenon DEF Good, Typed
    <3> QED BY <2>2, <3>1, GoodAtRest
  <2> QED BY <2>1, <2>3, <1>u
<1>12. CASE Connect
  <2>1. Good(data', due)
    BY <1>12, <1>q DEF Connect, Connected, Good, Typed, Fields
  <2> QED BY <2>1, <1>12, <1>u DEF Connect, Connected
<1>13. CASE UNCHANGED vars
  BY <1>13, <1>u DEF vars, masterVars
<1> QED
  BY <1>1, <1>2, <1>3, <1>4, <1>5, <1>6, <1>7, <1>8, <1>9, <1>10, <1>11, <1>12, <1>13 DEF Next

\* The invariant holds in every reachable state.
LEMMA IInvHolds == Spec => []IInv
BY InitIInv, NextIInv, PTL DEF Spec

-----------------------------------------------------------------------------
(* What follows *)

\* UnprotectedSendNextMasterCommand, the timeout's handler and every way a
\* reply or a disconnection ends a command: whenever ProcessingMD3Command is
\* set, a timeout is armed or about to be handled, so the queue never stops.
THEOREM AlwaysWatched == Spec => []StaysWatched
<1>1. IInv => StaysWatched
  BY DEF IInv, Good, Watched, StaysWatched
<1> QED BY <1>1, IInvHolds, PTL

\* RetriesLeft: with at least one retry configured, no command is sent more
\* often than once and the retries, whatever is lost or late: the counter is
\* never decremented again after it has wrapped.
THEOREM BoundedSends == Spec => []SendsBounded
<1>1. IInv => SendsBounded
  BY SetupFacts DEF IInv, Good, Typed, Counted, SendsBounded
<1> QED BY <1>1, IInvHolds, PTL
-----------------------------------------------------------------------------
(* What is under way, as long as the connection has not gone down.  The    *)
(* operators take the strand's data d and the expired timeouts u, as Good  *)
(* does, so that they can be stated of each step of a handler.             *)

IsScan(c) == c.fn \in {11, 12}
IsScanReply(r) == r.code \in {11, 14}
NoScan(w) == \A i \in DOMAIN w : ~IsScan(w[i])
NoScanReply(b) == \A i \in DOMAIN b : ~IsScanReply(b[i])

Tagged == [id : Nat, bit : Bits]
Answer == [code : {11, 14, 15, 30}, module : Seq(Bits), events : Seq(Tagged)]
Request == [fn : {11, 12, 17}, seq : Nat, tagged : {0, MostEvents},
            callback : Controls \cup {NoCallback}]

\* The commands and replies that may be under way: scans have no callback, an
\* Fn 11 scan has a sequence number, and only Fn 11 replies have events.
\* Nothing of a scan is there before the first poll, and nothing of a control
\* before the first is asked for.
Commands(dsn, ctl) ==
    {c \in Request : /\ IsScan(c) => c.callback = NoCallback /\ dsn # 0
                     /\ ~IsScan(c) => ctl # {}
                     /\ c.fn = 11 => c.seq # 0}
Replies(dsn, ctl) ==
    {r \in Answer : /\ r.code # 11 => r.events = <<>>
                    /\ IsScanReply(r) => dsn # 0
                    /\ ~IsScanReply(r) => ctl # {}}

\* The commands of d are in C, and the current one is there if it is used.
Carries(d, u, C) ==
    /\ d.queue \in Seq(C) /\ d.wire \in Seq(C)
    /\ d.FunctionCode = d.Current.fn
    /\ \/ d.Current \in C
       \/ d.Current = NoCommand /\ d.wire = <<>> /\ ~d.Processing /\ ~d.timer /\ u = 0

\* What the outstation stores: the point, its changes, and the last reply.
Stored ==
    /\ events \in Seq(Tagged) /\ made \in Nat /\ Bit \in Bits
    /\ LastReply \in Answer /\ IsScanReply(LastReply) /\ LastSeq \in Nat
    /\ LastSeq = 0 \/ LastReply.code # 11 => LastReply.events = <<>>

Carried ==
    /\ up /\ Stored
    /\ Carries(data, due, Commands(DigitalCommandSequenceNumber, asked))
    /\ toMaster \in Seq(Replies(DigitalCommandSequenceNumber, asked))
    /\ data.Current = NoCommand => toMaster = <<>> /\ performing = <<>>
    /\ performing \in Seq(Request) /\ (asked = {} => performing = <<>>)
    /\ DigitalCommandSequenceNumber \in Nat
    /\ HasBeenSet => DigitalCommandSequenceNumber # 0

\* On a connection that is not late one scan is under way, the current
\* command, on its way to the outstation or back; its reply is the one kept.
OneScan(d, u, back, pf, lr, ls) ==
    /\ d.timer => d.Processing
    /\ u = 1 => d.Processing /\ ~d.timer /\ d.wire = <<>> /\ back = <<>> /\ pf = <<>>
    /\ \A i \in DOMAIN d.wire : IsScan(d.wire[i]) =>
          /\ d.Processing /\ d.Current = d.wire[i]
          /\ \A j \in DOMAIN d.wire : IsScan(d.wire[j]) => j = i
          /\ NoScanReply(back)
    /\ \A i \in DOMAIN back : IsScanReply(back[i]) =>
          /\ d.Processing /\ IsScan(d.Current) /\ d.Current.seq = ls /\ back[i] = lr
          /\ \A j \in DOMAIN back : IsScanReply(back[j]) => j = i

\* A tagged change is queued, applied, or in the kept reply of the scan in flight.
Kept(d, ev, g, lr, ls, m) ==
    \A id \in 1 .. m :
        \/ id \in Ids(ev) \cup g
        \/ id \in Ids(lr.events) /\ d.Processing /\ IsScan(d.Current) /\ d.Current.seq = ls

\* On a late one that loses nothing it is queued, applied or under way.
Moving(ev, g, back, m) ==
    \A id \in 1 .. m :
        \/ id \in Ids(ev) \cup g
        \/ \E i \in DOMAIN back : id \in Ids(back[i].events)

\* If the outstation answers a control once, one message is under way at most.
OneMessage(d, back, pf, ex) ==
    /\ d.wire # <<>> => d.Processing /\ d.wire = <<d.Current>> /\ back = <<>> /\ pf = <<>>
    /\ back # <<>> => /\ d.Processing /\ Len(back) = 1 /\ pf = <<>>
                      /\ back[1].code = 15 => d.Current.callback \in ex
    /\ pf # <<>> => d.Processing /\ Len(pf) = 1 /\ d.Current.callback \in ex

\* Done means published.
Real(d, ex) ==
    /\ d.calls \in [Controls -> Seq({"SUCCESS", "UNDEFINED"})]
    /\ \A c \in Controls : \A i \in DOMAIN d.calls[c] : d.calls[c][i] = "SUCCESS" => c \in ex

Unbroken ==
    /\ Carried
    /\ ~setup.Late => /\ OneScan(data, due, toMaster, performing, LastReply, LastSeq)
                      /\ ~data.gaveUp => Kept(data, events, got, LastReply, LastSeq, made)
    /\ setup.Late /\ losses = 0 /\ asked = {} => Moving(events, got, toMaster, made)
    /\ ~setup.Late /\ ~setup.StandAlone =>
          OneMessage(data, toMaster, performing, executed) /\ Real(data, executed)

LinkInv == drops \in Nat /\ losses \in Nat /\ (drops = 0 => Unbroken)

-----------------------------------------------------------------------------
(* Sequences, by their elements *)

\* What a longer sequence has: what was there, and the new element at its end.
LEMMA InAppend ==
    ASSUME NEW T, NEW s \in Seq(T), NEW x
    PROVE  LET a == Append(s, x)
               n == Len(s) + 1
           IN  /\ n \in DOMAIN a /\ a[n] = x /\ n \notin DOMAIN s
               /\ \A i \in DOMAIN s : i \in DOMAIN a /\ a[i] = s[i]
               /\ \A i \in DOMAIN a : (i \in DOMAIN s /\ a[i] = s[i]) \/ i = n
  OBVIOUS

\* What a shorter one has: all but the first, each one place further down.
LEMMA InTail ==
    ASSUME NEW T, NEW s \in Seq(T), s # <<>>
    PROVE  LET t == Tail(s)
           IN  /\ t \in Seq(T) /\ 1 \in DOMAIN s /\ Head(s) = s[1] /\ s[1] \in T
               /\ \A i \in DOMAIN t : i + 1 \in DOMAIN s /\ i + 1 # 1 /\ t[i] = s[i + 1]
               /\ \A i, j \in DOMAIN t : i + 1 = j + 1 => i = j
               /\ \A i \in DOMAIN s : i = 1 \/ \E j \in DOMAIN t : t[j] = s[i]
<1>1. /\ Tail(s) \in Seq(T) /\ 1 \in DOMAIN s /\ Head(s) = s[1] /\ s[1] \in T
      /\ Len(s) \in Nat /\ Len(s) > 0 /\ DOMAIN s = 1 .. Len(s) /\ Len(Tail(s)) = Len(s) - 1
      /\ DOMAIN Tail(s) = 1 .. Len(s) - 1
  OBVIOUS
<1>2. \A i \in 1 .. Len(s) - 1 : Tail(s)[i] = s[i + 1]
  OBVIOUS
<1>3. \A i \in 1 .. Len(s) - 1 : i + 1 \in 1 .. Len(s) /\ i + 1 # 1
  BY <1>1
<1>4. \A i, j \in 1 .. Len(s) - 1 : i + 1 = j + 1 => i = j
  BY <1>1
<1>5. ASSUME NEW i \in 1 .. Len(s), i # 1 PROVE \E j \in 1 .. Len(s) - 1 : Tail(s)[j] = s[i]
  <2>1. i - 1 \in 1 .. Len(s) - 1 /\ (i - 1) + 1 = i
    BY <1>1, <1>5
  <2>2. Tail(s)[i - 1] = s[i]
    BY <1>2, <2>1
  <2>3. QED
    BY <2>1, <2>2
<1>6. QED
  BY <1>1, <1>2, <1>3, <1>4, <1>5, Zenon

\* A sequence over a set is one over a larger set.
LEMMA SeqGrows == ASSUME NEW S, NEW T, S \subseteq T, NEW s \in Seq(S) PROVE s \in Seq(T)
  OBVIOUS

-----------------------------------------------------------------------------
(* What the strand's operators do to the commands *)

\* The first command of d's queue is sent.
Started(d, e) ==
    /\ d.queue # <<>> /\ DOMAIN e = Fields
    /\ e.Processing = TRUE /\ e.timer = TRUE
    /\ e.Current = Head(d.queue) /\ e.queue = Tail(d.queue) /\ e.FunctionCode = Head(d.queue).fn
    /\ e.wire = Append(d.wire, Head(d.queue)) /\ e.calls = d.calls /\ e.gaveUp = d.gaveUp

\* e is d but for the queue and the callbacks called.
Beside(d, e) ==
    /\ DOMAIN e = Fields
    /\ e.Processing = d.Processing /\ e.timer = d.timer /\ e.Current = d.Current
    /\ e.FunctionCode = d.FunctionCode /\ e.wire = d.wire /\ e.gaveUp = d.gaveUp

\* What is started is sent, at rest; else nothing happens.
LEMMA StartShape ==
    ASSUME NEW d, DOMAIN d = Fields, d.Processing = FALSE
    PROVE  LET e == Transmit(NextCommand(d)) IN e = d \/ Started(d, e)
<1> DEFINE n == NextCommand(d)
           h == Head(d.queue)
<1>1. CASE d.queue = <<>>
  BY <1>1 DEF NextCommand, Transmit
<1>2. CASE d.queue # <<>>
  <2> HIDE DEF h
  <2>1. n = [d EXCEPT !.Processing = TRUE, !.RetriesLeft = setup.Retries,
                      !.Current = h, !.queue = Tail(d.queue), !.FunctionCode = h.fn, !.sends = 0]
    BY <1>2 DEF NextCommand, h
  <2>2. /\ DOMAIN n = Fields /\ n.Processing = TRUE /\ n.Current = h /\ n.queue = Tail(d.queue)
        /\ n.FunctionCode = h.fn /\ n.wire = d.wire /\ n.calls = d.calls /\ n.gaveUp = d.gaveUp
    BY <2>1 DEF Fields
  <2> HIDE DEF n
  <2>3. Transmit(n) = [n EXCEPT !.wire = Append(n.wire, n.Current), !.timer = TRUE,
                                !.sends = n.sends + 1]
    BY <2>2 DEF Transmit, Fields
  <2> DEFINE e == Transmit(n)
  <2>4. /\ DOMAIN e = Fields /\ e.Processing = TRUE /\ e.timer = TRUE /\ e.Current = h
        /\ e.queue = Tail(d.queue) /\ e.FunctionCode = h.fn /\ e.wire = Append(d.wire, h)
        /\ e.calls = d.calls /\ e.gaveUp = d.gaveUp
    BY <2>2, <2>3 DEF Fields
  <2>5. Started(d, e)
    BY <1>2, <2>4, Zenon DEF Started, h
  <2>6. QED
    BY <2>5 DEF n
<1>3. QED
  BY <1>1, <1>2

\* UnprotectedSendNextMasterCommand without a timeout, if none is in flight.
LEMMA SendShape ==
    ASSUME NEW d, DOMAIN d = Fields, d.Processing \in BOOLEAN
    PROVE  LET e == UnprotectedSendNextMasterCommand(d, FALSE)
           IN  e = d \/ (d.Processing = FALSE /\ Started(d, e))
<1>1. CASE d.Processing = TRUE
  BY <1>1 DEF UnprotectedSendNextMasterCommand
<1>2. CASE d.Processing = FALSE
  BY <1>2, StartShape DEF UnprotectedSendNextMasterCommand
<1>3. QED
  BY <1>1, <1>2

\* A command is queued, or its callback called if there is no room; then the
\* first is sent, if none is in flight.
LEMMA QueueShape ==
    ASSUME NEW d, DOMAIN d = Fields, d.Processing \in BOOLEAN, NEW command
    PROVE  \E q : /\ Beside(d, q)
                  /\ \/ q.queue = Append(d.queue, command) /\ q.calls = d.calls
                     \/ q.queue = d.queue /\ q.calls = Called(d.calls, command.callback, "UNDEFINED")
                  /\ LET e == QueueMD3Command(d, command)
                     IN  e = q \/ (d.Processing = FALSE /\ Started(q, e))
<1> DEFINE q == IF Len(d.queue) < MaxQueue
                THEN [d EXCEPT !.queue = Append(d.queue, command)]
                ELSE [d EXCEPT !.calls = Called(d.calls, command.callback, "UNDEFINED")]
<1>1. /\ Beside(d, q)
      /\ \/ q.queue = Append(d.queue, command) /\ q.calls = d.calls
         \/ q.queue = d.queue /\ q.calls = Called(d.calls, command.callback, "UNDEFINED")
  BY DEF Beside, Fields
<1>2. QueueMD3Command(d, command) = UnprotectedSendNextMasterCommand(q, FALSE)
  BY DEF QueueMD3Command, Fields
<1> HIDE DEF q
<1>3. DOMAIN q = Fields /\ q.Processing \in BOOLEAN /\ q.Processing = d.Processing
  BY <1>1 DEF Beside
<1>4. QED
  BY <1>1, <1>2, <1>3, SendShape, Zenon

\* The command in flight ends, and the next is sent.
LEMMA SucceededShape ==
    ASSUME NEW d, DOMAIN d = Fields
    PROVE  \E r : /\ DOMAIN r = Fields /\ r.Processing = FALSE /\ r.timer = FALSE
                  /\ r.Current = d.Current /\ r.FunctionCode = d.FunctionCode
                  /\ r.queue = d.queue /\ r.wire = d.wire /\ r.gaveUp = d.gaveUp
                  /\ r.calls = Called(d.calls, d.Current.callback, "SUCCESS")
                  /\ LET e == Succeeded(d) IN e = r \/ Started(r, e)
<1> DEFINE r == [d EXCEPT !.timer = FALSE, !.Processing = FALSE,
                          !.calls = Called(d.calls, d.Current.callback, "SUCCESS")]
<1>1. /\ DOMAIN r = Fields /\ r.Processing = FALSE /\ r.timer = FALSE
      /\ r.Current = d.Current /\ r.FunctionCode = d.FunctionCode
      /\ r.queue = d.queue /\ r.wire = d.wire /\ r.gaveUp = d.gaveUp
      /\ r.calls = Called(d.calls, d.Current.callback, "SUCCESS")
  BY DEF Fields
<1>2. Succeeded(d) = UnprotectedSendNextMasterCommand(r, FALSE)
  BY DEF Succeeded, Fields
<1> HIDE DEF r
<1>3. r.Processing \in BOOLEAN
  BY <1>1
<1>4. QED
  BY <1>1, <1>2, <1>3, SendShape, Zenon

\* The handler of a timeout: the command is sent again, or given up and the
\* next one sent.
LEMMA TimeoutShape ==
    ASSUME NEW d, DOMAIN d = Fields
    PROVE  LET e == UnprotectedSendNextMasterCommand([d EXCEPT !.Processing = FALSE], TRUE) IN
           \/ /\ DOMAIN e = Fields /\ e.Processing = TRUE /\ e.timer = TRUE
              /\ e.Current = d.Current /\ e.FunctionCode = d.FunctionCode /\ e.queue = d.queue
              /\ e.wire = Append(d.wire, d.Current) /\ e.calls = d.calls /\ e.gaveUp = d.gaveUp
           \/ \E r : /\ DOMAIN r = Fields /\ r.Processing = FALSE /\ r.timer = d.timer
                     /\ r.Current = d.Current /\ r.FunctionCode = d.FunctionCode
                     /\ r.queue = d.queue /\ r.wire = d.wire /\ r.gaveUp = TRUE
                     /\ r.calls = Called(d.calls, d.Current.callback, "UNDEFINED")
                     /\ (e = r \/ Started(r, e))
<1> DEFINE s == [d EXCEPT !.Processing = FALSE]
           t == TimedOut(s)
           e == UnprotectedSendNextMasterCommand(s, TRUE)
<1>1. /\ DOMAIN s = Fields /\ s.Processing = FALSE /\ s.timer = d.timer
      /\ s.Current = d.Current /\ s.FunctionCode = d.FunctionCode /\ s.queue = d.queue
      /\ s.wire = d.wire /\ s.calls = d.calls /\ s.gaveUp = d.gaveUp
  BY DEF Fields
<1> HIDE DEF s
<1>2. e = Transmit(NextCommand(t))
  BY <1>1 DEF UnprotectedSendNextMasterCommand
<1>3. CASE s.RetriesLeft > 0
  <2>1. /\ DOMAIN t = Fields /\ t.Processing = TRUE
        /\ t.Current = d.Current /\ t.FunctionCode = d.FunctionCode /\ t.queue = d.queue
        /\ t.wire = d.wire /\ t.calls = d.calls /\ t.gaveUp = d.gaveUp
    BY <1>1, <1>3 DEF TimedOut, Fields
  <2>2. NextCommand(t) = t
    BY <2>1 DEF NextCommand
  <2> HIDE DEF t
  <2>3. e = [t EXCEPT !.wire = Append(t.wire, t.Current), !.timer = TRUE, !.sends = t.sends + 1]
    BY <1>2, <2>1, <2>2 DEF Transmit, Fields
  <2> HIDE DEF e
  <2>4. /\ DOMAIN e = Fields /\ e.Processing = TRUE /\ e.timer = TRUE
        /\ e.Current = d.Current /\ e.FunctionCode = d.FunctionCode /\ e.queue = d.queue
        /\ e.wire = Append(d.wire, d.Current) /\ e.calls = d.calls /\ e.gaveUp = d.gaveUp
    BY <2>1, <2>3 DEF Fields
  <2>5. QED
    BY <2>4, Zenon DEF e, s
<1>4. CASE ~(s.RetriesLeft > 0)
  <2>1. /\ DOMAIN t = Fields /\ t.Processing = FALSE /\ t.timer = d.timer
        /\ t.Current = d.Current /\ t.FunctionCode = d.FunctionCode /\ t.queue = d.queue
        /\ t.wire = d.wire /\ t.gaveUp = TRUE
        /\ t.calls = Called(d.calls, d.Current.callback, "UNDEFINED")
    BY <1>1, <1>4 DEF TimedOut, Fields
  <2> HIDE DEF t
  <2>2. e = t \/ Started(t, e)
    BY <1>2, <2>1, StartShape, Zenon
  <2>3. QED
    BY <2>1, <2>2, Zenon DEF e, s
<1>5. QED
  BY <1>3, <1>4

-----------------------------------------------------------------------------
(* How sending, queueing and ending a command keep the invariant's parts.  *)
(* d is the strand's data before, e after.                                 *)

\* A command that is started is one of those that wait.
LEMMA StartCarries ==
    ASSUME NEW d, NEW e, NEW u, NEW C, d.queue \in Seq(C), d.wire \in Seq(C), Started(d, e)
    PROVE  Carries(e, u, C) /\ e.Current \in C
<1> DEFINE q == d.queue
           w == d.wire
<1>1. q \in Seq(C) /\ w \in Seq(C) /\ q # <<>>
  BY DEF Started
<1> HIDE DEF q, w
<1>2. Head(q) \in C /\ Tail(q) \in Seq(C) /\ Append(w, Head(q)) \in Seq(C)
  BY <1>1
<1>3. /\ e.Current = Head(q) /\ e.queue = Tail(q) /\ e.FunctionCode = Head(q).fn
      /\ e.wire = Append(w, Head(q))
  BY DEF Started, q, w
<1>4. QED
  BY <1>2, <1>3 DEF Carries

\* With no scan under way it is the only one.
LEMMA StartOneScan ==
    ASSUME NEW d, NEW e, NEW C, NEW back, NEW pf, NEW lr, NEW ls,
           d.wire \in Seq(C), Started(d, e),
           NoScan(d.wire),
           NoScanReply(back)
    PROVE  OneScan(e, 0, back, pf, lr, ls)
<1> DEFINE n == Len(d.wire) + 1
           w == Append(d.wire, Head(d.queue))
<1>1. e.Processing = TRUE /\ e.wire = w /\ e.Current = Head(d.queue)
  BY DEF Started
<1>2. /\ w[n] = Head(d.queue)
      /\ \A i \in DOMAIN w : (i \in DOMAIN d.wire /\ w[i] = d.wire[i]) \/ i = n
  BY InAppend
<1> HIDE DEF w, n
<1>3. \A i \in DOMAIN w : IsScan(w[i]) => i = n
  BY <1>2 DEF NoScan, NoScanReply
<1>4. \A i \in DOMAIN w : IsScan(w[i]) =>
          /\ e.Processing /\ e.Current = w[i]
          /\ \A j \in DOMAIN w : IsScan(w[j]) => j = i
          /\ NoScanReply(back)
  BY <1>1, <1>2, <1>3
<1>5. 0 # 1
  OBVIOUS
<1>6. QED
  BY <1>1, <1>4, <1>5, Zenon DEF OneScan, NoScan, NoScanReply

\* With nothing under way it is the only message.
LEMMA StartOneMessage ==
    ASSUME NEW d, NEW e, NEW ex, d.wire = <<>>, Started(d, e)
    PROVE  OneMessage(e, <<>>, <<>>, ex)
<1>1. e.Processing = TRUE /\ e.Current = Head(d.queue) /\ e.wire = Append(<<>>, Head(d.queue))
  BY DEF Started
<1>2. Append(<<>>, Head(d.queue)) = <<Head(d.queue)>>
  OBVIOUS
<1>3. QED
  BY <1>1, <1>2 DEF OneMessage

\* A callback that is called with a failure, or one whose control was published.
LEMMA CalledReal ==
    ASSUME NEW calls, NEW ex, NEW b \in Controls \cup {NoCallback}, NEW x \in {"SUCCESS", "UNDEFINED"},
           x = "SUCCESS" => b \in ex \/ b = NoCallback,
           calls \in [Controls -> Seq({"SUCCESS", "UNDEFINED"})],
           \A c \in Controls : \A i \in DOMAIN calls[c] : calls[c][i] = "SUCCESS" => c \in ex
    PROVE  LET k == Called(calls, b, x)
           IN  /\ k \in [Controls -> Seq({"SUCCESS", "UNDEFINED"})]
               /\ \A c \in Controls : \A i \in DOMAIN k[c] : k[c][i] = "SUCCESS" => c \in ex
<1> DEFINE S == {"SUCCESS", "UNDEFINED"}
           k == Called(calls, b, x)
<1>1. CASE b = NoCallback
  BY <1>1 DEF Called
<1>2. CASE b # NoCallback
  <2>1. b \in Controls /\ calls[b] \in Seq(S) /\ (x = "SUCCESS" => b \in ex)
    BY <1>2
  <2>2. k = [calls EXCEPT ![b] = Append(calls[b], x)]
    BY <1>2 DEF Called
  <2> DEFINE a == Append(calls[b], x)
  <2>3. a \in Seq(S)
    BY <2>1
  <2>4. \A i \in DOMAIN a : a[i] = "SUCCESS" => b \in ex
    <3>1. \A i \in DOMAIN a : (i \in DOMAIN calls[b] /\ a[i] = calls[b][i]) \/ a[i] = x
      BY <2>1, InAppend
    <3>2. QED
      BY <2>1, <3>1
  <2> HIDE DEF a, S
  <2>5. k \in [Controls -> Seq(S)] /\ k[b] = a /\ \A c \in Controls : c # b => k[c] = calls[c]
    BY <2>1, <2>2, <2>3 DEF S, a
  <2>6. QED
    BY <2>4, <2>5 DEF S
<1>3. QED
  BY <1>1, <1>2

\* QueueMD3Command of a command that may be under way.
LEMMA QueueKeeps ==
    ASSUME NEW d, NEW u \in {0, 1}, NEW C, NEW command \in C, C \subseteq Request,
           DOMAIN d = Fields, d.Processing \in BOOLEAN, Carries(d, u, C)
    PROVE  LET e == QueueMD3Command(d, command)
           IN  /\ Carries(e, u, C) /\ e.gaveUp = d.gaveUp
               /\ e.Current = NoCommand => d.Current = NoCommand
               /\ d.Processing => /\ e.Processing /\ e.Current = d.Current /\ e.wire = d.wire
                                  /\ e.timer = d.timer
               /\ \A back, pf, lr, ls :
                     OneScan(d, u, back, pf, lr, ls) => OneScan(e, u, back, pf, lr, ls)
               /\ \A ev, g, lr, ls, m : Kept(d, ev, g, lr, ls, m) => Kept(e, ev, g, lr, ls, m)
               /\ \A back, pf, ex : OneMessage(d, back, pf, ex) => OneMessage(e, back, pf, ex)
               /\ \A ex : Real(d, ex) => Real(e, ex)
<1> DEFINE e == QueueMD3Command(d, command)
<1>1. PICK q : /\ Beside(d, q)
               /\ \/ q.queue = Append(d.queue, command) /\ q.calls = d.calls
                  \/ q.queue = d.queue /\ q.calls = Called(d.calls, command.callback, "UNDEFINED")
               /\ e = q \/ (d.Processing = FALSE /\ Started(q, e))
  BY QueueShape
<1> HIDE DEF e
<1>2. d.queue \in Seq(C) /\ d.wire \in Seq(C)
  BY DEF Carries
<1>3. q.queue \in Seq(C) /\ q.wire \in Seq(C)
  <2>1. Append(d.queue, command) \in Seq(C)
    BY <1>2
  <2>2. QED
    BY <1>1, <1>2, <2>1, Zenon DEF Beside
<1>4. Carries(q, u, C)
  BY <1>1, <1>3 DEF Carries, Beside
<1>5. ASSUME NEW ex, Real(d, ex) PROVE Real(q, ex)
  <2>1. command.callback \in Controls \cup {NoCallback}
    BY DEF Request
  <2> DEFINE k == Called(d.calls, command.callback, "UNDEFINED")
  <2>2. /\ k \in [Controls -> Seq({"SUCCESS", "UNDEFINED"})]
        /\ \A c \in Controls : \A i \in DOMAIN k[c] : k[c][i] = "SUCCESS" => c \in ex
    BY <1>5, <2>1, CalledReal DEF Real
  <2>3. QED
    BY <1>1, <1>5, <2>2 DEF Real
<1>6. CASE e = q
  <2>1. Carries(e, u, C) /\ e.gaveUp = d.gaveUp /\ e.Current = d.Current
        /\ e.Processing = d.Processing /\ e.wire = d.wire /\ e.timer = d.timer
    BY <1>1, <1>4, <1>6 DEF Beside
  <2>2. \A back, pf, lr, ls : OneScan(d, u, back, pf, lr, ls) => OneScan(e, u, back, pf, lr, ls)
    BY <2>1, Zenon DEF OneScan
  <2>3. \A ev, g, lr, ls, m : Kept(d, ev, g, lr, ls, m) => Kept(e, ev, g, lr, ls, m)
    BY <2>1, Zenon DEF Kept
  <2>4. \A back, pf, ex : OneMessage(d, back, pf, ex) => OneMessage(e, back, pf, ex)
    BY <2>1, Zenon DEF OneMessage
  <2>5. QED
    BY <1>5, <1>6, <2>1, <2>2, <2>3, <2>4, Zenon DEF e
<1>7. CASE d.Processing = FALSE /\ Started(q, e)
  <2>1. Carries(e, u, C) /\ e.Current \in C
    BY <1>3, <1>7, StartCarries
  <2>2. e.gaveUp = d.gaveUp /\ ~d.Processing /\ e.calls = q.calls /\ q.wire = d.wire
    BY <1>1, <1>7 DEF Beside, Started
  <2>3. e.Current # NoCommand
    BY <2>1 DEF Request, NoCommand
  <2>4. ASSUME NEW back, NEW pf, NEW lr, NEW ls, OneScan(d, u, back, pf, lr, ls)
        PROVE  OneScan(e, u, back, pf, lr, ls)
    <3>1. u = 0
      BY <2>2, <2>4 DEF OneScan
    <3>2. /\ NoScan(q.wire)
          /\ NoScanReply(back)
      BY <2>2, <2>4, Zenon DEF OneScan, NoScan, NoScanReply
    <3>3. OneScan(e, 0, back, pf, lr, ls)
      BY <1>3, <1>7, <3>2, StartOneScan
    <3>4. QED
      BY <3>1, <3>3
  <2>5. ASSUME NEW ev, NEW g, NEW lr, NEW ls, NEW m, Kept(d, ev, g, lr, ls, m)
        PROVE  Kept(e, ev, g, lr, ls, m)
    BY <2>2, <2>5, Zenon DEF Kept
  <2>6. ASSUME NEW back, NEW pf, NEW ex, OneMessage(d, back, pf, ex)
        PROVE  OneMessage(e, back, pf, ex)
    <3>1. q.wire = <<>> /\ back = <<>> /\ pf = <<>>
      BY <2>2, <2>6, Zenon DEF OneMessage
    <3>2. QED
      BY <1>7, <3>1, StartOneMessage
  <2>7. ASSUME NEW ex, Real(d, ex) PROVE Real(e, ex)
    BY <1>5, <2>2, <2>7, Zenon DEF Real
  <2>8. QED
    BY <2>1, <2>2, <2>3, <2>4, <2>5, <2>6, <2>7, Zenon DEF e
<1>8. QED
  BY <1>1, <1>6, <1>7

\* Succeeded, when no other scan is under way.
LEMMA SuccessKeeps ==
    ASSUME NEW d, NEW u \in {0, 1}, NEW C, C \subseteq Request,
           DOMAIN d = Fields, Carries(d, u, C)
    PROVE  LET e == Succeeded(d)
           IN  /\ Carries(e, u, C) /\ e.gaveUp = d.gaveUp
               /\ e.Current = NoCommand => d.Current = NoCommand
               /\ \A back, pf, lr, ls :
                     /\ u = 0
                     /\ NoScan(d.wire)
                     /\ NoScanReply(back)
                     => OneScan(e, u, back, pf, lr, ls)
               /\ \A ex : d.wire = <<>> => OneMessage(e, <<>>, <<>>, ex)
               /\ \A ex : Real(d, ex) /\ d.Current.callback \in ex \cup {NoCallback} => Real(e, ex)
<1> DEFINE e == Succeeded(d)
<1>1. PICK r : /\ DOMAIN r = Fields /\ r.Processing = FALSE /\ r.timer = FALSE
               /\ r.Current = d.Current /\ r.FunctionCode = d.FunctionCode
               /\ r.queue = d.queue /\ r.wire = d.wire /\ r.gaveUp = d.gaveUp
               /\ r.calls = Called(d.calls, d.Current.callback, "SUCCESS")
               /\ e = r \/ Started(r, e)
  BY SucceededShape
<1> HIDE DEF e
<1>2. r.queue \in Seq(C) /\ r.wire \in Seq(C)
  BY <1>1 DEF Carries
<1>3. Carries(r, u, C)
  BY <1>1 DEF Carries
<1>4. ASSUME NEW ex, Real(d, ex), d.Current.callback \in ex \cup {NoCallback} PROVE Real(r, ex)
  <2>1. d.Current.callback \in Controls \cup {NoCallback}
    BY DEF Carries, Request, NoCommand
  <2> DEFINE k == Called(d.calls, d.Current.callback, "SUCCESS")
  <2>2. /\ k \in [Controls -> Seq({"SUCCESS", "UNDEFINED"})]
        /\ \A c \in Controls : \A i \in DOMAIN k[c] : k[c][i] = "SUCCESS" => c \in ex
    BY <1>4, <2>1, CalledReal DEF Real
  <2>3. QED
    BY <1>1, <2>2 DEF Real
<1>5. CASE e = r
  <2>1. ASSUME NEW back, NEW pf, NEW lr, NEW ls, u = 0,
               NoScan(d.wire),
               NoScanReply(back)
        PROVE  OneScan(e, u, back, pf, lr, ls)
    <3>1. ~e.timer /\ u # 1 /\ e.wire = d.wire
      BY <1>1, <1>5, <2>1
    <3>2. QED
      BY <2>1, <3>1, Zenon DEF OneScan, NoScan, NoScanReply
  <2>2. ASSUME NEW ex, d.wire = <<>> PROVE OneMessage(e, <<>>, <<>>, ex)
    BY <1>1, <1>5, <2>2, Zenon DEF OneMessage
  <2>3. Carries(e, u, C) /\ e.gaveUp = d.gaveUp /\ e.Current = d.Current
    BY <1>1, <1>3, <1>5
  <2>4. QED
    BY <1>4, <1>5, <2>1, <2>2, <2>3, Zenon DEF e
<1>6. CASE Started(r, e)
  <2>1. Carries(e, u, C) /\ e.Current \in C
    BY <1>2, <1>6, StartCarries
  <2>2. e.gaveUp = d.gaveUp /\ e.calls = r.calls
    BY <1>1, <1>6 DEF Started
  <2>3. e.Current # NoCommand
    BY <2>1 DEF Request, NoCommand
  <2>4. ASSUME NEW back, NEW pf, NEW lr, NEW ls, u = 0,
               NoScan(d.wire),
               NoScanReply(back)
        PROVE  OneScan(e, u, back, pf, lr, ls)
    BY <1>1, <1>2, <1>6, <2>4, StartOneScan
  <2>5. ASSUME NEW ex, d.wire = <<>> PROVE OneMessage(e, <<>>, <<>>, ex)
    BY <1>1, <1>6, <2>5, StartOneMessage
  <2>6. ASSUME NEW ex, Real(d, ex), d.Current.callback \in ex \cup {NoCallback} PROVE Real(e, ex)
    BY <1>4, <2>2, <2>6, Zenon DEF Real
  <2>7. QED
    BY <2>1, <2>2, <2>3, <2>4, <2>5, <2>6, Zenon DEF e
<1>7. QED
  BY <1>1, <1>5, <1>6

\* A timeout, with nothing under way.
LEMMA TimeoutKeeps ==
    ASSUME NEW d, NEW C, C \subseteq Request, DOMAIN d = Fields, Carries(d, 1, C)
    PROVE  LET e == UnprotectedSendNextMasterCommand([d EXCEPT !.Processing = FALSE], TRUE)
           IN  /\ Carries(e, 0, C) /\ e.Current # NoCommand
               /\ \A lr, ls : d.wire = <<>> /\ ~d.timer => OneScan(e, 0, <<>>, <<>>, lr, ls)
               /\ \A ev, g, lr, ls, m :
                     Kept(d, ev, g, lr, ls, m) /\ ~e.gaveUp => Kept(e, ev, g, lr, ls, m)
               /\ e.gaveUp = d.gaveUp \/ e.gaveUp = TRUE
               /\ \A ex : d.wire = <<>> => OneMessage(e, <<>>, <<>>, ex)
               /\ \A ex : Real(d, ex) => Real(e, ex)
<1> DEFINE e == UnprotectedSendNextMasterCommand([d EXCEPT !.Processing = FALSE], TRUE)
<1>0. /\ d.Current \in C /\ d.queue \in Seq(C) /\ d.wire \in Seq(C) /\ d.FunctionCode = d.Current.fn
      /\ d.Current # NoCommand
  <2>1. /\ d.queue \in Seq(C) /\ d.wire \in Seq(C) /\ d.FunctionCode = d.Current.fn
        /\ d.Current \in C
    <3>1. 1 # 0
      OBVIOUS
    <3>2. QED
      BY <3>1, Zenon DEF Carries
  <2>2. d.Current # NoCommand
    BY <2>1 DEF Request, NoCommand
  <2>3. QED
    BY <2>1, <2>2
<1>1. \/ /\ DOMAIN e = Fields /\ e.Processing = TRUE /\ e.timer = TRUE
         /\ e.Current = d.Current /\ e.FunctionCode = d.FunctionCode /\ e.queue = d.queue
         /\ e.wire = Append(d.wire, d.Current) /\ e.calls = d.calls /\ e.gaveUp = d.gaveUp
      \/ \E r : /\ DOMAIN r = Fields /\ r.Processing = FALSE /\ r.timer = d.timer
                /\ r.Current = d.Current /\ r.FunctionCode = d.FunctionCode
                /\ r.queue = d.queue /\ r.wire = d.wire /\ r.gaveUp = TRUE
                /\ r.calls = Called(d.calls, d.Current.callback, "UNDEFINED")
                /\ (e = r \/ Started(r, e))
  BY TimeoutShape
<1> HIDE DEF e
<1>2. CASE /\ DOMAIN e = Fields /\ e.Processing = TRUE /\ e.timer = TRUE
           /\ e.Current = d.Current /\ e.FunctionCode = d.FunctionCode /\ e.queue = d.queue
           /\ e.wire = Append(d.wire, d.Current) /\ e.calls = d.calls /\ e.gaveUp = d.gaveUp
  <2>1. Append(d.wire, d.Current) \in Seq(C)
    BY <1>0
  <2>2. Carries(e, 0, C)
    BY <1>0, <1>2, <2>1 DEF Carries
  <2>3. d.wire = <<>> => e.wire = <<d.Current>>
    BY <1>2
  <2>4. ASSUME NEW lr, NEW ls, d.wire = <<>>, ~d.timer PROVE OneScan(e, 0, <<>>, <<>>, lr, ls)
    <3> DEFINE w == <<d.Current>>
    <3>1. e.wire = w /\ e.Processing = TRUE /\ e.Current = d.Current /\ 0 # 1
      BY <1>2, <2>3, <2>4
    <3>2. \A i \in DOMAIN w : w[i] = d.Current /\ \A j \in DOMAIN w : j = i
      OBVIOUS
    <3>3. \A i \in DOMAIN <<>> : FALSE
      OBVIOUS
    <3> HIDE DEF w
    <3>4. QED
      BY <3>1, <3>2, <3>3, Zenon DEF OneScan, NoScan, NoScanReply
  <2>5. ASSUME NEW ev, NEW g, NEW lr, NEW ls, NEW m, Kept(d, ev, g, lr, ls, m)
        PROVE  Kept(e, ev, g, lr, ls, m)
    BY <1>2, <2>5, Zenon DEF Kept
  <2>6. ASSUME NEW ex, d.wire = <<>> PROVE OneMessage(e, <<>>, <<>>, ex)
    BY <1>2, <2>3, <2>6, Zenon DEF OneMessage
  <2>7. ASSUME NEW ex, Real(d, ex) PROVE Real(e, ex)
    BY <1>2, <2>7, Zenon DEF Real
  <2>8. QED
    BY <1>0, <1>2, <2>2, <2>4, <2>5, <2>6, <2>7, Zenon DEF e
<1>3. ASSUME NEW r, DOMAIN r = Fields, r.Processing = FALSE, r.timer = d.timer,
             r.Current = d.Current, r.FunctionCode = d.FunctionCode,
             r.queue = d.queue, r.wire = d.wire, r.gaveUp = TRUE,
             r.calls = Called(d.calls, d.Current.callback, "UNDEFINED"), e = r \/ Started(r, e)
      PROVE  /\ Carries(e, 0, C) /\ e.Current # NoCommand
             /\ \A lr, ls : d.wire = <<>> /\ ~d.timer => OneScan(e, 0, <<>>, <<>>, lr, ls)
             /\ e.gaveUp = TRUE
             /\ \A ex : d.wire = <<>> => OneMessage(e, <<>>, <<>>, ex)
             /\ \A ex : Real(d, ex) => Real(e, ex)
  <2>1. ASSUME NEW ex, Real(d, ex) PROVE Real(r, ex)
    <3>1. d.Current.callback \in Controls \cup {NoCallback}
      BY <1>0 DEF Request
    <3> DEFINE k == Called(d.calls, d.Current.callback, "UNDEFINED")
    <3>2. /\ k \in [Controls -> Seq({"SUCCESS", "UNDEFINED"})]
          /\ \A c \in Controls : \A i \in DOMAIN k[c] : k[c][i] = "SUCCESS" => c \in ex
      BY <2>1, <3>1, CalledReal DEF Real
    <3>3. QED
      BY <1>3, <3>2 DEF Real
  <2>2. CASE e = r
    <3>1. Carries(e, 0, C) /\ e.Current # NoCommand
      BY <1>0, <1>3, <2>2 DEF Carries
    <3>2. ASSUME NEW lr, NEW ls, d.wire = <<>>, ~d.timer PROVE OneScan(e, 0, <<>>, <<>>, lr, ls)
      <4>1. e.wire = <<>> /\ ~e.timer /\ 0 # 1 /\ \A i \in DOMAIN <<>> : FALSE
        BY <1>3, <2>2, <3>2
      <4>2. QED
        BY <4>1, Zenon DEF OneScan
    <3>3. ASSUME NEW ex, d.wire = <<>> PROVE OneMessage(e, <<>>, <<>>, ex)
      BY <1>3, <2>2, <3>3, Zenon DEF OneMessage
    <3>4. QED
      BY <1>3, <2>1, <2>2, <3>1, <3>2, <3>3
  <2>3. CASE Started(r, e)
    <3>1. Carries(e, 0, C) /\ e.Current \in C
      BY <1>0, <1>3, <2>3, StartCarries
    <3>2. e.gaveUp = TRUE /\ e.calls = r.calls
      BY <1>3, <2>3 DEF Started
    <3>3. e.Current # NoCommand
      BY <3>1 DEF Request, NoCommand
    <3>4. ASSUME NEW lr, NEW ls, d.wire = <<>> PROVE OneScan(e, 0, <<>>, <<>>, lr, ls)
      <4>1. r.wire \in Seq(C) /\ \A i \in DOMAIN r.wire : FALSE
        BY <1>0, <1>3, <3>4
      <4>2. \A i \in DOMAIN <<>> : ~IsScanReply(<<>>[i])
        OBVIOUS
      <4>3. QED
        BY <2>3, <4>1, <4>2, StartOneScan DEF NoScan, NoScanReply
    <3>5. ASSUME NEW ex, d.wire = <<>> PROVE OneMessage(e, <<>>, <<>>, ex)
      BY <1>3, <2>3, <3>5, StartOneMessage
    <3>6. ASSUME NEW ex, Real(d, ex) PROVE Real(e, ex)
      BY <2>1, <3>2, <3>6, Zenon DEF Real
    <3>7. QED
      BY <3>1, <3>2, <3>3, <3>4, <3>5, <3>6
  <2>4. QED
    BY <1>3, <2>2, <2>3
<1>4. QED
  BY <1>1, <1>2, <1>3, Zenon DEF e

-----------------------------------------------------------------------------
(* The steps of the link, while the connection has not gone down *)

\* Once there are scans and controls there may always be.
LEMMA MoreAllowed ==
    ASSUME NEW dsn, NEW dsn2, NEW ctl, NEW ctl2, dsn # 0 => dsn2 # 0, ctl \subseteq ctl2
    PROVE  /\ Commands(dsn, ctl) \subseteq Commands(dsn2, ctl2)
           /\ Replies(dsn, ctl) \subseteq Replies(dsn2, ctl2)
           /\ Commands(dsn, ctl) \subseteq Request /\ Replies(dsn, ctl) \subseteq Answer
  BY DEF Commands, Replies

\* What may be under way in C may be in a larger D.
LEMMA MoreCarried ==
    ASSUME NEW d, NEW u, NEW C, NEW D, C \subseteq D, Carries(d, u, C) PROVE Carries(d, u, D)
<1>1. d.queue \in Seq(D) /\ d.wire \in Seq(D)
  BY SeqGrows DEF Carries
<1>2. QED
  BY <1>1 DEF Carries

\* The sequence number is never 0 again.
LEMMA NextNumber ==
    ASSUME DigitalCommandSequenceNumber \in Nat, GetAndIncrementDigitalCommandSequenceNumber
    PROVE  DigitalCommandSequenceNumber' \in Nat /\ DigitalCommandSequenceNumber' # 0
  BY QueueAssumption DEF GetAndIncrementDigitalCommandSequenceNumber

\* A command is queued: a poll's scan, or a control that was asked for.
LEMMA QueueUnbroken ==
    ASSUME IInv, Unbroken, NEW command,
           command \in Commands(DigitalCommandSequenceNumber', asked'),
           DigitalCommandSequenceNumber' \in Nat,
           DigitalCommandSequenceNumber # 0 => DigitalCommandSequenceNumber' # 0,
           asked \subseteq asked',
           data' = QueueMD3Command(data, command),
           UNCHANGED <<setup, outstationVars, due, HasBeenSet, got, up, losses>>
    PROVE  Unbroken'
<1> DEFINE C == Commands(DigitalCommandSequenceNumber, asked)
           D == Commands(DigitalCommandSequenceNumber', asked')
           R == Replies(DigitalCommandSequenceNumber', asked')
<1>1. /\ DOMAIN data = Fields /\ data.Processing \in BOOLEAN /\ due \in {0, 1}
  BY DEF IInv, Good, Typed
<1>2. Carried
  BY DEF Unbroken
<1>3. C \subseteq D /\ D \subseteq Request /\ Replies(DigitalCommandSequenceNumber, asked) \subseteq R
  BY MoreAllowed
<1>4. Carries(data, due, C) /\ toMaster \in Seq(Replies(DigitalCommandSequenceNumber, asked))
  BY <1>2 DEF Carried
<1>5. Carries(data, due, D)
  BY <1>3, <1>4, MoreCarried
<1>6. toMaster \in Seq(R)
  BY <1>3, <1>4, SeqGrows
<1>7. command \in D
  OBVIOUS
<1>8. UNCHANGED <<setup, due, HasBeenSet, got, up, losses, Bit, events, LastSeq, LastReply,
                  performing, toMaster, made, executed>>
  BY DEF outstationVars
<1> HIDE DEF C, D, R
<1>9. /\ Carries(data', due, D) /\ data'.gaveUp = data.gaveUp
      /\ data'.Current = NoCommand => data.Current = NoCommand
      /\ \A back, pf, lr, ls :
            OneScan(data, due, back, pf, lr, ls) => OneScan(data', due, back, pf, lr, ls)
      /\ \A ev, g, lr, ls, m : Kept(data, ev, g, lr, ls, m) => Kept(data', ev, g, lr, ls, m)
      /\ \A back, pf, ex : OneMessage(data, back, pf, ex) => OneMessage(data', back, pf, ex)
      /\ \A ex : Real(data, ex) => Real(data', ex)
  BY <1>1, <1>3, <1>5, <1>7, QueueKeeps
<1>10. Carried'
  <2>1. asked' = {} => asked = {}
    OBVIOUS
  <2>2. QED
    <3>1. Stored'
      BY <1>2, <1>8, Zenon DEF Carried, Stored
    <3>2. /\ Carries(data', due', D) /\ toMaster' \in Seq(R)
          /\ data'.Current = NoCommand => toMaster' = <<>> /\ performing' = <<>>
      BY <1>2, <1>6, <1>8, <1>9 DEF Carried
    <3>3. /\ up' /\ performing' \in Seq(Request) /\ (asked' = {} => performing' = <<>>)
          /\ HasBeenSet' => DigitalCommandSequenceNumber' # 0
      BY <1>2, <1>8, <2>1 DEF Carried
    <3>4. QED
      BY <3>1, <3>2, <3>3, Zenon DEF Carried, D, R
<1>11. ASSUME ~setup'.Late
       PROVE  /\ OneScan(data', due', toMaster', performing', LastReply', LastSeq')
              /\ ~data'.gaveUp => Kept(data', events', got', LastReply', LastSeq', made')
  BY <1>8, <1>9, <1>11, Zenon DEF Unbroken
<1>12. ASSUME setup'.Late, losses' = 0, asked' = {}
       PROVE  Moving(events', got', toMaster', made')
  <2>1. asked = {}
    BY <1>12
  <2>2. QED
    BY <1>8, <1>12, <2>1, Zenon DEF Unbroken
<1>13. ASSUME ~setup'.Late, ~setup'.StandAlone
       PROVE  OneMessage(data', toMaster', performing', executed') /\ Real(data', executed')
  BY <1>8, <1>9, <1>13, Zenon DEF Unbroken
<1>14. QED
  BY <1>10, <1>11, <1>12, <1>13 DEF Unbroken

\* A poll queues an Fn 11 scan, or an Fn 12 scan before the first value.
LEMMA PollUnbroken == ASSUME IInv, Unbroken, Poll PROVE Unbroken'
<1>0. Carried /\ DigitalCommandSequenceNumber \in Nat
  BY DEF Unbroken, Carried
<1>1. /\ DigitalCommandSequenceNumber' \in Nat /\ DigitalCommandSequenceNumber' # 0
      /\ asked' = asked
  BY <1>0, NextNumber DEF Poll, DoPoll
<1> DEFINE command == IF HasBeenSet THEN Scan(11, IF setup.Tagged THEN MostEvents ELSE 0)
                      ELSE Scan(12, 0)
<1>2. command \in Commands(DigitalCommandSequenceNumber', asked')
  <2>1. HasBeenSet => DigitalCommandSequenceNumber # 0
    BY <1>0 DEF Carried
  <2>2. command \in Request
    BY <1>0 DEF Request, Scan
  <2>3. IsScan(command) /\ command.callback = NoCallback
    BY DEF Scan, IsScan
  <2>4. command.fn = 11 => command.seq # 0
    BY <2>1 DEF Scan
  <2>5. QED
    BY <1>1, <2>2, <2>3, <2>4 DEF Commands
<1>3. /\ data' = QueueMD3Command(data, command)
      /\ UNCHANGED <<setup, outstationVars, due, HasBeenSet, got, up, losses>>
  BY DEF Poll, DoPoll
<1> HIDE DEF command
<1>4. QED
  BY <1>1, <1>2, <1>3, QueueUnbroken

\* A control is queued, or refused at once.
LEMMA AskUnbroken == ASSUME IInv, Unbroken, NEW c \in Controls, Ask(c) PROVE Unbroken'
<1>0. Carried /\ DigitalCommandSequenceNumber \in Nat
  BY DEF Unbroken, Carried
<1>1. /\ asked' = asked \cup {c} /\ DigitalCommandSequenceNumber' = DigitalCommandSequenceNumber
      /\ UNCHANGED <<setup, outstationVars, due, HasBeenSet, got, up, losses>>
  BY DEF Ask, Event
<1> DEFINE command == [fn |-> 17, seq |-> 0, tagged |-> 0, callback |-> c]
<1>2. CASE data' = QueueMD3Command(data, command)
  <2>1. command \in Request /\ ~IsScan(command) /\ command.fn # 11
    BY DEF Request, IsScan
  <2>2. asked' # {}
    BY <1>1
  <2>3. command \in Commands(DigitalCommandSequenceNumber', asked')
    BY <2>1, <2>2 DEF Commands
  <2>4. asked \subseteq asked'
    BY <1>1
  <2> HIDE DEF command
  <2>5. QED
    BY <1>0, <1>1, <1>2, <2>3, <2>4, QueueUnbroken
<1>3. CASE data' = [data EXCEPT !.calls = Called(@, c, "UNDEFINED")]
  <2>1. DOMAIN data = Fields
    BY DEF IInv, Good, Typed
  <2>2. /\ data'.queue = data.queue /\ data'.wire = data.wire /\ data'.Current = data.Current
        /\ data'.FunctionCode = data.FunctionCode /\ data'.Processing = data.Processing
        /\ data'.timer = data.timer /\ data'.gaveUp = data.gaveUp
        /\ data'.calls = Called(data.calls, c, "UNDEFINED")
    BY <1>3, <2>1 DEF Fields
  <2>3. UNCHANGED <<setup, due, HasBeenSet, got, up, losses, Bit, events, LastSeq, LastReply,
                    performing, toMaster, made, executed>>
    BY <1>1 DEF outstationVars
  <2> DEFINE C == Commands(DigitalCommandSequenceNumber, asked)
             D == Commands(DigitalCommandSequenceNumber', asked')
             R == Replies(DigitalCommandSequenceNumber', asked')
  <2>4. C \subseteq D /\ Replies(DigitalCommandSequenceNumber, asked) \subseteq R
    BY <1>1, MoreAllowed
  <2>5. Carries(data, due, C) /\ toMaster \in Seq(Replies(DigitalCommandSequenceNumber, asked))
    BY <1>0 DEF Carried
  <2>6. toMaster \in Seq(R) /\ Carries(data, due, D)
    BY <2>4, <2>5, MoreCarried, SeqGrows
  <2> HIDE DEF C, D, R
  <2>7. Carries(data', due, D)
    BY <2>2, <2>6, Zenon DEF Carries
  <2>8. asked' # {}
    BY <1>1
  <2>9. Carried'
    <3>1. Stored'
      BY <1>0, <2>3, Zenon DEF Carried, Stored
    <3>2. /\ Carries(data', due', D) /\ toMaster' \in Seq(R)
          /\ data'.Current = NoCommand => toMaster' = <<>> /\ performing' = <<>>
      BY <1>0, <2>2, <2>3, <2>6, <2>7 DEF Carried
    <3>3. /\ up' /\ performing' \in Seq(Request) /\ (asked' = {} => performing' = <<>>)
          /\ HasBeenSet' => DigitalCommandSequenceNumber' # 0
          /\ DigitalCommandSequenceNumber' \in Nat
      BY <1>0, <1>1, <2>3, <2>8 DEF Carried
    <3>4. QED
      BY <3>1, <3>2, <3>3, Zenon DEF Carried, D, R
  <2>10. ASSUME ~setup'.Late
         PROVE  /\ OneScan(data', due', toMaster', performing', LastReply', LastSeq')
                /\ ~data'.gaveUp => Kept(data', events', got', LastReply', LastSeq', made')
    BY <2>2, <2>3, <2>10, Zenon DEF Unbroken, OneScan, Kept
  <2>11. ASSUME ~setup'.Late, ~setup'.StandAlone
         PROVE  OneMessage(data', toMaster', performing', executed') /\ Real(data', executed')
    <3>1. OneMessage(data, toMaster, performing, executed) /\ Real(data, executed)
      BY <2>3, <2>11, Zenon DEF Unbroken
    <3>2. OneMessage(data', toMaster', performing', executed')
      BY <2>2, <2>3, <3>1, Zenon DEF OneMessage
    <3>3. Real(data', executed')
      <4> DEFINE k == Called(data.calls, c, "UNDEFINED")
      <4>1. /\ k \in [Controls -> Seq({"SUCCESS", "UNDEFINED"})]
            /\ \A b \in Controls : \A i \in DOMAIN k[b] : k[b][i] = "SUCCESS" => b \in executed
        BY <3>1, CalledReal DEF Real
      <4>2. QED
        BY <2>2, <2>3, <4>1 DEF Real
    <3>4. QED
      BY <3>2, <3>3
  <2>12. QED
    BY <2>8, <2>9, <2>10, <2>11 DEF Unbroken
<1>4. QED
  BY <1>2, <1>3 DEF Ask, Event

\* The outstation's point changes: the event is queued, or lost in the overflow
\* that the marker reports.
LEMMA ChangeUnbroken == ASSUME IInv, Unbroken, NEW bit \in Bits, Change(bit) PROVE Unbroken'
<1>0. Carried
  BY DEF Unbroken
<1>1. UNCHANGED <<setup, data, due, DigitalCommandSequenceNumber, HasBeenSet, got, up, losses, asked,
                  LastSeq, LastReply, performing, toMaster, executed>>
  BY DEF Change, BinaryEvent, masterVars
<1>2. /\ Bit' = bit
      /\ \/ events' = events /\ made' = made
         \/ events' = Append(events, [id |-> made + 1, bit |-> bit]) /\ made' = made + 1
         \/ events' = Append(events, OverFlowMarker) /\ made' = made
  BY DEF Change, BinaryEvent, AddToDigitalEvents
<1>3. events \in Seq(Tagged) /\ made \in Nat
  BY <1>0 DEF Carried, Stored
<1>4. [id |-> made + 1, bit |-> bit] \in Tagged /\ OverFlowMarker \in Tagged
  BY <1>3 DEF Tagged, OverFlowMarker, Bits
<1>5. events' \in Seq(Tagged) /\ made' \in Nat
  BY <1>2, <1>3, <1>4
<1>6. ASSUME NEW id \in 1 .. made' PROVE id \in 1 .. made \/ id \in Ids(events')
  <2>1. CASE id = made + 1 /\ events' = Append(events, [id |-> made + 1, bit |-> bit])
    <3> DEFINE x == [id |-> made + 1, bit |-> bit]
               n == Len(events) + 1
    <3>1. x.id = id
      BY <2>1
    <3> HIDE DEF x
    <3>2. n \in DOMAIN events' /\ events'[n] = x
      BY <1>3, <2>1, InAppend DEF x
    <3>3. QED
      BY <3>1, <3>2 DEF Ids
  <2>2. QED
    BY <1>2, <1>3, <1>6, <2>1
<1>7. Ids(events) \subseteq Ids(events')
  <2>1. ASSUME NEW i \in DOMAIN events PROVE i \in DOMAIN events' /\ events'[i] = events[i]
    BY <1>2, <1>3, InAppend
  <2>2. QED
    BY <2>1 DEF Ids
<1>8. Carried'
  BY <1>0, <1>1, <1>2, <1>5 DEF Carried, Stored
<1>9. ASSUME ~setup'.Late
      PROVE  /\ OneScan(data', due', toMaster', performing', LastReply', LastSeq')
             /\ ~data'.gaveUp => Kept(data', events', got', LastReply', LastSeq', made')
  <2>1. OneScan(data', due', toMaster', performing', LastReply', LastSeq')
    BY <1>1, <1>9, Zenon DEF Unbroken
  <2>2. ~data'.gaveUp => Kept(data, events, got, LastReply, LastSeq, made)
    BY <1>1, <1>9, Zenon DEF Unbroken
  <2>3. QED
    BY <1>1, <1>6, <1>7, <2>1, <2>2 DEF Kept
<1>10. ASSUME setup'.Late, losses' = 0, asked' = {} PROVE Moving(events', got', toMaster', made')
  <2>1. Moving(events, got, toMaster, made)
    BY <1>1, <1>10, Zenon DEF Unbroken
  <2>2. QED
    BY <1>1, <1>6, <1>7, <2>1 DEF Moving
<1>11. ASSUME ~setup'.Late, ~setup'.StandAlone
       PROVE  OneMessage(data', toMaster', performing', executed') /\ Real(data', executed')
  BY <1>1, <1>11, Zenon DEF Unbroken
<1>12. QED
  BY <1>8, <1>9, <1>10, <1>11 DEF Unbroken

\* A queue of events is divided between the reply and the queue.
LEMMA Divided ==
    ASSUME NEW T, NEW ev \in Seq(T), NEW n \in 0 .. Len(ev)
    PROVE  /\ SubSeq(ev, 1, n) \in Seq(T) /\ SubSeq(ev, n + 1, Len(ev)) \in Seq(T)
           /\ Ids(ev) \subseteq Ids(SubSeq(ev, 1, n)) \cup Ids(SubSeq(ev, n + 1, Len(ev)))
<1> DEFINE a == SubSeq(ev, 1, n)
           b == SubSeq(ev, n + 1, Len(ev))
<1>1. /\ a \in Seq(T) /\ Len(a) = n /\ \A i \in 1 .. n : a[i] = ev[i]
      /\ Len(ev) \in Nat /\ n \in Nat /\ n <= Len(ev) /\ DOMAIN ev = 1 .. Len(ev)
  OBVIOUS
<1>2. b \in Seq(T) /\ Len(b) = Len(ev) - n /\ \A i \in 1 .. Len(ev) - n : b[i] = ev[n + i]
  <2> DEFINE l == Len(ev)
             k == n + 1
  <2>1. l \in Nat /\ k \in 1 .. l + 1 /\ l - k + 1 = l - n /\ \A i \in 1 .. l - n : k + i - 1 = n + i
    BY <1>1
  <2> HIDE DEF k
  <2>2. /\ SubSeq(ev, k, l) \in Seq(T) /\ Len(SubSeq(ev, k, l)) = l - k + 1
        /\ \A i \in 1 .. l - k + 1 : SubSeq(ev, k, l)[i] = ev[k + i - 1]
    BY <2>1
  <2>3. QED
    BY <2>1, <2>2 DEF k
<1> HIDE DEF a, b
<1>3. ASSUME NEW i \in DOMAIN ev PROVE ev[i].id \in Ids(a) \cup Ids(b)
  <2>1. CASE i <= n
    <3>1. i \in DOMAIN a /\ a[i] = ev[i]
      BY <1>1, <2>1
    <3>2. QED
      BY <3>1 DEF Ids
  <2>2. CASE ~(i <= n)
    <3>1. i - n \in 1 .. Len(ev) - n /\ n + (i - n) = i
      BY <1>1, <2>2
    <3>2. i - n \in DOMAIN b /\ b[i - n] = ev[i]
      BY <1>1, <1>2, <3>1
    <3>3. QED
      BY <3>2 DEF Ids
  <2>3. QED
    BY <2>1, <2>2
<1>4. Ids(ev) \subseteq Ids(a) \cup Ids(b)
  BY <1>3 DEF Ids
<1>5. QED
  BY <1>1, <1>2, <1>4 DEF a, b

\* A scan is answered with the reply that is kept, and the changes are in the
\* queue or in that reply; the reply before it is gone only if its scan is
\* over, or had no changes.
LEMMA ScanAnswered ==
    ASSUME Stored, NEW h \in Request, h.fn = 11 => h.seq # 0,
           ResendScan(h) \/ (h.fn = 11 /\ DoDigitalScan(h)) \/ (h.fn = 12 /\ DoDigitalUnconditional(h)),
           UNCHANGED made
    PROVE  /\ toMaster' = Append(toMaster, LastReply') /\ LastSeq' = h.seq
           /\ Stored'
           /\ Ids(events) \subseteq Ids(events') \cup Ids(LastReply'.events)
           /\ \/ LastReply' = LastReply /\ LastSeq' = LastSeq
              \/ LastReply.events = <<>> \/ h.seq # LastSeq
<1> USE DEF Stored
<1>1. CASE ResendScan(h)
  BY <1>1 DEF ResendScan
<1>2. h.seq \in Nat
  BY DEF Request
<1>3. <<Bit>> \in Seq(Bits) /\ <<>> \in Seq(Bits) /\ <<>> \in Seq(Tagged)
  OBVIOUS
<1>4. CASE h.fn = 11 /\ DoDigitalScan(h)
  <2> DEFINE changed == Changed \/ h.seq = 0
             Made(n) == IF ~changed /\ events = <<>> THEN NoChange
                        ELSE Reply(11, IF changed THEN <<Bit>> ELSE <<>>, SubSeq(events, 1, n))
  <2>1. PICK n \in Taken(h.tagged) :
          /\ SendAndKeep(h.seq, Made(n)) /\ events' = SubSeq(events, n + 1, Len(events))
    BY <1>4 DEF DoDigitalScan
  <2>2. n \in 0 .. Len(events) /\ h.seq # 0 /\ h.seq # LastSeq /\ UNCHANGED Bit
    BY <1>4, <2>1 DEF DoDigitalScan, Taken
  <2> DEFINE a == SubSeq(events, 1, n)
             b == SubSeq(events, n + 1, Len(events))
  <2>3. a \in Seq(Tagged) /\ b \in Seq(Tagged) /\ Ids(events) \subseteq Ids(a) \cup Ids(b)
    BY <2>2, Divided
  <2>4. toMaster' = Append(toMaster, Made(n)) /\ LastSeq' = h.seq /\ LastReply' = Made(n)
    BY <2>1 DEF SendAndKeep
  <2> HIDE DEF a, b
  <2>5. CASE ~changed /\ events = <<>>
    <3>1. Made(n) = [code |-> 14, module |-> <<>>, events |-> <<>>]
      BY <2>5 DEF NoChange, Reply
    <3>2. Made(n) \in Answer /\ IsScanReply(Made(n)) /\ Made(n).events = <<>>
      <4> DEFINE y == Made(n)
                 none == <<>>
      <4>1. none \in Seq(Bits) /\ none \in Seq(Tagged)
        BY <1>3
      <4>2. y = [code |-> 14, module |-> none, events |-> none]
        BY <3>1
      <4> HIDE DEF y, none
      <4>3. y \in Answer /\ IsScanReply(y) /\ y.events = none
        BY <4>1, <4>2 DEF Answer, IsScanReply
      <4>4. QED
        BY <4>3 DEF y, none
    <3>3. Ids(events) = {}
      BY <2>5 DEF Ids
    <3> HIDE DEF Made
    <3>4. QED
      BY <1>2, <2>1, <2>2, <2>3, <2>4, <3>2, <3>3 DEF b
  <2>6. CASE ~(~changed /\ events = <<>>)
    <3> DEFINE m == IF changed THEN <<Bit>> ELSE <<>>
    <3>1. m \in Seq(Bits)
      BY <1>3
    <3>2. Made(n) = [code |-> 11, module |-> m, events |-> a]
      BY <2>6 DEF Reply, a
    <3> HIDE DEF m, Made
    <3>3. Made(n) \in Answer /\ IsScanReply(Made(n)) /\ Made(n).events = a /\ Made(n).code = 11
      BY <2>3, <3>1, <3>2 DEF Answer, IsScanReply
    <3>4. QED
      BY <1>2, <2>1, <2>2, <2>3, <2>4, <3>3 DEF b
  <2>7. QED
    BY <2>5, <2>6
<1>5. CASE h.fn = 12 /\ DoDigitalUnconditional(h)
  <2> DEFINE x == [code |-> 11, module |-> <<Bit>>, events |-> <<>>]
  <2>1. /\ toMaster' = Append(toMaster, x) /\ LastSeq' = h.seq /\ LastReply' = x
        /\ UNCHANGED <<Bit, events>> /\ (h.seq # LastSeq \/ h.seq = 0)
    BY <1>5 DEF DoDigitalUnconditional, SendAndKeep, Reply
  <2>2. x \in Answer /\ IsScanReply(x) /\ x.events = <<>>
    BY <1>3 DEF Answer, IsScanReply
  <2> HIDE DEF x
  <2>3. LastReply.events = <<>> \/ h.seq # LastSeq
    BY <2>1
  <2>4. QED
    BY <1>2, <2>1, <2>2, <2>3
<1>6. QED
  BY <1>1, <1>4, <1>5

\* A command leaves the wire.
LEMMA OffTheWire ==
    ASSUME NEW d, NEW u \in {0, 1}, NEW C, Carries(d, u, C), DOMAIN d = Fields, d.wire # <<>>,
           NEW e, e = [d EXCEPT !.wire = Tail(@)]
    PROVE  /\ Carries(e, u, C) /\ Head(d.wire) \in C /\ d.Current \in C
           /\ e.Current = d.Current /\ e.Processing = d.Processing /\ e.gaveUp = d.gaveUp
           /\ e.calls = d.calls /\ e.timer = d.timer /\ e.wire = Tail(d.wire)
           /\ \A back, pf, lr, ls :
                 OneScan(d, u, back, pf, lr, ls) =>
                    /\ OneScan(e, u, back, pf, lr, ls) /\ u = 0
                    /\ IsScan(Head(d.wire)) =>
                          /\ d.Processing /\ d.Current = Head(d.wire)
                          /\ NoScan(e.wire)
                          /\ NoScanReply(back)
<1> DEFINE w == d.wire
           t == Tail(w)
<1>1. /\ DOMAIN e = Fields /\ e.wire = t /\ e.Current = d.Current /\ e.Processing = d.Processing
      /\ e.gaveUp = d.gaveUp /\ e.calls = d.calls /\ e.timer = d.timer /\ e.queue = d.queue
      /\ e.FunctionCode = d.FunctionCode
  BY DEF Fields
<1>2. w \in Seq(C) /\ w # <<>> /\ d.Current \in C
  BY DEF Carries
<1>3. /\ t \in Seq(C) /\ 1 \in DOMAIN w /\ Head(w) = w[1] /\ w[1] \in C
      /\ \A i \in DOMAIN t : i + 1 \in DOMAIN w /\ i + 1 # 1 /\ t[i] = w[i + 1]
      /\ \A i, j \in DOMAIN t : i + 1 = j + 1 => i = j
  BY <1>2, InTail
<1> HIDE DEF t
<1>4. Carries(e, u, C)
  BY <1>1, <1>2, <1>3 DEF Carries
<1>5. ASSUME NEW back, NEW pf, NEW lr, NEW ls, OneScan(d, u, back, pf, lr, ls)
      PROVE  /\ OneScan(e, u, back, pf, lr, ls) /\ u = 0
             /\ IsScan(Head(w)) =>
                   /\ d.Processing /\ d.Current = Head(w)
                   /\ NoScan(t)
                   /\ NoScanReply(back)
  <2>1. u = 0 /\ u # 1
    BY <1>2, <1>5 DEF OneScan
  <2>2. IsScan(Head(w)) => /\ d.Processing /\ d.Current = Head(w)
                           /\ NoScan(t)
                           /\ NoScanReply(back)
    <3> HIDE DEF IsScan, IsScanReply
    <3>1. QED
      BY <1>3, <1>5, Zenon DEF OneScan, NoScan, NoScanReply
  <2>3. \A i \in DOMAIN t : IsScan(t[i]) =>
          /\ d.Processing /\ d.Current = t[i]
          /\ \A j \in DOMAIN t : IsScan(t[j]) => j = i
          /\ NoScanReply(back)
    BY <1>3, <1>5, Zenon DEF OneScan, NoScan, NoScanReply
  <2>4. OneScan(e, u, back, pf, lr, ls)
    BY <1>1, <1>5, <2>1, <2>3, Zenon DEF OneScan, NoScan, NoScanReply
  <2>5. QED
    BY <2>1, <2>2, <2>4
<1>6. e.wire = t /\ t = Tail(d.wire) /\ Head(d.wire) = Head(w) /\ Head(w) \in C
  BY <1>1, <1>3 DEF t
<1>7. \A back, pf, lr, ls :
         OneScan(d, u, back, pf, lr, ls) =>
            /\ OneScan(e, u, back, pf, lr, ls) /\ u = 0
            /\ IsScan(Head(d.wire)) =>
                  /\ d.Processing /\ d.Current = Head(d.wire)
                  /\ NoScan(e.wire)
                  /\ NoScanReply(back)
  <2> HIDE DEF w
  <2>1. QED
    BY <1>5, <1>6, Zenon
<1>8. QED
  BY <1>1, <1>2, <1>4, <1>6, <1>7

\* The reply to the current scan, or one to a control, is on its way.
LEMMA OnTheWayBack ==
    ASSUME NEW d, NEW back \in Seq(Answer), NEW pf, NEW qf, NEW lr, NEW ls, NEW ks, NEW x,
           OneScan(d, 0, back, pf, lr, ls),
           \/ ~IsScanReply(x) /\ ks = ls
           \/ /\ d.Processing /\ IsScan(d.Current) /\ d.Current.seq = ks
              /\ NoScan(d.wire)
              /\ NoScanReply(back),
           NEW kr, IF IsScanReply(x) THEN kr = x ELSE kr = lr
    PROVE  OneScan(d, 0, Append(back, x), qf, kr, ks)
<1> DEFINE b == Append(back, x)
           n == Len(back) + 1
<1>1. /\ n \in DOMAIN b /\ b[n] = x /\ n \notin DOMAIN back
      /\ \A i \in DOMAIN b : (i \in DOMAIN back /\ b[i] = back[i]) \/ i = n
  BY InAppend
<1>2. 0 # 1
  OBVIOUS
<1> HIDE DEF b, n
<1>3. CASE ~IsScanReply(x) /\ ks = ls
  <2>1. kr = lr
    BY <1>3
  <2>2. \A i \in DOMAIN b : IsScanReply(b[i]) => i \in DOMAIN back /\ b[i] = back[i]
    BY <1>1, <1>3
  <2>3. QED
    BY <1>2, <1>3, <2>1, <2>2, Zenon DEF OneScan, b, NoScan, NoScanReply
<1>4. CASE /\ d.Processing /\ IsScan(d.Current) /\ d.Current.seq = ks /\ IsScanReply(x)
           /\ NoScan(d.wire)
           /\ NoScanReply(back)
  <2>1. kr = x
    BY <1>4
  <2>2. \A i \in DOMAIN b : IsScanReply(b[i]) => i = n
    BY <1>1, <1>4 DEF NoScan, NoScanReply
  <2>3. QED
    BY <1>1, <1>2, <1>4, <2>1, <2>2, Zenon DEF OneScan, b, NoScan, NoScanReply
<1>5. CASE /\ NoScan(d.wire)
           /\ NoScanReply(back)
           /\ ~IsScanReply(x)
  <2>1. NoScanReply(b)
    BY <1>1, <1>5 DEF NoScan, NoScanReply
  <2>2. QED
    BY <1>2, <1>5, <2>1, Zenon DEF OneScan, b, NoScan, NoScanReply
<1>6. QED
  BY <1>3, <1>4, <1>5

\* A scan arrives at the outstation: it is answered, with the reply kept.
LEMMA ScanUnbroken ==
    ASSUME IInv, Unbroken, CommandArrives, IsScan(Head(data.wire)) PROVE Unbroken'
<1> DEFINE h == Head(data.wire)
           C == Commands(DigitalCommandSequenceNumber, asked)
           R == Replies(DigitalCommandSequenceNumber, asked)
<1>1. /\ DOMAIN data = Fields /\ due \in {0, 1}
  BY DEF IInv, Good, Typed
<1>2. Carried /\ Stored
  BY DEF Unbroken, Carried
<1>3. Carries(data, due, C) /\ toMaster \in Seq(R) /\ R \subseteq Answer /\ C \subseteq Request
  BY <1>2, MoreAllowed DEF Carried
<1>4. /\ data.wire # <<>> /\ data' = [data EXCEPT !.wire = Tail(@)]
      /\ UNCHANGED <<setup, due, DigitalCommandSequenceNumber, HasBeenSet, got, up, losses, asked, made>>
  BY DEF CommandArrives, OutstationProcessMD3Message, envVars
<1>5. /\ Carries(data', due, C) /\ h \in C /\ data.Current \in C
      /\ data'.Current = data.Current /\ data'.Processing = data.Processing
      /\ data'.gaveUp = data.gaveUp /\ data'.calls = data.calls /\ data'.timer = data.timer
      /\ data'.wire = Tail(data.wire)
      /\ \A back, pf, lr, ls :
            OneScan(data, due, back, pf, lr, ls) => OneScan(data', due, back, pf, lr, ls) /\ due = 0
  BY <1>1, <1>3, <1>4, OffTheWire
<1>a. ASSUME NEW back, NEW pf, NEW lr, NEW ls, OneScan(data, due, back, pf, lr, ls)
      PROVE  /\ data.Processing /\ data.Current = h
             /\ NoScan(data'.wire)
             /\ NoScanReply(back)
  <2> HIDE DEF C
  <2> DEFINE e == [data EXCEPT !.wire = Tail(@)]
  <2>1. /\ OneScan(e, due, back, pf, lr, ls) /\ due = 0
        /\ IsScan(Head(data.wire)) =>
              /\ data.Processing /\ data.Current = Head(data.wire)
              /\ NoScan(e.wire)
              /\ NoScanReply(back)
    <3>1. e = [data EXCEPT !.wire = Tail(@)]
      OBVIOUS
    <3> HIDE DEF e
    <3>2. QED
      BY <1>1, <1>3, <1>4, <1>a, <3>1, OffTheWire
  <2>2. e = data'
    BY <1>4
  <2> HIDE DEF e
  <2>3. QED
    BY <2>1, <2>2, Zenon
<1>6. h \in Request /\ (h.fn = 11 => h.seq # 0) /\ h.fn # 17 /\ DigitalCommandSequenceNumber # 0
  BY <1>5 DEF Commands, IsScan
<1>7. /\ ResendScan(h) \/ (h.fn = 11 /\ DoDigitalScan(h)) \/ (h.fn = 12 /\ DoDigitalUnconditional(h))
      /\ UNCHANGED <<performing, executed>>
  BY <1>6 DEF CommandArrives, OutstationProcessMD3Message
<1> HIDE DEF h, C, R
<1>8. /\ toMaster' = Append(toMaster, LastReply') /\ LastSeq' = h.seq
      /\ Stored'
      /\ Ids(events) \subseteq Ids(events') \cup Ids(LastReply'.events)
      /\ \/ LastReply' = LastReply /\ LastSeq' = LastSeq
         \/ LastReply.events = <<>> \/ h.seq # LastSeq
  BY <1>2, <1>4, <1>6, <1>7, ScanAnswered
<1>9. /\ IsScanReply(LastReply') /\ LastReply' \in Answer /\ (LastReply'.code # 11 => LastReply'.events = <<>>)
  BY <1>8 DEF Stored
<1>10. Carried'
  <2>1. LastReply' \in R
    BY <1>6, <1>9 DEF R, Replies
  <2>2. toMaster' \in Seq(R)
    BY <1>3, <1>8, <2>1
  <2>3. data'.Current # NoCommand
    BY <1>3, <1>5 DEF Request, NoCommand
  <2>4. up' /\ performing' \in Seq(Request) /\ (asked' = {} => performing' = <<>>)
    BY <1>2, <1>4, <1>7 DEF Carried
  <2>5. (HasBeenSet' => DigitalCommandSequenceNumber' # 0) /\ DigitalCommandSequenceNumber' \in Nat
    BY <1>2, <1>4 DEF Carried
  <2>6. QED
    BY <1>4, <1>5, <1>8, <2>2, <2>3, <2>4, <2>5, Zenon DEF Carried, C, R
<1>11. ASSUME ~setup'.Late
       PROVE  /\ OneScan(data', due', toMaster', performing', LastReply', LastSeq')
              /\ ~data'.gaveUp => Kept(data', events', got', LastReply', LastSeq', made')
  <2>1. /\ OneScan(data, due, toMaster, performing, LastReply, LastSeq)
        /\ ~data.gaveUp => Kept(data, events, got, LastReply, LastSeq, made)
    BY <1>4, <1>11, Zenon DEF Unbroken
  <2>2. /\ OneScan(data', due, toMaster, performing, LastReply, LastSeq) /\ due = 0
        /\ data.Processing /\ data.Current = h
        /\ NoScan(data'.wire)
        /\ NoScanReply(toMaster)
    BY <1>5, <1>a, <2>1, Zenon
  <2>3. data'.Processing /\ IsScan(data'.Current) /\ data'.Current.seq = LastSeq'
    BY <1>5, <1>8, <2>2 DEF h
  <2>4. toMaster \in Seq(Answer)
    BY <1>3, SeqGrows
  <2>5. OneScan(data', 0, toMaster, performing, LastReply, LastSeq)
    BY <2>2, Zenon
  <2>6. OneScan(data', 0, Append(toMaster, LastReply'), performing', LastReply', LastSeq')
    BY <1>9, <2>2, <2>3, <2>4, <2>5, OnTheWayBack
  <2>7. OneScan(data', due', toMaster', performing', LastReply', LastSeq')
    BY <1>4, <1>8, <2>2, <2>6, Zenon
  <2>8. ASSUME ~data'.gaveUp PROVE Kept(data', events', got', LastReply', LastSeq', made')
    <3>1. Kept(data, events, got, LastReply, LastSeq, made)
      BY <1>5, <2>1, <2>8
    <3>2. ASSUME NEW id \in 1 .. made
          PROVE  id \in Ids(events') \cup got \/ id \in Ids(LastReply'.events)
      <4>1. CASE id \in Ids(events) \cup got
        BY <1>8, <4>1
      <4>2. CASE id \in Ids(LastReply.events) /\ data.Current.seq = LastSeq
        <5>1. LastReply.events # <<>>
          BY <4>2 DEF Ids
        <5>2. LastReply' = LastReply
          BY <1>8, <2>2, <4>2, <5>1
        <5>3. QED
          BY <4>2, <5>2
      <4>3. QED
        BY <3>1, <3>2, <4>1, <4>2, Zenon DEF Kept
    <3>3. QED
      BY <1>4, <2>3, <3>2, Zenon DEF Kept
  <2>9. QED
    BY <2>7, <2>8
<1>12. ASSUME setup'.Late, losses' = 0, asked' = {} PROVE Moving(events', got', toMaster', made')
  <2>1. Moving(events, got, toMaster, made)
    BY <1>4, <1>12, Zenon DEF Unbroken
  <2> DEFINE n == Len(toMaster) + 1
  <2>2. /\ n \in DOMAIN toMaster' /\ toMaster'[n] = LastReply'
        /\ \A i \in DOMAIN toMaster : i \in DOMAIN toMaster' /\ toMaster'[i] = toMaster[i]
    BY <1>3, <1>8, InAppend
  <2> HIDE DEF n
  <2>3. ASSUME NEW id \in 1 .. made
        PROVE  \/ id \in Ids(events') \cup got
               \/ \E i \in DOMAIN toMaster' : id \in Ids(toMaster'[i].events)
    <3>1. CASE id \in Ids(events) \cup got
      BY <1>8, <2>2, <3>1
    <3>2. CASE \E i \in DOMAIN toMaster : id \in Ids(toMaster[i].events)
      BY <2>2, <3>2
    <3>3. QED
      BY <2>1, <2>3, <3>1, <3>2, Zenon DEF Moving
  <2>4. QED
    BY <1>4, <2>3, Zenon DEF Moving
<1>13. ASSUME ~setup'.Late, ~setup'.StandAlone
       PROVE  OneMessage(data', toMaster', performing', executed') /\ Real(data', executed')
  <2>1. OneMessage(data, toMaster, performing, executed) /\ Real(data, executed)
    BY <1>4, <1>13, Zenon DEF Unbroken
  <2>2. data.Processing /\ data.wire = <<data.Current>> /\ toMaster = <<>> /\ performing = <<>>
    BY <1>4, <2>1, Zenon DEF OneMessage
  <2>3. data'.wire = <<>> /\ toMaster' = <<LastReply'>> /\ performing' = <<>> /\ data'.Processing
    BY <1>5, <1>7, <1>8, <2>2
  <2>4. Len(toMaster') = 1 /\ toMaster'[1] = LastReply' /\ LastReply'.code # 15
    BY <1>9, <2>3 DEF IsScanReply
  <2>5. QED
    BY <1>5, <1>7, <2>1, <2>3, <2>4, Zenon DEF OneMessage, Real
<1>14. QED
  BY <1>10, <1>11, <1>12, <1>13 DEF Unbroken

\* A control arrives: it is rejected, or published.
LEMMA ControlUnbroken ==
    ASSUME IInv, Unbroken, CommandArrives, ~IsScan(Head(data.wire)) PROVE Unbroken'
<1> DEFINE h == Head(data.wire)
           C == Commands(DigitalCommandSequenceNumber, asked)
           R == Replies(DigitalCommandSequenceNumber, asked)
           x30 == Reply(30, <<>>, <<>>)
           x15 == Reply(15, <<>>, <<>>)
<1>1. /\ DOMAIN data = Fields /\ due \in {0, 1}
  BY DEF IInv, Good, Typed
<1>2. Carried /\ Stored
  BY DEF Unbroken, Carried
<1>3. Carries(data, due, C) /\ toMaster \in Seq(R) /\ R \subseteq Answer /\ C \subseteq Request
  BY <1>2, MoreAllowed DEF Carried
<1>4. /\ data.wire # <<>> /\ data' = [data EXCEPT !.wire = Tail(@)]
      /\ UNCHANGED <<setup, due, DigitalCommandSequenceNumber, HasBeenSet, got, up, losses, asked, made>>
  BY DEF CommandArrives, OutstationProcessMD3Message, envVars
<1>5. /\ Carries(data', due, C) /\ h \in C /\ data.Current \in C
      /\ data'.Current = data.Current /\ data'.Processing = data.Processing
      /\ data'.gaveUp = data.gaveUp /\ data'.calls = data.calls /\ data'.timer = data.timer
      /\ data'.wire = Tail(data.wire)
      /\ \A back, pf, lr, ls :
            OneScan(data, due, back, pf, lr, ls) => OneScan(data', due, back, pf, lr, ls) /\ due = 0
  BY <1>1, <1>3, <1>4, OffTheWire
<1>6. h \in Request /\ asked # {}
  BY <1>5 DEF Commands
<1>7. DoPOMControl(h, setup.StandAlone)
  BY DEF CommandArrives, OutstationProcessMD3Message, IsScan
<1>8. /\ UNCHANGED <<Bit, events, LastSeq, LastReply>>
      /\ \/ toMaster' = Append(toMaster, x30) /\ UNCHANGED <<performing, executed>>
         \/ /\ performing' = Append(performing, h) /\ executed' = executed \cup {h.callback}
            /\ toMaster' = IF setup.StandAlone THEN Append(toMaster, x15) ELSE toMaster
  BY <1>7 DEF DoPOMControl
<1>9. x30 \in R /\ x15 \in R /\ ~IsScanReply(x30) /\ ~IsScanReply(x15) /\ x30.code # 15
  <2> DEFINE none == <<>>
  <2>1. none \in Seq(Bits) /\ none \in Seq(Tagged)
    OBVIOUS
  <2>2. x30 = [code |-> 30, module |-> none, events |-> none]
        /\ x15 = [code |-> 15, module |-> none, events |-> none]
    BY DEF Reply
  <2>3. /\ x30.code = 30 /\ x15.code = 15 /\ x30.events = <<>> /\ x15.events = <<>>
    BY <2>2
  <2> HIDE DEF none, x30, x15
  <2>4. x30 \in Answer /\ x15 \in Answer
    BY <2>1, <2>2 DEF Answer
  <2>5. QED
    BY <1>6, <2>3, <2>4 DEF R, Replies, IsScanReply
<1> HIDE DEF h, C, R, x30, x15
<1>10. Carried'
  <2>1. toMaster' \in Seq(R)
    BY <1>3, <1>8, <1>9
  <2>2. performing' \in Seq(Request)
    <3>1. performing \in Seq(Request)
      BY <1>2 DEF Carried
    <3>2. QED
      BY <1>6, <1>8, <3>1
  <2>3. data'.Current # NoCommand
    BY <1>3, <1>5 DEF Request, NoCommand
  <2>4. up' /\ asked' # {} /\ (HasBeenSet' => DigitalCommandSequenceNumber' # 0)
        /\ DigitalCommandSequenceNumber' \in Nat
    BY <1>2, <1>4, <1>6 DEF Carried
  <2>5. Stored'
    BY <1>2, <1>4, <1>8, Zenon DEF Stored
  <2>6. QED
    BY <1>4, <1>5, <2>1, <2>2, <2>3, <2>4, <2>5, Zenon DEF Carried, C, R
<1>11. ASSUME ~setup'.Late
       PROVE  /\ OneScan(data', due', toMaster', performing', LastReply', LastSeq')
              /\ ~data'.gaveUp => Kept(data', events', got', LastReply', LastSeq', made')
  <2>1. /\ OneScan(data, due, toMaster, performing, LastReply, LastSeq)
        /\ ~data.gaveUp => Kept(data, events, got, LastReply, LastSeq, made)
    BY <1>4, <1>11, Zenon DEF Unbroken
  <2>2. OneScan(data', 0, toMaster, performing, LastReply, LastSeq) /\ due = 0
    BY <1>5, <2>1, Zenon
  <2>3. toMaster \in Seq(Answer)
    BY <1>3, SeqGrows
  <2>4. ASSUME NEW x, ~IsScanReply(x)
        PROVE  OneScan(data', 0, Append(toMaster, x), performing', LastReply, LastSeq)
    BY <2>2, <2>3, <2>4, OnTheWayBack
  <2>5. OneScan(data', 0, toMaster, performing', LastReply, LastSeq)
    <3>1. 0 # 1
      OBVIOUS
    <3>2. QED
      BY <2>2, <3>1, Zenon DEF OneScan
  <2>6. OneScan(data', 0, toMaster', performing', LastReply, LastSeq)
    BY <1>8, <1>9, <2>4, <2>5
  <2>7. OneScan(data', due', toMaster', performing', LastReply', LastSeq')
    BY <1>4, <1>8, <2>2, <2>6, Zenon
  <2>8. ~data'.gaveUp => Kept(data', events', got', LastReply', LastSeq', made')
    BY <1>4, <1>5, <1>8, <2>1, Zenon DEF Kept
  <2>9. QED
    BY <2>7, <2>8
<1>12. ASSUME ~setup'.Late, ~setup'.StandAlone
       PROVE  OneMessage(data', toMaster', performing', executed') /\ Real(data', executed')
  <2>1. OneMessage(data, toMaster, performing, executed) /\ Real(data, executed) /\ ~setup.StandAlone
    BY <1>4, <1>12, Zenon DEF Unbroken
  <2>2. data.Processing /\ data.wire = <<data.Current>> /\ toMaster = <<>> /\ performing = <<>>
    BY <1>4, <2>1, Zenon DEF OneMessage
  <2>3. data'.wire = <<>> /\ h = data.Current /\ data'.Processing
    BY <1>5, <2>2 DEF h
  <2>4. \/ toMaster' = <<x30>> /\ performing' = <<>> /\ executed' = executed
        \/ toMaster' = <<>> /\ performing' = <<h>> /\ executed' = executed \cup {h.callback}
    BY <1>8, <2>1, <2>2
  <2>5. executed \subseteq executed'
    BY <2>4
  <2>6. Real(data', executed')
    BY <1>5, <2>1, <2>5 DEF Real
  <2>7. OneMessage(data', toMaster', performing', executed')
    <3>1. CASE toMaster' = <<x30>> /\ performing' = <<>>
      <4>1. Len(toMaster') = 1 /\ toMaster'[1] = x30
        BY <3>1
      <4>2. QED
        BY <1>9, <2>3, <3>1, <4>1, Zenon DEF OneMessage
    <3>2. CASE toMaster' = <<>> /\ performing' = <<h>> /\ executed' = executed \cup {h.callback}
      <4>1. Len(performing') = 1 /\ data'.Current.callback \in executed'
        BY <1>5, <2>3, <3>2
      <4>2. QED
        BY <2>3, <3>2, <4>1, Zenon DEF OneMessage
    <3>3. QED
      BY <2>4, <3>1, <3>2
  <2>8. QED
    BY <2>6, <2>7
<1>13. QED
  BY <1>4, <1>6, <1>10, <1>11, <1>12 DEF Unbroken

\* Other ports answer a control.
LEMMA PerformedUnbroken == ASSUME IInv, Unbroken, ControlPerformed PROVE Unbroken'
<1> DEFINE R == Replies(DigitalCommandSequenceNumber, asked)
<1>1. Carried /\ Stored
  BY DEF Unbroken, Carried
<1>2. PICK code \in {15, 30} : toMaster' = Append(toMaster, Reply(code, <<>>, <<>>))
  BY DEF ControlPerformed, Performed
<1> DEFINE x == Reply(code, <<>>, <<>>)
<1>3. /\ performing # <<>> /\ performing' = Tail(performing) /\ toMaster' = Append(toMaster, x)
      /\ UNCHANGED <<setup, data, due, DigitalCommandSequenceNumber, HasBeenSet, got, up, losses, asked,
                     Bit, events, LastSeq, LastReply, made, executed>>
  BY <1>2 DEF ControlPerformed, Performed, masterVars, envVars
<1>4. performing \in Seq(Request) /\ asked # {} /\ data.Current # NoCommand /\ toMaster \in Seq(R)
      /\ R \subseteq Answer
  BY <1>1, <1>3, MoreAllowed DEF Carried
<1>5. x \in R /\ ~IsScanReply(x)
  <2> DEFINE none == <<>>
  <2>1. none \in Seq(Bits) /\ none \in Seq(Tagged)
    OBVIOUS
  <2>2. x = [code |-> code, module |-> none, events |-> none]
    BY DEF Reply
  <2>3. x.code = code /\ x.events = <<>>
    BY <2>2
  <2> HIDE DEF none, x
  <2>4. x \in Answer
    BY <2>1, <2>2 DEF Answer
  <2>5. QED
    BY <1>4, <2>3, <2>4 DEF R, Replies, IsScanReply
<1> HIDE DEF x, R
<1>6. Carried'
  <2>1. toMaster' \in Seq(R) /\ performing' \in Seq(Request)
    BY <1>3, <1>4, <1>5
  <2>2. Stored'
    BY <1>1, <1>3, Zenon DEF Stored
  <2>3. QED
    BY <1>1, <1>3, <1>4, <2>1, <2>2, Zenon DEF Carried, R
<1>7. ASSUME ~setup'.Late
      PROVE  /\ OneScan(data', due', toMaster', performing', LastReply', LastSeq')
             /\ ~data'.gaveUp => Kept(data', events', got', LastReply', LastSeq', made')
  <2>1. /\ OneScan(data, due, toMaster, performing, LastReply, LastSeq)
        /\ ~data.gaveUp => Kept(data, events, got, LastReply, LastSeq, made)
    BY <1>3, <1>7, Zenon DEF Unbroken
  <2>2. due = 0
    BY <1>3, <2>1 DEF OneScan, IInv
  <2>3. toMaster \in Seq(Answer)
    BY <1>4, SeqGrows
  <2>4. OneScan(data, 0, toMaster, performing, LastReply, LastSeq)
    BY <2>1, <2>2, Zenon
  <2>5. OneScan(data, 0, Append(toMaster, x), performing', LastReply, LastSeq)
    BY <1>5, <2>3, <2>4, OnTheWayBack
  <2>6. QED
    BY <1>3, <2>1, <2>2, <2>5, Zenon
<1>8. ASSUME ~setup'.Late, ~setup'.StandAlone
      PROVE  OneMessage(data', toMaster', performing', executed') /\ Real(data', executed')
  <2>1. OneMessage(data, toMaster, performing, executed) /\ Real(data, executed)
    BY <1>3, <1>8, Zenon DEF Unbroken
  <2>2. /\ data.wire = <<>> /\ toMaster = <<>> /\ data.Processing
        /\ data.Current.callback \in executed /\ Len(performing) = 1
    BY <1>3, <2>1, Zenon DEF OneMessage
  <2>3. toMaster' = <<x>> /\ performing' = <<>>
    BY <1>3, <1>4, <2>2
  <2>4. Len(toMaster') = 1
    BY <2>3
  <2>5. OneMessage(data', toMaster', performing', executed')
    BY <1>3, <2>2, <2>3, <2>4, Zenon DEF OneMessage
  <2>6. QED
    BY <1>3, <2>1, <2>5, Zenon
<1>9. QED
  BY <1>3, <1>4, <1>6, <1>7, <1>8 DEF Unbroken

\* A reply leaves the connection.
LEMMA OffTheWayBack ==
    ASSUME NEW d, NEW u, NEW T, NEW back \in Seq(T), back # <<>>, NEW pf, NEW lr, NEW ls,
           OneScan(d, u, back, pf, lr, ls)
    PROVE  /\ OneScan(d, u, Tail(back), pf, lr, ls) /\ u # 1
           /\ IsScanReply(Head(back)) =>
                 /\ d.Processing /\ IsScan(d.Current) /\ d.Current.seq = ls /\ Head(back) = lr
                 /\ NoScan(d.wire)
                 /\ NoScanReply(Tail(back))
<1> DEFINE t == Tail(back)
<1>1. /\ 1 \in DOMAIN back /\ Head(back) = back[1]
      /\ \A i \in DOMAIN t : i + 1 \in DOMAIN back /\ i + 1 # 1 /\ t[i] = back[i + 1]
      /\ \A i, j \in DOMAIN t : i + 1 = j + 1 => i = j
  BY InTail
<1> HIDE DEF t
<1>2. u # 1
  BY DEF OneScan
<1>3. IsScanReply(Head(back)) =>
                 /\ d.Processing /\ IsScan(d.Current) /\ d.Current.seq = ls /\ Head(back) = lr
                 /\ NoScan(d.wire)
                 /\ NoScanReply(t)
  <2> SUFFICES ASSUME IsScanReply(back[1])
               PROVE  /\ d.Processing /\ IsScan(d.Current) /\ d.Current.seq = ls /\ back[1] = lr
                      /\ NoScan(d.wire)
                      /\ NoScanReply(t)
    BY <1>1
  <2>1. /\ d.Processing /\ IsScan(d.Current) /\ d.Current.seq = ls /\ back[1] = lr
        /\ \A j \in DOMAIN back : IsScanReply(back[j]) => j = 1
    BY <1>1, Zenon DEF OneScan
  <2>2. NoScan(d.wire)
    BY <1>1, Zenon DEF OneScan, NoScan, NoScanReply
  <2>3. NoScanReply(t)
    BY <1>1, <2>1, Zenon DEF NoScan, NoScanReply
  <2>4. QED
    BY <2>1, <2>2, <2>3
<1>4. \A i \in DOMAIN t : IsScanReply(t[i]) =>
          /\ d.Processing /\ IsScan(d.Current) /\ d.Current.seq = ls /\ t[i] = lr
          /\ \A j \in DOMAIN t : IsScanReply(t[j]) => j = i
  BY <1>1, Zenon DEF OneScan, NoScan, NoScanReply
<1>5. \A i \in DOMAIN d.wire : IsScan(d.wire[i]) => NoScanReply(t)
  BY <1>1, Zenon DEF OneScan, NoScan, NoScanReply
<1>6. OneScan(d, u, t, pf, lr, ls)
  BY <1>2, <1>4, <1>5, Zenon DEF OneScan, NoScan, NoScanReply
<1>7. QED
  BY <1>2, <1>3, <1>6 DEF t

\* A reply arrives at the master.  If it answers the current command then no
\* other scan is under way, so that its changes are those of the kept reply.
LEMMA ReplyUnbroken == ASSUME IInv, Unbroken, ReplyArrives PROVE Unbroken'
<1> DEFINE dsn == DigitalCommandSequenceNumber
           C == Commands(dsn, asked)
           D == Commands(dsn', asked)
           R == Replies(dsn', asked)
           h == Head(toMaster)
           answered == Expected(data.FunctionCode, h.code)
           more == answered /\ h.code = 11 /\ data.FunctionCode = 11
           q == IF more THEN QueueMD3Command(data, Scan(11, MostEvents)) ELSE data
<1>1. /\ DOMAIN data = Fields /\ data.Processing \in BOOLEAN /\ due \in {0, 1}
  BY DEF IInv, Good, Typed
<1>2. Carried /\ Stored /\ dsn \in Nat
  BY DEF Unbroken, Carried
<1>3. /\ toMaster # <<>> /\ toMaster' = Tail(toMaster)
      /\ UNCHANGED <<setup, due, up, losses, asked, Bit, events, LastSeq, LastReply, performing,
                     made, executed>>
      /\ ProcessMD3Message(h)
  BY DEF ReplyArrives, ProcessMD3Message, envVars
<1>4. /\ data' = IF answered THEN Succeeded(q) ELSE data
      /\ more => GetAndIncrementDigitalCommandSequenceNumber
      /\ ~more => dsn' = dsn
      /\ answered /\ h.code = 11 => got' = got \cup Ids(h.events)
      /\ ~(answered /\ h.code = 11) => got' = got /\ HasBeenSet' = HasBeenSet
  BY <1>3 DEF ProcessMD3Message, ProcessDigitalScan, Ids
<1>5. /\ toMaster \in Seq(Replies(dsn, asked)) /\ Carries(data, due, C)
  BY <1>2 DEF Carried
<1>6. h \in Replies(dsn, asked) /\ Tail(toMaster) \in Seq(Replies(dsn, asked))
  BY <1>3, <1>5, InTail
<1>7. h \in Answer /\ (h.code # 11 => h.events = <<>>) /\ (IsScanReply(h) => dsn # 0)
      /\ (~IsScanReply(h) => asked # {})
  BY <1>6 DEF Replies
<1>8. dsn' \in Nat /\ (dsn # 0 => dsn' # 0) /\ (more => dsn' # 0 /\ dsn # 0)
  <2>1. more => dsn # 0
    BY <1>7 DEF IsScanReply
  <2>2. CASE more
    <3>1. GetAndIncrementDigitalCommandSequenceNumber
      BY <1>4, <2>2
    <3>2. QED
      BY <1>2, <2>1, <3>1, NextNumber
  <2>3. CASE ~more
    BY <1>2, <1>4, <2>1, <2>3
  <2>4. QED
    BY <2>2, <2>3
<1>9. C \subseteq D /\ D \subseteq Request /\ Replies(dsn, asked) \subseteq R /\ R \subseteq Answer
  BY <1>8, MoreAllowed
<1>10. Carries(data, due, D) /\ toMaster' \in Seq(R)
  BY <1>3, <1>5, <1>6, <1>9, MoreCarried, SeqGrows
<1>11. data.Current \in D /\ data.Current # NoCommand /\ data.FunctionCode = data.Current.fn
  <2>1. data.Current # NoCommand
    BY <1>2, <1>3 DEF Carried
  <2>2. QED
    BY <1>10, <2>1 DEF Carries
<1>12. answered => (IsScan(data.Current) <=> IsScanReply(h)) /\ (~IsScan(data.Current) <=> h.code = 15)
  BY <1>11 DEF Expected, IsScan, IsScanReply
<1>13. more => Scan(11, MostEvents) \in D
  <2> DEFINE s == Scan(11, MostEvents)
  <2>1. s = [fn |-> 11, seq |-> dsn, tagged |-> MostEvents, callback |-> NoCallback]
    BY DEF Scan
  <2>2. s.fn = 11 /\ s.seq = dsn /\ s.callback = NoCallback /\ s \in Request
    BY <1>2, <2>1 DEF Request
  <2> HIDE DEF s
  <2>3. more => s \in D
    BY <1>8, <2>2 DEF Commands, IsScan
  <2>4. QED
    BY <2>3 DEF s
<1> HIDE DEF C, D, R
<1>14. /\ Carries(q, due, D) /\ q.gaveUp = data.gaveUp /\ DOMAIN q = Fields
       /\ q.Current = NoCommand => data.Current = NoCommand
       /\ data.Processing => q.Current = data.Current /\ q.wire = data.wire
       /\ \A ex : Real(data, ex) => Real(q, ex)
  <2>1. CASE ~more
    BY <1>1, <1>10, <2>1
  <2>2. CASE more
    <3> DEFINE s == Scan(11, MostEvents)
    <3>1. q = QueueMD3Command(data, s) /\ s \in D
      BY <1>13, <2>2
    <3> HIDE DEF q, s
    <3>2. /\ Carries(q, due, D) /\ q.gaveUp = data.gaveUp
          /\ q.Current = NoCommand => data.Current = NoCommand
          /\ data.Processing => q.Current = data.Current /\ q.wire = data.wire
          /\ \A ex : Real(data, ex) => Real(q, ex)
      BY <1>1, <1>9, <1>10, <3>1, QueueKeeps
    <3>3. DOMAIN q = Fields
      <4>1. Good(data, due) /\ setup \in Setups
        BY DEF IInv
      <4>2. Good(q, due)
        BY <1>1, <3>1, <4>1, QueueGood
      <4>3. QED
        BY <4>2 DEF Good, Typed
    <3>4. QED
      BY <3>2, <3>3
  <2>3. QED
    BY <2>1, <2>2
<1> HIDE DEF q
<1>15. /\ Carries(Succeeded(q), due, D) /\ Succeeded(q).gaveUp = q.gaveUp
       /\ Succeeded(q).Current = NoCommand => q.Current = NoCommand
       /\ \A back, pf, lr, ls :
             /\ due = 0
             /\ NoScan(q.wire)
             /\ NoScanReply(back)
             => OneScan(Succeeded(q), due, back, pf, lr, ls)
       /\ \A ex : q.wire = <<>> => OneMessage(Succeeded(q), <<>>, <<>>, ex)
       /\ \A ex : Real(q, ex) /\ q.Current.callback \in ex \cup {NoCallback} => Real(Succeeded(q), ex)
  BY <1>1, <1>9, <1>14, SuccessKeeps
<1> HIDE DEF h, more
<1>16. Carried'
  <2>1. Carries(data', due, D) /\ data'.Current # NoCommand
    BY <1>4, <1>10, <1>11, <1>14, <1>15
  <2>2. HasBeenSet' => dsn' # 0
    <3>1. CASE answered /\ h.code = 11
      BY <1>7, <1>8, <3>1 DEF IsScanReply
    <3>2. CASE ~(answered /\ h.code = 11)
      <4>1. HasBeenSet' = HasBeenSet /\ (HasBeenSet => dsn # 0)
        BY <1>2, <1>4, <3>2 DEF Carried
      <4>2. QED
        BY <1>8, <4>1
    <3>3. QED
      BY <3>1, <3>2
  <2>3. Stored'
    BY <1>2, <1>3, Zenon DEF Stored
  <2>4. up' /\ performing' \in Seq(Request) /\ (asked' = {} => performing' = <<>>)
    BY <1>2, <1>3 DEF Carried
  <2>5. QED
    BY <1>3, <1>8, <1>10, <2>1, <2>2, <2>3, <2>4, Zenon DEF Carried, D, R
<1>17. ASSUME ~setup'.Late
       PROVE  /\ OneScan(data', due', toMaster', performing', LastReply', LastSeq')
              /\ ~data'.gaveUp => Kept(data', events', got', LastReply', LastSeq', made')
  <2>1. /\ OneScan(data, due, toMaster, performing, LastReply, LastSeq)
        /\ ~data.gaveUp => Kept(data, events, got, LastReply, LastSeq, made)
    BY <1>3, <1>17, Zenon DEF Unbroken
  <2>2. /\ OneScan(data, due, toMaster', performing, LastReply, LastSeq) /\ due # 1
        /\ IsScanReply(h) =>
              /\ data.Processing /\ IsScan(data.Current) /\ data.Current.seq = LastSeq /\ h = LastReply
              /\ NoScan(data.wire)
              /\ NoScanReply(toMaster')
    <3>1. toMaster \in Seq(Replies(dsn, asked)) /\ toMaster # <<>> /\ toMaster' = Tail(toMaster)
      BY <1>3, <1>5
    <3> DEFINE S == Replies(dsn, asked)
    <3> HIDE DEF S
    <3>2. toMaster \in Seq(S)
      BY <3>1 DEF S
    <3> DEFINE t == Tail(toMaster)
               k == Head(toMaster)
    <3>3. OneScan(data, due, t, performing, LastReply, LastSeq) /\ due # 1
      BY <2>1, <3>1, <3>2, OffTheWayBack
    <3>4. ASSUME IsScanReply(k)
          PROVE  /\ data.Processing /\ IsScan(data.Current) /\ data.Current.seq = LastSeq
                 /\ k = LastReply
                 /\ NoScan(data.wire)
                 /\ NoScanReply(t)
      BY <2>1, <3>1, <3>2, <3>4, OffTheWayBack
    <3>5. t = toMaster' /\ k = h
      BY <3>1 DEF h
    <3> HIDE DEF t, k
    <3>6. QED
      BY <3>3, <3>4, <3>5, Zenon
  <2>3. CASE ~answered
    <3>1. data' = data /\ got' = got
      BY <1>4, <2>3
    <3>2. QED
      BY <1>3, <2>1, <2>2, <3>1, Zenon
  <2>4. CASE answered
    <3>1. due = 0 /\ data' = Succeeded(q)
      BY <1>1, <1>4, <2>2, <2>4
    <3>2. /\ NoScan(q.wire)
          /\ NoScanReply(toMaster')
      <4>1. CASE IsScanReply(h)
        BY <1>14, <2>2, <4>1
      <4>2. CASE ~IsScanReply(h)
        <5>1. ~IsScan(data.Current) /\ ~more
          BY <1>12, <2>4, <4>2 DEF more, IsScanReply
        <5>2. q = data
          BY <5>1 DEF q
        <5>3. /\ NoScan(data.wire)
              /\ NoScanReply(toMaster')
          BY <2>2, <5>1, Zenon DEF OneScan, NoScan, NoScanReply
        <5>4. QED
          BY <5>2, <5>3
      <4>3. QED
        BY <4>1, <4>2
    <3>3. OneScan(data', due', toMaster', performing', LastReply', LastSeq')
      BY <1>3, <1>15, <3>1, <3>2, Zenon
    <3>4. ASSUME ~data'.gaveUp PROVE Kept(data', events', got', LastReply', LastSeq', made')
      <4>1. Kept(data, events, got, LastReply, LastSeq, made)
        BY <1>14, <1>15, <2>1, <3>1, <3>4
      <4>2. ASSUME NEW id \in 1 .. made PROVE id \in Ids(events) \cup got'
        <5>1. CASE id \in Ids(events) \cup got
          BY <1>4, <5>1
        <5>2. CASE id \in Ids(LastReply.events) /\ data.Processing /\ IsScan(data.Current)
          <6>1. IsScanReply(h) /\ h = LastReply
            BY <1>12, <2>2, <2>4, <5>2
          <6>2. h.code = 11
            <7>1. h.events # <<>>
              BY <5>2, <6>1 DEF Ids
            <7>2. QED
              BY <1>7, <7>1
          <6>3. got' = got \cup Ids(LastReply.events)
            BY <1>4, <2>4, <6>1, <6>2
          <6>4. QED
            BY <5>2, <6>3
        <5>3. QED
          BY <4>1, <4>2, <5>1, <5>2, Zenon DEF Kept
      <4>3. QED
        BY <1>3, <4>2, Zenon DEF Kept
    <3>5. QED
      BY <3>3, <3>4
  <2>5. QED
    BY <2>3, <2>4
<1>18. ASSUME setup'.Late, losses' = 0, asked' = {} PROVE Moving(events', got', toMaster', made')
  <2>1. Moving(events, got, toMaster, made) /\ asked = {}
    BY <1>3, <1>18, Zenon DEF Unbroken
  <2>2. answered
    <3>1. IsScanReply(h)
      BY <1>7, <2>1
    <3>2. IsScan(data.Current)
      BY <1>3, <1>11, <1>18 DEF D, Commands
    <3>3. QED
      BY <1>11, <3>1, <3>2 DEF Expected, IsScan, IsScanReply
  <2>3. got \subseteq got' /\ Ids(h.events) \subseteq got'
    <3>1. CASE h.code = 11
      BY <1>4, <2>2, <3>1
    <3>2. CASE h.code # 11
      <4>1. Ids(h.events) = {}
        BY <1>7, <3>2 DEF Ids
      <4>2. QED
        BY <1>4, <3>2, <4>1
    <3>3. QED
      BY <3>1, <3>2
  <2>4. /\ Head(toMaster) = toMaster[1]
        /\ \A i \in DOMAIN toMaster : i = 1 \/ \E j \in DOMAIN toMaster' : toMaster'[j] = toMaster[i]
    BY <1>3, <1>5, InTail
  <2>5. ASSUME NEW id \in 1 .. made
        PROVE  \/ id \in Ids(events) \cup got'
               \/ \E i \in DOMAIN toMaster' : id \in Ids(toMaster'[i].events)
    <3>1. CASE id \in Ids(events) \cup got
      BY <2>3, <3>1
    <3>2. ASSUME NEW i \in DOMAIN toMaster, id \in Ids(toMaster[i].events)
          PROVE  \/ id \in got'
                 \/ \E j \in DOMAIN toMaster' : id \in Ids(toMaster'[j].events)
      <4>1. CASE i = 1
        BY <2>3, <2>4, <3>2, <4>1 DEF h
      <4>2. CASE i # 1
        BY <2>4, <3>2, <4>2
      <4>3. QED
        BY <4>1, <4>2
    <3>3. QED
      BY <2>1, <2>5, <3>1, <3>2, Zenon DEF Moving
  <2>6. QED
    BY <1>3, <2>5, Zenon DEF Moving
<1>19. ASSUME ~setup'.Late, ~setup'.StandAlone
       PROVE  OneMessage(data', toMaster', performing', executed') /\ Real(data', executed')
  <2>1. OneMessage(data, toMaster, performing, executed) /\ Real(data, executed)
    BY <1>3, <1>19, Zenon DEF Unbroken
  <2>2. /\ data.wire = <<>> /\ performing = <<>> /\ data.Processing /\ Len(toMaster) = 1
        /\ toMaster[1].code = 15 => data.Current.callback \in executed
    BY <1>3, <2>1, Zenon DEF OneMessage
  <2>3. toMaster' = <<>> /\ h = toMaster[1]
    BY <1>3, <1>5, <2>2 DEF h
  <2>4. CASE ~answered
    <3>1. data' = data
      BY <1>4, <2>4
    <3>2. OneMessage(data', <<>>, <<>>, executed)
      BY <2>2, <3>1, Zenon DEF OneMessage
    <3>3. QED
      BY <1>3, <2>1, <2>2, <2>3, <3>1, <3>2, Zenon
  <2>5. CASE answered
    <3>1. data' = Succeeded(q) /\ q.Current = data.Current /\ q.wire = <<>>
      BY <1>4, <1>14, <2>2, <2>5
    <3>2. data.Current.callback \in executed \cup {NoCallback}
      <4>1. CASE IsScan(data.Current)
        BY <1>11, <4>1 DEF D, Commands
      <4>2. CASE ~IsScan(data.Current)
        BY <1>12, <2>2, <2>3, <2>5, <4>2
      <4>3. QED
        BY <4>1, <4>2
    <3>3. Real(data', executed)
      BY <1>14, <1>15, <2>1, <3>1, <3>2
    <3>4. OneMessage(data', <<>>, <<>>, executed)
      BY <1>15, <3>1
    <3>5. QED
      BY <1>3, <2>2, <2>3, <3>3, <3>4, Zenon
  <2>6. QED
    BY <2>4, <2>5
<1>20. QED
  BY <1>16, <1>17, <1>18, <1>19 DEF Unbroken

\* The timer of the command in flight expires.
LEMMA TimerUnbroken == ASSUME IInv, Unbroken, Timer PROVE Unbroken'
<1> DEFINE C == Commands(DigitalCommandSequenceNumber, asked)
<1>1. DOMAIN data = Fields
  BY DEF IInv, Good, Typed
<1>2. Carried
  BY DEF Unbroken
<1>3. /\ data.timer /\ data' = [data EXCEPT !.timer = FALSE] /\ due' = 1
      /\ UNCHANGED <<setup, DigitalCommandSequenceNumber, HasBeenSet, got, up, losses, asked, Bit,
                     events, LastSeq, LastReply, performing, toMaster, made, executed>>
      /\ setup.Late \/ ~up \/ (data.wire = <<>> /\ toMaster = <<>> /\ performing = <<>>)
  BY DEF Timer, TimerExpires, outstationVars, envVars
<1>4. /\ data'.queue = data.queue /\ data'.wire = data.wire /\ data'.Current = data.Current
      /\ data'.FunctionCode = data.FunctionCode /\ data'.Processing = data.Processing
      /\ data'.timer = FALSE /\ data'.gaveUp = data.gaveUp /\ data'.calls = data.calls
  BY <1>1, <1>3 DEF Fields
<1>5. Carries(data, due, C)
  BY <1>2 DEF Carried
<1>6. Carries(data', due', C)
  BY <1>3, <1>4, <1>5, Zenon DEF Carries
<1> HIDE DEF C
<1>7. Carried'
  <2>1. Stored'
    BY <1>2, <1>3, Zenon DEF Carried, Stored
  <2>2. QED
    BY <1>2, <1>3, <1>4, <1>6, <2>1, Zenon DEF Carried, C
<1>8. ASSUME ~setup'.Late
      PROVE  /\ OneScan(data', due', toMaster', performing', LastReply', LastSeq')
             /\ ~data'.gaveUp => Kept(data', events', got', LastReply', LastSeq', made')
  <2>1. /\ OneScan(data, due, toMaster, performing, LastReply, LastSeq)
        /\ ~data.gaveUp => Kept(data, events, got, LastReply, LastSeq, made)
    BY <1>3, <1>8, Zenon DEF Unbroken
  <2>2. data'.wire = <<>> /\ toMaster' = <<>> /\ performing' = <<>>
    BY <1>2, <1>3, <1>4, <1>8 DEF Carried
  <2>3. data'.Processing /\ ~data'.timer
    BY <1>3, <1>4, <2>1, Zenon DEF OneScan
  <2>4. \A i \in DOMAIN <<>> : FALSE
    OBVIOUS
  <2>5. OneScan(data', due', toMaster', performing', LastReply', LastSeq')
    BY <2>2, <2>3, <2>4, Zenon DEF OneScan
  <2>6. ~data'.gaveUp => Kept(data', events', got', LastReply', LastSeq', made')
    BY <1>3, <1>4, <2>1, Zenon DEF Kept
  <2>7. QED
    BY <2>5, <2>6
<1>9. ASSUME setup'.Late, losses' = 0, asked' = {} PROVE Moving(events', got', toMaster', made')
  BY <1>3, <1>9, Zenon DEF Unbroken
<1>10. ASSUME ~setup'.Late, ~setup'.StandAlone
       PROVE  OneMessage(data', toMaster', performing', executed') /\ Real(data', executed')
  <2>1. OneMessage(data, toMaster, performing, executed) /\ Real(data, executed)
    BY <1>3, <1>10, Zenon DEF Unbroken
  <2>2. OneMessage(data', toMaster', performing', executed')
    <3>1. OneMessage(data', toMaster, performing, executed)
      BY <1>4, <2>1 DEF OneMessage
    <3>2. QED
      BY <1>3, <3>1, Zenon
  <2>3. Real(data', executed')
    BY <1>3, <1>4, <2>1, Zenon DEF Real
  <2>4. QED
    BY <2>2, <2>3
<1>11. QED
  BY <1>7, <1>8, <1>9, <1>10 DEF Unbroken

\* The handler of the timeout runs: nothing of the command is under way any
\* more if the connection is not late.
LEMMA TimeoutUnbroken == ASSUME IInv, Unbroken, Timeout PROVE Unbroken'
<1> DEFINE C == Commands(DigitalCommandSequenceNumber, asked)
<1>1. DOMAIN data = Fields
  BY DEF IInv, Good, Typed
<1>2. Carried
  BY DEF Unbroken
<1>3. /\ due = 1 /\ due' = 0
      /\ data' = UnprotectedSendNextMasterCommand([data EXCEPT !.Processing = FALSE], TRUE)
      /\ UNCHANGED <<setup, DigitalCommandSequenceNumber, HasBeenSet, got, up, losses, asked, Bit,
                     events, LastSeq, LastReply, performing, toMaster, made, executed>>
  BY DEF Timeout, TimeoutHandler, outstationVars, envVars
<1>4. Carries(data, 1, C) /\ C \subseteq Request
  BY <1>2, <1>3, MoreAllowed DEF Carried
<1> HIDE DEF C
<1>5. /\ Carries(data', 0, C) /\ data'.Current # NoCommand
      /\ \A lr, ls : data.wire = <<>> /\ ~data.timer => OneScan(data', 0, <<>>, <<>>, lr, ls)
      /\ \A ev, g, lr, ls, m :
            Kept(data, ev, g, lr, ls, m) /\ ~data'.gaveUp => Kept(data', ev, g, lr, ls, m)
      /\ data'.gaveUp = data.gaveUp \/ data'.gaveUp = TRUE
      /\ \A ex : data.wire = <<>> => OneMessage(data', <<>>, <<>>, ex)
      /\ \A ex : Real(data, ex) => Real(data', ex)
  BY <1>1, <1>3, <1>4, TimeoutKeeps
<1>6. Carried'
  <2>1. Stored'
    BY <1>2, <1>3, Zenon DEF Carried, Stored
  <2>2. QED
    BY <1>2, <1>3, <1>5, <2>1, Zenon DEF Carried, C
<1>7. ASSUME ~setup'.Late
      PROVE  /\ data.wire = <<>> /\ ~data.timer /\ toMaster = <<>> /\ performing = <<>>
             /\ ~data.gaveUp => Kept(data, events, got, LastReply, LastSeq, made)
  <2>1. /\ OneScan(data, due, toMaster, performing, LastReply, LastSeq)
        /\ ~data.gaveUp => Kept(data, events, got, LastReply, LastSeq, made)
    BY <1>3, <1>7, Zenon DEF Unbroken
  <2>2. QED
    BY <1>3, <2>1, Zenon DEF OneScan
<1>8. ASSUME ~setup'.Late
      PROVE  /\ OneScan(data', due', toMaster', performing', LastReply', LastSeq')
             /\ ~data'.gaveUp => Kept(data', events', got', LastReply', LastSeq', made')
  <2>1. OneScan(data', 0, <<>>, <<>>, LastReply, LastSeq)
    BY <1>5, <1>7, <1>8, Zenon
  <2>2. ~data'.gaveUp => Kept(data', events, got, LastReply, LastSeq, made)
    BY <1>5, <1>7, <1>8, Zenon
  <2>3. QED
    BY <1>3, <1>7, <1>8, <2>1, <2>2, Zenon
<1>9. ASSUME setup'.Late, losses' = 0, asked' = {} PROVE Moving(events', got', toMaster', made')
  BY <1>3, <1>9, Zenon DEF Unbroken
<1>10. ASSUME ~setup'.Late, ~setup'.StandAlone
       PROVE  OneMessage(data', toMaster', performing', executed') /\ Real(data', executed')
  <2>1. Real(data, executed)
    BY <1>3, <1>10, Zenon DEF Unbroken
  <2>2. OneMessage(data', <<>>, <<>>, executed) /\ Real(data', executed)
    BY <1>5, <1>7, <1>10, <2>1, Zenon
  <2>3. QED
    BY <1>3, <1>7, <1>10, <2>2, Zenon
<1>11. QED
  BY <1>6, <1>8, <1>9, <1>10 DEF Unbroken

\* A command or a reply is lost: the kept reply still has the changes.
LEMMA LoseUnbroken == ASSUME IInv, Unbroken, losses \in Nat, Lose PROVE Unbroken'
<1> DEFINE C == Commands(DigitalCommandSequenceNumber, asked)
           R == Replies(DigitalCommandSequenceNumber, asked)
<1>1. DOMAIN data = Fields /\ due \in {0, 1}
  BY DEF IInv, Good, Typed
<1>2. Carried
  BY DEF Unbroken
<1>3. /\ losses' = losses + 1
      /\ \/ data.wire # <<>> /\ data' = [data EXCEPT !.wire = Tail(@)] /\ toMaster' = toMaster
         \/ toMaster # <<>> /\ toMaster' = Tail(toMaster) /\ data' = data
      /\ UNCHANGED <<setup, due, DigitalCommandSequenceNumber, HasBeenSet, got, up, asked, Bit,
                     events, LastSeq, LastReply, performing, made, executed>>
  BY DEF Lose
<1>4. losses' # 0
  BY <1>3
<1>5. Carries(data, due, C) /\ toMaster \in Seq(R)
  BY <1>2 DEF Carried
<1> HIDE DEF C, R
<1>6. /\ Carries(data', due, C) /\ toMaster' \in Seq(R)
      /\ data'.Current = data.Current /\ data'.Processing = data.Processing
      /\ data'.gaveUp = data.gaveUp /\ data'.calls = data.calls /\ data'.timer = data.timer
      /\ toMaster = <<>> => toMaster' = <<>>
      /\ OneScan(data, due, toMaster, performing, LastReply, LastSeq) =>
            OneScan(data', due, toMaster', performing, LastReply, LastSeq)
      /\ OneMessage(data, toMaster, performing, executed) =>
            OneMessage(data', toMaster', performing, executed)
  <2>1. CASE data.wire # <<>> /\ data' = [data EXCEPT !.wire = Tail(@)] /\ toMaster' = toMaster
    <3>1. /\ Carries(data', due, C)
          /\ data'.Current = data.Current /\ data'.Processing = data.Processing
          /\ data'.gaveUp = data.gaveUp /\ data'.calls = data.calls /\ data'.timer = data.timer
          /\ data'.wire = Tail(data.wire)
          /\ \A back, pf, lr, ls :
                OneScan(data, due, back, pf, lr, ls) => OneScan(data', due, back, pf, lr, ls)
      BY <1>1, <1>5, <2>1, OffTheWire
    <3>2. ASSUME OneMessage(data, toMaster, performing, executed)
          PROVE  OneMessage(data', toMaster', performing, executed)
      <4>1. data.wire = <<data.Current>> /\ toMaster = <<>> /\ performing = <<>>
        BY <2>1, <3>2, Zenon DEF OneMessage
      <4>2. data'.wire = <<>>
        BY <3>1, <4>1
      <4>3. QED
        BY <2>1, <4>1, <4>2, Zenon DEF OneMessage
    <3>3. QED
      BY <1>5, <2>1, <3>1, <3>2, Zenon
  <2>2. CASE toMaster # <<>> /\ toMaster' = Tail(toMaster) /\ data' = data
    <3>1. toMaster' \in Seq(R)
      BY <1>5, <2>2
    <3>2. ASSUME OneScan(data, due, toMaster, performing, LastReply, LastSeq)
          PROVE  OneScan(data, due, toMaster', performing, LastReply, LastSeq)
      BY <1>5, <2>2, <3>2, OffTheWayBack
    <3>3. ASSUME OneMessage(data, toMaster, performing, executed)
          PROVE  OneMessage(data, toMaster', performing, executed)
      <4>1. data.wire = <<>> /\ performing = <<>> /\ Len(toMaster) = 1
        BY <2>2, <3>3, Zenon DEF OneMessage
      <4>2. toMaster' = <<>>
        BY <1>5, <2>2, <4>1
      <4>3. QED
        BY <4>1, <4>2, Zenon DEF OneMessage
    <3>4. QED
      BY <1>5, <2>2, <3>1, <3>2, <3>3, Zenon
  <2>3. QED
    BY <1>3, <2>1, <2>2
<1>7. Carried'
  <2>1. Stored'
    BY <1>2, <1>3, Zenon DEF Carried, Stored
  <2>2. QED
    BY <1>2, <1>3, <1>6, <2>1, Zenon DEF Carried, C, R
<1>8. ASSUME ~setup'.Late
      PROVE  /\ OneScan(data', due', toMaster', performing', LastReply', LastSeq')
             /\ ~data'.gaveUp => Kept(data', events', got', LastReply', LastSeq', made')
  <2>1. /\ OneScan(data, due, toMaster, performing, LastReply, LastSeq)
        /\ ~data.gaveUp => Kept(data, events, got, LastReply, LastSeq, made)
    BY <1>3, <1>8, Zenon DEF Unbroken
  <2>2. ~data'.gaveUp => Kept(data', events', got', LastReply', LastSeq', made')
    BY <1>3, <1>6, <2>1, Zenon DEF Kept
  <2>3. QED
    BY <1>3, <1>6, <2>1, <2>2, Zenon
<1>9. ASSUME ~setup'.Late, ~setup'.StandAlone
      PROVE  OneMessage(data', toMaster', performing', executed') /\ Real(data', executed')
  <2>1. OneMessage(data, toMaster, performing, executed) /\ Real(data, executed)
    BY <1>3, <1>9, Zenon DEF Unbroken
  <2>2. Real(data', executed')
    BY <1>3, <1>6, <2>1, Zenon DEF Real
  <2>3. QED
    BY <1>3, <1>6, <2>1, <2>2, Zenon
<1>10. QED
  BY <1>4, <1>7, <1>8, <1>9 DEF Unbroken

-----------------------------------------------------------------------------
(* The invariant of the link *)

\* The first state: nothing is under way.
LEMMA InitLinkInv == Init => LinkInv
<1> SUFFICES ASSUME Init PROVE LinkInv
  OBVIOUS
<1> DEFINE none == <<>>
           C == Commands(DigitalCommandSequenceNumber, asked)
           R == Replies(DigitalCommandSequenceNumber, asked)
<1>1. /\ data.queue = none /\ data.wire = none /\ data.Current = NoCommand /\ data.FunctionCode = 0
      /\ data.Processing = FALSE /\ data.timer = FALSE /\ data.gaveUp = FALSE
      /\ data.calls = [c \in Controls |-> <<>>]
      /\ due = 0 /\ HasBeenSet = FALSE /\ DigitalCommandSequenceNumber = 0 /\ got = {}
  BY DEF Init, MasterInit
<1>2. /\ events = none /\ made = 0 /\ Bit = 1 /\ LastSeq = 0 /\ LastReply = NoChange
      /\ toMaster = none /\ performing = none
      /\ up = TRUE /\ losses = 0 /\ drops = 0 /\ asked = {}
  BY DEF Init, OutstationInit
<1>3. /\ none \in Seq(C) /\ none \in Seq(R) /\ none \in Seq(Request) /\ none \in Seq(Tagged)
      /\ none \in Seq(Bits) /\ \A i \in DOMAIN none : FALSE
  OBVIOUS
<1>4. NoChange = [code |-> 14, module |-> none, events |-> none]
  BY DEF NoChange, Reply
<1>5. data.calls \in [Controls -> Seq({"SUCCESS", "UNDEFINED"})]
      /\ \A c \in Controls : \A i \in DOMAIN data.calls[c] : FALSE
  BY <1>1
<1>6. NoCommand.fn = 0
  BY DEF NoCommand
<1> HIDE DEF none, C, R
<1>7. NoChange \in Answer /\ IsScanReply(NoChange) /\ NoChange.events = none
  BY <1>3, <1>4 DEF Answer, IsScanReply
<1>8. Stored
  BY <1>2, <1>3, <1>7 DEF Stored, Bits, none
<1>9. Carries(data, due, C)
  BY <1>1, <1>3, <1>6 DEF Carries, none
<1>10. Carried
  BY <1>1, <1>2, <1>3, <1>8, <1>9 DEF Carried, none, C, R
<1>11. OneScan(data, due, toMaster, performing, LastReply, LastSeq)
  <2>1. due # 1
    BY <1>1
  <2>2. QED
    BY <1>1, <1>2, <1>3, <2>1, Zenon DEF OneScan
<1>12. 1 .. made = {}
  BY <1>2
<1>13. /\ Kept(data, events, got, LastReply, LastSeq, made)
       /\ Moving(events, got, toMaster, made)
  BY <1>12, Zenon DEF Kept, Moving
<1>14. OneMessage(data, toMaster, performing, executed) /\ Real(data, executed)
  BY <1>1, <1>2, <1>5, Zenon DEF OneMessage, Real, none
<1>15. QED
  BY <1>2, <1>10, <1>11, <1>13, <1>14 DEF LinkInv, Unbroken

\* Every step keeps it: a connection that goes down ends what is promised, and
\* one that is up cannot connect.
LEMMA NextLinkInv == IInv /\ LinkInv /\ [Next]_vars => LinkInv'
<1> SUFFICES ASSUME IInv, LinkInv, [Next]_vars PROVE LinkInv'
  OBVIOUS
<1>1. drops \in Nat /\ losses \in Nat /\ (drops = 0 => Unbroken)
  BY DEF LinkInv
<1>2. CASE Disconnect
  <2>1. drops' = drops + 1 /\ losses' = losses
    BY <1>2 DEF Disconnect
  <2>2. drops' \in Nat /\ losses' \in Nat /\ drops' # 0
    BY <1>1, <2>1
  <2>3. QED
    BY <2>2 DEF LinkInv
<1>3. CASE Connect
  <2>1. ~up /\ drops' = drops /\ losses' = losses
    BY <1>3 DEF Connect
  <2>2. drops # 0
    BY <1>1, <2>1 DEF Unbroken, Carried
  <2>3. QED
    BY <1>1, <2>1, <2>2 DEF LinkInv
<1>4. CASE Lose
  <2>1. drops' = drops /\ losses' \in Nat
    BY <1>1, <1>4 DEF Lose
  <2>2. drops = 0 => Unbroken'
    BY <1>1, <1>4, LoseUnbroken
  <2>3. QED
    BY <1>1, <2>1, <2>2 DEF LinkInv
<1>5. CASE Poll \/ (\E c \in Controls : Ask(c)) \/ (\E bit \in Bits : Change(bit))
           \/ CommandArrives \/ ReplyArrives \/ ControlPerformed \/ Timer \/ Timeout
  <2>1. drops' = drops /\ losses' = losses
    BY <1>5 DEF Poll, Ask, Change, CommandArrives, ReplyArrives, ControlPerformed, Timer, Timeout, envVars
  <2>2. Unbroken => Unbroken'
    BY <1>5, PollUnbroken, AskUnbroken, ChangeUnbroken, ScanUnbroken, ControlUnbroken,
       ReplyUnbroken, PerformedUnbroken, TimerUnbroken, TimeoutUnbroken
  <2>3. QED
    BY <1>1, <2>1, <2>2 DEF LinkInv
<1>6. CASE QualityPosted \/ UNCHANGED vars
  <2>1. UNCHANGED <<setup, data, due, DigitalCommandSequenceNumber, HasBeenSet, got, up, losses, drops,
                    asked, Bit, events, LastSeq, LastReply, performing, toMaster, made, executed>>
    BY <1>6 DEF QualityPosted, CommsLost, vars, masterVars, outstationVars, envVars
  <2>2. Carried => Carried'
    <3>1. Stored => Stored'
      BY <2>1, Zenon DEF Stored
    <3>2. QED
      BY <2>1, <3>1, Zenon DEF Carried
  <2>3. Unbroken => Unbroken'
    BY <2>1, <2>2, Zenon DEF Unbroken
  <2>4. QED
    BY <1>1, <2>1, <2>3 DEF LinkInv
<1>7. QED
  BY <1>2, <1>3, <1>4, <1>5, <1>6 DEF Next

\* What is under way is as LinkInv says in every state.
LEMMA LinkInvHolds == Spec => []LinkInv
BY InitLinkInv, NextLinkInv, IInvHolds, PTL DEF Spec

\* AddToDigitalEvents to ProcessDigitalScan: repeating a scan with its sequence
\* number, and keeping the outstation's last reply for it, loses no tagged
\* change, for any number of polls, changes, losses, retries and controls.
THEOREM Spec_NoEventLost == Spec => []NoEventLost
<1>1. LinkInv => NoEventLost
  <2> SUFFICES ASSUME LinkInv, drops = 0, Bearable, ~data.gaveUp, NEW id \in 1 .. made
               PROVE  \/ id \in Ids(events) \cup got
                      \/ \E i \in DOMAIN toMaster : id \in Ids(toMaster[i].events)
                      \/ id \in Ids(LastReply.events) /\ data.Processing /\ data.Current.seq = LastSeq
    BY DEF NoEventLost
  <2>1. Unbroken /\ (setup.Late => losses = 0 /\ asked = {})
    BY DEF LinkInv, Bearable
  <2>2. CASE ~setup.Late
    BY <2>1, <2>2, Zenon DEF Unbroken, Kept
  <2>3. CASE setup.Late
    BY <2>1, <2>3, Zenon DEF Unbroken, Moving
  <2>4. QED
    BY <2>2, <2>3
<1>2. QED
  BY <1>1, LinkInvHolds, PTL

\* DoPOMControl to ProcessMD3Message: the callback of a control is told SUCCESS
\* only after the outstation has published that control, since one message at
\* most is under way and it belongs to the command in flight.
THEOREM Spec_SuccessIsReal == Spec => []SuccessIsReal
<1>1. LinkInv => SuccessIsReal
  BY DEF LinkInv, Unbroken, Real, SuccessIsReal
<1>2. QED
  BY <1>1, LinkInvHolds, PTL

-----------------------------------------------------------------------------
(* Agreement.  The words of a reply, and what the outstation has not said  *)

\* Under way, in the queue and in the kept reply there is no overflow flag as
\* long as every change was queued.
NoOverflow == setup.Tagged /\ made = changes
Plain(ev) == \A i \in DOMAIN ev : ev[i].id > 0

\* The last word the outstation has yet to say, or has said last, is the value b.
Fresh(ev, r, b) ==
    /\ Plain(ev) /\ Plain(r.events)
    /\ ev # <<>> => ev[Len(ev)].bit = b
    /\ ev = <<>> /\ Words(r) # {} => LastWord(r) = b

OutInv ==
    /\ events \in Seq(Tagged) /\ Bit \in Bits /\ LastReply \in Answer /\ IsScanReply(LastReply)
    /\ LastReply.code # 11 => LastReply.module = <<>> /\ LastReply.events = <<>>
    /\ made \in Nat /\ changes \in Nat /\ made <= changes
    /\ NoOverflow => Fresh(events, LastReply, Bit)

\* The words of a reply without an overflow flag.
LEMMA PlainWords ==
    ASSUME NEW r, r.module \in Seq(Bits), r.events \in Seq(Tagged), Plain(r.events)
    PROVE  /\ Words(r) = {} <=> r.module = <<>> /\ r.events = <<>>
           /\ r.events = <<>> => LastWord(r) = r.module[Len(r.module)]
           /\ r.events # <<>> => LastWord(r) = r.events[Len(r.events)].bit
<1> DEFINE ev == r.events
           n == Len(ev)
<1>1. TaggedWords(r) = DOMAIN ev
  BY DEF Plain, TaggedWords
<1>2. DOMAIN ev = 1 .. n /\ n \in Nat /\ (ev = <<>> <=> n = 0)
  OBVIOUS
<1>3. (DOMAIN r.module = {} <=> r.module = <<>>) /\ (DOMAIN ev = {} <=> ev = <<>>)
  <2> SUFFICES ASSUME NEW T, NEW s \in Seq(T) PROVE DOMAIN s = {} <=> s = <<>>
    BY Zenon
  <2>1. DOMAIN s = 1 .. Len(s) /\ Len(s) \in Nat /\ (s = <<>> <=> Len(s) = 0)
    OBVIOUS
  <2>2. CASE Len(s) = 0
    <3>1. 1 .. Len(s) = {}
      BY <2>2
    <3> QED
      BY <2>1, <2>2, <3>1, Zenon
  <2>3. CASE Len(s) # 0
    <3>1. 1 \in 1 .. Len(s)
      BY <2>1, <2>3
    <3> QED
      BY <2>1, <2>3, <3>1, Zenon
  <2> QED
    BY <2>2, <2>3
<1>4. Words(r) = {} <=> r.module = <<>> /\ ev = <<>>
  <2>1. Words(r) = {} <=> DOMAIN r.module = {} /\ DOMAIN ev = {}
    BY <1>1, Zenon DEF Words
  <2> QED
    BY <1>3, <2>1, Zenon
<1>5. ev = <<>> => LastWord(r) = r.module[Len(r.module)]
  BY <1>1, <1>2 DEF LastWord
<1>6. ASSUME ev # <<>> PROVE LastWord(r) = ev[n].bit
  <2> DEFINE S == 1 .. n
             k == CHOOSE i \in S : \A j \in S : j <= i
  <2>1. n \in S /\ \A j \in S : j <= n
    BY <1>2, <1>6
  <2>2. k \in S /\ \A j \in S : j <= k
    BY <2>1
  <2>3. k = n
    BY <1>2, <2>1, <2>2
  <2>4. TaggedWords(r) = S /\ S # {}
    BY <1>1, <1>2, <2>1
  <2>5. LastWord(r) = ev[k].bit
    <3> HIDE DEF S
    <3> QED
      BY <2>4, Zenon DEF LastWord
  <2> QED
    BY <2>3, <2>5, Zenon
<1> QED
  BY <1>4, <1>5, <1>6

\* A scan's reply takes the first n events; what it leaves ends with the value,
\* or else the reply does.
LEMMA SplitFresh ==
    ASSUME NEW ev \in Seq(Tagged), NEW b \in Bits, Plain(ev), ev # <<>> => ev[Len(ev)].bit = b,
           NEW n \in 0 .. Len(ev), NEW m \in {<<>>, <<b>>}, NEW r,
           r.module = m, r.events = SubSeq(ev, 1, n)
    PROVE  LET rest == SubSeq(ev, n + 1, Len(ev)) IN
           /\ Fresh(rest, r, b)
           /\ m = <<b>> => Words(r) # {}
           /\ rest = <<>> /\ ev # <<>> => Words(r) # {}
<1> DEFINE l == Len(ev)
           a == SubSeq(ev, 1, n)
           rest == SubSeq(ev, n + 1, l)
<1>1. /\ l \in Nat /\ n \in Nat /\ n <= l /\ (ev = <<>> <=> l = 0) /\ DOMAIN ev = 1 .. l
      /\ \A i \in 1 .. l : ev[i] \in Tagged
  OBVIOUS
<1>2. /\ a \in Seq(Tagged) /\ Len(a) = n /\ DOMAIN a = 1 .. n /\ \A i \in 1 .. n : a[i] = ev[i]
  OBVIOUS
<1>3. /\ rest \in Seq(Tagged) /\ Len(rest) = l - n /\ DOMAIN rest = 1 .. l - n
      /\ \A i \in 1 .. l - n : rest[i] = ev[n + i]
  <2> DEFINE k == n + 1
  <2>1. k \in 1 .. l + 1 /\ l - k + 1 = l - n /\ \A i \in 1 .. l - n : k + i - 1 = n + i
    BY <1>1
  <2> HIDE DEF k
  <2>2. /\ SubSeq(ev, k, l) \in Seq(Tagged) /\ Len(SubSeq(ev, k, l)) = l - k + 1
        /\ DOMAIN SubSeq(ev, k, l) = 1 .. l - k + 1
        /\ \A i \in 1 .. l - k + 1 : SubSeq(ev, k, l)[i] = ev[k + i - 1]
    BY <1>1, <2>1
  <2> QED
    BY <2>1, <2>2 DEF k
<1> HIDE DEF a, rest
<1>4. Plain(a) /\ Plain(rest)
  <2>1. \A i \in 1 .. n : i \in 1 .. l
    BY <1>1
  <2>2. \A i \in 1 .. l - n : n + i \in 1 .. l
    BY <1>1
  <2> QED
    BY <1>1, <1>2, <1>3, <2>1, <2>2, Zenon DEF Plain
<1>5. r.module \in Seq(Bits) /\ r.events = a /\ r.events \in Seq(Tagged)
  <2>1. <<>> \in Seq(Bits) /\ <<b>> \in Seq(Bits)
    OBVIOUS
  <2> QED
    BY <1>2, <2>1, Zenon DEF a
<1>6. /\ Words(r) = {} <=> m = <<>> /\ a = <<>>
      /\ a = <<>> => LastWord(r) = m[Len(m)]
      /\ a # <<>> => LastWord(r) = a[Len(a)].bit
  BY <1>4, <1>5, PlainWords
<1>7. /\ a = <<>> <=> n = 0
      /\ rest = <<>> <=> n = l
  BY <1>1, <1>2, <1>3
<1>8. rest # <<>> => rest[Len(rest)].bit = b
  <2> SUFFICES ASSUME rest # <<>> PROVE rest[Len(rest)].bit = b
    OBVIOUS
  <2>0. n # l
    BY <1>7, Zenon
  <2>1. l - n \in 1 .. l - n /\ n + (l - n) = l /\ l # 0
    <3>1. l \in Nat /\ n \in Nat /\ n <= l /\ n # l
      BY <1>1, <2>0, Zenon
    <3> HIDE DEF l
    <3> QED
      BY <3>1
  <2>2. rest[l - n] = ev[l]
    BY <1>3, <2>1
  <2> QED
    BY <1>1, <1>3, <2>1, <2>2
<1>9. rest = <<>> /\ Words(r) # {} => LastWord(r) = b
  <2>1. CASE n = 0
    BY <1>6, <1>7, <2>1
  <2>2. CASE n # 0 /\ n = l
    <3>1. n \in 1 .. n /\ a[n] = ev[l]
      BY <1>1, <1>2, <2>2
    <3> QED
      BY <1>1, <1>2, <1>6, <1>7, <2>2, <3>1
  <2> QED
    BY <1>7, <2>1, <2>2
<1>10. Fresh(rest, r, b)
  BY <1>4, <1>5, <1>8, <1>9 DEF Fresh
<1>11. (m = <<b>> => Words(r) # {}) /\ (rest = <<>> /\ ev # <<>> => Words(r) # {})
  <2>1. <<b>> # <<>>
    OBVIOUS
  <2>2. ev # <<>> => l # 0
    BY <1>1, Zenon
  <2> QED
    BY <1>6, <1>7, <2>1, <2>2, Zenon
<1> QED
  BY <1>10, <1>11 DEF rest

\* The outstation answers a scan: with the last reply again, with one that has
\* words, with one that leaves events, or because there is nothing to say.
LEMMA ScanFresh ==
    ASSUME OutInv, NEW h, ResendScan(h) \/ DoDigitalScan(h) \/ DoDigitalUnconditional(h)
    PROVE  /\ toMaster' = Append(toMaster, LastReply') /\ Bit' = Bit
           /\ events' \in Seq(Tagged) /\ LastReply' \in Answer /\ IsScanReply(LastReply')
           /\ LastReply'.code # 11 => LastReply'.module = <<>> /\ LastReply'.events = <<>>
           /\ NoOverflow =>
                /\ Fresh(events', LastReply', Bit)
                /\ \/ LastReply' = LastReply /\ LastSeq' = LastSeq /\ events' = events /\ Changed' = Changed
                      /\ h.seq = LastSeq /\ h.seq # 0
                   \/ /\ LastSeq' = h.seq
                      /\ h.seq = 0 => Words(LastReply') # {}
                      /\ \/ Words(LastReply') # {}
                         \/ events' # <<>> /\ events # <<>>
                         \/ events = <<>> /\ ~Changed /\ h.seq # LastSeq /\ events' = <<>>
<1> USE DEF OutInv
<1>0. <<Bit>> \in Seq(Bits) /\ <<>> \in Seq(Bits) /\ <<>> \in Seq(Tagged)
  OBVIOUS
<1>1. CASE ResendScan(h)
  BY <1>1 DEF ResendScan
<1>2. CASE DoDigitalUnconditional(h)
  <2> DEFINE x == [code |-> 11, module |-> <<Bit>>, events |-> <<>>]
  <2>1. /\ toMaster' = Append(toMaster, x) /\ LastSeq' = h.seq /\ LastReply' = x
        /\ Bit' = Bit /\ events' = events
    BY <1>2 DEF DoDigitalUnconditional, SendAndKeep, Reply
  <2>2. /\ x \in Answer /\ IsScanReply(x) /\ x.code = 11 /\ x.module = <<Bit>> /\ x.events = <<>>
    BY <1>0 DEF Answer, IsScanReply
  <2> HIDE DEF x
  <2>3. ASSUME NoOverflow PROVE Fresh(events, x, Bit) /\ Words(x) # {}
    <3>1. /\ 0 \in 0 .. Len(events) /\ SubSeq(events, 1, 0) = <<>>
          /\ SubSeq(events, 0 + 1, Len(events)) = events
      OBVIOUS
    <3>2. Plain(events) /\ (events # <<>> => events[Len(events)].bit = Bit)
      BY <2>3 DEF Fresh
    <3>3. LET rest == SubSeq(events, 0 + 1, Len(events)) IN
           /\ Fresh(rest, x, Bit)
           /\ <<Bit>> = <<Bit>> => Words(x) # {}
           /\ rest = <<>> /\ events # <<>> => Words(x) # {}
      BY <2>2, <3>1, <3>2, SplitFresh
    <3> QED
      BY <3>1, <3>3, Zenon
  <2> QED
    BY <2>1, <2>2, <2>3
<1>3. CASE DoDigitalScan(h)
  <2> DEFINE changed == Changed \/ h.seq = 0
             m == IF changed THEN <<Bit>> ELSE <<>>
             code == IF ~changed /\ events = <<>> THEN 14 ELSE 11
             Made(n) == IF ~changed /\ events = <<>> THEN NoChange
                        ELSE Reply(11, IF changed THEN <<Bit>> ELSE <<>>, SubSeq(events, 1, n))
  <2>1. PICK n \in Taken(h.tagged) :
          /\ SendAndKeep(h.seq, Made(n)) /\ events' = SubSeq(events, n + 1, Len(events))
    BY <1>3 DEF DoDigitalScan
  <2>2. n \in 0 .. Len(events) /\ Bit' = Bit /\ (h.seq # LastSeq \/ h.seq = 0)
    BY <1>3, <2>1 DEF DoDigitalScan, Taken
  <2> DEFINE a == SubSeq(events, 1, n)
             rest == SubSeq(events, n + 1, Len(events))
             x == [code |-> code, module |-> m, events |-> a]
  <2>3. a \in Seq(Tagged) /\ rest \in Seq(Tagged)
    BY <2>2, Divided
  <2>4. Made(n) = x
    <3>1. CASE ~changed /\ events = <<>>
      <4>1. a = <<>>
        BY <2>2, <3>1
      <4> QED
        BY <3>1, <4>1 DEF NoChange, Reply
    <3>2. CASE ~(~changed /\ events = <<>>)
      BY <3>2 DEF Reply
    <3> QED
      BY <3>1, <3>2
  <2>5. /\ toMaster' = Append(toMaster, x) /\ LastSeq' = h.seq /\ LastReply' = x /\ events' = rest
    BY <2>1, <2>4 DEF SendAndKeep
  <2>6. m \in {<<>>, <<Bit>>} /\ m \in Seq(Bits) /\ code \in {11, 14}
        /\ (code = 14 => ~changed /\ events = <<>> /\ m = <<>> /\ a = <<>>)
        /\ (changed => m = <<Bit>>) /\ (~changed => m = <<>> /\ h.seq # 0 /\ ~Changed)
    <3>1. code = 14 => ~changed /\ events = <<>> /\ m = <<>>
      OBVIOUS
    <3>2. events = <<>> => a = <<>>
      BY <2>2
    <3> QED
      BY <1>0, <3>1, <3>2
  <2>7. events = <<>> => rest = <<>>
    BY <2>2
  <2> HIDE DEF a, rest, m, code, Made, changed
  <2>8. /\ x \in Answer /\ IsScanReply(x) /\ x.module = m /\ x.events = a /\ x.code = code
    BY <2>3, <2>6 DEF Answer, IsScanReply
  <2> HIDE DEF x
  <2>9. ASSUME NoOverflow
        PROVE  /\ Fresh(rest, x, Bit)
               /\ m = <<Bit>> => Words(x) # {}
               /\ rest = <<>> /\ events # <<>> => Words(x) # {}
    <3>1. Plain(events) /\ (events # <<>> => events[Len(events)].bit = Bit)
      BY <2>9 DEF Fresh
    <3>2. LET y == SubSeq(events, n + 1, Len(events)) IN
           /\ Fresh(y, x, Bit)
           /\ m = <<Bit>> => Words(x) # {}
           /\ y = <<>> /\ events # <<>> => Words(x) # {}
      BY <2>2, <2>6, <2>8, <3>1, SplitFresh DEF a
    <3> QED
      BY <3>2, Zenon DEF rest
  <2>10. x.code # 11 => x.module = <<>> /\ x.events = <<>>
    BY <2>6, <2>8
  <2>11. ASSUME NoOverflow
         PROVE  /\ h.seq = 0 => Words(x) # {}
                /\ \/ Words(x) # {}
                   \/ rest # <<>> /\ events # <<>>
                   \/ events = <<>> /\ ~Changed /\ h.seq # LastSeq /\ rest = <<>>
    BY <2>2, <2>6, <2>7, <2>9, <2>11, Zenon
  <2> QED
    BY <2>2, <2>3, <2>5, <2>8, <2>9, <2>10, <2>11, Zenon
<1> QED
  BY <1>1, <1>2, <1>3

LEMMA InitOutInv == Init => OutInv
<1> SUFFICES ASSUME Init PROVE OutInv
  OBVIOUS
<1> DEFINE none == <<>>
<1>1. /\ events = none /\ Bit = 1 /\ made = 0 /\ changes = 0
      /\ LastReply = [code |-> 14, module |-> none, events |-> none]
  BY DEF Init, OutstationInit, NoChange, Reply
<1>2. none \in Seq(Bits) /\ none \in Seq(Tagged) /\ DOMAIN none = {}
  OBVIOUS
<1> HIDE DEF none
<1>3. LastReply \in Answer /\ LastReply.module = none /\ LastReply.events = none /\ LastReply.code = 14
  BY <1>1, <1>2 DEF Answer
<1>4. Plain(none) /\ Words(LastReply) = {}
  BY <1>2, <1>3 DEF Plain, Words, TaggedWords
<1>5. Fresh(events, LastReply, Bit)
  BY <1>1, <1>3, <1>4 DEF Fresh, none
<1> QED
  BY <1>1, <1>2, <1>3, <1>5 DEF OutInv, IsScanReply, Bits, none

\* A change of the point that is not lost in the queue is its newest event.
LEMMA ChangeFresh ==
    ASSUME OutInv, NEW bit \in Bits, Change(bit)
    PROVE  OutInv' /\ (NoOverflow' => NoOverflow /\ events' # <<>>)
<1> USE DEF OutInv
<1>1. /\ Bit' = bit /\ changes' = changes + 1 /\ UNCHANGED <<setup, LastReply>>
      /\ IF setup.Tagged THEN AddToDigitalEvents(bit) ELSE UNCHANGED <<events, made>>
  BY DEF Change, BinaryEvent
<1> DEFINE x == [id |-> made + 1, bit |-> bit]
           o == [id |-> 0, bit |-> 0]
<1>2. x \in Tagged /\ o \in Tagged /\ x.id > 0 /\ x.bit = bit
  BY DEF Tagged, Bits
<1>3. ASSUME setup.Tagged
      PROVE  \/ events' = Append(events, x) /\ made' = made + 1
             \/ events' \in {events, Append(events, o)} /\ made' = made
  BY <1>1, <1>3 DEF AddToDigitalEvents, OverFlowMarker
<1> HIDE DEF x, o
<1>4. events' \in Seq(Tagged) /\ made' \in Nat /\ changes' \in Nat /\ made' <= changes'
  <2>1. Append(events, x) \in Seq(Tagged) /\ Append(events, o) \in Seq(Tagged)
    BY <1>2
  <2>2. events' \in Seq(Tagged) /\ made' \in {made, made + 1}
    BY <1>1, <1>3, <2>1, Zenon
  <2> QED
    BY <1>1, <2>2
<1>5. ASSUME NoOverflow'
      PROVE  NoOverflow /\ events' # <<>> /\ Fresh(events', LastReply, bit)
  <2>1. setup.Tagged /\ made' = changes'
    BY <1>1, <1>5 DEF NoOverflow
  <2>2. events' = Append(events, x) /\ made' = made + 1
    BY <1>1, <1>3, <2>1
  <2>3. NoOverflow
    BY <1>1, <2>1, <2>2 DEF NoOverflow
  <2>4. Fresh(events, LastReply, Bit)
    BY <2>3
  <2>5. /\ events' # <<>> /\ Len(events') = Len(events) + 1 /\ events'[Len(events) + 1] = x
        /\ \A i \in DOMAIN events' : (i \in DOMAIN events /\ events'[i] = events[i]) \/ i = Len(events) + 1
    BY <2>2
  <2>6. Plain(events')
    <3> SUFFICES ASSUME NEW i \in DOMAIN events' PROVE events'[i].id > 0
      BY DEF Plain
    <3>1. CASE i \in DOMAIN events /\ events'[i] = events[i]
      BY <2>4, <3>1 DEF Fresh, Plain
    <3>2. CASE i = Len(events) + 1
      BY <1>2, <2>5, <3>2
    <3> QED
      BY <2>5, <3>1, <3>2
  <2> QED
    BY <1>2, <2>3, <2>4, <2>5, <2>6 DEF Fresh
<1> QED
  BY <1>1, <1>4, <1>5, Zenon DEF IsScanReply

\* A command arrives: the outstation answers a scan, or it is a control.
LEMMA ArrivalCases ==
    ASSUME CommandArrives
    PROVE  /\ up /\ data.wire # <<>> /\ data' = [data EXCEPT !.wire = Tail(@)]
           /\ UNCHANGED <<setup, due, DigitalCommandSequenceNumber, Binary, HasBeenSet, envVars, made>>
           /\ LET h == Head(data.wire) IN
              \/ /\ IsScan(h) /\ UNCHANGED <<performing, executed>>
                 /\ ResendScan(h) \/ DoDigitalScan(h) \/ DoDigitalUnconditional(h)
              \/ /\ ~IsScan(h) /\ h.fn = 17
                 /\ UNCHANGED <<Bit, Changed, events, LastSeq, LastReply>>
<1>1. OutstationProcessMD3Message(Head(data.wire), setup.StandAlone)
  BY DEF CommandArrives
<1> QED
  BY <1>1 DEF CommandArrives, OutstationProcessMD3Message, DoPOMControl, IsScan

LEMMA NextOutInv == ASSUME OutInv, [Next]_vars PROVE OutInv'
<1>1. ASSUME NEW bit \in Bits, Change(bit) PROVE OutInv'
  BY <1>1, ChangeFresh
<1>2. CASE UNCHANGED <<setup, Bit, events, LastReply, made, changes>>
  BY <1>2, Zenon DEF OutInv, NoOverflow
<1>3. CASE CommandArrives
  <2> DEFINE h == Head(data.wire)
  <2>1. UNCHANGED <<setup, made, changes>>
    BY <1>3, ArrivalCases DEF envVars
  <2>2. CASE UNCHANGED <<Bit, events, LastReply>>
    BY <1>2, <2>1, <2>2
  <2>3. CASE ResendScan(h) \/ DoDigitalScan(h) \/ DoDigitalUnconditional(h)
    <3>1. /\ Bit' = Bit /\ events' \in Seq(Tagged) /\ LastReply' \in Answer /\ IsScanReply(LastReply')
          /\ LastReply'.code # 11 => LastReply'.module = <<>> /\ LastReply'.events = <<>>
          /\ NoOverflow => Fresh(events', LastReply', Bit)
      BY <2>3, ScanFresh
    <3> QED
      BY <2>1, <3>1, Zenon DEF OutInv, NoOverflow, IsScanReply
  <2> QED
    BY <1>3, <2>2, <2>3, ArrivalCases
<1> QED
  BY <1>1, <1>2, <1>3
     DEF Next, vars, masterVars, outstationVars, envVars, Poll, Ask, ReplyArrives, ControlPerformed,
         Performed, Timer, Timeout, QualityPosted, Lose, Disconnect, Connect

-----------------------------------------------------------------------------
(* Agreement on a connection that is neither late nor went down: it may    *)
(* lose messages, since what the kept reply says is repeated               *)

\* The master has the value b, or the reply kept for the scan in flight ends with it.
Told(d, r, ls, b, set, bin) ==
    \/ set /\ bin = b
    \/ d.Processing /\ IsScan(d.Current) /\ d.Current.seq = ls /\ Words(r) # {} /\ LastWord(r) = b

TightInv ==
    ~setup.Late /\ drops = 0 /\ NoOverflow /\ events = <<>> /\ ~Changed /\ ~data.gaveUp
      => Told(data, LastReply, LastSeq, Bit, HasBeenSet, Binary)

\* Queueing a command leaves the one in flight alone.
LEMMA QueueBeside ==
    ASSUME NEW d, DOMAIN d = Fields, d.Processing \in BOOLEAN, NEW c
    PROVE  LET e == QueueMD3Command(d, c) IN
           /\ DOMAIN e = Fields /\ e.Processing \in BOOLEAN /\ e.gaveUp = d.gaveUp
           /\ d.Processing => /\ e.Processing /\ e.Current = d.Current /\ e.wire = d.wire
                              /\ e.FunctionCode = d.FunctionCode
<1> DEFINE e == QueueMD3Command(d, c)
<1>1. PICK q : Beside(d, q) /\ (e = q \/ (d.Processing = FALSE /\ Started(q, e)))
  BY QueueShape
<1> HIDE DEF e
<1>2. CASE e = q
  BY <1>1, <1>2 DEF Beside, e
<1>3. CASE d.Processing = FALSE /\ Started(q, e)
  BY <1>1, <1>3 DEF Beside, Started, e
<1> QED
  BY <1>1, <1>2, <1>3

\* So does the end of one, but for what it starts.
LEMMA SuccessBeside ==
    ASSUME NEW d, DOMAIN d = Fields
    PROVE  Succeeded(d).gaveUp = d.gaveUp /\ DOMAIN Succeeded(d) = Fields
<1>1. PICK r : r.gaveUp = d.gaveUp /\ DOMAIN r = Fields /\ (Succeeded(d) = r \/ Started(r, Succeeded(d)))
  BY SucceededShape
<1> QED
  BY <1>1 DEF Started

\* What the arrival of a reply does to the master.
LEMMA ReplyEffect ==
    ASSUME IInv, ReplyArrives
    PROVE  LET h == Head(toMaster)
               answered == Expected(data.FunctionCode, h.code) IN
           /\ toMaster # <<>> /\ toMaster' = Tail(toMaster)
           /\ UNCHANGED <<setup, due, Bit, Changed, events, LastSeq, LastReply, performing, made,
                          executed, envVars>>
           /\ ~answered => data' = data
           /\ data'.gaveUp = data.gaveUp
           /\ IF answered /\ h.code = 11 /\ Words(h) # {}
              THEN HasBeenSet' = TRUE /\ Binary' = LastWord(h)
              ELSE HasBeenSet' = HasBeenSet /\ Binary' = Binary
<1> DEFINE h == Head(toMaster)
           answered == Expected(data.FunctionCode, h.code)
           more == answered /\ h.code = 11 /\ data.FunctionCode = 11
           q == IF more THEN QueueMD3Command(data, Scan(11, MostEvents)) ELSE data
<1>1. /\ toMaster # <<>> /\ toMaster' = Tail(toMaster)
      /\ UNCHANGED <<setup, due, Bit, Changed, events, LastSeq, LastReply, performing, made,
                     executed, envVars>>
      /\ ProcessMD3Message(h)
  BY DEF ReplyArrives, ProcessMD3Message
<1>2. data' = IF answered THEN Succeeded(q) ELSE data
  BY <1>1 DEF ProcessMD3Message
<1>3. IF answered /\ h.code = 11 THEN GenerateODCEvents(h)
      ELSE UNCHANGED <<Binary, HasBeenSet>>
  BY <1>1 DEF ProcessMD3Message, ProcessDigitalScan
<1>4. DOMAIN data = Fields /\ data.Processing \in BOOLEAN
  BY DEF IInv, Good, Typed
<1>5. DOMAIN q = Fields /\ q.gaveUp = data.gaveUp
  <2>1. CASE more
    BY <1>4, <2>1, QueueBeside
  <2>2. CASE ~more
    BY <1>4, <2>2
  <2> QED
    BY <2>1, <2>2
<1>6. data'.gaveUp = data.gaveUp
  <2> HIDE DEF q
  <2> QED
    BY <1>2, <1>5, SuccessBeside
<1>7. IF answered /\ h.code = 11 /\ Words(h) # {}
      THEN HasBeenSet' = TRUE /\ Binary' = LastWord(h)
      ELSE HasBeenSet' = HasBeenSet /\ Binary' = Binary
  BY <1>3 DEF GenerateODCEvents
<1> QED
  BY <1>1, <1>2, <1>6, <1>7

\* A message that only repeats, or ends, a command.
LEMMA TimeoutBeside ==
    ASSUME IInv, TimeoutHandler, ~data'.gaveUp
    PROVE  /\ ~data.gaveUp /\ data'.Processing /\ data'.Current = data.Current
           /\ data'.FunctionCode = data.FunctionCode /\ data'.queue = data.queue
           /\ data'.wire = Append(data.wire, data.Current)
<1>1. DOMAIN data = Fields /\ data' = UnprotectedSendNextMasterCommand([data EXCEPT !.Processing = FALSE], TRUE)
  BY DEF IInv, Good, Typed, TimeoutHandler
<1>2. \/ /\ DOMAIN data' = Fields /\ data'.Processing = TRUE /\ data'.timer = TRUE
         /\ data'.Current = data.Current /\ data'.FunctionCode = data.FunctionCode /\ data'.queue = data.queue
         /\ data'.wire = Append(data.wire, data.Current) /\ data'.calls = data.calls /\ data'.gaveUp = data.gaveUp
      \/ \E r : /\ DOMAIN r = Fields /\ r.gaveUp = TRUE
                /\ (data' = r \/ Started(r, data'))
  <2> HIDE DEF Started
  <2> QED
    BY <1>1, TimeoutShape
<1>3. ASSUME NEW r, r.gaveUp = TRUE, data' = r \/ Started(r, data') PROVE FALSE
  BY <1>3 DEF Started
<1> QED
  BY <1>2, <1>3

LEMMA InitTight == Init => TightInv
<1>1. Init => Changed
  BY DEF Init, OutstationInit
<1> QED
  BY <1>1 DEF TightInv

LEMMA NextTight == ASSUME IInv, LinkInv, OutInv, TightInv, [Next]_vars PROVE TightInv'
<1> SUFFICES ASSUME ~setup'.Late, drops' = 0, NoOverflow', events' = <<>>, ~Changed', ~data'.gaveUp
             PROVE  Told(data', LastReply', LastSeq', Bit', HasBeenSet', Binary')
  BY DEF TightInv
<1>0. DOMAIN data = Fields /\ data.Processing \in BOOLEAN
  BY DEF IInv, Good, Typed
\* Nothing that matters changes.
<1>1. ASSUME UNCHANGED <<setup, drops, made, changes, events, Changed, Bit, LastReply, LastSeq,
                         HasBeenSet, Binary>>,
             ~data.gaveUp,
             data.Processing => data'.Processing /\ data'.Current = data.Current
      PROVE  Told(data', LastReply', LastSeq', Bit', HasBeenSet', Binary')
  <2>1. Told(data, LastReply, LastSeq, Bit, HasBeenSet, Binary)
    BY <1>1 DEF TightInv, NoOverflow
  <2> QED
    BY <1>1, <2>1, Zenon DEF Told
<1>2. ASSUME drops = 0 PROVE Unbroken
  BY <1>2 DEF LinkInv
<1>3. CASE Poll
  <2>1. PICK c : data' = QueueMD3Command(data, c)
    BY <1>3 DEF Poll, DoPoll
  <2>2. data'.gaveUp = data.gaveUp /\ (data.Processing => data'.Processing /\ data'.Current = data.Current)
    BY <1>0, <2>1, QueueBeside
  <2>3. UNCHANGED <<setup, drops, made, changes, events, Changed, Bit, LastReply, LastSeq,
                    HasBeenSet, Binary>>
    BY <1>3 DEF Poll, DoPoll, outstationVars
  <2> QED
    BY <1>1, <2>2, <2>3
<1>4. ASSUME NEW c \in Controls, Ask(c) PROVE Told(data', LastReply', LastSeq', Bit', HasBeenSet', Binary')
  <2>1. \/ \E x : data' = QueueMD3Command(data, x)
        \/ data' = [data EXCEPT !.calls = Called(@, c, "UNDEFINED")]
    BY <1>4 DEF Ask, Event
  <2>2. data'.gaveUp = data.gaveUp /\ (data.Processing => data'.Processing /\ data'.Current = data.Current)
    <3>1. ASSUME NEW x, data' = QueueMD3Command(data, x)
          PROVE  data'.gaveUp = data.gaveUp /\ (data.Processing => data'.Processing /\ data'.Current = data.Current)
      BY <1>0, <3>1, QueueBeside
    <3>2. CASE data' = [data EXCEPT !.calls = Called(@, c, "UNDEFINED")]
      BY <1>0, <3>2 DEF Fields
    <3> QED
      BY <2>1, <3>1, <3>2
  <2>3. UNCHANGED <<setup, drops, made, changes, events, Changed, Bit, LastReply, LastSeq,
                    HasBeenSet, Binary>>
    BY <1>4 DEF Ask, Event, outstationVars
  <2> QED
    BY <1>1, <2>2, <2>3
<1>5. ASSUME NEW bit \in Bits, Change(bit) PROVE FALSE
  BY <1>5, ChangeFresh
<1>6. CASE CommandArrives
  <2> DEFINE h == Head(data.wire)
  <2>1. /\ data.wire # <<>> /\ data' = [data EXCEPT !.wire = Tail(@)]
        /\ UNCHANGED <<setup, Binary, HasBeenSet, drops, changes, made>>
    BY <1>6, ArrivalCases DEF envVars
  <2>2. data'.gaveUp = data.gaveUp /\ data'.Processing = data.Processing /\ data'.Current = data.Current
    BY <1>0, <2>1 DEF Fields
  <2>3. CASE UNCHANGED <<Bit, Changed, events, LastSeq, LastReply>>
    BY <1>1, <2>1, <2>2, <2>3
  <2>4. CASE IsScan(h) /\ (ResendScan(h) \/ DoDigitalScan(h) \/ DoDigitalUnconditional(h))
    <3>0. NoOverflow
      BY <2>1 DEF NoOverflow
    <3>1. /\ Bit' = Bit /\ Fresh(events', LastReply', Bit)
          /\ \/ /\ LastReply' = LastReply /\ LastSeq' = LastSeq /\ events' = events /\ Changed' = Changed
             \/ /\ LastSeq' = h.seq
                /\ \/ Words(LastReply') # {}
                   \/ events' # <<>> /\ events # <<>>
                   \/ events = <<>> /\ ~Changed /\ h.seq # LastSeq /\ events' = <<>>
      BY <2>4, <3>0, ScanFresh
    <3>2. data.Processing /\ data.Current = h
      <4>1. /\ Carries(data, due, Commands(DigitalCommandSequenceNumber, asked))
            /\ OneScan(data, due, toMaster, performing, LastReply, LastSeq)
            /\ due \in {0, 1}
        BY <1>2, <2>1 DEF Unbroken, Carried, IInv
      <4> DEFINE C == Commands(DigitalCommandSequenceNumber, asked)
      <4> HIDE DEF C
      <4>2. Carries(data, due, C)
        BY <4>1 DEF C
      <4>3. \A back, pf, lr, ls :
                 OneScan(data, due, back, pf, lr, ls) =>
                    (IsScan(Head(data.wire)) => data.Processing /\ data.Current = Head(data.wire))
        BY <1>0, <2>1, <4>1, <4>2, OffTheWire
      <4> QED
        BY <2>4, <4>1, <4>3, Zenon
    <3>3. CASE LastReply' = LastReply /\ LastSeq' = LastSeq /\ events' = events /\ Changed' = Changed
      BY <1>1, <2>1, <2>2, <3>1, <3>3
    <3>4. CASE LastSeq' = h.seq /\ Words(LastReply') # {}
      <4>1. LastWord(LastReply') = Bit
        BY <3>1, <3>4 DEF Fresh
      <4> QED
        BY <2>2, <2>4, <3>1, <3>2, <3>4, <4>1, Zenon DEF Told
    <3>5. CASE events = <<>> /\ ~Changed /\ h.seq # LastSeq
      <4>1. Told(data, LastReply, LastSeq, Bit, HasBeenSet, Binary)
        BY <2>1, <2>2, <3>0, <3>5 DEF TightInv
      <4>2. HasBeenSet /\ Binary = Bit
        BY <3>2, <3>5, <4>1, Zenon DEF Told
      <4> QED
        BY <2>1, <3>1, <4>2, Zenon DEF Told
    <3> QED
      BY <3>1, <3>3, <3>4, <3>5
  <2> QED
    BY <1>6, <2>3, <2>4, ArrivalCases
<1>7. CASE ReplyArrives
  <2> DEFINE h == Head(toMaster)
             answered == Expected(data.FunctionCode, h.code)
  <2>1. /\ toMaster # <<>>
        /\ UNCHANGED <<setup, drops, made, changes, events, Changed, Bit, LastReply, LastSeq>>
        /\ ~answered => data' = data
        /\ data'.gaveUp = data.gaveUp
        /\ IF answered /\ h.code = 11 /\ Words(h) # {}
           THEN HasBeenSet' = TRUE /\ Binary' = LastWord(h)
           ELSE HasBeenSet' = HasBeenSet /\ Binary' = Binary
    BY <1>7, ReplyEffect DEF envVars
  <2>2. Unbroken /\ Carried /\ OneScan(data, due, toMaster, performing, LastReply, LastSeq)
    BY <1>2, <2>1 DEF Unbroken
  <2>3. Told(data, LastReply, LastSeq, Bit, HasBeenSet, Binary) /\ Fresh(events, LastReply, Bit)
    BY <2>1 DEF TightInv, NoOverflow, OutInv
  <2>4. data.FunctionCode = data.Current.fn
    BY <2>2 DEF Carried, Carries
  <2>5. IsScanReply(h) => data.Processing /\ IsScan(data.Current) /\ h = LastReply
    <3> DEFINE S == Replies(DigitalCommandSequenceNumber, asked)
    <3>1. toMaster \in Seq(S)
      BY <2>2 DEF Carried
    <3> HIDE DEF S
    <3>2. toMaster # <<>> /\ OneScan(data, due, toMaster, performing, LastReply, LastSeq)
      BY <2>1, <2>2
    <3> DEFINE k == Head(toMaster)
    <3>3. ASSUME IsScanReply(k)
          PROVE  data.Processing /\ IsScan(data.Current) /\ k = LastReply
      BY <3>1, <3>2, <3>3, OffTheWayBack
    <3> QED
      BY <3>3
  <2> HIDE DEF h
  <2>6. CASE IsScanReply(h) /\ Words(h) # {}
    <3>1. h.code = 11
      <4>1. h = LastReply
        BY <2>5, <2>6
      <4>2. ASSUME LastReply.code # 11 PROVE FALSE
        <5>1. LastReply.module = <<>> /\ LastReply.events = <<>>
          BY <4>2 DEF OutInv
        <5>2. DOMAIN LastReply.module = {} /\ DOMAIN LastReply.events = {}
          BY <5>1
        <5>3. Words(LastReply) = {}
          BY <5>2 DEF Words, TaggedWords
        <5> QED
          BY <2>6, <4>1, <5>3
      <4> QED
        BY <4>1, <4>2
    <3>2. answered
      BY <2>4, <2>5, <2>6, <3>1 DEF Expected, IsScan
    <3>3. LastWord(h) = Bit
      BY <2>1, <2>3, <2>5, <2>6 DEF Fresh
    <3> QED
      BY <2>1, <2>6, <3>1, <3>2, <3>3 DEF Told
  <2>7. CASE IsScanReply(h) /\ Words(h) = {}
    <3>1. HasBeenSet /\ Binary = Bit
      BY <2>3, <2>5, <2>7, Zenon DEF Told
    <3> QED
      BY <2>1, <2>7, <3>1 DEF Told
  <2>8. CASE ~IsScanReply(h)
    <3>1. h.code # 11 /\ h.code # 14
      BY <2>8 DEF IsScanReply
    <3>2. IsScan(data.Current) => ~answered
      BY <2>4, <3>1 DEF Expected, IsScan
    <3> HIDE DEF answered
    <3> QED
      BY <2>1, <2>3, <3>1, <3>2, Zenon DEF Told
  <2> QED
    BY <2>6, <2>7, <2>8
<1>8. CASE Timeout
  <2>1. ~data.gaveUp /\ data'.Processing /\ data'.Current = data.Current
    BY <1>8, TimeoutBeside DEF Timeout
  <2>2. UNCHANGED <<setup, drops, made, changes, events, Changed, Bit, LastReply, LastSeq,
                    HasBeenSet, Binary>>
    BY <1>8 DEF Timeout, TimeoutHandler, outstationVars, envVars
  <2> QED
    BY <1>1, <2>1, <2>2
<1>9. CASE Timer
  <2>1. data'.gaveUp = data.gaveUp /\ data'.Processing = data.Processing /\ data'.Current = data.Current
    BY <1>0, <1>9 DEF Timer, TimerExpires, Fields
  <2>2. UNCHANGED <<setup, drops, made, changes, events, Changed, Bit, LastReply, LastSeq,
                    HasBeenSet, Binary>>
    BY <1>9 DEF Timer, TimerExpires, outstationVars, envVars
  <2> QED
    BY <1>1, <2>1, <2>2
<1>10. CASE Lose
  <2>1. data'.gaveUp = data.gaveUp /\ data'.Processing = data.Processing /\ data'.Current = data.Current
    BY <1>0, <1>10 DEF Lose, Fields
  <2>2. UNCHANGED <<setup, drops, made, changes, events, Changed, Bit, LastReply, LastSeq,
                    HasBeenSet, Binary>>
    BY <1>10 DEF Lose
  <2> QED
    BY <1>1, <2>1, <2>2
<1>11. CASE ControlPerformed \/ QualityPosted \/ UNCHANGED vars
  <2>1. UNCHANGED <<data, setup, drops, made, changes, events, Changed, Bit, LastReply, LastSeq,
                    HasBeenSet, Binary>>
    BY <1>11 DEF ControlPerformed, Performed, QualityPosted, CommsLost, vars, masterVars,
                 outstationVars, envVars
  <2> QED
    BY <1>1, <2>1
<1>12. CASE Disconnect
  <2>1. drops' = drops + 1 /\ drops \in Nat
    BY <1>12 DEF Disconnect, LinkInv
  <2> QED
    BY <2>1
<1>13. CASE Connect
  <2>1. ~up /\ drops' = drops
    BY <1>13 DEF Connect
  <2> QED
    BY <1>2, <2>1 DEF Unbroken, Carried
<1> QED
  BY <1>3, <1>4, <1>5, <1>6, <1>7, <1>8, <1>9, <1>10, <1>11, <1>12, <1>13 DEF Next

-----------------------------------------------------------------------------
(* Agreement on a connection that is late, or goes down, but carries only  *)
(* scans and loses no message while it is up                               *)

Scans == {c \in Request : IsScan(c)}
ScanReplies == {r \in Answer : IsScanReply(r) /\ (r.code # 11 => Words(r) = {})}

\* The last word under way, or else the master's point, is the value b.
Applied(back, set, bin, b) ==
    \/ set /\ bin = b /\ \A j \in DOMAIN back : Words(back[j]) = {}
    \/ \E i \in DOMAIN back : /\ Words(back[i]) # {} /\ LastWord(back[i]) = b
                              /\ \A j \in DOMAIN back : j > i => Words(back[j]) = {}
AtAll(back, set) == set \/ \E i \in DOMAIN back : Words(back[i]) # {}
Synced(back, ev, set, bin, b) == IF ev = <<>> THEN Applied(back, set, bin, b) ELSE AtAll(back, set)

\* A scan with sequence number 0, the first one after a connect, is under way.
Resyncs(w) == \E i \in DOMAIN w : IsScan(w[i]) /\ w[i].seq = 0

\* The command of an earlier connection, whose replies are not expected, blocks
\* the queue until it is given up; or the first scan is under way; or the
\* replies to it and to the later ones are.
Hears(d, back, ev, set, bin, b) ==
    \/ d.FunctionCode = 0 /\ d.Processing
    \/ d.FunctionCode # 0 /\ Resyncs(d.wire)
    \/ d.FunctionCode # 0 /\ Synced(back, ev, set, bin, b)

Scanning(d) ==
    /\ d.queue \in Seq(Scans) /\ d.wire \in Seq(Scans \cup {NoCommand})
    /\ d.Current \in Scans \cup {NoCommand} /\ d.FunctionCode \in {0, 11, 12}

Loose ==
    /\ Scanning(data) /\ DigitalCommandSequenceNumber \in Nat
    /\ toMaster \in Seq(ScanReplies) /\ performing = <<>>
    /\ DigitalCommandSequenceNumber = 0 \/ ~up => data.FunctionCode = 0 /\ data.queue = <<>>
    /\ NoOverflow /\ up /\ DigitalCommandSequenceNumber # 0 /\ ~data.gaveUp
         => Hears(data, toMaster, events, HasBeenSet, Binary, Bit)

LooseInv == losses = 0 /\ asked = {} => Loose

\* One more reply is under way.
LEMMA SyncedAppend ==
    ASSUME NEW T, NEW back \in Seq(T), NEW x, NEW ev, NEW fv, NEW set, NEW bin, NEW b,
           Synced(back, ev, set, bin, b) \/ Words(x) # {},
           fv = <<>> /\ Words(x) # {} => LastWord(x) = b,
           fv = <<>> /\ Words(x) = {} => ev = <<>>
    PROVE  Synced(Append(back, x), fv, set, bin, b)
<1> DEFINE a == Append(back, x)
           n == Len(back) + 1
<1>1. /\ n \in DOMAIN a /\ a[n] = x
      /\ \A i \in DOMAIN back : i \in DOMAIN a /\ a[i] = back[i]
      /\ \A i \in DOMAIN a : (i \in DOMAIN back /\ a[i] = back[i]) \/ i = n
  BY InAppend
<1>2. \A i \in DOMAIN a : ~(i > n)
  OBVIOUS
<1> HIDE DEF a, n
<1>3. CASE Words(x) # {}
  <2>1. AtAll(a, set)
    BY <1>1, <1>3, Zenon DEF AtAll
  <2>2. fv = <<>> => Applied(a, set, bin, b)
    BY <1>1, <1>2, <1>3, Zenon DEF Applied
  <2> QED
    BY <2>1, <2>2, Zenon DEF Synced, a
<1>4. CASE Words(x) = {}
  <2>1. AtAll(back, set)
    BY <1>4, Zenon DEF Synced, Applied, AtAll
  <2>2. AtAll(a, set)
    BY <1>1, <2>1, Zenon DEF AtAll
  <2>3. fv = <<>> => Applied(a, set, bin, b)
    <3> SUFFICES ASSUME fv = <<>> PROVE Applied(a, set, bin, b)
      OBVIOUS
    <3>1. Applied(back, set, bin, b)
      BY <1>4, Zenon DEF Synced
    <3> QED
      BY <1>1, <1>4, <3>1, Zenon DEF Applied
  <2> QED
    BY <2>2, <2>3, Zenon DEF Synced, a
<1> QED
  BY <1>3, <1>4

\* The first reply under way is applied.
LEMMA SyncedTail ==
    ASSUME NEW T, NEW back \in Seq(T), back # <<>>, NEW ev, NEW set, NEW bin, NEW b,
           Synced(back, ev, set, bin, b), NEW s2, NEW b2,
           IF Words(Head(back)) # {} THEN s2 = TRUE /\ b2 = LastWord(Head(back)) ELSE s2 = set /\ b2 = bin
    PROVE  Synced(Tail(back), ev, s2, b2, b)
<1> DEFINE t == Tail(back)
           h == Head(back)
           D == DOMAIN t
<1>1. /\ 1 \in DOMAIN back /\ h = back[1]
      /\ \A i \in D : i + 1 \in DOMAIN back /\ i + 1 # 1 /\ t[i] = back[i + 1]
  BY InTail
<1>2. /\ \A i \in DOMAIN back : i # 1 => i - 1 \in D /\ t[i - 1] = back[i] /\ i > 1
      /\ \A i \in D : i + 1 > 1
      /\ \A i \in DOMAIN back, j \in D : j > i - 1 => j + 1 > i
  <2>1. /\ Len(back) \in Nat /\ DOMAIN back = 1 .. Len(back) /\ D = 1 .. Len(back) - 1
        /\ \A i \in 1 .. Len(back) - 1 : t[i] = back[i + 1]
    OBVIOUS
  <2> HIDE DEF t, D
  <2>2. \A i \in 1 .. Len(back) : i # 1 => i - 1 \in 1 .. Len(back) - 1 /\ (i - 1) + 1 = i /\ i > 1
    BY <2>1
  <2>3. \A i \in DOMAIN back : i # 1 => i - 1 \in D /\ t[i - 1] = back[i] /\ i > 1
    BY <2>1, <2>2, Zenon
  <2>4. \A i \in D : i + 1 > 1
    BY <2>1
  <2>5. \A i \in DOMAIN back, j \in D : j > i - 1 => j + 1 > i
    BY <2>1
  <2> QED
    BY <2>3, <2>4, <2>5
<1> HIDE DEF t, h, D
<1>3. AtAll(back, set) => AtAll(t, s2)
  <2> SUFFICES ASSUME AtAll(back, set) PROVE AtAll(t, s2)
    OBVIOUS
  <2>1. CASE Words(h) # {}
    BY <2>1 DEF AtAll, h
  <2>2. CASE Words(h) = {}
    <3>1. s2 = set
      BY <2>2 DEF h
    <3>2. ASSUME NEW i \in DOMAIN back, Words(back[i]) # {} PROVE AtAll(t, s2)
      <4>1. i # 1
        BY <1>1, <2>2, <3>2
      <4> QED
        BY <1>2, <3>2, <4>1, Zenon DEF AtAll, D
    <3> QED
      BY <3>1, <3>2, Zenon DEF AtAll
  <2> QED
    BY <2>1, <2>2
<1>4. Applied(back, set, bin, b) => Applied(t, s2, b2, b)
  <2> SUFFICES ASSUME Applied(back, set, bin, b) PROVE Applied(t, s2, b2, b)
    OBVIOUS
  <2>1. CASE set /\ bin = b /\ \A j \in DOMAIN back : Words(back[j]) = {}
    <3>1. s2 = set /\ b2 = bin
      BY <1>1, <2>1 DEF h
    <3> QED
      BY <1>1, <2>1, <3>1, Zenon DEF Applied, D
  <2>2. ASSUME NEW i \in DOMAIN back, Words(back[i]) # {}, LastWord(back[i]) = b,
               \A j \in DOMAIN back : j > i => Words(back[j]) = {}
        PROVE  Applied(t, s2, b2, b)
    <3>1. CASE i = 1
      <4>1. s2 = TRUE /\ b2 = b
        BY <1>1, <2>2, <3>1 DEF h
      <4> QED
        BY <1>1, <1>2, <2>2, <3>1, <4>1, Zenon DEF Applied, D
    <3>2. CASE i # 1
      <4>1. i - 1 \in D /\ t[i - 1] = back[i]
        BY <1>2, <3>2
      <4>2. \A j \in D : j > i - 1 => Words(t[j]) = {}
        BY <1>1, <1>2, <2>2, Zenon
      <4> QED
        BY <2>2, <4>1, <4>2, Zenon DEF Applied, D
    <3> QED
      BY <3>1, <3>2
  <2> QED
    BY <2>1, <2>2, Zenon DEF Applied
<1> QED
  BY <1>3, <1>4, Zenon DEF Synced, t

\* The strand's operators on scans only.
LEMMA ResyncsAppend ==
    ASSUME NEW T, NEW w \in Seq(T), NEW c
    PROVE  /\ Resyncs(w) => Resyncs(Append(w, c))
           /\ IsScan(c) /\ c.seq = 0 => Resyncs(Append(w, c))
<1> DEFINE a == Append(w, c)
           n == Len(w) + 1
<1>1. /\ n \in DOMAIN a /\ a[n] = c
      /\ \A i \in DOMAIN w : i \in DOMAIN a /\ a[i] = w[i]
  BY InAppend
<1> HIDE DEF a
<1> QED
  BY <1>1, Zenon DEF Resyncs, a

LEMMA StartedScanning ==
    ASSUME NEW d, NEW e, Scanning(d), Started(d, e)
    PROVE  /\ Scanning(e) /\ e.FunctionCode # 0 /\ (Resyncs(d.wire) => Resyncs(e.wire))
           /\ Head(d.queue).seq = 0 => Resyncs(e.wire)
<1> DEFINE c == Head(d.queue)
<1>1. d.queue \in Seq(Scans) /\ d.queue # <<>> /\ d.wire \in Seq(Scans \cup {NoCommand})
  BY DEF Scanning, Started
<1>2. c \in Scans /\ Tail(d.queue) \in Seq(Scans)
  BY <1>1
<1>3. IsScan(c) /\ c.fn \in {11, 12}
  BY <1>2 DEF Scans, IsScan
<1> HIDE DEF c
<1>4. Append(d.wire, c) \in Seq(Scans \cup {NoCommand})
  BY <1>1, <1>2
<1>5. /\ e.queue = Tail(d.queue) /\ e.wire = Append(d.wire, c) /\ e.Current = c /\ e.FunctionCode = c.fn
  BY DEF Started, c
<1>6. Scanning(e) /\ e.FunctionCode # 0
  BY <1>2, <1>3, <1>4, <1>5 DEF Scanning
<1>7. (Resyncs(d.wire) => Resyncs(e.wire)) /\ (c.seq = 0 => Resyncs(e.wire))
  BY <1>1, <1>3, <1>5, ResyncsAppend
<1> QED
  BY <1>6, <1>7 DEF c

LEMMA QueueScanning ==
    ASSUME NEW d, Scanning(d), DOMAIN d = Fields, d.Processing \in BOOLEAN, NEW c \in Scans
    PROVE  LET e == QueueMD3Command(d, c) IN
           /\ Scanning(e) /\ DOMAIN e = Fields /\ e.Processing \in BOOLEAN /\ e.gaveUp = d.gaveUp
           /\ d.FunctionCode # 0 => e.FunctionCode # 0
           /\ Resyncs(d.wire) => Resyncs(e.wire)
           /\ d.Processing => e.Processing /\ e.FunctionCode = d.FunctionCode
           /\ d.queue = <<>> /\ ~d.Processing => e.FunctionCode # 0 /\ (c.seq = 0 => Resyncs(e.wire))
<1> DEFINE e == QueueMD3Command(d, c)
<1>1. PICK q : /\ Beside(d, q) /\ q.queue \in {Append(d.queue, c), d.queue}
               /\ (e = q \/ (d.Processing = FALSE /\ Started(q, e)))
  BY QueueShape
<1>2. Append(d.queue, c) \in Seq(Scans) /\ d.queue \in Seq(Scans)
  BY DEF Scanning
<1>3. Scanning(q) /\ q.wire = d.wire /\ q.FunctionCode = d.FunctionCode
  BY <1>1, <1>2 DEF Beside, Scanning
<1>4. /\ DOMAIN e = Fields /\ e.Processing \in BOOLEAN /\ e.gaveUp = d.gaveUp
      /\ d.Processing => e.Processing /\ e.FunctionCode = d.FunctionCode
  BY QueueBeside
<1>5. ASSUME d.queue = <<>>, ~d.Processing PROVE e.FunctionCode # 0 /\ (c.seq = 0 => Resyncs(e.wire))
  <2> DEFINE p == [d EXCEPT !.queue = Append(d.queue, c)]
  <2>1. Len(d.queue) < MaxQueue
    <3>1. Len(<<>>) = 0 /\ 0 < MaxQueue
      BY QueueAssumption
    <3> QED
      BY <1>5, <3>1, Zenon
  <2>2. e = UnprotectedSendNextMasterCommand(p, FALSE)
    BY <2>1 DEF QueueMD3Command, Fields
  <2>3. /\ DOMAIN p = Fields /\ p.Processing = FALSE /\ p.queue = Append(d.queue, c) /\ p.wire = d.wire
    BY <1>5 DEF Fields
  <2>4. Append(d.queue, c) # <<>> /\ Head(Append(d.queue, c)) = c
    BY <1>5
  <2> HIDE DEF p
  <2>5. e = Transmit(NextCommand(p))
    BY <2>2, <2>3 DEF UnprotectedSendNextMasterCommand
  <2> DEFINE r == NextCommand(p)
  <2>6. DOMAIN r = Fields /\ r.Processing = TRUE /\ r.FunctionCode = c.fn /\ r.Current = c /\ r.wire = d.wire
    BY <2>3, <2>4 DEF NextCommand, Fields
  <2> HIDE DEF r
  <2>7. e.FunctionCode = c.fn /\ e.wire = Append(d.wire, c)
    BY <2>5, <2>6 DEF Transmit, Fields, r
  <2>8. IsScan(c) /\ c.fn # 0
    BY DEF Scans, IsScan
  <2>9. d.wire \in Seq(Scans \cup {NoCommand})
    BY DEF Scanning
  <2> HIDE DEF e
  <2> QED
    BY <2>7, <2>8, <2>9, ResyncsAppend
<1> HIDE DEF e
<1>6. Scanning(e) /\ (d.FunctionCode # 0 => e.FunctionCode # 0) /\ (Resyncs(d.wire) => Resyncs(e.wire))
  <2>1. CASE e = q
    BY <1>3, <2>1
  <2>2. CASE Started(q, e)
    BY <1>3, <2>2, StartedScanning
  <2> QED
    BY <1>1, <2>1, <2>2
<1> QED
  BY <1>4, <1>5, <1>6 DEF e

LEMMA SuccessScanning ==
    ASSUME NEW d, Scanning(d), DOMAIN d = Fields, d.FunctionCode # 0
    PROVE  LET e == Succeeded(d) IN
           /\ Scanning(e) /\ e.gaveUp = d.gaveUp /\ e.FunctionCode # 0
           /\ Resyncs(d.wire) => Resyncs(e.wire)
<1> DEFINE e == Succeeded(d)
<1>1. PICK r : /\ r.Current = d.Current /\ r.FunctionCode = d.FunctionCode
               /\ r.queue = d.queue /\ r.wire = d.wire /\ (e = r \/ Started(r, e))
  BY SucceededShape
<1>2. e.gaveUp = d.gaveUp
  BY SuccessBeside
<1> HIDE DEF e
<1>3. Scanning(r)
  BY <1>1 DEF Scanning
<1>4. CASE e = r
  BY <1>1, <1>2, <1>3, <1>4 DEF e
<1>5. CASE Started(r, e)
  <2>1. Scanning(e) /\ e.FunctionCode # 0 /\ (Resyncs(d.wire) => Resyncs(e.wire))
    BY <1>1, <1>3, <1>5, StartedScanning
  <2> QED
    BY <1>2, <2>1 DEF e
<1> QED
  BY <1>1, <1>4, <1>5

\* The fields that matter stay.
LEMMA SameScanning ==
    ASSUME NEW d, NEW e, e.queue = d.queue, e.wire = d.wire, e.Current = d.Current,
           e.FunctionCode = d.FunctionCode
    PROVE  Scanning(d) => Scanning(e)
BY DEF Scanning

LEMMA InitLoose == Init => LooseInv
<1> SUFFICES ASSUME Init PROVE Loose
  BY DEF LooseInv
<1> DEFINE none == <<>>
<1>1. /\ data.queue = none /\ data.wire = none /\ data.Current = NoCommand /\ data.FunctionCode = 0
      /\ toMaster = none /\ performing = <<>> /\ DigitalCommandSequenceNumber = 0
  BY DEF Init, MasterInit, OutstationInit
<1>2. none \in Seq(Scans) /\ none \in Seq(Scans \cup {NoCommand}) /\ none \in Seq(ScanReplies)
  OBVIOUS
<1>3. Scanning(data)
  <2> HIDE DEF none
  <2> QED
    BY <1>1, <1>2 DEF Scanning
<1> QED
  BY <1>1, <1>2, <1>3 DEF Loose

\* A poll queues a scan; the first one after a connect has sequence number 0.
LEMMA PollLoose == ASSUME IInv, Loose, Poll PROVE Loose'
<1> DEFINE c == IF HasBeenSet THEN Scan(11, IF setup.Tagged THEN MostEvents ELSE 0) ELSE Scan(12, 0)
           e == QueueMD3Command(data, c)
           num == DigitalCommandSequenceNumber
<1>0. DOMAIN data = Fields /\ data.Processing \in BOOLEAN
  BY DEF IInv, Good, Typed
<1>1. /\ up /\ up' = up /\ data' = e /\ GetAndIncrementDigitalCommandSequenceNumber
      /\ UNCHANGED <<setup, toMaster, performing, events, Bit, made, changes, HasBeenSet, Binary>>
  BY DEF Poll, DoPoll, outstationVars
<1>2. /\ Scanning(data) /\ num \in Nat /\ toMaster \in Seq(ScanReplies) /\ performing = <<>>
      /\ num = 0 => data.FunctionCode = 0 /\ data.queue = <<>>
  BY DEF Loose
<1>3. num' \in Nat /\ num' # 0
  BY <1>1, <1>2, NextNumber
<1>4. c \in Scans /\ c.seq = num
  BY <1>2 DEF Scan, Scans, Request, IsScan
<1> HIDE DEF c, e
<1>5. /\ Scanning(e) /\ e.gaveUp = data.gaveUp
      /\ data.FunctionCode # 0 => e.FunctionCode # 0
      /\ Resyncs(data.wire) => Resyncs(e.wire)
      /\ data.Processing => e.Processing /\ e.FunctionCode = data.FunctionCode
      /\ data.queue = <<>> /\ ~data.Processing => e.FunctionCode # 0 /\ (c.seq = 0 => Resyncs(e.wire))
  BY <1>0, <1>2, <1>4, QueueScanning DEF e
<1>6. ASSUME NoOverflow', ~e.gaveUp
      PROVE  Hears(e, toMaster, events, HasBeenSet, Binary, Bit)
  <2>1. CASE num = 0
    BY <1>2, <1>4, <1>5, <2>1 DEF Hears
  <2>2. CASE num # 0
    <3>1. Hears(data, toMaster, events, HasBeenSet, Binary, Bit)
      BY <1>1, <1>5, <1>6, <2>2 DEF Loose, NoOverflow
    <3> QED
      BY <1>5, <3>1, Zenon DEF Hears
  <2> QED
    BY <2>1, <2>2
<1> QED
  BY <1>1, <1>2, <1>3, <1>5, <1>6 DEF Loose

\* A change of the point is queued, behind what is under way.
LEMMA ChangeLoose == ASSUME OutInv, Loose, NEW bit \in Bits, Change(bit) PROVE Loose'
<1>1. UNCHANGED <<setup, data, DigitalCommandSequenceNumber, up, toMaster, performing, HasBeenSet, Binary>>
  BY DEF Change, BinaryEvent, masterVars
<1>2. NoOverflow' => NoOverflow /\ events' # <<>>
  BY ChangeFresh
<1>3. ASSUME events' # <<>>, Hears(data, toMaster, events, HasBeenSet, Binary, Bit)
      PROVE  Hears(data, toMaster, events', HasBeenSet, Binary, Bit')
  <2>1. Synced(toMaster, events, HasBeenSet, Binary, Bit) => AtAll(toMaster, HasBeenSet)
    BY Zenon DEF Synced, Applied, AtAll
  <2> QED
    BY <1>3, <2>1, Zenon DEF Hears, Synced
<1> QED
  BY <1>1, <1>2, <1>3 DEF Loose

\* A scan arrives and is answered.
LEMMA ArrivalLoose == ASSUME IInv, OutInv, Loose, CommandArrives PROVE Loose'
<1> DEFINE h == Head(data.wire)
           x == LastReply'
           S == Scans \cup {NoCommand}
<1>0. DOMAIN data = Fields
  BY DEF IInv, Good, Typed
<1>1. /\ up /\ data.wire # <<>> /\ data' = [data EXCEPT !.wire = Tail(@)]
      /\ UNCHANGED <<setup, DigitalCommandSequenceNumber, Binary, HasBeenSet, up, changes, made>>
  BY ArrivalCases DEF envVars
<1>2. /\ Scanning(data) /\ DigitalCommandSequenceNumber \in Nat /\ toMaster \in Seq(ScanReplies)
      /\ performing = <<>> /\ data.wire \in Seq(S)
  BY DEF Loose, Scanning
<1> HIDE DEF S
<1>3. /\ Tail(data.wire) \in Seq(S) /\ 1 \in DOMAIN data.wire /\ h = data.wire[1] /\ h \in S
      /\ \A i \in DOMAIN data.wire : i = 1 \/ \E j \in DOMAIN Tail(data.wire) : Tail(data.wire)[j] = data.wire[i]
  <2> DEFINE w == data.wire
  <2>1. w \in Seq(S) /\ w # <<>>
    BY <1>1, <1>2
  <2> HIDE DEF w
  <2>2. /\ Tail(w) \in Seq(S) /\ 1 \in DOMAIN w /\ Head(w) = w[1] /\ w[1] \in S
        /\ \A i \in DOMAIN w : i = 1 \/ \E j \in DOMAIN Tail(w) : Tail(w)[j] = w[i]
    BY <2>1, InTail
  <2> QED
    BY <2>2 DEF w
<1>4. h.fn # 17
  BY <1>3 DEF S, Scans, IsScan, NoCommand
<1>5. IsScan(h) /\ performing' = performing /\ (ResendScan(h) \/ DoDigitalScan(h) \/ DoDigitalUnconditional(h))
  BY <1>4, ArrivalCases
<1>6. /\ data'.queue = data.queue /\ data'.wire = Tail(data.wire) /\ data'.Current = data.Current
      /\ data'.FunctionCode = data.FunctionCode /\ data'.Processing = data.Processing
      /\ data'.gaveUp = data.gaveUp
  BY <1>0, <1>1 DEF Fields
<1>7. Scanning(data')
  BY <1>2, <1>3, <1>6 DEF Scanning, S
<1>8. /\ toMaster' = Append(toMaster, x) /\ Bit' = Bit /\ x \in Answer /\ IsScanReply(x)
      /\ x.code # 11 => x.module = <<>> /\ x.events = <<>>
      /\ NoOverflow =>
           /\ Fresh(events', x, Bit)
           /\ \/ x = LastReply /\ events' = events /\ h.seq # 0
              \/ /\ h.seq = 0 => Words(x) # {}
                 /\ Words(x) # {} \/ (events' # <<>> /\ events # <<>>) \/ events = <<>>
  <2> HIDE DEF h
  <2> QED
    BY <1>5, ScanFresh
<1> HIDE DEF x, h
<1>9. x.code # 11 => Words(x) = {}
  <2> SUFFICES ASSUME x.code # 11 PROVE Words(x) = {}
    OBVIOUS
  <2>1. DOMAIN x.module = {} /\ DOMAIN x.events = {}
    BY <1>8
  <2> QED
    BY <2>1 DEF Words, TaggedWords
<1>10. x \in ScanReplies
  BY <1>8, <1>9 DEF ScanReplies
<1>11. toMaster' \in Seq(ScanReplies)
  BY <1>2, <1>8, <1>10
<1>12. ASSUME NoOverflow, Hears(data, toMaster, events, HasBeenSet, Binary, Bit)
       PROVE  Hears(data', Append(toMaster, x), events', HasBeenSet, Binary, Bit)
  <2>1. /\ events' = <<>> /\ Words(x) # {} => LastWord(x) = Bit
        /\ events' = <<>> /\ Words(x) = {} => events = <<>>
        /\ h.seq = 0 => Words(x) # {}
    BY <1>8, <1>12 DEF Fresh
  <2>2. ASSUME Synced(toMaster, events, HasBeenSet, Binary, Bit) \/ Words(x) # {}
        PROVE  Synced(Append(toMaster, x), events', HasBeenSet, Binary, Bit)
    BY <1>2, <2>1, <2>2, SyncedAppend
  <2>3. Resyncs(data.wire) => h.seq = 0 \/ Resyncs(Tail(data.wire))
    BY <1>3, Zenon DEF Resyncs
  <2> QED
    BY <1>6, <1>12, <2>1, <2>2, <2>3, Zenon DEF Hears
<1> QED
  BY <1>1, <1>2, <1>5, <1>6, <1>7, <1>8, <1>11, <1>12 DEF Loose, NoOverflow

\* A reply arrives.  Without a command the master knows of, it is ignored;
\* otherwise any scan's reply is taken.
LEMMA ReplyLoose == ASSUME IInv, Loose, ReplyArrives PROVE Loose'
<1> DEFINE h == Head(toMaster)
           answered == Expected(data.FunctionCode, h.code)
           more == answered /\ h.code = 11 /\ data.FunctionCode = 11
           c == Scan(11, MostEvents)
           q == IF more THEN QueueMD3Command(data, c) ELSE data
           num == DigitalCommandSequenceNumber
<1>0. DOMAIN data = Fields /\ data.Processing \in BOOLEAN
  BY DEF IInv, Good, Typed
<1>1. /\ toMaster # <<>> /\ toMaster' = Tail(toMaster)
      /\ UNCHANGED <<setup, Bit, events, performing, made, changes, up>>
      /\ ~answered => data' = data
      /\ data'.gaveUp = data.gaveUp
      /\ IF answered /\ h.code = 11 /\ Words(h) # {}
         THEN HasBeenSet' = TRUE /\ Binary' = LastWord(h)
         ELSE HasBeenSet' = HasBeenSet /\ Binary' = Binary
  BY ReplyEffect DEF envVars
<1>2. /\ up /\ data' = (IF answered THEN Succeeded(q) ELSE data)
      /\ IF more THEN GetAndIncrementDigitalCommandSequenceNumber ELSE num' = num
  BY DEF ReplyArrives, ProcessMD3Message
<1>3. /\ Scanning(data) /\ num \in Nat /\ toMaster \in Seq(ScanReplies) /\ performing = <<>>
      /\ num = 0 => data.FunctionCode = 0 /\ data.queue = <<>>
      /\ data.FunctionCode \in {0, 11, 12}
  BY <1>2 DEF Loose, Scanning
<1>4. h \in ScanReplies /\ toMaster' \in Seq(ScanReplies)
  BY <1>1, <1>3
<1>5. answered <=> data.FunctionCode # 0
  BY <1>3, <1>4 DEF Expected, ScanReplies, IsScanReply
<1>6. h.code # 11 => Words(h) = {}
  BY <1>4 DEF ScanReplies
<1>7. c \in Scans
  BY <1>3 DEF Scan, Scans, Request, IsScan
<1>8. num' \in Nat /\ (num # 0 => num' # 0) /\ (num = 0 => num' = 0)
  <2>1. CASE more
    BY <1>2, <1>3, <1>5, <2>1, NextNumber
  <2>2. CASE ~more
    BY <1>2, <1>3, <2>2
  <2> QED
    BY <2>1, <2>2
<1>9. CASE ~answered
  <2>1. data' = data /\ data.FunctionCode = 0
    BY <1>1, <1>5, <1>9
  <2>2. ASSUME Hears(data, toMaster, events, HasBeenSet, Binary, Bit)
        PROVE  Hears(data, toMaster', events, HasBeenSet', Binary', Bit)
    BY <2>1, <2>2 DEF Hears
  <2> HIDE DEF answered, h
  <2> QED
    BY <1>1, <1>2, <1>3, <1>4, <1>8, <2>1, <2>2 DEF Loose, NoOverflow
<1>10. CASE answered
  <2>0. data.FunctionCode # 0 /\ num # 0 /\ data' = Succeeded(q)
    BY <1>2, <1>3, <1>5, <1>10
  <2>1. /\ Scanning(q) /\ DOMAIN q = Fields /\ q.FunctionCode # 0
        /\ Resyncs(data.wire) => Resyncs(q.wire)
    <3> HIDE DEF c, answered, h
    <3>1. CASE more
      <4>1. q = QueueMD3Command(data, c)
        BY <3>1
      <4> QED
        BY <1>0, <1>3, <1>7, <2>0, <4>1, QueueScanning
    <3>2. CASE ~more
      BY <1>0, <1>3, <2>0, <3>2
    <3> QED
      BY <3>1, <3>2
  <2> HIDE DEF q
  <2>2. /\ Scanning(data') /\ data'.FunctionCode # 0
        /\ Resyncs(data.wire) => Resyncs(data'.wire)
    BY <2>0, <2>1, SuccessScanning
  <2>3. IF Words(h) # {} THEN HasBeenSet' = TRUE /\ Binary' = LastWord(h)
        ELSE HasBeenSet' = HasBeenSet /\ Binary' = Binary
    BY <1>1, <1>6, <1>10
  <2>4. ASSUME Synced(toMaster, events, HasBeenSet, Binary, Bit)
        PROVE  Synced(Tail(toMaster), events, HasBeenSet', Binary', Bit)
    BY <1>1, <1>3, <2>3, <2>4, SyncedTail
  <2>5. ASSUME Hears(data, toMaster, events, HasBeenSet, Binary, Bit)
        PROVE  Hears(data', Tail(toMaster), events, HasBeenSet', Binary', Bit)
    BY <2>0, <2>2, <2>4, <2>5, Zenon DEF Hears
  <2> HIDE DEF answered, h
  <2> QED
    BY <1>1, <1>2, <1>3, <1>4, <1>8, <2>0, <2>2, <2>5 DEF Loose, NoOverflow
<1> QED
  BY <1>9, <1>10

\* A timeout repeats the command, or gives it up and starts the next.
LEMMA TimeoutLoose == ASSUME IInv, Loose, Timeout PROVE Loose'
<1>0. DOMAIN data = Fields
  BY DEF IInv, Good, Typed
<1>1. /\ TimeoutHandler
      /\ data' = UnprotectedSendNextMasterCommand([data EXCEPT !.Processing = FALSE], TRUE)
      /\ UNCHANGED <<setup, DigitalCommandSequenceNumber, up, toMaster, performing, events, Bit,
                     made, changes, HasBeenSet, Binary>>
  BY DEF Timeout, TimeoutHandler, outstationVars, envVars
<1>2. Scanning(data) /\ data.wire \in Seq(Scans \cup {NoCommand}) /\ data.Current \in Scans \cup {NoCommand}
  BY DEF Loose, Scanning
<1>3. \/ /\ data'.Current = data.Current /\ data'.FunctionCode = data.FunctionCode /\ data'.queue = data.queue
         /\ data'.wire = Append(data.wire, data.Current)
      \/ \E r : /\ r.Current = data.Current /\ r.FunctionCode = data.FunctionCode
                /\ r.queue = data.queue /\ r.wire = data.wire
                /\ (data' = r \/ Started(r, data'))
  <2> HIDE DEF Started
  <2> QED
    BY <1>0, <1>1, TimeoutShape
<1> DEFINE Idle(d) == d.FunctionCode = 0 /\ d.queue = <<>>
<1>4. Scanning(data') /\ (Idle(data) => Idle(data'))
  <2>1. CASE /\ data'.Current = data.Current /\ data'.FunctionCode = data.FunctionCode
             /\ data'.queue = data.queue /\ data'.wire = Append(data.wire, data.Current)
    <3>1. Append(data.wire, data.Current) \in Seq(Scans \cup {NoCommand})
      BY <1>2
    <3> QED
      BY <1>2, <2>1, <3>1 DEF Scanning
  <2>2. ASSUME NEW r, r.Current = data.Current, r.FunctionCode = data.FunctionCode,
               r.queue = data.queue, r.wire = data.wire, data' = r \/ Started(r, data')
        PROVE  Scanning(data') /\ (Idle(data) => Idle(data'))
    <3>1. Scanning(r)
      BY <1>2, <2>2, SameScanning
    <3>2. CASE data' = r
      BY <2>2, <3>1, <3>2
    <3>3. CASE Started(r, data')
      <4>1. data.queue # <<>>
        BY <2>2, <3>3 DEF Started
      <4> QED
        BY <3>1, <3>3, <4>1, StartedScanning
    <3> QED
      BY <2>2, <3>2, <3>3
  <2> QED
    BY <1>3, <2>1, <2>2
<1>5. ASSUME ~data'.gaveUp, Hears(data, toMaster, events, HasBeenSet, Binary, Bit)
      PROVE  Hears(data', toMaster, events, HasBeenSet, Binary, Bit)
  <2>1. /\ data'.Processing /\ data'.FunctionCode = data.FunctionCode
        /\ data'.wire = Append(data.wire, data.Current)
    BY <1>1, <1>5, TimeoutBeside
  <2>2. Resyncs(data.wire) => Resyncs(data'.wire)
    BY <1>2, <2>1, ResyncsAppend
  <2> QED
    BY <1>5, <2>1, <2>2, Zenon DEF Hears
<1>6. ~data'.gaveUp => ~data.gaveUp
  BY <1>1, TimeoutBeside
<1> QED
  BY <1>1, <1>4, <1>5, <1>6 DEF Loose, NoOverflow

\* The connection goes down, and comes up again.
LEMMA DropLoose == ASSUME IInv, Loose, Disconnect PROVE Loose'
<1> DEFINE none == <<>>
<1>1. DOMAIN data = Fields /\ Scanning(data)
  BY DEF IInv, Good, Typed, Loose
<1>2. /\ up' = FALSE /\ data' = [ClearMD3CommandQueue(data) EXCEPT !.wire = none]
      /\ toMaster' = none
      /\ UNCHANGED <<DigitalCommandSequenceNumber, performing>>
  BY DEF Disconnect, Disconnected
<1>3. /\ data'.queue = none /\ data'.wire = none /\ data'.Current = data.Current
      /\ data'.FunctionCode = 0
  BY <1>1, <1>2 DEF ClearMD3CommandQueue, Fields
<1>4. none \in Seq(Scans) /\ none \in Seq(Scans \cup {NoCommand}) /\ none \in Seq(ScanReplies)
  OBVIOUS
<1>5. Scanning(data')
  <2> HIDE DEF none
  <2> QED
    BY <1>1, <1>3, <1>4 DEF Scanning
<1> QED
  BY <1>2, <1>3, <1>4, <1>5 DEF Loose

LEMMA ConnectLoose == ASSUME IInv, Loose, Connect PROVE Loose'
<1>1. DOMAIN data = Fields /\ Scanning(data) /\ data.FunctionCode = 0 /\ data.queue = <<>>
  BY DEF IInv, Good, Typed, Loose, Connect
<1>2. /\ DigitalCommandSequenceNumber' = 0 /\ data' = [data EXCEPT !.gaveUp = FALSE]
      /\ UNCHANGED <<toMaster, performing>>
  BY DEF Connect, Connected, outstationVars
<1>3. /\ data'.queue = data.queue /\ data'.wire = data.wire /\ data'.Current = data.Current
      /\ data'.FunctionCode = data.FunctionCode
  BY <1>1, <1>2 DEF Fields
<1>4. Scanning(data')
  BY <1>1, <1>3, SameScanning
<1> QED
  BY <1>1, <1>2, <1>3, <1>4 DEF Loose

LEMMA NextLoose == ASSUME IInv, LinkInv, OutInv, LooseInv, [Next]_vars PROVE LooseInv'
<1> SUFFICES ASSUME losses' = 0, asked' = {} PROVE Loose'
  BY DEF LooseInv
<1>0. losses \in Nat /\ DOMAIN data = Fields
  BY DEF LinkInv, IInv, Good, Typed
<1>1. ASSUME UNCHANGED <<losses, asked>> PROVE Loose
  BY <1>1 DEF LooseInv
<1>2. CASE Poll
  BY <1>1, <1>2, PollLoose DEF Poll
<1>3. ASSUME NEW c \in Controls, Ask(c) PROVE Loose'
  BY <1>3 DEF Ask
<1>4. ASSUME NEW bit \in Bits, Change(bit) PROVE Loose'
  BY <1>1, <1>4, ChangeLoose DEF Change
<1>5. CASE CommandArrives
  BY <1>1, <1>5, ArrivalLoose DEF CommandArrives, envVars
<1>6. CASE ReplyArrives
  BY <1>1, <1>6, ReplyLoose DEF ReplyArrives, envVars
<1>7. CASE ControlPerformed
  <2>1. Loose /\ performing # <<>>
    BY <1>1, <1>7 DEF ControlPerformed, Performed, envVars
  <2> QED
    BY <2>1 DEF Loose
<1>8. CASE Timer
  <2>1. Loose
    BY <1>1, <1>8 DEF Timer, envVars
  <2>2. /\ data' = [data EXCEPT !.timer = FALSE]
        /\ UNCHANGED <<setup, DigitalCommandSequenceNumber, up, toMaster, performing, events, Bit,
                       made, changes, HasBeenSet, Binary>>
    BY <1>8 DEF Timer, TimerExpires, outstationVars, envVars
  <2>3. /\ data'.queue = data.queue /\ data'.wire = data.wire /\ data'.Current = data.Current
        /\ data'.FunctionCode = data.FunctionCode /\ data'.gaveUp = data.gaveUp
        /\ data'.Processing = data.Processing
    BY <1>0, <2>2 DEF Fields
  <2>4. Scanning(data')
    BY <2>1, <2>3, SameScanning DEF Loose
  <2>5. ASSUME Hears(data, toMaster, events, HasBeenSet, Binary, Bit)
        PROVE  Hears(data', toMaster, events, HasBeenSet, Binary, Bit)
    BY <2>3, <2>5, Zenon DEF Hears
  <2> QED
    BY <2>1, <2>2, <2>3, <2>4, <2>5 DEF Loose, NoOverflow
<1>9. CASE Timeout
  BY <1>1, <1>9, TimeoutLoose DEF Timeout, envVars
<1>10. CASE QualityPosted \/ UNCHANGED vars
  <2>1. UNCHANGED <<setup, data, DigitalCommandSequenceNumber, up, toMaster, performing, events, Bit,
                    made, changes, HasBeenSet, Binary, losses, asked>>
    BY <1>10 DEF QualityPosted, CommsLost, vars, masterVars, outstationVars, envVars
  <2> QED
    BY <1>1, <2>1 DEF Loose, NoOverflow
<1>11. CASE Lose
  BY <1>0, <1>11 DEF Lose
<1>12. CASE Disconnect
  BY <1>1, <1>12, DropLoose DEF Disconnect
<1>13. CASE Connect
  BY <1>1, <1>13, ConnectLoose DEF Connect
<1> QED
  BY <1>2, <1>3, <1>4, <1>5, <1>6, <1>7, <1>8, <1>9, <1>10, <1>11, <1>12, <1>13 DEF Next

\* DoDigitalScan, ProcessDigitalScan and SocketStateHandler: once nothing is
\* under way and no scan has been given up since the last connect, the
\* master's point has the outstation's value.  Either the connection has only
\* lost messages, and the kept reply was repeated until it was applied; or it
\* was late or went down but lost none, and the first scan after the connect,
\* with sequence number 0, brought the value.
THEOREM Spec_Agreement == Spec => []Agreement
<1>1. LinkInv /\ TightInv /\ LooseInv => Agreement
  <2> SUFFICES ASSUME LinkInv, TightInv, LooseInv, setup.Tagged, Bearable, made = changes,
                      ~data.gaveUp, Quiet
               PROVE  HasBeenSet /\ Binary = Bit
    BY DEF Agreement
  <2>1. /\ NoOverflow /\ up /\ DigitalCommandSequenceNumber # 0 /\ data.wire = <<>> /\ toMaster = <<>>
        /\ ~data.Processing /\ events = <<>> /\ ~Changed
    BY DEF NoOverflow, Quiet
  <2>2. CASE ~setup.Late /\ drops = 0
    BY <2>1, <2>2, Zenon DEF TightInv, Told
  <2>3. CASE losses = 0 /\ asked = {}
    <3>1. Hears(data, toMaster, events, HasBeenSet, Binary, Bit)
      BY <2>1, <2>3 DEF LooseInv, Loose
    <3>2. DOMAIN data.wire = {} /\ DOMAIN toMaster = {}
      BY <2>1
    <3>3. ~Resyncs(data.wire)
      BY <3>2 DEF Resyncs
    <3>4. Applied(toMaster, HasBeenSet, Binary, Bit)
      BY <2>1, <3>1, <3>3, Zenon DEF Hears, Synced
    <3> QED
      BY <3>2, <3>4, Zenon DEF Applied
  <2>4. drops = 0 \/ drops > 0
    BY DEF LinkInv
  <2> QED
    BY <2>2, <2>3, <2>4 DEF Bearable
<1> QED
  BY <1>1, InitOutInv, NextOutInv, InitTight, NextTight, InitLoose, NextLoose, IInvHolds, LinkInvHolds, PTL
     DEF Spec
=============================================================================
