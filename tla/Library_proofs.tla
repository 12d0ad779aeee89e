--------------------------- MODULE Library_proofs ----------------------------
(***************************************************************************)
(* Four classes whose state several threads share: asio_service, the       *)
(* demand maps of the connectors, RateLimitTransform and                   *)
(* SpecialEventQueue.  None of them calls another, and each has a section  *)
(* of its own.                                                             *)
(***************************************************************************)
EXTENDS AsioServiceGet, DemandMux, RateLimitTransform, SpecialEventQueue,
        SequenceTheorems, FiniteSetTheorems, WellFoundedInduction, TLAPS

-----------------------------------------------------------------------------
(***************************************************************************)
(* asio_service::Get gives out one service at a time and never a deleted   *)
(* one, for any number of threads.  The argument is about the threads that *)
(* keep init_flag set (Busy): a thread that initialises or clears is the   *)
(* only busy one, and threads that share the service are all "in".         *)
(***************************************************************************)
Busy(t) == pc[t] \in {"construct", "publish", "in", "clear"}

\* Which pointers a thread has at each point of Get() and of the deleter.
PointersByPc ==
    \A t \in Threads : /\ held[t] # None <=> pc[t] \in {"publish", "in"}
                       /\ dying[t] # None <=> pc[t] \in {"clear", "delete"}

\* The flag is set by the busy threads, and they exclude each other unless
\* all of them have come out of Get().
FlagIsBusy == init_flag <=> \E t \in Threads : Busy(t)

BusyAlone ==
    \A t, u \in Threads : t # u /\ Busy(t) /\ Busy(u) => pc[t] = "in" /\ pc[u] = "in"

\* A busy thread is concerned with the newest service, which is alive.
Current ==
    \A t \in Threads :
      /\ pc[t] = "construct" => created < MaxServices
      /\ pc[t] \in {"publish", "in"} => held[t] = created
      /\ pc[t] = "clear" => dying[t] = created
      /\ pc[t] = "publish" => weak_service # created
      /\ pc[t] = "in" => weak_service = created
      /\ pc[t] \in {"publish", "in", "clear"} =>
           /\ created \notin deleted
           /\ \A u \in Threads : pc[u] = "delete" => dying[u] # created

IInv == TypeOK /\ PointersByPc /\ FlagIsBusy /\ BusyAlone /\ Current

\* Initially every thread is out, and there is no service.
LEMMA InitIInv == Init => IInv
<1> SUFFICES ASSUME Init PROVE IInv
  OBVIOUS
<1>1. TypeOK
  <2>1. created \in 0 .. MaxServices /\ weak_service \in 0 .. created
    BY MaxServicesAssumption DEF Init, None
  <2>2. init_flag \in BOOLEAN /\ deleted \in SUBSET (1 .. created)
    BY DEF Init
  <2>3. /\ held \in [Threads -> 0 .. created]
        /\ dying \in [Threads -> 0 .. created]
    BY DEF Init, None
  <2>4. pc \in [Threads -> {"out", "construct", "publish", "in", "spin", "clear", "delete"}]
    BY DEF Init
  <2>5. QED
    BY <2>1, <2>2, <2>3, <2>4 DEF TypeOK
<1>2. PointersByPc
  BY DEF Init, PointersByPc
<1>3. FlagIsBusy /\ BusyAlone /\ Current
  BY DEF Init, FlagIsBusy, BusyAlone, Current, Busy
<1>4. QED
  BY <1>1, <1>2, <1>3 DEF IInv

\* Get() and the deleter keep the invariant, step by step.
LEMMA NextIInv == IInv /\ [Next]_vars => IInv'
<1> SUFFICES ASSUME IInv, [Next]_vars PROVE IInv'
  OBVIOUS
<1> USE MaxServicesAssumption
        DEF IInv, TypeOK, PointersByPc, FlagIsBusy, BusyAlone, Current, Busy, None
<1>1. ASSUME NEW t \in Threads, TestAndSet(t) PROVE IInv'
  BY <1>1 DEF TestAndSet
<1>2. ASSUME NEW t \in Threads, Construct(t) PROVE IInv'
  BY <1>2 DEF Construct
<1>3. ASSUME NEW t \in Threads, PublishWeak(t) PROVE IInv'
  BY <1>3 DEF PublishWeak
<1>4. ASSUME NEW t \in Threads, Lock(t) PROVE IInv'
  BY <1>4 DEF Lock, CanLock, Referenced
<1>5. ASSUME NEW t \in Threads, Release(t) PROVE IInv'
  BY <1>5 DEF Release, IsLast
<1>6. ASSUME NEW t \in Threads, ClearFlag(t) PROVE IInv'
  BY <1>6 DEF ClearFlag
<1>7. ASSUME NEW t \in Threads, Delete(t) PROVE IInv'
  <2>1. dying[t] \in 1 .. created
    BY <1>7 DEF Delete
  <2>2. TypeOK'
    BY <1>7, <2>1 DEF Delete
  <2>3. PointersByPc'
    BY <1>7 DEF Delete
  <2>4. FlagIsBusy' /\ BusyAlone'
    BY <1>7 DEF Delete
  <2>5. Current'
    BY <1>7, <2>1 DEF Delete
  <2>6. QED
    BY <2>2, <2>3, <2>4, <2>5
<1>8. CASE UNCHANGED vars
  BY <1>8 DEF vars
<1>9. QED
  BY <1>1, <1>2, <1>3, <1>4, <1>5, <1>6, <1>7, <1>8 DEF Next, Step

\* The invariant holds in every reachable state.
THEOREM Inductive == Spec => []IInv
  BY InitIInv, NextIInv, PTL DEF Spec

\* Two threads that have come out of asio_service::Get() have the same
\* service, for any number of threads and generations of the service.
THEOREM SingleService == Spec => []OneService
<1>1. IInv => OneService
  BY DEF IInv, PointersByPc, Current, OneService
<1>2. QED
  BY <1>1, Inductive, PTL

\* No thread has a service that the deleter has deleted.
THEOREM NeverDangling == Spec => []NoDanglingService
<1>1. IInv => NoDanglingService
  <2> SUFFICES ASSUME IInv, NEW t \in Threads PROVE held[t] \notin deleted
    BY DEF NoDanglingService
  <2>1. 0 \notin deleted
    BY MaxServicesAssumption DEF IInv, TypeOK
  <2>2. held[t] = None \/ (held[t] = created /\ created \notin deleted)
    BY DEF IInv, PointersByPc, Current
  <2>3. QED
    BY <2>1, <2>2 DEF None
<1>2. QED
  BY <1>1, Inductive, PTL

-----------------------------------------------------------------------------
(***************************************************************************)
(* RateLimitTransform reads and reduces its counter in several steps. What *)
(* bounds the burst is the number of threads that were admitted by an      *)
(* older value of the counter and have not counted themselves yet.         *)
(***************************************************************************)
\* The threads whose update is admitted and not yet counted.
Admitted == {t \in Updaters : at[t] = "pass"}

\* How many threads there are, and where each of them may be.
Crew == Cardinality(Updaters)

Places == {"idle", "rollover", "advance", "reduce", "clamp", "admit", "pass"}

(***************************************************************************)
(* The counter is below the burst limit and has seen all but a thread's    *)
(* worth of the updates each; or it was reduced to a value at the limit or *)
(* above, maybe by wrapping, and only the updates admitted before that go  *)
(* on; or it has risen to the limit and the last to be admitted go on.     *)
(***************************************************************************)
BurstInv ==
    /\ outputRate \in 0 .. Modulus - 1
    /\ passed \in Nat
    /\ at \in [Updaters -> Places]
    /\ \/ outputRate < Burst /\ passed <= outputRate + Crew
       \/ outputRate >= Burst /\ passed + Cardinality(Admitted) <= Crew
       \/ /\ outputRate >= Burst
          /\ outputRate + Cardinality(Admitted) < Burst + Crew
          /\ passed + Cardinality(Admitted) < Burst + 2 * Crew

\* The sizes that the proof adds up.
LEMMA RateSizes ==
    /\ Burst \in Nat /\ Modulus \in Nat /\ Crew \in Nat
    /\ Crew > 0 /\ Burst + Crew < Modulus
    /\ outputRateLimit \in Nat
<1>1. IsFiniteSet(Updaters) /\ Updaters # {} /\ outputRateLimit \in Nat /\ Modulus \in Nat
  BY RateLimitAssumption
<1>2. Cardinality(Updaters) \in Nat /\ Cardinality(Updaters) # 0
  BY <1>1, FS_CardinalityType, FS_EmptySet
<1>3. Burst \in Nat
  <2>1. updatePeriodMultiplier \in Nat
    BY RateLimitAssumption
  <2>2. QED
    BY <1>1, <2>1 DEF Burst
<1>4. Burst + Crew < Modulus
  BY RateLimitAssumption DEF Burst, Crew
<1>5. QED
  BY <1>1, <1>2, <1>3, <1>4 DEF Crew

\* The threads that are admitted are counted.
LEMMA AdmittedCount ==
    /\ IsFiniteSet(Admitted) /\ Cardinality(Admitted) \in Nat
    /\ Cardinality(Admitted) <= Crew
<1>1. IsFiniteSet(Updaters) /\ Admitted \subseteq Updaters
  BY RateLimitAssumption DEF Admitted
<1>2. QED
  BY <1>1, FS_Subset, FS_CardinalityType DEF Crew

\* On an unsigned type.
LEMMA Wraps ==
    ASSUME NEW n \in 0 .. Modulus - 1
    PROVE  /\ Counted(n) = IF n + 1 = Modulus THEN 0 ELSE n + 1
           /\ Reduced(n) \in 0 .. Modulus - 1
<1>1. Modulus \in Nat /\ Modulus > 0 /\ outputRateLimit \in Nat
  BY RateSizes
<1>2. Counted(n) = IF n + 1 = Modulus THEN 0 ELSE n + 1
  BY <1>1 DEF Counted
<1>3. \A k \in Int : k % Modulus \in 0 .. Modulus - 1
  BY <1>1
<1>4. QED
  BY <1>1, <1>2, <1>3 DEF Reduced

\* A thread goes to another place: how many are admitted.
LEMMA AdmittedStep ==
    ASSUME NEW t \in Updaters, NEW l \in Places, at \in [Updaters -> Places], Goto(t, l)
    PROVE  /\ at' \in [Updaters -> Places]
           /\ l # "pass" /\ at[t] # "pass" => Admitted' = Admitted
           /\ l # "pass" /\ at[t] = "pass" =>
                  Cardinality(Admitted') + 1 = Cardinality(Admitted)
<1>1. /\ at' \in [Updaters -> Places] /\ at'[t] = l
      /\ \A u \in Updaters : u # t => at'[u] = at[u]
  BY DEF Goto
<1>2. ASSUME l # "pass" PROVE Admitted' = Admitted \ {t}
  BY <1>1, <1>2 DEF Admitted
<1>3. at[t] = "pass" <=> t \in Admitted
  BY DEF Admitted
<1>4. ASSUME t \in Admitted PROVE Cardinality(Admitted \ {t}) = Cardinality(Admitted) - 1
  BY <1>4, AdmittedCount, FS_RemoveElement
<1>5. Cardinality(Admitted) \in Nat
  BY AdmittedCount
<1>6. l # "pass" /\ at[t] # "pass" => Admitted' = Admitted
  BY <1>2, <1>3
<1>7. ASSUME l # "pass", at[t] = "pass" PROVE Cardinality(Admitted') + 1 = Cardinality(Admitted)
  <2>1. Cardinality(Admitted') = Cardinality(Admitted) - 1
    BY <1>2, <1>3, <1>4, <1>7
  <2>2. QED
    BY <1>5, <2>1
<1>8. QED
  BY <1>1, <1>6, <1>7

\* No step of a thread breaks the invariant.
LEMMA NextBurstInv == BurstInv /\ [RateNext]_rateVars => BurstInv'
<1> SUFFICES ASSUME BurstInv, [RateNext]_rateVars PROVE BurstInv'
  OBVIOUS
<1>1. /\ outputRate \in 0 .. Modulus - 1 /\ passed \in Nat /\ at \in [Updaters -> Places]
  BY DEF BurstInv
<1>2. /\ Burst \in Nat /\ Modulus \in Nat /\ Crew \in Nat /\ Burst + Crew < Modulus
      /\ Burst' = Burst /\ Crew' = Crew
  BY RateSizes DEF Burst, Crew
<1>3. Cardinality(Admitted) \in Nat /\ Cardinality(Admitted) <= Crew
  BY AdmittedCount
<1>4. Cardinality(Admitted') \in Nat /\ Cardinality(Admitted') <= Crew
  <2>1. Admitted' \subseteq Updaters /\ IsFiniteSet(Updaters)
    BY RateLimitAssumption DEF Admitted
  <2>2. QED
    BY <2>1, FS_Subset, FS_CardinalityType DEF Crew
<1>5. ASSUME NEW t \in Updaters, NEW l \in Places, Goto(t, l), l # "pass", at[t] # "pass",
             UNCHANGED <<outputRate, passed>>
      PROVE  BurstInv'
  <2>1. at' \in [Updaters -> Places] /\ Admitted' = Admitted
    BY <1>1, <1>5, AdmittedStep
  <2>2. QED
    BY <1>1, <1>2, <1>5, <2>1 DEF BurstInv
<1>6. CASE Tick
  BY <1>2, <1>6 DEF Tick, BurstInv, Admitted
<1>7. ASSUME NEW t \in Updaters, Arrive(t) \/ Rollover(t) \/ Advance(t) PROVE BurstInv'
  <2>1. /\ \E l \in {"rollover", "advance", "admit", "reduce"} : Goto(t, l)
        /\ at[t] # "pass"
        /\ UNCHANGED <<outputRate, passed>>
    BY <1>7 DEF Arrive, Rollover, Advance
  <2>2. QED
    BY <1>5, <2>1 DEF Places
<1>8. ASSUME NEW t \in Updaters, Reduce(t) PROVE BurstInv'
  <2>1. /\ at[t] = "reduce" /\ Goto(t, "clamp") /\ passed' = 0
        /\ outputRate' \in 0 .. Modulus - 1
    BY <1>1, <1>8, Wraps DEF Reduce
  <2>2. at' \in [Updaters -> Places]
    BY <1>1, <2>1, AdmittedStep DEF Places
  <2>3. \/ outputRate' < Burst /\ passed' <= outputRate' + Crew
        \/ outputRate' >= Burst /\ passed' + Cardinality(Admitted') <= Crew
    <3>0. outputRate' \in Nat
      BY <1>2, <2>1
    <3>1. passed' = 0
      BY <2>1
    <3>2. CASE outputRate' < Burst
      <4>1. 0 <= outputRate' + Crew
        <5> DEFINE x == outputRate'
        <5>1. x \in Nat /\ Crew \in Nat
          BY <3>0, <1>2
        <5> HIDE DEF x
        <5>2. 0 <= x + Crew
          BY <5>1
        <5>3. QED
          BY <5>2 DEF x
      <4>2. QED
        BY <3>1, <3>2, <4>1
    <3>3. CASE outputRate' >= Burst
      <4>1. 0 + Cardinality(Admitted') <= Crew
        BY <1>2, <1>4
      <4>2. QED
        BY <3>1, <3>3, <4>1
    <3>4. outputRate' < Burst \/ outputRate' >= Burst
      BY <1>2, <3>0
    <3>5. QED
      BY <3>2, <3>3, <3>4
  <2>4. QED
    BY <1>2, <2>1, <2>2, <2>3 DEF BurstInv
<1>9. ASSUME NEW t \in Updaters, Clamp(t) PROVE BurstInv'
  <2>1. at[t] = "clamp" /\ Goto(t, "admit") /\ UNCHANGED <<outputRate, passed>>
    BY <1>1, <1>2, <1>9 DEF Clamp
  <2>2. QED
    BY <1>5, <2>1 DEF Places
<1>10. ASSUME NEW t \in Updaters, Admit(t) PROVE BurstInv'
  <2>1. CASE outputRate < Burst
    <3>1. Goto(t, "pass") /\ UNCHANGED <<outputRate, passed>>
      BY <1>10, <2>1 DEF Admit
    <3>2. at' \in [Updaters -> Places]
      BY <1>1, <3>1, AdmittedStep DEF Places
    <3>3. passed <= outputRate + Crew
      BY <1>1, <1>2, <2>1 DEF BurstInv
    <3>4. QED
      BY <1>1, <1>2, <2>1, <3>1, <3>2, <3>3 DEF BurstInv
  <2>2. CASE ~(outputRate < Burst)
    <3>1. at[t] # "pass" /\ Goto(t, "idle") /\ UNCHANGED <<outputRate, passed>>
      BY <1>10, <2>2 DEF Admit
    <3>2. QED
      BY <1>5, <3>1 DEF Places
  <2>3. QED
    BY <2>1, <2>2
<1>11. ASSUME NEW t \in Updaters, Pass(t) PROVE BurstInv'
  <2>1. /\ at[t] = "pass" /\ Goto(t, "idle") /\ passed' = passed + 1
        /\ outputRate' = IF outputRate + 1 = Modulus THEN 0 ELSE outputRate + 1
    BY <1>1, <1>11, Wraps DEF Pass
  <2>2. /\ at' \in [Updaters -> Places]
        /\ Cardinality(Admitted') + 1 = Cardinality(Admitted)
    BY <1>1, <2>1, AdmittedStep DEF Places
  <2> DEFINE a == Cardinality(Admitted)
             b == Cardinality(Admitted')
  <2>3. /\ \/ outputRate < Burst /\ passed <= outputRate + Crew
           \/ outputRate >= Burst /\ passed + a <= Crew
           \/ outputRate >= Burst /\ outputRate + a < Burst + Crew /\ passed + a < Burst + 2 * Crew
        /\ a \in Nat /\ b \in Nat /\ a <= Crew /\ b + 1 = a
    BY <1>3, <1>4, <2>2 DEF BurstInv
  <2> HIDE DEF a, b
  <2>4. /\ outputRate' \in 0 .. Modulus - 1 /\ passed' \in Nat
        /\ \/ outputRate' < Burst /\ passed' <= outputRate' + Crew
           \/ outputRate' >= Burst /\ passed' + b <= Crew
           \/ /\ outputRate' >= Burst /\ outputRate' + b < Burst + Crew
              /\ passed' + b < Burst + 2 * Crew
    BY <1>1, <1>2, <2>1, <2>3
  <2>5. QED
    BY <1>2, <2>2, <2>4 DEF BurstInv, b
<1>12. CASE UNCHANGED rateVars
  BY <1>2, <1>12 DEF rateVars, BurstInv, Admitted
<1>13. QED
  BY <1>6, <1>7, <1>8, <1>9, <1>10, <1>11, <1>12 DEF RateNext

\* The burst is bounded for any number of threads, limit and period, wherever
\* the threads are when the counter is reduced and although it wraps.
THEOREM Rate_BurstBounded == RateSpec => []BurstBounded
<1>1. RateInit => BurstInv
  <2> SUFFICES ASSUME RateInit PROVE BurstInv
    OBVIOUS
  <2>1. Admitted = {}
    BY DEF RateInit, Admitted
  <2>2. Cardinality(Admitted) = 0
    BY <2>1, FS_EmptySet
  <2>3. QED
    BY <2>2, RateSizes DEF RateInit, BurstInv, Places
<1>2. BurstInv => BurstBounded
  <2> SUFFICES ASSUME BurstInv PROVE BurstBounded
    OBVIOUS
  <2>1. passed < Burst + 2 * Crew
    BY RateSizes, AdmittedCount DEF BurstInv
  <2>2. QED
    BY <2>1 DEF BurstBounded, Crew
<1>3. QED
  BY <1>1, <1>2, NextBurstInv, PTL DEF RateSpec

-----------------------------------------------------------------------------
(***************************************************************************)
(* The demand maps of a connector and the demand of the ports, for any     *)
(* number of workers that overlap.  The invariant follows a connection     *)
(* state change from the queue (LastQueued) to the tasks that handle it    *)
(* (LastHandled), to the connector's map (Applied), and to the receiver    *)
(* (Told, Withdrawn).  What the history variables leave out is what Apart  *)
(* allows: opposite events on their way to the same receiver.              *)
(***************************************************************************)
\* The events in the queue, and a task that is at a connection.
Msg == [state : ConnectStates, sender : Senders]
Halfway == [pc : {"recheck", "forward", "skip"}, state : ConnectStates, sender : Senders,
            left : SUBSET Receivers, rcv : Receivers]

\* t.left is what the loop has still to visit of its sender's connections.
TaskOK(t) ==
    /\ t.pc \in {"idle", "loop", "recheck", "forward", "skip"}
    /\ t.pc # "idle" => /\ t.state \in ConnectStates /\ t.sender \in Senders
                        /\ t.left \subseteq Connected[t.sender]
    /\ t.pc \in {"recheck", "forward", "skip"} => t \in Halfway
    /\ t.pc = "recheck" => t.state = "DISCONNECTED"

\* The types of the variables.
MuxTyped ==
    /\ linkUp \in [Senders -> BOOLEAN]
    /\ queue \in Seq(Msg)
    /\ connection_demands \in [Receivers -> [Senders -> BOOLEAN]]
    /\ demand \in [Receivers -> BOOLEAN]
    /\ DOMAIN task = Workers /\ task = [w \in Workers |-> task[w]]
    /\ \A w \in Workers : TaskOK(task[w])
    /\ overtaken \subseteq raced

\* Event e changes the demand of sender s; such an event is still queued.
Changes(e, s) == e.sender = s /\ e.state \in {"CONNECTED", "DISCONNECTED"}
Owes(s) == \E i \in 1 .. Len(queue) : Changes(queue[i], s)

\* Task t has the connection of sender s to r still to visit.
Visits(t, s, r) == t.pc # "idle" /\ Changes(t, s) /\ r \in t.left

\* The last of a sender's events that are queued is its link state, or any
\* that is being handled if none is.
LastQueued ==
    \A s \in Senders : \A i \in 1 .. Len(queue) :
        Changes(queue[i], s) /\ (\A j \in 1 .. Len(queue) : j > i => ~Changes(queue[j], s))
            => linkUp[s] = (queue[i].state = "CONNECTED")

LastHandled ==
    \A s \in Senders, w \in Workers : \A r \in Receivers \ overtaken :
        Visits(task[w], s, r) /\ ~Owes(s) => linkUp[s] = (task[w].state = "CONNECTED")

\* The connector's map is the link state where no event is outstanding.
Applied ==
    \A s \in Senders : \A r \in Connected[s] \ overtaken :
        \/ Owes(s)
        \/ \E w \in Workers : Visits(task[w], s, r)
        \/ connection_demands[r][s] = linkUp[s]

\* A sender has no entry in the map of a connection it is not part of.
OnlyConnected ==
    \A s \in Senders : \A r \in Receivers \ Connected[s] : ~connection_demands[r][s]

\* Opposite events are ahead of one receiver only where history says so.
Apart ==
    \A v, w \in Workers : \A r \in Ahead(task[v]) \cap Ahead(task[w]) :
        Opposite(task[v].state, task[w].state)
            => r \in raced /\ (task[v].sender = task[w].sender => r \in overtaken)

\* Task t is about to tell receiver r of a demand or of its end; what it has
\* to say is right, for a receiver that believes d where the map says i.
Telling(t, r) ==
    t.pc \in {"recheck", "forward"} /\ t.rcv = r /\ t.state \in {"CONNECTED", "DISCONNECTED"}
Right(t, d, i) ==
    IF t.state = "CONNECTED" THEN i ELSE (i => d) /\ (t.pc = "forward" => ~i)

Told ==
    \A r \in Receivers \ raced :
        /\ (\A w \in Workers : ~Telling(task[w], r)) => demand[r] = InDemand(r)
        /\ \A w \in Workers : Telling(task[w], r) => Right(task[w], demand[r], InDemand(r))

\* A receiver in demand is so by the map, or is about to be told otherwise.
Withdrawn ==
    \A r \in Receivers \ overtaken :
        /\ demand[r] => \/ InDemand(r)
                        \/ \E w \in Workers : Telling(task[w], r) /\ task[w].state = "DISCONNECTED"
        /\ \A w \in Workers : Telling(task[w], r) /\ task[w].state = "CONNECTED"
                                 => connection_demands[r][task[w].sender]

DemandInv == /\ MuxTyped /\ LastQueued /\ LastHandled /\ Applied /\ OnlyConnected
             /\ Apart /\ Told /\ Withdrawn

\* No port is up, and no demand is recorded.
LEMMA InitDemandInv == MuxInit => DemandInv
<1> SUFFICES ASSUME MuxInit PROVE DemandInv
  OBVIOUS
<1>1. /\ queue = <<>> /\ Len(queue) = 0 /\ queue \in Seq(Msg)
      /\ \A w \in Workers : task[w] = NoTask /\ task[w].pc = "idle"
      /\ \A r \in Receivers, s \in Senders : connection_demands[r][s] = FALSE
      /\ \A r \in Receivers : demand[r] = FALSE
      /\ \A s \in Senders : linkUp[s] = FALSE
  BY DEF MuxInit, NoTask
<1>2. MuxTyped
  <2>1. \A w \in Workers : TaskOK(task[w])
    BY <1>1 DEF TaskOK
  <2>2. QED
    BY <1>1, <2>1 DEF MuxInit, MuxTyped
<1>3. \A r \in Receivers : InDemand(r) = FALSE /\ demand[r] = InDemand(r)
  BY <1>1 DEF InDemand
<1>4. LastQueued /\ LastHandled
  BY <1>1 DEF LastQueued, LastHandled, Visits
<1>5. Applied /\ OnlyConnected
  BY <1>1, TopologyAssumption DEF Applied, OnlyConnected
<1>6. Apart
  BY <1>1 DEF Apart, Ahead
<1>7. Told /\ Withdrawn
  <2>1. \A w \in Workers, r \in Receivers : ~Telling(task[w], r)
    BY <1>1 DEF Telling
  <2>2. QED
    BY <1>3, <2>1 DEF Told, Withdrawn
<1>8. QED
  BY <1>2, <1>4, <1>5, <1>6, <1>7 DEF DemandInv

\* PublishEvent() adds the event that is now its sender's link state.
LEMMA PublishKeepsDemand ==
    ASSUME DemandInv, NEW s \in Senders, NEW state \in ConnectStates, Publish(s, state)
    PROVE  DemandInv'
<1> DEFINE e == [state |-> state, sender |-> s]
           n == Len(queue)
<1>1. /\ queue' = queue \o <<e>> /\ UNCHANGED <<connection_demands, demand, task, raced, overtaken>>
  BY DEF Publish, Posted, muxHistory
<1>2. queue \in Seq(Msg) /\ e \in Msg
  BY DEF DemandInv, MuxTyped, Msg
<1>3. /\ queue' \in Seq(Msg) /\ n \in Nat /\ Len(queue') = n + 1 /\ queue'[n + 1] = e
      /\ \A i \in 1 .. n : queue'[i] = queue[i]
  <2> HIDE DEF e
  <2> QED
    BY <1>1, <1>2
<1>4. /\ linkUp' \in [Senders -> BOOLEAN]
      /\ \A u \in Senders : u # s => linkUp'[u] = linkUp[u]
      /\ state = "CONNECTED" => linkUp'[s] = TRUE
      /\ state = "DISCONNECTED" => linkUp'[s] = FALSE
      /\ state \notin {"CONNECTED", "DISCONNECTED"} => linkUp'[s] = linkUp[s]
  BY DEF Publish, DemandInv, MuxTyped
<1>5. MuxTyped'
  <2>1. \A w \in Workers : TaskOK(task[w])'
    BY <1>1 DEF DemandInv, MuxTyped, TaskOK
  <2>2. QED
    BY <1>1, <1>3, <1>4, <2>1 DEF DemandInv, MuxTyped
<1> HIDE DEF n
<1>6. /\ \A i \in 1 .. n : i \in 1 .. n + 1 /\ n + 1 > i
      /\ n + 1 \in 1 .. n + 1
      /\ \A i \in 1 .. n + 1 : i \in 1 .. n \/ i = n + 1
  BY <1>3
<1>7. /\ \A u \in Senders : Owes(u) => Owes(u)'
      /\ \A u \in Senders : Changes(e, u) => Owes(u)'
      /\ \A u \in Senders : ~Changes(e, u) => linkUp'[u] = linkUp[u]
  <2>1. \A u \in Senders : Owes(u) => Owes(u)'
    BY <1>3, <1>6, Zenon DEF Owes, Changes, n
  <2>2. \A u \in Senders : Changes(e, u) => Owes(u)'
    <3> HIDE DEF e
    <3> QED
      BY <1>3, <1>6, Zenon DEF Owes, Changes, n
  <2>3. \A u \in Senders : ~Changes(e, u) => linkUp'[u] = linkUp[u]
    BY <1>4 DEF Changes
  <2>4. QED
    BY <2>1, <2>2, <2>3
<1>8. LastQueued'
  <2> SUFFICES ASSUME NEW u \in Senders, NEW i \in 1 .. n + 1, Changes(queue'[i], u),
                      \A j \in 1 .. n + 1 : j > i => ~Changes(queue'[j], u)
               PROVE  linkUp'[u] = (queue'[i].state = "CONNECTED")
    BY <1>3 DEF LastQueued, Changes
  <2>1. CASE i = n + 1
    BY <1>3, <1>4, <2>1 DEF Changes
  <2>2. CASE i # n + 1
    <3>1. i \in 1 .. n /\ ~Changes(e, u)
      BY <1>3, <1>6, <2>2
    <3>2. queue'[i] = queue[i] /\ \A j \in 1 .. n : j > i => ~Changes(queue[j], u)
      BY <1>3, <1>6, <3>1
    <3>3. LastQueued
      BY DEF DemandInv
    <3>4. linkUp[u] = (queue[i].state = "CONNECTED")
      BY <3>1, <3>2, <3>3 DEF LastQueued, n
    <3>5. QED
      BY <1>7, <3>1, <3>2, <3>4
  <2>3. QED
    BY <2>1, <2>2
<1> HIDE DEF e
<1>9. LastHandled'
  <2> SUFFICES ASSUME NEW u \in Senders, NEW w \in Workers, NEW r \in Receivers \ overtaken,
                      Visits(task[w], u, r), ~Owes(u)'
               PROVE  linkUp'[u] = (task[w].state = "CONNECTED")
    BY <1>1 DEF LastHandled, Visits, Changes
  <2>1. ~Owes(u) /\ linkUp'[u] = linkUp[u]
    BY <1>7
  <2>2. QED
    BY <2>1 DEF DemandInv, LastHandled
<1>10. Applied'
  <2> SUFFICES ASSUME NEW u \in Senders, NEW r \in Connected[u] \ overtaken, ~Owes(u)',
                      \A w \in Workers : ~Visits(task[w], u, r)
               PROVE  connection_demands[r][u] = linkUp'[u]
    BY <1>1, Zenon DEF Applied, Visits, Changes
  <2>1. ~Owes(u) /\ linkUp'[u] = linkUp[u]
    BY <1>7
  <2>2. QED
    BY <2>1, Zenon DEF DemandInv, Applied
<1>11. OnlyConnected' /\ Apart' /\ Told' /\ Withdrawn'
  <2>1. \A r \in Receivers : InDemand(r)' = InDemand(r)
    BY <1>1 DEF InDemand
  <2>2. OnlyConnected' /\ Apart'
    BY <1>1 DEF DemandInv, OnlyConnected, Apart, Ahead
  <2>3. Told' /\ Withdrawn'
    BY <1>1, <2>1 DEF DemandInv, Told, Withdrawn, Telling, Right
  <2>4. QED
    BY <2>2, <2>3
<1>12. QED
  BY <1>5, <1>8, <1>9, <1>10, <1>11 DEF DemandInv

\* One worker goes on to task t, the others stay where they are.
LEMMA OneMoves ==
    ASSUME MuxTyped, NEW w \in Workers, NEW t, task' = [task EXCEPT ![w] = t]
    PROVE  /\ task'[w] = t /\ \A v \in Workers : v # w => task'[v] = task[v]
           /\ DOMAIN task' = Workers /\ task' = [v \in Workers |-> task'[v]]
           /\ TaskOK(t) => \A v \in Workers : TaskOK(task'[v])
  BY DEF MuxTyped

\* Opposite is what its name says: symmetric, and about two states only.
LEMMA OppositeStates ==
    ASSUME NEW a, NEW b
    PROVE  /\ Opposite(a, b) <=> Opposite(b, a)
           /\ ~Opposite(a, a)
           /\ Opposite(a, b) <=> \/ a = "CONNECTED" /\ b = "DISCONNECTED"
                                 \/ a = "DISCONNECTED" /\ b = "CONNECTED"
  BY DEF Opposite

\* The oldest event starts its tour of the connections.
LEMMA StartKeepsDemand ==
    ASSUME DemandInv, NEW w \in Workers, Start(w) PROVE DemandInv'
<1> DEFINE e == Head(queue)
           n == Len(queue')
           t == Loop(e.state, e.sender, Connected[e.sender])
<1>1. /\ task[w].pc = "idle" /\ queue # <<>> /\ queue' = Tail(queue)
      /\ task' = [task EXCEPT ![w] = t]
      /\ UNCHANGED <<linkUp, connection_demands, demand>>
      /\ raced' = raced \cup UNION {Meets(e, task[v]) : v \in Workers}
      /\ overtaken' = overtaken \cup UNION {Meets(e, task[v]) :
                          v \in {u \in Workers : task[u].pc # "idle" /\ task[u].sender = e.sender}}
  BY DEF Start
<1>2. MuxTyped /\ queue \in Seq(Msg)
  BY DEF DemandInv, MuxTyped
<1>3. /\ e \in Msg /\ queue' \in Seq(Msg) /\ n \in Nat /\ Len(queue) = n + 1
      /\ e = queue[1] /\ \A i \in 1 .. n : queue'[i] = queue[i + 1]
  BY <1>1, <1>2
<1>4. e.state \in ConnectStates /\ e.sender \in Senders
  BY <1>3 DEF Msg
<1> HIDE DEF e
<1>5. /\ t.pc = "loop" /\ t.state = e.state /\ t.sender = e.sender
      /\ t.left = Connected[e.sender] /\ Ahead(t) = Connected[e.sender]
  BY DEF Loop, Ahead
<1> HIDE DEF t, n
<1>6. /\ task'[w] = t /\ \A v \in Workers : v # w => task'[v] = task[v]
      /\ DOMAIN task' = Workers /\ task' = [v \in Workers |-> task'[v]]
      /\ TaskOK(t) => \A v \in Workers : TaskOK(task'[v])
  BY <1>1, <1>2, OneMoves
<1>7. /\ \A i \in 1 .. n : i + 1 \in 1 .. n + 1 /\ i + 1 > 1
      /\ 1 \in 1 .. n + 1
      /\ \A i \in 1 .. n + 1 : i = 1 \/ (i - 1 \in 1 .. n /\ (i - 1) + 1 = i)
      /\ \A i, j \in 1 .. n : j + 1 > i + 1 => j > i
  BY <1>3
<1>16. /\ raced \subseteq raced' /\ overtaken \subseteq overtaken' /\ overtaken' \subseteq raced'
       /\ \A v \in Workers : \A r \in Connected[e.sender] \cap Ahead(task[v]) :
             task[v].pc # "idle" /\ Opposite(e.state, task[v].state)
               => r \in raced' /\ (task[v].sender = e.sender => r \in overtaken')
  BY <1>1, <1>2 DEF MuxTyped, Meets
<1>8. MuxTyped'
  <2>1. TaskOK(t)
    BY <1>4, <1>5 DEF TaskOK
  <2>2. \A u \in Workers : TaskOK(task'[u])
    BY <1>6, <2>1
  <2>3. QED
    BY <1>1, <1>2, <1>3, <1>6, <1>16, <2>2 DEF MuxTyped, TaskOK
<1>9. \A u \in Senders : Owes(u) => Owes(u)' \/ Changes(e, u)
  <2> SUFFICES ASSUME NEW u \in Senders, NEW i \in 1 .. n + 1, Changes(queue[i], u),
                      ~Changes(e, u)
               PROVE  \E k \in 1 .. n : Changes(queue'[k], u)
    BY <1>3, Zenon DEF Owes, Changes, n
  <2>1. i # 1 /\ i - 1 \in 1 .. n /\ (i - 1) + 1 = i
    BY <1>3, <1>7
  <2>2. queue'[i - 1] = queue[i]
    BY <1>3, <2>1
  <2>3. QED
    BY <2>1, <2>2
<1>10. LastQueued'
  <2> SUFFICES ASSUME NEW u \in Senders, NEW i \in 1 .. n, Changes(queue'[i], u),
                      \A j \in 1 .. n : j > i => ~Changes(queue'[j], u)
               PROVE  linkUp[u] = (queue'[i].state = "CONNECTED")
    BY <1>1 DEF LastQueued, Changes, n
  <2>1. i + 1 \in 1 .. n + 1 /\ queue'[i] = queue[i + 1]
    BY <1>3, <1>7
  <2>2. ASSUME NEW k \in 1 .. n + 1, k > i + 1 PROVE ~Changes(queue[k], u)
    <3>1. k - 1 \in 1 .. n /\ (k - 1) + 1 = k /\ k - 1 > i
      BY <1>3, <2>2
    <3>2. queue'[k - 1] = queue[k]
      BY <1>3, <3>1
    <3>3. QED
      BY <3>1, <3>2
  <2>3. LastQueued /\ Len(queue) = n + 1
    BY <1>3 DEF DemandInv
  <2>4. linkUp[u] = (queue[i + 1].state = "CONNECTED")
    BY <2>1, <2>2, <2>3, Zenon DEF LastQueued
  <2>5. QED
    BY <2>1, <2>4
<1>17. ASSUME NEW u \in Senders, Changes(e, u), ~Owes(u)'
       PROVE  linkUp[u] = (e.state = "CONNECTED")
  <2>1. ASSUME NEW k \in 1 .. n + 1, k > 1 PROVE ~Changes(queue[k], u)
    <3>1. k - 1 \in 1 .. n /\ (k - 1) + 1 = k
      BY <1>3, <2>1
    <3>2. queue'[k - 1] = queue[k]
      BY <1>3, <3>1
    <3>3. ~Changes(queue'[k - 1], u)
      BY <1>17, <3>1, Zenon DEF Owes, Changes, n
    <3>4. QED
      BY <3>2, <3>3
  <2>2. LastQueued /\ Len(queue) = n + 1
    BY <1>3 DEF DemandInv
  <2>3. linkUp[u] = (queue[1].state = "CONNECTED")
    BY <1>3, <1>7, <1>17, <2>1, <2>2, Zenon DEF LastQueued
  <2>4. QED
    BY <1>3, <2>3
<1>11. LastHandled'
  <2> SUFFICES ASSUME NEW u \in Senders, NEW v \in Workers, NEW r \in Receivers, r \notin overtaken',
                      Visits(task'[v], u, r), ~Owes(u)'
               PROVE  linkUp[u] = (task'[v].state = "CONNECTED")
    BY <1>1 DEF LastHandled, Visits, Changes
  <2>1. CASE v = w
    BY <1>5, <1>6, <1>17, <2>1 DEF Visits, Changes
  <2>2. CASE v # w
    <3>1. Visits(task[v], u, r) /\ task'[v] = task[v] /\ r \notin overtaken
      BY <1>6, <1>16, <2>2
    <3>2. CASE Changes(e, u)
      <4>1. r \in Ahead(task[v]) /\ task[v].sender = u /\ e.sender = u /\ task[v].pc # "idle"
        BY <3>1, <3>2 DEF Visits, Changes, Ahead
      <4>2. r \in Connected[u]
        BY <1>2, <3>1, <4>1 DEF MuxTyped, TaskOK, Visits
      <4>3. ~Opposite(e.state, task[v].state)
        BY <1>16, <4>1, <4>2
      <4>4. e.state = task[v].state
        BY <3>1, <3>2, <4>3, OppositeStates DEF Visits, Changes
      <4>5. QED
        BY <1>17, <3>1, <3>2, <4>4
    <3>3. CASE ~Changes(e, u)
      BY <1>9, <3>1, <3>3 DEF DemandInv, LastHandled
    <3>4. QED
      BY <3>2, <3>3
  <2>3. QED
    BY <2>1, <2>2
<1>12. Applied'
  <2> SUFFICES ASSUME NEW u \in Senders, NEW r \in Connected[u], r \notin overtaken', ~Owes(u)',
                      \A v \in Workers : ~Visits(task'[v], u, r)
               PROVE  connection_demands[r][u] = linkUp[u]
    BY <1>1, Zenon DEF Applied, Visits, Changes
  <2>1. ~Changes(e, u)
    <3>1. ~Visits(t, u, r)
      BY <1>6
    <3>2. QED
      BY <1>5, <3>1 DEF Visits, Changes
  <2>2. ~Owes(u)
    BY <1>9, <2>1
  <2>3. \A v \in Workers : ~Visits(task[v], u, r)
    BY <1>1, <1>6 DEF Visits
  <2>4. r \in Connected[u] \ overtaken
    BY <1>16
  <2>5. QED
    BY <2>2, <2>3, <2>4, Zenon DEF DemandInv, Applied
<1>13. Apart'
  <2> SUFFICES ASSUME NEW u \in Workers, NEW v \in Workers,
                      NEW r \in Ahead(task'[u]) \cap Ahead(task'[v]),
                      Opposite(task'[u].state, task'[v].state)
               PROVE  r \in raced' /\ (task'[u].sender = task'[v].sender => r \in overtaken')
    BY DEF Apart, Ahead
  <2>1. \A x \in Workers : x # w /\ r \in Ahead(task'[x]) => task[x].pc # "idle" /\ task'[x] = task[x]
    BY <1>6 DEF Ahead
  <2>2. CASE u # w /\ v # w
    BY <1>16, <2>1, <2>2 DEF DemandInv, Apart
  <2>3. CASE u = w /\ v # w
    BY <1>5, <1>6, <1>16, <2>1, <2>3
  <2>4. CASE u # w /\ v = w
    BY <1>5, <1>6, <1>16, <2>1, <2>4, OppositeStates
  <2>5. CASE u = w /\ v = w
    BY <2>5, OppositeStates
  <2>6. QED
    BY <2>2, <2>3, <2>4, <2>5
<1>14. /\ \A v \in Workers, r \in Receivers : Telling(task'[v], r) <=> Telling(task[v], r)
       /\ \A v \in Workers, r \in Receivers : Telling(task[v], r) => task'[v] = task[v]
       /\ \A r \in Receivers : InDemand(r)' = InDemand(r)
  BY <1>1, <1>5, <1>6 DEF Telling, InDemand
<1>15. Told' /\ Withdrawn' /\ OnlyConnected'
  <2>1. Told'
    <3> SUFFICES ASSUME NEW r \in Receivers, r \notin raced'
                 PROVE  /\ (\A v \in Workers : ~Telling(task'[v], r)) => demand[r] = InDemand(r)
                        /\ \A v \in Workers : Telling(task'[v], r) => Right(task'[v], demand[r], InDemand(r))
      BY <1>1, <1>14 DEF Told, Telling, Right
    <3>1. r \in Receivers \ raced
      BY <1>16
    <3> QED
      BY <1>14, <3>1 DEF DemandInv, Told
  <2>2. Withdrawn'
    <3> SUFFICES ASSUME NEW r \in Receivers, r \notin overtaken'
                 PROVE  /\ demand[r] => \/ InDemand(r)
                                        \/ \E v \in Workers : Telling(task'[v], r) /\ task'[v].state = "DISCONNECTED"
                        /\ \A v \in Workers : Telling(task'[v], r) /\ task'[v].state = "CONNECTED"
                                                 => connection_demands[r][task'[v].sender]
      BY <1>1, <1>14 DEF Withdrawn, Telling
    <3>1. r \in Receivers \ overtaken
      BY <1>16
    <3> QED
      BY <1>14, <3>1 DEF DemandInv, Withdrawn
  <2>3. OnlyConnected'
    BY <1>1 DEF DemandInv, OnlyConnected
  <2> QED
    BY <2>1, <2>2, <2>3
<1>18. QED
  BY <1>8, <1>10, <1>11, <1>12, <1>13, <1>15 DEF DemandInv

\* A step of a task that keeps its event and has no more connections ahead.
LEMMA TaskStep ==
    ASSUME DemandInv, NEW w \in Workers, NEW t, task' = [task EXCEPT ![w] = t],
           UNCHANGED <<linkUp, queue, raced, overtaken>>, task[w].pc # "idle", TaskOK(t),
           t.pc # "idle" => /\ t.state = task[w].state /\ t.sender = task[w].sender
                            /\ t.left \subseteq task[w].left,
           Ahead(t) \subseteq Ahead(task[w])
    PROVE  /\ LastQueued' /\ LastHandled' /\ Apart'
           /\ task'[w] = t /\ \A v \in Workers : v # w => task'[v] = task[v]
           /\ DOMAIN task' = Workers /\ task' = [v \in Workers |-> task'[v]]
           /\ \A v \in Workers : TaskOK(task'[v])
           /\ \A u \in Senders : Owes(u)' = Owes(u)
<1>1. /\ task'[w] = t /\ \A v \in Workers : v # w => task'[v] = task[v]
      /\ DOMAIN task' = Workers /\ task' = [v \in Workers |-> task'[v]]
      /\ \A v \in Workers : TaskOK(task'[v])
  BY OneMoves DEF DemandInv
<1>2. \A u \in Senders : Owes(u)' = Owes(u)
  BY DEF Owes, Changes
<1>3. LastQueued'
  BY DEF DemandInv, LastQueued, Changes
<1>4. LastHandled'
  <2> SUFFICES ASSUME NEW u \in Senders, NEW v \in Workers, NEW r \in Receivers \ overtaken,
                      Visits(task'[v], u, r), ~Owes(u)
               PROVE  linkUp[u] = (task'[v].state = "CONNECTED")
    BY <1>2 DEF LastHandled, Visits, Changes
  <2>1. Visits(task[v], u, r) /\ task[v].state = task'[v].state
    BY <1>1 DEF Visits, Changes
  <2>2. QED
    BY <2>1 DEF DemandInv, LastHandled
<1>5. Apart'
  <2> SUFFICES ASSUME NEW u \in Workers, NEW v \in Workers,
                      NEW r \in Ahead(task'[u]) \cap Ahead(task'[v]),
                      Opposite(task'[u].state, task'[v].state)
               PROVE  r \in raced /\ (task'[u].sender = task'[v].sender => r \in overtaken)
    BY DEF Apart, Ahead
  <2>1. \A x \in Workers : r \in Ahead(task'[x]) =>
            r \in Ahead(task[x]) /\ task[x].state = task'[x].state /\ task[x].sender = task'[x].sender
    <3>1. r \in Ahead(t) => t.pc # "idle"
      BY DEF Ahead
    <3> QED
      BY <1>1, <3>1
  <2>2. QED
    BY <2>1 DEF DemandInv, Apart
<1>6. QED
  BY <1>1, <1>2, <1>3, <1>4, <1>5

\* A step that leaves the connector's map alone: what is left is the receiver.
LEMMA TourStep ==
    ASSUME DemandInv, NEW w \in Workers, NEW t, task' = [task EXCEPT ![w] = t],
           UNCHANGED <<linkUp, queue, connection_demands, raced, overtaken>>,
           task[w].pc # "idle", TaskOK(t),
           t.pc # "idle" => /\ t.state = task[w].state /\ t.sender = task[w].sender
                            /\ t.left \subseteq task[w].left,
           Ahead(t) \subseteq Ahead(task[w]),
           task[w].state \in {"CONNECTED", "DISCONNECTED"}
               => task[w].left = IF t.pc = "idle" THEN {} ELSE t.left,
           demand' \in [Receivers -> BOOLEAN]
    PROVE  /\ task'[w] = t /\ \A v \in Workers : v # w => task'[v] = task[v]
           /\ \A r \in Receivers : InDemand(r)' = InDemand(r)
           /\ Told' /\ Withdrawn' => DemandInv'
<1>1. /\ LastQueued' /\ LastHandled' /\ Apart'
      /\ task'[w] = t /\ \A v \in Workers : v # w => task'[v] = task[v]
      /\ DOMAIN task' = Workers /\ task' = [v \in Workers |-> task'[v]]
      /\ \A v \in Workers : TaskOK(task'[v])
      /\ \A u \in Senders : Owes(u)' = Owes(u)
  BY TaskStep
<1>2. MuxTyped'
  BY <1>1 DEF DemandInv, MuxTyped, TaskOK
<1>3. Applied'
  <2> SUFFICES ASSUME NEW s \in Senders, NEW r \in Connected[s] \ overtaken, ~Owes(s)',
                      \A v \in Workers : ~Visits(task'[v], s, r)
               PROVE  connection_demands[r][s] = linkUp[s]
    <3>1. linkUp' = linkUp /\ connection_demands' = connection_demands /\ overtaken' = overtaken
      OBVIOUS
    <3>2. QED
      BY <3>1, Zenon DEF Applied, Visits, Changes
  <2>1. \A v \in Workers : ~Visits(task[v], s, r)
    BY <1>1 DEF Visits, Changes
  <2>2. ~Owes(s)
    BY <1>1
  <2>3. QED
    BY <2>1, <2>2, Zenon DEF DemandInv, Applied
<1>4. \A r \in Receivers : InDemand(r)' = InDemand(r)
  BY DEF InDemand
<1>5. OnlyConnected'
  BY DEF DemandInv, OnlyConnected
<1>6. QED
  BY <1>1, <1>2, <1>3, <1>4, <1>5 DEF DemandInv

\* What the receivers know, with the quantifiers over the next state removed.
LEMMA ToldNext ==
    ASSUME \A r \in Receivers : r \notin raced' =>
               /\ (\A w \in Workers : ~Telling(task'[w], r)) => demand'[r] = InDemand(r)'
               /\ \A w \in Workers : Telling(task'[w], r) => Right(task'[w], demand'[r], InDemand(r)'),
           \A r \in Receivers : r \notin overtaken' =>
               /\ demand'[r] => \/ InDemand(r)'
                                \/ \E w \in Workers : Telling(task'[w], r) /\ task'[w].state = "DISCONNECTED"
               /\ \A w \in Workers : Telling(task'[w], r) /\ task'[w].state = "CONNECTED"
                                        => connection_demands'[r][task'[w].sender]
    PROVE  Told' /\ Withdrawn'
  BY DEF Told, Withdrawn, Telling, Right

\* Recheck: a demand that is still there ends the matter, else the end of it
\* is to be told.
LEMMA RecheckKeepsDemand ==
    ASSUME DemandInv, NEW w \in Workers, Recheck(w) PROVE DemandInv'
<1> DEFINE p == task[w]
           t == [p EXCEPT !.pc = IF InDemand(p.rcv) THEN "skip" ELSE "forward"]
<1>1. /\ TaskOK(p) /\ demand \in [Receivers -> BOOLEAN] /\ DOMAIN task = Workers
      /\ Told /\ Withdrawn
  BY DEF DemandInv, MuxTyped
<1>2. /\ p.pc = "recheck" /\ task' = [task EXCEPT ![w] = t]
      /\ UNCHANGED <<linkUp, queue, connection_demands, demand, raced, overtaken>>
  BY <1>1 DEF Recheck, muxHistory
<1>3. p \in Halfway /\ p.state = "DISCONNECTED" /\ p.left \subseteq Connected[p.sender]
  BY <1>1, <1>2 DEF TaskOK
<1>4. /\ t \in Halfway
      /\ t.state = p.state /\ t.sender = p.sender /\ t.left = p.left /\ t.rcv = p.rcv
      /\ t.pc = IF InDemand(p.rcv) THEN "skip" ELSE "forward"
  BY <1>3 DEF Halfway
<1> HIDE DEF t, p
<1>5. TaskOK(t) /\ Ahead(t) \subseteq Ahead(p)
  BY <1>1, <1>2, <1>3, <1>4 DEF TaskOK, Halfway, Ahead
<1>6. /\ task'[w] = t /\ \A v \in Workers : v # w => task'[v] = task[v]
      /\ \A r \in Receivers : InDemand(r)' = InDemand(r)
      /\ Told' /\ Withdrawn' => DemandInv'
  BY <1>1, <1>2, <1>3, <1>4, <1>5, TourStep DEF p
<1>7. \A r \in Receivers : /\ Telling(p, r) <=> p.rcv = r
                           /\ Telling(t, r) <=> p.rcv = r /\ ~InDemand(r)
  BY <1>2, <1>3, <1>4 DEF Telling
<1>8. ASSUME NEW r \in Receivers, r \notin raced'
      PROVE  /\ (\A v \in Workers : ~Telling(task'[v], r)) => demand'[r] = InDemand(r)'
             /\ \A v \in Workers : Telling(task'[v], r) => Right(task'[v], demand'[r], InDemand(r)')
  <2>1. r \in Receivers \ raced /\ demand'[r] = demand[r] /\ demand[r] \in BOOLEAN
        /\ InDemand(r)' = InDemand(r) /\ InDemand(r) \in BOOLEAN
    BY <1>1, <1>2, <1>6, <1>8 DEF InDemand
  <2>2. /\ (\A v \in Workers : ~Telling(task[v], r)) => demand[r] = InDemand(r)
        /\ \A v \in Workers : Telling(task[v], r) => Right(task[v], demand[r], InDemand(r))
    BY <1>1, <2>1 DEF Told
  <2>3. Telling(p, r) => (InDemand(r) => demand[r])
    BY <1>3, <2>2 DEF Right, p
  <2>4. ASSUME \A v \in Workers : ~Telling(task'[v], r) PROVE demand[r] = InDemand(r)
    <3>1. CASE Telling(p, r)
      BY <1>6, <1>7, <2>1, <2>3, <2>4, <3>1
    <3>2. CASE ~Telling(p, r)
      BY <1>6, <2>2, <2>4, <3>2 DEF p
    <3>3. QED
      BY <3>1, <3>2
  <2>5. ASSUME NEW v \in Workers, Telling(task'[v], r) PROVE Right(task'[v], demand[r], InDemand(r))
    <3>1. CASE v = w
      BY <1>3, <1>4, <1>6, <1>7, <2>5, <3>1 DEF Right
    <3>2. CASE v # w
      BY <1>6, <2>2, <2>5, <3>2
    <3>3. QED
      BY <3>1, <3>2
  <2>6. QED
    BY <2>1, <2>4, <2>5
<1>9. ASSUME NEW r \in Receivers, r \notin overtaken'
      PROVE  /\ demand'[r] => \/ InDemand(r)'
                              \/ \E v \in Workers : Telling(task'[v], r) /\ task'[v].state = "DISCONNECTED"
             /\ \A v \in Workers : Telling(task'[v], r) /\ task'[v].state = "CONNECTED"
                                      => connection_demands'[r][task'[v].sender]
  <2>1. r \in Receivers \ overtaken /\ demand'[r] = demand[r] /\ InDemand(r)' = InDemand(r)
    BY <1>2, <1>6, <1>9
  <2>2. /\ demand[r] => \/ InDemand(r)
                        \/ \E v \in Workers : Telling(task[v], r) /\ task[v].state = "DISCONNECTED"
        /\ \A v \in Workers : Telling(task[v], r) /\ task[v].state = "CONNECTED"
                                 => connection_demands[r][task[v].sender]
    BY <1>1, <2>1 DEF Withdrawn
  <2>3. \A v \in Workers : ~InDemand(r) /\ Telling(task[v], r)
            => Telling(task'[v], r) /\ task'[v].state = task[v].state
    BY <1>4, <1>6, <1>7 DEF p
  <2>4. \A v \in Workers : task'[v].state = "CONNECTED" => task'[v] = task[v]
    BY <1>3, <1>4, <1>6
  <2>5. QED
    BY <1>2, <2>1, <2>2, <2>3, <2>4
<1>10. QED
  BY <1>6, <1>8, <1>9, ToldNext

\* Forward: the receiver is told what the map says.
LEMMA ForwardKeepsDemand ==
    ASSUME DemandInv, NEW w \in Workers, Forward(w) PROVE DemandInv'
<1> DEFINE p == task[w]
           t == [p EXCEPT !.pc = "skip"]
<1>1. /\ TaskOK(p) /\ demand \in [Receivers -> BOOLEAN] /\ DOMAIN task = Workers
      /\ Told /\ Withdrawn
  BY DEF DemandInv, MuxTyped
<1>2. /\ p.pc = "forward" /\ task' = [task EXCEPT ![w] = t]
      /\ demand' = [demand EXCEPT ![p.rcv] =
                  CASE p.state = "CONNECTED"    -> TRUE
                    [] p.state = "DISCONNECTED" -> FALSE
                    [] OTHER                    -> @]
      /\ UNCHANGED <<linkUp, queue, connection_demands, raced, overtaken>>
  BY <1>1 DEF Forward, muxHistory
<1>3. p \in Halfway /\ p.left \subseteq Connected[p.sender]
  BY <1>1, <1>2 DEF TaskOK
<1>4. /\ t \in Halfway /\ t.pc = "skip"
      /\ t.state = p.state /\ t.sender = p.sender /\ t.left = p.left /\ t.rcv = p.rcv
  BY <1>3 DEF Halfway
<1> HIDE DEF t, p
<1>5. TaskOK(t) /\ Ahead(t) \subseteq Ahead(p)
  BY <1>1, <1>2, <1>3, <1>4 DEF TaskOK, Halfway, Ahead
<1>6. /\ demand' \in [Receivers -> BOOLEAN]
      /\ \A r \in Receivers : ~Telling(p, r) => demand'[r] = demand[r]
      /\ p.state = "CONNECTED" => demand'[p.rcv] = TRUE
      /\ p.state = "DISCONNECTED" => demand'[p.rcv] = FALSE
  <2>1. demand' \in [Receivers -> BOOLEAN]
    BY <1>1, <1>2
  <2>2. p.rcv \in Receivers
    BY <1>3 DEF Halfway
  <2>3. ASSUME NEW r \in Receivers, ~Telling(p, r) PROVE demand'[r] = demand[r]
    <3>1. CASE r # p.rcv
      BY <1>1, <1>2, <3>1
    <3>2. CASE r = p.rcv
      <4>1. p.state \notin {"CONNECTED", "DISCONNECTED"}
        BY <1>2, <2>3, <3>2 DEF Telling
      <4>2. QED
        BY <1>1, <1>2, <2>2, <3>2, <4>1
    <3>3. QED
      BY <3>1, <3>2
  <2>4. p.state = "CONNECTED" => demand'[p.rcv] = TRUE
    BY <1>1, <1>2, <2>2
  <2>5. p.state = "DISCONNECTED" => demand'[p.rcv] = FALSE
    BY <1>1, <1>2, <2>2
  <2>6. QED
    BY <2>1, <2>3, <2>4, <2>5
<1>7. /\ task'[w] = t /\ \A v \in Workers : v # w => task'[v] = task[v]
      /\ \A r \in Receivers : InDemand(r)' = InDemand(r)
      /\ Told' /\ Withdrawn' => DemandInv'
  BY <1>1, <1>2, <1>3, <1>4, <1>5, <1>6, TourStep DEF p
<1>8. /\ \A r \in Receivers : ~Telling(t, r)
      /\ \A r \in Receivers : Telling(p, r) => p.rcv = r /\ p.state \in {"CONNECTED", "DISCONNECTED"}
      /\ \A v \in Workers, r \in Receivers : Telling(task'[v], r) => v # w /\ task'[v] = task[v] /\ Telling(task[v], r)
  BY <1>4, <1>7 DEF Telling
<1>9. ASSUME NEW r \in Receivers, r \notin raced'
      PROVE  /\ (\A v \in Workers : ~Telling(task'[v], r)) => demand'[r] = InDemand(r)'
             /\ \A v \in Workers : Telling(task'[v], r) => Right(task'[v], demand'[r], InDemand(r)')
  <2>1. /\ r \in Receivers \ raced /\ demand[r] \in BOOLEAN /\ demand'[r] \in BOOLEAN
        /\ InDemand(r)' = InDemand(r) /\ InDemand(r) \in BOOLEAN
    BY <1>1, <1>2, <1>6, <1>7, <1>9 DEF InDemand
  <2>2. /\ (\A v \in Workers : ~Telling(task[v], r)) => demand[r] = InDemand(r)
        /\ \A v \in Workers : Telling(task[v], r) => Right(task[v], demand[r], InDemand(r))
    BY <1>1, <2>1 DEF Told
  <2>3. CASE Telling(p, r)
    <3>1. demand'[r] = InDemand(r)
      <4>1. Right(p, demand[r], InDemand(r))
        BY <2>2, <2>3 DEF p
      <4>2. CASE p.state = "CONNECTED"
        BY <1>6, <1>8, <2>1, <2>3, <4>1, <4>2 DEF Right
      <4>3. CASE p.state = "DISCONNECTED"
        BY <1>2, <1>6, <1>8, <2>1, <2>3, <4>1, <4>3 DEF Right
      <4>4. QED
        BY <1>8, <2>3, <4>2, <4>3
    <3>2. ASSUME NEW v \in Workers, Telling(task'[v], r) PROVE Right(task'[v], InDemand(r), InDemand(r))
      <4>1. task'[v] = task[v] /\ Right(task[v], demand[r], InDemand(r))
        BY <1>8, <2>2, <3>2
      <4>2. QED
        BY <2>1, <4>1 DEF Right
    <3>3. QED
      BY <2>1, <3>1, <3>2
  <2>4. CASE ~Telling(p, r)
    <3>1. demand'[r] = demand[r]
      BY <1>6, <2>4
    <3>2. \A v \in Workers : Telling(task[v], r) => Telling(task'[v], r)
      BY <1>7, <2>4 DEF p
    <3>3. QED
      BY <1>8, <2>1, <2>2, <3>1, <3>2
  <2>5. QED
    BY <2>3, <2>4
<1>10. ASSUME NEW r \in Receivers, r \notin overtaken'
       PROVE  /\ demand'[r] => \/ InDemand(r)'
                               \/ \E v \in Workers : Telling(task'[v], r) /\ task'[v].state = "DISCONNECTED"
              /\ \A v \in Workers : Telling(task'[v], r) /\ task'[v].state = "CONNECTED"
                                       => connection_demands'[r][task'[v].sender]
  <2>1. r \in Receivers \ overtaken /\ InDemand(r)' = InDemand(r)
    BY <1>2, <1>7, <1>10
  <2>2. /\ demand[r] => \/ InDemand(r)
                        \/ \E v \in Workers : Telling(task[v], r) /\ task[v].state = "DISCONNECTED"
        /\ \A v \in Workers : Telling(task[v], r) /\ task[v].state = "CONNECTED"
                                 => connection_demands[r][task[v].sender]
    BY <1>1, <2>1 DEF Withdrawn
  <2>3. CASE Telling(p, r)
    <3>1. CASE p.state = "CONNECTED"
      <4>1. connection_demands[r][p.sender] /\ p.sender \in Senders
        BY <1>3, <2>2, <2>3, <3>1 DEF p, Halfway
      <4>2. InDemand(r)
        BY <4>1 DEF InDemand
      <4>3. QED
        BY <1>2, <1>8, <2>1, <2>2, <4>2
    <3>2. CASE p.state = "DISCONNECTED"
      BY <1>2, <1>6, <1>8, <2>2, <2>3, <3>2
    <3>3. QED
      BY <1>8, <2>3, <3>1, <3>2
  <2>4. CASE ~Telling(p, r)
    <3>1. demand'[r] = demand[r]
      BY <1>6, <2>4
    <3>2. \A v \in Workers : Telling(task[v], r) => Telling(task'[v], r)
      BY <1>7, <2>4 DEF p
    <3>3. QED
      BY <1>2, <1>8, <2>1, <2>2, <3>1, <3>2
  <2>5. QED
    BY <2>3, <2>4
<1>11. QED
  BY <1>7, <1>9, <1>10, ToldNext

\* The receivers know what they knew, when nobody starts or stops telling.
LEMMA NothingTold ==
    ASSUME DemandInv, UNCHANGED <<connection_demands, demand, raced, overtaken>>,
           \A r \in Receivers : InDemand(r)' = InDemand(r),
           \A v \in Workers, r \in Receivers :
               /\ Telling(task'[v], r) <=> Telling(task[v], r)
               /\ Telling(task[v], r) => task'[v] = task[v]
    PROVE  Told' /\ Withdrawn'
<1>1. Told /\ Withdrawn
  BY DEF DemandInv
<1>2. ASSUME NEW r \in Receivers, r \notin raced'
      PROVE  /\ (\A v \in Workers : ~Telling(task'[v], r)) => demand'[r] = InDemand(r)'
             /\ \A v \in Workers : Telling(task'[v], r) => Right(task'[v], demand'[r], InDemand(r)')
  BY <1>1, <1>2 DEF Told
<1>3. ASSUME NEW r \in Receivers, r \notin overtaken'
      PROVE  /\ demand'[r] => \/ InDemand(r)'
                              \/ \E v \in Workers : Telling(task'[v], r) /\ task'[v].state = "DISCONNECTED"
             /\ \A v \in Workers : Telling(task'[v], r) /\ task'[v].state = "CONNECTED"
                                      => connection_demands'[r][task'[v].sender]
  BY <1>1, <1>3 DEF Withdrawn
<1>4. QED
  BY <1>2, <1>3, ToldNext

\* Continue: the tour goes on to its next connection, or ends.
LEMMA ContinueKeepsDemand ==
    ASSUME DemandInv, NEW w \in Workers, Continue(w) PROVE DemandInv'
<1> DEFINE p == task[w]
<1>1. TaskOK(p) /\ demand \in [Receivers -> BOOLEAN] /\ DOMAIN task = Workers
  BY DEF DemandInv, MuxTyped
<1>2. /\ p.pc \in {"skip", "loop"}
      /\ UNCHANGED <<linkUp, queue, connection_demands, demand, raced, overtaken>>
      /\ \/ /\ p.pc = "skip"
            /\ task' = [task EXCEPT ![w] = Loop(p.state, p.sender, p.left)]
         \/ /\ p.left = {}
            /\ task' = [task EXCEPT ![w] = NoTask]
  BY <1>1 DEF Continue, muxHistory
<1> HIDE DEF p
<1>3. PICK t : /\ t \in {Loop(p.state, p.sender, p.left), NoTask}
               /\ t = NoTask => p.left = {}
               /\ task' = [task EXCEPT ![w] = t]
  <2>1. Loop(p.state, p.sender, p.left).pc # NoTask.pc
    BY DEF Loop, NoTask
  <2>2. QED
    BY <1>2, <2>1
<1>4. /\ t.pc \in {"loop", "idle"}
      /\ t.pc = "loop" => t.state = p.state /\ t.sender = p.sender /\ t.left = p.left
      /\ t.pc = "idle" => p.left = {}
  BY <1>3 DEF Loop, NoTask
<1>5. TaskOK(t) /\ Ahead(t) \subseteq Ahead(p)
  BY <1>1, <1>2, <1>4 DEF TaskOK, Ahead
<1>6. /\ task'[w] = t /\ \A v \in Workers : v # w => task'[v] = task[v]
      /\ \A r \in Receivers : InDemand(r)' = InDemand(r)
      /\ Told' /\ Withdrawn' => DemandInv'
  BY <1>1, <1>2, <1>3, <1>4, <1>5, TourStep DEF p
<1>7. \A r \in Receivers : ~Telling(p, r) /\ ~Telling(t, r)
  BY <1>2, <1>4 DEF Telling
<1>8. QED
  BY <1>2, <1>6, <1>7, NothingTold DEF p

\* The connector's map changes for the connection a task is at: what is left
\* is that connection's receiver.
LEMMA MapStep ==
    ASSUME DemandInv, NEW w \in Workers, NEW r \in Receivers, task[w].pc = "loop", r \in task[w].left,
           NEW t, t.state = task[w].state, t.sender = task[w].sender, t.left = task[w].left \ {r},
           t.rcv = r, t.pc \in {"recheck", "forward", "skip"}, TaskOK(t),
           task' = [task EXCEPT ![w] = t], NEW up \in BOOLEAN,
           task[w].state = IF up THEN "CONNECTED" ELSE "DISCONNECTED",
           connection_demands' = [connection_demands EXCEPT ![r][task[w].sender] = up],
           UNCHANGED <<linkUp, queue, demand, raced, overtaken>>
    PROVE  /\ task'[w] = t /\ \A v \in Workers : v # w => task'[v] = task[v]
           /\ \A v \in Receivers, u \in Senders :
                 v # r \/ u # task[w].sender => connection_demands'[v][u] = connection_demands[v][u]
           /\ \A v \in Receivers : v # r => InDemand(v)' = InDemand(v)
           /\ Told' /\ Withdrawn' => DemandInv'
<1> DEFINE s == task[w].sender
<1>1. /\ TaskOK(task[w]) /\ connection_demands \in [Receivers -> [Senders -> BOOLEAN]]
  BY DEF DemandInv, MuxTyped
<1>2. s \in Senders /\ task[w].left \subseteq Connected[s]
  BY <1>1 DEF TaskOK
<1>3. Ahead(t) \subseteq Ahead(task[w])
  BY DEF Ahead
<1>4. /\ LastQueued' /\ LastHandled' /\ Apart'
      /\ task'[w] = t /\ \A v \in Workers : v # w => task'[v] = task[v]
      /\ DOMAIN task' = Workers /\ task' = [v \in Workers |-> task'[v]]
      /\ \A v \in Workers : TaskOK(task'[v])
      /\ \A u \in Senders : Owes(u)' = Owes(u)
  BY <1>3, TaskStep
<1>5. /\ connection_demands' \in [Receivers -> [Senders -> BOOLEAN]]
      /\ connection_demands'[r][s] = up
      /\ \A v \in Receivers, u \in Senders :
            v # r \/ u # s => connection_demands'[v][u] = connection_demands[v][u]
  BY <1>1, <1>2
<1>6. MuxTyped'
  BY <1>4, <1>5 DEF DemandInv, MuxTyped, TaskOK
<1>7. Applied'
  <2> SUFFICES ASSUME NEW u \in Senders, NEW v \in Connected[u] \ overtaken, ~Owes(u)',
                      \A x \in Workers : ~Visits(task'[x], u, v)
               PROVE  connection_demands'[v][u] = linkUp[u]
    <3>1. linkUp' = linkUp /\ overtaken' = overtaken
      OBVIOUS
    <3>2. QED
      BY <3>1, Zenon DEF Applied, Visits, Changes
  <2>1. v \in Receivers /\ ~Owes(u)
    BY <1>4, TopologyAssumption
  <2>2. CASE v = r /\ u = s
    <3>1. Visits(task[w], s, r)
      BY DEF Visits, Changes
    <3>2. linkUp[s] = (task[w].state = "CONNECTED")
      BY <1>2, <2>1, <2>2, <3>1 DEF DemandInv, LastHandled
    <3>3. QED
      BY <1>5, <2>2, <3>2
  <2>3. CASE v # r \/ u # s
    <3>1. \A x \in Workers : ~Visits(task[x], u, v)
      BY <1>4, <2>3 DEF Visits, Changes
    <3>2. connection_demands[v][u] = linkUp[u]
      BY <2>1, <3>1, Zenon DEF DemandInv, Applied
    <3>3. QED
      BY <1>5, <2>1, <2>3, <3>2
  <2>4. QED
    BY <2>2, <2>3
<1>8. OnlyConnected'
  BY <1>2, <1>5 DEF DemandInv, OnlyConnected
<1>9. \A v \in Receivers : v # r => InDemand(v)' = InDemand(v)
  BY <1>5 DEF InDemand
<1>10. QED
  BY <1>4, <1>5, <1>6, <1>7, <1>8, <1>9 DEF DemandInv

\* A task at the connection to r has r ahead; so has one that is telling r.
LEMMA OthersAt ==
    ASSUME DemandInv, NEW w \in Workers, NEW r \in Receivers, task[w].pc = "loop", r \in task[w].left,
           NEW v \in Workers, Telling(task[v], r), Opposite(task[v].state, task[w].state)
    PROVE  r \in raced /\ (task[v].sender = task[w].sender => r \in overtaken)
<1>1. r \in Ahead(task[w]) /\ r \in Ahead(task[v])
  BY DEF Ahead, Telling
<1>2. QED
  BY <1>1 DEF DemandInv, Apart

\* DISCONNECTED: the map no longer has this sender's demand, and the receiver
\* is to hear of it unless another one is left.
LEMMA DisconnectedKeepsDemand ==
    ASSUME DemandInv, NEW w \in Workers, NEW r \in Receivers, Mux(w, r), MuxDisconnected(w, r)
    PROVE  DemandInv'
<1> DEFINE p == task[w]
           t == At("recheck", p, r)
<1>1. /\ TaskOK(p) /\ demand \in [Receivers -> BOOLEAN] /\ Told /\ Withdrawn
      /\ connection_demands \in [Receivers -> [Senders -> BOOLEAN]]
  BY DEF DemandInv, MuxTyped
<1>2. /\ p.pc = "loop" /\ r \in p.left /\ p.state = "DISCONNECTED"
      /\ connection_demands' = [connection_demands EXCEPT ![r][p.sender] = FALSE]
      /\ task' = [task EXCEPT ![w] = t]
      /\ UNCHANGED <<linkUp, queue, demand, raced, overtaken>>
  BY DEF Mux, MuxDisconnected, muxHistory
<1>3. p.sender \in Senders /\ p.left \subseteq Connected[p.sender] /\ p.left \subseteq Receivers
  BY <1>1, <1>2, TopologyAssumption DEF TaskOK
<1>4. /\ TaskOK(t) /\ t.pc = "recheck" /\ t.state = p.state /\ t.sender = p.sender
      /\ t.left = p.left \ {r} /\ t.rcv = r
  BY <1>1, <1>2, <1>3 DEF At, TaskOK, Halfway
<1> HIDE DEF t
<1>5. /\ task'[w] = t /\ \A v \in Workers : v # w => task'[v] = task[v]
      /\ \A v \in Receivers, u \in Senders :
            v # r \/ u # p.sender => connection_demands'[v][u] = connection_demands[v][u]
      /\ \A v \in Receivers : v # r => InDemand(v)' = InDemand(v)
      /\ Told' /\ Withdrawn' => DemandInv'
  BY <1>2, <1>4, MapStep
<1> HIDE DEF p
<1>6. InDemand(r)' => InDemand(r)
  BY <1>1, <1>2, <1>3 DEF InDemand
<1>7. /\ Telling(t, r) /\ \A v \in Receivers : ~Telling(p, v) /\ (v # r => ~Telling(t, v))
      /\ \A x \in Workers, v \in Receivers : x # w \/ v # r => (Telling(task'[x], v) <=> Telling(task[x], v))
      /\ \A x \in Workers, v \in Receivers : Telling(task[x], v) => x # w /\ task'[x] = task[x]
  BY <1>2, <1>4, <1>5 DEF Telling, p
<1>8. \A x \in Workers : Telling(task[x], r) /\ task[x].state = "CONNECTED"
          => r \in raced /\ (task[x].sender = p.sender => r \in overtaken)
  BY <1>2, OthersAt, OppositeStates DEF p
<1>9. ASSUME NEW v \in Receivers, v \notin raced'
      PROVE  /\ (\A x \in Workers : ~Telling(task'[x], v)) => demand'[v] = InDemand(v)'
             /\ \A x \in Workers : Telling(task'[x], v) => Right(task'[x], demand'[v], InDemand(v)')
  <2>1. /\ v \in Receivers \ raced /\ demand'[v] = demand[v] /\ demand[v] \in BOOLEAN
        /\ InDemand(v) \in BOOLEAN /\ InDemand(v)' \in BOOLEAN
    BY <1>1, <1>2, <1>9 DEF InDemand
  <2>2. /\ (\A x \in Workers : ~Telling(task[x], v)) => demand[v] = InDemand(v)
        /\ \A x \in Workers : Telling(task[x], v) => Right(task[x], demand[v], InDemand(v))
    BY <1>1, <2>1 DEF Told
  <2>3. CASE v = r
    <3>1. \A x \in Workers : Telling(task[x], r) =>
              (InDemand(r) => demand[r]) /\ (task[x].pc = "forward" => ~InDemand(r))
      BY <1>8, <2>1, <2>2, <2>3 DEF Right
    <3>2. InDemand(r) => demand[r]
      BY <2>2, <2>3, <3>1
    <3>3. ASSUME NEW x \in Workers, Telling(task'[x], r) PROVE Right(task'[x], demand[r], InDemand(r)')
      <4>1. CASE x = w
        BY <1>2, <1>4, <1>5, <1>6, <3>2, <4>1 DEF Right
      <4>2. CASE x # w
        <5>1. Telling(task[x], r) /\ task'[x] = task[x] /\ task[x].state # "CONNECTED"
          BY <1>5, <1>8, <2>1, <2>3, <3>3, <4>2
        <5>2. QED
          BY <1>6, <3>1, <5>1 DEF Right
      <4>3. QED
        BY <4>1, <4>2
    <3>4. QED
      BY <1>5, <1>7, <2>1, <2>3, <3>3
  <2>4. CASE v # r
    BY <1>5, <1>7, <2>1, <2>2, <2>4
  <2>5. QED
    BY <2>3, <2>4
<1>10. ASSUME NEW v \in Receivers, v \notin overtaken'
       PROVE  /\ demand'[v] => \/ InDemand(v)'
                               \/ \E x \in Workers : Telling(task'[x], v) /\ task'[x].state = "DISCONNECTED"
              /\ \A x \in Workers : Telling(task'[x], v) /\ task'[x].state = "CONNECTED"
                                       => connection_demands'[v][task'[x].sender]
  <2>1. v \in Receivers \ overtaken /\ demand'[v] = demand[v]
    BY <1>2, <1>10
  <2>2. /\ demand[v] => \/ InDemand(v)
                        \/ \E x \in Workers : Telling(task[x], v) /\ task[x].state = "DISCONNECTED"
        /\ \A x \in Workers : Telling(task[x], v) /\ task[x].state = "CONNECTED"
                                 => connection_demands[v][task[x].sender]
    BY <1>1, <2>1 DEF Withdrawn
  <2>3. ASSUME NEW x \in Workers, Telling(task'[x], v), task'[x].state = "CONNECTED"
        PROVE  connection_demands'[v][task'[x].sender]
    <3>1. x # w /\ task'[x] = task[x] /\ Telling(task[x], v)
      BY <1>2, <1>4, <1>5, <2>3
    <3>2. v = r => task[x].sender # p.sender
      BY <1>8, <2>1, <2>3, <3>1
    <3>3. task[x].sender \in Senders
      BY <3>1 DEF DemandInv, MuxTyped, TaskOK, Telling
    <3>4. QED
      BY <1>5, <2>2, <2>3, <3>1, <3>2, <3>3
  <2>4. demand'[v] => \/ InDemand(v)'
                      \/ \E x \in Workers : Telling(task'[x], v) /\ task'[x].state = "DISCONNECTED"
    <3>1. CASE v = r
      BY <1>2, <1>4, <1>5, <1>7, <3>1
    <3>2. CASE v # r
      BY <1>5, <1>7, <2>1, <2>2, <3>2
    <3>3. QED
      BY <3>1, <3>2
  <2>5. QED
    BY <2>3, <2>4
<1>11. QED
  BY <1>5, <1>9, <1>10, ToldNext

\* CONNECTED: the map has this sender's demand, which is passed on if it is new.
LEMMA ConnectedKeepsDemand ==
    ASSUME DemandInv, NEW w \in Workers, NEW r \in Receivers, Mux(w, r), MuxConnected(w, r)
    PROVE  DemandInv'
<1> DEFINE p == task[w]
           place == NextAfterMux(~connection_demands[r][p.sender])
           t == At(place, p, r)
<1>1. /\ TaskOK(p) /\ demand \in [Receivers -> BOOLEAN] /\ Told /\ Withdrawn
      /\ connection_demands \in [Receivers -> [Senders -> BOOLEAN]]
  BY DEF DemandInv, MuxTyped
<1>2. /\ p.pc = "loop" /\ r \in p.left /\ p.state = "CONNECTED"
      /\ connection_demands' = [connection_demands EXCEPT ![r][p.sender] = TRUE]
      /\ task' = [task EXCEPT ![w] = t]
      /\ UNCHANGED <<linkUp, queue, demand, raced, overtaken>>
  BY DEF Mux, MuxConnected, muxHistory
<1>3. p.sender \in Senders /\ p.left \subseteq Connected[p.sender] /\ p.left \subseteq Receivers
  BY <1>1, <1>2, TopologyAssumption DEF TaskOK
<1>4. place \in {"forward", "skip"} /\ (place = "skip" => connection_demands[r][p.sender])
  BY DEF NextAfterMux
<1> HIDE DEF place
<1>5. /\ TaskOK(t) /\ t.pc = place /\ t.state = p.state /\ t.sender = p.sender
      /\ t.left = p.left \ {r} /\ t.rcv = r
  BY <1>1, <1>2, <1>3, <1>4 DEF At, TaskOK, Halfway
<1> HIDE DEF t
<1>6. /\ task'[w] = t /\ \A v \in Workers : v # w => task'[v] = task[v]
      /\ \A v \in Receivers, u \in Senders :
            v # r \/ u # p.sender => connection_demands'[v][u] = connection_demands[v][u]
      /\ \A v \in Receivers : v # r => InDemand(v)' = InDemand(v)
      /\ Told' /\ Withdrawn' => DemandInv'
  BY <1>2, <1>4, <1>5, MapStep
<1> HIDE DEF p
<1>7. /\ InDemand(r)' = TRUE /\ (place = "skip" => InDemand(r) = TRUE)
      /\ connection_demands'[r][p.sender] = TRUE
  BY <1>1, <1>2, <1>3, <1>4 DEF InDemand
<1>8. /\ Telling(t, r) <=> place = "forward"
      /\ \A v \in Receivers : ~Telling(p, v) /\ (v # r => ~Telling(t, v))
      /\ \A x \in Workers, v \in Receivers : x # w \/ v # r => (Telling(task'[x], v) <=> Telling(task[x], v))
      /\ \A x \in Workers, v \in Receivers : Telling(task[x], v) => x # w /\ task'[x] = task[x]
  BY <1>2, <1>4, <1>5, <1>6 DEF Telling, p
<1>9. \A x \in Workers : Telling(task[x], r) /\ task[x].state = "DISCONNECTED" => r \in raced
  BY <1>2, OthersAt, OppositeStates DEF p
<1>10. ASSUME NEW v \in Receivers, v \notin raced'
       PROVE  /\ (\A x \in Workers : ~Telling(task'[x], v)) => demand'[v] = InDemand(v)'
              /\ \A x \in Workers : Telling(task'[x], v) => Right(task'[x], demand'[v], InDemand(v)')
  <2>1. /\ v \in Receivers \ raced /\ demand'[v] = demand[v] /\ demand[v] \in BOOLEAN
        /\ InDemand(v) \in BOOLEAN /\ InDemand(v)' \in BOOLEAN
    BY <1>1, <1>2, <1>10 DEF InDemand
  <2>2. /\ (\A x \in Workers : ~Telling(task[x], v)) => demand[v] = InDemand(v)
        /\ \A x \in Workers : Telling(task[x], v) => Right(task[x], demand[v], InDemand(v))
    BY <1>1, <2>1 DEF Told
  <2>3. CASE v = r
    <3>1. ASSUME NEW x \in Workers, Telling(task'[x], r) PROVE Right(task'[x], demand[r], InDemand(r)')
      <4>1. task'[x].state = "CONNECTED"
        BY <1>2, <1>5, <1>6, <1>8, <1>9, <2>1, <2>3, <3>1 DEF Telling
      <4>2. QED
        BY <1>7, <4>1 DEF Right
    <3>2. ASSUME \A x \in Workers : ~Telling(task'[x], r) PROVE demand[r] = InDemand(r)'
      <4>1. place = "skip" /\ \A x \in Workers : ~Telling(task[x], r)
        BY <1>4, <1>6, <1>8, <3>2
      <4>2. QED
        BY <1>7, <2>2, <2>3, <4>1
    <3>3. QED
      BY <2>1, <2>3, <3>1, <3>2
  <2>4. CASE v # r
    BY <1>6, <1>8, <2>1, <2>2, <2>4
  <2>5. QED
    BY <2>3, <2>4
<1>11. ASSUME NEW v \in Receivers, v \notin overtaken'
       PROVE  /\ demand'[v] => \/ InDemand(v)'
                               \/ \E x \in Workers : Telling(task'[x], v) /\ task'[x].state = "DISCONNECTED"
              /\ \A x \in Workers : Telling(task'[x], v) /\ task'[x].state = "CONNECTED"
                                       => connection_demands'[v][task'[x].sender]
  <2>1. v \in Receivers \ overtaken /\ demand'[v] = demand[v]
    BY <1>2, <1>11
  <2>2. /\ demand[v] => \/ InDemand(v)
                        \/ \E x \in Workers : Telling(task[x], v) /\ task[x].state = "DISCONNECTED"
        /\ \A x \in Workers : Telling(task[x], v) /\ task[x].state = "CONNECTED"
                                 => connection_demands[v][task[x].sender]
    BY <1>1, <2>1 DEF Withdrawn
  <2>3. ASSUME NEW x \in Workers, Telling(task'[x], v), task'[x].state = "CONNECTED"
        PROVE  connection_demands'[v][task'[x].sender]
    <3>1. CASE x = w
      BY <1>5, <1>6, <1>7, <1>8, <2>3, <3>1
    <3>2. CASE x # w
      <4>1. task'[x] = task[x] /\ Telling(task[x], v)
        BY <1>6, <2>3, <3>2
      <4>2. task[x].sender \in Senders
        BY <4>1 DEF DemandInv, MuxTyped, TaskOK, Telling
      <4>3. QED
        BY <1>6, <1>7, <2>2, <2>3, <4>1, <4>2
    <3>3. QED
      BY <3>1, <3>2
  <2>4. demand'[v] => \/ InDemand(v)'
                      \/ \E x \in Workers : Telling(task'[x], v) /\ task'[x].state = "DISCONNECTED"
    <3>1. CASE v = r
      BY <1>7, <3>1
    <3>2. CASE v # r
      BY <1>6, <1>8, <2>1, <2>2, <3>2
    <3>3. QED
      BY <3>1, <3>2
  <2>5. QED
    BY <2>3, <2>4
<1>12. QED
  BY <1>6, <1>10, <1>11, ToldNext

\* Any other event tells of no demand.
LEMMA OtherKeepsDemand ==
    ASSUME DemandInv, NEW w \in Workers, NEW r \in Receivers, Mux(w, r), MuxOther(w, r)
    PROVE  DemandInv'
<1> DEFINE p == task[w]
           t == At("forward", p, r)
<1>1. TaskOK(p) /\ demand \in [Receivers -> BOOLEAN]
  BY DEF DemandInv, MuxTyped
<1>2. /\ p.pc = "loop" /\ r \in p.left /\ p.state \notin {"CONNECTED", "DISCONNECTED"}
      /\ task' = [task EXCEPT ![w] = t]
      /\ UNCHANGED <<linkUp, queue, connection_demands, demand, raced, overtaken>>
  BY DEF Mux, MuxOther, muxHistory
<1>3. p.sender \in Senders /\ p.left \subseteq Connected[p.sender] /\ p.left \subseteq Receivers
  BY <1>1, <1>2, TopologyAssumption DEF TaskOK
<1>4. /\ TaskOK(t) /\ t.pc = "forward" /\ t.state = p.state /\ t.sender = p.sender
      /\ t.left = p.left \ {r} /\ t.rcv = r
  BY <1>1, <1>2, <1>3 DEF At, TaskOK, Halfway
<1> HIDE DEF t
<1>5. Ahead(t) \subseteq Ahead(p)
  BY <1>2, <1>4 DEF Ahead
<1>6. /\ task'[w] = t /\ \A v \in Workers : v # w => task'[v] = task[v]
      /\ \A v \in Receivers : InDemand(v)' = InDemand(v)
      /\ Told' /\ Withdrawn' => DemandInv'
  BY <1>1, <1>2, <1>4, <1>5, TourStep
<1> HIDE DEF p
<1>7. \A v \in Receivers : ~Telling(p, v) /\ ~Telling(t, v)
  BY <1>2, <1>4 DEF Telling
<1>8. QED
  BY <1>2, <1>6, <1>7, NothingTold DEF p

\* Every step of the connector and of its publishers keeps the invariant.
LEMMA DemandInvariant == MuxSpec => []DemandInv
<1>1. DemandInv /\ [MuxNext]_muxVars => DemandInv'
  <2> SUFFICES ASSUME DemandInv, [MuxNext]_muxVars PROVE DemandInv'
    OBVIOUS
  <2>1. CASE UNCHANGED muxVars
    <3>1. /\ linkUp' = linkUp /\ queue' = queue /\ connection_demands' = connection_demands
          /\ demand' = demand /\ task' = task /\ raced' = raced /\ overtaken' = overtaken
      BY <2>1 DEF muxVars, muxHistory
    <3>2. MuxTyped'
      BY <3>1 DEF DemandInv, MuxTyped, TaskOK
    <3>3. LastQueued' /\ LastHandled' /\ Applied'
      BY <3>1 DEF DemandInv, LastQueued, LastHandled, Applied, Owes, Visits, Changes
    <3>4. OnlyConnected' /\ Apart'
      BY <3>1 DEF DemandInv, OnlyConnected, Apart, Ahead
    <3>5. \A r \in Receivers : InDemand(r)' = InDemand(r)
      BY <3>1 DEF InDemand
    <3>6. Told' /\ Withdrawn'
      BY <3>1, <3>5, NothingTold DEF Telling
    <3>7. QED
      BY <3>2, <3>3, <3>4, <3>6 DEF DemandInv
  <2>2. ASSUME NEW w \in Workers, NEW r \in Receivers, Mux(w, r) PROVE DemandInv'
    BY <2>2, DisconnectedKeepsDemand, ConnectedKeepsDemand, OtherKeepsDemand DEF Mux
  <2>3. QED
    BY <2>1, <2>2, PublishKeepsDemand, StartKeepsDemand, RecheckKeepsDemand, ForwardKeepsDemand,
       ContinueKeepsDemand DEF MuxNext
<1>2. QED
  BY <1>1, InitDemandInv, PTL DEF MuxSpec

\* At rest the connector's map is the link states of the connected senders.
LEMMA MapAtRest ==
    ASSUME DemandInv, Quiescent, NEW r \in Receivers \ overtaken
    PROVE  InDemand(r) = Wanted(r) /\ \A w \in Workers : ~Telling(task[w], r)
<1>1. /\ \A s \in Senders : ~Owes(s)
      /\ \A w \in Workers : task[w].pc = "idle"
  BY DEF Quiescent, Owes, NoTask
<1>2. ASSUME NEW s \in Senders
      PROVE  connection_demands[r][s] = (r \in Connected[s] /\ linkUp[s])
  <2>1. CASE r \in Connected[s]
    <3>1. connection_demands[r][s] = linkUp[s]
      BY <1>1, <2>1 DEF DemandInv, Applied, Visits
    <3>2. linkUp[s] \in BOOLEAN
      BY DEF DemandInv, MuxTyped
    <3>3. QED
      BY <2>1, <3>1, <3>2
  <2>2. CASE r \notin Connected[s]
    <3>1. connection_demands[r][s] \in BOOLEAN /\ ~connection_demands[r][s]
      BY <2>2 DEF DemandInv, OnlyConnected, MuxTyped
    <3>2. QED
      BY <2>2, <3>1
  <2>3. QED
    BY <2>1, <2>2
<1>3. QED
  BY <1>1, <1>2 DEF InDemand, Wanted, Telling

\* Whatever the workers overlap, at rest a receiver is in demand exactly when
\* a sender connected to it is up, where no opposite events have met: for any
\* ports, connections and number of workers (MuxConnectionEvents).
THEOREM OverlapDemandExact == MuxSpec => []DemandExact
<1>1. DemandInv => DemandExact
  <2> SUFFICES ASSUME DemandInv, Quiescent, NEW r \in Receivers \ raced PROVE demand[r] = Wanted(r)
    BY DEF DemandExact
  <2>1. r \in Receivers \ overtaken
    BY DEF DemandInv, MuxTyped
  <2>2. QED
    BY <2>1, MapAtRest DEF DemandInv, Told
<1>2. QED
  BY <1>1, DemandInvariant, PTL

\* Where opposite events of different senders have met, the second question to
\* the map (InDemand) still keeps a receiver nobody wants from being left in
\* demand.
THEOREM OverlapNoDemandLeft == MuxSpec => []NoDemandLeft
<1>1. DemandInv => NoDemandLeft
  <2> SUFFICES ASSUME DemandInv, Quiescent, NEW r \in Receivers \ overtaken, demand[r] PROVE Wanted(r)
    BY DEF NoDemandLeft
  <2>1. QED
    BY MapAtRest DEF DemandInv, Withdrawn
<1>2. QED
  BY <1>1, DemandInvariant, PTL

-----------------------------------------------------------------------------
(***************************************************************************)
(* SpecialEventQueue implements EventFIFO.  The abstract queue is what     *)
(* Chain reads from the links; so the proof first shows, by induction,     *)
(* that Chain follows a path of links, and then that the list is such a    *)
(* path from tail to head.                                                 *)
(***************************************************************************)
\* Induction over the natural numbers, for a set.
LEMMA NatSetInduction ==
    ASSUME NEW S, 0 \in S, \A n \in Nat : n \in S => n + 1 \in S
    PROVE  \A n \in Nat : n \in S
<1> DEFINE Less == {p \in Nat \X Nat : p[1] < p[2]}
           Bad == Nat \ S
<1>1. IsWellFoundedOn(Less, Nat)
  BY NatLessThanWellFounded DEF OpToRel
<1>2. SUFFICES ASSUME Bad # {} PROVE FALSE
  OBVIOUS
<1>3. PICK x \in Bad : \A y \in Bad : <<y, x>> \notin Less
  <2>1. Bad \subseteq Nat
    OBVIOUS
  <2> HIDE DEF Less, Bad
  <2>2. QED
    BY <1>1, <1>2, <2>1, WFMin
<1>4. x \in Nat /\ x # 0 /\ x - 1 \in Nat
  OBVIOUS
<1>5. x - 1 \in Bad /\ <<x - 1, x>> \in Less
  BY <1>4
<1>6. QED
  BY <1>3, <1>5

-----------------------------------------------------------------------------
\* A node, or none.
Pointer == 0 .. MaxPushes

\* The list is linked from older nodes to newer ones.
Rising(nx) == nx \in [Node -> Pointer] /\ \A k \in Node : nx[k] = 0 \/ nx[k] > k

\* f gives the nodes from k on, for the nodes k above m.
Unrolled(nx, m, f) == /\ f \in [Pointer -> Seq(Node)] /\ f[0] = <<>>
                      /\ \A k \in Node : k > m => f[k] = <<k>> \o f[nx[k]]

\* In such a list Chain's recursive function exists ...
LEMMA UnrolledExists ==
    ASSUME NEW nx, Rising(nx) PROVE \E f : Unrolled(nx, 0, f)
<1> DEFINE N == MaxPushes
           Good == {m \in Nat : m <= N => \E f : Unrolled(nx, N - m, f)}
<1>0. N \in Nat /\ Node = 1 .. N /\ Pointer = 0 .. N
  BY QueueAssumption DEF Node, Pointer
<1>1. 0 \in Good
  <2> DEFINE f == [k \in Pointer |-> <<>>]
  <2>1. f \in [Pointer -> Seq(Node)] /\ f[0] = <<>>
    BY <1>0
  <2> HIDE DEF f
  <2>2. Unrolled(nx, N - 0, f)
    BY <1>0, <2>1 DEF Unrolled
  <2>3. QED
    BY <2>2
<1>2. ASSUME NEW m \in Nat, m \in Good, m + 1 <= N PROVE \E f : Unrolled(nx, N - (m + 1), f)
  <2> DEFINE j == N - m
  <2>1. j \in Node /\ j \in Pointer /\ j # 0 /\ N - (m + 1) = j - 1
    BY <1>0, <1>2
  <2>2. PICK f : Unrolled(nx, j, f)
    BY <1>0, <1>2
  <2> DEFINE v == <<j>> \o f[nx[j]]
             g == [k \in Pointer |-> IF k = j THEN v ELSE f[k]]
  <2>3. nx[j] \in Pointer /\ f[nx[j]] \in Seq(Node) /\ <<j>> \in Seq(Node)
    BY <2>1, <2>2 DEF Unrolled, Rising
  <2>4. v \in Seq(Node)
    BY <2>3
  <2> HIDE DEF v, j
  <2>5. /\ g \in [Pointer -> Seq(Node)] /\ g[j] = v
        /\ \A k \in Pointer : k # j => g[k] = f[k]
    BY <2>1, <2>2, <2>4 DEF Unrolled
  <2> HIDE DEF g
  <2>6. g[0] = <<>>
    BY <1>0, <2>1, <2>2, <2>5 DEF Unrolled
  <2>7. ASSUME NEW k \in Node, k > j - 1 PROVE g[k] = <<k>> \o g[nx[k]]
    <3>1. nx[k] \in Pointer /\ nx[k] # j /\ k \in Pointer
      BY <1>0, <2>1, <2>7 DEF Rising
    <3>2. g[nx[k]] = f[nx[k]]
      BY <2>5, <3>1
    <3>3. CASE k = j
      BY <2>5, <3>2, <3>3, Zenon DEF v
    <3>4. CASE k # j
      <4>1. k > j
        BY <1>0, <2>1, <2>7, <3>4
      <4>2. f[k] = <<k>> \o f[nx[k]]
        BY <2>2, <4>1, Zenon DEF Unrolled
      <4>3. QED
        BY <2>5, <3>1, <3>2, <3>4, <4>2, Zenon
    <3>5. QED
      BY <3>3, <3>4
  <2>8. Unrolled(nx, j - 1, g)
    BY <2>5, <2>6, <2>7, Zenon DEF Unrolled
  <2>9. QED
    BY <2>1, <2>8
<1>3. ASSUME NEW m \in Nat, m \in Good PROVE m + 1 \in Good
  <2>1. m + 1 <= N => \E f : Unrolled(nx, N - (m + 1), f)
    BY <1>2, <1>3
  <2>2. QED
    BY <2>1
<1> HIDE DEF Good
<1>4. N \in Good
  BY <1>0, <1>1, <1>3, NatSetInduction
<1>5. \E f : Unrolled(nx, N - N, f)
  BY <1>0, <1>4 DEF Good
<1>6. N - N = 0
  BY <1>0
<1>7. QED
  BY <1>5, <1>6, Zenon

\* The function that Chain defines, for any links.
UpEq(nx, f) ==
    f = [k \in 0 .. MaxPushes |-> IF k = nullptr THEN <<>> ELSE <<k>> \o f[nx[k]]]
ChainOf(nx) == CHOOSE f : UpEq(nx, f)

\* ... and Chain is what it says.
LEMMA ChainUnrolls ==
    ASSUME NEW nx, Rising(nx)
    PROVE  /\ ChainOf(nx)[0] = <<>>
           /\ \A k \in Node : nx[k] \in Pointer /\ ChainOf(nx)[k] = <<k>> \o ChainOf(nx)[nx[k]]
<1>0. /\ \A k \in Node : k \in 0 .. MaxPushes /\ k # nullptr /\ k > 0
      /\ \A k \in 0 .. MaxPushes : k = nullptr \/ k \in Node
      /\ 0 \in 0 .. MaxPushes /\ nullptr = 0 /\ Pointer = 0 .. MaxPushes
  BY QueueAssumption DEF Node, Pointer, nullptr
<1>1. \E h : UpEq(nx, h)
  <2>1. PICK h : Unrolled(nx, 0, h)
    BY UnrolledExists
  <2> DEFINE r == [k \in 0 .. MaxPushes |-> IF k = nullptr THEN <<>> ELSE <<k>> \o h[nx[k]]]
  <2>2. \A k \in 0 .. MaxPushes : r[k] = h[k]
    BY <1>0, <2>1, Zenon DEF Unrolled
  <2>3. r = [k \in 0 .. MaxPushes |-> r[k]] /\ h = [k \in 0 .. MaxPushes |-> h[k]]
    BY <1>0, <2>1 DEF Unrolled
  <2>4. h = r
    <3> HIDE DEF r
    <3> QED
      BY <2>2, <2>3
  <2>5. QED
    BY <2>4 DEF UpEq
<1> DEFINE f == ChainOf(nx)
<1>2. UpEq(nx, f)
  BY <1>1, Zenon DEF ChainOf
<1> HIDE DEF f
<1>3. \A k \in 0 .. MaxPushes : f[k] = IF k = nullptr THEN <<>> ELSE <<k>> \o f[nx[k]]
  BY <1>2, Zenon DEF UpEq
<1>4. f[0] = <<>> /\ \A k \in Node : f[k] = <<k>> \o f[nx[k]]
  BY <1>0, <1>3, Zenon
<1>5. \A k \in Node : nx[k] \in Pointer
  BY DEF Rising
<1>6. QED
  BY <1>4, <1>5, Zenon DEF f

\* c follows the links, to a node without a next.
Path(nx, c) == /\ c \in Seq(Node) /\ c # <<>>
               /\ \A i \in 1 .. Len(c) - 1 : nx[c[i]] = c[i + 1]
               /\ nx[c[Len(c)]] = 0

\* A node in front of others.
LEMMA ConsNode ==
    ASSUME NEW T, NEW a \in T, NEW y \in Seq(T)
    PROVE  /\ <<a>> \o y \in Seq(T) /\ Len(<<a>> \o y) = Len(y) + 1 /\ (<<a>> \o y)[1] = a
           /\ \A j \in 2 .. Len(y) + 1 : (<<a>> \o y)[j] = y[j - 1]
  OBVIOUS

\* The chain from the first node of a path is the path.
LEMMA PathIsChain ==
    ASSUME NEW nx, Rising(nx), NEW c, Path(nx, c) PROVE ChainOf(nx)[c[1]] = c
<1> DEFINE n == Len(c)
           f == ChainOf(nx)
           From(i) == SubSeq(c, i, n)
           Good == {m \in Nat : m < n => f[c[n - m]] = From(n - m)}
<1>0. /\ c \in Seq(Node) /\ n \in Nat /\ n > 0
      /\ \A i \in 1 .. n : c[i] \in Node
  BY DEF Path
<1>1. f[0] = <<>> /\ \A k \in Node : f[k] = <<k>> \o f[nx[k]]
  BY ChainUnrolls
<1>2. \A i \in 1 .. n : From(i) \in Seq(Node) /\ Len(From(i)) = (n - i) + 1
                        /\ \A j \in 1 .. (n - i) + 1 : From(i)[j] = c[i + j - 1]
  BY <1>0
<1> HIDE DEF f, n
<1>3. 0 \in Good
  <2>1. f[c[n]] = <<c[n]>> \o <<>>
    <3>1. nx[c[n]] = 0 /\ c[n] \in Node
      BY <1>0 DEF Path, n
    <3>2. QED
      BY <1>1, <3>1, Zenon
  <2>2. <<c[n]>> \o <<>> = <<c[n]>>
    OBVIOUS
  <2>3. n \in 1 .. n /\ (n - n) + 1 = 1 /\ n + 1 - 1 = n /\ 1 \in 1 .. 1
    BY <1>0
  <2>4. From(n) \in Seq(Node) /\ Len(From(n)) = 1 /\ From(n)[1] = c[n]
    BY <1>2, <2>3
  <2> HIDE DEF From
  <2>5. From(n) = <<c[n]>>
    BY <2>4
  <2>6. f[c[n]] = From(n)
    BY <2>1, <2>2, <2>5, Zenon
  <2>7. n - 0 = n
    BY <1>0
  <2>8. QED
    BY <2>6, <2>7
<1>4. ASSUME NEW m \in Nat, m \in Good, m + 1 < n PROVE f[c[n - (m + 1)]] = From(n - (m + 1))
  <2> DEFINE i == n - (m + 1)
  <2>1. i \in 1 .. n - 1 /\ i \in 1 .. n /\ i + 1 \in 1 .. n /\ n - m = i + 1 /\ m < n
    BY <1>0, <1>4
  <2>2. f[c[i + 1]] = From(i + 1)
    BY <1>4, <2>1
  <2> HIDE DEF i
  <2>3. f[c[i]] = <<c[i]>> \o From(i + 1)
    <3>1. nx[c[i]] = c[i + 1] /\ c[i] \in Node
      BY <1>0, <2>1 DEF Path, n
    <3>2. QED
      BY <1>1, <2>2, <3>1, Zenon
  <2>4. From(i) = <<c[i]>> \o From(i + 1)
    <3> DEFINE x == From(i)
               y == From(i + 1)
    <3>1. /\ x \in Seq(Node) /\ Len(x) = (n - i) + 1
          /\ \A j \in 1 .. (n - i) + 1 : x[j] = c[i + j - 1]
      BY <1>2, <2>1
    <3>2. /\ y \in Seq(Node) /\ Len(y) = n - i
          /\ \A j \in 1 .. n - i : y[j] = c[i + j]
      <4>1. /\ y \in Seq(Node) /\ Len(y) = (n - (i + 1)) + 1
            /\ \A j \in 1 .. (n - (i + 1)) + 1 : y[j] = c[(i + 1) + j - 1]
        BY <1>2, <2>1
      <4>2. (n - (i + 1)) + 1 = n - i /\ \A j \in 1 .. n - i : (i + 1) + j - 1 = i + j
        BY <1>0, <2>1
      <4>3. QED
        BY <4>1, <4>2
    <3> HIDE DEF x, y
    <3>3. c[i] \in Node
      BY <1>0, <2>1
    <3> DEFINE z == <<c[i]>> \o y
    <3>4. /\ z \in Seq(Node) /\ Len(z) = (n - i) + 1 /\ z[1] = c[i]
          /\ \A j \in 2 .. (n - i) + 1 : z[j] = y[j - 1]
      <4> DEFINE k == n - i
      <4>1. k \in Nat /\ Len(y) = k /\ y \in Seq(Node)
        BY <1>0, <2>1, <3>2
      <4> HIDE DEF k
      <4>2. /\ z \in Seq(Node) /\ Len(z) = k + 1 /\ z[1] = c[i]
            /\ \A j \in 2 .. k + 1 : z[j] = y[j - 1]
        BY <3>3, <4>1, ConsNode
      <4>3. QED
        BY <4>2, Zenon DEF k
    <3> HIDE DEF z
    <3>5. ASSUME NEW j \in 1 .. (n - i) + 1 PROVE x[j] = z[j]
      <4>1. CASE j = 1
        <5>1. i + j - 1 = i
          BY <1>0, <2>1, <4>1
        <5>2. QED
          BY <3>1, <3>4, <4>1, <5>1
      <4>2. CASE j # 1
        <5>1. j \in 2 .. (n - i) + 1 /\ j - 1 \in 1 .. n - i /\ i + (j - 1) = i + j - 1
          BY <1>0, <2>1, <4>2
        <5>2. QED
          BY <3>1, <3>2, <3>4, <5>1
      <4>3. QED
        BY <4>1, <4>2
    <3>6. x = z
      BY <3>1, <3>4, <3>5, SeqEqual
    <3>7. QED
      BY <3>6 DEF x, y, z
  <2>5. QED
    BY <2>3, <2>4, Zenon DEF i
<1>5. ASSUME NEW m \in Nat, m \in Good PROVE m + 1 \in Good
  <2>1. m + 1 < n => f[c[n - (m + 1)]] = From(n - (m + 1))
    BY <1>4, <1>5
  <2>2. QED
    BY <2>1
<1> HIDE DEF Good
<1>6. n - 1 \in Good
  <2>1. n - 1 \in Nat
    BY <1>0
  <2>2. QED
    BY <1>3, <1>5, <2>1, NatSetInduction
<1>7. f[c[1]] = From(1)
  <2>1. n - (n - 1) = 1 /\ n - 1 < n
    BY <1>0
  <2>2. f[c[n - (n - 1)]] = From(n - (n - 1))
    BY <1>6, <2>1 DEF Good
  <2>3. QED
    BY <2>1, <2>2, Zenon
<1>8. From(1) = c
  BY <1>0 DEF n
<1>9. QED
  BY <1>7, <1>8, Zenon DEF f

-----------------------------------------------------------------------------
\* What waits on the strand: nodes in the order of their numbers, newer than
\* every node of the list, and the handler of a disable.
StrandInOrder ==
    /\ queueStrand \in Seq(0 .. pushes)
    /\ \A i \in 1 .. Len(queueStrand) :
          queueStrand[i] # emptyIt =>
              /\ queueStrand[i] > head
              /\ \A j \in 1 .. Len(queueStrand) :
                    j > i /\ queueStrand[j] # emptyIt => queueStrand[i] < queueStrand[j]

\* The list from tail to head, counted by size.
Listed ==
    IF tail = 0 THEN size = 0
    ELSE \E c : Path(next, c) /\ c[1] = tail /\ c[Len(c)] = head /\ size = Len(c)

\* No link leads past the head.
Links ==
    /\ pushes \in Nat /\ pushes <= MaxPushes /\ head \in 0 .. pushes /\ tail \in Pointer
    /\ Rising(next) /\ \A k \in Node : next[k] <= head

\* An enabled queue was never disabled: tail and head are both there or not.
EnabledIsWhole ==
    /\ enabled_flag \in BOOLEAN /\ popping \in BOOLEAN
    /\ enabled_flag => /\ head = 0 <=> tail = 0
                       /\ \A i \in 1 .. Len(queueStrand) : queueStrand[i] # emptyIt
    /\ popping => enabled_flag /\ tail # 0 /\ tail # head

QueueInv == StrandInOrder /\ Listed /\ Links /\ EnabledIsWhole

\* Chain, now and after a step.
LEMMA ChainIs == /\ Chain(tail) = ChainOf(next)[tail]
                 /\ Chain(tail)' = ChainOf(next')[tail']
  BY Zenon DEF Chain, ChainOf, UpEq

\* The nodes of the list are no newer than its head.
LEMMA PathBelowHead ==
    ASSUME Links, NEW c, Path(next, c), c[Len(c)] = head
    PROVE  /\ c \in Seq(Node) /\ Len(c) \in Nat /\ Len(c) > 0
           /\ \A i \in 1 .. Len(c) : c[i] \in Node /\ c[i] <= head
           /\ \A i \in 1 .. Len(c) - 1 : c[i] < head
<1>1. c \in Seq(Node) /\ Len(c) \in Nat /\ Len(c) > 0 /\ \A i \in 1 .. Len(c) : c[i] \in Node
  BY DEF Path
<1>2. \A k \in Node : k \in Nat /\ k # 0
  BY QueueAssumption DEF Node
<1>3. head \in Nat
  BY DEF Links
<1>4. ASSUME NEW i \in 1 .. Len(c) - 1 PROVE c[i] < head
  <2>1. i \in 1 .. Len(c) /\ i + 1 \in 1 .. Len(c)
    BY <1>1
  <2>2. next[c[i]] = c[i + 1] /\ c[i] \in Node /\ c[i + 1] \in Node
    BY <1>1, <2>1 DEF Path
  <2>3. next[c[i]] # 0 /\ next[c[i]] > c[i] /\ next[c[i]] <= head /\ c[i] \in Nat /\ c[i + 1] \in Nat
    BY <1>2, <2>2 DEF Links, Rising
  <2>4. QED
    BY <1>3, <2>2, <2>3
<1>5. ASSUME NEW i \in 1 .. Len(c) PROVE c[i] <= head
  <2>1. i = Len(c) \/ i \in 1 .. Len(c) - 1
    BY <1>1
  <2>2. c[i] \in Nat
    BY <1>1, <1>2
  <2>3. QED
    BY <1>3, <1>4, <2>1, <2>2
<1>6. QED
  BY <1>1, <1>4, <1>5

\* The strand takes its next handler.
LEMMA StrandTail ==
    ASSUME StrandInOrder, Links, queueStrand # <<>>
    PROVE  LET t == Tail(queueStrand)
               n == Head(queueStrand)
           IN  /\ n \in 0 .. pushes /\ (n # emptyIt => n > head /\ n \in Node)
               /\ t \in Seq(0 .. pushes)
               /\ \A i \in 1 .. Len(t) : i + 1 \in 1 .. Len(queueStrand) /\ t[i] = queueStrand[i + 1]
               /\ \A i \in 1 .. Len(t) :
                    t[i] # emptyIt =>
                      /\ t[i] > head
                      /\ n # emptyIt => t[i] > n
                      /\ \A j \in 1 .. Len(t) : j > i /\ t[j] # emptyIt => t[i] < t[j]
<1> DEFINE q == queueStrand
           t == Tail(q)
           n == Head(q)
           T == 0 .. pushes
<1>1. /\ q \in Seq(T) /\ t \in Seq(T) /\ Len(t) \in Nat
      /\ Len(q) = Len(t) + 1 /\ n = q[1] /\ n \in T
      /\ \A i \in 1 .. Len(t) : t[i] = q[i + 1]
  <2>1. q \in Seq(T) /\ q # <<>>
    BY DEF StrandInOrder
  <2> HIDE DEF T, q
  <2>2. t \in Seq(T) /\ Len(q) \in Nat /\ Len(q) > 0 /\ Len(t) = Len(q) - 1
    BY <2>1
  <2>3. n = q[1] /\ n \in T /\ \A i \in 1 .. Len(t) : t[i] = q[i + 1]
    BY <2>1, <2>2
  <2>4. Len(t) \in Nat /\ Len(q) = Len(t) + 1
    BY <2>2
  <2>5. QED
    BY <2>1, <2>2, <2>3, <2>4
<1> HIDE DEF t, n
<1>2. /\ \A i \in 1 .. Len(t) : i + 1 \in 1 .. Len(q) /\ i + 1 > 1
      /\ 1 \in 1 .. Len(q)
      /\ \A i, j \in 1 .. Len(t) : j > i => j + 1 > i + 1
  BY <1>1
<1>3. \A i \in 1 .. Len(q) : q[i] # emptyIt =>
              /\ q[i] > head
              /\ \A j \in 1 .. Len(q) : j > i /\ q[j] # emptyIt => q[i] < q[j]
  BY DEF StrandInOrder
<1>4. \A i \in 1 .. Len(q) : q[i] \in Nat
  BY <1>1 DEF Links
<1>5. n # emptyIt => n > head /\ n \in Node
  <2>1. n # emptyIt => n > head
    BY <1>1, <1>2, <1>3
  <2>2. n # emptyIt => n \in Node
    BY <1>1, QueueAssumption DEF Links, Node, emptyIt
  <2>3. QED
    BY <2>1, <2>2
<1>6. ASSUME NEW i \in 1 .. Len(t), t[i] # emptyIt
      PROVE  /\ t[i] > head
             /\ n # emptyIt => t[i] > n
             /\ \A j \in 1 .. Len(t) : j > i /\ t[j] # emptyIt => t[i] < t[j]
  <2>1. t[i] = q[i + 1] /\ i + 1 \in 1 .. Len(q) /\ i + 1 > 1
    BY <1>1, <1>2
  <2>2. t[i] > head
    BY <1>3, <1>6, <2>1
  <2>3. ASSUME n # emptyIt PROVE t[i] > n
    <3>1. q[1] < q[i + 1]
      BY <1>1, <1>2, <1>3, <1>6, <2>1, <2>3, Zenon
    <3>2. q[1] \in Nat /\ q[i + 1] \in Nat
      BY <1>2, <1>4, <2>1
    <3>3. QED
      BY <1>1, <2>1, <3>1, <3>2
  <2>4. ASSUME NEW j \in 1 .. Len(t), j > i, t[j] # emptyIt PROVE t[i] < t[j]
    <3>1. t[j] = q[j + 1] /\ j + 1 \in 1 .. Len(q) /\ j + 1 > i + 1
      BY <1>1, <1>2, <2>4
    <3>2. QED
      BY <1>3, <1>6, <2>1, <2>4, <3>1, Zenon
  <2>5. QED
    BY <2>2, <2>3, <2>4
<1>7. QED
  BY <1>1, <1>2, <1>5, <1>6 DEF t, n

\* What is read from the model of the abstract queue.
LEMMA ListIs ==
    ASSUME QueueInv
    PROVE  /\ tail = 0 => Chain(tail) = <<>> /\ size = 0
           /\ \A c : tail # 0 /\ Path(next, c) /\ c[1] = tail => Chain(tail) = c
<1>1. Rising(next)
  BY DEF QueueInv, Links
<1>2. tail = 0 => Chain(tail) = <<>>
  BY <1>1, ChainUnrolls, ChainIs
<1>3. tail = 0 => size = 0
  BY DEF QueueInv, Listed
<1>4. \A c : tail # 0 /\ Path(next, c) /\ c[1] = tail => Chain(tail) = c
  BY <1>1, PathIsChain, ChainIs
<1>5. QED
  BY <1>2, <1>3, <1>4

\* A node is linked in: the abstract queue's Push.
LEMMA LinkInPushes ==
    ASSUME QueueInv, RunPush, enabled_flag
    PROVE  QueueInv' /\ Fifo!Push(Head(queueStrand)) /\ Head(queueStrand) \in Node
<1> DEFINE n == Head(queueStrand)
<1>1. /\ queueStrand # <<>> /\ queueStrand' = Tail(queueStrand) /\ n # emptyIt
      /\ UNCHANGED <<pushes, enabled_flag, popping, lastPopped>>
      /\ head' = n /\ size' = size + 1
      /\ IF head = 0 THEN tail' = n /\ next' = next
         ELSE next' = [next EXCEPT ![head] = n] /\ tail' = tail
  BY DEF RunPush, StrandRuns, LinkIn, nullptr
<1>2. /\ StrandInOrder /\ Links /\ EnabledIsWhole /\ Listed
  BY DEF QueueInv
<1>3. /\ n \in 0 .. pushes /\ n > head /\ n \in Node
      /\ queueStrand' \in Seq(0 .. pushes)
      /\ \A i \in 1 .. Len(queueStrand') :
            i + 1 \in 1 .. Len(queueStrand) /\ queueStrand'[i] = queueStrand[i + 1]
      /\ \A i \in 1 .. Len(queueStrand') :
            queueStrand'[i] # emptyIt =>
              /\ queueStrand'[i] > n
              /\ \A j \in 1 .. Len(queueStrand') :
                    j > i /\ queueStrand'[j] # emptyIt => queueStrand'[i] < queueStrand'[j]
  BY <1>1, <1>2, StrandTail
<1> HIDE DEF n
<1>4. StrandInOrder'
  BY <1>1, <1>3 DEF StrandInOrder
<1>5. /\ \A k \in Node : k \in Nat /\ k # 0 /\ k \in Pointer
      /\ head \in Nat /\ n \in Nat /\ 0 \in Pointer
      /\ \A k \in Node : next[k] \in Nat /\ (next[k] = 0 \/ next[k] > k) /\ next[k] <= head
  BY <1>2, <1>3, QueueAssumption DEF Node, Pointer, Links, Rising
<1>6. head # 0 => head \in Node
  BY <1>2, QueueAssumption DEF Links, Node
<1>7. next[n] = 0
  BY <1>3, <1>5
<1>8. /\ Rising(next') /\ \A k \in Node : next'[k] <= n
  <2>1. CASE head = 0
    BY <1>1, <1>2, <1>3, <1>5, <2>1 DEF Links
  <2>2. CASE head # 0
    <3>1. /\ next' \in [Node -> Pointer] /\ next'[head] = n
          /\ \A k \in Node : k # head => next'[k] = next[k]
      BY <1>1, <1>2, <1>3, <1>5, <1>6, <2>2 DEF Links, Rising
    <3>2. \A k \in Node : (next'[k] = 0 \/ next'[k] > k) /\ next'[k] <= n
      BY <1>3, <1>5, <3>1
    <3>3. QED
      BY <3>1, <3>2 DEF Rising
  <2>3. QED
    BY <2>1, <2>2
<1>9. Links'
  BY <1>1, <1>2, <1>3, <1>5, <1>8 DEF Links
<1>10. EnabledIsWhole'
  <2>1. \A i \in 1 .. Len(queueStrand') : queueStrand'[i] # emptyIt
    BY <1>2, <1>3 DEF EnabledIsWhole
  <2>2. (head = 0 <=> tail = 0) /\ n # 0 /\ tail # n
    <3>1. tail # n
      <4>1. CASE tail = 0
        BY <1>3, <1>5, <4>1
      <4>2. CASE tail # 0
        <5>1. PICK c : Path(next, c) /\ c[1] = tail /\ c[Len(c)] = head
          BY <1>2, <4>2 DEF Listed
        <5>2. tail <= head /\ tail \in Node
          BY <1>2, <5>1, PathBelowHead
        <5>3. QED
          BY <1>3, <1>5, <5>2
      <4>3. QED
        BY <4>1, <4>2
    <3>2. QED
      BY <1>2, <1>3, <1>5, <3>1 DEF EnabledIsWhole
  <2>3. QED
    BY <1>1, <1>2, <2>1, <2>2 DEF EnabledIsWhole
<1>11. PICK c : /\ c \in Seq(Node) /\ Chain(tail) = c /\ size = Len(c)
                /\ \A i \in 1 .. Len(c) : c[i] # n
                /\ Path(next', Append(c, n)) /\ Append(c, n)[1] = tail'
  <2>1. CASE head = 0
    <3>1. tail = 0 /\ Chain(tail) = <<>> /\ size = 0 /\ tail' = n /\ next' = next
      BY <1>1, <1>2, <2>1, ListIs DEF EnabledIsWhole
    <3> DEFINE e == <<>>
    <3>2. /\ Append(e, n) = <<n>> /\ e \in Seq(Node) /\ Len(e) = 0
          /\ \A i \in 1 .. Len(e) : e[i] # n
      OBVIOUS
    <3>3. Path(next, <<n>>) /\ <<n>>[1] = n
      BY <1>3, <1>7 DEF Path
    <3>4. Path(next', Append(e, n)) /\ Append(e, n)[1] = tail'
      BY <3>1, <3>2, <3>3, Zenon
    <3>5. Chain(tail) = e /\ size = Len(e)
      BY <3>1, <3>2, Zenon
    <3> HIDE DEF e
    <3>6. QED
      BY <3>2, <3>4, <3>5, Zenon
  <2>2. CASE head # 0
    <3>1. tail # 0 /\ tail' = tail /\ next' = [next EXCEPT ![head] = n]
      BY <1>1, <1>2, <2>2 DEF EnabledIsWhole
    <3>2. PICK c : Path(next, c) /\ c[1] = tail /\ c[Len(c)] = head /\ size = Len(c)
      BY <1>2, <3>1 DEF Listed
    <3>3. Chain(tail) = c
      BY <3>1, <3>2, ListIs
    <3>4. /\ c \in Seq(Node) /\ Len(c) \in Nat /\ Len(c) > 0
          /\ \A i \in 1 .. Len(c) : c[i] \in Node /\ c[i] <= head
          /\ \A i \in 1 .. Len(c) - 1 : c[i] < head
      BY <1>2, <3>2, PathBelowHead
    <3>5. \A i \in 1 .. Len(c) : c[i] # n
      BY <1>3, <1>5, <3>4
    <3> DEFINE d == Append(c, n)
    <3>6. /\ d \in Seq(Node) /\ Len(d) = Len(c) + 1 /\ d[Len(c) + 1] = n
          /\ \A i \in 1 .. Len(c) : d[i] = c[i]
      BY <1>3, <3>4
    <3> HIDE DEF d
    <3>7. /\ next'[head] = n
          /\ \A k \in Node : k # head => next'[k] = next[k]
      BY <1>2, <1>6, <2>2, <3>1 DEF Links, Rising
    <3>8. next'[n] = 0
      BY <1>3, <1>5, <1>7, <3>7
    <3>9. ASSUME NEW i \in 1 .. Len(c) PROVE next'[d[i]] = d[i + 1]
      <4>1. CASE i = Len(c)
        BY <3>2, <3>6, <3>7, <4>1
      <4>2. CASE i # Len(c)
        <5>1. i \in 1 .. Len(c) - 1 /\ i + 1 \in 1 .. Len(c)
          BY <3>4, <4>2
        <5>2. next[c[i]] = c[i + 1]
          BY <3>2, <5>1 DEF Path
        <5>3. c[i] \in Node /\ c[i] # head
          BY <1>5, <3>4, <5>1
        <5>4. QED
          BY <3>6, <3>7, <5>1, <5>2, <5>3
      <4>3. QED
        BY <4>1, <4>2
    <3>10. Path(next', d) /\ d[1] = tail'
      <4>1. Len(d) - 1 = Len(c) /\ d # <<>> /\ 1 \in 1 .. Len(c)
        BY <3>4, <3>6
      <4>2. next'[d[Len(d)]] = 0
        BY <3>6, <3>8
      <4>3. d[1] = tail'
        BY <3>1, <3>2, <3>6, <4>1
      <4>4. QED
        BY <3>6, <3>9, <4>1, <4>2, <4>3 DEF Path
    <3>11. QED
      BY <3>2, <3>3, <3>4, <3>5, <3>10 DEF d
  <2>3. QED
    BY <2>1, <2>2
<1>12. /\ Len(c) \in Nat /\ Append(c, n)[Len(Append(c, n))] = n
       /\ Len(Append(c, n)) = Len(c) + 1
  BY <1>3, <1>11
<1>13. Listed'
  <2>1. tail' # 0
    BY <1>1, <1>2, <1>5, <1>3 DEF EnabledIsWhole
  <2>2. QED
    BY <1>1, <1>11, <1>12, <2>1 DEF Listed
<1>14. Chain(tail)' = Append(c, n)
  BY <1>8, <1>11, ChainIs, PathIsChain
<1>15. Fifo!Push(n)
  <2>1. DOMAIN c = 1 .. Len(c)
    BY <1>11
  <2>2. QED
    BY <1>1, <1>11, <1>14, <2>1 DEF Fifo!Push
<1>16. QED
  BY <1>3, <1>4, <1>9, <1>10, <1>13, <1>15 DEF QueueInv, n

\* The list is left alone: the abstract queue stutters.
LEMMA SameList ==
    ASSUME UNCHANGED <<next, tail, size, lastPopped>> PROVE UNCHANGED Fifo!vars
  BY ChainIs, Zenon DEF Fifo!vars

\* A handler is posted, behind the others: a new node or that of a disable.
LEMMA PostKeepsOrder ==
    ASSUME StrandInOrder, Links, NEW x, x = pushes + 1 \/ x = emptyIt, x \in 0 .. pushes',
           pushes' \in Nat, pushes' >= pushes, head' = head,
           queueStrand' = Append(queueStrand, x)
    PROVE  StrandInOrder'
<1> DEFINE q == queueStrand
           r == queueStrand'
           p == pushes'
<1>1. pushes \in Nat /\ head \in 0 .. pushes /\ emptyIt = 0
  BY DEF Links, emptyIt
<1>2. q \in Seq(0 .. pushes) /\ Len(q) \in Nat /\ \A i \in 1 .. Len(q) : q[i] \in 0 .. pushes
  <2> DEFINE T == 0 .. pushes
  <2>1. q \in Seq(T)
    BY DEF StrandInOrder
  <2> HIDE DEF T, q
  <2>2. Len(q) \in Nat /\ \A i \in 1 .. Len(q) : q[i] \in T
    BY <2>1
  <2>3. QED
    BY <2>1, <2>2 DEF T
<1>3. 0 .. pushes \subseteq 0 .. p
  BY <1>1
<1>4. q \in Seq(0 .. p)
  <2>1. \A i \in 1 .. Len(q) : q[i] \in 0 .. p
    BY <1>2, <1>3
  <2>2. QED
    BY <1>2, <2>1
<1> HIDE DEF p
<1>5. /\ r \in Seq(0 .. p) /\ Len(r) = Len(q) + 1 /\ r[Len(q) + 1] = x
      /\ \A i \in 1 .. Len(q) : r[i] = q[i]
  <2> DEFINE T == 0 .. p
  <2>1. x \in T /\ q \in Seq(T)
    BY <1>4 DEF p
  <2> HIDE DEF T, q
  <2>2. r = Append(q, x)
    BY DEF q
  <2> HIDE DEF r
  <2>3. QED
    BY <2>1, <2>2 DEF T
<1> HIDE DEF r
<1>6. ASSUME NEW i \in 1 .. Len(r), r[i] # emptyIt
      PROVE  /\ r[i] > head
             /\ \A j \in 1 .. Len(r) : j > i /\ r[j] # emptyIt => r[i] < r[j]
  <2>1. CASE i = Len(q) + 1
    BY <1>1, <1>2, <1>5, <1>6, <2>1
  <2>2. CASE i # Len(q) + 1
    <3>1. i \in 1 .. Len(q) /\ r[i] = q[i] /\ q[i] \in 0 .. pushes
      BY <1>2, <1>5, <2>2
    <3>2. /\ q[i] > head
          /\ \A j \in 1 .. Len(q) : j > i /\ q[j] # emptyIt => q[i] < q[j]
      BY <1>6, <3>1 DEF StrandInOrder
    <3>3. ASSUME NEW j \in 1 .. Len(r), j > i, r[j] # emptyIt PROVE r[i] < r[j]
      <4>1. CASE j = Len(q) + 1
        BY <1>1, <1>5, <3>1, <3>3, <4>1
      <4>2. CASE j # Len(q) + 1
        BY <1>2, <1>5, <3>1, <3>2, <3>3, <4>2
      <4>3. QED
        BY <4>1, <4>2
    <3>4. QED
      BY <3>1, <3>2, <3>3
  <2>3. QED
    BY <2>1, <2>2
<1>7. QED
  BY <1>5, <1>6 DEF StrandInOrder, r, p

\* Producers, Enable(false) and pop()'s checks change nothing of the list.
LEMMA AroundTheList ==
    ASSUME QueueInv, ~MayReenable,
           async_push \/ (\E en \in BOOLEAN : Enable(en)) \/ PopChecks \/ UNCHANGED queueVars
    PROVE  QueueInv' /\ UNCHANGED Fifo!vars
<1>1. UNCHANGED <<next, head, tail, size, lastPopped>>
  BY DEF async_push, Enable, PopChecks, queueVars, list
<1>2. UNCHANGED Fifo!vars
  BY <1>1, SameList
<1>3. StrandInOrder /\ Listed /\ Links /\ EnabledIsWhole
  BY DEF QueueInv
<1>4. Listed'
  BY <1>1, <1>3, Zenon DEF Listed
<1>5. pushes' \in Nat /\ pushes' <= MaxPushes /\ pushes' >= pushes
  BY <1>3, QueueAssumption DEF Links, async_push, Enable, PopChecks, queueVars
<1>6. Links'
  <2>1. head \in 0 .. pushes'
    BY <1>3, <1>5 DEF Links
  <2>2. QED
    BY <1>1, <1>3, <1>5, <2>1 DEF Links
<1>7. CASE async_push
  <2> DEFINE x == pushes + 1
  <2>1. /\ queueStrand' = Append(queueStrand, x) /\ pushes' = x /\ x \in 0 .. pushes'
        /\ UNCHANGED <<enabled_flag, popping>>
    BY <1>3, <1>7 DEF async_push, Links
  <2>2. StrandInOrder'
    BY <1>1, <1>3, <1>5, <2>1, PostKeepsOrder
  <2>3. \A i \in 1 .. Len(queueStrand') :
           queueStrand'[i] = x \/ \E j \in 1 .. Len(queueStrand) : queueStrand'[i] = queueStrand[j]
    <3>1. queueStrand \in Seq(0 .. pushes)
      BY <1>3 DEF StrandInOrder
    <3> HIDE DEF x
    <3>2. QED
      BY <2>1, <3>1
  <2>4. x # emptyIt
    BY <1>3 DEF Links, emptyIt
  <2>5. EnabledIsWhole'
    BY <1>1, <1>3, <2>1, <2>3, <2>4 DEF EnabledIsWhole
  <2>6. QED
    BY <1>2, <1>4, <1>6, <2>2, <2>5 DEF QueueInv
<1>8. CASE \E en \in BOOLEAN : Enable(en)
  <2>1. /\ ~enabled_flag' /\ ~popping /\ popping' = popping /\ pushes' = pushes
        /\ queueStrand' = Append(queueStrand, emptyIt)
        /\ enabled_flag' \in BOOLEAN
    BY <1>8 DEF Enable
  <2>2. emptyIt \in 0 .. pushes'
    BY <1>5 DEF emptyIt
  <2>3. StrandInOrder'
    BY <1>1, <1>3, <1>5, <2>1, <2>2, PostKeepsOrder
  <2>4. EnabledIsWhole'
    BY <1>3, <2>1 DEF EnabledIsWhole
  <2>5. QED
    BY <1>2, <1>4, <1>6, <2>3, <2>4 DEF QueueInv
<1>9. CASE PopChecks \/ UNCHANGED queueVars
  <2>1. UNCHANGED <<pushes, queueStrand, enabled_flag>>
    BY <1>9 DEF PopChecks, queueVars
  <2>2. StrandInOrder'
    BY <1>1, <1>3, <2>1 DEF StrandInOrder
  <2>3. popping' = popping \/ (popping' = TRUE /\ MayPop)
    BY <1>9 DEF PopChecks, queueVars
  <2>4. EnabledIsWhole'
    <3>1. MayPop => enabled_flag /\ tail # 0 /\ tail # head
      BY DEF MayPop, nullptr
    <3>2. popping' \in BOOLEAN
      BY <1>3, <2>3 DEF EnabledIsWhole
    <3>3. popping' => enabled_flag /\ tail # 0 /\ tail # head
      BY <1>3, <2>3, <3>1 DEF EnabledIsWhole
    <3>4. QED
      BY <1>1, <1>3, <2>1, <3>2, <3>3, Zenon DEF EnabledIsWhole
  <2>5. QED
    BY <1>2, <1>4, <1>6, <2>2, <2>4 DEF QueueInv
<1>10. QED
  BY <1>7, <1>8, <1>9

\* A handler that finds the queue disabled drops its node, and that of the
\* disable empties the list.
LEMMA StrandAfterDisable ==
    ASSUME QueueInv, (RunPush /\ ~enabled_flag) \/ RunEmpty
    PROVE  QueueInv' /\ (UNCHANGED Fifo!vars \/ Fifo!Clear)
<1>1. StrandInOrder /\ Listed /\ Links /\ EnabledIsWhole
  BY DEF QueueInv
<1>2. /\ queueStrand # <<>> /\ queueStrand' = Tail(queueStrand)
      /\ UNCHANGED <<pushes, enabled_flag, popping, lastPopped, next, head>>
  BY DEF RunPush, RunEmpty, StrandRuns, list
<1>3. ~enabled_flag /\ ~popping
  <2>1. ASSUME RunEmpty PROVE ~enabled_flag
    <3>1. queueStrand[1] = emptyIt /\ 1 \in 1 .. Len(queueStrand)
      <4>1. queueStrand \in Seq(0 .. pushes) /\ queueStrand # <<>> /\ Head(queueStrand) = emptyIt
        BY <1>1, <1>2, <2>1 DEF StrandInOrder, RunEmpty
      <4> DEFINE T == 0 .. pushes
      <4> HIDE DEF T
      <4>2. queueStrand \in Seq(T)
        BY <4>1 DEF T
      <4>3. QED
        BY <4>1, <4>2
    <3>2. QED
      BY <1>1, <3>1 DEF EnabledIsWhole
  <2>2. ~enabled_flag
    BY <2>1
  <2>3. QED
    BY <1>1, <2>2 DEF EnabledIsWhole
<1>4. StrandInOrder'
  <2>1. /\ queueStrand' \in Seq(0 .. pushes)
        /\ \A i \in 1 .. Len(queueStrand') :
            queueStrand'[i] # emptyIt =>
              /\ queueStrand'[i] > head
              /\ \A j \in 1 .. Len(queueStrand') :
                    j > i /\ queueStrand'[j] # emptyIt => queueStrand'[i] < queueStrand'[j]
    BY <1>1, <1>2, StrandTail
  <2>2. QED
    BY <1>2, <2>1 DEF StrandInOrder
<1>5. EnabledIsWhole'
  BY <1>1, <1>2, <1>3 DEF EnabledIsWhole
<1>6. CASE RunPush
  <2>1. UNCHANGED <<tail, size>>
    BY <1>3, <1>6 DEF RunPush, list
  <2>2. Listed' /\ Links'
    BY <1>1, <1>2, <2>1 DEF Listed, Links
  <2>3. QED
    BY <1>2, <1>4, <1>5, <2>1, <2>2, SameList DEF QueueInv
<1>7. CASE RunEmpty
  <2>1. tail' = 0 /\ size' = size - Len(Chain(tail))
    BY <1>7 DEF RunEmpty, nullptr
  <2>2. size' = 0
    <3>1. CASE tail = 0
      BY <2>1, <3>1, ListIs
    <3>2. CASE tail # 0
      <4>1. PICK c : Path(next, c) /\ c[1] = tail /\ size = Len(c)
        BY <1>1, <3>2 DEF Listed
      <4>2. Chain(tail) = c /\ Len(c) \in Nat
        BY <3>2, <4>1, ListIs DEF Path
      <4>3. size' = Len(c) - Len(c)
        BY <2>1, <4>1, <4>2, Zenon
      <4>4. QED
        BY <4>2, <4>3
    <3>3. QED
      BY <3>1, <3>2
  <2>3. Links' /\ Listed'
    BY <1>1, <1>2, <2>1, <2>2, QueueAssumption DEF Links, Listed, Pointer
  <2>4. QueueInv'
    BY <1>4, <1>5, <2>3 DEF QueueInv
  <2>5. Chain(tail)' = <<>>
    <3>1. Rising(next')
      BY <2>3 DEF Links
    <3>2. QED
      BY <2>1, <3>1, ChainUnrolls, ChainIs
  <2>6. QED
    BY <1>2, <2>2, <2>4, <2>5 DEF Fifo!Clear
<1>8. QED
  BY <1>6, <1>7

\* pop() moves the tail: the abstract queue's Take.
LEMMA PopTakesFirst ==
    ASSUME QueueInv, PopTakes PROVE QueueInv' /\ Fifo!Take
<1>1. StrandInOrder /\ Listed /\ Links /\ EnabledIsWhole
  BY DEF QueueInv
<1>2. /\ popping /\ tail # 0 /\ popping' = FALSE /\ lastPopped' = tail
      /\ tail' = next[tail] /\ size' = size - 1
      /\ UNCHANGED <<pushes, enabled_flag, next, head, queueStrand>>
  BY DEF PopTakes, nullptr
<1>3. enabled_flag /\ tail # head /\ head # 0
  BY <1>1, <1>2 DEF EnabledIsWhole
<1>4. PICK c : Path(next, c) /\ c[1] = tail /\ c[Len(c)] = head /\ size = Len(c)
  BY <1>1, <1>2 DEF Listed
<1>5. Chain(tail) = c
  BY <1>2, <1>4, ListIs
<1>6. c \in Seq(Node) /\ Len(c) \in Nat /\ Len(c) >= 2 /\ c # <<>>
  BY <1>3, <1>4 DEF Path
<1> DEFINE d == Tail(c)
<1>7. /\ d \in Seq(Node) /\ Len(d) = Len(c) - 1 /\ d # <<>> /\ Head(c) = c[1]
      /\ \A i \in 1 .. Len(d) : d[i] = c[i + 1]
  BY <1>6
<1> HIDE DEF d
<1>8. Path(next, d) /\ d[1] = next[tail] /\ d[Len(d)] = head
  <2>1. /\ 1 \in 1 .. Len(d) /\ 1 \in 1 .. Len(c) - 1
        /\ Len(d) \in 1 .. Len(d) /\ Len(d) + 1 = Len(c)
        /\ \A i \in 1 .. Len(d) - 1 : /\ i \in 1 .. Len(d) /\ i + 1 \in 1 .. Len(d)
                                      /\ i + 1 \in 1 .. Len(c) - 1 
    BY <1>6, <1>7
  <2>2. d[Len(d)] = head
    BY <1>4, <1>7, <2>1
  <2>3. next[d[Len(d)]] = 0
    BY <1>4, <1>7, <2>1 DEF Path
  <2>4. d[1] = next[tail]
    BY <1>4, <1>7, <2>1 DEF Path
  <2>5. \A i \in 1 .. Len(d) - 1 : next[d[i]] = d[i + 1]
    BY <1>4, <1>7, <2>1 DEF Path
  <2>6. QED
    BY <1>7, <2>2, <2>3, <2>4, <2>5 DEF Path
<1>9. tail' # 0 /\ tail' \in Pointer
  <2>1. d[1] \in Node
    BY <1>7
  <2>2. QED
    BY <1>2, <1>8, <2>1, QueueAssumption DEF Node, Pointer
<1>10. Listed'
  BY <1>2, <1>4, <1>7, <1>8, <1>9 DEF Listed
<1>11. Links' /\ StrandInOrder'
  BY <1>1, <1>2, <1>9 DEF Links, StrandInOrder
<1>12. EnabledIsWhole'
  BY <1>1, <1>2, <1>3, <1>9 DEF EnabledIsWhole
<1>13. QueueInv'
  BY <1>10, <1>11, <1>12 DEF QueueInv
<1>14. Chain(tail)' = d
  <2>1. Rising(next') /\ Path(next', d) /\ d[1] = tail'
    BY <1>1, <1>2, <1>8 DEF Links
  <2>2. QED
    BY <2>1, PathIsChain, ChainIs
<1>15. Fifo!Take
  <2>1. Len(Chain(tail)) >= 2 /\ lastPopped' = Head(Chain(tail)) /\ Chain(tail)' = Tail(Chain(tail))
    <3>1. Tail(c) = d
      BY DEF d
    <3>2. QED
      BY <1>2, <1>4, <1>5, <1>6, <1>7, <1>14, <3>1
  <2>2. QED
    BY <1>2, <2>1 DEF Fifo!Take
<1>16. QED
  BY <1>13, <1>15

\* The empty queue.
LEMMA InitQueue == QueueInit => QueueInv /\ Fifo!Init
<1> SUFFICES ASSUME QueueInit PROVE QueueInv /\ Fifo!Init
  OBVIOUS
<1>1. queueStrand = <<>> /\ Len(queueStrand) = 0 /\ queueStrand \in Seq(0 .. pushes)
  BY DEF QueueInit
<1>2. StrandInOrder
  BY <1>1 DEF StrandInOrder
<1>3. Listed
  BY DEF QueueInit, Listed, nullptr
<1>4. Links
  BY QueueAssumption DEF QueueInit, Links, nullptr, Pointer, Rising, Node
<1>5. EnabledIsWhole
  <2>1. /\ enabled_flag = TRUE /\ popping = FALSE /\ head = 0 /\ tail = 0
        /\ \A i \in 1 .. Len(queueStrand) : FALSE
    BY <1>1 DEF QueueInit, nullptr
  <2>2. QED
    BY <2>1, Zenon DEF EnabledIsWhole
<1>6. QueueInv
  BY <1>2, <1>3, <1>4, <1>5 DEF QueueInv
<1>7. Chain(tail) = <<>>
  BY <1>6, ListIs DEF QueueInit, nullptr
<1>8. QED
  BY <1>6, <1>7 DEF Fifo!Init, QueueInit, nullptr

\* Every step of the queue is one of the abstract queue, or none.
LEMMA QueueSteps ==
    ASSUME QueueInv, ~MayReenable, [QueueNext]_queueVars
    PROVE  QueueInv' /\ [Fifo!Next]_(Fifo!vars)
<1>1. CASE RunPush /\ enabled_flag
  BY <1>1, LinkInPushes DEF Fifo!Next
<1>2. CASE (RunPush /\ ~enabled_flag) \/ RunEmpty
  BY <1>2, StrandAfterDisable DEF Fifo!Next
<1>3. CASE PopTakes
  BY <1>3, PopTakesFirst DEF Fifo!Next
<1>4. CASE async_push \/ (\E en \in BOOLEAN : Enable(en)) \/ PopChecks \/ UNCHANGED queueVars
  BY <1>4, AroundTheList
<1>5. QED
  BY <1>1, <1>2, <1>3, <1>4 DEF QueueNext

\* SpecialEventQueue is a first-in first-out queue whose size counts what is
\* in it, for any number of producers' events and any limit, until it is
\* enabled for a second time: pop() and the strand never lose, repeat or
\* overtake a node although they share the list without a lock.
THEOREM QueueIsFIFO == ASSUME ~MayReenable PROVE QueueSpec => ImplementsFIFO
<1>1. QueueInit => QueueInv /\ Fifo!Init
  BY InitQueue
<1>2. QueueInv /\ [QueueNext]_queueVars => QueueInv' /\ [Fifo!Next]_(Fifo!vars)
  BY QueueSteps
<1>3. QED
  BY <1>1, <1>2, PTL DEF QueueSpec, ImplementsFIFO, Fifo!Spec
=============================================================================
