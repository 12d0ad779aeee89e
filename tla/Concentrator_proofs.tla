-------------------------- MODULE Concentrator_proofs --------------------------
(***************************************************************************)
(* The two halves of a concentrator's reload, which have no state in       *)
(* common.  While ReloadConfig() changes the collections no thread of the  *)
(* pool runs a handler; what it makes of them has no dangling pointer and  *)
(* no stray subscription.                                                  *)
(***************************************************************************)
EXTENDS ConcentratorThreads, ReloadConfig, FiniteSetTheorems, TLAPS

-----------------------------------------------------------------------------
(***************************************************************************)
(* Parking, for any pool and any elements.  num_parked_threads counts a    *)
(* thread until it has left ParkThread(); the one way to count a thread    *)
(* that runs again is to start parking while a thread is still leaving.    *)
(***************************************************************************)
Handlers == {"enable", "marker", "work", "park"} \X (Elements \cup {NoElement})

\* ReloadConfig() has at most one marker in the queue, and waits for it.
MarkerInv ==
    /\ tasks \in Seq(Handlers)
    /\ timers \subseteq Elements /\ toStart \subseteq Elements /\ toEnable \subseteq Elements
    /\ changed \subseteq Elements
    /\ rl \in {"none", "marker", "ready", "parking", "modify", "enable"}
    /\ \A i \in 1..Len(tasks) : tasks[i][1] = "marker" =>
         /\ rl = "marker"
         /\ \A j \in 1..Len(tasks) : tasks[j][1] = "marker" => j = i

\* The threads that num_parked_threads counts.
Counted == {w \in Workers : pc[w] \in {"parked", "leaving"}}

CountInv ==
    /\ pc \in [Workers -> {"starting", "idle", "work", "wait", "parked", "leaving", "ended"}]
    /\ num_parked_threads = Cardinality(Counted)

\* parking says that a reload has the threads parked or waits for them.
ParkingInv == /\ parking \in BOOLEAN /\ shutting_down \in BOOLEAN
              /\ parking <=> rl \in {"parking", "modify"}

\* Nobody leaves while the threads are being parked, and nobody has left when
\* the collections are changed.
NobodyLeaves ==
    parking /\ ~shutting_down => \A w \in Workers : pc[w] # "leaving"

AllStay ==
    rl = "modify" /\ ~shutting_down => \A w \in Workers : pc[w] = "parked"

ThreadsInv == MarkerInv /\ CountInv /\ ParkingInv /\ NobodyLeaves /\ AllStay

\* ReloadConfig() does not park the threads again before those it parked the
\* last time have left ParkThread().
ReloadsApart == rl = "ready" => \A w \in Workers : pc[w] # "leaving"

-----------------------------------------------------------------------------
\* What posting a handler, and taking one, does to the markers.
LEMMA PostKeepsTasks ==
    ASSUME MarkerInv, NEW t \in Handlers, t[1] # "marker",
           PostTask(t), rl' = rl, UNCHANGED <<timers, toStart, toEnable, changed>>
    PROVE  MarkerInv'
<1>1. tasks' \in Seq(Handlers) /\ Len(tasks') = Len(tasks) + 1
  BY DEF MarkerInv, PostTask
<1>2. \A i \in 1..Len(tasks') : tasks'[i] = IF i = Len(tasks) + 1 THEN t ELSE tasks[i]
  BY DEF MarkerInv, PostTask
<1>3. \A i \in 1..Len(tasks') : tasks'[i][1] = "marker" => i \in 1..Len(tasks) /\ tasks'[i] = tasks[i]
  BY <1>1, <1>2 DEF MarkerInv
<1>4. QED
  BY <1>1, <1>3 DEF MarkerInv

LEMMA TakeKeepsTasks ==
    ASSUME MarkerInv, tasks # <<>>, tasks' = Tail(tasks),
           UNCHANGED <<timers, toStart, toEnable, changed>>,
           \/ RunShort(Head(tasks))
           \/ Head(tasks)[1] # "marker" /\ rl' = rl
    PROVE  MarkerInv' /\ (rl' = rl \/ (rl = "marker" /\ rl' = "ready"))
<1>1. /\ tasks' \in Seq(Handlers) /\ Len(tasks') = Len(tasks) - 1 /\ 1 \in 1..Len(tasks)
      /\ \A i \in 1..Len(tasks') : i + 1 \in 1..Len(tasks) /\ tasks'[i] = tasks[i + 1]
      /\ Head(tasks) = tasks[1]
  BY DEF MarkerInv
<1>2. CASE Head(tasks)[1] = "marker"
  <2>1. rl = "marker" /\ rl' = "ready"
    BY <1>1, <1>2 DEF MarkerInv, RunShort
  <2>2. \A i \in 1..Len(tasks') : tasks'[i][1] # "marker"
    BY <1>1, <1>2 DEF MarkerInv
  <2>3. QED
    BY <1>1, <2>1, <2>2 DEF MarkerInv
<1>3. CASE Head(tasks)[1] # "marker"
  <2>1. rl' = rl
    BY <1>3 DEF RunShort
  <2>2. QED
    BY <1>1, <2>1 DEF MarkerInv
<1>4. QED
  BY <1>2, <1>3

\* A thread that parks is counted, one that leaves no longer is, and any
\* other move of a thread leaves the count alone.
LEMMA CountUp ==
    ASSUME CountInv, NEW w \in Workers, pc[w] \notin {"parked", "leaving"},
           Goto(w, "parked"), num_parked_threads' = num_parked_threads + 1
    PROVE  CountInv'
<1>1. IsFiniteSet(Counted)
  BY FS_Subset, ThreadsAssumption DEF Counted
<1>2. Counted' = Counted \cup {w} /\ w \notin Counted
  BY DEF Counted, CountInv, Goto
<1>3. Cardinality(Counted') = Cardinality(Counted) + 1
  BY <1>1, <1>2, FS_AddElement
<1>4. QED
  BY <1>3 DEF CountInv, Goto

LEMMA CountDownWhenLeft ==
    ASSUME CountInv, NEW w \in Workers, pc[w] = "leaving",
           NEW l \in {"wait", "idle"}, Goto(w, l),
           num_parked_threads' = num_parked_threads - 1
    PROVE  CountInv'
<1>1. IsFiniteSet(Counted)
  BY FS_Subset, ThreadsAssumption DEF Counted
<1>2. Counted' = Counted \ {w} /\ w \in Counted
  BY DEF Counted, CountInv, Goto
<1>3. Cardinality(Counted') = Cardinality(Counted) - 1
  BY <1>1, <1>2, FS_RemoveElement
<1>4. QED
  BY <1>3 DEF CountInv, Goto

LEMMA CountStays ==
    ASSUME CountInv, NEW w \in Workers,
           NEW l \in {"idle", "work", "wait", "leaving", "ended"},
           l = "leaving" <=> pc[w] \in {"parked", "leaving"}, Goto(w, l),
           num_parked_threads' = num_parked_threads
    PROVE  CountInv'
<1>1. Counted' = Counted
  BY DEF Counted, CountInv, Goto
<1>2. QED
  BY <1>1 DEF CountInv, Goto

\* When as many threads are counted as there are, all of them are.
LEMMA AllCounted ==
    ASSUME CountInv, AllParked
    PROVE  \A w \in Workers : pc[w] \in {"parked", "leaving"}
<1>1. IsFiniteSet(Counted) /\ Cardinality(Counted) <= Cardinality(Workers)
  BY FS_Subset, ThreadsAssumption DEF Counted
<1>2. Cardinality(Counted) = Cardinality(Workers)
  BY <1>1, FS_CardinalityType, ThreadsAssumption DEF CountInv, AllParked, Threads
<1>3. Counted = Workers
  BY <1>2, FS_Subset, ThreadsAssumption DEF Counted
<1>4. QED
  BY <1>3 DEF Counted

-----------------------------------------------------------------------------
\* Every step keeps the queue's markers in order.
LEMMA MarkerStep == MarkerInv /\ [ThreadsNext]_threadVars => MarkerInv'
<1> SUFFICES ASSUME MarkerInv, [ThreadsNext]_threadVars PROVE MarkerInv'
  OBVIOUS
<1>0. /\ WorkTask \in Handlers /\ WorkTask[1] # "marker"
      /\ ParkTask \in Handlers /\ ParkTask[1] # "marker"
      /\ \A e \in Elements : <<"enable", e>> \in Handlers /\ <<"enable", e>>[1] # "marker"
  BY DEF Handlers, WorkTask, ParkTask
<1>1. ASSUME NEW e \in Elements, EnableIOHandler(e), rl' = rl, toStart' \subseteq Elements,
             toEnable' \subseteq Elements, changed' = changed
      PROVE  MarkerInv'
  <2>1. CASE e \in Delayed
    BY <1>1, <2>1 DEF EnableIOHandler, MarkerInv
  <2>2. CASE e \notin Delayed
    <3>1. PostTask(<<"enable", e>>) /\ timers' = timers
      BY <1>1, <2>2 DEF EnableIOHandler
    <3>2. tasks' \in Seq(Handlers) /\ Len(tasks') = Len(tasks) + 1
      BY <3>1, <1>0 DEF MarkerInv, PostTask
    <3>3. \A i \in 1..Len(tasks') : tasks'[i][1] = "marker" => i \in 1..Len(tasks) /\ tasks'[i] = tasks[i]
      BY <3>1, <3>2 DEF MarkerInv, PostTask
    <3>4. QED
      BY <1>1, <3>1, <3>2, <3>3 DEF MarkerInv
  <2>3. QED
    BY <2>1, <2>2
<1>2. ASSUME NEW w \in Workers, Worker(w) PROVE MarkerInv'
  <2>1. CASE Take(w)
    <3>1. /\ tasks # <<>> /\ tasks' = Tail(tasks)
          /\ UNCHANGED <<timers, toStart, toEnable, changed>>
      BY <2>1 DEF Take
    <3>2. RunShort(Head(tasks)) \/ (Head(tasks)[1] # "marker" /\ rl' = rl)
      BY <2>1 DEF Take
    <3>3. QED
      BY <3>1, <3>2, TakeKeepsTasks
  <2>2. CASE ParkThread(w)
    BY <2>2, <1>0, PostKeepsTasks DEF ParkThread, Chain, starting, reload
  <2>3. CASE WorkDone(w) \/ Released(w) \/ Leave(w) \/ RunEnds(w)
    BY <2>3 DEF WorkDone, Released, Leave, RunEnds, starting, reload, MarkerInv
  <2>4. QED
    BY <1>2, <2>1, <2>2, <2>3 DEF Worker
<1>3. CASE Run
  <2>1. CASE RunJoins
    BY <2>1 DEF RunJoins, starting, reload, MarkerInv
  <2>2. ASSUME NEW e \in Elements, RunStarts(e) PROVE MarkerInv'
    BY <2>2, <1>1 DEF RunStarts, reload, MarkerInv
  <2>3. QED
    BY <1>3, <2>1, <2>2 DEF Run
<1>4. ASSUME NEW e \in Elements, TimerFires(e) PROVE MarkerInv'
  <2>1. tasks' \in Seq(Handlers) /\ Len(tasks') = Len(tasks) + 1
    BY <1>0, <1>4 DEF TimerFires, MarkerInv, PostTask
  <2>2. \A i \in 1..Len(tasks') : tasks'[i][1] = "marker" => i \in 1..Len(tasks) /\ tasks'[i] = tasks[i]
    BY <2>1, <1>4 DEF TimerFires, MarkerInv, PostTask
  <2>3. QED
    BY <1>4, <2>1, <2>2 DEF TimerFires, starting, reload, MarkerInv
<1>5. CASE PostWork
  BY <1>5, <1>0, PostKeepsTasks DEF PostWork, starting, reload
<1>6. ASSUME NEW ch \in SUBSET Elements, NEW re \in SUBSET Elements, ReloadConfig(ch, re)
      PROVE  MarkerInv'
  <2>1. \A i \in 1..Len(tasks) : tasks[i][1] # "marker"
    BY <1>6 DEF ReloadConfig, MarkerInv
  <2>2. /\ tasks' \in Seq(Handlers) /\ Len(tasks') = Len(tasks) + 1
        /\ \A i \in 1..Len(tasks) : tasks'[i] = tasks[i]
    BY <1>6 DEF ReloadConfig, MarkerInv, PostTask, MarkerTask, Handlers
  <2>3. \A i \in 1..Len(tasks') : tasks'[i][1] = "marker" => i = Len(tasks) + 1
    BY <2>1, <2>2 DEF MarkerInv
  <2>4. QED
    BY <1>6, <2>2, <2>3 DEF ReloadConfig, MarkerInv
<1>7. CASE Reloader
  <2>1. CASE ParkThreads
    <3>1. tasks' \in Seq(Handlers) /\ Len(tasks') = Len(tasks) + 1
      BY <1>0, <2>1 DEF ParkThreads, MarkerInv, PostTask
    <3>2. \A i \in 1..Len(tasks') : tasks'[i][1] # "marker"
      BY <1>0, <2>1, <3>1 DEF ParkThreads, MarkerInv, PostTask
    <3>3. QED
      BY <2>1, <3>1, <3>2 DEF ParkThreads, starting, MarkerInv
  <2>2. CASE ParkThreadsReturns
    BY <2>2 DEF ParkThreadsReturns, pool, starting, MarkerInv
  <2>3. CASE Unpark
    BY <2>3 DEF Unpark, pool, MarkerInv
  <2>4. CASE ReloadReturns
    BY <2>4 DEF ReloadReturns, pool, MarkerInv
  <2>5. ASSUME NEW e \in Elements, ReloadEnables(e) PROVE MarkerInv'
    BY <2>5, <1>1 DEF ReloadEnables, MarkerInv
  <2>6. QED
    BY <1>7, <2>1, <2>2, <2>3, <2>4, <2>5 DEF Reloader
<1>8. CASE Shutdown \/ ShutdownSteps
  BY <1>8 DEF Shutdown, ShutdownSteps, ShutdownStartsDisabling, ShutdownDone, pool, starting,
              reload, MarkerInv
<1>9. CASE HelperRuns
  <2>1. /\ tasks # <<>> /\ tasks' = Tail(tasks)
        /\ UNCHANGED <<timers, toStart, toEnable, changed>>
    BY <1>9 DEF HelperRuns
  <2>2. RunShort(Head(tasks)) \/ (Head(tasks)[1] # "marker" /\ rl' = rl)
    BY <1>9 DEF HelperRuns
  <2>3. QED
    BY <2>1, <2>2, TakeKeepsTasks
<1>10. CASE UNCHANGED threadVars
  BY <1>10 DEF threadVars, pool, starting, reload, MarkerInv
<1>11. QED
  BY <1>2, <1>3, <1>4, <1>5, <1>6, <1>7, <1>8, <1>9, <1>10 DEF ThreadsNext

\* Every step keeps the count of the parked threads right.
LEMMA CountStep == CountInv /\ [ThreadsNext]_threadVars => CountInv'
<1> SUFFICES ASSUME CountInv, [ThreadsNext]_threadVars PROVE CountInv'
  OBVIOUS
<1>1. ASSUME UNCHANGED <<pc, num_parked_threads>> PROVE CountInv'
  BY <1>1 DEF CountInv, Counted
<1>2. ASSUME NEW w \in Workers, Worker(w) PROVE CountInv'
  <2>1. CASE Take(w)
    <3>1. num_parked_threads' = num_parked_threads /\ pc[w] \in {"idle", "wait"}
      BY <2>1 DEF Take, park, MayRun
    <3>2. pc' = pc \/ \E l \in {"work", "wait"} : Goto(w, l)
      BY <2>1 DEF Take
    <3>3. QED
      BY <3>1, <3>2, <1>1, CountStays
  <2>2. CASE WorkDone(w)
    BY <2>2, CountStays DEF WorkDone, Return, park
  <2>3. CASE ParkThread(w)
    BY <2>3, CountUp DEF ParkThread
  <2>4. CASE Released(w)
    BY <2>4, CountStays DEF Released, park
  <2>5. CASE Leave(w)
    BY <2>5, CountDownWhenLeft DEF Leave, Return
  <2>6. CASE RunEnds(w)
    BY <2>6, CountStays DEF RunEnds, park
  <2>7. QED
    BY <1>2, <2>1, <2>2, <2>3, <2>4, <2>5, <2>6 DEF Worker
<1>3. CASE Run
  <2>1. CASE RunJoins
    BY <2>1, CountStays, ThreadsAssumption DEF RunJoins, park
  <2>2. ASSUME NEW e \in Elements, RunStarts(e) PROVE CountInv'
    BY <2>2, <1>1 DEF RunStarts, park
  <2>3. QED
    BY <1>3, <2>1, <2>2 DEF Run
<1>4. ASSUME NEW e \in Elements, TimerFires(e) PROVE CountInv'
  BY <1>1, <1>4 DEF TimerFires, park
<1>5. ASSUME NEW ch \in SUBSET Elements, NEW re \in SUBSET Elements, ReloadConfig(ch, re)
      PROVE  CountInv'
  BY <1>1, <1>5 DEF ReloadConfig, park
<1>6. CASE Reloader
  BY <1>1, <1>6 DEF Reloader, ParkThreads, ParkThreadsReturns, Unpark, ReloadReturns,
                    ReloadEnables, pool, park
<1>7. CASE PostWork \/ Shutdown \/ ShutdownSteps \/ HelperRuns
  BY <1>1, <1>7 DEF PostWork, Shutdown, ShutdownSteps, ShutdownStartsDisabling, ShutdownDone,
                    HelperRuns, pool, park
<1>8. CASE UNCHANGED threadVars
  BY <1>1, <1>8 DEF threadVars, pool, park
<1>9. QED
  BY <1>2, <1>3, <1>4, <1>5, <1>6, <1>7, <1>8 DEF ThreadsNext

-----------------------------------------------------------------------------
\* rl leaves "parking" and "modify", and parking changes, in the steps of
\* ReloadConfig() only; a marker is run before the threads are parked.
LEMMA ParkingStep == MarkerInv /\ ParkingInv /\ [ThreadsNext]_threadVars => ParkingInv'
<1> SUFFICES ASSUME MarkerInv, ParkingInv, [ThreadsNext]_threadVars PROVE ParkingInv'
  OBVIOUS
<1>1. ASSUME UNCHANGED <<parking, shutting_down>>, rl' = rl \/ (rl = "marker" /\ rl' = "ready")
      PROVE  ParkingInv'
  BY <1>1 DEF ParkingInv
<1>2. ASSUME NEW w \in Workers, Worker(w) PROVE ParkingInv'
  <2>1. CASE Take(w)
    <3>1. /\ tasks # <<>> /\ tasks' = Tail(tasks)
          /\ UNCHANGED <<timers, toStart, toEnable, changed, parking, shutting_down>>
      BY <2>1 DEF Take, park
    <3>2. RunShort(Head(tasks)) \/ (Head(tasks)[1] # "marker" /\ rl' = rl)
      BY <2>1 DEF Take
    <3>3. QED
      BY <1>1, <3>1, <3>2, TakeKeepsTasks
  <2>2. CASE WorkDone(w) \/ ParkThread(w) \/ Released(w) \/ Leave(w) \/ RunEnds(w)
    BY <1>1, <2>2 DEF WorkDone, ParkThread, Released, Leave, RunEnds, park, reload
  <2>3. QED
    BY <1>2, <2>1, <2>2 DEF Worker
<1>3. CASE Run \/ PostWork \/ \E e \in Elements : TimerFires(e)
  BY <1>1, <1>3 DEF Run, RunJoins, RunStarts, PostWork, TimerFires, park, reload
<1>4. ASSUME NEW ch, NEW re, ReloadConfig(ch, re) PROVE ParkingInv'
  BY <1>4 DEF ReloadConfig, park, ParkingInv
<1>5. CASE Reloader
  <2>1. CASE ParkThreads
    BY <2>1 DEF ParkThreads, ParkingInv
  <2>2. CASE ParkThreadsReturns
    BY <2>2 DEF ParkThreadsReturns, ParkingInv
  <2>3. CASE Unpark
    BY <2>3 DEF Unpark, ParkingInv
  <2>4. CASE ReloadReturns
    BY <2>4 DEF ReloadReturns, park, ParkingInv
  <2>5. CASE \E e \in Elements : ReloadEnables(e)
    BY <1>1, <2>5 DEF ReloadEnables, park
  <2>6. QED
    BY <1>5, <2>1, <2>2, <2>3, <2>4, <2>5 DEF Reloader
<1>6. CASE Shutdown \/ ShutdownSteps
  <2>1. UNCHANGED <<parking, rl>>
    BY <1>6 DEF Shutdown, ShutdownSteps, ShutdownStartsDisabling, ShutdownDone, park, reload
  <2>2. shutting_down' = TRUE \/ shutting_down' = shutting_down
    BY <1>6 DEF Shutdown, ShutdownSteps, ShutdownStartsDisabling, ShutdownDone
  <2>3. QED
    BY <2>1, <2>2 DEF ParkingInv
<1>7. CASE HelperRuns
  <2>1. /\ tasks # <<>> /\ tasks' = Tail(tasks)
        /\ UNCHANGED <<timers, toStart, toEnable, changed, parking, shutting_down>>
    BY <1>7 DEF HelperRuns, park
  <2>2. RunShort(Head(tasks)) \/ (Head(tasks)[1] # "marker" /\ rl' = rl)
    BY <1>7 DEF HelperRuns
  <2>3. QED
    BY <1>1, <2>1, <2>2, TakeKeepsTasks
<1>8. CASE UNCHANGED threadVars
  BY <1>1, <1>8 DEF threadVars, park, reload
<1>9. QED
  BY <1>2, <1>3, <1>4, <1>5, <1>6, <1>7, <1>8 DEF ThreadsNext

\* The steps that move a thread of the pool, and where they move it.
LEMMA WhoMoves ==
    ASSUME CountInv, [ThreadsNext]_threadVars
    PROVE  \/ pc' = pc
           \/ pc[Main] = "starting" /\ Goto(Main, "idle")
           \/ \E w \in Workers : Released(w)
           \/ \E w \in Workers, l \in {"idle", "work", "wait", "parked", "ended"} :
                 pc[w] \notin {"starting", "parked"} /\ Goto(w, l)
<1>1. ASSUME NEW w \in Workers, Worker(w)
      PROVE  \/ pc' = pc \/ Released(w)
             \/ \E l \in {"idle", "work", "wait", "parked", "ended"} :
                   pc[w] \notin {"starting", "parked"} /\ Goto(w, l)
  <2>1. CASE Take(w)
    BY <2>1 DEF Take, MayRun
  <2>2. CASE WorkDone(w) \/ ParkThread(w) \/ Leave(w) \/ RunEnds(w)
    BY <2>2 DEF WorkDone, ParkThread, Leave, RunEnds, Return
  <2>3. QED
    BY <1>1, <2>1, <2>2 DEF Worker
<1>2. CASE Run
  BY <1>2 DEF Run, RunJoins, RunStarts
<1>3. CASE Reloader \/ PostWork \/ Shutdown \/ ShutdownSteps \/ HelperRuns
  BY <1>3 DEF Reloader, ParkThreads, ParkThreadsReturns, Unpark, ReloadReturns, ReloadEnables,
              PostWork, Shutdown, ShutdownSteps, ShutdownStartsDisabling, ShutdownDone,
              HelperRuns, pool
<1>4. CASE \/ \E e \in Elements : TimerFires(e)
           \/ \E ch, re \in SUBSET Elements : ReloadConfig(ch, re)
           \/ UNCHANGED threadVars
  BY <1>4 DEF TimerFires, ReloadConfig, threadVars, pool
<1>5. QED
  BY <1>1, <1>2, <1>3, <1>4 DEF ThreadsNext

\* The steps that make parking or rl what they were not, and shutting_down.
LEMMA WhoParks ==
    ASSUME MarkerInv, ParkingInv, [ThreadsNext]_threadVars
    PROVE  /\ shutting_down => shutting_down'
           /\ parking' /\ ~parking => ParkThreads
           /\ rl' = "modify" /\ rl # "modify" => ParkThreadsReturns /\ ~GiveUp
<1>1. CASE Reloader
  BY <1>1 DEF Reloader, ParkThreads, ParkThreadsReturns, Unpark, ReloadReturns,
              ReloadEnables, park
<1>2. ASSUME NEW w \in Workers, Worker(w)
      PROVE  UNCHANGED <<shutting_down, parking>> /\ (rl' = rl \/ rl' = "ready")
  <2>1. CASE Take(w)
    BY <2>1 DEF Take, RunShort, park
  <2>2. CASE WorkDone(w) \/ ParkThread(w) \/ Released(w) \/ Leave(w) \/ RunEnds(w)
    BY <2>2 DEF WorkDone, ParkThread, Released, Leave, RunEnds, park, reload
  <2>3. QED
    BY <1>2, <2>1, <2>2 DEF Worker
<1>3. CASE Run \/ PostWork \/ HelperRuns
  BY <1>3 DEF Run, RunJoins, RunStarts, PostWork, HelperRuns, RunShort, park, reload
<1>4. CASE Shutdown \/ ShutdownSteps
  BY <1>4 DEF Shutdown, ShutdownSteps, ShutdownStartsDisabling, ShutdownDone, park, reload
<1>5. CASE (\E e \in Elements : TimerFires(e)) \/ UNCHANGED threadVars
  <2>1. UNCHANGED <<shutting_down, parking, rl>>
    BY <1>5 DEF TimerFires, threadVars, park, reload
  <2>2. QED
    BY <2>1
<1>6. ASSUME NEW ch, NEW re, ReloadConfig(ch, re)
      PROVE  UNCHANGED <<shutting_down, parking>> /\ rl' = "marker"
  BY <1>6 DEF ReloadConfig, park
<1>7. QED
  BY <1>1, <1>2, <1>3, <1>4, <1>5, <1>6 DEF ThreadsNext

\* The step of the argument: nobody leaves while parking is set.
LEMMA StayStep ==
    ASSUME ThreadsInv, ReloadsApart, [ThreadsNext]_threadVars
    PROVE  NobodyLeaves' /\ AllStay'
<1> USE DEF ThreadsInv
<1>1. ParkingInv'
  BY ParkingStep
<1>2. /\ shutting_down => shutting_down'
      /\ parking' /\ ~parking => ParkThreads
      /\ rl' = "modify" /\ rl # "modify" => ParkThreadsReturns /\ ~GiveUp
  BY WhoParks
<1>3. NobodyLeaves'
  <2> SUFFICES ASSUME parking', ~shutting_down', NEW w \in Workers
               PROVE  pc'[w] # "leaving"
    BY DEF NobodyLeaves
  <2>1. ~shutting_down
    BY <1>2 DEF ParkingInv
  <2>2. CASE ~parking
    BY <2>2, <1>2 DEF ParkThreads, ReloadsApart
  <2>3. CASE parking
    <3>1. \A u \in Workers : ~Released(u) /\ pc[u] # "leaving"
      BY <2>1, <2>3 DEF Released, NobodyLeaves
    <3>2. QED
      BY <3>1, WhoMoves, ThreadsAssumption DEF Goto, CountInv
  <2>4. QED
    BY <2>2, <2>3
<1>4. AllStay'
  <2> SUFFICES ASSUME rl' = "modify", ~shutting_down', NEW w \in Workers
               PROVE  pc'[w] = "parked"
    BY DEF AllStay
  <2>1. ~shutting_down
    BY <1>2 DEF ParkingInv
  <2>2. CASE rl = "modify"
    <3>1. parking /\ \A u \in Workers : ~Released(u) /\ pc[u] = "parked"
      BY <2>1, <2>2 DEF Released, AllStay, ParkingInv
    <3>2. pc' = pc
      BY <3>1, WhoMoves, ThreadsAssumption
    <3>3. QED
      BY <3>1, <3>2
  <2>3. CASE rl # "modify"
    <3>1. rl = "parking" /\ AllParked /\ pc' = pc
      BY <1>2, <2>3 DEF ParkThreadsReturns, pool
    <3>2. pc[w] \in {"parked", "leaving"} /\ pc[w] # "leaving"
      BY <3>1, <2>1, AllCounted DEF ParkingInv, NobodyLeaves
    <3>3. QED
      BY <3>1, <3>2
  <2>4. QED
    BY <2>2, <2>3
<1>5. QED
  BY <1>3, <1>4

\* Initially no thread is parked and nothing is posted.
LEMMA InitThreadsInv == ThreadsInit => ThreadsInv
<1> SUFFICES ASSUME ThreadsInit PROVE ThreadsInv
  OBVIOUS
<1>1. MarkerInv
  BY DEF ThreadsInit, MarkerInv
<1>2. CountInv
  <2>1. Counted = {}
    BY DEF ThreadsInit, Counted
  <2>2. QED
    BY <2>1, FS_EmptySet DEF ThreadsInit, CountInv
<1>3. ParkingInv /\ NobodyLeaves /\ AllStay
  BY DEF ThreadsInit, ParkingInv, NobodyLeaves, AllStay
<1>4. QED
  BY <1>1, <1>2, <1>3 DEF ThreadsInv

(***************************************************************************)
(* ReloadConfig() changes the collections alone, however often it is       *)
(* called, as long as no thread is still on its way out of ParkThread()    *)
(* when the threads are parked again.                                      *)
(***************************************************************************)
THEOREM ExclusiveWhenReloadsApart == ThreadsSpec /\ []ReloadsApart => []Exclusive
<1>1. ThreadsInv /\ ReloadsApart /\ [ThreadsNext]_threadVars => ThreadsInv'
  BY MarkerStep, CountStep, ParkingStep, StayStep DEF ThreadsInv
<1>2. ThreadsInv => Exclusive
  BY DEF ThreadsInv, AllStay, Exclusive
<1>3. QED
  BY InitThreadsInv, <1>1, <1>2, PTL DEF ThreadsSpec

-----------------------------------------------------------------------------
\* A thread that is in ParkThread(), or in a handler that ParkThread() runs.
InParkThread(w) == pc[w] \in {"wait", "parked", "leaving"} \/ depth[w] # 0

\* Before the first reload parks the threads, no thread is in ParkThread().
FirstReloadInv ==
    /\ depth \in [Workers -> Nat]
    /\ reloads \in Nat /\ reloads <= MaxParkings
    /\ reloads = 0 => rl = "none"
    /\ reloads = 0 \/ rl \in {"marker", "ready"} => \A w \in Workers : ~InParkThread(w)

\* A thread enters ParkThread() only while parking is set.
LEMMA WhoGoesParking ==
    ASSUME CountInv, depth \in [Workers -> Nat], [ThreadsNext]_threadVars
    PROVE  /\ depth' \in [Workers -> Nat]
           /\ \A w \in Workers : InParkThread(w)' => parking \/ InParkThread(w)
<1> USE DEF InParkThread
<1>1. ASSUME UNCHANGED depth, pc' = pc \/ Goto(Main, "idle")
      PROVE  /\ depth' \in [Workers -> Nat]
             /\ \A w \in Workers : InParkThread(w)' => parking \/ InParkThread(w)
  BY <1>1, ThreadsAssumption DEF Goto, CountInv
<1>2. ASSUME NEW u \in Workers, Worker(u)
      PROVE  /\ depth' \in [Workers -> Nat]
             /\ \A w \in Workers : InParkThread(w)' => parking \/ InParkThread(w)
  <2>1. CASE Take(u)
    <3>1. CASE UNCHANGED <<pc, depth>>
      BY <1>1, <3>1
    <3>2. CASE /\ pc[u] \in {"idle", "wait"} /\ depth' = Nested(u)
               /\ Goto(u, "work") \/ (Goto(u, "wait") /\ parking)
      BY <3>2 DEF Goto, CountInv, Nested
    <3>3. QED
      BY <2>1, <3>1, <3>2 DEF Take, MayRun
  <2>2. CASE WorkDone(u) \/ Leave(u)
    <3>1. Return(u)
      BY <2>2 DEF WorkDone, Leave
    <3>2. QED
      BY <3>1 DEF Return, Goto, CountInv
  <2>3. CASE ParkThread(u) \/ Released(u)
    BY <2>3 DEF ParkThread, Released, Goto, CountInv
  <2>4. CASE RunEnds(u)
    BY <2>4 DEF RunEnds, Goto, CountInv
  <2>5. QED
    BY <1>2, <2>1, <2>2, <2>3, <2>4 DEF Worker
<1>3. CASE Run
  BY <1>1, <1>3 DEF Run, RunJoins, RunStarts
<1>4. CASE Reloader \/ PostWork \/ Shutdown \/ ShutdownSteps \/ HelperRuns
  BY <1>1, <1>4 DEF Reloader, ParkThreads, ParkThreadsReturns, Unpark, ReloadReturns,
              ReloadEnables, PostWork, Shutdown, ShutdownSteps, ShutdownStartsDisabling,
              ShutdownDone, HelperRuns, pool
<1>5. CASE \/ \E e \in Elements : TimerFires(e)
           \/ \E ch, re \in SUBSET Elements : ReloadConfig(ch, re)
           \/ UNCHANGED threadVars
  BY <1>1, <1>5 DEF TimerFires, ReloadConfig, threadVars, pool
<1>6. QED
  BY <1>2, <1>3, <1>4, <1>5 DEF ThreadsNext

\* What a step that is not the start of a reload does to ReloadConfig().
LEMMA ReloadGoesOn ==
    ASSUME MarkerInv, [ThreadsNext]_threadVars
    PROVE  \/ \E ch, re \in SUBSET Elements : ReloadConfig(ch, re)
           \/ /\ reloads' = reloads
              /\ \/ rl' = rl
                 \/ rl = "marker" /\ rl' = "ready"
                 \/ rl # "none" /\ rl' \notin {"marker", "ready"}
<1>1. ASSUME NEW w \in Workers, Worker(w)
      PROVE  reloads' = reloads /\ (rl' = rl \/ (rl = "marker" /\ rl' = "ready"))
  <2>1. CASE Take(w)
    <3>1. /\ tasks # <<>> /\ tasks' = Tail(tasks) /\ reloads' = reloads
          /\ UNCHANGED <<timers, toStart, toEnable, changed>>
      BY <2>1 DEF Take
    <3>2. RunShort(Head(tasks)) \/ (Head(tasks)[1] # "marker" /\ rl' = rl)
      BY <2>1 DEF Take
    <3>3. QED
      BY <3>1, <3>2, TakeKeepsTasks
  <2>2. CASE WorkDone(w) \/ ParkThread(w) \/ Released(w) \/ Leave(w) \/ RunEnds(w)
    BY <2>2 DEF WorkDone, ParkThread, Released, Leave, RunEnds, reload
  <2>3. QED
    BY <1>1, <2>1, <2>2 DEF Worker
<1>2. CASE HelperRuns
  <2>1. /\ tasks # <<>> /\ tasks' = Tail(tasks) /\ reloads' = reloads
        /\ UNCHANGED <<timers, toStart, toEnable, changed>>
    BY <1>2 DEF HelperRuns
  <2>2. RunShort(Head(tasks)) \/ (Head(tasks)[1] # "marker" /\ rl' = rl)
    BY <1>2 DEF HelperRuns
  <2>3. QED
    BY <2>1, <2>2, TakeKeepsTasks
<1>3. CASE Run \/ PostWork \/ Shutdown \/ ShutdownSteps
  BY <1>3 DEF Run, RunJoins, RunStarts, PostWork, Shutdown, ShutdownSteps,
              ShutdownStartsDisabling, ShutdownDone, reload
<1>4. CASE Reloader
  BY <1>4 DEF Reloader, ParkThreads, ParkThreadsReturns, Unpark, ReloadReturns, ReloadEnables
<1>5. CASE (\E e \in Elements : TimerFires(e)) \/ UNCHANGED threadVars
  BY <1>5 DEF TimerFires, threadVars, reload
<1>6. QED
  BY <1>1, <1>2, <1>3, <1>4, <1>5 DEF ThreadsNext

(***************************************************************************)
(* The run's Exclusive, for any number of threads and elements: the first  *)
(* reload changes the collections while no thread of the pool runs a       *)
(* handler (MaxParkings bounds the reloads of the model).                  *)
(***************************************************************************)
THEOREM FirstReloadExclusive ==
    ASSUME MaxParkings <= 1
    PROVE  ThreadsSpec => []Exclusive
<1> DEFINE Inv == MarkerInv /\ CountInv /\ ParkingInv /\ FirstReloadInv
<1>1. ThreadsInit => Inv
  <2> SUFFICES ASSUME ThreadsInit PROVE Inv
    OBVIOUS
  <2>1. FirstReloadInv
    BY ThreadsAssumption DEF ThreadsInit, FirstReloadInv, InParkThread
  <2>2. QED
    BY <2>1, InitThreadsInv DEF ThreadsInv
<1>2. Inv /\ [ThreadsNext]_threadVars => Inv'
  <2> SUFFICES ASSUME Inv, [ThreadsNext]_threadVars PROVE Inv'
    OBVIOUS
  <2>1. MarkerInv' /\ CountInv' /\ ParkingInv'
    BY MarkerStep, CountStep, ParkingStep
  <2>2. CASE \E ch, re \in SUBSET Elements : ReloadConfig(ch, re)
    <3>1. reloads = 0 /\ reloads' = 1 /\ UNCHANGED <<pc, depth>> /\ MaxParkings = 1
      BY <2>2, ThreadsAssumption DEF ReloadConfig, FirstReloadInv
    <3>2. FirstReloadInv'
      BY <3>1 DEF FirstReloadInv, InParkThread
    <3>3. QED
      BY <2>1, <3>2
  <2>3. CASE ~\E ch, re \in SUBSET Elements : ReloadConfig(ch, re)
    <3>1. /\ reloads' = reloads
          /\ rl' = rl \/ (rl = "marker" /\ rl' = "ready")
                      \/ (rl # "none" /\ rl' \notin {"marker", "ready"})
      BY <2>3, ReloadGoesOn
    <3>2. /\ depth' \in [Workers -> Nat]
          /\ \A w \in Workers : InParkThread(w)' => parking \/ InParkThread(w)
      BY WhoGoesParking DEF FirstReloadInv
    <3>3. reloads = 0 \/ rl' \in {"marker", "ready"} => ~parking
      BY <3>1 DEF ParkingInv, FirstReloadInv
    <3>4. FirstReloadInv'
      BY <3>1, <3>2, <3>3 DEF FirstReloadInv
    <3>5. QED
      BY <2>1, <3>4
  <2>4. QED
    BY <2>2, <2>3
<1>3. Inv => ReloadsApart
  BY DEF FirstReloadInv, ReloadsApart, InParkThread
<1>4. QED
  BY <1>1, <1>2, <1>3, ExclusiveWhenReloadsApart, PTL DEF ThreadsSpec

-----------------------------------------------------------------------------
(***************************************************************************)
(* ReloadConfig leaves no dangling pointer and no stray subscription, for  *)
(* any ports, connectors and configurations, and what runs is the          *)
(* configuration if every difference is detected.                          *)
(***************************************************************************)
\* Only objects of the configuration are registered.
RegisteredInv == /\ gen \in Nat
                 /\ reg \in [Names -> Int]
                 /\ \A n \in Names : reg[n] # None => n \in Present(conf)

\* The shape of SenderConnections: live connectors, both directions.
LinksInv == \A c \in Connectors : \A l \in links[c] :
              /\ l \in Ports \X Ports \X Int
              /\ reg[c] # None /\ reg[l[2]] # None
              /\ \E k \in links[c] : k[1] = l[2] /\ k[2] = l[1]

SubsInv == subs \in [Ports -> [Connectors -> Int]]

IInv == ~failed => /\ RegisteredInv /\ LinksInv /\ SubsInv
                   /\ NoDangling /\ SubscribedAsConnected

\* The connections ProcessElements makes are between registered ports, come in
\* pairs, and hold the addresses of the objects registered.
LEMMA LinksOfFacts ==
    ASSUME NEW connections, NEW r \in [Names -> Int], NEW l \in LinksOf(connections, r)
    PROVE  /\ l \in Ports \X Ports \X Int
           /\ r[l[2]] # None /\ l[3] = r[l[2]]
           /\ \E k \in LinksOf(connections, r) : k[1] = l[2] /\ k[2] = l[1]
<1>1. PICK x \in Joined(connections, r) : l = <<x[1], x[2], r[x[2]]>>
  BY DEF LinksOf
<1>2. /\ x \in Ports \X Ports /\ x[1] # x[2]
      /\ {x[1], x[2]} \in Made(connections, r)
  BY <1>1 DEF Joined
<1>3. x[1] \in Names /\ x[2] \in Names /\ r[x[2]] # None
  BY <1>2 DEF Made, Registered, Names
<1>4. <<x[2], x[1]>> \in Joined(connections, r)
  <2>1. {x[2], x[1]} = {x[1], x[2]}
    OBVIOUS
  <2> QED
    BY <2>1, <1>2 DEF Joined
<1>5. <<x[2], x[1], r[x[1]]>> \in LinksOf(connections, r)
  BY <1>4 DEF LinksOf
<1> QED
  BY <1>1, <1>2, <1>3, <1>5

LEMMA InitIInv == Init => IInv
<1> SUFFICES ASSUME Init PROVE IInv
  OBVIOUS
<1>1. RegisteredInv
  <2>1. /\ reg = [n \in Names |-> IF n \in Built(conf, Present(conf)) THEN 0 ELSE None]
        /\ gen = 0
    BY DEF Init
  <2>2. None \in Int /\ Built(conf, Present(conf)) \subseteq Present(conf)
    BY DEF None, Built
  <2> QED
    BY <2>1, <2>2 DEF RegisteredInv
<1>2. \A c \in Connectors : \A l \in links[c] :
         /\ reg[c] # None
         /\ links[c] = LinksOf(conf.entry[c][1], reg)
  BY DEF Init
<1>3. \A c \in Connectors : \A l \in links[c] :
         /\ l \in Ports \X Ports \X Int
         /\ reg[l[2]] # None /\ l[3] = reg[l[2]]
         /\ \E k \in links[c] : k[1] = l[2] /\ k[2] = l[1]
  BY <1>1, <1>2, LinksOfFacts DEF RegisteredInv
<1>4. LinksInv
  BY <1>2, <1>3 DEF LinksInv
<1>5. SubsInv
  BY DEF Init, SubsInv, None
<1>6. \A c \in Connectors : reg[c] # None => reg[c] = 0
  BY DEF Init, Names
<1>7. \A p \in Ports, c \in Connectors :
         subs[p][c] = IF \E l \in links[c] : l[1] = p THEN 0 ELSE None
  BY DEF Init
<1>8. 0 # None
  BY DEF None
<1>9. NoDangling
  BY <1>2, <1>3, <1>6, <1>7, <1>8 DEF NoDangling
<1>10. SubscribedAsConnected
  BY <1>7, <1>8 DEF SubscribedAsConnected
<1> QED
  BY <1>1, <1>4, <1>5, <1>9, <1>10 DEF IInv

(***************************************************************************)
(* A reload that is carried through.  The argument: a connector that stays *)
(* is subscribed to all the ports it is connected to, so none of them is   *)
(* deleted (WouldDangle), and one that is built again gets its new address *)
(* from NeedsNewAddr; a connector that goes has unsubscribed from all its  *)
(* ports, because connections come in pairs.                               *)
(***************************************************************************)
LEMMA ApplyIInv ==
    ASSUME IInv, ~failed, NEW new, Apply(new), gen' = gen + 1, ~failed'
    PROVE  IInv'
<1> DEFINE gone == delete_or_changeIOHs(new)
           made == created_or_changeIOHs(new)
<1>1. RegisteredInv /\ LinksInv /\ SubsInv /\ NoDangling /\ SubscribedAsConnected
  BY DEF IInv
<1>2. /\ \A n \in gone : n \in Names /\ reg[n] # None
      /\ \A n \in made : n \in Names /\ n \in Present(new)
      /\ \A n \in made : reg[n] # None => n \in changedIOHs(new)
      /\ \A n \in gone : n \in deletedIOHs(new) \/ n \in changedIOHs(new)
      /\ changedIOHs(new) \subseteq gone \cap made
      /\ \A n \in Names : reg[n] # None /\ n \notin gone => n \in Present(new)
  BY <1>1 DEF RegisteredInv, delete_or_changeIOHs, created_or_changeIOHs, deletedIOHs,
              changedIOHs, createdIOHs, Different, Registered, Present
<1>3. /\ gen \in Nat /\ gen + 1 \in Int /\ gen + 1 # None /\ None \in Int
      /\ reg' = NewReg(new) /\ conf' = new
  BY <1>1 DEF Apply, RegisteredInv, None
<1> HIDE DEF gone, made
<1>4. /\ reg' \in [Names -> Int]
      /\ \A n \in Names : n \notin gone /\ n \notin made => reg'[n] = reg[n]
      /\ \A n \in Names : n \in gone /\ n \notin made => reg'[n] = None
      /\ \A c \in Connectors : c \in made => reg'[c] = gen + 1
      /\ \A n \in Names : reg'[n] # None => n \in Present(new)
  <2>1. /\ reg' = [n \in Names |-> IF n \in Built(new, made) THEN gen + 1
                                   ELSE IF n \in gone THEN None ELSE reg[n]]
        /\ Built(new, made) \subseteq made
    BY <1>3 DEF NewReg, gone, made, Built
  <2>2. \A c \in Connectors : c \in made => c \in Built(new, made)
    BY NamesAssumption DEF Built
  <2>3. reg \in [Names -> Int]
    BY <1>1 DEF RegisteredInv
  <2>4. Connectors \subseteq Names
    BY DEF Names
  <2> HIDE DEF gone, made
  <2>5. reg' \in [Names -> Int]
    BY <2>1, <2>3, <1>3
  <2> QED
    BY <2>1, <2>2, <2>4, <2>5, <1>2, <1>3
<1>5. /\ ~WouldDangle(new)
      /\ \A p \in changedIOHs(new) \cap Ports : reg'[p] # None \/ NeedsNewAddr(new, p) = {}
      /\ links' = [c \in Connectors |-> IF c \in made THEN NewLinks(new, c)
                                        ELSE IF reg'[c] = None THEN {}
                                        ELSE ReplaceAddress(new, c)]
      /\ subs' = NewSubs(new)
  BY DEF Apply, made
<1>6. ASSUME NEW c \in Connectors, c \notin gone, NEW p \in Ports, subs[p][c] # None,
             reg[p] # None
      PROVE  reg'[p] # None /\ (p \in changedIOHs(new) => c \in NeedsNewAddr(new, p))
  <2>1. p \notin deletedIOHs(new)
    BY <1>5, <1>6 DEF WouldDangle, gone
  <2>2. c \in NeedsNewAddr(new, p)
    BY <1>6 DEF NeedsNewAddr, gone
  <2>3. p \in Names
    BY DEF Names
  <2>4. CASE p \in changedIOHs(new)
    BY <2>2, <2>4, <1>5
  <2>5. CASE p \notin changedIOHs(new)
    BY <2>1, <2>3, <2>5, <1>2, <1>4, <1>6
  <2> QED
    BY <2>2, <2>4, <2>5
<1>7. ASSUME NEW c \in Connectors, c \notin made, reg'[c] # None
      PROVE  /\ c \notin gone /\ reg'[c] = reg[c]
             /\ links'[c] = ReplaceAddress(new, c)
  BY <1>4, <1>5, <1>7 DEF Names
<1>8. ASSUME NEW c \in Connectors, c \notin made, reg'[c] # None, NEW m \in links[c],
             NEW l, l = IF m[2] \in changedIOHs(new) /\ reg'[m[2]] # None
                            /\ c \in NeedsNewAddr(new, m[2])
                        THEN <<m[1], m[2], reg'[m[2]]>> ELSE m
      PROVE  /\ l \in Ports \X Ports \X Int /\ l[1] = m[1] /\ l[2] = m[2]
             /\ reg'[l[2]] # None /\ l[3] = reg'[l[2]]
  <2>1. /\ m \in Ports \X Ports \X Int /\ reg[m[2]] # None
        /\ \E k \in links[c] : k[1] = m[2]
    BY <1>1 DEF LinksInv
  <2>2. m[2] \in Ports /\ m[2] \in Names /\ reg'[m[2]] \in Int
    BY <2>1, <1>4 DEF Names
  <2>3. m[3] = reg[m[2]] /\ subs[m[2]][c] # None
    BY <1>1, <2>1, <2>2 DEF NoDangling, SubscribedAsConnected
  <2>4. reg'[m[2]] # None /\ (m[2] \in changedIOHs(new) => c \in NeedsNewAddr(new, m[2]))
    BY <1>6, <1>7, <1>8, <2>1, <2>2, <2>3
  <2>5. CASE m[2] \in changedIOHs(new)
    BY <1>8, <2>1, <2>2, <2>4, <2>5
  <2>6. CASE m[2] \notin changedIOHs(new)
    <3>1. m[2] \notin made /\ m[2] \notin gone
      BY <1>2, <1>4, <2>1, <2>2, <2>4, <2>6
    <3> QED
      BY <1>4, <1>8, <2>1, <2>2, <2>3, <2>4, <2>6, <3>1
  <2> QED
    BY <2>5, <2>6
<1>9. ASSUME NEW c \in Connectors, NEW l \in links'[c]
      PROVE  /\ l \in Ports \X Ports \X Int
             /\ reg'[c] # None /\ reg'[l[2]] # None /\ l[3] = reg'[l[2]]
             /\ \E k \in links'[c] : k[1] = l[2] /\ k[2] = l[1]
  <2>1. CASE c \in made
    <3>1. links'[c] = LinksOf(new.entry[c][1], reg') /\ reg'[c] # None
      BY <1>3, <1>4, <1>5, <2>1 DEF NewLinks
    <3> QED
      BY <3>1, <1>4, LinksOfFacts
  <2>2. CASE c \notin made
    <3>1. reg'[c] # None
      BY <1>5, <2>2
    <3>2. links'[c] = ReplaceAddress(new, c)
      BY <1>7, <2>2, <3>1
    <3>3. PICK m \in links[c] :
             l = IF m[2] \in changedIOHs(new) /\ reg'[m[2]] # None
                    /\ c \in NeedsNewAddr(new, m[2])
                 THEN <<m[1], m[2], reg'[m[2]]>> ELSE m
      BY <3>2 DEF ReplaceAddress
    <3>4. PICK n \in links[c] : n[1] = m[2] /\ n[2] = m[1]
      BY <1>1 DEF LinksInv
    <3> DEFINE k == IF n[2] \in changedIOHs(new) /\ reg'[n[2]] # None
                        /\ c \in NeedsNewAddr(new, n[2])
                    THEN <<n[1], n[2], reg'[n[2]]>> ELSE n
    <3>5. k \in links'[c]
      BY <3>2 DEF ReplaceAddress
    <3>6. k[1] = n[1] /\ k[2] = n[2]
      BY <1>8, <2>2, <3>1
    <3>7. /\ l \in Ports \X Ports \X Int /\ l[1] = m[1] /\ l[2] = m[2]
          /\ reg'[l[2]] # None /\ l[3] = reg'[l[2]]
      BY <1>8, <2>2, <3>1, <3>3
    <3> HIDE DEF k
    <3> QED
      BY <3>1, <3>4, <3>5, <3>6, <3>7
  <2> QED
    BY <2>1, <2>2
<1>10. ASSUME NEW c \in Connectors, c \notin made, reg'[c] # None, NEW p \in Ports
       PROVE  (\E l \in links'[c] : l[1] = p) <=> (\E l \in links[c] : l[1] = p)
  <2> DEFINE img(m) == IF m[2] \in changedIOHs(new) /\ reg'[m[2]] # None
                           /\ c \in NeedsNewAddr(new, m[2])
                       THEN <<m[1], m[2], reg'[m[2]]>> ELSE m
  <2>1. links'[c] = {img(m) : m \in links[c]}
    BY <1>7, <1>10 DEF ReplaceAddress
  <2>2. \A m \in links[c] : img(m)[1] = m[1]
    OBVIOUS
  <2> HIDE DEF img
  <2> QED
    BY <2>1, <2>2
<1>11. \A p \in Ports, c \in Connectors : subs[p][c] # None =>
          /\ reg[c] # None /\ reg[p] # None
          /\ \E l \in links[c] : l[2] = p
  <2> SUFFICES ASSUME NEW p \in Ports, NEW c \in Connectors, subs[p][c] # None
               PROVE  /\ reg[c] # None /\ reg[p] # None
                      /\ \E l \in links[c] : l[2] = p
    OBVIOUS
  <2>1. PICK k \in links[c] : k[1] = p
    BY <1>1 DEF SubscribedAsConnected
  <2>2. PICK l \in links[c] : l[1] = k[2] /\ l[2] = k[1]
    BY <1>1 DEF LinksInv
  <2> QED
    BY <1>1, <2>1, <2>2 DEF LinksInv
<1>12. ASSUME NEW p \in Ports, NEW c \in Connectors
       PROVE  OldSubs(new)[p][c] = IF c \in gone \/ c \in made THEN None ELSE subs[p][c]
  <2>1. OldSubs(new)[p][c] = IF reg[p] # None /\ reg'[p] # None
                             THEN IF c \in gone /\ \E l \in links[c] : l[2] = p
                                  THEN None ELSE subs[p][c]
                             ELSE None
    BY DEF OldSubs, Unsubscribed, NoSubs, gone
  <2>2. CASE subs[p][c] = None
    BY <2>1, <2>2
  <2>3. CASE subs[p][c] # None /\ (c \in gone \/ c \in made)
    <3>1. c \in gone
      BY <2>3, <1>2, <1>11
    <3> QED
      BY <2>1, <2>3, <3>1, <1>11
  <2>4. CASE subs[p][c] # None /\ c \notin gone /\ c \notin made
    BY <2>1, <2>4, <1>6, <1>11
  <2> QED
    BY <2>2, <2>3, <2>4
<1>13. \A p \in Ports, c \in Connectors :
          subs'[p][c] = IF c \in made
                        THEN IF \E l \in links'[c] : l[1] = p THEN gen + 1 ELSE None
                        ELSE IF c \in gone THEN None ELSE subs[p][c]
  <2> SUFFICES ASSUME NEW p \in Ports, NEW c \in Connectors
               PROVE  subs'[p][c] = IF c \in made
                        THEN IF \E l \in links'[c] : l[1] = p THEN gen + 1 ELSE None
                        ELSE IF c \in gone THEN None ELSE subs[p][c]
    OBVIOUS
  <2>1. subs'[p][c] = IF c \in made /\ \E l \in links'[c] : l[1] = p
                      THEN gen + 1 ELSE OldSubs(new)[p][c]
    BY <1>5 DEF NewSubs, made
  <2> QED
    BY <2>1, <1>12
<1>14. RegisteredInv'
  BY <1>3, <1>4 DEF RegisteredInv
<1>15. LinksInv'
  BY <1>9 DEF LinksInv
<1>16. SubsInv'
  <2>1. \A p \in Ports, c \in Connectors : subs'[p][c] \in Int
    BY <1>1, <1>3, <1>13 DEF SubsInv
  <2>2. subs' = [p \in Ports |-> [c \in Connectors |-> subs'[p][c]]]
    BY <1>5 DEF NewSubs
  <2> QED
    BY <2>1, <2>2 DEF SubsInv
<1>17. NoDangling'
  <2>1. ASSUME NEW p \in Ports, NEW c \in Connectors, subs'[p][c] # None
        PROVE  subs'[p][c] = reg'[c]
    <3>1. CASE c \in made
      BY <3>1, <2>1, <1>4, <1>13
    <3>2. CASE c \notin made
      <4>1. c \notin gone /\ subs'[p][c] = subs[p][c] /\ reg'[c] = reg[c]
        BY <3>2, <2>1, <1>4, <1>13 DEF Names
      <4> QED
        BY <4>1, <2>1, <1>1 DEF NoDangling
    <3> QED
      BY <3>1, <3>2
  <2> QED
    BY <2>1, <1>9 DEF NoDangling
<1>18. SubscribedAsConnected'
  <2>1. ASSUME NEW p \in Ports, NEW c \in Connectors
        PROVE  subs'[p][c] # None <=> \E l \in links'[c] : l[1] = p
    <3>1. CASE c \in made
      BY <3>1, <1>3, <1>13
    <3>2. CASE c \notin made /\ reg'[c] = None
      <4>1. links'[c] = {}
        BY <3>2, <1>5
      <4>2. subs'[p][c] = None
        BY <3>2, <1>4, <1>11, <1>13 DEF Names
      <4> QED
        BY <4>1, <4>2
    <3>3. CASE c \notin made /\ reg'[c] # None
      <4>1. subs'[p][c] = subs[p][c]
        BY <3>3, <1>7, <1>13
      <4> QED
        BY <4>1, <3>3, <1>1, <1>10 DEF SubscribedAsConnected
    <3> QED
      BY <3>1, <3>2, <3>3
  <2> QED
    BY <2>1 DEF SubscribedAsConnected
<1> QED
  BY <1>14, <1>15, <1>16, <1>17, <1>18 DEF IInv

\* Steps that leave the objects and their pointers alone.
LEMMA SameObjects ==
    ASSUME IInv, ~failed, gen' \in Nat, UNCHANGED <<reg, subs, links>>,
           \A n \in Names : reg[n] # None => n \in Present(conf')
    PROVE  IInv'
<1>1. RegisteredInv /\ LinksInv /\ SubsInv /\ NoDangling /\ SubscribedAsConnected
  BY DEF IInv
<1>2. reg' = reg /\ links' = links /\ subs' = subs
  OBVIOUS
<1>3. RegisteredInv'
  <2>1. \A n \in Names : reg'[n] # None => n \in Present(conf)'
    BY <1>2 DEF Present
  <2> QED
    BY <1>1, <1>2, <2>1 DEF RegisteredInv
<1>4. LinksInv' /\ SubsInv'
  BY <1>1, <1>2 DEF LinksInv, SubsInv
<1>5. NoDangling' /\ SubscribedAsConnected'
  BY <1>1, <1>2 DEF NoDangling, SubscribedAsConnected
<1> QED
  BY <1>3, <1>4, <1>5 DEF IInv

LEMMA NextIInv == IInv /\ [Next]_vars => IInv'
<1> SUFFICES ASSUME IInv, [Next]_vars PROVE IInv'
  OBVIOUS
<1>1. ASSUME ~failed
      PROVE  gen \in Nat /\ \A n \in Names : reg[n] # None => n \in Present(conf)
  BY <1>1 DEF IInv, RegisteredInv
<1>2. ASSUME NEW new \in Configs, Reload(new) PROVE IInv'
  <2>1. /\ ~failed /\ gen' = gen + 1
        /\ \/ RefuseEmpty(new) \/ NothingChanged(new)
           \/ RefuseDangling(new) \/ Apply(new)
    BY <1>2 DEF Reload
  <2> SUFFICES ASSUME ~failed' PROVE IInv'
    BY DEF IInv
  <2>3. gen' \in Nat
    BY <1>1, <2>1
  <2>4. CASE RefuseEmpty(new) \/ RefuseDangling(new)
    <3>1. UNCHANGED <<reg, subs, links>> /\ conf' = conf
      BY <2>4 DEF RefuseEmpty, RefuseDangling, objects
    <3> QED
      BY <3>1, <1>1, <2>1, <2>3, SameObjects
  <2>5. CASE NothingChanged(new)
    <3>1. UNCHANGED <<reg, subs, links>> /\ conf' = new /\ Unchanged(new)
      BY <2>5 DEF NothingChanged, objects
    <3>2. \A n \in Names : reg[n] # None => n \in Present(new)
      BY <3>1, <1>1, <2>1 DEF Unchanged, delete_or_changeIOHs, deletedIOHs, Registered
    <3> QED
      BY <3>1, <3>2, <2>1, <2>3, SameObjects
  <2>6. CASE Apply(new)
    BY <2>6, <2>1, ApplyIInv
  <2> QED
    BY <2>1, <2>4, <2>5, <2>6
<1>3. ASSUME NEW p \in Ports, NEW c \in Connectors, ChangeDemand(p, c) PROVE IInv'
  <2>1. ~failed /\ gen' = gen /\ conf' = conf /\ UNCHANGED <<reg, subs, links>>
    BY <1>3 DEF ChangeDemand
  <2> QED
    BY <1>1, <2>1, SameObjects
<1>4. ASSUME UNCHANGED vars PROVE IInv'
  <2>1. UNCHANGED <<conf, gen, failed, reg, subs, links>>
    BY <1>4 DEF vars, objects
  <2>2. CASE failed
    BY <2>1, <2>2 DEF IInv
  <2>3. CASE ~failed
    BY <1>1, <2>1, <2>3, SameObjects
  <2> QED
    BY <2>2, <2>3
<1> QED
  BY <1>2, <1>3, <1>4 DEF Next

(***************************************************************************)
(* No reload leaves a connector with the address of a destroyed port, or a *)
(* port with that of a destroyed connector (ReloadConfig, the erase and    *)
(* ReplaceAddress loops), unless it throws.                                *)
(***************************************************************************)
THEOREM ReloadNeverDangles == Spec => []NoDangling
<1>1. IInv => NoDangling
  BY DEF IInv, NoDangling
<1> QED
  BY InitIInv, NextIInv, <1>1, PTL DEF Spec

(***************************************************************************)
(* After any sequence of reloads the connectors subscribed to a port are   *)
(* exactly the ones that have a connection from it.                        *)
(***************************************************************************)
THEOREM SubscriptionsExact == Spec => []SubscribedAsConnected
<1>1. IInv => SubscribedAsConnected
  BY DEF IInv, SubscribedAsConnected
<1> QED
  BY InitIInv, NextIInv, <1>1, PTL DEF Spec
-----------------------------------------------------------------------------
(* What the objects run with *)

\* Two entries that FindChangedConfs takes for the same.
SameSeen(a, b) == a[1] = b[1] /\ a[2] = b[2]

RunInv == \A n \in Names : reg[n] # None => SameSeen(built[n], conf.entry[n])

\* A reload that is carried through: what stays is in both configurations,
\* and FindChangedConfs found no difference.
LEMMA ApplyRuns ==
    ASSUME IInv, ~failed, RunInv, NEW new \in Configs, Apply(new)
    PROVE  RunInv'
<1>1. /\ conf' = new /\ reg' = NewReg(new)
      /\ built' = [n \in Names |-> IF reg'[n] = None THEN Absent
                                   ELSE IF reg'[n] = gen + 1 THEN new.entry[n] ELSE built[n]]
  BY DEF Apply
<1>2. ASSUME NEW n \in Names, reg'[n] # None, reg'[n] # gen + 1
      PROVE  SameSeen(built[n], new.entry[n])
  <2>1. /\ n \notin delete_or_changeIOHs(new) /\ reg[n] # None
    BY <1>1, <1>2 DEF NewReg
  <2>2. n \in Present(conf) /\ SameSeen(built[n], conf.entry[n])
    BY <2>1 DEF IInv, RegisteredInv, RunInv
  <2>3. n \in Present(new) /\ ~Differs(conf.entry[n], new.entry[n])
    BY <2>1, <2>2 DEF delete_or_changeIOHs, deletedIOHs, changedIOHs, Different, Registered, Present
  <2> QED
    BY <2>2, <2>3 DEF SameSeen, Differs
<1>3. \A n \in Names : reg'[n] # None => SameSeen(built'[n], new.entry[n])
  BY <1>1, <1>2 DEF SameSeen
<1> QED
  BY <1>1, <1>3 DEF RunInv, SameSeen

\* Every step keeps what the objects run with equal to the configuration.
LEMMA NextRuns ==
    ASSUME IInv, RunInv, [Next]_vars PROVE RunInv'
<1>1. ASSUME NEW new \in Configs, Reload(new) PROVE RunInv'
  <2>1. ~failed /\ (RefuseEmpty(new) \/ NothingChanged(new) \/ RefuseDangling(new) \/ Apply(new))
    BY <1>1 DEF Reload
  <2>2. CASE RefuseEmpty(new) \/ RefuseDangling(new)
    BY <2>2 DEF RefuseEmpty, RefuseDangling, objects, RunInv, SameSeen
  <2>3. CASE NothingChanged(new)
    <3>1. UNCHANGED <<reg, built>> /\ conf' = new /\ Unchanged(new)
      BY <2>3 DEF NothingChanged, objects
    <3>2. ASSUME NEW n \in Names, reg[n] # None PROVE SameSeen(built[n], new.entry[n])
      <4>1. n \in Present(conf) /\ SameSeen(built[n], conf.entry[n])
        BY <2>1, <3>2 DEF IInv, RegisteredInv, RunInv
      <4>2. n \in Present(new) /\ ~Differs(conf.entry[n], new.entry[n])
        BY <3>1, <3>2, <4>1 DEF Unchanged, delete_or_changeIOHs, deletedIOHs, changedIOHs,
                                Different, Registered, Present
      <4> QED
        BY <4>1, <4>2 DEF SameSeen, Differs
    <3> QED
      BY <3>1, <3>2 DEF RunInv, SameSeen
  <2>4. CASE Apply(new)
    BY <2>1, <2>4, ApplyRuns
  <2> QED
    BY <2>1, <2>2, <2>3, <2>4
<1>2. ASSUME NEW p \in Ports, NEW c \in Connectors, ChangeDemand(p, c) PROVE RunInv'
  BY <1>2 DEF ChangeDemand, RunInv, SameSeen
<1>3. ASSUME UNCHANGED vars PROVE RunInv'
  BY <1>3 DEF vars, objects, RunInv, SameSeen
<1> QED
  BY <1>1, <1>2, <1>3 DEF Next

(***************************************************************************)
(* FindChangedConfs and ReloadConfig: after any sequence of reloads every  *)
(* object runs with the file the configuration has for it and the files    *)
(* that one inherits, also when a reload was refused or an object could    *)
(* not be built; whatever the files inherited further on do.               *)
(***************************************************************************)
THEOREM ReloadRunsTheConfig == Spec => []RunsTheConfig
<1>1. Init => RunInv
  BY DEF Init, RunInv, SameSeen
<1>2. IInv /\ RunInv /\ [Next]_vars => RunInv'
  BY NextRuns
<1>3. RunInv => RunsTheConfig
  BY DEF RunInv, RunsTheConfig, SameSeen
<1> QED
  BY <1>1, <1>2, <1>3, InitIInv, NextIInv, PTL DEF Spec
===============================================================================
