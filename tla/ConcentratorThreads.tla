------------------------- MODULE ConcentratorThreads -------------------------
(***************************************************************************)
(* The threads of a DataConcentrator (Code/opendatacon/                    *)
(* DataConcentrator.cpp): Run() starts the elements, ReloadConfig() parks  *)
(* every thread of the pool before it changes the unprotected collections  *)
(* and Shutdown() disables the elements and lets the pool run out of work. *)
(*                                                                         *)
(* An element is a port, a connector or an interface that starts enabled,  *)
(* at once or after a delay.  What ReloadConfig() does to the collections  *)
(* is one state here ("modify"); it is module ReloadConfig's subject.      *)
(***************************************************************************)
EXTENDS Naturals, Sequences, FiniteSets

CONSTANTS Workers,     \* the pool's threads and the one that calls Run()
          Main,        \* the thread that calls Run()
          Elements,
          Delayed,     \* elements with InitState DELAYED
          MaxParkings, \* bound on the reloads
          MaxWork,     \* bound on the other handlers posted to the pool
          MayShutdown  \* is Shutdown() called

ASSUME ThreadsAssumption ==
    /\ IsFiniteSet(Workers) /\ Main \in Workers
    /\ Delayed \subseteq Elements
    /\ {MaxParkings, MaxWork} \subseteq Nat
    /\ MayShutdown \in BOOLEAN

VARIABLES
    tasks,      \* handlers posted to the io_service, in order
    timers,     \* delayed elements whose timer is running
    pc,         \* what each thread is doing
    depth,      \* ParkThread() calls beneath the handler a thread is running
    toStart,    \* elements Run() has not started yet
    starting_element_count, enabled,
    parking, num_parked_threads, shutting_down,
    rl,         \* where ReloadConfig() is
    changed,    \* the elements it deletes and creates again
    reenable,   \* the ones it only disables and enables again
    toEnable,   \* changed elements it has still to enable
    sd,         \* where Shutdown() is
    reloads, work

pool     == <<tasks, timers, pc, depth>>
starting == <<toStart, starting_element_count, enabled>>
park     == <<parking, num_parked_threads>>
reload   == <<rl, changed, reenable, toEnable, reloads>>
threadVars == <<pool, starting, park, reload, shutting_down, sd, work>>

ThreadsInit ==
    /\ tasks = <<>> /\ timers = {}
    /\ pc = [w \in Workers |-> IF w = Main THEN "starting" ELSE "idle"]
    /\ depth = [w \in Workers |-> 0]
    /\ toStart = Elements
    /\ starting_element_count = 0 /\ enabled = {}
    /\ parking = FALSE /\ num_parked_threads = 0 /\ shutting_down = FALSE
    /\ rl = "none" /\ changed = {} /\ reenable = {} /\ toEnable = {}
    /\ sd = "none"
    /\ reloads = 0 /\ work = 0

Threads == Cardinality(Workers)

Goto(w, l) == pc' = [pc EXCEPT ![w] = l]

\* Handlers are <<kind, element>>.
PostTask(t) == tasks' = Append(tasks, t)
NoElement == {}
MarkerTask == <<"marker", NoElement>>
WorkTask   == <<"work", NoElement>>
ParkTask   == <<"park", NoElement>>

-----------------------------------------------------------------------------
(***************************************************************************)
(* Start-up.                                                               *)
(***************************************************************************)

\* EnableIOHandler, EnableIUI.
EnableIOHandler(e) ==
    /\ starting_element_count' = starting_element_count + 1
    /\ IF e \in Delayed
       THEN timers' = timers \cup {e} /\ UNCHANGED tasks
       ELSE PostTask(<<"enable", e>>) /\ UNCHANGED timers

TimerFires(e) ==
    /\ e \in timers
    /\ timers' = timers \ {e}
    /\ PostTask(<<"enable", e>>)
    /\ UNCHANGED <<pc, depth, starting, park, reload, shutting_down, sd, work>>

\* Run() starts the elements one by one and then joins the pool.
RunStarts(e) ==
    /\ pc[Main] = "starting"
    /\ e \in toStart
    /\ toStart' = toStart \ {e}
    /\ EnableIOHandler(e)
    /\ UNCHANGED <<pc, depth, enabled, park, reload, shutting_down, sd, work>>

RunJoins ==
    /\ pc[Main] = "starting"
    /\ toStart = {}
    /\ Goto(Main, "idle")
    /\ UNCHANGED <<tasks, timers, depth, starting, park, reload, shutting_down, sd, work>>

-----------------------------------------------------------------------------
(***************************************************************************)
(* Handlers.                                                               *)
(***************************************************************************)

\* A handler that anything else in the process posts.
PostWork ==
    /\ work < MaxWork
    /\ work' = work + 1
    /\ PostTask(WorkTask)
    /\ UNCHANGED <<timers, pc, depth, starting, park, reload, shutting_down, sd>>

\* The starting_element_count-- that follows Enable().
CountForgotten(n) == n
CountDown(n) == n - 1

\* The handlers that do not take a thread away: Enable() of an element, and the
\* task that ReloadConfig() waits for.
RunShort(t) ==
    /\ t[1] \in {"enable", "marker"}
    /\ IF t[1] = "enable"
       THEN /\ enabled' = enabled \cup {t[2]}
            /\ starting_element_count' = CountDown(starting_element_count)
            /\ UNCHANGED rl
       ELSE /\ rl' = "ready"
            /\ UNCHANGED <<enabled, starting_element_count>>

\* A thread that runs the next handler: in run(), or in the run_one_for() loop
\* in which ParkThread() waits for start-up to finish.
MayRun(w) ==
    \/ pc[w] = "idle"
    \/ pc[w] = "wait" /\ starting_element_count > 0

Nested(w) == [depth EXCEPT ![w] = @ + (IF pc[w] = "wait" THEN 1 ELSE 0)]

Take(w) ==
    /\ MayRun(w)
    /\ tasks # <<>>
    /\ tasks' = Tail(tasks)
    /\ \/ RunShort(Head(tasks)) /\ UNCHANGED <<pc, depth>>
       \/ /\ Head(tasks)[1] = "work"
          /\ Goto(w, "work") /\ depth' = Nested(w)
          /\ UNCHANGED <<enabled, starting_element_count, rl>>
       \/ /\ Head(tasks)[1] = "park"
          /\ IF shutting_down \/ ~parking
             THEN UNCHANGED <<pc, depth>>
             ELSE Goto(w, "wait") /\ depth' = Nested(w)
          /\ UNCHANGED <<enabled, starting_element_count, rl>>
    /\ UNCHANGED <<timers, toStart, park, changed, reenable, toEnable, reloads,
                   shutting_down, sd, work>>

\* A handler returns, to run() or to the ParkThread() that ran it.
Return(w) ==
    /\ Goto(w, IF depth[w] > 0 THEN "wait" ELSE "idle")
    /\ depth' = [depth EXCEPT ![w] = IF @ > 0 THEN @ - 1 ELSE 0]

WorkDone(w) ==
    /\ pc[w] = "work"
    /\ Return(w)
    /\ UNCHANGED <<tasks, timers, starting, park, reload, shutting_down, sd, work>>

-----------------------------------------------------------------------------
(***************************************************************************)
(* Parking.                                                                *)
(***************************************************************************)

\* ParkThread(), once start-up has finished: make another thread park, and be
\* counted.
NoChain == UNCHANGED tasks
Chain == PostTask(ParkTask)

ParkThread(w) ==
    /\ pc[w] = "wait" /\ starting_element_count = 0
    /\ Chain
    /\ num_parked_threads' = num_parked_threads + 1
    /\ Goto(w, "parked")
    /\ UNCHANGED <<timers, depth, starting, parking, reload, shutting_down, sd, work>>

\* The parked thread wakes up to find that it may go ...
Released(w) ==
    /\ pc[w] = "parked"
    /\ shutting_down \/ ~parking
    /\ Goto(w, "leaving")
    /\ UNCHANGED <<tasks, timers, depth, starting, park, reload, shutting_down, sd, work>>

\* ... and leaves.
Leave(w) ==
    /\ pc[w] = "leaving"
    /\ num_parked_threads' = num_parked_threads - 1
    /\ Return(w)
    /\ UNCHANGED <<tasks, timers, starting, parking, reload, shutting_down, sd, work>>

-----------------------------------------------------------------------------
(***************************************************************************)
(* ReloadConfig(), on a thread of its own; only one call gets the mutex.   *)
(***************************************************************************)

\* Disable what will change, and post a task to wait for.
ReloadConfig(ch, re) ==
    /\ rl = "none" /\ reloads < MaxParkings
    /\ ch # {} /\ ch \cap re = {} /\ re \subseteq enabled
    /\ enabled' = enabled \ (ch \cup re)
    /\ changed' = ch /\ reenable' = re
    /\ PostTask(MarkerTask)
    /\ rl' = "marker" /\ reloads' = reloads + 1
    /\ UNCHANGED <<timers, pc, depth, toStart, starting_element_count, park, toEnable,
                   shutting_down, sd, work>>

\* ParkThreads(): start the chain of parking tasks ...
ParkThreads ==
    /\ rl = "ready"
    /\ parking' = TRUE
    /\ PostTask(ParkTask)
    /\ rl' = "parking"
    /\ UNCHANGED <<timers, pc, depth, starting, num_parked_threads, changed, reenable,
                   toEnable, reloads, shutting_down, sd, work>>

\* ... and wait for all the threads, unless the process is shutting down.
PoolThreadsParked == num_parked_threads >= Threads - 1
AllParked == num_parked_threads >= Threads

GiveUpNever == FALSE
GiveUp == shutting_down

ParkThreadsReturns ==
    /\ rl = "parking"
    /\ AllParked \/ GiveUp
    /\ IF GiveUp
       THEN rl' = "none" /\ parking' = FALSE
       ELSE rl' = "modify" /\ UNCHANGED parking
    /\ UNCHANGED <<pool, starting, num_parked_threads, changed, reenable, toEnable,
                   reloads, shutting_down, sd, work>>

\* The collections have been changed: the new objects are not enabled yet.
Unpark ==
    /\ rl = "modify"
    /\ parking' = FALSE
    /\ enabled' = enabled \ changed
    /\ toEnable' = changed
    /\ rl' = "enable"
    /\ UNCHANGED <<pool, toStart, starting_element_count, num_parked_threads, changed,
                   reenable, reloads, shutting_down, sd, work>>

ReloadEnables(e) ==
    /\ rl = "enable"
    /\ e \in toEnable
    /\ toEnable' = toEnable \ {e}
    /\ EnableIOHandler(e)
    /\ UNCHANGED <<pc, depth, toStart, enabled, park, rl, changed, reenable, reloads,
                   shutting_down, sd, work>>

\* The elements that were only disabled are enabled directly.
Reenabled == reenable

ReloadReturns ==
    /\ rl = "enable"
    /\ toEnable = {}
    /\ enabled' = enabled \cup Reenabled
    /\ rl' = "none" /\ changed' = {} /\ reenable' = {}
    /\ UNCHANGED <<pool, toStart, starting_element_count, park, toEnable, reloads,
                   shutting_down, sd, work>>

-----------------------------------------------------------------------------
(***************************************************************************)
(* Shutdown(), once, on a thread that is not of the pool.                  *)
(***************************************************************************)

Shutdown ==
    /\ MayShutdown /\ sd = "none"
    /\ shutting_down' = TRUE
    /\ sd' = "wait"
    /\ UNCHANGED <<pool, starting, park, reload, work>>

\* Threads outside the pool that run a handler while they wait: Shutdown() for
\* start-up to finish, ReloadConfig() for the old objects to be destroyed.
HelperMayRun ==
    \/ sd = "wait" /\ starting_element_count > 0
    \/ rl = "enable" /\ toEnable = changed

HelperRuns ==
    /\ HelperMayRun
    /\ tasks # <<>>
    /\ tasks' = Tail(tasks)
    /\ IF Head(tasks)[1] \in {"enable", "marker"}
       THEN RunShort(Head(tasks))
       ELSE UNCHANGED <<enabled, starting_element_count, rl>>
    /\ UNCHANGED <<timers, pc, depth, toStart, park, changed, reenable, toEnable,
                   reloads, shutting_down, sd, work>>

ShutdownStartsDisabling ==
    /\ sd = "wait" /\ starting_element_count = 0
    /\ sd' = "disabling"
    /\ UNCHANGED <<pool, starting, park, reload, shutting_down, work>>

\* All elements are disabled and ios_working is reset.  By then the loggers
\* have let go of the log sinks, which the thread waits for, and nothing threw.
ShutdownDone ==
    /\ sd = "disabling"
    /\ sd' = "done"
    /\ enabled' = {}
    /\ UNCHANGED <<pool, toStart, starting_element_count, park, reload, shutting_down, work>>

\* run() returns when there is nothing left that could post a handler.
RunEnds(w) ==
    /\ sd = "done"
    /\ tasks = <<>> /\ timers = {} /\ enabled = {}
    /\ \A u \in Workers : pc[u] \in {"idle", "ended"}
    /\ pc[w] = "idle"
    /\ Goto(w, "ended")
    /\ UNCHANGED <<tasks, timers, depth, starting, park, reload, shutting_down, sd, work>>

-----------------------------------------------------------------------------
Worker(w) == Take(w) \/ WorkDone(w) \/ ParkThread(w) \/ Released(w) \/ Leave(w) \/ RunEnds(w)

Run == RunJoins \/ \E e \in Elements : RunStarts(e)

Reloader == \/ ParkThreads \/ ParkThreadsReturns \/ Unpark \/ ReloadReturns
            \/ \E e \in Elements : ReloadEnables(e)

ShutdownSteps == ShutdownStartsDisabling \/ ShutdownDone

ThreadsNext ==
    \/ \E w \in Workers : Worker(w)
    \/ Run
    \/ \E e \in Elements : TimerFires(e)
    \/ PostWork
    \/ \E ch, re \in SUBSET Elements : ReloadConfig(ch, re)
    \/ Reloader
    \/ Shutdown \/ ShutdownSteps \/ HelperRuns

(***************************************************************************)
(* Threads run and timers fire.  Nobody has to post work, to ask for a     *)
(* reload or to shut down.                                                 *)
(***************************************************************************)
ThreadsFairness ==
    /\ \A w \in Workers : WF_threadVars(Worker(w))
    /\ WF_threadVars(Run) /\ WF_threadVars(Reloader)
    /\ WF_threadVars(ShutdownSteps) /\ WF_threadVars(HelperRuns)
    /\ \A e \in Elements : WF_threadVars(TimerFires(e))

ThreadsSpec == ThreadsInit /\ [][ThreadsNext]_threadVars /\ ThreadsFairness

-----------------------------------------------------------------------------
\* The type invariant; the two counters count what they are meant to.
ThreadsTypeOK ==
    /\ starting_element_count =
         Cardinality(timers) + Cardinality({i \in 1..Len(tasks) : tasks[i][1] = "enable"})
    /\ num_parked_threads = Cardinality({w \in Workers : pc[w] \in {"parked", "leaving"}})
    /\ pc \in [Workers -> {"starting", "idle", "work", "wait", "parked", "leaving", "ended"}]
    /\ depth \in [Workers -> Nat]
    /\ rl \in {"none", "marker", "ready", "parking", "modify", "enable"}
    /\ sd \in {"none", "wait", "disabling", "done"}
    /\ {toStart, enabled, changed, reenable, toEnable, timers} \subseteq SUBSET Elements

(***************************************************************************)
(* "Now we can modify the unprotected collections.  We've induced a state  *)
(* similar to start-up (when there are no other threads running)": while   *)
(* ReloadConfig() changes the collections no thread of the pool is running *)
(* a handler.  (Shutdown() lets the parked threads go and goes through the *)
(* collections itself, whatever the reload is doing: see the README.)      *)
(***************************************************************************)
Exclusive ==
    rl = "modify" /\ ~shutting_down => \A w \in Workers : pc[w] \notin {"starting", "work"}

(***************************************************************************)
(* ParkThreads() returns, and so does ReloadConfig(): nobody waits on      *)
(* everybody.  In the end every element that Run() started is enabled,     *)
(* whatever the reload disabled.  (Shutdown() can end the pool under a     *)
(* reload.)                                                                *)
(***************************************************************************)
ReloadCompletes == /\ rl # "none" ~> rl = "none" \/ shutting_down
                   /\ <>[](toStart = {} => enabled = Elements \/ shutting_down)

\* A reload that waits for the threads to park gets on when Shutdown() is called.
ParkingEnds == rl = "parking" ~> rl # "parking"

\* Shutdown() does not wait for ever, whatever a reload is doing.
ShutdownActs == sd = "wait" ~> sd = "done"

-----------------------------------------------------------------------------
(* What the comments promise and the code does not keep; see the README.   *)

(***************************************************************************)
(* "wait for startup to finish before shutdown": no element is enabled     *)
(* once Shutdown() has disabled them all.                                  *)
(***************************************************************************)
NoEnableAfterShutdown == sd = "done" => enabled = {}

(***************************************************************************)
(* "disable IOHandlers marked for delete/change": when the collections are *)
(* changed, the objects that are deleted are disabled.                     *)
(***************************************************************************)
DeletedAreDisabled == rl = "modify" => enabled \cap changed = {}
=============================================================================
