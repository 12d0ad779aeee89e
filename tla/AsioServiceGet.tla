--------------------------- MODULE AsioServiceGet ----------------------------
(***************************************************************************)
(* asio_service::Get (Code/Libs/ODC/asio.cpp): the shared io_service is    *)
(* created by the thread that sets init_flag; the others spin until        *)
(* weak_service can be locked.  When the last shared_ptr is dropped its    *)
(* deleter clears init_flag and then deletes the service, so that a later  *)
(* Get() starts again.                                                     *)
(***************************************************************************)
EXTENDS Naturals

CONSTANTS Threads,
          MaxServices   \* bound on the number of services ever created

ASSUME MaxServicesAssumption == MaxServices \in Nat

None == 0   \* no service: services are numbered from 1

VARIABLES init_flag,
          weak_service,  \* the service the weak_ptr refers to, or None
          created,       \* number of services created so far
          deleted,       \* the services that have been deleted
          held,          \* held[t]: the service thread t has a shared_ptr to
          dying,         \* dying[t]: the service whose deleter t is running
          pc

vars == <<init_flag, weak_service, created, deleted, held, dying, pc>>

Init == /\ init_flag = FALSE
        /\ weak_service = None
        /\ created = 0
        /\ deleted = {}
        /\ held = [t \in Threads |-> None]
        /\ dying = [t \in Threads |-> None]
        /\ pc = [t \in Threads |-> "out"]

\* The use count of service s is positive.
Referenced(s) == \E t \in Threads : held[t] = s

LoadWithoutSet(t) ==
    /\ pc[t] = "out"
    /\ init_flag \/ created < MaxServices
    /\ pc' = [pc EXCEPT ![t] = IF init_flag THEN "spin" ELSE "construct"]
    /\ UNCHANGED <<init_flag, weak_service, created, deleted, held, dying>>

\* Get(): init_flag.test_and_set().
TestAndSet(t) ==
    /\ pc[t] = "out"
    /\ init_flag \/ created < MaxServices
    /\ init_flag' = TRUE
    /\ pc' = [pc EXCEPT ![t] = IF init_flag THEN "spin" ELSE "construct"]
    /\ UNCHANGED <<weak_service, created, deleted, held, dying>>

\* The flag was clear: construct the service and take the first reference.
Construct(t) ==
    /\ pc[t] = "construct"
    /\ created' = created + 1
    /\ held' = [held EXCEPT ![t] = created + 1]
    /\ pc' = [pc EXCEPT ![t] = "publish"]
    /\ UNCHANGED <<init_flag, weak_service, deleted, dying>>

\* weak_service = shared_service, and Get() returns.
PublishWeak(t) ==
    /\ pc[t] = "publish"
    /\ weak_service' = held[t]
    /\ pc' = [pc EXCEPT ![t] = "in"]
    /\ UNCHANGED <<init_flag, created, deleted, held, dying>>

\* weak_service.lock() succeeds while the use count is positive.
NotNull == weak_service # None
CanLock == weak_service # None /\ Referenced(weak_service)

Lock(t) ==
    /\ pc[t] = "spin"
    /\ CanLock
    /\ held' = [held EXCEPT ![t] = weak_service]
    /\ pc' = [pc EXCEPT ![t] = "in"]
    /\ UNCHANGED <<init_flag, weak_service, created, deleted, dying>>

\* The shared_ptr is dropped; the last one to go runs the deleter.
IsLast(t) == \A u \in Threads \ {t} : held[u] # held[t]

Release(t) ==
    /\ pc[t] = "in"
    /\ held' = [held EXCEPT ![t] = None]
    /\ IF IsLast(t)
       THEN /\ pc' = [pc EXCEPT ![t] = "clear"]
            /\ dying' = [dying EXCEPT ![t] = held[t]]
       ELSE pc' = [pc EXCEPT ![t] = "out"] /\ UNCHANGED dying
    /\ UNCHANGED <<init_flag, weak_service, created, deleted>>

\* deinit_del: clear the flag ...
ClearFlag(t) ==
    /\ pc[t] = "clear"
    /\ init_flag' = FALSE
    /\ pc' = [pc EXCEPT ![t] = "delete"]
    /\ UNCHANGED <<weak_service, created, deleted, held, dying>>

\* ... and delete the service.
Delete(t) ==
    /\ pc[t] = "delete"
    /\ deleted' = deleted \cup {dying[t]}
    /\ dying' = [dying EXCEPT ![t] = None]
    /\ pc' = [pc EXCEPT ![t] = "out"]
    /\ UNCHANGED <<init_flag, weak_service, created, held>>

\* What a thread does once it has called Get() or dropped its pointer.
Step(t) == Construct(t) \/ PublishWeak(t) \/ Lock(t) \/ ClearFlag(t) \/ Delete(t)

Next == \E t \in Threads : TestAndSet(t) \/ Release(t) \/ Step(t)

\* Threads run; nobody has to call Get() again, or to drop its pointer.
Spec == Init /\ [][Next]_vars /\ \A t \in Threads : WF_vars(Step(t))

-----------------------------------------------------------------------------
\* The type invariant.
TypeOK == /\ init_flag \in BOOLEAN
          /\ created \in 0 .. MaxServices
          /\ weak_service \in 0 .. created
          /\ deleted \in SUBSET (1 .. created)
          /\ held \in [Threads -> 0 .. created]
          /\ dying \in [Threads -> 0 .. created]
          /\ pc \in [Threads -> {"out", "construct", "publish", "in", "spin",
                                 "clear", "delete"}]

(***************************************************************************)
(* "A single shared resource": the threads that hold a pointer all hold    *)
(* the same service, however creation and deletion overlap.                *)
(***************************************************************************)
OneService == \A t, u \in Threads :
                held[t] # None /\ held[u] # None => held[t] = held[u]

\* Nobody holds a deleted service.
NoDanglingService == \A t \in Threads : held[t] \notin deleted

(***************************************************************************)
(* Get() returns: a thread that found init_flag set waits only until       *)
(* initialisation has finished.                                            *)
(***************************************************************************)
GetReturns == \A t \in Threads : pc[t] = "spin" ~> pc[t] = "in"
=============================================================================
