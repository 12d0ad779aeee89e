-------------------------- MODULE SpecialEventQueue --------------------------
(***************************************************************************)
(* SpecialEventQueue (Code/Ports/PyPort): the queue of events a Python     *)
(* port's script fetches.  Producers check the size and post to a strand,  *)
(* which links the node in at the head; one consumer moves the tail, under *)
(* no lock; Enable(false) posts a handler that runs the tail to the end.   *)
(* A node is the number of the async_push() that made it.                  *)
(***************************************************************************)
EXTENDS Naturals, Sequences

CONSTANTS maxsize,
          MaxPushes, MaxToggles,   \* bounds on async_push() and Enable()
          MayReenable              \* is the queue enabled after a disable

ASSUME QueueAssumption == maxsize \in Nat /\ MaxPushes \in Nat /\ MaxToggles \in Nat

nullptr == 0
Node == 1 .. MaxPushes
emptyIt == 0    \* the handler that Enable(false) posts

VARIABLES
    pushes, toggles,      \* calls so far
    enabled_flag, size,
    next, head, tail,     \* the list, linked from tail to head
    queueStrand,          \* handlers: a node to link in, or emptyIt
    popping,              \* pop() is past its checks
    lastPopped            \* the node whose data pop() returned last

list == <<next, head, tail>>
queueVars == <<pushes, toggles, enabled_flag, size, list, queueStrand, popping, lastPopped>>

QueueInit ==
    /\ pushes = 0 /\ toggles = 0
    /\ enabled_flag = TRUE /\ size = 0
    /\ next = [n \in Node |-> nullptr] /\ head = nullptr /\ tail = nullptr
    /\ queueStrand = <<>>
    /\ popping = FALSE /\ lastPopped = nullptr

\* async_push(): refused when full or disabled, else posted.
async_push ==
    /\ pushes < MaxPushes
    /\ size < maxsize /\ enabled_flag
    /\ pushes' = pushes + 1
    /\ queueStrand' = Append(queueStrand, pushes + 1)
    /\ UNCHANGED <<toggles, enabled_flag, size, list, popping, lastPopped>>

StrandRuns == /\ queueStrand # <<>>
              /\ queueStrand' = Tail(queueStrand)
              /\ UNCHANGED <<pushes, toggles, enabled_flag, popping, lastPopped>>

LinkInForgettingTail(n) ==
    /\ head' = n
    /\ tail' = IF head = nullptr THEN n ELSE tail
    /\ UNCHANGED next

LinkIn(n) ==
    /\ head' = n
    /\ IF head = nullptr
       THEN tail' = n /\ UNCHANGED next
       ELSE next' = [next EXCEPT ![head] = n] /\ UNCHANGED tail

RunPush ==
    /\ StrandRuns
    /\ Head(queueStrand) # emptyIt
    /\ IF enabled_flag
       THEN LinkIn(Head(queueStrand)) /\ size' = size + 1
       ELSE UNCHANGED <<list, size>>

\* The nodes from n up to the head, in order.
Chain(n) == LET Up[k \in 0 .. MaxPushes] ==
                    IF k = nullptr THEN <<>> ELSE <<k>> \o Up[next[k]]
            IN  Up[n]

\* Enable(en); like pop(), it is called on the one strand Python runs on, so
\* the two never overlap.  The handler it posts may: it is on another strand.
Enable(en) ==
    /\ toggles < MaxToggles
    /\ enabled_flag # en
    /\ en => MayReenable
    /\ ~popping
    /\ toggles' = toggles + 1
    /\ enabled_flag' = en
    /\ queueStrand' = IF en THEN queueStrand ELSE Append(queueStrand, emptyIt)
    /\ UNCHANGED <<pushes, size, list, popping, lastPopped>>

\* The handler of Enable(false) leaves the head where it is.
RunEmpty ==
    /\ StrandRuns
    /\ Head(queueStrand) = emptyIt
    /\ tail' = nullptr
    /\ size' = size - Len(Chain(tail))
    /\ UNCHANGED <<next, head>>

\* pop(): the checks, and then the move of the tail.  A tail that was run to
\* the end in between is dereferenced, and the consumer ends there.
MayPop == enabled_flag /\ tail # nullptr /\ tail # head

PopChecks == /\ ~popping /\ MayPop
             /\ popping' = TRUE
             /\ UNCHANGED <<pushes, toggles, enabled_flag, size, list, queueStrand, lastPopped>>

PopTakes == /\ popping /\ tail # nullptr
            /\ popping' = FALSE
            /\ lastPopped' = tail
            /\ tail' = next[tail]
            /\ size' = size - 1
            /\ UNCHANGED <<pushes, toggles, enabled_flag, next, head, queueStrand>>

QueueNext == \/ async_push \/ RunPush \/ RunEmpty \/ PopChecks \/ PopTakes
             \/ \E en \in BOOLEAN : Enable(en)

QueueSpec == QueueInit /\ [][QueueNext]_queueVars

-----------------------------------------------------------------------------
QueueTypeOK ==
    /\ enabled_flag \in BOOLEAN /\ popping \in BOOLEAN
    /\ size \in Nat
    /\ next \in [Node -> 0 .. MaxPushes]
    /\ {head, tail, lastPopped} \subseteq 0 .. MaxPushes

Fifo == INSTANCE EventFIFO
            WITH Item <- Node, items <- Chain(tail), size <- size, last <- lastPopped

(***************************************************************************)
(* Until the queue is enabled for a second time it is a FIFO: the size     *)
(* counts the nodes between tail and head, and pop() takes them in order.  *)
(***************************************************************************)
ImplementsFIFO == Fifo!Spec

(***************************************************************************)
(* "the worst case is that it there might be an item in "limbo" but only   *)
(* until the next new item is pushed": two items are never both stuck in a *)
(* queue that is enabled and at rest.                                      *)
(***************************************************************************)
OneInLimbo == enabled_flag /\ queueStrand = <<>> /\ ~popping /\ size >= 2 => MayPop
=============================================================================
