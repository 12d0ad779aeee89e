------------------------------ MODULE EventFIFO ------------------------------
(***************************************************************************)
(* What a port's event queue promises its consumer: the items come out in  *)
(* the order they went in, the last one stays until another arrives, and   *)
(* the size is the number of items inside.  Disabling empties it.          *)
(***************************************************************************)
EXTENDS Naturals, Sequences

CONSTANT Item

VARIABLES items, size, last     \* last: the item taken most recently

vars == <<items, size, last>>

Init == items = <<>> /\ size = 0 /\ last = 0

Push(x) == /\ \A i \in DOMAIN items : items[i] # x
           /\ items' = Append(items, x)
           /\ size' = size + 1
           /\ UNCHANGED last

Take == /\ Len(items) >= 2
        /\ items' = Tail(items)
        /\ size' = size - 1
        /\ last' = Head(items)

Clear == items' = <<>> /\ size' = 0 /\ UNCHANGED last

Next == Take \/ Clear \/ \E x \in Item : Push(x)

Spec == Init /\ [][Next]_vars
=============================================================================
