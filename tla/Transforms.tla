----------------------------- MODULE Transforms ------------------------------
(***************************************************************************)
(* The in-built transforms (Code/opendatacon/*Transform.h) as relations:   *)
(* what a transform may pass to the next handler when it is given an       *)
(* event.  NULL stands for the null pointer with which a transform drops   *)
(* an event.  Threshold and RateLimit depend on earlier events (and, for   *)
(* RateLimit, on the clock): here either may pass or drop; their state is  *)
(* modelled in RateLimitTransform for the latter.                          *)
(***************************************************************************)
EXTENDS Integers

CONSTANTS UINT16_MAX,   \* the largest index
          RandValues,   \* the values a Rand transform may produce
          NULL

ASSUME TransformsAssumption == UINT16_MAX \in Nat

\* The types of the in-built transforms.
Kinds == {"IndexOffset", "IndexMap", "LogicInv", "AnalogScaling", "Rand", "BlackHole",
          "Threshold", "RateLimit"}

\* Only these four types are looked up in a map of their own.
MappedTypes == {"Analog", "Binary", "ControlRelayOutputBlock", "OctetString"}

\* The offset index is compared in int, before it is narrowed to uint16_t.
IndexOffset(t, e) ==
    IF e.index + t.offset < UINT16_MAX /\ e.index + t.offset > 0
    THEN {[e EXCEPT !.index = @ + t.offset]}
    ELSE {NULL}

\* t.map: type -> index -> index, defined where From[] and To[] pair up.
IndexMap(t, e) ==
    IF e.type \notin MappedTypes
    THEN {e}
    ELSE IF e.type \in DOMAIN t.map /\ e.index \in DOMAIN t.map[e.type]
         THEN {[e EXCEPT !.index = t.map[e.type][e.index]]}
         ELSE {NULL}

LogicInv(t, e) ==
    {IF e.type \in {"Binary", "BinaryOutputStatus"}
     THEN [e EXCEPT !.payload = 1 - @]
     ELSE e}

\* Scaled first, offset second, each only for the indexes configured.
Scaled(t, e) ==
    IF e.index \in DOMAIN t.scale
    THEN [e EXCEPT !.payload = @ * t.scale[e.index]] ELSE e
Offset(t, e) ==
    IF e.index \in DOMAIN t.offsets
    THEN [e EXCEPT !.payload = @ + t.offsets[e.index]] ELSE e
AnalogScaling(t, e) == {IF e.type = "Analog" THEN Offset(t, Scaled(t, e)) ELSE e}

Rand(t, e) ==
    IF e.type = "Analog" THEN {[e EXCEPT !.payload = v] : v \in RandValues} ELSE {e}

BlackHole(t, e) == {NULL}

Gate(t, e) == {e, NULL}

\* Transform::Event: what may reach the handler pAllow.
Outcomes(t, e) == CASE t.kind = "IndexOffset"   -> IndexOffset(t, e)
                    [] t.kind = "IndexMap"      -> IndexMap(t, e)
                    [] t.kind = "LogicInv"      -> LogicInv(t, e)
                    [] t.kind = "AnalogScaling" -> AnalogScaling(t, e)
                    [] t.kind = "Rand"          -> Rand(t, e)
                    [] t.kind = "BlackHole"     -> BlackHole(t, e)
                    [] t.kind \in {"Threshold", "RateLimit"} -> Gate(t, e)

\* Every transform but BlackHole reads the event it is given.
Dereferences(t) == t.kind # "BlackHole"
=============================================================================
