------------------------------ MODULE IINFlags -------------------------------
(***************************************************************************)
(* The application IIN flags of a DNP3 outstation: an atomic set of bits   *)
(* that SetIINFlags and ClearIINFlags change from the user interface's     *)
(* thread and from the DNP3 stack's threads (DNP3OutstationPort.cpp).      *)
(* Both loop over an unconditional exchange until the value they get back  *)
(* is the one they computed the new value from.                            *)
(***************************************************************************)
EXTENDS FiniteSets

CONSTANTS Threads, Flags,
          Arguments     \* the sets of flags a call may name

VARIABLES IINFlags,   \* the atomic value, a set of flags
          call,       \* call[t]: what thread t has been asked to do
          OldIINs,    \* OldIINs[t]: the value t computes the new one from
          wanted      \* the flags set by the completed calls, taken in turn

vars == <<IINFlags, call, OldIINs, wanted>>

NoCall == [op |-> "none", flags |-> {}]

Init == /\ IINFlags = {}
        /\ call = [t \in Threads |-> NoCall]
        /\ OldIINs = [t \in Threads |-> {}]
        /\ wanted = {}

SymDiff(S, T) == (S \ T) \cup (T \ S)

\* What a call computes from the old flags: "|" to set, "^" to clear.
NewFlags(op, old, flags) == IF op = "set" THEN old \cup flags ELSE SymDiff(old, flags)

\* Only set or clear "if we have to".
HaveTo(op, old, flags) ==
    IF op = "set" THEN ~(flags \subseteq old) ELSE flags \cap old # {}

Expected(op, flags) == IF op = "set" THEN wanted \cup flags ELSE wanted \ flags

\* A call reads the flags, and returns at once if there is nothing to do.
Begin(t, op, flags) ==
    /\ call[t] = NoCall
    /\ IF HaveTo(op, IINFlags, flags)
       THEN /\ call' = [call EXCEPT ![t] = [op |-> op, flags |-> flags]]
            /\ OldIINs' = [OldIINs EXCEPT ![t] = IINFlags]
            /\ UNCHANGED wanted
       ELSE /\ wanted' = Expected(op, flags)
            /\ UNCHANGED <<call, OldIINs>>
    /\ UNCHANGED IINFlags

\* The test of the while loop: the exchange gave the thread the value ex.
Finished(t, ex) == OldIINs[t] = ex

\* IINFlags.exchange(), and the test of the while loop.
Exchange(t) ==
    /\ call[t] # NoCall
    /\ IINFlags' = NewFlags(call[t].op, OldIINs[t], call[t].flags)
    /\ IF Finished(t, IINFlags)
       THEN /\ call' = [call EXCEPT ![t] = NoCall]
            /\ OldIINs' = [OldIINs EXCEPT ![t] = {}]
            /\ wanted' = Expected(call[t].op, call[t].flags)
       ELSE /\ OldIINs' = [OldIINs EXCEPT ![t] = IINFlags]
            /\ UNCHANGED <<call, wanted>>

Next == \E t \in Threads :
          \/ \E op \in {"set", "clear"}, flags \in Arguments : Begin(t, op, flags)
          \/ Exchange(t)

\* A thread that has started a call goes on with it.
Spec == Init /\ [][Next]_vars /\ \A t \in Threads : WF_vars(Exchange(t))

-----------------------------------------------------------------------------
\* The type invariant.
TypeOK == /\ IINFlags \in SUBSET Flags
          /\ call \in [Threads -> [op : {"none", "set", "clear"}, flags : SUBSET Flags]]
          /\ OldIINs \in [Threads -> SUBSET Flags]
          /\ wanted \in SUBSET Flags
          /\ \A t \in Threads : call[t] = NoCall => OldIINs[t] = {}

(***************************************************************************)
(* "Check that IINs didn't get changed in the mean time to setting the     *)
(* flags": a flag that a completed SetIINFlags set stays set until a call  *)
(* to ClearIINFlags that names it.  Another thread's SetIINFlags, of       *)
(* another flag, does not take it away again.                              *)
(***************************************************************************)
SetFlagsStay ==
    \A f \in wanted :
        (\A t \in Threads : ~(call[t].op = "clear" /\ f \in call[t].flags)) => f \in IINFlags

\* ClearIINFlags "clears the flags specified".
ClearClears ==
    [][\A t \in Threads : call[t].op = "clear" /\ call'[t] = NoCall
                         => IINFlags' \cap call[t].flags = {}]_vars

\* Every call to SetIINFlags or ClearIINFlags returns.
CallReturns == \A t \in Threads : call[t] # NoCall ~> call[t] = NoCall
=============================================================================
