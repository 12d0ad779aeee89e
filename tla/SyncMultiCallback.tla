-------------------------- MODULE SyncMultiCallback --------------------------
(***************************************************************************)
(* IOHandler::SyncMultiCallback (Code/Libs/ODC/IOHandler.cpp): the status  *)
(* callback an event carries when it is sent to several receivers.  Every  *)
(* receiver calls it once, from any thread; the calls are serialised by a  *)
(* strand, and the combined status is passed on to the caller's own        *)
(* callback.                                                               *)
(***************************************************************************)
EXTENDS Naturals, FiniteSets, Sequences

CONSTANTS Callers,    \* the receivers the event was sent to
          Status,     \* the CommandStatus values
          SUCCESS,
          UNDEFINED,
          NoReply

ASSUME CallersAssumption == IsFiniteSet(Callers) /\ Callers # {}
ASSUME StatusAssumption == /\ {SUCCESS, UNDEFINED} \subseteq Status
                           /\ SUCCESS # UNDEFINED
                           /\ NoReply \notin Status

VARIABLES reply,           \* what each receiver passed to the callback
          strand,          \* receivers whose call waits on pCB_sync
          pCombinedStatus,
          pExecCount,
          verdict          \* the calls made to pStatusCallback, in order

callbackVars == <<reply, strand, pCombinedStatus, pExecCount, verdict>>

cb_number == Cardinality(Callers)

CallbackInit ==
    /\ reply = [c \in Callers |-> NoReply]
    /\ strand = {}
    /\ pCombinedStatus = SUCCESS
    /\ pExecCount = 0
    /\ verdict = <<>>

(***************************************************************************)
(* A receiver calls the callback it was given.  For fewer than two         *)
(* receivers SyncMultiCallback returned pStatusCallback itself, so the     *)
(* call reaches the caller directly; otherwise it is wrapped on the        *)
(* strand.  The order in which threads reach the strand is arbitrary.      *)
(***************************************************************************)
Invoke(c, s) ==
    /\ reply[c] = NoReply
    /\ reply' = [reply EXCEPT ![c] = s]
    /\ IF cb_number < 2
       THEN verdict' = Append(verdict, s) /\ UNCHANGED strand
       ELSE strand' = strand \cup {c} /\ UNCHANGED verdict
    /\ UNCHANGED <<pCombinedStatus, pExecCount>>

(***************************************************************************)
(* The body of multi_cb on its count-th call: what it leaves in            *)
(* *pCombinedStatus, and whether it then calls pStatusCallback with it.    *)
(***************************************************************************)
FirstStatusIgnored(count, combined, s) == IF s # combined THEN UNDEFINED ELSE combined

Combined(count, combined, s) ==
    IF count = 1 THEN s ELSE IF s # combined THEN UNDEFINED ELSE combined

OneCallTooMany(count, combined) == combined = UNDEFINED \/ count > cb_number

CallsBack(count, combined) == combined = UNDEFINED \/ count >= cb_number

RunMultiCb(c) ==
    /\ pExecCount' = pExecCount + 1
    /\ pCombinedStatus' = Combined(pExecCount', pCombinedStatus, reply[c])
    /\ verdict' = IF CallsBack(pExecCount', pCombinedStatus')
                  THEN Append(verdict, pCombinedStatus')
                  ELSE verdict
    /\ UNCHANGED reply

MultiCbNoEarlyReturn(c) == /\ c \in strand
                           /\ strand' = strand \ {c}
                           /\ RunMultiCb(c)

\* The call of receiver c gets its turn on the strand.
MultiCb(c) ==
    /\ c \in strand
    /\ strand' = strand \ {c}
    /\ IF pCombinedStatus = UNDEFINED
       THEN UNCHANGED <<reply, pCombinedStatus, pExecCount, verdict>>
       ELSE RunMultiCb(c)

CallbackNext == \/ \E c \in Callers, s \in Status : Invoke(c, s)
                \/ \E c \in Callers : MultiCb(c)

CallbackSpec == CallbackInit /\ [][CallbackNext]_callbackVars

(***************************************************************************)
(* Every handler posted on the strand is run by the pool (asio never drops *)
(* one), and each receiver answers: that is the contract of Event().       *)
(***************************************************************************)
CallbackFairness ==
    /\ \A c \in Callers : WF_callbackVars(MultiCb(c))
    /\ \A c \in Callers : WF_callbackVars(\E s \in Status : Invoke(c, s))

-----------------------------------------------------------------------------
\* The type invariant.
CallbackTypeOK ==
    /\ reply \in [Callers -> Status \cup {NoReply}]
    /\ strand \in SUBSET Callers
    /\ pCombinedStatus \in Status
    /\ pExecCount \in 0 .. cb_number
    /\ verdict \in Seq(Status)

(***************************************************************************)
(* pStatusCallback is called at most once, although an UNDEFINED verdict   *)
(* may be given before the remaining receivers have called back.           *)
(***************************************************************************)
CalledAtMostOnce == Len(verdict) <= 1

(***************************************************************************)
(* A verdict other than UNDEFINED is what every receiver returned: no      *)
(* receiver's failure, nor a receiver still to answer, hides behind it.    *)
(***************************************************************************)
VerdictUnanimous ==
    verdict # <<>> /\ verdict[1] # UNDEFINED
      => \A c \in Callers : reply[c] = verdict[1]

\* An event that a receiver has answered gets its verdict: the publisher is
\* called back in the end.
EventuallyCalledBack == (\E c \in Callers : reply[c] # NoReply) ~> verdict # <<>>

\* The callback implements the abstract promise made to the publisher.
Abstract == INSTANCE StatusVerdict WITH reply <- reply, verdict <- verdict
GivesOneSoundVerdict == Abstract!ASpec
=============================================================================
