----------------------- MODULE SyncMultiCallback_proofs -----------------------
(***************************************************************************)
(* Proofs about the combined status callback, for any finite set of        *)
(* receivers and any set of statuses.                                      *)
(***************************************************************************)
EXTENDS SyncMultiCallback, FiniteSetTheorems, TLAPS

\* The receivers whose call has had its turn on the strand.
Done == {c \in Callers : reply[c] # NoReply /\ c \notin strand}

\* Only a receiver that has answered waits on the strand.
StrandInv == \A c \in strand : reply[c] # NoReply

(***************************************************************************)
(* While no disagreement has been seen the counter counts the calls run,   *)
(* all of them with the combined status, and the verdict is still out      *)
(* unless that was the last call.                                          *)
(***************************************************************************)
AgreedInv ==
    pCombinedStatus # UNDEFINED
      => /\ pExecCount = Cardinality(Done)
         /\ \A c \in Done : reply[c] = pCombinedStatus
         /\ verdict = IF Done = Callers THEN <<pCombinedStatus>> ELSE <<>>

\* Once the combined status is UNDEFINED, so is the verdict, for a reason.
DisagreedInv ==
    pCombinedStatus = UNDEFINED
      => verdict = <<UNDEFINED>> /\ Abstract!Disagreement

\* A lone receiver's answer is passed on as it is.
DirectInv ==
    /\ strand = {} /\ pExecCount = 0 /\ pCombinedStatus = SUCCESS
    /\ \/ verdict = <<>> /\ \A c \in Callers : reply[c] = NoReply
       \/ \E s \in Status : verdict = <<s>> /\ \A c \in Callers : reply[c] = s

IInv == /\ CallbackTypeOK
        /\ IF cb_number < 2
           THEN DirectInv
           ELSE StrandInv /\ AgreedInv /\ DisagreedInv

-----------------------------------------------------------------------------
\* cb_number is a positive number, and Done a finite part of the receivers.
LEMMA CountFacts ==
    /\ cb_number \in Nat \ {0}
    /\ IsFiniteSet(Done) /\ Cardinality(Done) \in Nat
    /\ Cardinality(Done) <= cb_number
    /\ Cardinality(Done) = cb_number <=> Done = Callers
<1>1. cb_number \in Nat \ {0}
  BY CallersAssumption, FS_CardinalityType, FS_EmptySet DEF cb_number
<1>2. Done \in SUBSET Callers
  BY DEF Done
<1>3. IsFiniteSet(Done) /\ Cardinality(Done) <= cb_number
      /\ (cb_number = Cardinality(Done) => Callers = Done)
  BY <1>2, CallersAssumption, FS_Subset DEF cb_number
<1>4. Cardinality(Done) \in Nat
  BY <1>3, FS_CardinalityType
<1>5. Done = Callers => Cardinality(Done) = cb_number
  BY DEF cb_number
<1> QED BY <1>1, <1>3, <1>4, <1>5

\* The invariant holds before any receiver has answered.
LEMMA InitIInv == CallbackInit => IInv
<1> SUFFICES ASSUME CallbackInit PROVE IInv
  OBVIOUS
<1>1. cb_number \in Nat \ {0}
  BY CountFacts
<1>2. CallbackTypeOK
  BY <1>1, StatusAssumption DEF CallbackInit, CallbackTypeOK
<1>3. Done = {} /\ Cardinality(Done) = 0
  BY FS_EmptySet DEF CallbackInit, Done
<1>4. DirectInv
  BY DEF CallbackInit, DirectInv
<1>5. StrandInv /\ AgreedInv /\ DisagreedInv
  BY <1>3, CallersAssumption, StatusAssumption DEF CallbackInit, StrandInv, AgreedInv, DisagreedInv
<1> QED BY <1>2, <1>4, <1>5 DEF IInv

\* A receiver's call, whether passed on directly or queued on the strand.
LEMMA InvokeIInv ==
    ASSUME IInv, NEW c \in Callers, NEW s \in Status, Invoke(c, s)
    PROVE  IInv'
<1> USE DEF Invoke
<1>1. cb_number \in Nat \ {0}
  BY CountFacts
<1>2. CallbackTypeOK'
  <2>1. /\ reply' \in [Callers -> Status \cup {NoReply}]
        /\ strand' \in SUBSET Callers
        /\ pCombinedStatus' \in Status
    BY DEF IInv, CallbackTypeOK
  <2>2. pExecCount' \in 0 .. cb_number
    BY DEF IInv, CallbackTypeOK
  <2>3. verdict' \in Seq(Status)
    BY DEF IInv, CallbackTypeOK
  <2> QED BY <2>1, <2>2, <2>3 DEF CallbackTypeOK, cb_number
<1>3. CASE cb_number < 2
  <2>1. PICK x : Callers = {x}
    <3>1. cb_number = 1
      BY <1>1, <1>3
    <3> QED BY <3>1, CallersAssumption, FS_Singleton DEF cb_number
  <2>2. verdict = <<>>
    BY <1>3, StatusAssumption DEF IInv, DirectInv
  <2>3. verdict' = <<s>> /\ \A d \in Callers : reply'[d] = s
    BY <1>3, <2>1, <2>2 DEF IInv, CallbackTypeOK
  <2>4. DirectInv'
    BY <1>3, <2>3 DEF IInv, DirectInv
  <2> QED BY <1>2, <1>3, <2>4 DEF IInv, cb_number
<1>4. CASE ~(cb_number < 2)
  <2>1. c \notin strand
    BY <1>4 DEF IInv, StrandInv
  <2>2. Done' = Done
    BY <1>4, <2>1, StatusAssumption DEF IInv, CallbackTypeOK, Done
  <2>3. StrandInv'
    BY <1>4, StatusAssumption DEF IInv, StrandInv, CallbackTypeOK
  <2>4. \A d \in Done : reply'[d] = reply[d]
    BY <2>1 DEF IInv, CallbackTypeOK, Done
  <2>5. AgreedInv'
    BY <1>4, <2>2, <2>4 DEF IInv, AgreedInv
  <2>6. Abstract!Disagreement => Abstract!Disagreement'
    BY StatusAssumption DEF IInv, CallbackTypeOK, Abstract!Disagreement, Abstract!Answered
  <2>7. DisagreedInv'
    BY <1>4, <2>6 DEF IInv, DisagreedInv
  <2> QED BY <1>2, <1>4, <2>3, <2>5, <2>7 DEF IInv, cb_number
<1> QED BY <1>3, <1>4

\* A call that gets its turn on the strand.
LEMMA MultiCbIInv ==
    ASSUME IInv, NEW c \in Callers, MultiCb(c)
    PROVE  IInv'
<1>1. cb_number \in Nat \ {0} /\ ~(cb_number < 2)
  BY CountFacts DEF IInv, DirectInv, MultiCb
<1>2. UNCHANGED reply /\ strand' = strand \ {c} /\ c \in strand
  BY DEF MultiCb, RunMultiCb
<1>3. StrandInv'
  BY <1>1, <1>2 DEF IInv, StrandInv
<1>4. c \notin Done /\ Done' = Done \cup {c}
  BY <1>1, <1>2 DEF IInv, StrandInv, Done
<1>5. reply[c] \in Status
  BY <1>1, <1>2 DEF IInv, StrandInv, CallbackTypeOK
<1>6. CASE pCombinedStatus = UNDEFINED
  <2>1. UNCHANGED <<pCombinedStatus, pExecCount, verdict>>
    BY <1>6 DEF MultiCb
  <2>2. CallbackTypeOK'
    BY <1>2, <2>1 DEF IInv, CallbackTypeOK
  <2>3. AgreedInv' /\ DisagreedInv'
    BY <1>1, <1>2, <1>6, <2>1
    DEF IInv, AgreedInv, DisagreedInv, Abstract!Disagreement, Abstract!Answered
  <2> QED BY <1>1, <1>3, <2>2, <2>3 DEF IInv, cb_number
<1>7. CASE pCombinedStatus # UNDEFINED
  <2>1. /\ RunMultiCb(c)
        /\ pExecCount = Cardinality(Done)
        /\ \A d \in Done : reply[d] = pCombinedStatus
    BY <1>1, <1>7 DEF MultiCb, IInv, AgreedInv
  <2>2. Done # Callers /\ verdict = <<>>
    BY <1>1, <1>4, <1>7 DEF IInv, AgreedInv
  <2>3. pExecCount' = Cardinality(Done')
    BY <1>4, <2>1, CountFacts, FS_AddElement DEF RunMultiCb
  <2>4. pExecCount' \in Nat /\ pExecCount' <= cb_number
        /\ (pExecCount' = cb_number <=> Done' = Callers)
    <3>1. /\ IsFiniteSet(Done') /\ Cardinality(Done') \in Nat
          /\ Cardinality(Done') <= cb_number
          /\ Cardinality(Done') = cb_number => Done' = Callers
      <4>1. Done' \in SUBSET Callers
        BY <1>4 DEF Done
      <4>2. IsFiniteSet(Done')
        BY <4>1, CallersAssumption, FS_Subset
      <4> QED BY <4>1, <4>2, CallersAssumption, FS_Subset, FS_CardinalityType DEF cb_number
    <3>2. Done' = Callers => Cardinality(Done') = cb_number
      BY DEF cb_number
    <3> QED BY <2>3, <3>1, <3>2
  <2>5. pExecCount = 0 => Done = {}
    BY <2>1, CountFacts, FS_EmptySet
  <2>6. pExecCount' = pExecCount + 1 /\ pExecCount \in Nat
    BY <2>1, CountFacts DEF RunMultiCb
  <2>7. pCombinedStatus' = Combined(pExecCount', pCombinedStatus, reply[c])
    BY <2>1 DEF RunMultiCb
  <2>8. pCombinedStatus' \in Status
    BY <1>5, <2>7, StatusAssumption DEF Combined, IInv, CallbackTypeOK
  <2>9. verdict' = IF pCombinedStatus' = UNDEFINED \/ Done' = Callers
                   THEN <<pCombinedStatus'>> ELSE <<>>
    BY <1>1, <2>1, <2>2, <2>4 DEF RunMultiCb, CallsBack
  <2>10. CallbackTypeOK'
    <3>1. verdict' \in Seq(Status)
      BY <2>8, <2>9
    <3> QED BY <1>1, <1>2, <2>4, <2>8, <3>1 DEF IInv, CallbackTypeOK, cb_number
  <2>11. CASE pCombinedStatus' # UNDEFINED
    <3>1. \A d \in Done' : reply'[d] = pCombinedStatus'
      BY <1>2, <1>4, <2>1, <2>5, <2>6, <2>7, <2>11 DEF Combined
    <3>2. AgreedInv' /\ DisagreedInv'
      BY <2>3, <2>9, <2>11, <3>1 DEF AgreedInv, DisagreedInv
    <3> QED BY <1>1, <1>3, <2>10, <3>2 DEF IInv, cb_number
  <2>12. CASE pCombinedStatus' = UNDEFINED
    <3>1. verdict' = <<UNDEFINED>>
      BY <2>9, <2>12
    <3>2. Abstract!Disagreement'
      <4>1. CASE reply[c] = UNDEFINED
        BY <1>2, <4>1 DEF Abstract!Disagreement
      <4>2. CASE reply[c] # UNDEFINED
        <5>1. pExecCount # 0 /\ reply[c] # pCombinedStatus
          BY <1>7, <2>6, <2>7, <2>12, <4>2 DEF Combined
        <5>2. PICK d \in Done : TRUE
          BY <2>1, <5>1, FS_EmptySet
        <5>3. d \in Callers /\ reply[d] # NoReply /\ reply[c] # NoReply /\ reply[d] # reply[c]
          BY <1>5, <2>1, <5>1, <5>2, StatusAssumption DEF Done
        <5> QED BY <1>2, <5>3 DEF Abstract!Disagreement, Abstract!Answered
      <4> QED BY <4>1, <4>2
    <3>3. AgreedInv' /\ DisagreedInv'
      BY <2>12, <3>1, <3>2 DEF AgreedInv, DisagreedInv
    <3> QED BY <1>1, <1>3, <2>10, <3>3 DEF IInv, cb_number
  <2> QED BY <2>11, <2>12
<1> QED BY <1>6, <1>7

\* The inductive invariant holds throughout.
THEOREM Inductive == CallbackSpec => []IInv
<1>1. IInv /\ [CallbackNext]_callbackVars => IInv'
  <2> SUFFICES ASSUME IInv, [CallbackNext]_callbackVars PROVE IInv'
    OBVIOUS
  <2>1. CASE UNCHANGED callbackVars
    BY <2>1 DEF callbackVars, IInv, CallbackTypeOK, DirectInv, StrandInv, AgreedInv, DisagreedInv, Done,
                cb_number, Abstract!Disagreement, Abstract!Answered
  <2>2. ASSUME NEW c \in Callers, NEW s \in Status, Invoke(c, s) PROVE IInv'
    BY <2>2, InvokeIInv
  <2>3. ASSUME NEW c \in Callers, MultiCb(c) PROVE IInv'
    BY <2>3, MultiCbIInv
  <2> QED BY <2>1, <2>2, <2>3 DEF CallbackNext
<1> QED BY <1>1, InitIInv, PTL DEF CallbackSpec

\* Type correctness of the callback's state.
THEOREM TypeCorrect == CallbackSpec => []CallbackTypeOK
<1>1. IInv => CallbackTypeOK
  BY DEF IInv
<1> QED BY <1>1, Inductive, PTL

\* The publisher's callback is called at most once, however many receivers.
THEOREM AtMostOnce == CallbackSpec => []CalledAtMostOnce
<1>1. IInv => CalledAtMostOnce
  <2> SUFFICES ASSUME IInv PROVE Len(verdict) <= 1
    BY DEF CalledAtMostOnce
  <2>1. CASE verdict = <<>>
    BY <2>1
  <2>2. CASE verdict # <<>>
    <3>1. PICK s \in Status : verdict = <<s>>
      BY <2>2 DEF IInv, CallbackTypeOK, DirectInv, AgreedInv, DisagreedInv
    <3> QED BY <3>1
  <2> QED BY <2>1, <2>2
<1> QED BY <1>1, Inductive, PTL

\* A verdict other than UNDEFINED is the status of every receiver.
THEOREM Unanimity == CallbackSpec => []VerdictUnanimous
<1>1. IInv => VerdictUnanimous
  <2> SUFFICES ASSUME IInv, verdict # <<>>, verdict[1] # UNDEFINED
               PROVE  \A c \in Callers : reply[c] = verdict[1]
    BY DEF VerdictUnanimous
  <2>1. CASE cb_number < 2
    BY <2>1 DEF IInv, DirectInv
  <2>2. CASE ~(cb_number < 2)
    <3>1. pCombinedStatus # UNDEFINED
      BY <2>2 DEF IInv, DisagreedInv
    <3> QED BY <2>2, <3>1 DEF IInv, AgreedInv
  <2> QED BY <2>1, <2>2
<1> QED BY <1>1, Inductive, PTL

(***************************************************************************)
(* The combined callback implements the promise of one sound verdict:      *)
(* every step is an answer, a justified decision, both, or invisible.      *)
(***************************************************************************)
THEOREM Refinement == CallbackSpec => GivesOneSoundVerdict
<1> USE DEF Abstract!avars
<1>1. CallbackInit => Abstract!AInit
  BY DEF CallbackInit, Abstract!AInit
<1>2. IInv /\ IInv' /\ [CallbackNext]_callbackVars => [Abstract!ANext]_(Abstract!avars)
  <2> SUFFICES ASSUME IInv, IInv', [CallbackNext]_callbackVars
               PROVE  [Abstract!ANext]_(Abstract!avars)
    OBVIOUS
  <2>1. CASE UNCHANGED callbackVars
    BY <2>1 DEF callbackVars
  <2>2. ASSUME NEW c \in Callers, NEW s \in Status, Invoke(c, s)
        PROVE  Abstract!ANext
    <3>1. Abstract!Reply(c, s)
      BY <2>2 DEF Invoke, Abstract!Reply, Abstract!Answered
    <3>2. CASE ~(cb_number < 2)
      BY <2>2, <3>1, <3>2 DEF Invoke, Abstract!ANext
    <3>3. CASE cb_number < 2
      <4>1. verdict = <<>>
        BY <2>2, <3>3, StatusAssumption DEF Invoke, IInv, DirectInv
      <4>2. verdict' = <<s>>
        BY <2>2, <3>3, <4>1 DEF Invoke
      <4>3. DirectInv'
        BY <3>3 DEF IInv, cb_number
      <4>4. \A d \in Callers : reply'[d] = s
        BY <4>2, <4>3 DEF DirectInv
      <4>5. Abstract!Justified(s)'
        BY <4>4, CallersAssumption DEF Abstract!Justified, Abstract!Unanimous, Abstract!Disagreement
      <4>6. Abstract!Decide(s)
        BY <4>1, <4>2, <4>5 DEF Abstract!Decide
      <4> QED BY <3>1, <4>6 DEF Abstract!ANext
    <3> QED BY <3>2, <3>3
  <2>3. ASSUME NEW c \in Callers, MultiCb(c)
        PROVE  Abstract!ANext
    <3>1. UNCHANGED reply /\ ~(cb_number < 2)
      BY <2>3 DEF MultiCb, RunMultiCb, IInv, DirectInv
    <3>2. CASE UNCHANGED verdict
      BY <3>1, <3>2 DEF Abstract!ANext
    <3>3. CASE verdict' # verdict
      <4>1. AgreedInv' /\ DisagreedInv' /\ AgreedInv /\ DisagreedInv
        BY <3>1 DEF IInv, cb_number
      <4>2. pCombinedStatus # UNDEFINED /\ c \in strand
        BY <2>3, <3>3 DEF MultiCb
      <4>3. verdict = <<>>
        BY <4>1, <4>2, <2>3 DEF AgreedInv, Done
      <4>4. verdict' = <<pCombinedStatus'>>
        BY <4>1, <4>3, <3>3 DEF AgreedInv, DisagreedInv
      <4>5. pCombinedStatus' \in Status
        BY DEF IInv, CallbackTypeOK
      <4>6. Abstract!Justified(pCombinedStatus)'
        <5>1. CASE pCombinedStatus' = UNDEFINED
          BY <4>1, <5>1 DEF DisagreedInv, Abstract!Justified
        <5>2. CASE pCombinedStatus' # UNDEFINED
          <6>1. \A d \in Callers : reply'[d] = pCombinedStatus'
            BY <4>1, <4>3, <3>3, <5>2 DEF AgreedInv
          <6> QED BY <5>2, <6>1 DEF Abstract!Justified, Abstract!Unanimous
        <5> QED BY <5>1, <5>2
      <4>7. \E s \in Status : Abstract!Decide(s)
        <5>1. PICK s \in Status : s = pCombinedStatus'
          BY <4>5
        <5>2. Abstract!Justified(s)'
          BY <4>6, <5>1 DEF Abstract!Justified, Abstract!Unanimous
        <5> QED BY <4>3, <4>4, <5>1, <5>2 DEF Abstract!Decide
      <4> QED BY <3>1, <4>7 DEF Abstract!ANext
    <3> QED BY <3>2, <3>3
  <2> QED BY <2>1, <2>2, <2>3 DEF CallbackNext
<1> QED BY <1>1, <1>2, Inductive, PTL DEF CallbackSpec, GivesOneSoundVerdict, Abstract!ASpec

=============================================================================
