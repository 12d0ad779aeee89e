---------------------------- MODULE StatusVerdict ----------------------------
(***************************************************************************)
(* What a publisher is promised about the status of an event it sent to    *)
(* several receivers: one verdict, given once.  The verdict is a proper    *)
(* status only when every receiver returned exactly that status, and       *)
(* UNDEFINED only when a receiver returned UNDEFINED or two receivers      *)
(* disagree.  It may be given early, before every receiver has answered.   *)
(* (Test "IOHandlerTestSuite - StatusCallback", IOHandlerTests.cpp.)       *)
(***************************************************************************)
CONSTANTS Callers,    \* the receivers, each of which answers once
          Status,     \* the CommandStatus values
          UNDEFINED,  \* CommandStatus::UNDEFINED
          NoReply     \* the receiver has not answered yet

VARIABLES reply,      \* [Callers -> Status \cup {NoReply}]
          verdict     \* the sequence of statuses given to the publisher

avars == <<reply, verdict>>

AInit == /\ reply = [c \in Callers |-> NoReply]
         /\ verdict = <<>>

Answered(c) == reply[c] # NoReply

Unanimous(s) == \A c \in Callers : reply[c] = s

Disagreement == \/ \E c \in Callers : reply[c] = UNDEFINED
                \/ \E c, d \in Callers : /\ Answered(c)
                                         /\ Answered(d)
                                         /\ reply[c] # reply[d]

Justified(s) == IF s = UNDEFINED THEN Disagreement ELSE Unanimous(s)

Reply(c, s) == ~Answered(c) /\ reply' = [reply EXCEPT ![c] = s]

\* A verdict may be given in the very step of the answer that settles it.
Decide(s) == /\ verdict = <<>>
             /\ Justified(s)'
             /\ verdict' = <<s>>

ANext == /\ UNCHANGED reply \/ \E c \in Callers, s \in Status : Reply(c, s)
         /\ UNCHANGED verdict \/ \E s \in Status : Decide(s)

ASpec == AInit /\ [][ANext]_avars
=============================================================================
