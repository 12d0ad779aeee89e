------------------------------- MODULE MCMD3Link -------------------------------
(* Small instances of MD3Link. *)
EXTENDS MD3Link

Base == [Retries |-> 1, Tagged |-> TRUE, StandAlone |-> FALSE, Late |-> FALSE,
         MaxLosses |-> 0, MaxDrops |-> 0, MaxPolls |-> 2, MaxChanges |-> 2, MaxControls |-> 0]

\* Scans and a control on a connection that loses messages; scans on one that
\* is late; scans on one that goes down; two controls on one that loses
\* messages; a control on one that is late and goes down; an outstation that
\* answers controls twice.
MCSetups ==
    {[Base EXCEPT !.MaxLosses = 2],
     [Base EXCEPT !.Late = TRUE],
     [Base EXCEPT !.Late = TRUE, !.MaxDrops = 1, !.MaxChanges = 1],
     [Base EXCEPT !.MaxLosses = 2, !.MaxChanges = 0, !.MaxControls = 2],
     [Base EXCEPT !.Late = TRUE, !.MaxPolls = 1, !.MaxChanges = 0, !.MaxControls = 1, !.MaxDrops = 1],
     [Base EXCEPT !.StandAlone = TRUE, !.MaxPolls = 0, !.MaxChanges = 0, !.MaxControls = 2]}

\* Scans on a connection that is late, and stays up.
LateSetups == {[Base EXCEPT !.Late = TRUE]}
=============================================================================
