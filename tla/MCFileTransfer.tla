----------------------------- MODULE MCFileTransfer -----------------------------
(***************************************************************************)
(* Instances of FileTransferLink: two files and the sequence 1..3, so that *)
(* a file of one chunk ends on a number that is not the last and one of    *)
(* three chunks waits for a confirmation on its way.                       *)
(***************************************************************************)
EXTENDS FileTransferLink

CONSTANTS f1, f2

Chunks(a, b) == [f \in Files |-> IF f = f1 THEN a ELSE b]

\* The guards against corruption are on; nothing goes wrong.
Base ==
    [UseCRCs |-> TRUE, UseConfirms |-> TRUE, Mode |-> "OVERWRITE", Persistence |-> "ONDISK",
     Chunks |-> Chunks(1, 1), Exact |-> {}, Unreadable |-> {}, Existing |-> {},
     MaxLosses |-> 0, MaxEarly |-> 0, MaxTxDisables |-> 0, MaxRxDisables |-> 0,
     MaxRestarts |-> 0, MaxRequests |-> 2]
OneFile == [Base EXCEPT !.MaxRequests = 1]

MCSetups ==
    { Base,
      [Base EXCEPT !.Exact = {f1}],
      [OneFile EXCEPT !.Chunks = Chunks(5, 0), !.Exact = {f2}],
      [Base EXCEPT !.Unreadable = {f1}],
      [Base EXCEPT !.MaxLosses = 1],
      [Base EXCEPT !.MaxRestarts = 1],
      [Base EXCEPT !.Mode = "FAIL", !.Existing = {f1}, !.MaxLosses = 1],
      [Base EXCEPT !.UseConfirms = FALSE, !.MaxLosses = 1],
      [OneFile EXCEPT !.Mode = "APPEND", !.Existing = {f1}, !.MaxEarly = 1],
      [OneFile EXCEPT !.Chunks = Chunks(3, 2), !.MaxLosses = 1],
      [OneFile EXCEPT !.Chunks = Chunks(3, 2), !.MaxEarly = 1],
      [OneFile EXCEPT !.MaxRxDisables = 1, !.MaxLosses = 1],
      [OneFile EXCEPT !.MaxTxDisables = 1],
      [OneFile EXCEPT !.MaxTxDisables = 1, !.Persistence = "PURGEONDISABLE"],
      [OneFile EXCEPT !.UseCRCs = FALSE],
      [OneFile EXCEPT !.UseConfirms = FALSE, !.Chunks = Chunks(1, 2)] }

\* Two files, and the sender is disabled and enabled once.
ResetSetups == {[Base EXCEPT !.MaxTxDisables = 1]}
=============================================================================
