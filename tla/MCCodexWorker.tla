--------------------------- MODULE MCCodexWorker ---------------------------
(***************************************************************************)
(* Instances of CodexWorker: three tasks, of which two share a file.       *)
(***************************************************************************)
EXTENDS CodexWorker

CONSTANTS t1, t2, t3

TwoTasks == {t1, t2}
Sharing == {<<t1, t1>>, <<t2, t2>>, <<t1, t2>>, <<t2, t1>>}
=============================================================================
