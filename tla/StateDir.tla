--------------------------------- MODULE StateDir ------------------------------
(***************************************************************************)
(* What a migration run promises of the state directory: it goes from one  *)
(* schema to the next, and the schema its marker names is the one it is in *)
(* except while a step's files are being swapped.                          *)
(***************************************************************************)
EXTENDS Naturals

VARIABLES
    version,    \* the schema the directory says it is in
    mixed       \* whether files of two schemas are live

stateDir == <<version, mixed>>

\* The first rename of a step's swap, or a retry's.
BeginSwap == ~ mixed /\ mixed' = TRUE /\ UNCHANGED version

\* The swap is through and the marker follows it.
CommitStep == mixed /\ mixed' = FALSE /\ version' = version + 1

\* The swap failed and the originals are back.
UndoSwap == mixed /\ mixed' = FALSE /\ UNCHANGED version

StateDirNext == BeginSwap \/ CommitStep \/ UndoSwap
================================================================================
