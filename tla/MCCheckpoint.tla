---- MODULE MCCheckpoint ----
(* A small instance of Checkpoint.                                         *)
EXTENDS Checkpoint

\* the stack shrinks between two checkpoints, or grows, and is empty at one
MCPrograms == {<<2, 0>>, <<0, 1>>}
\* the stack pointer, a CSR, the pc
MCStruck == {SP, 36, PC}
=============================================================================
