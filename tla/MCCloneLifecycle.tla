-------------------------- MODULE MCCloneLifecycle --------------------------
(***************************************************************************)
(* Instances of the CloneLifecycle module for TLC.                         *)
(***************************************************************************)
EXTENDS CloneLifecycle

\* Each part but the root directory takes one byte, the working tree two: the
\* whole repository takes 6, and a limit of 4 or 5 is exceeded by the checkout.
PartBytes == [P \in SUBSET Parts |->
  Cardinality(P \ {"root"}) + IF "worktree" \in P THEN 1 ELSE 0]
=============================================================================
