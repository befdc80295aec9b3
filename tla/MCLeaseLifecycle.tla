------------------------- MODULE MCLeaseLifecycle --------------------------
(***************************************************************************)
(* Small instances of LeaseLifecycle for TLC.                              *)
(***************************************************************************)
EXTENDS LeaseRefinement, TLC

CONSTANTS l1, l2, s1, s2, s3, s4, h1, h2, h3, rec

\* Fresh sandbox ids are drawn in any order, and handlers are alike.
SandboxAndHandlerSymmetry == Permutations(Sandboxes) \cup Permutations(Handlers)

\* Permutations of sandboxes alone, for runs with one handler.
SandboxSymmetry == Permutations(Sandboxes)

=============================================================================
