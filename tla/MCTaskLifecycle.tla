--------------------------- MODULE MCTaskLifecycle ---------------------------
(* TaskLifecycle on small instances.                                        *)
EXTENDS TaskLifecycle, TLC

\* Ids and handlers are only ever compared for equality.
Symmetry == Permutations(EventIds) \cup Permutations(Handlers)
=============================================================================
