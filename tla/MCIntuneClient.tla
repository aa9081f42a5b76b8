--------------------------- MODULE MCIntuneClient ---------------------------
(***************************************************************************)
(* A small instance of IntuneClient.                                       *)
(***************************************************************************)
EXTENDS IntuneClient

\* A lifetime that the code clamps and never caches, one that it caches and
\* that runs out, and one that no Instant can hold the end of.
ThreeLifetimes == {-1, 2 * Minute, 6 * Minute}
=============================================================================
