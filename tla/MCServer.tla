------------------------------ MODULE MCServer ------------------------------
(***************************************************************************)
(* Values of the constants of Server for TLC.                              *)
(***************************************************************************)
EXTENDS Server, FiniteSets

CONSTANTS v1, b1, p1, g1

\* Bound: one webhook goroutine alive.  Only PubFire, of which no fairness is
\* assumed, would go beyond it, so that no fair behaviour is cut short.
OneHook == Cardinality(hooks) <= 1
=============================================================================
