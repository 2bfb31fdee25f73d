--------------------------- MODULE MCEventStream ---------------------------
(* TLC instances of EventStream.                                           *)
EXTENDS EventStream, TLC

\* Sessions are interchangeable in the safety properties.
Symmetry == Permutations(Consumer)

\* degraded is only ever set, and nothing reads it.
View == <<streamVars, group, sub, handled>>
=============================================================================
