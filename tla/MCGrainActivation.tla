-------------------------- MODULE MCGrainActivation --------------------------
(* TLC instances of GrainActivation.                                       *)
EXTENDS GrainActivation, TLC

Symmetry == Permutations(PID) \cup Permutations(Thread)

\* No action reads the event of the last step.
View == <<now, serving, owner, spent, adapterVars>>
=============================================================================
