---------------------------- MODULE MCDeployment ----------------------------
(* Deployment on small sets of calls and attempts. *)
EXTENDS Deployment, TLC

\* One container for each session, and a pool of two.
OneToOne(s) == s
ManyToOne(s) == s % 2
Symmetry == Permutations(Calls) \cup Permutations(Attempts)
=============================================================================
