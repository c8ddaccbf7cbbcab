-------------------------- MODULE MCEffectApprovals --------------------------
(* Two people who may decide about one governed step.                         *)
EXTENDS EffectApprovals, TLC

SessionSymmetry == Permutations(Sessions)
=============================================================================
