---------------------------- MODULE MCSkillStage ----------------------------
(* Small instances: two clients, folders of two files with two texts. *)
EXTENDS SkillStage, TLC

CONSTANTS c1, c2, t1, t2

Clients == Permutations({c1, c2})
Symmetry == Clients \cup Permutations({t1, t2})
=============================================================================
