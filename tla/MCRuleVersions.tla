---------------------------- MODULE MCRuleVersions ----------------------------
(* The versions of a tenant over a few changes by two users, who differ in *)
(* nothing but their name.                                                 *)
EXTENDS RuleVersions, TLC

UserSymmetry == Permutations(Users)
=============================================================================
