-------------------------- MODULE MCApprovalRules ---------------------------
(***************************************************************************)
(* Three rules in two currencies, with bands and open ends over three     *)
(* amounts: bands can touch, overlap, nest and leave gaps.                 *)
(***************************************************************************)
EXTENDS ApprovalRules, TLC

(* Rules and calls differ in nothing but their name. *)
Symmetric == Permutations(Rule) \cup Permutations(Call)
=============================================================================
