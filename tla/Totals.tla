------------------------------- MODULE Totals -------------------------------
(***************************************************************************)
(* Sums of natural numbers over a finite set, written as the number of     *)
(* units they stand for.  The services add up rows again and again: the    *)
(* quantity invoiced on a purchase-order line, the amount reserved on a    *)
(* budget.  A row x that contributes f[x] contributes the f[x] pairs       *)
(* <<x, 1>>, ..., <<x, f[x]>>, and the sum is the number of all pairs.     *)
(* Written this way a sum needs no recursion, and its laws (proved where   *)
(* they are used) follow from the library's theorems about finite sets.    *)
(***************************************************************************)
EXTENDS Naturals, FiniteSets

(* The units the members of S contribute under f. *)
Units(S, f) == UNION {{x} \X (1 .. f[x]) : x \in S}

(* The sum of f[x] over the members x of S. *)
Total(S, f) == Cardinality(Units(S, f))
=============================================================================
