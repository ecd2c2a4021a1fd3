-------------------------------- MODULE Sums --------------------------------
(***************************************************************************)
(* Sums over sets of naturals, as a recursive function of the upper bound  *)
(* (the folds of the community modules say the same, but the provers know  *)
(* nothing of them).                                                       *)
(***************************************************************************)
EXTENDS Naturals

\* The sum of f[k] over the k \in T that are no larger than n.
SumOver(f, T, n) ==
    LET upTo[k \in Nat] == (IF k = 0 THEN 0 ELSE upTo[k - 1])
                               + (IF k \in T THEN f[k] ELSE 0)
    IN  upTo[n]
=============================================================================
