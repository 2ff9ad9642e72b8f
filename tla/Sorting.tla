------------------------------ MODULE Sorting ------------------------------
(***************************************************************************)
(* Sorting the first n entries of an array that is numbered from 0, by     *)
(* what it promises: the same entries, in ascending order.                 *)
(***************************************************************************)
EXTENDS Integers, Functions

(* The first n positions.                                                  *)
Places(n) == 0 .. n - 1

(* The rearrangements of the first n entries of f that put them in order.  *)
Sortings(f, n) ==
  { p \in Bijection(Places(n), Places(n)) :
      \A i, j \in Places(n) : i < j => f[p[i]] <= f[p[j]] }
=============================================================================
