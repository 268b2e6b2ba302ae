------------------------------ MODULE RangeSums ------------------------------
(* The sum of a function over the integers 1 .. n. *)
EXTENDS Integers

Total(n, f) ==
    LET upTo[i \in 0 .. n] == IF i = 0 THEN 0 ELSE upTo[i - 1] + f[i]
    IN  upTo[n]
=============================================================================
