-------------------------------- MODULE Sums ---------------------------------
(* The sum of what a function holds at 1, ..., n.                           *)
EXTENDS Naturals

SumTo(a, n) == LET sum[i \in 0..n] == IF i = 0 THEN 0 ELSE sum[i - 1] + a[i]
               IN  sum[n]
=============================================================================
