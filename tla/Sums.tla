-------------------------------- MODULE Sums --------------------------------
(***************************************************************************)
(* The sum of the values a function has on a finite set: amounts of        *)
(* offers, weights of the members of a clan, money in wallets.             *)
(***************************************************************************)
EXTENDS Integers, FiniteSetsExt

SumOver(f, S) == MapThenSumSet(LAMBDA x : f[x], S)

=============================================================================
