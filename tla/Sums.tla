-------------------------------- MODULE Sums --------------------------------
(* Sums of amounts over sets of accounts, positions or users. *)
EXTENDS Integers, FiniteSetsExt

\* the sum of f[x] for all x in S
SumOver(f, S) == MapThenSumSet(LAMBDA x : f[x], S)
=============================================================================
