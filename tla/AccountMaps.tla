---------------------------- MODULE AccountMaps ----------------------------
(***************************************************************************)
(* Solana accounts of one kind are a function from their addresses to      *)
(* their contents: an account exists if its address is in the domain.      *)
(***************************************************************************)

\* creates the account k, or overwrites its contents
Put(f, k, v) == [x \in DOMAIN f \cup {k} |-> IF x = k THEN v ELSE f[x]]

\* closes the account k
Drop(f, k) == [x \in DOMAIN f \ {k} |-> f[x]]

=============================================================================
