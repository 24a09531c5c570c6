----------------------------- MODULE MCCondense -----------------------------
(* Groups of instructions whose transaction is within the limit, but not its base64 form. *)
EXTENDS Condense

Ix(d, a) == [data |-> d, accounts |-> a]
LargeBuilders == {<<Ix(1, {"x"})>>, <<Ix(14, {"z"})>>}
=============================================================================
