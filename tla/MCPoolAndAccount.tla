-------------------------- MODULE MCPoolAndAccount --------------------------
(***************************************************************************)
(* A lending pool of two users, and a margin account that may hold a       *)
(* pool's deposit note itself and for which the pool registers the loan; a *)
(* second adapter manages neither.  A behaviour is one of the pool or one  *)
(* of the account: `part` says of which, and the other stays as it is.     *)
(***************************************************************************)
EXTENDS Margin, MCMarginPool

VARIABLE part

CONSTANTS note, debt, lender, swap

MCAdapterOf == (note :> lender) @@ (debt :> lender)
MCModifier == (note :> 100) @@ (debt :> 400)
MCMaxStaleness == (note :> 0) @@ (debt :> 0)

InitBoth == Init /\ InitPool /\ part \in {"pool", "account"}

NextBoth ==
  /\ UNCHANGED part
  /\ \/ part = "pool" /\ NextPool /\ UNCHANGED vars
     \/ part = "account" /\ Next /\ UNCHANGED poolVars

\* Of the pool nothing is assumed; of the account what Margin assumes.
SpecBoth ==
  /\ InitBoth /\ [][NextBoth]_<<vars, poolVars, part>>
  /\ part = "account" => Fairness
=============================================================================
