------------------------------ MODULE MCMargin ------------------------------
(* One collateral that counts in full, an SPL deposit or a pool's deposit  *)
(* note, and one loan with leverage 2, whose notes are priced by the pool  *)
(* and whose balance goes stale.                                           *)
EXTENDS Margin, TLC

CONSTANTS dep, debt, pool

\* `op` is only read in its primed form, by action properties, which TLC
\* evaluates on every step: states that differ in it need not be told apart.
StateView == <<open, liquidator, position, tokens, liquidation, lost>>

MCAdapterOf == [m \in Mints |-> IF m \in Deposits THEN NoAdapter ELSE pool]
MCModifier == [m \in Mints |-> IF m \in Claims THEN 200 ELSE 100]
MCMaxStaleness == [m \in Mints |-> IF m \in Claims THEN 1 ELSE 0]

\* bound: one collateral at a time is registered or in the account's hands
Used(m) == position[m].registered \/ tokens[m] > 0
OneCollateral == Cardinality({m \in Deposits \cup Notes : Used(m)}) <= 1

NextOneCollateral == Next /\ OneCollateral'
SpecOneCollateral == Init /\ [][NextOneCollateral]_vars
=============================================================================
