----------------------------- MODULE PositionMap -----------------------------
(***************************************************************************)
(* What the position list of a margin account promises: a finite map from  *)
(* token mint to position, with room for SlotCount positions of which the  *)
(* owner may fill MaxUserPositions.                                        *)
(*                                                                         *)
(* PositionList is the data structure that implements it.                  *)
(***************************************************************************)
EXTENDS Integers, FiniteSets

CONSTANTS
    Mints,              \* token mints, ordered as their keys are
    Addresses,          \* addresses of token accounts
    MaxBalance,         \* bound on the recorded balances
    SlotCount,          \* 32 in the code
    MaxUserPositions    \* MAX_USER_POSITIONS, 24 in the code

VARIABLES
    pos,            \* pos[m]: the position of mint m, or Unregistered
    liquidating     \* MarginAccount::is_liquidating()

absVars == <<pos, liquidating>>

Unregistered == [address |-> 0, balance |-> 0]

AbsInit ==
    /\ pos = [m \in Mints |-> Unregistered]
    /\ liquidating = FALSE

Registered == {m \in Mints : pos[m] # Unregistered}

\* Registering a mint that is already there changes nothing.
AbsRegister(m, a) ==
    /\ UNCHANGED liquidating
    /\ \/ /\ pos[m] # Unregistered
          /\ UNCHANGED pos
       \/ /\ pos[m] = Unregistered
          /\ pos' = [pos EXCEPT ![m] = [address |-> a, balance |-> 0]]
          /\ Cardinality(Registered) < SlotCount
    /\ liquidating \/ Cardinality(Registered) < MaxUserPositions

AbsUnregister(m) ==
    /\ pos[m] # Unregistered /\ pos[m].balance = 0
    /\ pos' = [pos EXCEPT ![m] = Unregistered]
    /\ UNCHANGED liquidating

AbsSetBalance(m, b) ==
    /\ pos[m] # Unregistered
    /\ pos' = [pos EXCEPT ![m].balance = b]
    /\ UNCHANGED liquidating

AbsLiquidation ==
    /\ liquidating' = ~liquidating
    /\ UNCHANGED pos

AbsNext ==
    \/ \E m \in Mints, a \in Addresses : AbsRegister(m, a)
    \/ \E m \in Mints : AbsUnregister(m)
    \/ \E m \in Mints, b \in 0 .. MaxBalance : AbsSetBalance(m, b)
    \/ AbsLiquidation

AbsSpec == AbsInit /\ [][AbsNext]_absVars

=============================================================================
