---------------------------- MODULE MCComponents ----------------------------
(***************************************************************************)
(* Components that share no state.  A behaviour is one of one component:   *)
(* `part` says of which, and the others stay as they are.                  *)
(***************************************************************************)
EXTENDS Invocation, PositionList, Governance, Swap, Condense, OrderbookModel, MarginClient

VARIABLE part

CONSTANTS A, B

\* three mints, an OpenBook market of "sol", and routes of one to three legs, some rejected
Leg(a, b, m, split) == [route_a |-> a, route_b |-> b, destination_mint |-> m, split |-> split]
NoLeg == Leg("Empty", "Empty", "sol", 0)
RoutesUsed ==
  { <<Leg("Spl", "Empty", "usd", 0), NoLeg, NoLeg>>,
    <<Leg("Whirlpool", "Empty", "usd", 0), Leg("OpenBook", "Empty", "sol", 0), NoLeg>>,
    <<Leg("OpenBook", "Empty", "usd", 0), Leg("SaberStable", "Empty", "jet", 0), NoLeg>>,
    <<Leg("SaberStable", "Spl", "jet", 50), NoLeg, NoLeg>>,
    <<Leg("SaberStable", "Spl", "jet", 5), NoLeg, NoLeg>>,
    <<Leg("SaberStable", "Empty", "jet", 0), NoLeg, Leg("Spl", "Empty", "usd", 0)>> }

\* groups of instructions that fit alone, one of them empty
Ix(d, a) == [data |-> d, accounts |-> a]
SmallBuilders == {<< >>, <<Ix(1, {"x"})>>, <<Ix(1, {"x", "y"}), Ix(2, {"y"})>>, <<Ix(8, {"z"})>>}


\* each airspace has settings of its own
UpdatesAsked ==
  [a \in Airspaces |->
     IF a = A THEN {[underlying_mint |-> "usd", admin |-> "pool", terms |-> 1],
                    [underlying_mint |-> "usd", admin |-> "pool", terms |-> 2]}
     ELSE {[underlying_mint |-> "usd", admin |-> "market", terms |-> 3]}]

InitAll ==
  /\ Init /\ InitList /\ InitSwap /\ InitCondense /\ InitBook /\ InitClient
  /\ \/ part = "airspace" /\ InitGovernance
     \/ part \in {"config", "market"} /\ InitCreated
     \/ part \in {"invocation", "list", "control", "swap", "condense", "book", "client"} /\ InitGovernance

NextAll ==
  /\ UNCHANGED part
  /\ \/ /\ part = "invocation" /\ Next
        /\ UNCHANGED <<listVars, governanceVars, swapVars, condenseVars, market_book, clientVars>>
     \/ /\ part = "list" /\ ListNext
        /\ UNCHANGED <<vars, governanceVars, swapVars, condenseVars, market_book, clientVars>>
     \/ /\ \/ part = "airspace" /\ AirspaceSide
           \/ part = "config" /\ ConfigSide
           \/ part = "market" /\ MarketSide
           \/ part = "control" /\ ControlSide
        /\ UNCHANGED <<vars, listVars, swapVars, condenseVars, market_book, clientVars>>
     \/ /\ part = "swap" /\ SwapNext
        /\ UNCHANGED <<vars, listVars, governanceVars, condenseVars, market_book, clientVars>>
     \/ /\ part = "condense" /\ CondenseNext
        /\ UNCHANGED <<vars, listVars, governanceVars, swapVars, market_book, clientVars>>
     \/ /\ part = "book" /\ BookNext
        /\ UNCHANGED <<vars, listVars, governanceVars, swapVars, condenseVars, clientVars>>
     \/ /\ part = "client" /\ ClientNext
        /\ UNCHANGED <<vars, listVars, governanceVars, swapVars, condenseVars, market_book>>

SpecAll == InitAll /\ [][NextAll]_<<vars, listVars, governanceVars, swapVars, condenseVars, market_book, clientVars, part>>

=============================================================================
