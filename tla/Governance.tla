----------------------------- MODULE Governance -----------------------------
(***************************************************************************)
(* The administration of the protocol: airspaces and what their            *)
(* authorities configure in the margin and the fixed-term program, next to *)
(* the control program, which has a governor of its own.                   *)
(*                                                                         *)
(* Margin configuration and markets share nothing but the airspaces, and   *)
(* the control program uses none.  Each is interleaved with what it reads  *)
(* for longer than one step, in airspaces that have been created: margin   *)
(* accounts with the permits, markets with the authorities.                *)
(***************************************************************************)
EXTENDS MarginConfig, MarketControl, PoolControl

governanceVars == <<airspaceVars, configVars, marketVars, controlVars>>

InitGovernance == InitAirspace /\ InitConfig /\ InitMarkets /\ InitControl

\* the airspaces exist, all with the authority that the governor gave them
InitCreated ==
  /\ governor = GOVERNOR_ID
  /\ airspaces = [a \in Airspaces |-> [authority |-> GOVERNOR_ID, is_restricted |-> a # DEFAULT_AIRSPACE]]
  /\ issuers = {} /\ permits = << >>
  /\ InitConfig /\ InitMarkets /\ InitControl

AirspaceSide == AirspaceNext /\ UNCHANGED <<configVars, marketVars, controlVars>>

ConfigSide ==
  \/ PermitNext /\ UNCHANGED <<configVars, marketVars, controlVars>>
  \/ ConfigNext /\ UNCHANGED <<airspaceVars, marketVars, controlVars>>

MarketSide ==
  \/ AuthorityNext /\ UNCHANGED <<configVars, marketVars, controlVars>>
  \/ MarketNext /\ UNCHANGED <<airspaceVars, configVars, controlVars>>

ControlSide == ControlNext /\ UNCHANGED <<airspaceVars, configVars, marketVars>>

\* all of the administration, from the beginning or in airspaces that exist
GovernanceSpec ==
  /\ InitGovernance \/ InitCreated
  /\ [][AirspaceSide \/ ConfigSide \/ MarketSide \/ ControlSide]_governanceVars

-----------------------------------------------------------------------------
\* Every airspace has its own risk settings and its own cranks.  Instructions name the
\* account, the config, the permit, the market and the airspace separately
\* (register_position.rs:34, refresh_position_config.rs:29-35, authorize_crank.rs:28-36),
\* accounts are closed and made again in another airspace, and authorities change: still
\* positions carry settings of the account's airspace only, and a crank is authorized by
\* the airspace of its market.
AirspacesAreSeparate ==
  /\ \A o \in DOMAIN accounts : \A m \in DOMAIN accounts[o].positions :
       /\ accounts[o].airspace \in Airspaces
       /\ \E u \in TokenUpdates[accounts[o].airspace] : u.admin = accounts[o].positions[m].admin
       /\ \E u \in TokenUpdates[accounts[o].airspace] : u.terms = accounts[o].positions[m].terms
  /\ \A k \in DOMAIN cranks : cranks[k] = markets[k[1]].airspace

=============================================================================
