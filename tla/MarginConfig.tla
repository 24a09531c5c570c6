---------------------------- MODULE MarginConfig ----------------------------
(***************************************************************************)
(* The configuration side of the margin program (programs/margin/src/      *)
(* instructions/configure): the authority of an airspace keeps token       *)
(* configs, adapters and permits for liquidators and refreshers, and the   *)
(* accounts of the airspace copy the token configs into their positions.   *)
(* What an account does with its positions is the Margin module.           *)
(***************************************************************************)
EXTENDS Airspace

CONSTANTS
  PositionTokens,   \* mints of positions
  TokenUpdates,     \* by airspace, the configs its authority asks for: underlying mint,
                    \* admin, and terms (kind, modifier and staleness limit)
  AdapterPrograms,
  Legacy,           \* owners of accounts made before there were airspaces
  DEFAULT_AIRSPACE

Permissions == {"LIQUIDATE", "REFRESH_POSITION_CONFIG"}

ASSUME MarginConfigAssumption ==
  /\ DEFAULT_AIRSPACE \in Airspaces /\ Legacy \subseteq Members
  /\ DOMAIN TokenUpdates = Airspaces

VARIABLES
  tokens,      \* TokenConfig, by airspace and mint
  adapters,    \* AdapterConfig: airspace and program
  grants,      \* permissions of each margin Permit, by airspace and owner
  accounts     \* margin accounts by owner: airspace, and positions by mint

configVars == <<tokens, adapters, grants, accounts>>

InitConfig ==
  /\ tokens = << >> /\ adapters = {} /\ grants = << >>
  /\ accounts = [o \in Legacy |-> [airspace |-> Nobody, positions |-> << >>]]

-----------------------------------------------------------------------------
\* the underlying mint is kept for as long as the config exists, and has to be set
configure_token(s, a, m, update) ==
  /\ SignsFor(s, a)
  /\ update.underlying_mint # Nobody
  /\ <<a, m>> \in DOMAIN tokens => tokens[<<a, m>>].underlying_mint = update.underlying_mint
  /\ tokens' = Put(tokens, <<a, m>>, update)
  /\ UNCHANGED <<adapters, grants, accounts>>

close_token_config(s, a, m) ==
  /\ SignsFor(s, a)
  /\ tokens' = Drop(tokens, <<a, m>>)
  /\ UNCHANGED <<adapters, grants, accounts>>

configure_adapter(s, a, program, is_adapter) ==
  /\ SignsFor(s, a)
  /\ adapters' = IF is_adapter THEN adapters \cup {<<a, program>>} ELSE adapters \ {<<a, program>>}
  /\ UNCHANGED <<tokens, grants, accounts>>

\* a permit with no permission left is closed
configure_permit(s, a, owner, test, flag) ==
  /\ SignsFor(s, a)
  /\ LET old == IF <<a, owner>> \in DOMAIN grants THEN grants[<<a, owner>>] ELSE {}
         new == IF test THEN old \cup {flag} ELSE old \ {flag}
     IN  grants' = IF new = {} THEN Drop(grants, <<a, owner>>) ELSE Put(grants, <<a, owner>>, new)
  /\ UNCHANGED <<tokens, adapters, accounts>>

\* the account of an owner joins the airspace of the permit
create_account(owner, a) ==
  /\ <<a, owner>> \in DOMAIN permits
  /\ owner \notin DOMAIN accounts
  /\ accounts' = Put(accounts, owner, [airspace |-> a, positions |-> << >>])
  /\ UNCHANGED <<tokens, adapters, grants>>

close_account(owner) ==
  /\ owner \in DOMAIN accounts /\ accounts[owner].positions = << >>
  /\ accounts' = Drop(accounts, owner)
  /\ UNCHANGED <<tokens, adapters, grants>>

configure_account_airspace(owner) ==
  /\ owner \in DOMAIN accounts /\ accounts[owner].airspace = Nobody
  /\ accounts' = [accounts EXCEPT ![owner].airspace = DEFAULT_AIRSPACE]
  /\ UNCHANGED <<tokens, adapters, grants>>

\* Slip: a config of any airspace will do.
ConfigFits_any(owner, a) == TRUE

\* the config handed to the instruction is one of the account's airspace
ConfigFits(owner, a) == accounts[owner].airspace = a

register_position_handler(owner, a, m) ==
  /\ owner \in DOMAIN accounts /\ <<a, m>> \in DOMAIN tokens
  /\ ConfigFits(owner, a)
  /\ m \notin DOMAIN accounts[owner].positions
  /\ accounts' = [accounts EXCEPT ![owner].positions =
                   Put(@, m, [admin |-> tokens[<<a, m>>].admin, terms |-> tokens[<<a, m>>].terms])]
  /\ UNCHANGED <<tokens, adapters, grants>>

close_position_handler(owner, m) ==
  /\ owner \in DOMAIN accounts /\ m \in DOMAIN accounts[owner].positions
  /\ accounts' = [accounts EXCEPT ![owner].positions = Drop(@, m)]
  /\ UNCHANGED <<tokens, adapters, grants>>

\* the refresher's permit, with the permission asked for, is of the account's airspace
PermitIsValid(refresher, a, permission) ==
  <<a, refresher>> \in DOMAIN grants /\ permission \in grants[<<a, refresher>>]

\* the position's admin stays what it was when the position was registered
refresh_position_metadata(position, config) == [position EXCEPT !.terms = config.terms]

refresh_position_config(refresher, owner, a, m) ==
  /\ owner \in DOMAIN accounts /\ <<a, m>> \in DOMAIN tokens
  /\ ConfigFits(owner, a)
  /\ PermitIsValid(refresher, accounts[owner].airspace, "REFRESH_POSITION_CONFIG")
  /\ m \in DOMAIN accounts[owner].positions
  /\ accounts' = [accounts EXCEPT ![owner].positions[m] = refresh_position_metadata(@, tokens[<<a, m>>])]
  /\ UNCHANGED <<tokens, adapters, grants>>

ConfigNext ==
  \/ \E s \in Signers, a \in Airspaces :
       \/ \E m \in PositionTokens : \/ \E u \in TokenUpdates[a] : configure_token(s, a, m, u)
                                    \/ close_token_config(s, a, m)
       \/ \E p \in AdapterPrograms, is \in BOOLEAN : configure_adapter(s, a, p, is)
       \/ \E o \in Members, test \in BOOLEAN, f \in Permissions : configure_permit(s, a, o, test, f)
  \/ \E o \in Members :
       \/ close_account(o) \/ configure_account_airspace(o)
       \/ \E m \in PositionTokens : close_position_handler(o, m)
       \/ \E a \in Airspaces : \/ create_account(o, a)
                               \/ \E m \in PositionTokens : \/ register_position_handler(o, a, m)
                                                            \/ \E r \in Members : refresh_position_config(r, o, a, m)

=============================================================================
