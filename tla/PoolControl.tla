---------------------------- MODULE PoolControl ----------------------------
(***************************************************************************)
(* The control program (programs/control), which alone may create and      *)
(* configure margin pools and write the metadata program's entries         *)
(* (programs/metadata).  Each instruction changes several accounts of two  *)
(* other programs by CPI, with the signature of the control authority.     *)
(***************************************************************************)
EXTENDS Naturals, FiniteSets, AccountMaps

CONSTANTS
  Tokens, Oracles,
  NoOracle,        \* the default address: no oracle is given
  Configs,         \* MarginPoolConfig and TokenMetadataParams asked for
  Kinds            \* token kinds of the metadata program

ASSUME PoolControlAssumption == NoOracle \notin Oracles /\ "Claim" \in Kinds

VARIABLES
  authority,   \* the control authority exists
  pools,       \* by token: oracle and config of the pool
  entries      \* by token: the oracle entry, and kind and modifier of the two notes

controlVars == <<authority, pools, entries>>

InitControl == authority = FALSE /\ pools = << >> /\ entries = << >>

-----------------------------------------------------------------------------
create_authority ==
  /\ ~authority
  /\ authority' = TRUE
  /\ UNCHANGED <<pools, entries>>

\* of the default pool, its vault, mints and fee account
NewPool == [oracle |-> NoOracle, config |-> 0]

\* the entries of a token and of the two notes of its pool
NewEntries ==
  [pyth_price |-> NoOracle,
   deposit |-> [kind |-> "NonCollateral", modifier |-> 0],
   loan |-> [kind |-> "Claim", modifier |-> 0]]

\* the metadata program writes for the control authority only, and creates an entry once
create_entry(t) == authority /\ t \notin DOMAIN entries

\* what the entries of a token become
set_entry(t, e) == authority /\ entries' = Put(entries, t, e)

\* the pool and three metadata entries, or nothing
create_margin_pool(t) ==
  /\ t \notin DOMAIN pools
  /\ pools' = Put(pools, t, NewPool)
  /\ create_entry(t) /\ set_entry(t, NewEntries)
  /\ UNCHANGED authority

\* the pool's own instruction, which checks that the oracle quotes in USD
PoolConfigured(pool, price, config) ==
  [pool EXCEPT !.oracle = IF price # NoOracle THEN price ELSE @,
               !.config = IF config # 0 THEN config ELSE @]

\* Slip: the pool is only called when it gets a new config.
PoolCalled_config(price, config) == config # 0

PoolCalled(price, config) == price # NoOracle \/ config # 0

\* config 0 and params 0 stand for None
configure_margin_pool(t, price, config, kind, params) ==
  /\ t \in DOMAIN pools
  /\ pools' = IF PoolCalled(price, config)
                THEN [pools EXCEPT ![t] = PoolConfigured(@, price, config)] ELSE pools
  /\ set_entry(t,
       [entries[t] EXCEPT
          !.pyth_price = IF price # NoOracle THEN price ELSE @,
          !.deposit = IF params # 0 THEN [kind |-> kind, modifier |-> params] ELSE @,
          !.loan = IF params # 0 THEN [kind |-> "Claim", modifier |-> params] ELSE @])
  /\ UNCHANGED authority

ControlNext ==
  \/ create_authority
  \/ \E t \in Tokens :
       \/ create_margin_pool(t)
       \/ \E price \in Oracles \cup {NoOracle}, config \in Configs \cup {0},
             kind \in Kinds, params \in Configs \cup {0} :
            configure_margin_pool(t, price, config, kind, params)

-----------------------------------------------------------------------------
\* A pool values its notes with the oracle in its own account, refreshers look the oracle
\* up in the metadata (refresh/pool.rs:45), and the loan notes have to stay claims.  The
\* pool and its entries, written by several calls to two programs, agree after every
\* sequence of instructions, with any of their arguments left out
\* (configure_margin_pool.rs:135-217).
EntriesDescribePools ==
  /\ DOMAIN entries = DOMAIN pools
  /\ \A t \in DOMAIN pools :
       /\ entries[t].pyth_price = pools[t].oracle
       /\ entries[t].loan.kind = "Claim"

=============================================================================
