-------------------------- MODULE ComponentProofs --------------------------
(***************************************************************************)
(* The components that share no state, for every value of their constants. *)
(* Invocation: the marks in the margin accounts are exactly the margin     *)
(* frames inside adapter::invoke, so that verify_directly_invoked accepts  *)
(* exactly the direct callee, and no mark outlives its CPI.  Governance:   *)
(* airspaces stay separate, and the metadata describes the pools.  Swaps:  *)
(* only the input is spent, by no more than was asked for.  Order book     *)
(* model: the liquidity that the chart shows can be had, the book is kept  *)
(* in order, and what a simulation shows is what an order then does.       *)
(***************************************************************************)
EXTENDS Invocation, Governance, Swap, OrderbookModel, SumTheorems, SequenceTheorems

-----------------------------------------------------------------------------
(* Invocation of adapters *)

USE InvocationAssumption, NoAccountAssumption

\* The initial state satisfies the inductive invariant.
LEMMA MarksInvInit == Init => MarksInv
  BY DEF Init, MarksInv, TypeOK, OnlyCallersInvoke, MarksAreCallers,
         Programs, Heights, ReturnData, NoData

\* Pushing a frame keeps the call stack well formed.
LEMMA PushType ==
  ASSUME TypeOK, NEW p \in Programs, Push(p)
  PROVE  /\ height' = height + 1
         /\ height' \in 0 .. MaxHeight
         /\ program' \in [Heights -> Programs]
         /\ \A h \in 1 .. height : program'[h] = program[h]
         /\ return_data' \in ReturnData
  BY DEF TypeOK, Push, Heights, ReturnData, NoData, Programs

\* Every step of the margin program, an adapter or the runtime preserves the
\* inductive invariant.
LEMMA MarksInvStep == MarksInv /\ [Next]_vars => MarksInv'
<1> SUFFICES ASSUME MarksInv, [Next]_vars
             PROVE  MarksInv'
  OBVIOUS
<1> USE DEF MarksInv
<1>1. ASSUME NEW p \in Programs, TopLevel(p) \/ PlainCpi(p)
      PROVE  MarksInv'
  <2>1. Push(p) /\ UNCHANGED <<invoking, caller_heights, saved>>
    BY <1>1 DEF TopLevel, PlainCpi
  <2>2. TypeOK'
    BY <2>1, PushType DEF TypeOK
  <2>3. OnlyCallersInvoke'
    BY <2>1, PushType DEF OnlyCallersInvoke, TypeOK, Heights
  <2>4. MarksAreCallers'
    BY <2>1 DEF MarksAreCallers
  <2> QED BY <2>1, <2>2, <2>3, <2>4
<1>2. ASSUME NEW a \in Accounts, NEW p \in Adapters, Invoke(a, p)
      PROVE  MarksInv'
  <2> p \in Programs
    BY DEF Programs
  <2> height \in Heights /\ height \in 0 .. 7
    BY <1>2 DEF Invoke, Push, TypeOK, Heights
  <2>1. /\ Push(p)
        /\ program[height] = Margin
        /\ invoking' = [invoking EXCEPT ![height] = a]
        /\ caller_heights' =
             [caller_heights EXCEPT ![a] = caller_heights[a] \cup {height}]
        /\ saved' = saved
    BY <1>2 DEF Invoke, Start
  <2>2. invoking[height] = NoAccount
    BY DEF OnlyCallersInvoke, TypeOK, Heights
  <2>3. TypeOK'
    BY <2>1, PushType DEF TypeOK
  <2>4. OnlyCallersInvoke'
    <3> SUFFICES ASSUME NEW h \in Heights, invoking'[h] # NoAccount
                 PROVE  h < height' /\ program'[h] = Margin
      BY DEF OnlyCallersInvoke
    <3>1. CASE h = height
      BY <3>1, <2>1, PushType DEF TypeOK, Heights
    <3>2. CASE h # height
      <4>1. invoking[h] # NoAccount
        BY <3>2, <2>1 DEF TypeOK
      <4>2. h < height /\ program[h] = Margin
        BY <4>1 DEF OnlyCallersInvoke
      <4> QED BY <4>2, <2>1, PushType DEF TypeOK, Heights
    <3> QED BY <3>1, <3>2
  <2>5. MarksAreCallers'
    <3> SUFFICES ASSUME NEW b \in Accounts
                 PROVE  caller_heights'[b] = {h \in Heights : invoking'[h] = b}
      BY DEF MarksAreCallers
    <3>1. caller_heights[b] = {h \in Heights : invoking[h] = b}
      BY DEF MarksAreCallers
    <3>2. \A h \in Heights :
             invoking'[h] = IF h = height THEN a ELSE invoking[h]
      BY <2>1 DEF TypeOK
    <3>3. CASE b = a
      BY <3>1, <3>2, <3>3, <2>1, <2>2 DEF TypeOK
    <3>4. CASE b # a
      BY <3>1, <3>2, <3>4, <2>1, <2>2 DEF TypeOK
    <3> QED BY <3>3, <3>4
  <2> QED BY <2>1, <2>3, <2>4, <2>5
<1>3. ASSUME NEW a \in Accounts, WriteAdapterResult(a)
      PROVE  MarksInv'
  <2>1. TypeOK'
    BY <1>3 DEF WriteAdapterResult, TypeOK, Heights, ReturnData
  <2> QED
    BY <2>1, <1>3 DEF WriteAdapterResult, OnlyCallersInvoke, MarksAreCallers
<1>4. CASE Return
  <2>1. TypeOK'
    BY <1>4 DEF Return, TypeOK
  <2>2. OnlyCallersInvoke'
    <3> SUFFICES ASSUME NEW h \in Heights, invoking[h] # NoAccount
                 PROVE  h < height - 1 /\ program[h] = Margin
      BY <1>4 DEF Return, OnlyCallersInvoke
    <3>1. h < height /\ program[h] = Margin
      BY DEF OnlyCallersInvoke
    <3>2. h # height - 1
      BY <1>4, <3>1 DEF Return, CallerInvoking, TypeOK, Heights
    <3> QED BY <3>1, <3>2 DEF TypeOK, Heights
  <2> QED BY <2>1, <2>2, <1>4 DEF Return, MarksAreCallers
<1>5. CASE ReturnToInvoke
  <2> DEFINE c == height - 1
             b == invoking[c]
  <2>1. /\ height > 1 /\ c \in Heights
        /\ b \in Accounts
        /\ CallerInvoking = b
    BY <1>5 DEF ReturnToInvoke, CallerInvoking, TypeOK, Heights
  <2>2. /\ height' = c
        /\ invoking' = [invoking EXCEPT ![c] = NoAccount]
        /\ caller_heights' =
             [caller_heights EXCEPT ![b] = caller_heights[b] \ {c}]
        /\ UNCHANGED <<program, saved>>
        /\ return_data' = NoData
    BY <1>5, <2>1 DEF ReturnToInvoke, End
  <2>3. TypeOK'
    BY <2>1, <2>2 DEF TypeOK, ReturnData, NoData, Programs, Heights
  <2>4. OnlyCallersInvoke'
    <3> SUFFICES ASSUME NEW h \in Heights, invoking'[h] # NoAccount
                 PROVE  h < c /\ program[h] = Margin
      BY <2>2 DEF OnlyCallersInvoke
    <3>1. h # c /\ invoking[h] # NoAccount
      BY <2>1, <2>2 DEF TypeOK
    <3>2. h < height /\ program[h] = Margin
      BY <3>1 DEF OnlyCallersInvoke
    <3> QED BY <3>1, <3>2 DEF TypeOK, Heights
  <2>5. MarksAreCallers'
    <3> SUFFICES ASSUME NEW a \in Accounts
                 PROVE  caller_heights'[a] = {h \in Heights : invoking'[h] = a}
      BY DEF MarksAreCallers
    <3>1. caller_heights[a] = {h \in Heights : invoking[h] = a}
      BY DEF MarksAreCallers
    <3>2. \A h \in Heights :
             invoking'[h] = IF h = c THEN NoAccount ELSE invoking[h]
      BY <2>1, <2>2 DEF TypeOK
    <3> a # NoAccount
      OBVIOUS
    <3> HIDE DEF c
    <3>3. CASE a = b
      BY <3>1, <3>2, <3>3, <2>1, <2>2 DEF TypeOK
    <3>4. CASE a # b
      BY <3>1, <3>2, <3>4, <2>1, <2>2 DEF TypeOK
    <3> QED BY <3>3, <3>4
  <2> QED BY <2>2, <2>3, <2>4, <2>5
<1>6. CASE Commit
  <2>1. \A a \in Accounts : caller_heights[a] = {}
    BY <1>6 DEF Commit, MarksAreCallers, OnlyCallersInvoke, Heights
  <2>2. TypeOK'
    BY <1>6 DEF Commit, TypeOK, ReturnData, NoData, Programs
  <2> QED
    BY <2>1, <2>2, <1>6 DEF Commit, OnlyCallersInvoke, MarksAreCallers
<1>7. CASE Abort
  <2>1. TypeOK'
    BY <1>7 DEF Abort, TypeOK, ReturnData, NoData, Programs
  <2> QED
    BY <2>1, <1>7 DEF Abort, OnlyCallersInvoke, MarksAreCallers, TypeOK
<1>8. CASE UNCHANGED vars
  BY <1>8 DEF vars, TypeOK, OnlyCallersInvoke, MarksAreCallers
<1> QED
  BY <1>1, <1>2, <1>3, <1>4, <1>5, <1>6, <1>7, <1>8 DEF Next

\* The marks in the accounts mirror the call stack at all times.
THEOREM MarksAlways == Spec => []MarksInv
  BY MarksInvInit, MarksInvStep, PTL DEF Spec

\* The state keeps its types: no height ever falls outside the bit set.
THEOREM InvocationTypeOK == Spec => []TypeOK
<1>1. MarksInv => TypeOK
  BY DEF MarksInv
<1> QED BY <1>1, MarksAlways, PTL

\* verify_directly_invoked accepts exactly in the frame that the margin
\* program called from adapter::invoke for that account.
THEOREM DirectInvocation == Spec => []DirectlyInvokedIsExact
<1>1. MarksInv => DirectlyInvokedIsExact
  <2> SUFFICES ASSUME MarksInv, NEW a \in Accounts
               PROVE  DirectlyInvoked(a, height) <=>
                        /\ height > 1
                        /\ program[height - 1] = Margin
                        /\ invoking[height - 1] = a
    BY DEF DirectlyInvokedIsExact
  <2> USE DEF MarksInv
  <2>1. \A n : n \in caller_heights[a] <=> n \in Heights /\ invoking[n] = a
    BY DEF MarksAreCallers
  <2>2. \A n \in Heights : invoking[n] = a => program[n] = Margin
    BY DEF OnlyCallersInvoke
  <2> QED
    BY <2>1, <2>2 DEF DirectlyInvoked, TypeOK, Heights
<1> QED BY <1>1, MarksAlways, PTL

\* Between instructions, and in what a transaction commits, the marks of
\* every account are empty.
THEOREM MarksZeroed == Spec => []ZeroedOutsideInvocation
<1>1. MarksInv => ZeroedOutsideInvocation
  BY DEF MarksInv, ZeroedOutsideInvocation, MarksAreCallers,
         OnlyCallersInvoke, Heights
<1> QED BY <1>1, MarksAlways, PTL

\* Pending return data stays with the invocation it was written for: every
\* CPI clears it, and the frame that wrote it can only return into invoke().
LEMMA DataIsPendingStep ==
  ASSUME MarksInv, MarksInv', DataIsPending, [Next]_vars
  PROVE  DataIsPending'
<1> USE DEF MarksInv, DataIsPending
<1>1. ASSUME NEW p \in Programs, TopLevel(p) \/ PlainCpi(p)
      PROVE  DataIsPending'
  BY <1>1 DEF TopLevel, PlainCpi, Push, NoData
<1>2. ASSUME NEW a \in Accounts, NEW p \in Adapters, Invoke(a, p)
      PROVE  DataIsPending'
  BY <1>2 DEF Invoke, Push, NoData
<1>3. ASSUME NEW a \in Accounts, WriteAdapterResult(a)
      PROVE  DataIsPending'
  <2>1. height - 1 \in caller_heights[a]
    BY <1>3 DEF WriteAdapterResult, DirectlyInvoked
  <2>2. height - 1 \in Heights /\ invoking[height - 1] = a
    BY <2>1 DEF MarksAreCallers
  <2>3. height > 1
    BY <2>2 DEF TypeOK, Heights
  <2> QED
    BY <1>3, <2>2, <2>3 DEF WriteAdapterResult, CallerInvoking
<1>4. CASE Return
  BY <1>4 DEF Return
<1>5. CASE ReturnToInvoke \/ Commit \/ Abort
  BY <1>5 DEF ReturnToInvoke, Commit, Abort, NoData
<1>6. CASE UNCHANGED vars
  BY <1>6 DEF vars, CallerInvoking
<1> QED
  BY <1>1, <1>2, <1>3, <1>4, <1>5, <1>6 DEF Next

\* A result that invoke() applies was written for the account it invokes for:
\* handle_adapter_result never credits one account's result to another.
THEOREM ResultsReachTheirAccount == Spec => ResultReachesItsAccount
<1>1. Init => DataIsPending
  BY DEF Init, DataIsPending, NoData
<1>2. MarksInv /\ MarksInv' /\ DataIsPending /\ [Next]_vars => DataIsPending'
  BY DataIsPendingStep
<1>3. DataIsPending => [ReturnToInvoke /\ ResultTaken =>
                          return_data.for = CallerInvoking]_vars
  BY DEF DataIsPending, ResultTaken
<1> QED BY <1>1, <1>2, <1>3, MarksAlways, PTL DEF Spec, ResultReachesItsAccount

HIDE NoAccountAssumption
HIDE InvocationAssumption

-----------------------------------------------------------------------------
(* Token configs and the positions that copy them *)

Admins(a) == {u.admin : u \in TokenUpdates[a]}
Terms(a) == {u.terms : u \in TokenUpdates[a]}

\* positions with settings of airspace a
PositionsOf(a) == [admin : Admins(a), terms : Terms(a)]

\* A token config has settings that the authority of its airspace asked for.
ConfigsAreOwn ==
  \A a, m : <<a, m>> \in DOMAIN tokens => a \in Airspaces /\ tokens[<<a, m>>] \in TokenUpdates[a]

\* an account of airspace a with positions ps; one made before there were airspaces has none
IsAccount(acc) ==
  /\ DOMAIN acc = {"airspace", "positions"}
  /\ acc.positions \in [DOMAIN acc.positions -> PositionsOf(acc.airspace)]
  /\ acc.airspace \in Airspaces \/ DOMAIN acc.positions = {}

AccountsAreOwn == \A o \in DOMAIN accounts : IsAccount(accounts[o])

\* A crank is authorized for a market that exists, by the market's airspace.
CranksAreOwn ==
  /\ \A m \in DOMAIN markets : "airspace" \in DOMAIN markets[m]
  /\ \A k \in DOMAIN cranks : k[1] \in DOMAIN markets /\ cranks[k] = markets[k[1]].airspace

\* Initially there is nothing to keep apart.
LEMMA SeparateInit ==
  InitGovernance \/ InitCreated => ConfigsAreOwn /\ AccountsAreOwn /\ CranksAreOwn
<1> SUFFICES ASSUME InitGovernance \/ InitCreated
             PROVE  ConfigsAreOwn /\ AccountsAreOwn /\ CranksAreOwn
  OBVIOUS
<1>1. InitConfig /\ InitMarkets
  BY DEF InitGovernance, InitCreated
<1>2. DOMAIN << >> = {}
  OBVIOUS
<1>3. ConfigsAreOwn /\ CranksAreOwn
  BY <1>1, <1>2 DEF InitConfig, InitMarkets, ConfigsAreOwn, CranksAreOwn
<1>4. IsAccount([airspace |-> Nobody, positions |-> << >>])
  BY <1>2 DEF IsAccount
<1>5. AccountsAreOwn
  BY <1>1, <1>4 DEF InitConfig, AccountsAreOwn
<1> QED BY <1>3, <1>5

\* The instructions that write token configs.
LEMMA ConfigsStep ==
  ASSUME ConfigsAreOwn, ConfigNext
  PROVE  ConfigsAreOwn'
<1>1. ASSUME NEW s \in Signers, NEW a \in Airspaces, NEW m \in PositionTokens,
             NEW u \in TokenUpdates[a], configure_token(s, a, m, u)
      PROVE  ConfigsAreOwn'
  <2>1. tokens' = Put(tokens, <<a, m>>, u)
    BY <1>1 DEF configure_token
  <2>2. ASSUME NEW b, NEW n, <<b, n>> \in DOMAIN tokens'
        PROVE  b \in Airspaces /\ tokens'[<<b, n>>] \in TokenUpdates[b]
    <3>1. CASE <<b, n>> = <<a, m>>
      <4>1. b = a /\ tokens'[<<b, n>>] = u
        BY <2>1, <3>1 DEF Put
      <4> QED BY <4>1
    <3>2. CASE <<b, n>> # <<a, m>>
      <4>1. <<b, n>> \in DOMAIN tokens /\ tokens'[<<b, n>>] = tokens[<<b, n>>]
        BY <2>1, <2>2, <3>2 DEF Put
      <4> QED BY <4>1 DEF ConfigsAreOwn
    <3> QED BY <3>1, <3>2
  <2> QED BY <2>2 DEF ConfigsAreOwn
<1>2. ASSUME NEW s \in Signers, NEW a \in Airspaces, NEW m \in PositionTokens,
             close_token_config(s, a, m)
      PROVE  ConfigsAreOwn'
  <2>1. tokens' = Drop(tokens, <<a, m>>)
    BY <1>2 DEF close_token_config
  <2> QED BY <2>1 DEF ConfigsAreOwn, Drop
<1>3. CASE tokens' = tokens
  BY <1>3 DEF ConfigsAreOwn
<1> QED BY <1>1, <1>2, <1>3, ZenonT(40)
        DEF ConfigNext, configure_adapter, configure_permit, close_account,
            configure_account_airspace, close_position_handler, create_account,
            register_position_handler, refresh_position_config

\* One account changes, or is created or closed.
LEMMA OneAccount ==
  ASSUME AccountsAreOwn, NEW o,
         \/ \E acc : IsAccount(acc) /\ accounts' = Put(accounts, o, acc)
         \/ \E acc : IsAccount(acc) /\ accounts' = [accounts EXCEPT ![o] = acc]
         \/ accounts' = Drop(accounts, o)
  PROVE  AccountsAreOwn'
<1>1. ASSUME NEW x \in DOMAIN accounts' PROVE IsAccount(accounts'[x])
  BY DEF AccountsAreOwn, Put, Drop
<1>2. AccountsAreOwn' <=> \A x \in DOMAIN accounts' : IsAccount(accounts'[x])
  BY DEF AccountsAreOwn, IsAccount
<1> QED BY <1>1, <1>2

\* The instructions that write margin accounts.
LEMMA AccountsStep ==
  ASSUME ConfigsAreOwn, AccountsAreOwn, ConfigNext
  PROVE  AccountsAreOwn'
<1>0. ASSUME NEW o \in DOMAIN accounts
      PROVE  /\ DOMAIN accounts[o] = {"airspace", "positions"}
             /\ accounts[o].positions \in
                  [DOMAIN accounts[o].positions -> PositionsOf(accounts[o].airspace)]
             /\ accounts[o].airspace \in Airspaces \/ DOMAIN accounts[o].positions = {}
  BY DEF AccountsAreOwn, IsAccount
<1>1. ASSUME NEW o, NEW a \in Airspaces, create_account(o, a)
      PROVE  AccountsAreOwn'
  <2> DEFINE acc == [airspace |-> a, positions |-> << >>]
  <2>1. IsAccount(acc)
    <3>1. DOMAIN << >> = {}
      OBVIOUS
    <3> QED BY <3>1 DEF IsAccount
  <2>2. accounts' = Put(accounts, o, acc)
    BY <1>1 DEF create_account
  <2> HIDE DEF acc
  <2> QED BY <2>1, <2>2, OneAccount
<1>2. ASSUME NEW o, close_account(o)
      PROVE  AccountsAreOwn'
  BY <1>2, OneAccount DEF close_account
<1>3. ASSUME NEW o, configure_account_airspace(o)
      PROVE  AccountsAreOwn'
  <2> DEFINE acc == [accounts[o] EXCEPT !.airspace = DEFAULT_AIRSPACE]
  <2>1. o \in DOMAIN accounts /\ accounts[o].airspace = Nobody /\ accounts' = [accounts EXCEPT ![o] = acc]
    BY <1>3 DEF configure_account_airspace
  <2>2. DOMAIN accounts[o].positions = {}
    BY <1>0, <2>1, AirspaceAssumption
  <2>3. /\ DOMAIN acc = {"airspace", "positions"} /\ acc.positions = accounts[o].positions
        /\ acc.airspace = DEFAULT_AIRSPACE
    BY <1>0, <2>1
  <2>4. acc.positions \in [DOMAIN acc.positions -> PositionsOf(acc.airspace)]
    BY <1>0, <2>1, <2>2, <2>3
  <2>5. IsAccount(acc)
    BY <2>2, <2>3, <2>4, MarginConfigAssumption DEF IsAccount
  <2> HIDE DEF acc
  <2> QED BY <2>1, <2>5, OneAccount
<1>4. ASSUME NEW o, NEW m, close_position_handler(o, m)
      PROVE  AccountsAreOwn'
  <2> DEFINE ps == Drop(accounts[o].positions, m)
             acc == [accounts[o] EXCEPT !.positions = ps]
  <2>1. o \in DOMAIN accounts /\ accounts' = [accounts EXCEPT ![o] = acc]
        /\ m \in DOMAIN accounts[o].positions
    BY <1>4 DEF close_position_handler
  <2>2. ps \in [DOMAIN ps -> PositionsOf(accounts[o].airspace)]
    BY <1>0, <2>1 DEF Drop
  <2> HIDE DEF ps
  <2>3. /\ DOMAIN acc = {"airspace", "positions"} /\ acc.positions = ps
        /\ acc.airspace = accounts[o].airspace
    BY <1>0, <2>1
  <2>4. accounts[o].airspace \in Airspaces
    BY <1>0, <2>1
  <2>5. IsAccount(acc)
    BY <2>2, <2>3, <2>4 DEF IsAccount
  <2> HIDE DEF acc
  <2> QED BY <2>1, <2>5, OneAccount
<1>5. ASSUME NEW o, NEW a, NEW m, register_position_handler(o, a, m)
      PROVE  AccountsAreOwn'
  <2> DEFINE p == [admin |-> tokens[<<a, m>>].admin, terms |-> tokens[<<a, m>>].terms]
             ps == Put(accounts[o].positions, m, p)
             acc == [accounts[o] EXCEPT !.positions = ps]
  <2>1. o \in DOMAIN accounts /\ accounts' = [accounts EXCEPT ![o] = acc]
        /\ <<a, m>> \in DOMAIN tokens /\ accounts[o].airspace = a
    BY <1>5 DEF register_position_handler, ConfigFits
  <2>2. a \in Airspaces /\ p \in PositionsOf(a)
    BY <2>1 DEF ConfigsAreOwn, PositionsOf, Admins, Terms
  <2> HIDE DEF p
  <2>3. ps \in [DOMAIN ps -> PositionsOf(a)]
    BY <1>0, <2>1, <2>2 DEF Put
  <2> HIDE DEF ps
  <2>4. /\ DOMAIN acc = {"airspace", "positions"} /\ acc.positions = ps /\ acc.airspace = a
    BY <1>0, <2>1
  <2>5. IsAccount(acc)
    BY <2>2, <2>3, <2>4 DEF IsAccount
  <2> HIDE DEF acc
  <2> QED BY <2>1, <2>5, OneAccount
<1>6. ASSUME NEW r, NEW o, NEW a, NEW m, refresh_position_config(r, o, a, m)
      PROVE  AccountsAreOwn'
  <2> DEFINE q == accounts[o].positions[m]
             p == [q EXCEPT !.terms = tokens[<<a, m>>].terms]
             ps == [accounts[o].positions EXCEPT ![m] = p]
             acc == [accounts[o] EXCEPT !.positions = ps]
  <2>1. o \in DOMAIN accounts /\ accounts' = [accounts EXCEPT ![o] = acc]
        /\ <<a, m>> \in DOMAIN tokens /\ accounts[o].airspace = a
        /\ m \in DOMAIN accounts[o].positions
    BY <1>6 DEF refresh_position_config, ConfigFits, refresh_position_metadata
  <2>2. a \in Airspaces /\ tokens[<<a, m>>].terms \in Terms(a)
    BY <2>1 DEF ConfigsAreOwn, Terms
  <2>3. q \in PositionsOf(a)
    BY <1>0, <2>1
  <2>4. p \in PositionsOf(a)
    BY <2>2, <2>3 DEF PositionsOf
  <2> HIDE DEF p, q
  <2>5. ps \in [DOMAIN ps -> PositionsOf(a)]
    BY <1>0, <2>1, <2>4
  <2> HIDE DEF ps
  <2>6. /\ DOMAIN acc = {"airspace", "positions"} /\ acc.positions = ps /\ acc.airspace = a
    BY <1>0, <2>1
  <2>7. IsAccount(acc)
    BY <2>2, <2>5, <2>6 DEF IsAccount
  <2> HIDE DEF acc
  <2> QED BY <2>1, <2>7, OneAccount
<1>7. CASE accounts' = accounts
  BY <1>7 DEF AccountsAreOwn, IsAccount
<1> QED BY <1>1, <1>2, <1>3, <1>4, <1>5, <1>6, <1>7, ZenonT(40)
        DEF ConfigNext, configure_token, close_token_config, configure_adapter, configure_permit

\* The instructions on markets and cranks.
LEMMA CranksStep ==
  ASSUME CranksAreOwn, MarketNext
  PROVE  CranksAreOwn'
<1>1. ASSUME NEW m \in DOMAIN markets, NEW mk, markets' = [markets EXCEPT ![m] = mk], cranks' = cranks,
             "airspace" \in DOMAIN mk, mk.airspace = markets[m].airspace
      PROVE  CranksAreOwn'
  BY <1>1 DEF CranksAreOwn
<1>2. ASSUME NEW a, NEW m, m \notin DOMAIN markets, markets' = Put(markets, m, NewMarket(a)), cranks' = cranks
      PROVE  CranksAreOwn'
  <2>1. "airspace" \in DOMAIN NewMarket(a)
    BY DEF NewMarket
  <2>2. /\ DOMAIN markets' = DOMAIN markets \cup {m} /\ markets'[m] = NewMarket(a)
        /\ \A n \in DOMAIN markets : markets'[n] = markets[n]
    BY <1>2 DEF Put
  <2> QED BY <1>2, <2>1, <2>2 DEF CranksAreOwn
<1>3. ASSUME NEW a, NEW m, NEW c, m \in DOMAIN markets, markets[m].airspace = a,
             cranks' = Put(cranks, <<m, c>>, a), markets' = markets
      PROVE  CranksAreOwn'
  <2>1. ASSUME NEW k \in DOMAIN cranks'
        PROVE  k[1] \in DOMAIN markets /\ cranks'[k] = markets[k[1]].airspace
    <3>1. CASE k = <<m, c>>
      <4>1. k[1] = m /\ cranks'[k] = a
        BY <1>3, <3>1 DEF Put
      <4> QED BY <1>3, <4>1
    <3>2. CASE k # <<m, c>>
      <4>1. k \in DOMAIN cranks /\ cranks'[k] = cranks[k]
        BY <1>3, <2>1, <3>2 DEF Put
      <4> QED BY <4>1 DEF CranksAreOwn
    <3> QED BY <3>1, <3>2
  <2> QED BY <1>3, <2>1 DEF CranksAreOwn
<1>4. ASSUME NEW m, NEW c, cranks' = Drop(cranks, <<m, c>>), markets' = markets
      PROVE  CranksAreOwn'
  BY <1>4 DEF CranksAreOwn, Drop
<1>5. ASSUME NEW m \in DOMAIN markets
      PROVE  "airspace" \in DOMAIN markets[m]
  BY DEF CranksAreOwn
<1>6. ASSUME NEW s \in Signers, NEW a \in Airspaces, NEW m \in Markets
      PROVE  /\ initialize_market(s, a, m) => CranksAreOwn'
             /\ initialize_orderbook(s, a, m) => CranksAreOwn'
             /\ pause_order_matching(s, a, m) => CranksAreOwn'
             /\ resume_order_matching(s, a, m) => CranksAreOwn'
             /\ \A c \in Cranks : authorize_crank(s, a, m, c) \/ revoke_crank(s, a, m, c) => CranksAreOwn'
  <2>1. initialize_market(s, a, m) => CranksAreOwn'
    BY <1>2 DEF initialize_market
  <2>2. ASSUME initialize_orderbook(s, a, m) PROVE CranksAreOwn'
    <3> DEFINE mk == [markets[m] EXCEPT !.orderbook = TRUE]
    <3>1. m \in DOMAIN markets /\ markets' = [markets EXCEPT ![m] = mk] /\ cranks' = cranks
      BY <2>2 DEF initialize_orderbook, MarketOf
    <3>2. "airspace" \in DOMAIN mk /\ mk.airspace = markets[m].airspace
      BY <1>5, <3>1
    <3> HIDE DEF mk
    <3> QED BY <1>1, <3>1, <3>2
  <2>3. ASSUME pause_order_matching(s, a, m) PROVE CranksAreOwn'
    <3> DEFINE mk == [markets[m] EXCEPT !.paused = TRUE]
    <3>1. m \in DOMAIN markets /\ markets' = [markets EXCEPT ![m] = mk] /\ cranks' = cranks
      BY <2>3 DEF pause_order_matching, MarketOf
    <3>2. "airspace" \in DOMAIN mk /\ mk.airspace = markets[m].airspace
      BY <1>5, <3>1
    <3> HIDE DEF mk
    <3> QED BY <1>1, <3>1, <3>2
  <2>4. ASSUME resume_order_matching(s, a, m) PROVE CranksAreOwn'
    <3>0. PICK done \in BOOLEAN : markets' = [markets EXCEPT ![m].paused = ~done]
      BY <2>4 DEF resume_order_matching
    <3> DEFINE mk == [markets[m] EXCEPT !.paused = ~done]
    <3>1. m \in DOMAIN markets /\ markets' = [markets EXCEPT ![m] = mk] /\ cranks' = cranks
      BY <2>4, <3>0 DEF resume_order_matching, MarketOf
    <3>2. "airspace" \in DOMAIN mk /\ mk.airspace = markets[m].airspace
      BY <1>5, <3>1
    <3> HIDE DEF mk
    <3> QED BY <1>1, <3>1, <3>2
  <2>5. ASSUME NEW c \in Cranks, authorize_crank(s, a, m, c) PROVE CranksAreOwn'
    BY <1>3, <2>5 DEF authorize_crank, MarketOf
  <2>6. ASSUME NEW c \in Cranks, revoke_crank(s, a, m, c) PROVE CranksAreOwn'
    BY <1>4, <2>6 DEF revoke_crank
  <2> QED BY <2>1, <2>2, <2>3, <2>4, <2>5, <2>6
<1>7. ASSUME NEW m \in Markets, withdraw_fees(m) \/ FeePaid(m)
      PROVE  CranksAreOwn'
  <2>0. PICK n : /\ m \in DOMAIN markets /\ cranks' = cranks
                 /\ markets' = [markets EXCEPT ![m].fees = n]
    BY <1>7 DEF withdraw_fees, FeePaid
  <2> DEFINE mk == [markets[m] EXCEPT !.fees = n]
  <2>1. m \in DOMAIN markets /\ markets' = [markets EXCEPT ![m] = mk] /\ cranks' = cranks
    BY <2>0
  <2>2. "airspace" \in DOMAIN mk /\ mk.airspace = markets[m].airspace
    BY <1>5, <2>1
  <2> HIDE DEF mk
  <2> QED BY <1>1, <2>1, <2>2
<1> QED BY <1>6, <1>7 DEF MarketNext

\* Settings and cranks never cross from one airspace to another.
THEOREM AirspacesAlwaysSeparate == GovernanceSpec => []AirspacesAreSeparate
<1> DEFINE Inv == ConfigsAreOwn /\ AccountsAreOwn /\ CranksAreOwn
           Step == AirspaceSide \/ ConfigSide \/ MarketSide \/ ControlSide
<1>1. InitGovernance \/ InitCreated => Inv
  BY SeparateInit
<1>2. Inv /\ [Step]_governanceVars => Inv'
  <2> SUFFICES ASSUME Inv, [Step]_governanceVars PROVE Inv'
    OBVIOUS
  <2>1. CASE ConfigNext /\ UNCHANGED marketVars
    <3>1. CranksAreOwn'
      BY <2>1 DEF marketVars, CranksAreOwn
    <3> QED BY <2>1, <3>1, ConfigsStep, AccountsStep
  <2>2. CASE MarketNext /\ UNCHANGED configVars
    <3>1. ConfigsAreOwn' /\ AccountsAreOwn'
      BY <2>2 DEF configVars, ConfigsAreOwn, AccountsAreOwn, IsAccount
    <3> QED BY <2>2, <3>1, CranksStep
  <2>3. CASE UNCHANGED <<configVars, marketVars>>
    BY <2>3 DEF configVars, marketVars, ConfigsAreOwn, AccountsAreOwn, IsAccount, CranksAreOwn
  <2> QED BY <2>1, <2>2, <2>3
          DEF AirspaceSide, ConfigSide, MarketSide, ControlSide, governanceVars
<1>3. Inv => AirspacesAreSeparate
  <2> SUFFICES ASSUME Inv PROVE AirspacesAreSeparate
    OBVIOUS
  <2>1. ASSUME NEW o \in DOMAIN accounts, NEW m \in DOMAIN accounts[o].positions
        PROVE  /\ accounts[o].airspace \in Airspaces
               /\ \E u \in TokenUpdates[accounts[o].airspace] : u.admin = accounts[o].positions[m].admin
               /\ \E u \in TokenUpdates[accounts[o].airspace] : u.terms = accounts[o].positions[m].terms
    <3>1. /\ accounts[o].airspace \in Airspaces
          /\ accounts[o].positions[m] \in PositionsOf(accounts[o].airspace)
      BY DEF AccountsAreOwn, IsAccount
    <3> QED BY <3>1 DEF PositionsOf, Admins, Terms
  <2> QED BY <2>1 DEF AirspacesAreSeparate, CranksAreOwn
<1> QED BY <1>1, <1>2, <1>3, PTL DEF GovernanceSpec

-----------------------------------------------------------------------------
(* Pools and metadata *)

PoolAccounts == [oracle : Oracles \cup {NoOracle}, config : Configs \cup {0}]
PoolEntries ==
  [pyth_price : Oracles \cup {NoOracle},
   deposit : [kind : Kinds \cup {"NonCollateral"}, modifier : Configs \cup {0}],
   loan : [kind : {"Claim"}, modifier : Configs \cup {0}]]

ControlInv ==
  /\ DOMAIN entries = DOMAIN pools
  /\ pools \in [DOMAIN pools -> PoolAccounts]
  /\ entries \in [DOMAIN pools -> PoolEntries]
  /\ \A t \in DOMAIN pools : entries[t].pyth_price = pools[t].oracle

\* A token's pool and entries are written together.
LEMMA PoolAndEntries ==
  ASSUME ControlInv, NEW t, NEW p \in PoolAccounts, NEW e \in PoolEntries, e.pyth_price = p.oracle,
         pools' = Put(pools, t, p), entries' = Put(entries, t, e)
  PROVE  ControlInv'
<1>1. DOMAIN pools' = DOMAIN pools \cup {t} /\ DOMAIN entries' = DOMAIN pools \cup {t}
  BY DEF Put, ControlInv
<1>2. /\ pools'[t] = p /\ entries'[t] = e
      /\ \A x \in DOMAIN pools \ {t} : pools'[x] = pools[x] /\ entries'[x] = entries[x]
  BY DEF Put, ControlInv
<1>3. pools' \in [DOMAIN pools' -> PoolAccounts] /\ entries' \in [DOMAIN pools' -> PoolEntries]
  BY <1>1 DEF Put, ControlInv
<1> QED BY <1>1, <1>2, <1>3 DEF ControlInv

\* The instructions of the control program.
LEMMA ControlStep ==
  ASSUME ControlInv, ControlNext
  PROVE  ControlInv'
<1>1. CASE create_authority
  BY <1>1 DEF create_authority, ControlInv
<1>2. ASSUME NEW t \in Tokens, create_margin_pool(t)
      PROVE  ControlInv'
  <2>1. pools' = Put(pools, t, NewPool) /\ entries' = Put(entries, t, NewEntries)
    BY <1>2 DEF create_margin_pool, set_entry
  <2>2. NewPool \in PoolAccounts /\ NewEntries \in PoolEntries /\ NewEntries.pyth_price = NewPool.oracle
    BY DEF NewPool, NewEntries, PoolAccounts, PoolEntries
  <2> QED BY <2>1, <2>2, PoolAndEntries
<1>3. ASSUME NEW t \in Tokens, NEW price \in Oracles \cup {NoOracle}, NEW config \in Configs \cup {0},
             NEW kind \in Kinds, NEW params \in Configs \cup {0},
             configure_margin_pool(t, price, config, kind, params)
      PROVE  ControlInv'
  <2> DEFINE q == pools[t]
             f == entries[t]
             p == [q EXCEPT !.oracle = IF price # NoOracle THEN price ELSE @,
                            !.config = IF config # 0 THEN config ELSE @]
             d == IF params # 0 THEN [kind |-> kind, modifier |-> params] ELSE f.deposit
             l == IF params # 0 THEN [kind |-> "Claim", modifier |-> params] ELSE f.loan
             o == IF price # NoOracle THEN price ELSE f.pyth_price
             e == [pyth_price |-> o, deposit |-> d, loan |-> l]
  <2>1. /\ t \in DOMAIN pools /\ q \in PoolAccounts /\ f \in PoolEntries /\ f.pyth_price = q.oracle
        /\ pools \in [DOMAIN pools -> PoolAccounts]
    BY <1>3 DEF configure_margin_pool, ControlInv
  <2>2. /\ pools' = IF price # NoOracle \/ config # 0 THEN [pools EXCEPT ![t] = p] ELSE pools
        /\ entries' = Put(entries, t,
             [f EXCEPT !.pyth_price = IF price # NoOracle THEN price ELSE @,
                       !.deposit = IF params # 0 THEN [kind |-> kind, modifier |-> params] ELSE @,
                       !.loan = IF params # 0 THEN [kind |-> "Claim", modifier |-> params] ELSE @])
    BY <1>3 DEF configure_margin_pool, set_entry, PoolCalled, PoolConfigured
  <2>3. [f EXCEPT !.pyth_price = IF price # NoOracle THEN price ELSE @,
                  !.deposit = IF params # 0 THEN [kind |-> kind, modifier |-> params] ELSE @,
                  !.loan = IF params # 0 THEN [kind |-> "Claim", modifier |-> params] ELSE @] = e
    <3> DEFINE f1 == [f EXCEPT !.pyth_price = o]
               f2 == [f1 EXCEPT !.deposit = d]
               f3 == [f2 EXCEPT !.loan = l]
    <3>1. [f EXCEPT !.pyth_price = IF price # NoOracle THEN price ELSE @,
                    !.deposit = IF params # 0 THEN [kind |-> kind, modifier |-> params] ELSE @,
                    !.loan = IF params # 0 THEN [kind |-> "Claim", modifier |-> params] ELSE @]
          = f3
      BY <2>1 DEF PoolEntries
    <3>2. f = [pyth_price |-> f.pyth_price, deposit |-> f.deposit, loan |-> f.loan]
      BY <2>1 DEF PoolEntries
    <3> HIDE DEF f, d, l, o
    <3>3. f1 = [pyth_price |-> o, deposit |-> f.deposit, loan |-> f.loan]
      BY <3>2
    <3> HIDE DEF f1
    <3>4. f2 = [pyth_price |-> o, deposit |-> d, loan |-> f.loan]
      BY <3>3
    <3> HIDE DEF f2
    <3>5. f3 = e
      BY <3>4
    <3> HIDE DEF e, f3
    <3> QED BY <3>1, <3>5, Zenon
  <2>4. entries' = Put(entries, t, e)
    BY <2>2, <2>3
  <2>5. p \in PoolAccounts /\ p.oracle = IF price # NoOracle THEN price ELSE q.oracle
    BY <2>1 DEF PoolAccounts
  <2>6. e \in PoolEntries /\ e.pyth_price = p.oracle
    <3>1. d \in [kind : Kinds \cup {"NonCollateral"}, modifier : Configs \cup {0}]
      BY <2>1 DEF PoolEntries
    <3>2. l \in [kind : {"Claim"}, modifier : Configs \cup {0}]
      BY <2>1 DEF PoolEntries
    <3>3. o \in Oracles \cup {NoOracle} /\ o = p.oracle
      BY <2>1, <2>5 DEF PoolEntries
    <3> HIDE DEF d, l, o, p
    <3> QED BY <3>1, <3>2, <3>3 DEF PoolEntries
  <2>7. pools' = Put(pools, t, p)
    <3>1. Put(pools, t, p) = [pools EXCEPT ![t] = p]
      BY <2>1 DEF Put
    <3>2. price = NoOracle /\ config = 0 => p = q
      BY <2>1 DEF PoolAccounts
    <3>3. [pools EXCEPT ![t] = q] = pools
      BY <2>1
    <3> HIDE DEF p
    <3> QED BY <2>2, <3>1, <3>2, <3>3
  <2> HIDE DEF p, e
  <2> QED BY <2>4, <2>5, <2>6, <2>7, PoolAndEntries
<1> QED BY <1>1, <1>2, <1>3 DEF ControlNext

\* Pools and metadata entries, written by calls to two programs, always agree.
THEOREM EntriesAlwaysDescribePools == GovernanceSpec => []EntriesDescribePools
<1> DEFINE Step == AirspaceSide \/ ConfigSide \/ MarketSide \/ ControlSide
<1>1. InitGovernance \/ InitCreated => ControlInv
  <2> SUFFICES ASSUME InitControl PROVE ControlInv
    BY DEF InitGovernance, InitCreated
  <2>1. DOMAIN << >> = {}
    OBVIOUS
  <2> QED BY <2>1 DEF InitControl, ControlInv
<1>2. ControlInv /\ [Step]_governanceVars => ControlInv'
  <2> SUFFICES ASSUME ControlInv, [Step]_governanceVars PROVE ControlInv'
    OBVIOUS
  <2>1. CASE UNCHANGED controlVars
    BY <2>1 DEF controlVars, ControlInv
  <2>2. CASE ControlNext
    BY <2>2, ControlStep
  <2> QED BY <2>1, <2>2 DEF AirspaceSide, ConfigSide, MarketSide, ControlSide, governanceVars
<1>3. ControlInv => EntriesDescribePools
  BY DEF ControlInv, EntriesDescribePools, PoolEntries
<1> QED BY <1>1, <1>2, <1>3, PTL DEF GovernanceSpec

-----------------------------------------------------------------------------
(* Swaps: what a venue takes *)

Funds == [SwapMints -> Nat]
SwapStates == [transit : Funds, src : SwapMints, amount : Nat]

\* A venue takes no more than it is offered.
LEMMA TakenBounded ==
  ASSUME NEW venue, NEW src, NEW amount \in Nat, NEW used \in Taken(venue, src, amount)
  PROVE  used \in Nat /\ used <= amount
<1>1. Taken(venue, src, amount) \subseteq 0 .. amount \cup openbook_swap(src, amount)
  BY DEF Taken, spl_swap, whirlpool_swap, saber_swap
<1>2. ASSUME used \in openbook_swap(src, amount), used \notin 0 .. amount
      PROVE  used \in Nat /\ used <= amount
  <2> DEFINE lots == amount \div BaseLotSize
  <2>1. PICK n \in 0 .. lots : used = n * BaseLotSize
    BY <1>2 DEF openbook_swap
  <2>2. BaseLotSize \in Nat \ {0}
    BY SwapAssumption
  <2>3. lots \in Nat /\ lots * BaseLotSize <= amount
    BY <2>2, DivBounds
  <2> HIDE DEF lots
  <2>4. n \in Nat /\ n <= lots
    BY <2>1, <2>3
  <2>5. n * BaseLotSize \in Nat /\ n * BaseLotSize <= lots * BaseLotSize /\ lots * BaseLotSize \in Nat
    BY <2>2, <2>3, <2>4, MulNat
  <2> QED BY <2>1, <2>3, <2>5
<1> QED BY <1>1, <1>2

\* t is what the transit account of m has to spend on the next leg
Offered(s, m) == IF m = s.src THEN s.amount ELSE 0

\* No transit account has less than W says when the next leg has spent its input.
Keeps(s, W) == \A m \in SwapMints : W[m] + Offered(s, m) <= s.transit[m]

\* the state after a half of a leg
Half(s, dst, used, out) == [s EXCEPT !.transit = Exchanged(@, s.src, used, dst, out)]

\* A half of a leg takes its amount from the input and nothing from another token.
LEMMA HalfKeeps ==
  ASSUME NEW s \in SwapStates, NEW venue, NEW dst \in SwapMints, NEW amount \in Nat,
         NEW h \in exec_swap_split(s, venue, dst, amount)
  PROVE  /\ h \in SwapStates /\ h.src = s.src /\ h.amount = s.amount
         /\ \A m \in SwapMints :
              s.transit[m] <= h.transit[m] + (IF m = s.src THEN amount ELSE 0)
<1> DEFINE U == Taken(venue, s.src, amount) \cap 0 .. s.transit[s.src]
           O == 0 .. MaxTokens
<1>1. PICK used \in U, out \in O : h = Half(s, dst, used, out)
  <2>1. exec_swap_split(s, venue, dst, amount) = {Half(s, dst, used, out) : used \in U, out \in O}
    BY DEF exec_swap_split, Half
  <2> HIDE DEF U, O
  <2> QED BY <2>1
<1>2. s.src \in SwapMints /\ s.transit \in [SwapMints -> Nat] /\ s.amount \in Nat
  BY DEF SwapStates, Funds
<1>3. used \in Nat /\ used <= amount /\ used <= s.transit[s.src]
  BY <1>2, TakenBounded
<1>4. out \in Nat
  BY SwapAssumption
<1> DEFINE spent == [s.transit EXCEPT ![s.src] = @ - used]
<1>5. spent \in [SwapMints -> Nat] /\ \A m \in SwapMints : s.transit[m] <= spent[m] + (IF m = s.src THEN amount ELSE 0)
  BY <1>2, <1>3
<1>6. /\ h.transit = [spent EXCEPT ![dst] = @ + out] /\ h.src = s.src /\ h.amount = s.amount
      /\ h = [transit |-> h.transit, src |-> h.src, amount |-> h.amount]
  <2> DEFINE x == Exchanged(s.transit, s.src, used, dst, out)
  <2>1. s = [transit |-> s.transit, src |-> s.src, amount |-> s.amount]
    BY DEF SwapStates
  <2>2. h = [s EXCEPT !.transit = x]
    BY <1>1 DEF Half
  <2>3. x = [spent EXCEPT ![dst] = @ + out]
    BY <1>2 DEF Exchanged
  <2> HIDE DEF x, spent
  <2> QED BY <2>1, <2>2, <2>3
<1> HIDE DEF spent
<1>7. h.transit \in [SwapMints -> Nat] /\ \A m \in SwapMints : spent[m] <= h.transit[m]
  BY <1>4, <1>5, <1>6
<1>8. h \in SwapStates
  BY <1>2, <1>6, <1>7 DEF SwapStates, Funds
<1>9. ASSUME NEW m \in SwapMints PROVE s.transit[m] <= h.transit[m] + (IF m = s.src THEN amount ELSE 0)
  BY <1>2, <1>5, <1>7
<1> QED BY <1>6, <1>8, <1>9

\* A leg keeps what its input and the other tokens had before it was withdrawn.
LEMMA LegKeeps ==
  ASSUME NEW s \in SwapStates, NEW d \in RouteDetail, IsSwap(d), ~IsRejected(d),
         NEW W \in [SwapMints -> Int], Keeps(s, W), NEW t \in exec_swap(s, d)
  PROVE  t \in SwapStates /\ Keeps(t, W)
<1> DEFINE dst == d.destination_mint
           first == IF d.split = 0 THEN s.amount ELSE (s.amount * d.split) \div 100
           second == s.amount - first
           done == {h \in exec_swap_split(s, d.route_a, dst, first) : h.transit[dst] <= MaxTokens}
           both == IF d.split = 0 THEN done
                   ELSE IF s.amount - first = 0 THEN {}
                   ELSE UNION {exec_swap_split(h, d.route_a, dst, s.amount - first) : h \in done}
           spent(m) == IF m = s.src THEN s.amount ELSE 0
<1>1. dst \in SwapMints /\ d.split \in Nat /\ s.amount \in Nat /\ s.src \in SwapMints
  BY DEF RouteDetail, SwapStates
<1>2. first \in Nat /\ first <= s.amount
  <2>1. CASE d.split = 0
    BY <1>1, <2>1
  <2>2. CASE d.split # 0
    <3>1. d.split <= 100 /\ 100 \in Nat
      BY <2>2 DEF IsRejected, IsSwap
    <3>2. s.amount * d.split \in Nat /\ s.amount * d.split <= s.amount * 100
      BY <1>1, <3>1, MulNat
    <3>3. first = (s.amount * d.split) \div 100
      BY <2>2
    <3>4. first \in Nat /\ first * 100 <= s.amount * d.split
      BY <3>2, <3>3, DivBounds
    <3> HIDE DEF first
    <3> QED BY <1>1, <3>2, <3>4
  <2> QED BY <2>1, <2>2
<1> HIDE DEF first
<1>3. second \in Nat /\ first + second = s.amount
  BY <1>1, <1>2
<1>4. PICK h \in both : /\ s.transit[dst] <= h.transit[dst]
                        /\ t = [h EXCEPT !.src = dst, !.amount = Gained(s.transit[dst], h.transit[dst])]
  BY DEF exec_swap, first
<1>5. ASSUME NEW a \in done
      PROVE  /\ a \in SwapStates /\ a.src = s.src
             /\ \A m \in SwapMints : s.transit[m] <= a.transit[m] + (IF m = s.src THEN first ELSE 0)
  <2>1. a \in exec_swap_split(s, d.route_a, dst, first)
    BY <1>5
  <2> HIDE DEF done, dst
  <2>2. first \in Nat /\ dst \in SwapMints
    BY <1>1, <1>2
  <2>3. /\ a \in SwapStates /\ a.src = s.src /\ a.amount = s.amount
        /\ \A m \in SwapMints : s.transit[m] <= a.transit[m] + (IF m = s.src THEN first ELSE 0)
    BY <2>1, <2>2, HalfKeeps
  <2> QED BY <2>3
<1>6. h \in SwapStates /\ \A m \in SwapMints : s.transit[m] <= h.transit[m] + spent(m)
  <2>1. CASE d.split = 0
    <3>1. first = s.amount /\ h \in done
      BY <2>1 DEF first
    <3> QED BY <1>5, <3>1
  <2>2. CASE d.split # 0
    <3>1. PICK a \in done : h \in exec_swap_split(a, d.route_a, dst, second)
      BY <2>2
    <3>2. /\ a \in SwapStates /\ a.src = s.src
          /\ \A m \in SwapMints : s.transit[m] <= a.transit[m] + (IF m = s.src THEN first ELSE 0)
      BY <1>5
    <3> HIDE DEF done, both, second
    <3>3. /\ h \in SwapStates
          /\ \A m \in SwapMints : a.transit[m] <= h.transit[m] + (IF m = s.src THEN second ELSE 0)
      BY <1>1, <1>3, <3>1, <3>2, HalfKeeps
    <3>4. \A m \in SwapMints : s.transit[m] \in Nat /\ a.transit[m] \in Nat /\ h.transit[m] \in Nat
      BY <3>2, <3>3 DEF SwapStates, Funds
    <3> QED BY <1>1, <1>2, <1>3, <3>2, <3>3, <3>4
  <2> QED BY <2>1, <2>2
<1> HIDE DEF done, both, second, spent
<1>7. s.transit \in [SwapMints -> Nat] /\ h.transit \in [SwapMints -> Nat]
  BY <1>6 DEF SwapStates, Funds
<1>8. t.transit = h.transit /\ t.src = dst /\ t.amount = h.transit[dst] - s.transit[dst]
      /\ t = [transit |-> t.transit, src |-> t.src, amount |-> t.amount]
  BY <1>4, <1>6 DEF SwapStates, Gained
<1>9. t \in SwapStates
  <2>1. t.amount \in Nat
    BY <1>1, <1>4, <1>7, <1>8
  <2> HIDE DEF dst
  <2> QED BY <1>1, <1>7, <1>8, <2>1 DEF SwapStates, Funds
<1>10. ASSUME NEW m \in SwapMints PROVE W[m] + Offered(t, m) <= t.transit[m]
  <2>1. W[m] + spent(m) <= s.transit[m] /\ spent(m) \in Nat
    BY <1>1 DEF Keeps, Offered, spent
  <2>2. s.transit[m] <= h.transit[m] + spent(m)
    BY <1>6
  <2>3. W[m] \in Int /\ s.transit[m] \in Nat /\ h.transit[m] \in Nat
    BY <1>7
  <2>4. W[m] <= s.transit[m] /\ W[m] <= h.transit[m]
    BY <2>1, <2>2, <2>3
  <2>5. CASE m = dst
    BY <1>8, <2>3, <2>4, <2>5 DEF Offered
  <2>6. CASE m # dst
    BY <1>8, <2>3, <2>4, <2>6 DEF Offered
  <2> QED BY <2>5, <2>6
<1> QED BY <1>9, <1>10 DEF Keeps

\* The legs that are executed are swaps that validate accepts.
LEMMA ValidSwaps ==
  ASSUME NEW routes \in SwapRoutes
  PROVE  /\ valid_swaps(routes) \in 0 .. 3
         /\ \A k \in 1 .. valid_swaps(routes) :
              routes[k] \in RouteDetail /\ IsSwap(routes[k]) /\ ~IsRejected(routes[k])
<1> DEFINE n == valid_swaps(routes)
<1>1. \A k \in 1 .. 3 : routes[k] \in RouteDetail
  BY SwapAssumption
<1>2. CASE \E k \in 1 .. 3 : IsRejected(routes[k])
  BY <1>2 DEF valid_swaps
<1>3. CASE ~\E k \in 1 .. 3 : IsRejected(routes[k])
  <2>1. /\ n \in 0 .. 3
        /\ n >= 1 => IsSwap(routes[1])
        /\ n >= 2 => IsSwap(routes[2])
        /\ n >= 3 => IsSwap(routes[3])
    BY <1>3 DEF valid_swaps
  <2> HIDE DEF n
  <2>2. \A k \in 1 .. n : k \in 1 .. 3 /\ IsSwap(routes[k])
    <3> SUFFICES ASSUME NEW k \in 1 .. n PROVE k \in 1 .. 3 /\ IsSwap(routes[k])
      OBVIOUS
    <3>1. k = 1 \/ k = 2 \/ k = 3
      BY <2>1
    <3> QED BY <2>1, <3>1
  <2> QED BY <1>1, <1>3, <2>1, <2>2 DEF n
<1> QED BY <1>2, <1>3

Legs(g, start, routes) ==
  g = [n \in 0 .. 3 |->
         IF n = 0 THEN {start} ELSE UNION {exec_swap(s, routes[n]) : s \in g[n - 1]}]

\* The states that keep W
Keeping(W) == {s \in SwapStates : Keeps(s, W)}

\* What one leg keeps, all legs keep.
LEMMA RoutesKeep ==
  ASSUME NEW start \in SwapStates, NEW routes \in SwapRoutes,
         NEW W \in [SwapMints -> Int], Keeps(start, W),
         NEW s \in exec_routes(start, routes)
  PROVE  s \in SwapStates /\ Keeps(s, W)
<1> DEFINE next(A, n) == UNION {exec_swap(x, routes[n]) : x \in A}
           A0 == {start}
           A1 == next(A0, 1)
           A2 == next(A1, 2)
           A3 == next(A2, 3)
           g == [n \in 0 .. 3 |-> IF n = 0 THEN A0 ELSE IF n = 1 THEN A1 ELSE IF n = 2 THEN A2 ELSE A3]
           h == CHOOSE f : Legs(f, start, routes)
           n == valid_swaps(routes)
           V == SUBSET Keeping(W)
<1>1. Legs(g, start, routes)
  <2> SUFFICES ASSUME NEW k \in 0 .. 3
               PROVE  g[k] = IF k = 0 THEN {start} ELSE UNION {exec_swap(x, routes[k]) : x \in g[k - 1]}
    BY DEF Legs
  <2>1. g[0] = A0 /\ g[1] = A1 /\ g[2] = A2 /\ g[3] = A3
    OBVIOUS
  <2> HIDE DEF g
  <2>2. k = 0 \/ k = 1 \/ k = 2 \/ k = 3
    OBVIOUS
  <2>3. CASE k = 0
    BY <2>1, <2>3
  <2>4. CASE k = 1
    BY <2>1, <2>4
  <2>5. CASE k = 2
    BY <2>1, <2>5
  <2>6. CASE k = 3
    BY <2>1, <2>6
  <2> QED BY <2>2, <2>3, <2>4, <2>5, <2>6
<1>2. Legs(h, start, routes)
  <2> HIDE DEF g
  <2> QED BY <1>1
<1>3. exec_routes(start, routes) = h[n]
  BY DEF exec_routes, Legs
<1> HIDE DEF h
<1>4. h[0] = {start} /\ \A k \in 1 .. 3 : h[k] = UNION {exec_swap(x, routes[k]) : x \in h[k - 1]}
  BY <1>2 DEF Legs
<1>5. h[0] \in V
  BY <1>4 DEF Keeping
<1>6. n \in 0 .. 3
  BY ValidSwaps
<1>7. ASSUME NEW k \in 1 .. n, h[k - 1] \in V PROVE h[k] \in V
  <2>1. routes[k] \in RouteDetail /\ IsSwap(routes[k]) /\ ~IsRejected(routes[k])
    BY ValidSwaps
  <2>2. h[k] = UNION {exec_swap(x, routes[k]) : x \in h[k - 1]}
    BY <1>4, <1>6
  <2>3. ASSUME NEW x \in h[k - 1], NEW t \in exec_swap(x, routes[k])
        PROVE  t \in Keeping(W)
    <3>1. x \in SwapStates /\ Keeps(x, W)
      BY <1>7 DEF Keeping
    <3> QED BY <2>1, <3>1, LegKeeps DEF Keeping
  <2> QED BY <2>2, <2>3
<1>8. h[n] \in V
  <2> HIDE DEF V, n
  <2>1. 0 \in Nat /\ n \in Nat /\ \A k \in 0 + 1 .. n : k \in 1 .. n
    BY <1>6
  <2>2. \A k \in 0 + 1 .. n : h[k - 1] \in V => h[k] \in V
    BY <1>7, <2>1
  <2>3. \A k \in 0 .. n : h[k] \in V
    BY <1>5, <2>1, <2>2, Along
  <2> QED BY <2>1, <2>3
<1> QED BY <1>3, <1>8 DEF Keeping

-----------------------------------------------------------------------------
(* Swaps: the instructions *)

SwapTyped == deposited_in \in Funds /\ transit \in Funds /\ collected \in Funds

\* what the account has of a token, in the pool and in transit
Own(m) == deposited_in[m] + transit[m]

\* src is spent, dst is gained, and the protocol gets fee of it.
Spends(src, dst, fee) ==
  /\ src \in SwapMints /\ dst \in SwapMints /\ fee \in Nat
  /\ \A m \in SwapMints \ {src} : Own(m)' >= Own(m)
  /\ Own(dst)' > Own(dst)
  /\ collected' = [collected EXCEPT ![dst] = @ + fee]
  /\ fee * 10000 <= LIQUIDATION_FEE * (Own(dst)' - Own(dst) + fee)
  /\ deposited_in' # deposited_in => \A m \in SwapMints : transit'[m] >= transit[m]

\* The fee leaves a part of the output, and is a share of it.
LEMMA FeeBounds ==
  ASSUME NEW out \in Nat, NEW liq \in BOOLEAN, NEW minimum \in Nat \ {0},
         OutputAccepted(out, liq, minimum)
  PROVE  /\ Fee(out, liq) \in Nat /\ out - Fee(out, liq) > 0
         /\ Fee(out, liq) * 10000 <= LIQUIDATION_FEE * out
<1> DEFINE fee == Fee(out, liq)
<1>1. LIQUIDATION_FEE \in Nat /\ out * LIQUIDATION_FEE \in Nat /\ LIQUIDATION_FEE * out \in Nat
      /\ out * LIQUIDATION_FEE = LIQUIDATION_FEE * out
  BY SwapAssumption
<1>2. fee \in Nat /\ fee * 10000 <= LIQUIDATION_FEE * out
  <2>1. CASE liq
    <3>1. fee = (out * LIQUIDATION_FEE) \div 10000
      BY <2>1 DEF Fee, liquidation_fee
    <3> HIDE DEF fee
    <3> QED BY <1>1, <3>1, DivBounds
  <2>2. CASE ~liq
    BY <1>1, <2>2 DEF Fee
  <2> QED BY <2>1, <2>2
<1>3. out - fee >= minimum
  BY DEF OutputAccepted
<1> HIDE DEF fee
<1> QED BY <1>2, <1>3 DEF fee

\* Tokens are withdrawn from a pool, swapped, and the output is deposited.
LEMMA RouteSwapPoolSpends ==
  ASSUME SwapTyped, NEW src \in SwapMints, NEW amount \in Nat \ {0}, NEW minimum \in Nat,
         NEW routes \in SwapRoutes, NEW liq \in BOOLEAN,
         route_swap_pool(src, amount, minimum, routes, liq)
  PROVE  SwapTyped' /\ \E dst, fee : Spends(src, dst, fee)
<1> DEFINE withdrawn == [transit EXCEPT ![src] = @ + amount]
           start == [transit |-> withdrawn, src |-> src, amount |-> amount]
<1>1. PICK s \in exec_routes(start, routes) :
        /\ withdrawn[s.src] <= s.transit[s.src]
        /\ LET out == Gained(withdrawn[s.src], s.transit[s.src])
               fee == Fee(out, liq)
           IN  /\ OutputAccepted(out, liq, minimum)
               /\ transit' = [s.transit EXCEPT ![s.src] = @ - out]
               /\ deposited_in' = RoutePools(src, s.src, amount, out - fee)
               /\ transfer_fee(s.src, fee)
  BY DEF route_swap_pool
<1>2. minimum \in Nat \ {0} /\ amount <= deposited_in[src]
  BY DEF route_swap_pool, CanWithdrawFrom
<1> DEFINE dst == s.src
           out == s.transit[dst] - withdrawn[dst]
           fee == Fee(out, liq)
<1>3. /\ transit \in [SwapMints -> Nat] /\ deposited_in \in [SwapMints -> Nat]
      /\ collected \in [SwapMints -> Nat]
  BY DEF SwapTyped, Funds
<1>4. /\ withdrawn \in [SwapMints -> Nat] /\ withdrawn[src] = transit[src] + amount
      /\ \A m \in SwapMints \ {src} : withdrawn[m] = transit[m]
  BY <1>3
<1>5. start \in SwapStates /\ Keeps(start, transit)
  <2> HIDE DEF withdrawn
  <2> QED BY <1>3, <1>4 DEF SwapStates, Funds, Keeps, Offered
<1>6. s \in SwapStates /\ Keeps(s, transit)
  <2>1. transit \in [SwapMints -> Int]
    BY <1>3
  <2> HIDE DEF start
  <2> QED BY <1>1, <1>5, <2>1, RoutesKeep
<1>7. /\ dst \in SwapMints /\ s.transit \in [SwapMints -> Nat]
      /\ \A m \in SwapMints : transit[m] <= s.transit[m]
  <2>1. dst \in SwapMints /\ s.transit \in [SwapMints -> Nat] /\ s.amount \in Nat
    BY <1>6 DEF SwapStates, Funds
  <2> QED BY <1>3, <1>6, <2>1 DEF Keeps, Offered
<1>8. out \in Nat
  BY <1>1, <1>4, <1>7
<1>9. /\ OutputAccepted(out, liq, minimum)
      /\ transit' = [s.transit EXCEPT ![dst] = @ - out]
      /\ deposited_in' = RoutePools(src, dst, amount, out - fee)
      /\ collected' = [collected EXCEPT ![dst] = @ + fee]
  BY <1>1 DEF Gained, transfer_fee
<1>10. fee \in Nat /\ out - fee > 0 /\ fee * 10000 <= LIQUIDATION_FEE * out
  <2> HIDE DEF out
  <2> QED BY <1>2, <1>8, <1>9, FeeBounds
<1>11. s.transit[dst] - out = withdrawn[dst]
  BY <1>4, <1>7
<1> HIDE DEF out, fee, withdrawn, start
<1>12. /\ transit' \in [SwapMints -> Nat] /\ transit'[dst] = withdrawn[dst]
       /\ \A m \in SwapMints \ {dst} : transit'[m] = s.transit[m]
  BY <1>4, <1>7, <1>9, <1>11
<1>13. /\ deposited_in' \in [SwapMints -> Nat]
       /\ \A m \in SwapMints \ {src, dst} : deposited_in'[m] = deposited_in[m]
       /\ dst # src => /\ deposited_in'[src] = deposited_in[src] - amount
                       /\ deposited_in'[dst] = deposited_in[dst] + (out - fee)
       /\ dst = src => deposited_in'[src] = deposited_in[src] - amount + (out - fee)
  <2>1. deposited_in' = RoutePools(src, dst, amount, out - fee)
    BY <1>9
  <2>2. deposited_in[src] - amount \in Nat /\ out - fee \in Nat
    BY <1>2, <1>3, <1>8, <1>10
  <2> DEFINE left == [deposited_in EXCEPT ![src] = @ - amount]
             k == out - fee
  <2>3. left \in [SwapMints -> Nat]
        /\ left[src] = deposited_in[src] - amount /\ \A m \in SwapMints \ {src} : left[m] = deposited_in[m]
    BY <1>3, <2>2
  <2>4. deposited_in' = [left EXCEPT ![dst] = @ + k] /\ k \in Nat
    BY <2>1, <2>2 DEF RoutePools
  <2>5. k = out - fee
    OBVIOUS
  <2> HIDE DEF left, k
  <2>6. deposited_in' \in [SwapMints -> Nat] /\ deposited_in'[dst] = left[dst] + k
        /\ \A m \in SwapMints \ {dst} : deposited_in'[m] = left[m]
    BY <1>7, <2>3, <2>4
  <2> QED BY <1>7, <2>3, <2>5, <2>6
<1>14. \A m \in SwapMints : transit'[m] >= transit[m]
  BY <1>3, <1>4, <1>7, <1>12
<1>15. Own(dst)' = Own(dst) + (out - fee)
  <2>1. CASE dst = src
    BY <1>2, <1>3, <1>4, <1>7, <1>8, <1>10, <1>12, <1>13, <2>1 DEF Own
  <2>2. CASE dst # src
    BY <1>2, <1>3, <1>4, <1>7, <1>8, <1>10, <1>12, <1>13, <2>2 DEF Own
  <2> QED BY <2>1, <2>2
<1>16. Own(dst)' > Own(dst) /\ fee * 10000 <= LIQUIDATION_FEE * (Own(dst)' - Own(dst) + fee)
  <2>1. Own(dst) \in Nat
    BY <1>3, <1>7 DEF Own
  <2>2. Own(dst)' - Own(dst) + fee = out /\ Own(dst)' > Own(dst)
    BY <1>8, <1>10, <1>15, <2>1
  <2> QED BY <1>10, <2>2
<1>17. \A m \in SwapMints \ {src} : Own(m)' >= Own(m)
  <2> SUFFICES ASSUME NEW m \in SwapMints \ {src} PROVE Own(m)' >= Own(m)
    OBVIOUS
  <2>1. CASE m = dst
    <3>1. Own(dst)' \in Int /\ Own(dst) \in Int
      BY <1>3, <1>7, <1>12, <1>13 DEF Own
    <3> QED BY <1>16, <2>1, <3>1
  <2>2. CASE m # dst
    BY <1>3, <1>12, <1>13, <1>14, <2>2 DEF Own
  <2> QED BY <2>1, <2>2
<1>18. collected' \in [SwapMints -> Nat]
  BY <1>3, <1>7, <1>9, <1>10
<1>19. SwapTyped'
  BY <1>12, <1>13, <1>18 DEF SwapTyped, Funds
<1>20. Spends(src, dst, fee)
  BY <1>7, <1>9, <1>10, <1>14, <1>16, <1>17 DEF Spends
<1> QED BY <1>19, <1>20

\* Tokens of a transit account are swapped.
LEMMA RouteSwapSpends ==
  ASSUME SwapTyped, NEW src \in SwapMints, NEW amount \in Nat \ {0}, NEW minimum \in Nat,
         NEW routes \in SwapRoutes, NEW liq \in BOOLEAN,
         route_swap(src, amount, minimum, routes, liq)
  PROVE  SwapTyped' /\ \E dst, fee : Spends(src, dst, fee)
<1> DEFINE start == [transit |-> transit, src |-> src, amount |-> amount]
           W == [m \in SwapMints |-> transit[m] - (IF m = src THEN amount ELSE 0)]
<1>1. PICK s \in exec_routes(start, routes) :
        /\ transit[s.src] <= s.transit[s.src]
        /\ LET out == Gained(transit[s.src], s.transit[s.src])
               fee == Fee(out, liq)
           IN  /\ OutputAccepted(out, liq, minimum)
               /\ transit' = [s.transit EXCEPT ![s.src] = @ - fee]
               /\ transfer_fee(s.src, fee)
  BY DEF route_swap
<1>2. minimum \in Nat \ {0} /\ deposited_in' = deposited_in
  BY DEF route_swap
<1> DEFINE dst == s.src
           out == s.transit[dst] - transit[dst]
           fee == Fee(out, liq)
<1>3. /\ transit \in [SwapMints -> Nat] /\ deposited_in \in [SwapMints -> Nat]
      /\ collected \in [SwapMints -> Nat]
  BY DEF SwapTyped, Funds
<1>4. /\ W \in [SwapMints -> Int] /\ W[src] = transit[src] - amount
      /\ \A m \in SwapMints \ {src} : W[m] = transit[m]
  BY <1>3
<1> HIDE DEF W
<1>5. start \in SwapStates /\ Keeps(start, W)
  BY <1>3, <1>4 DEF SwapStates, Funds, Keeps, Offered
<1>6. s \in SwapStates /\ Keeps(s, W)
  <2> HIDE DEF start
  <2> QED BY <1>1, <1>4, <1>5, RoutesKeep
<1>7. /\ dst \in SwapMints /\ s.transit \in [SwapMints -> Nat]
      /\ \A m \in SwapMints \ {src} : transit[m] <= s.transit[m]
  <2>1. dst \in SwapMints /\ s.transit \in [SwapMints -> Nat] /\ s.amount \in Nat
    BY <1>6 DEF SwapStates, Funds
  <2> QED BY <1>3, <1>4, <1>6, <2>1 DEF Keeps, Offered
<1>8. out \in Nat
  BY <1>1, <1>3, <1>7
<1>9. /\ OutputAccepted(out, liq, minimum)
      /\ transit' = [s.transit EXCEPT ![dst] = @ - fee]
      /\ collected' = [collected EXCEPT ![dst] = @ + fee]
  BY <1>1 DEF Gained, transfer_fee
<1>10. fee \in Nat /\ out - fee > 0 /\ fee * 10000 <= LIQUIDATION_FEE * out
  <2> HIDE DEF out
  <2> QED BY <1>2, <1>8, <1>9, FeeBounds
<1>11. s.transit[dst] = transit[dst] + out
  BY <1>3, <1>7
<1> HIDE DEF out, fee, start
<1>12. /\ transit' \in [SwapMints -> Nat] /\ transit'[dst] = transit[dst] + (out - fee)
       /\ \A m \in SwapMints \ {dst} : transit'[m] = s.transit[m]
  <2>1. s.transit[dst] - fee = transit[dst] + (out - fee) /\ s.transit[dst] - fee \in Nat
    BY <1>3, <1>7, <1>8, <1>10, <1>11
  <2> QED BY <1>7, <1>9, <2>1
<1>13. Own(dst)' = Own(dst) + (out - fee) /\ Own(dst) \in Nat
  BY <1>2, <1>3, <1>7, <1>8, <1>10, <1>12 DEF Own
<1>14. Own(dst)' > Own(dst) /\ fee * 10000 <= LIQUIDATION_FEE * (Own(dst)' - Own(dst) + fee)
  <2>1. Own(dst)' - Own(dst) + fee = out /\ Own(dst)' > Own(dst)
    BY <1>8, <1>10, <1>13
  <2> QED BY <1>10, <2>1
<1>15. \A m \in SwapMints \ {src} : Own(m)' >= Own(m)
  <2> SUFFICES ASSUME NEW m \in SwapMints \ {src} PROVE Own(m)' >= Own(m)
    OBVIOUS
  <2>1. CASE m = dst
    BY <1>8, <1>10, <1>13, <2>1
  <2>2. CASE m # dst
    BY <1>2, <1>3, <1>7, <1>12, <2>2 DEF Own
  <2> QED BY <2>1, <2>2
<1>16. collected' \in [SwapMints -> Nat]
  BY <1>3, <1>7, <1>9, <1>10
<1>17. SwapTyped'
  BY <1>2, <1>3, <1>12, <1>16 DEF SwapTyped, Funds
<1>18. Spends(src, dst, fee)
  BY <1>2, <1>7, <1>9, <1>10, <1>14, <1>15 DEF Spends
<1> QED BY <1>17, <1>18

\* A swap between two pools: both transit accounts are as before.
LEMMA MarginSwapSpends ==
  ASSUME SwapTyped, NEW src \in SwapMints, NEW dst \in SwapMints, NEW amount \in Nat \ {0},
         NEW minimum \in Nat, margin_swap(src, dst, amount, minimum)
  PROVE  SwapTyped' /\ \E out, fee : Spends(src, out, fee)
<1> DEFINE withdrawn == [transit EXCEPT ![src] = @ + amount]
<1>1. PICK used \in spl_swap(amount), out \in 1 .. MaxTokens :
        LET swapped == Exchanged(withdrawn, src, used, dst, out)
            gain == Gained(withdrawn[dst], swapped[dst])
            leftover == Gained(transit[src], swapped[src])
        IN  /\ transit' = [swapped EXCEPT ![dst] = @ - gain, ![src] = @ - leftover]
            /\ deposited_in' = SplPools(src, dst, amount, gain, leftover)
  BY DEF margin_swap
<1>2. src # dst /\ amount <= deposited_in[src] /\ collected' = collected
  BY DEF margin_swap, CanWithdrawFrom
<1> DEFINE swapped == Exchanged(withdrawn, src, used, dst, out)
           gain == swapped[dst] - withdrawn[dst]
           leftover == swapped[src] - transit[src]
<1>3. used \in Nat /\ used <= amount /\ out \in Nat /\ out > 0
  BY SwapAssumption DEF spl_swap
<1>4. /\ transit \in [SwapMints -> Nat] /\ deposited_in \in [SwapMints -> Nat]
      /\ collected \in [SwapMints -> Nat]
  BY DEF SwapTyped, Funds
<1>5. /\ withdrawn \in [SwapMints -> Nat] /\ withdrawn[src] = transit[src] + amount
      /\ \A m \in SwapMints \ {src} : withdrawn[m] = transit[m]
  BY <1>4
<1> HIDE DEF withdrawn
<1>6. /\ swapped \in [SwapMints -> Int]
      /\ swapped[src] = transit[src] + amount - used /\ swapped[dst] = transit[dst] + out
      /\ \A m \in SwapMints \ {src, dst} : swapped[m] = transit[m]
  <2> DEFINE spent == [withdrawn EXCEPT ![src] = @ - used]
  <2>1. spent \in [SwapMints -> Int] /\ spent[src] = transit[src] + amount - used
        /\ \A m \in SwapMints \ {src} : spent[m] = transit[m]
    BY <1>3, <1>4, <1>5
  <2>2. swapped = [spent EXCEPT ![dst] = @ + out]
    BY DEF Exchanged
  <2> HIDE DEF spent, swapped
  <2> QED BY <1>2, <1>3, <1>4, <2>1, <2>2
<1>7. /\ transit' = [swapped EXCEPT ![dst] = @ - gain, ![src] = @ - leftover]
      /\ deposited_in' = [deposited_in EXCEPT ![dst] = @ + gain, ![src] = @ - amount + leftover]
  BY <1>1 DEF Gained, SplPools
<1> HIDE DEF swapped
<1>8. gain = out /\ leftover = amount - used
  BY <1>2, <1>3, <1>4, <1>5, <1>6
<1> HIDE DEF gain, leftover
<1>9. transit' = transit
  <2>1. DOMAIN transit' = SwapMints /\ DOMAIN transit = SwapMints /\ transit' = [m \in SwapMints |-> transit'[m]]
        /\ transit = [m \in SwapMints |-> transit[m]]
    BY <1>4, <1>6, <1>7
  <2>2. ASSUME NEW m \in SwapMints PROVE transit'[m] = transit[m]
    <3>1. /\ transit'[dst] = swapped[dst] - gain /\ transit'[src] = swapped[src] - leftover
          /\ m \notin {src, dst} => transit'[m] = swapped[m]
      BY <1>2, <1>6, <1>7
    <3>2. CASE m = dst
      BY <1>3, <1>4, <1>6, <1>8, <3>1, <3>2
    <3>3. CASE m = src
      BY <1>3, <1>4, <1>6, <1>8, <3>1, <3>3
    <3>4. CASE m \notin {src, dst}
      BY <1>6, <3>1, <3>4
    <3> QED BY <3>2, <3>3, <3>4
  <2> QED BY <2>1, <2>2
<1>10. /\ deposited_in' \in [SwapMints -> Nat] /\ deposited_in'[dst] = deposited_in[dst] + out
       /\ \A m \in SwapMints \ {src, dst} : deposited_in'[m] = deposited_in[m]
  <2>1. deposited_in[dst] + gain \in Nat /\ deposited_in[src] - amount + leftover \in Nat
    BY <1>2, <1>3, <1>4, <1>8
  <2> QED BY <1>2, <1>4, <1>7, <1>8, <2>1
<1>11. SwapTyped'
  BY <1>2, <1>4, <1>9, <1>10 DEF SwapTyped, Funds
<1>12. Own(dst)' = Own(dst) + out /\ Own(dst) \in Nat
  BY <1>3, <1>4, <1>9, <1>10 DEF Own
<1>13. \A m \in SwapMints \ {src} : Own(m)' >= Own(m)
  <2> SUFFICES ASSUME NEW m \in SwapMints \ {src} PROVE Own(m)' >= Own(m)
    OBVIOUS
  <2>1. CASE m = dst
    BY <1>3, <1>12, <2>1
  <2>2. CASE m # dst
    BY <1>4, <1>9, <1>10, <2>2 DEF Own
  <2> QED BY <2>1, <2>2
<1>14. collected' = [collected EXCEPT ![dst] = @ + 0]
  BY <1>2, <1>4
<1>15. 0 * 10000 <= LIQUIDATION_FEE * (Own(dst)' - Own(dst) + 0)
  <2>1. Own(dst)' - Own(dst) + 0 = out
    BY <1>3, <1>12
  <2>2. LIQUIDATION_FEE \in Nat /\ LIQUIDATION_FEE * out \in Nat
    BY <1>3, SwapAssumption
  <2> QED BY <2>1, <2>2
<1>16. \A m \in SwapMints : transit'[m] >= transit[m]
  BY <1>4, <1>9
<1>17. Spends(src, dst, 0)
  BY <1>3, <1>12, <1>13, <1>14, <1>15, <1>16 DEF Spends
<1> QED BY <1>11, <1>17

\* What an instruction does to the account's tokens.
SpendsOnly ==
  LET own(m) == deposited_in[m] + transit[m]
      losers == {m \in SwapMints : own(m)' < own(m)}
      gainers == {m \in SwapMints : own(m)' > own(m)}
      paid == {m \in SwapMints : collected[m]' > collected[m]}
  IN  /\ deposited_in' # deposited_in => \A m \in SwapMints : transit[m]' >= transit[m]
      /\ Cardinality(losers) <= 1 /\ (losers # {} => gainers # {})
      /\ \A m \in paid :
           (collected[m]' - collected[m]) * 10000
             <= LIQUIDATION_FEE * (own(m)' - own(m) + collected[m]' - collected[m])

\* Only one token is spent, another is gained and the fee is a share of it.
LEMMA SpendsOnlyOne ==
  ASSUME SwapTyped, SwapTyped', NEW src, NEW dst, NEW fee, Spends(src, dst, fee)
  PROVE  SpendsOnly
<1>1. /\ transit \in [SwapMints -> Nat] /\ deposited_in \in [SwapMints -> Nat]
      /\ transit' \in [SwapMints -> Nat] /\ deposited_in' \in [SwapMints -> Nat]
      /\ collected \in [SwapMints -> Nat] /\ collected' \in [SwapMints -> Nat]
  BY DEF SwapTyped, Funds
<1>2. \A m \in SwapMints : Own(m) \in Nat /\ Own(m)' \in Nat
  BY <1>1 DEF Own
<1> DEFINE losers == {m \in SwapMints : Own(m)' < Own(m)}
<1>3. Cardinality(losers) <= 1
  <2>1. losers \subseteq {src}
    BY <1>2 DEF Spends
  <2>2. IsFiniteSet({src}) /\ Cardinality({src}) = 1
    BY FS_Singleton
  <2> HIDE DEF losers
  <2> QED BY <2>1, <2>2, FS_Subset
<1>4. dst \in {m \in SwapMints : Own(m)' > Own(m)}
  BY DEF Spends
<1>5. ASSUME NEW m \in SwapMints, collected'[m] > collected[m]
      PROVE  (collected'[m] - collected[m]) * 10000
               <= LIQUIDATION_FEE * (Own(m)' - Own(m) + collected'[m] - collected[m])
  <2>1. collected' = [collected EXCEPT ![dst] = @ + fee] /\ fee \in Nat /\ dst \in SwapMints
    BY DEF Spends
  <2>2. m = dst
    BY <1>1, <1>5, <2>1
  <2>3. collected'[m] - collected[m] = fee
    BY <1>1, <2>1, <2>2
  <2>4. Own(m)' - Own(m) + collected'[m] - collected[m] = Own(dst)' - Own(dst) + fee
    BY <1>1, <1>2, <2>1, <2>2, <2>3
  <2>5. fee * 10000 <= LIQUIDATION_FEE * (Own(dst)' - Own(dst) + fee)
    BY DEF Spends
  <2> QED BY <2>3, <2>4, <2>5
<1>6. deposited_in' # deposited_in => \A m \in SwapMints : transit'[m] >= transit[m]
  BY DEF Spends
<1> QED BY <1>3, <1>4, <1>5, <1>6 DEF SpendsOnly, Own

\* A step of the account's owner, or of an instruction.
LEMMA SwapSteps ==
  ASSUME SwapTyped, [SwapNext]_swapVars
  PROVE  SwapTyped' /\ (UNCHANGED swapVars \/ (\E m \in SwapMints : OwnerMoves(m)) \/ SpendsOnly)
<1>1. ASSUME NEW src, NEW dst, NEW fee, SwapTyped', Spends(src, dst, fee)
      PROVE  SpendsOnly
  BY <1>1, SpendsOnlyOne
<1>2. CASE UNCHANGED swapVars
  BY <1>2 DEF swapVars, SwapTyped
<1>3. CASE init_openbook_open_orders \/ close_openbook_open_orders
  <2>1. UNCHANGED <<deposited_in, transit, collected>>
    BY <1>3 DEF init_openbook_open_orders, close_openbook_open_orders
  <2>2. SwapTyped'
    BY <2>1 DEF SwapTyped
  <2>3. \A m \in SwapMints : Own(m) \in Nat /\ collected[m] \in Nat
    BY DEF SwapTyped, Funds, Own
  <2>4. {m \in SwapMints : Own(m)' < Own(m)} = {}
    BY <2>1, <2>3 DEF Own
  <2>5. {m \in SwapMints : collected'[m] > collected[m]} = {}
    BY <2>1, <2>3
  <2>6. Cardinality({}) = 0
    BY FS_EmptySet
  <2>7. SpendsOnly
    BY <2>1, <2>4, <2>5, <2>6 DEF SpendsOnly, Own
  <2> QED BY <2>2, <2>7
<1>4. ASSUME NEW m \in SwapMints, OwnerMoves(m)
      PROVE  SwapTyped'
  <2>1. MaxTokens \in Nat
    BY SwapAssumption
  <2> QED BY <1>4, <2>1 DEF OwnerMoves, SwapTyped, Funds
<1>5. ASSUME NEW src \in SwapMints, NEW amount \in SwapAmounts, NEW minimum \in 0 .. 1,
             NEW dst \in SwapMints, margin_swap(src, dst, amount, minimum)
      PROVE  SwapTyped' /\ SpendsOnly
  <2>1. amount \in Nat \ {0} /\ minimum \in Nat
    BY SwapAssumption
  <2>2. SwapTyped' /\ \E d, fee : Spends(src, d, fee)
    BY <1>5, <2>1, MarginSwapSpends
  <2> QED BY <1>1, <2>2
<1>6. ASSUME NEW src \in SwapMints, NEW amount \in SwapAmounts, NEW minimum \in 0 .. 1,
             NEW routes \in SwapRoutes, NEW liq \in BOOLEAN,
             route_swap_pool(src, amount, minimum, routes, liq) \/ route_swap(src, amount, minimum, routes, liq)
      PROVE  SwapTyped' /\ SpendsOnly
  <2>1. amount \in Nat \ {0} /\ minimum \in Nat
    BY SwapAssumption
  <2>2. SwapTyped' /\ \E d, fee : Spends(src, d, fee)
    BY <1>6, <2>1, RouteSwapPoolSpends, RouteSwapSpends
  <2> QED BY <1>1, <2>2
<1> QED BY <1>2, <1>3, <1>4, <1>5, <1>6 DEF SwapNext

\* A swap spends only what it was given: at most one token becomes less and then another
\* more, a swap out of a pool leaves every transit account what it had (route_swap.rs,
\* margin_spl_swap.rs), and the protocol takes its share of the output only; for any
\* mints, routes of up to three legs, venues' answers and lot sizes.
THEOREM SwapAlwaysSpendsItsInput == SwapSpec => SwapSpendsOnlyItsInput
<1>1. InitSwap => SwapTyped
  BY DEF InitSwap, SwapTyped, Funds
<1>2. SwapTyped /\ [SwapNext]_swapVars => SwapTyped'
  BY SwapSteps
<1>3. SwapTyped /\ [SwapNext]_swapVars =>
        [UNCHANGED swapVars \/ (\E m \in SwapMints : OwnerMoves(m)) \/ SpendsOnly]_swapVars
  BY SwapSteps
<1> QED BY <1>1, <1>2, <1>3, PTL DEF SwapSpec, SwapSpendsOnlyItsInput, SpendsOnly

-----------------------------------------------------------------------------
(* The order book model: what rounding does to the fill of one order, the   *)
(* recursive functions order by order, then the orders of the book.         *)

\* The tokens for tickets, and the tickets for tokens, rounded down.
LEMMA Rounding ==
  ASSUME NEW p \in 1 .. ONE, NEW a \in Nat, NEW b \in Nat, a <= b
  PROVE  /\ fp32_mul_floor(a, p) \in Nat /\ fp32_mul_floor(a, p) <= fp32_mul_floor(b, p)
         /\ fp32_div(a, p) \in Nat /\ fp32_div(a, p) <= fp32_div(b, p)
<1>1. p \in Nat \ {0} /\ ONE \in Nat \ {0}
  BY OrderbookAssumption
<1>2. a * p \in Nat /\ b * p \in Nat /\ a * p <= b * p /\ a * ONE \in Nat /\ b * ONE \in Nat /\ a * ONE <= b * ONE
  BY <1>1, MulNat
<1> QED BY <1>1, <1>2, DivNat DEF fp32_mul_floor, fp32_div

\* The same for one amount.
LEMMA OneRounding ==
  ASSUME NEW p \in 1 .. ONE, NEW a \in Nat
  PROVE  fp32_mul_floor(a, p) \in Nat /\ fp32_div(a, p) \in Nat
BY Rounding

\* What tokens buy costs no more than they are.
LEMMA Buys ==
  ASSUME NEW p \in 1 .. ONE, NEW u \in Nat, NEW f \in Nat, f <= fp32_div(u, p)
  PROVE  fp32_mul_floor(f, p) <= u
<1> DEFINE d == (u * ONE) \div p
           x == (f * p) \div ONE
<1>1. p \in Nat \ {0} /\ ONE \in Nat \ {0} /\ u * ONE \in Nat /\ f * p \in Nat
  BY OrderbookAssumption, MulNat
<1>2. d \in Nat /\ d * p <= u * ONE /\ f <= d
  BY <1>1, DivBounds DEF fp32_div
<1>3. x \in Int /\ x * ONE <= f * p
  BY <1>1, DivBounds
<1> HIDE DEF d, x
<1>4. f * p <= d * p
  BY <1>1, <1>2, MulNat
<1>5. x * ONE <= u * ONE
  BY <1>1, <1>2, <1>3, <1>4
<1>6. x <= u
  BY <1>1, <1>3, <1>5, Cancel
<1> QED BY <1>6 DEF fp32_mul_floor, x

\* Tickets for the tokens that tickets are worth are no more tickets.
LEMMA BuysBack ==
  ASSUME NEW p \in 1 .. ONE, NEW b \in Nat
  PROVE  fp32_div(fp32_mul_floor(b, p), p) <= b
<1> DEFINE q == (b * p) \div ONE
           d == (q * ONE) \div p
<1>1. p \in Nat \ {0} /\ ONE \in Nat \ {0} /\ b * p \in Nat
  BY OrderbookAssumption, MulNat
<1>2. q \in Nat /\ q * ONE <= b * p
  BY <1>1, DivBounds
<1>3. q * ONE \in Nat
  BY <1>1, <1>2, MulNat
<1>4. d \in Int /\ d * p <= q * ONE
  BY <1>1, <1>3, DivBounds
<1> HIDE DEF q, d
<1>5. d * p <= b * p
  BY <1>1, <1>2, <1>3, <1>4
<1>6. d <= b
  BY <1>1, <1>4, <1>5, Cancel
<1> QED BY <1>6 DEF fp32_div, fp32_mul_floor, q, d

\* The fill of one order with u tokens, its own quote q and the tickets it gives
LEMMA OneFill ==
  ASSUME NEW p \in 1 .. ONE, NEW b \in Nat, NEW u \in Nat
  PROVE  LET f == Min({b, fp32_div(u, p)})
             q == fp32_mul_floor(b, p)
         IN  /\ f \in Nat /\ f <= b /\ q \in Nat
             /\ fp32_mul_floor(f, p) \in Nat /\ fp32_mul_floor(f, p) <= u /\ fp32_mul_floor(f, p) <= q
             /\ fp32_div(q, p) \in Nat /\ fp32_div(q, p) <= b
             /\ q <= u => fp32_div(q, p) <= f
<1> DEFINE d == fp32_div(u, p)
           f == Min({b, d})
           q == fp32_mul_floor(b, p)
<1>1. d \in Nat /\ q \in Nat
  BY Rounding
<1>2. f \in Nat /\ f <= b /\ f <= d /\ f \in {b, d}
  BY <1>1, MinTwo
<1>3. fp32_mul_floor(f, p) \in Nat /\ fp32_mul_floor(f, p) <= q
  BY <1>2, Rounding
<1>4. fp32_mul_floor(f, p) <= u
  BY <1>2, Buys
<1>5. fp32_div(q, p) \in Nat /\ fp32_div(q, p) <= b
  BY <1>1, Rounding, BuysBack
<1>6. q <= u => fp32_div(q, p) <= d
  BY <1>1, Rounding
<1> QED BY <1>1, <1>2, <1>3, <1>4, <1>5, <1>6

\* Tickets for all u tokens leave less than one token.
LEMMA SpentUp ==
  ASSUME NEW p \in 1 .. ONE, NEW u \in Nat
  PROVE  LET d == fp32_div(u, p)
         IN  d \in Nat /\ fp32_mul_ceil(d, p) = u /\ u - 1 <= fp32_mul_floor(d, p) /\ fp32_mul_floor(d, p) <= u
<1> DEFINE d == (u * ONE) \div p
           x == (d * p) \div ONE
           y == (d * p + ONE - 1) \div ONE
<1>1. p \in Nat \ {0} /\ ONE \in Nat \ {0} /\ u * ONE \in Nat
  BY OrderbookAssumption, MulNat
<1>2. d \in Nat /\ d * p <= u * ONE /\ u * ONE < d * p + p
  BY <1>1, DivBounds
<1>3. d * p \in Nat
  BY <1>1, <1>2, MulNat
<1>4. d * p + ONE - 1 \in Nat
  BY <1>1, <1>3
<1> HIDE DEF d
<1>5. /\ x \in Nat /\ x * ONE <= d * p /\ d * p < x * ONE + ONE
      /\ y \in Nat /\ y * ONE <= d * p + ONE - 1 /\ d * p + ONE - 1 < y * ONE + ONE
  <2>1. \A a \in Nat : a \div ONE \in Nat /\ (a \div ONE) * ONE <= a /\ a < (a \div ONE) * ONE + ONE
    BY <1>1, DivBounds
  <2> DEFINE z == d * p
             k == z + ONE - 1
  <2>2. z \in Nat /\ k \in Nat
    BY <1>3, <1>4
  <2> HIDE DEF z, k
  <2>3. /\ z \div ONE \in Nat /\ (z \div ONE) * ONE <= z /\ z < (z \div ONE) * ONE + ONE
        /\ k \div ONE \in Nat /\ (k \div ONE) * ONE <= k /\ k < (k \div ONE) * ONE + ONE
    BY <2>1, <2>2
  <2> QED BY <2>3 DEF z, k
<1> HIDE DEF x, y
<1> DEFINE z == d * p
<1>8. z \in Nat /\ z <= u * ONE /\ u * ONE < z + ONE
  <2>1. p <= ONE
    OBVIOUS
  <2> QED BY <1>1, <1>2, <1>3, <2>1
<1>9. x * ONE <= z /\ z < x * ONE + ONE /\ y * ONE <= z + ONE - 1 /\ z + ONE - 1 < y * ONE + ONE
  BY <1>5
<1> HIDE DEF z
<1>10. /\ (u - 1) * ONE = u * ONE - ONE /\ (x + 1) * ONE = x * ONE + ONE
       /\ (u + 1) * ONE = u * ONE + ONE /\ (y + 1) * ONE = y * ONE + ONE
       /\ x * ONE \in Int /\ y * ONE \in Int
  BY <1>1, <1>5
<1>11. x <= u
  <2>1. x * ONE <= u * ONE
    BY <1>1, <1>8, <1>9, <1>10
  <2> QED BY <1>1, <1>5, <2>1, Cancel
<1>12. u - 1 <= x
  <2>1. (u - 1) * ONE < (x + 1) * ONE
    BY <1>1, <1>8, <1>9, <1>10
  <2>2. u - 1 \in Int /\ x + 1 \in Int
    BY <1>5
  <2>3. u - 1 < x + 1
    BY <1>1, <2>1, <2>2, Cancel
  <2> QED BY <1>5, <1>10, <1>1, <1>8, <1>9, <2>3
<1>13. y = u
  <2>1. y * ONE < (u + 1) * ONE /\ u * ONE < (y + 1) * ONE
    BY <1>1, <1>8, <1>9, <1>10
  <2>2. u + 1 \in Int /\ y + 1 \in Int
    BY <1>5
  <2>3. y < u + 1 /\ u < y + 1
    BY <1>1, <1>5, <2>1, <2>2, Cancel
  <2> QED BY <1>5, <2>3
<1> QED BY <1>2, <1>11, <1>12, <1>13 DEF fp32_div, fp32_mul_floor, fp32_mul_ceil, d, x, y

\* Both fill an order, the program with v tokens and a borrower's simulation with u: what
\* the program has more grows by one at most.
LEMMA BothFill ==
  ASSUME NEW p \in 1 .. ONE, NEW b \in Nat, NEW u \in Nat, NEW v \in Nat, u <= v
  PROVE  LET f == Min({b, fp32_div(u, p)})
             g == Min({b, fp32_div(v, p)})
         IN  /\ f \in Nat /\ g \in Nat
             /\ fp32_mul_ceil(f, p) \in Nat /\ fp32_mul_ceil(f, p) <= u
             /\ fp32_mul_floor(g, p) \in Nat /\ fp32_mul_floor(g, p) <= v
             /\ (v - fp32_mul_floor(g, p)) - (u - fp32_mul_ceil(f, p)) \in 0 .. (v - u) + 1
<1> DEFINE d == fp32_div(u, p)
           e == fp32_div(v, p)
           f == Min({b, d})
           g == Min({b, e})
           c == fp32_mul_ceil(f, p)
           x == fp32_mul_floor(g, p)
<1>1. d \in Nat /\ e \in Nat /\ d <= e
  BY Rounding
<1>2. f \in Nat /\ f <= b /\ f <= d /\ f \in {b, d} /\ g \in Nat /\ g <= b /\ g <= e /\ g \in {b, e}
  BY <1>1, MinTwo
<1>3. x \in Nat /\ x <= v
  BY <1>2, Rounding, Buys
<1>4. CASE f = b
  <2>1. g = b
    BY <1>1, <1>2, <1>4
  <2> DEFINE z == b * p
             k == z + ONE - 1
             t == z \div ONE
             y == k \div ONE
  <2>2. x = t /\ c = y
    BY <1>4, <2>1 DEF fp32_mul_floor, fp32_mul_ceil
  <2>3. z \in Nat /\ ONE \in Nat \ {0} /\ k \in Nat
    <3>1. p \in Nat /\ ONE \in Nat \ {0}
      BY OrderbookAssumption
    <3>2. z \in Nat
      BY <3>1, MulNat
    <3> HIDE DEF z
    <3> QED BY <3>1, <3>2
  <2>4. t \in Nat /\ t * ONE <= z /\ z < t * ONE + ONE /\ y \in Nat /\ y * ONE <= k /\ k < y * ONE + ONE
    <3>1. \A a \in Nat : a \div ONE \in Nat /\ (a \div ONE) * ONE <= a /\ a < (a \div ONE) * ONE + ONE
      BY <2>3, DivBounds
    <3> HIDE DEF z, k
    <3> QED BY <2>3, <3>1
  <2>5. z <= u * ONE
    <3>1. p \in Nat \ {0} /\ ONE \in Nat \ {0} /\ u * ONE \in Nat
      BY OrderbookAssumption, MulNat
    <3>2. d * p <= u * ONE
      BY <3>1, DivBounds DEF fp32_div
    <3>3. b * p <= d * p
      BY <1>1, <1>2, <1>4, <3>1, MulNat
    <3>4. d * p \in Nat
      BY <1>1, <3>1, MulNat
    <3> HIDE DEF d
    <3> QED BY <2>3, <3>1, <3>2, <3>3, <3>4
  <2> HIDE DEF t, y, z
  <2>6. k = z + ONE - 1
    OBVIOUS
  <2> HIDE DEF k
  <2>7. /\ (t + 1) * ONE = t * ONE + ONE /\ (y + 1) * ONE = y * ONE + ONE /\ (u + 1) * ONE = u * ONE + ONE
        /\ (t + 2) * ONE = t * ONE + 2 * ONE
        /\ t * ONE \in Int /\ y * ONE \in Int /\ u * ONE \in Int
    BY <2>3, <2>4
  <2>8. t <= y /\ y <= t + 1 /\ y <= u
    <3>1. t * ONE < (y + 1) * ONE /\ y * ONE < (t + 2) * ONE /\ y * ONE < (u + 1) * ONE
      BY <2>3, <2>4, <2>5, <2>6, <2>7
    <3>2. y + 1 \in Int /\ t + 2 \in Int /\ u + 1 \in Int /\ t \in Int /\ y \in Int
      BY <2>4
    <3>3. t < y + 1 /\ y < t + 2 /\ y < u + 1
      BY <2>3, <3>1, <3>2, Cancel
    <3> QED BY <2>4, <3>3
  <2> HIDE DEF x, c, f, g, d, e
  <2>9. (v - x) - (u - c) \in 0 .. (v - u) + 1
    BY <2>2, <2>4, <2>8
  <2> QED BY <1>2, <1>3, <2>2, <2>4, <2>8, <2>9 DEF x, c, f, g, d, e
<1>5. CASE f # b
  <2>1. f = d
    BY <1>2, <1>5
  <2>2. c = u /\ u - 1 <= fp32_mul_floor(d, p)
    BY <2>1, SpentUp
  <2>3. d <= g
    BY <1>1, <1>2, <1>5
  <2>4. fp32_mul_floor(d, p) \in Nat /\ fp32_mul_floor(d, p) <= x
    BY <1>1, <1>2, <2>3, Rounding
  <2>5. u - 1 <= x
    BY <1>3, <2>2, <2>4
  <2> HIDE DEF x, c, f, g, d, e
  <2>6. (v - x) - (u - c) \in 0 .. (v - u) + 1
    BY <1>3, <2>2, <2>5
  <2> QED BY <1>2, <1>3, <2>2, <2>6 DEF x, c, f, g, d, e
<1> QED BY <1>4, <1>5

\* g is defined by recursion along 1 .. n: it starts at x, and s[k] is the step to k
AlongOrders(g, V, n, x, s) ==
  /\ g \in [0 .. n -> V] /\ g[0] = x
  /\ \A k \in 1 .. n : k \in Nat /\ k - 1 \in 0 .. n /\ g[k - 1] \in V /\ g[k] = s[k][g[k - 1]]

\* There is such a function.
LEMMA OrderByOrder ==
  ASSUME NEW V, NEW n \in Nat, NEW x \in V, NEW s \in [Nat -> [V -> V]]
  PROVE  \E g : AlongOrders(g, V, n, x, s)
<1>1. 0 \in Nat /\ 0 <= n /\ 0 + 1 = 1 /\ \A k \in 1 .. n : k - 1 \in 0 .. n /\ k \in Nat
  OBVIOUS
<1>2. PICK g : ByRecursion(g, V, 0, n, x, s)
  BY <1>1, Recursion
<1>3. g \in [0 .. n -> V] /\ g[0] = x /\ \A k \in 1 .. n : g[k] = s[k][g[k - 1]]
  BY <1>1, <1>2 DEF ByRecursion
<1>4. AlongOrders(g, V, n, x, s)
  BY <1>1, <1>3 DEF AlongOrders
<1> QED BY <1>4

-----------------------------------------------------------------------------
(* The chart and the simulated taker, order by order                       *)

Offers == [owner : Traders, base_size : Nat, price : 1 .. ONE]
OfferQuote(o) == base_to_quote("Ask", o.base_size, o.price)

Point == [base : Nat, quote : Nat, orders : Nat]
NoPoint == [base |-> 0, quote |-> 0, orders |-> 0]
NextPoint(p, o, k) ==
  IF p.quote >= MaxQty THEN p
  ELSE [base |-> p.base + o.base_size, quote |-> p.quote + OfferQuote(o), orders |-> k]

Points(g, asks) ==
  g = [k \in 0 .. Len(asks) |-> IF k = 0 THEN NoPoint ELSE NextPoint(g[k - 1], asks[k], k)]

\* The numbers of an offer
LEMMA OfferType ==
  ASSUME NEW o \in Offers
  PROVE  /\ o.base_size \in Nat /\ o.price \in 1 .. ONE /\ OfferQuote(o) \in Nat
         /\ OfferQuote(o) = fp32_mul_floor(o.base_size, o.price)
<1>1. o.base_size \in Nat /\ o.price \in 1 .. ONE
  BY DEF Offers
<1>2. OfferQuote(o) = fp32_mul_floor(o.base_size, o.price)
  BY DEF OfferQuote, base_to_quote
<1> QED BY <1>1, <1>2, Rounding

\* The chart goes through the orders one by one.
LEMMA ChartSteps ==
  ASSUME NEW model, model["Ask"] \in Seq(Offers)
  PROVE  LET asks == model["Ask"]
             g == sample_liquidity(model, "Ask", MaxQty)
         IN  /\ DOMAIN g = 0 .. Len(asks) /\ g[0] = NoPoint
             /\ \A k \in 0 .. Len(asks) : g[k] \in Point
             /\ \A k \in 1 .. Len(asks) : g[k] = NextPoint(g[k - 1], asks[k], k)
<1> DEFINE asks == model["Ask"]
           n == Len(asks)
           step(k) == [p \in Point |-> IF k \in 1 .. n THEN NextPoint(p, asks[k], k) ELSE p]
           s == [k \in Nat |-> step(k)]
<1>1. n \in Nat /\ \A k \in 1 .. n : asks[k] \in Offers
  OBVIOUS
<1>2. ASSUME NEW k \in 1 .. n, NEW p \in Point PROVE NextPoint(p, asks[k], k) \in Point
  <2>1. asks[k].base_size \in Nat /\ OfferQuote(asks[k]) \in Nat /\ k \in Nat
    BY <1>1, OfferType
  <2> QED BY <2>1 DEF NextPoint, Point
<1>3. NoPoint \in Point
  BY DEF NoPoint, Point
<1> HIDE DEF n, asks
<1>4. s \in [Nat -> [Point -> Point]]
  BY <1>2
<1>5. PICK g : AlongOrders(g, Point, n, NoPoint, s)
  <2> HIDE DEF s
  <2> QED BY <1>1, <1>3, <1>4, OrderByOrder
<1>6. g \in [0 .. n -> Point] /\ g[0] = NoPoint
  BY <1>5 DEF AlongOrders
<1>7. \A k \in 1 .. n : g[k] = NextPoint(g[k - 1], asks[k], k)
  <2> SUFFICES ASSUME NEW k \in 1 .. n PROVE g[k] = NextPoint(g[k - 1], asks[k], k)
    OBVIOUS
  <2>1. k \in Nat /\ g[k] = s[k][g[k - 1]] /\ g[k - 1] \in Point
    BY <1>5 DEF AlongOrders
  <2>2. s[k] = step(k)
    BY <2>1
  <2> HIDE DEF s
  <2> QED BY <2>1, <2>2
<1>8. Points(g, asks)
  <2>1. \A k \in 0 .. n : k # 0 => k \in 1 .. n
    BY <1>1
  <2>2. \A k \in 0 .. n : g[k] = IF k = 0 THEN NoPoint ELSE NextPoint(g[k - 1], asks[k], k)
    BY <1>6, <1>7, <2>1
  <2>3. g = [k \in 0 .. n |-> g[k]]
    BY <1>6
  <2> QED BY <2>2, <2>3 DEF Points, n
<1> DEFINE h == CHOOSE f : Points(f, asks)
<1>9. Points(h, asks)
  BY <1>8
<1>10. sample_liquidity(model, "Ask", MaxQty) = h
  BY DEF sample_liquidity, Points, NoPoint, NextPoint, OfferQuote, asks
<1> HIDE DEF h
<1>11. DOMAIN h = 0 .. n /\ \A k \in 0 .. n : h[k] = IF k = 0 THEN NoPoint ELSE NextPoint(h[k - 1], asks[k], k)
  BY <1>9 DEF Points, n
<1>12. h[0] = NoPoint /\ \A k \in 1 .. n : h[k] = NextPoint(h[k - 1], asks[k], k)
  <2>1. 0 \in 0 .. n /\ \A k \in 1 .. n : k \in 0 .. n /\ k # 0
    BY <1>1
  <2> QED BY <1>11, <2>1
<1>13. \A k \in 0 .. n : h[k] \in Point
  <2>1. ASSUME NEW k \in 0 + 1 .. n, h[k - 1] \in Point PROVE h[k] \in Point
    <3>1. k \in 1 .. n
      OBVIOUS
    <3>2. h[k] = NextPoint(h[k - 1], asks[k], k)
      BY <1>12, <3>1
    <3> QED BY <1>2, <2>1, <3>1, <3>2
  <2>2. 0 \in Nat /\ h[0] \in Point
    BY <1>3, <1>12
  <2> QED BY <1>1, <2>1, <2>2, Along
<1> QED BY <1>10, <1>11, <1>12, <1>13 DEF n, asks

\* what rounding takes off the first k orders
Lost(g, asks) ==
  g = [k \in 0 .. Len(asks) |-> IF k = 0 THEN 0 ELSE g[k - 1] + RoundedOff(asks[k])]

\* An order's quote does not buy more than the order.
LEMMA RoundedOffNat ==
  ASSUME NEW o \in Offers
  PROVE  /\ RoundedOff(o) \in Nat /\ fp32_div(OfferQuote(o), o.price) \in Nat
         /\ RoundedOff(o) = o.base_size - fp32_div(OfferQuote(o), o.price)
<1> DEFINE b == o.base_size
           p == o.price
           d == fp32_div(fp32_mul_floor(b, p), p)
<1>1. b \in Nat /\ p \in 1 .. ONE /\ OfferQuote(o) = fp32_mul_floor(b, p)
  BY OfferType
<1> HIDE DEF b, p
<1>2. d \in Nat /\ d <= b
  BY <1>1, OneFill
<1>3. RoundedOff(o) = b - d /\ fp32_div(OfferQuote(o), o.price) = d
  BY <1>1 DEF RoundedOff, OfferQuote, b, p
<1> HIDE DEF d
<1>4. b - d \in Nat
  BY <1>1, <1>2
<1> QED BY <1>2, <1>3, <1>4 DEF b

\* What rounding takes off an order (base_to_quote and the division by the price,
\* orderbook.rs:102-106) is worth less than one unit of quote and one of the price.
THEOREM RoundedOffIsLittle ==
  ASSUME NEW o \in Offers
  PROVE  RoundedOff(o) \in Nat /\ RoundedOff(o) * o.price < ONE + o.price
<1> DEFINE b == o.base_size
           p == o.price
           q == (b * p) \div ONE
           d == (q * ONE) \div p
<1>1. b \in Nat /\ p \in Nat \ {0} /\ ONE \in Nat \ {0} /\ b * p \in Nat
  BY OfferType, MulNat, OrderbookAssumption
<1>2. q \in Nat /\ b * p < q * ONE + ONE
  <2> DEFINE worth == b * p
  <2> HIDE DEF worth, b, p
  <2>1. worth \in Nat /\ ONE \in Nat \ {0} /\ q = worth \div ONE
    BY <1>1 DEF worth
  <2> HIDE DEF q
  <2>2. q \in Nat /\ worth < q * ONE + ONE
    BY <2>1, DivBounds
  <2> QED BY <2>2 DEF worth
<1> HIDE DEF q, b, p
<1>3. q * ONE \in Nat
  BY <1>1, <1>2, MulNat
<1>4. d \in Int /\ q * ONE < d * p + p
  <2> DEFINE ones == q * ONE
  <2> HIDE DEF ones
  <2>1. ones \in Nat /\ p \in Nat \ {0} /\ d = ones \div p
    BY <1>1, <1>3 DEF ones
  <2> HIDE DEF d
  <2>2. d \in Int /\ ones < d * p + p
    BY <2>1, DivBounds
  <2> QED BY <2>2 DEF ones
<1>5. RoundedOff(o) = b - d
  BY DEF RoundedOff, base_to_quote, fp32_mul_floor, fp32_div, q, b, p
<1> HIDE DEF d
<1>6. (b - d) * p = b * p - d * p
  BY <1>1, <1>4
<1>7. (b - d) * p < ONE + p
  BY <1>1, <1>2, <1>3, <1>4, <1>6
<1> QED BY <1>5, <1>7, RoundedOffNat DEF p

\* The sum of what is rounded off, one by one.
LEMMA LostSteps ==
  ASSUME NEW asks \in Seq(Offers)
  PROVE  LET g == CHOOSE f : Lost(f, asks)
         IN  /\ g[0] = 0 /\ \A k \in 0 .. Len(asks) : g[k] \in Nat
             /\ \A k \in 1 .. Len(asks) : g[k] = g[k - 1] + RoundedOff(asks[k])
<1> DEFINE n == Len(asks)
           step(k) == [x \in Nat |-> IF k \in 1 .. n THEN x + RoundedOff(asks[k]) ELSE x]
           s == [k \in Nat |-> step(k)]
           h == CHOOSE f : Lost(f, asks)
<1>1. n \in Nat /\ \A k \in 1 .. n : asks[k] \in Offers
  OBVIOUS
<1>2. \A k \in 1 .. n : RoundedOff(asks[k]) \in Nat
  BY <1>1, RoundedOffNat
<1> HIDE DEF n
<1>3. s \in [Nat -> [Nat -> Nat]]
  BY <1>2
<1>4. PICK g : AlongOrders(g, Nat, n, 0, s)
  <2> HIDE DEF s
  <2>1. 0 \in Nat
    OBVIOUS
  <2> QED BY <1>1, <1>3, <2>1, OrderByOrder
<1>5. g \in [0 .. n -> Nat] /\ g[0] = 0
  BY <1>4 DEF AlongOrders
<1>6. \A k \in 1 .. n : g[k] = g[k - 1] + RoundedOff(asks[k])
  <2> SUFFICES ASSUME NEW k \in 1 .. n PROVE g[k] = g[k - 1] + RoundedOff(asks[k])
    OBVIOUS
  <2>1. k \in Nat /\ g[k] = s[k][g[k - 1]] /\ g[k - 1] \in Nat
    BY <1>4 DEF AlongOrders
  <2>2. s[k] = step(k)
    BY <2>1
  <2> HIDE DEF s
  <2> QED BY <2>1, <2>2
<1>7. Lost(g, asks)
  <2>1. \A k \in 0 .. n : k # 0 => k \in 1 .. n
    BY <1>1
  <2>2. \A k \in 0 .. n : g[k] = IF k = 0 THEN 0 ELSE g[k - 1] + RoundedOff(asks[k])
    BY <1>5, <1>6, <2>1
  <2>3. g = [k \in 0 .. n |-> g[k]]
    BY <1>5
  <2> QED BY <2>2, <2>3 DEF Lost, n
<1>8. Lost(h, asks)
  BY <1>7
<1> HIDE DEF h
<1>9. \A k \in 0 .. n : h[k] = IF k = 0 THEN 0 ELSE h[k - 1] + RoundedOff(asks[k])
  BY <1>8 DEF Lost, n
<1>10. h[0] = 0 /\ \A k \in 1 .. n : h[k] = h[k - 1] + RoundedOff(asks[k])
  <2>1. 0 \in 0 .. n /\ \A k \in 1 .. n : k \in 0 .. n /\ k # 0
    BY <1>1
  <2> QED BY <1>9, <2>1
<1>11. \A k \in 0 .. n : h[k] \in Nat
  <2>1. ASSUME NEW k \in 0 + 1 .. n, h[k - 1] \in Nat PROVE h[k] \in Nat
    <3>1. k \in 1 .. n
      OBVIOUS
    <3>2. RoundedOff(asks[k]) \in Nat /\ h[k] = h[k - 1] + RoundedOff(asks[k])
      BY <1>2, <1>10, <3>1
    <3> QED BY <2>1, <3>2
  <2>2. 0 \in Nat /\ h[0] \in Nat
    BY <1>10
  <2> QED BY <1>1, <2>1, <2>2, Along
<1> QED BY <1>10, <1>11 DEF n, h

-----------------------------------------------------------------------------
(* The simulated taker *)

Sim == [done : BOOLEAN, self_match : BOOLEAN, matches : Nat, filled_base_qty : Nat,
        filled_quote_qty : Nat, filled_user_qty : Nat, unfilled_quote_qty : Nat]
Unsimulated(q) ==
  [done |-> FALSE, self_match |-> FALSE, matches |-> 0, filled_base_qty |-> 0,
   filled_quote_qty |-> 0, filled_user_qty |-> 0, unfilled_quote_qty |-> q]

\* One order of the simulation, of a lender or a borrower
Stays(s, t) ==
  /\ t.done /\ t.self_match = s.self_match /\ t.matches = s.matches
  /\ t.filled_quote_qty = s.filled_quote_qty /\ t.unfilled_quote_qty = s.unfilled_quote_qty
FillsShown(s, t, o, action, user) ==
  LET f == Min({o.base_size, fp32_div(s.unfilled_quote_qty, o.price)})
      q == IF action = "Lend" THEN fp32_mul_floor(f, o.price) ELSE fp32_mul_ceil(f, o.price)
  IN  /\ ~t.done /\ t.self_match = (s.self_match \/ o.owner = user) /\ t.matches = s.matches + 1
      /\ t.filled_quote_qty = s.filled_quote_qty + q
      /\ t.unfilled_quote_qty = s.unfilled_quote_qty - q
ShownOver(s, o, action, limit) == s.done \/ s.unfilled_quote_qty = 0 \/ ~Matches(action, o, limit)

LEMMA SimulatedStep ==
  ASSUME NEW o \in Offers, NEW s \in Sim, NEW action \in {"Lend", "Borrow"}, NEW limit, NEW user
  PROVE  LET t == SimulatedFill(s, o, action, limit, user)
         IN  /\ t \in Sim
             /\ ShownOver(s, o, action, limit) => Stays(s, t)
             /\ ~ShownOver(s, o, action, limit) => FillsShown(s, t, o, action, user)
<1> DEFINE t == SimulatedFill(s, o, action, limit, user)
           u == s.unfilled_quote_qty
           p == o.price
           f == Min({o.base_size, fp32_div(u, p)})
           q == IF action = "Lend" THEN fp32_mul_floor(f, p) ELSE fp32_mul_ceil(f, p)
<1>1. o.base_size \in Nat /\ p \in 1 .. ONE /\ u \in Nat
  BY OfferType DEF Sim
<1>2. f \in Nat /\ q \in Nat /\ q <= u
  <2>1. u <= u
    BY <1>1
  <2> QED BY <1>1, <2>1, BothFill
<1>3. loan_to_disburse(q) \in Nat
  <2>1. FEE_UNIT * q \in Nat /\ FEE_UNIT + OriginationFee \in Nat \ {0}
    <3>1. FEE_UNIT \in Nat \ {0} /\ OriginationFee \in Nat
      BY OriginationFeeAssumption
    <3> HIDE DEF q
    <3> QED BY <1>2, <3>1, MulNat
  <2> HIDE DEF q
  <2> QED BY <2>1, DivBounds DEF loan_to_disburse
<1>4. base_to_quote(Opposite(SidePosted(action)), f, p) = q
  BY DEF base_to_quote, Opposite, SidePosted
<1>5. CASE ShownOver(s, o, action, limit)
  <2>1. t = [s EXCEPT !.done = TRUE]
    BY <1>5 DEF SimulatedFill, ShownOver
  <2> HIDE DEF t
  <2> QED BY <1>5, <2>1 DEF Sim, Stays, t
<1>6. CASE ~ShownOver(s, o, action, limit)
  <2> DEFINE self == s.self_match \/ o.owner = user
             user_qty == s.filled_user_qty + loan_to_disburse(q)
             all == s.filled_quote_qty + q
             base == s.filled_base_qty + f
             rest == u - q
  <2>1. t = [s EXCEPT !.self_match = self, !.matches = s.matches + 1, !.filled_base_qty = base,
                      !.filled_quote_qty = all, !.filled_user_qty = user_qty, !.unfilled_quote_qty = rest]
    BY <1>4, <1>6 DEF SimulatedFill, ShownOver
  <2>2. self \in BOOLEAN
    BY DEF Sim
  <2> HIDE DEF t, q, f, self, u
  <2>3. s.matches + 1 \in Nat /\ user_qty \in Nat /\ all \in Nat /\ base \in Nat /\ rest \in Nat
    BY <1>1, <1>2, <1>3 DEF Sim
  <2> HIDE DEF user_qty, all, base, rest
  <2>4. t \in Sim
    BY <2>1, <2>2, <2>3 DEF Sim
  <2>5. /\ t.done = s.done /\ t.self_match = self /\ t.matches = s.matches + 1
        /\ t.filled_quote_qty = all /\ t.unfilled_quote_qty = rest
    BY <2>1 DEF Sim
  <2>6. ~s.done
    BY <1>6 DEF ShownOver
  <2> QED BY <1>6, <2>4, <2>5, <2>6 DEF FillsShown, t, q, f, self, u, all, rest
<1> QED BY <1>5, <1>6

Simulations(g, orders, q, action, limit, user) ==
  g = [k \in 0 .. Len(orders) |->
         IF k = 0 THEN Unsimulated(q) ELSE SimulatedFill(g[k - 1], orders[k], action, limit, user)]

\* s is what the steps g of a simulation end with
InTurn(s, g, orders, total, action, limit, user) ==
  /\ s = g[Len(orders)] /\ g[0] = Unsimulated(total)
  /\ \A k \in 0 .. Len(orders) : g[k] \in Sim
  /\ \A k \in 1 .. Len(orders) : g[k] = SimulatedFill(g[k - 1], orders[k], action, limit, user)

\* The simulation goes through the orders one by one.
LEMMA SimulatedInTurn ==
  ASSUME NEW action \in {"Lend", "Borrow"}, NEW model, NEW orders \in Seq(Offers),
         orders = model[Opposite(SidePosted(action))], NEW q, NEW limit, NEW user,
         NEW total \in Nat, total = IF action = "Lend" THEN q ELSE borrow_order_qty(q)
  PROVE  \E g : InTurn(simulate_taker(model, action, q, limit, user), g, orders, total, action, limit, user)
<1> DEFINE n == Len(orders)
           next(t, k) == SimulatedFill(t, orders[k], action, limit, user)
           step(k) == [t \in Sim |-> IF k \in 1 .. n THEN next(t, k) ELSE t]
           s == [k \in Nat |-> step(k)]
           h == CHOOSE f : Simulations(f, orders, total, action, limit, user)
<1>1. n \in Nat /\ \A k \in 1 .. n : orders[k] \in Offers
  OBVIOUS
<1>2. \A k \in 1 .. n : \A t \in Sim : next(t, k) \in Sim
  BY <1>1, SimulatedStep
<1>3. Unsimulated(total) \in Sim
  BY DEF Unsimulated, Sim
<1>4. simulate_taker(model, action, q, limit, user) = h[n]
  BY DEF simulate_taker, Simulations, Unsimulated
<1> HIDE DEF n, next, h
<1>5. s \in [Nat -> [Sim -> Sim]]
  BY <1>2
<1>6. PICK g : AlongOrders(g, Sim, n, Unsimulated(total), s)
  <2> HIDE DEF s
  <2> QED BY <1>1, <1>3, <1>5, OrderByOrder
<1>7. g \in [0 .. n -> Sim] /\ g[0] = Unsimulated(total)
  BY <1>6 DEF AlongOrders
<1>8. \A k \in 1 .. n : g[k] = next(g[k - 1], k)
  <2> SUFFICES ASSUME NEW k \in 1 .. n PROVE g[k] = next(g[k - 1], k)
    OBVIOUS
  <2>1. k \in Nat /\ g[k] = s[k][g[k - 1]] /\ g[k - 1] \in Sim
    BY <1>6 DEF AlongOrders
  <2>2. s[k] = step(k)
    BY <2>1
  <2> HIDE DEF s
  <2> QED BY <2>1, <2>2
<1>9. Simulations(g, orders, total, action, limit, user)
  <2>1. \A k \in 0 .. n : k # 0 => k \in 1 .. n
    BY <1>1
  <2>2. \A k \in 0 .. n : g[k] = IF k = 0 THEN Unsimulated(total) ELSE next(g[k - 1], k)
    BY <1>7, <1>8, <2>1
  <2>3. g = [k \in 0 .. n |-> g[k]]
    BY <1>7
  <2> QED BY <2>2, <2>3 DEF Simulations, n, next
<1>10. Simulations(h, orders, total, action, limit, user)
  BY <1>9 DEF h
<1>11. \A k \in 0 .. n : h[k] = IF k = 0 THEN Unsimulated(total) ELSE next(h[k - 1], k)
  BY <1>10 DEF Simulations, n, next
<1>12. h[0] = Unsimulated(total) /\ \A k \in 1 .. n : h[k] = next(h[k - 1], k)
  <2>1. 0 \in 0 .. n /\ \A k \in 1 .. n : k \in 0 .. n /\ k # 0
    BY <1>1
  <2> QED BY <1>11, <2>1
<1>13. \A k \in 0 .. n : h[k] \in Sim
  <2>1. ASSUME NEW k \in 0 + 1 .. n, h[k - 1] \in Sim PROVE h[k] \in Sim
    <3>1. k \in 1 .. n
      OBVIOUS
    <3>2. h[k] = next(h[k - 1], k)
      BY <1>12, <3>1
    <3> QED BY <1>2, <2>1, <3>1, <3>2
  <2>2. 0 \in Nat /\ h[0] \in Sim
    BY <1>3, <1>12
  <2> QED BY <1>1, <2>1, <2>2, Along
<1>14. InTurn(h[n], h, orders, total, action, limit, user)
  BY <1>12, <1>13 DEF InTurn, n, next
<1> QED BY <1>4, <1>14

\* A step of the simulation at the worst price: it is over, or an order is filled
\* with all that it can be.
TakesOrder(s, t, o) ==
  \/ /\ s.done \/ s.unfilled_quote_qty = 0
     /\ t.done /\ t.filled_base_qty = s.filled_base_qty /\ t.unfilled_quote_qty = s.unfilled_quote_qty
  \/ LET f == Min({o.base_size, fp32_div(s.unfilled_quote_qty, o.price)})
     IN  /\ t.done = s.done /\ t.filled_base_qty = s.filled_base_qty + f
         /\ t.unfilled_quote_qty = s.unfilled_quote_qty - fp32_mul_floor(f, o.price)

\* One order more of the simulation.
LEMMA FillStep ==
  ASSUME NEW o \in Offers, NEW s \in Sim, NEW user
  PROVE  LET t == SimulatedFill(s, o, "Lend", ONE, user)
         IN  t \in Sim /\ TakesOrder(s, t, o)
<1> DEFINE t == SimulatedFill(s, o, "Lend", ONE, user)
           u == s.unfilled_quote_qty
           p == o.price
           f == Min({o.base_size, fp32_div(u, p)})
           q == fp32_mul_floor(f, p)
<1>1. o.base_size \in Nat /\ p \in 1 .. ONE /\ u \in Nat
  BY OfferType DEF Sim
<1>2. f \in Nat /\ q \in Nat /\ q <= u
  BY <1>1, OneFill
<1>3. loan_to_disburse(q) \in Nat
  <2>1. FEE_UNIT * q \in Nat /\ FEE_UNIT + OriginationFee \in Nat \ {0}
    BY <1>2, OriginationFeeAssumption
  <2> HIDE DEF q
  <2> QED BY <2>1, DivBounds DEF loan_to_disburse
<1>4. Matches("Lend", o, ONE)
  BY <1>1 DEF Matches
<1>5. base_to_quote(Opposite(SidePosted("Lend")), f, p) = q
  BY DEF base_to_quote, Opposite, SidePosted
<1>6. CASE s.done \/ u = 0
  <2>1. t = [s EXCEPT !.done = TRUE]
    BY <1>6 DEF SimulatedFill
  <2> HIDE DEF t
  <2> QED BY <1>6, <2>1 DEF Sim, TakesOrder, t
<1>7. CASE ~(s.done \/ u = 0)
  <2> DEFINE self == s.self_match \/ o.owner = user
  <2>1. t = [s EXCEPT !.self_match = self,
                      !.matches = s.matches + 1,
                      !.filled_base_qty = s.filled_base_qty + f,
                      !.filled_quote_qty = s.filled_quote_qty + q,
                      !.filled_user_qty = s.filled_user_qty + loan_to_disburse(q),
                      !.unfilled_quote_qty = u - q]
    BY <1>4, <1>5, <1>7 DEF SimulatedFill
  <2>2. self \in BOOLEAN
    BY DEF Sim
  <2> DEFINE user_qty == s.filled_user_qty + loan_to_disburse(q)
             all == s.filled_quote_qty + q
             base == s.filled_base_qty + f
             rest == u - q
  <2> HIDE DEF t, q, f, self, u
  <2>5. s.matches + 1 \in Nat /\ user_qty \in Nat /\ all \in Nat /\ base \in Nat /\ rest \in Nat
    BY <1>1, <1>2, <1>3 DEF Sim
  <2> HIDE DEF user_qty, all, base, rest
  <2>3. t \in Sim
    BY <2>1, <2>2, <2>5 DEF Sim, user_qty, all, base, rest
  <2>4. t.done = s.done /\ t.filled_base_qty = s.filled_base_qty + f /\ t.unfilled_quote_qty = u - q
    BY <2>1 DEF Sim
  <2> QED BY <2>3, <2>4 DEF TakesOrder, f, q, t, u
<1> QED BY <1>6, <1>7

\* The same of the simulated lender.
LEMMA SimulationSteps ==
  ASSUME NEW model, model["Ask"] \in Seq(Offers), NEW q \in Nat, NEW user
  PROVE  LET asks == model["Ask"]
         IN  \E g : /\ simulate_taker(model, "Lend", q, ONE, user) = g[Len(asks)] /\ g[0] = Unsimulated(q)
                    /\ \A k \in 0 .. Len(asks) : g[k] \in Sim
                    /\ \A k \in 1 .. Len(asks) : TakesOrder(g[k - 1], g[k], asks[k])
<1> DEFINE asks == model["Ask"]
           n == Len(asks)
<1>1. Opposite(SidePosted("Lend")) = "Ask"
  BY DEF Opposite, SidePosted
<1>2. PICK g : /\ simulate_taker(model, "Lend", q, ONE, user) = g[n] /\ g[0] = Unsimulated(q)
               /\ \A k \in 0 .. n : g[k] \in Sim
               /\ \A k \in 1 .. n : g[k] = SimulatedFill(g[k - 1], asks[k], "Lend", ONE, user)
  <2> HIDE DEF asks
  <2>1. "Lend" \in {"Lend", "Borrow"} /\ asks \in Seq(Offers) /\ asks = model[Opposite(SidePosted("Lend"))]
        /\ q = IF "Lend" = "Lend" THEN q ELSE borrow_order_qty(q)
    BY <1>1 DEF asks
  <2>2. \E g : InTurn(simulate_taker(model, "Lend", q, ONE, user), g, asks, q, "Lend", ONE, user)
    BY <2>1, SimulatedInTurn
  <2> QED BY <2>2 DEF InTurn
<1>3. \A k \in 1 .. n : TakesOrder(g[k - 1], g[k], asks[k])
  <2> SUFFICES ASSUME NEW k \in 1 .. n PROVE TakesOrder(g[k - 1], g[k], asks[k])
    OBVIOUS
  <2>1. k - 1 \in 0 .. n /\ asks[k] \in Offers
    OBVIOUS
  <2> HIDE DEF asks, n
  <2>2. g[k - 1] \in Sim /\ g[k] = SimulatedFill(g[k - 1], asks[k], "Lend", ONE, user)
    BY <1>2, <2>1
  <2> QED BY <2>1, <2>2, FillStep
<1> QED BY <1>2, <1>3

-----------------------------------------------------------------------------
(* A point of the chart can be had                                         *)

\* A point is that of its last order, and up to there each order adds to it.
LEMMA PointOf ==
  ASSUME NEW asks \in Seq(Offers), NEW g, g[0] = NoPoint,
         \A j \in 0 .. Len(asks) : g[j] \in Point,
         \A j \in 1 .. Len(asks) : g[j] = NextPoint(g[j - 1], asks[j], j)
  PROVE  \A j \in 0 .. Len(asks) :
           LET m == g[j].orders
           IN  /\ m \in 0 .. j /\ g[m].base = g[j].base /\ g[m].quote = g[j].quote
               /\ \A i \in 1 .. m : /\ g[i].base = g[i - 1].base + asks[i].base_size
                                    /\ g[i].quote = g[i - 1].quote + OfferQuote(asks[i])
<1> DEFINE n == Len(asks)
           Adds(i) == /\ g[i].base = g[i - 1].base + asks[i].base_size
                      /\ g[i].quote = g[i - 1].quote + OfferQuote(asks[i])
           Known(j) == LET m == g[j].orders
                       IN  /\ m \in 0 .. j /\ g[m].base = g[j].base /\ g[m].quote = g[j].quote
                           /\ \A i \in 1 .. m : Adds(i)
           P == {j \in Nat : j \in 0 .. n => Known(j) /\ (g[j].quote < MaxQty => g[j].orders = j)}
<1>1. n \in Nat /\ MaxQty \in Nat
  BY OrderbookAssumption
<1>2. 0 \in P
  <2>1. g[0].orders = 0
    BY DEF NoPoint
  <2> QED BY <2>1
<1>3. ASSUME NEW l \in Nat, l \in P PROVE l + 1 \in P
  <2> DEFINE k == l + 1
  <2> SUFFICES ASSUME k \in 0 .. n PROVE Known(k) /\ (g[k].quote < MaxQty => g[k].orders = k)
    OBVIOUS
  <2>1. k - 1 = l /\ k \in 1 .. n /\ l \in 0 .. n /\ k \in Nat
    BY <1>1
  <2>2. Known(l) /\ (g[l].quote < MaxQty => g[l].orders = l)
    BY <1>3, <2>1
  <2>3. g[k] = NextPoint(g[l], asks[k], k) /\ g[l].quote \in Nat
    BY <2>1 DEF Point
  <2> HIDE DEF k
  <2>4. CASE g[l].quote >= MaxQty
    <3>1. g[k] = g[l]
      BY <2>3, <2>4 DEF NextPoint
    <3>2. ~(g[l].quote < MaxQty)
      BY <1>1, <2>3, <2>4
    <3>3. \A m : m \in 0 .. l => m \in 0 .. k
      BY <2>1
    <3> HIDE DEF Adds
    <3> QED BY <2>2, <3>1, <3>2, <3>3
  <2>5. CASE ~(g[l].quote >= MaxQty)
    <3>1. g[l].orders = l
      BY <1>1, <2>2, <2>3, <2>5
    <3>2. g[k] = [base |-> g[l].base + asks[k].base_size,
                  quote |-> g[l].quote + OfferQuote(asks[k]), orders |-> k]
      BY <2>3, <2>5 DEF NextPoint
    <3>3. g[k].orders = k /\ Adds(k)
      BY <2>1, <3>2
    <3>4. \A i \in 1 .. k : i = k \/ i \in 1 .. l
      BY <2>1
    <3>5. \A i \in 1 .. k : Adds(i)
      <4> HIDE DEF Adds
      <4> QED BY <2>2, <3>1, <3>3, <3>4
    <3>6. k \in 0 .. k
      BY <2>1
    <3> HIDE DEF Adds
    <3> QED BY <3>3, <3>5, <3>6
  <2> QED BY <2>4, <2>5
<1>4. Nat \subseteq P
  <2> HIDE DEF P
  <2> QED BY <1>2, <1>3, NatSetInduction
<1>5. \A j \in 0 .. n : Known(j)
  <2> HIDE DEF Known
  <2> QED BY <1>1, <1>4
<1> QED BY <1>5

\* One order more of the lender who has at least what the orders from here on cost:
\* he keeps at least what the orders behind cost, and the order's tickets are his,
\* but for what rounding takes off.
LEMMA LenderTakes ==
  ASSUME NEW o \in Offers, NEW s \in Sim, NEW t \in Sim, TakesOrder(s, t, o),
         s.done => s.unfilled_quote_qty = 0,
         NEW rest \in Nat, s.unfilled_quote_qty >= OfferQuote(o) + rest
  PROVE  /\ t.done => t.unfilled_quote_qty = 0
         /\ t.unfilled_quote_qty >= rest
         /\ o.base_size <= RoundedOff(o) + (t.filled_base_qty - s.filled_base_qty)
<1> DEFINE b == o.base_size
           p == o.price
           u == s.unfilled_quote_qty
           q == OfferQuote(o)
           d == fp32_div(q, p)
           off == RoundedOff(o)
           f == Min({b, fp32_div(u, p)})
           paid == fp32_mul_floor(f, p)
<1>1. /\ b \in Nat /\ p \in 1 .. ONE /\ q \in Nat /\ q = fp32_mul_floor(b, p) /\ u \in Nat
      /\ s.filled_base_qty \in Nat /\ t.filled_base_qty \in Nat /\ t.unfilled_quote_qty \in Nat
  BY OfferType DEF Sim
<1>2. off = b - d /\ d \in Nat
  BY RoundedOffNat
<1>3. u >= q + rest
  OBVIOUS
<1>4. /\ f \in Nat /\ f <= b /\ paid \in Nat /\ paid <= q /\ paid <= u
      /\ q <= u => d <= f
  <2> HIDE DEF b, p, u, q
  <2> QED BY <1>1, OneFill
<1>5. q <= u
  BY <1>1, <1>3
<1>6. CASE /\ s.done \/ u = 0
           /\ t.done /\ t.filled_base_qty = s.filled_base_qty /\ t.unfilled_quote_qty = u
  <2>1. u = 0 /\ q = 0 /\ rest = 0
    BY <1>1, <1>3, <1>6
  <2>2. d = 0
    <3>1. 0 * ONE = 0 /\ p \in Nat \ {0} /\ 0 \div p = 0
      BY <1>1, OrderbookAssumption
    <3> HIDE DEF q, p
    <3> QED BY <2>1, <3>1 DEF fp32_div
  <2> HIDE DEF b, off, d, u, q
  <2> QED BY <1>1, <1>2, <1>6, <2>1, <2>2 DEF b, off, u
<1>7. CASE /\ t.done = s.done /\ t.filled_base_qty = s.filled_base_qty + f
           /\ t.unfilled_quote_qty = u - paid
  <2> HIDE DEF b, off, d, u, q, f, paid
  <2>1. t.unfilled_quote_qty >= rest
    BY <1>1, <1>3, <1>4, <1>5, <1>7
  <2>2. t.filled_base_qty - s.filled_base_qty = f
    BY <1>1, <1>4, <1>7
  <2>3. b <= off + f
    BY <1>1, <1>2, <1>4, <1>5
  <2>4. t.done => t.unfilled_quote_qty = 0
    <3>1. t.done => u = 0
      BY <1>7 DEF u
    <3> QED BY <1>1, <1>4, <1>7, <3>1
  <2> QED BY <2>1, <2>2, <2>3, <2>4 DEF b, off
<1> QED BY <1>6, <1>7 DEF TakesOrder

\* The tickets that a lender has do not become fewer.
LEMMA LenderKeeps ==
  ASSUME NEW o \in Offers, NEW s \in Sim, NEW t \in Sim, TakesOrder(s, t, o)
  PROVE  t.filled_base_qty >= s.filled_base_qty
<1>1. /\ o.base_size \in Nat /\ o.price \in 1 .. ONE /\ s.unfilled_quote_qty \in Nat
      /\ s.filled_base_qty \in Nat /\ t.filled_base_qty \in Nat
  BY OfferType DEF Sim
<1>2. Min({o.base_size, fp32_div(s.unfilled_quote_qty, o.price)}) \in Nat
  BY <1>1, OneFill
<1> DEFINE f == Min({o.base_size, fp32_div(s.unfilled_quote_qty, o.price)})
<1> HIDE DEF f
<1>3. t.filled_base_qty = s.filled_base_qty \/ t.filled_base_qty = s.filled_base_qty + f
  BY DEF TakesOrder, f
<1> QED BY <1>1, <1>2, <1>3 DEF f

\* Somebody who lends the quote of a point gets its tickets, but for what is rounded off.
LEMMA PointFilled ==
  ASSUME NEW model, model["Ask"] \in Seq(Offers),
         NEW k \in 0 .. Len(model["Ask"]), NEW user
  PROVE  LET g == sample_liquidity(model, "Ask", MaxQty)
             w == CHOOSE f : Lost(f, model["Ask"])
         IN  g[k].base <= w[g[k].orders] + simulate_taker(model, "Lend", g[k].quote, ONE, user).filled_base_qty
<1> DEFINE asks == model["Ask"]
           n == Len(asks)
           g == sample_liquidity(model, "Ask", MaxQty)
           w == CHOOSE f : Lost(f, asks)
           m == g[k].orders
           all == g[k].quote
           got == simulate_taker(model, "Lend", all, ONE, user).filled_base_qty
<1>1. n \in Nat /\ \A j \in 1 .. n : asks[j] \in Offers
  OBVIOUS
<1>2. /\ g[0] = NoPoint /\ \A j \in 0 .. n : g[j] \in Point
      /\ \A j \in 1 .. n : g[j] = NextPoint(g[j - 1], asks[j], j)
  BY ChartSteps
<1>3. /\ w[0] = 0 /\ \A j \in 0 .. n : w[j] \in Nat
      /\ \A j \in 1 .. n : w[j] = w[j - 1] + RoundedOff(asks[j])
  BY LostSteps
<1> HIDE DEF g, w
<1>4. /\ m \in 0 .. k /\ g[m].base = g[k].base /\ g[m].quote = all
      /\ \A i \in 1 .. m : /\ g[i].base = g[i - 1].base + asks[i].base_size
                           /\ g[i].quote = g[i - 1].quote + OfferQuote(asks[i])
  BY <1>2, PointOf
<1> HIDE DEF m
<1>5. m \in Nat /\ m <= n /\ \A j \in 0 .. m : j \in 0 .. n
  BY <1>1, <1>4
<1>6. \A j \in 0 .. m : g[j].base \in Nat /\ g[j].quote \in Nat
  BY <1>2, <1>5 DEF Point
<1>7. all \in Nat
  BY <1>2, <1>1 DEF Point
<1> HIDE DEF all, n
<1>8. PICK h : /\ simulate_taker(model, "Lend", all, ONE, user) = h[n] /\ h[0] = Unsimulated(all)
               /\ \A j \in 0 .. n : h[j] \in Sim
               /\ \A j \in 1 .. n : TakesOrder(h[j - 1], h[j], asks[j])
  BY <1>7, SimulationSteps DEF n
<1> HIDE DEF asks
<1>9. \A j \in 1 .. m : j - 1 \in 0 .. m /\ j \in 0 .. m /\ j \in 1 .. n /\ OfferQuote(asks[j]) \in Nat
  <2> SUFFICES ASSUME NEW j \in 1 .. m
               PROVE  j - 1 \in 0 .. m /\ j \in 0 .. m /\ j \in 1 .. n /\ OfferQuote(asks[j]) \in Nat
    OBVIOUS
  <2>1. j - 1 \in 0 .. m /\ j \in 0 .. m /\ j \in 1 .. n
    BY <1>1, <1>5
  <2> QED BY <1>1, <2>1, OfferType
<1>10. \A j \in 0 .. m : g[j].quote <= all
  <2> DEFINE P == {l \in Nat : l \in 0 .. m => \A j \in 0 .. l : g[j].quote <= g[l].quote}
  <2>1. 0 \in P
    <3>1. \A j \in 0 .. 0 : j = 0
      OBVIOUS
    <3>2. g[0].quote <= g[0].quote
      BY <1>5, <1>6
    <3> QED BY <3>1, <3>2
  <2>2. ASSUME NEW l \in Nat, l \in P PROVE l + 1 \in P
    <3> SUFFICES ASSUME l + 1 \in 0 .. m, NEW j \in 0 .. l + 1 PROVE g[j].quote <= g[l + 1].quote
      OBVIOUS
    <3>1. l \in 0 .. m /\ l + 1 \in 1 .. m /\ (l + 1) - 1 = l /\ (j = l + 1 \/ j \in 0 .. l) /\ j \in 0 .. m
      BY <1>5
    <3>2. g[l + 1].quote = g[l].quote + OfferQuote(asks[l + 1]) /\ OfferQuote(asks[l + 1]) \in Nat
      BY <1>4, <1>9, <3>1
    <3>3. g[l].quote \in Nat /\ g[j].quote \in Nat
      BY <1>6, <3>1
    <3>4. j \in 0 .. l => g[j].quote <= g[l].quote
      BY <2>2, <3>1
    <3> DEFINE a == g[l].quote
               b == OfferQuote(asks[l + 1])
               c == g[j].quote
               d == g[l + 1].quote
    <3>5. d = a + b /\ b \in Nat /\ a \in Nat /\ c \in Nat
      BY <3>2, <3>3
    <3>6. c <= a \/ c = d
      BY <3>1, <3>4
    <3> HIDE DEF a, b, c, d
    <3>7. c <= d
      BY <3>5, <3>6
    <3> QED BY <3>7 DEF c, d
  <2>3. Nat \subseteq P
    <3> HIDE DEF P
    <3> QED BY <2>1, <2>2, NatSetInduction
  <2>4. m \in P /\ m \in 0 .. m
    BY <1>5, <2>3
  <2> QED BY <1>4, <2>4
<1> DEFINE Has(j) == /\ h[j].done => h[j].unfilled_quote_qty = 0
                     /\ h[j].unfilled_quote_qty >= all - g[j].quote
                     /\ g[j].base <= w[j] + h[j].filled_base_qty
           Q == {j \in Nat : j \in 0 .. m => Has(j)}
<1>11. 0 \in Q
  <2>1. /\ h[0].done = FALSE /\ h[0].unfilled_quote_qty = all /\ h[0].filled_base_qty = 0
        /\ g[0].quote = 0 /\ g[0].base = 0 /\ w[0] = 0
    BY <1>2, <1>3, <1>8 DEF Unsimulated, NoPoint
  <2> QED BY <1>7, <2>1
<1>12. ASSUME NEW l \in Nat, l \in Q PROVE l + 1 \in Q
  <2> DEFINE j == l + 1
  <2> SUFFICES ASSUME j \in 0 .. m PROVE Has(j)
    OBVIOUS
  <2>1. l \in 0 .. m /\ j \in 1 .. m /\ j - 1 = l
    BY <1>5
  <2>2. Has(l)
    BY <1>12, <2>1
  <2> HIDE DEF j
  <2>3. j \in 1 .. n /\ l \in 0 .. n /\ j \in 0 .. n /\ j \in 0 .. m
    BY <1>5, <1>9, <2>1
  <2> DEFINE o == asks[j]
             rest == all - g[j].quote
  <2>4. /\ o \in Offers /\ h[l] \in Sim /\ h[j] \in Sim /\ TakesOrder(h[l], h[j], o)
        /\ g[j].base = g[l].base + o.base_size /\ g[j].quote = g[l].quote + OfferQuote(o)
        /\ w[j] = w[l] + RoundedOff(o)
    BY <1>1, <1>3, <1>4, <1>8, <2>1, <2>3
  <2>5. /\ g[l].base \in Nat /\ g[l].quote \in Nat /\ g[j].quote \in Nat /\ g[j].quote <= all
        /\ OfferQuote(o) \in Nat /\ o.base_size \in Nat /\ RoundedOff(o) \in Nat /\ w[l] \in Nat
        /\ h[l].filled_base_qty \in Nat /\ h[j].filled_base_qty \in Nat
        /\ h[l].unfilled_quote_qty \in Nat /\ h[j].unfilled_quote_qty \in Nat
    <3>1. g[l].base \in Nat /\ g[l].quote \in Nat /\ g[j].quote \in Nat /\ g[j].quote <= all
      BY <1>6, <1>10, <2>1, <2>3
    <3>2. OfferQuote(o) \in Nat /\ o.base_size \in Nat /\ RoundedOff(o) \in Nat
      BY <2>4, OfferType, RoundedOffNat
    <3>3. w[l] \in Nat
      BY <1>3, <2>3
    <3> QED BY <2>4, <3>1, <3>2, <3>3 DEF Sim
  <2> HIDE DEF o
  <2>6. rest \in Nat /\ h[l].unfilled_quote_qty >= OfferQuote(o) + rest
    <3> DEFINE gl == g[l].quote
               gj == g[j].quote
               u == h[l].unfilled_quote_qty
               q == OfferQuote(o)
    <3>1. gj = gl + q /\ gj <= all /\ gl \in Nat /\ gj \in Nat /\ q \in Nat /\ u \in Nat /\ all \in Nat
      BY <1>7, <2>4, <2>5
    <3>2. u >= all - gl
      BY <2>2
    <3> HIDE DEF gl, gj, u, q
    <3>3. all - gj \in Nat /\ u >= q + (all - gj)
      BY <3>1, <3>2
    <3> QED BY <3>3 DEF gj, u, q
  <2> HIDE DEF rest
  <2>7. h[l].done => h[l].unfilled_quote_qty = 0
    BY <2>2
  <2>8. /\ h[j].done => h[j].unfilled_quote_qty = 0
        /\ h[j].unfilled_quote_qty >= rest
        /\ o.base_size <= RoundedOff(o) + (h[j].filled_base_qty - h[l].filled_base_qty)
    BY <2>4, <2>6, <2>7, LenderTakes
  <2>9. g[j].base <= w[j] + h[j].filled_base_qty
    <3>1. g[l].base <= w[l] + h[l].filled_base_qty
      BY <2>2
    <3> DEFINE gl == g[l].base
               gj == g[j].base
               wl == w[l]
               wj == w[j]
               hl == h[l].filled_base_qty
               hj == h[j].filled_base_qty
               b == o.base_size
               off == RoundedOff(o)
    <3>2. gj = gl + b /\ wj = wl + off /\ b <= off + (hj - hl) /\ gl <= wl + hl
      BY <2>4, <2>8, <3>1
    <3>3. /\ gl \in Nat /\ b \in Nat /\ wl \in Nat /\ off \in Nat /\ hl \in Nat /\ hj \in Nat
      BY <2>5
    <3> HIDE DEF gl, gj, wl, wj, hl, hj, b, off
    <3>4. gj <= wj + hj
      BY <3>2, <3>3
    <3> QED BY <3>4 DEF gj, wj, hj
  <2> QED BY <2>8, <2>9 DEF rest
<1>13. Has(m)
  <2>1. Nat \subseteq Q
    <3> HIDE DEF Q
    <3> QED BY <1>11, <1>12, NatSetInduction
  <2>2. m \in Nat /\ m \in 0 .. m
    BY <1>5
  <2> HIDE DEF Has
  <2> QED BY <2>1, <2>2
<1> DEFINE have == h[m].filled_base_qty
           Least == {x \in Nat : x >= have}
           R == [i \in 0 .. n |-> h[i].filled_base_qty]
<1>14. \A j \in 0 .. n : h[j].filled_base_qty \in Nat
  BY <1>8 DEF Sim
<1>15. \A j \in m .. n : R[j] \in Least
  <2>1. R[m] \in Least /\ m \in 0 .. n
    BY <1>5, <1>14, <1>1
  <2>2. ASSUME NEW j \in m + 1 .. n, R[j - 1] \in Least PROVE R[j] \in Least
    <3>1. j \in 1 .. n /\ j - 1 \in 0 .. n /\ j \in 0 .. n
      BY <1>1, <1>5
    <3>2. h[j].filled_base_qty >= h[j - 1].filled_base_qty
      BY <1>1, <1>8, <3>1, LenderKeeps
    <3>3. R[j] = h[j].filled_base_qty /\ R[j - 1] = h[j - 1].filled_base_qty
      BY <3>1
    <3>4. R[j] \in Nat /\ R[j - 1] \in Nat /\ have \in Nat
      BY <1>14, <2>1, <3>1, <3>3
    <3> HIDE DEF R, have
    <3> QED BY <2>2, <3>2, <3>3, <3>4
  <2> HIDE DEF R, Least
  <2> QED BY <1>1, <1>5, <2>1, <2>2, Along
<1>16. h[n].filled_base_qty >= have
  <2>1. n \in m .. n /\ n \in 0 .. n
    BY <1>1, <1>5
  <2>2. R[n] \in Least /\ R[n] = h[n].filled_base_qty
    BY <1>15, <2>1
  <2> HIDE DEF R
  <2> QED BY <2>2
<1>17. g[k].base <= w[m] + h[n].filled_base_qty
  <2>1. g[m].base <= w[m] + have /\ w[m] \in Nat /\ have \in Nat /\ h[n].filled_base_qty \in Nat /\ g[m].base \in Nat
    BY <1>1, <1>3, <1>5, <1>6, <1>13, <1>14
  <2> HIDE DEF have
  <2> QED BY <1>4, <1>16, <2>1
<1> QED BY <1>8, <1>17 DEF g, w, m, n, asks, all, got

-----------------------------------------------------------------------------
(* The orders of the book                                                  *)

BookSides == {"Bid", "Ask"}
BookOrder == [id : Nat, price : 1 .. ONE, base : Nat, info : [owner : Traders]]
BookEvent == [tag : {"Fill", "Out"}, side : BookSides, info : [owner : Traders], base : Nat, price : 1 .. ONE]
Match == [base : Nat, quote : Nat, book : Seq(BookOrder), events : Seq(BookEvent),
          stopped : BOOLEAN, aborted : BOOLEAN]
BookTyped == market_book \in [BookSides -> Seq(BookOrder)]

\* the terms of an order that a user can ask for
OrderTerms(p) ==
  /\ p.max_ticket_qty \in Nat /\ p.max_underlying_token_qty \in Nat /\ p.limit_price \in 1 .. ONE

\* One step of the matching leaves orders.
LEMMA MatchStepType ==
  ASSUME NEW m \in Match, NEW o \in BookOrder, NEW side \in BookSides, NEW p, OrderTerms(p),
         NEW info \in [owner : Traders]
  PROVE  MatchOne(m, o, side, p, info) \in Match
<1> DEFINE n == MatchOne(m, o, side, p, info)
           qty == TradeQty(m, o)
           left == o.base - qty
           opp == Opposite(side)
           cost == quote_from_base(qty, o.price)
           out == m.stopped \/ p.post_only \/ ~Crosses(side, p.limit_price, o.price) \/ qty = 0
<1>1. /\ o.base \in Nat /\ o.price \in 1 .. ONE /\ o.info \in [owner : Traders] /\ o.id \in Nat
      /\ m.base \in Nat /\ m.quote \in Nat /\ m.stopped \in BOOLEAN /\ m.aborted \in BOOLEAN
      /\ m.book \in Seq(BookOrder) /\ m.events \in Seq(BookEvent) /\ opp \in BookSides
  BY DEF BookOrder, Match, Opposite, BookSides
<1>2. fp32_div(m.quote, o.price) \in Nat
  BY <1>1, OneRounding
<1>3. qty \in Nat /\ qty <= o.base /\ qty <= m.base /\ qty <= fp32_div(m.quote, o.price)
  BY <1>1, <1>2, MinThree DEF TradeQty
<1>4. cost \in Nat /\ cost <= m.quote
  BY <1>1, <1>3, OneRounding, Buys DEF quote_from_base
<1>5. CASE out
  <2>1. n = [m EXCEPT !.stopped = TRUE, !.book = m.book \o <<o>>]
    BY <1>5 DEF MatchOne
  <2>2. m.book \o <<o>> \in Seq(BookOrder)
    BY <1>1
  <2> HIDE DEF n
  <2> QED BY <1>1, <2>1, <2>2 DEF Match, n
<1>6. CASE ~out
  <2> DEFINE less == [o EXCEPT !.base = left]
             fill == Fill(opp, o, qty)
             gone == Out(opp, o, left)
             bk == IF left < MinBase THEN m.book ELSE m.book \o <<less>>
             ev == m.events \o (IF left < MinBase THEN <<fill, gone>> ELSE <<fill>>)
             ab == m.aborted \/ o.info.owner = info.owner
  <2>1. n = [m EXCEPT !.aborted = ab, !.base = m.base - qty, !.quote = m.quote - cost,
                      !.book = bk, !.events = ev]
    BY <1>6 DEF MatchOne
  <2>2. left \in Nat /\ m.base - qty \in Nat /\ m.quote - cost \in Nat
    BY <1>1, <1>3, <1>4
  <2>3. less \in BookOrder
    BY <1>1, <2>2 DEF BookOrder
  <2>4. fill \in BookEvent /\ gone \in BookEvent
    BY <1>1, <1>3, <2>2 DEF Fill, Out, BookEvent
  <2> HIDE DEF n, less, fill, gone, left, qty, cost
  <2>5. bk \in Seq(BookOrder) /\ ev \in Seq(BookEvent) /\ ab \in BOOLEAN
    BY <1>1, <2>3, <2>4
  <2> HIDE DEF bk, ev, ab
  <2> QED BY <1>1, <2>1, <2>2, <2>5 DEF Match, n
<1> QED BY <1>5, <1>6

Untaken(p) ==
  [base |-> p.max_ticket_qty, quote |-> p.max_underlying_token_qty,
   book |-> <<>>, events |-> <<>>, stopped |-> FALSE, aborted |-> FALSE]
Takings(g, orders, side, p, info) ==
  g = [k \in 0 .. Len(orders) |->
         IF k = 0 THEN Untaken(p) ELSE MatchOne(g[k - 1], orders[k], side, p, info)]

\* The matching goes through the orders one by one.
LEMMA MatchedInTurn ==
  ASSUME NEW orders \in Seq(BookOrder), NEW side \in BookSides, NEW p, OrderTerms(p),
         NEW info \in [owner : Traders]
  PROVE  \E g : /\ MatchAll(orders, side, p, info) = g[Len(orders)] /\ g[0] = Untaken(p)
                /\ \A k \in 0 .. Len(orders) : g[k] \in Match
                /\ \A k \in 1 .. Len(orders) : g[k] = MatchOne(g[k - 1], orders[k], side, p, info)
<1> DEFINE n == Len(orders)
           next(m, k) == MatchOne(m, orders[k], side, p, info)
           step(k) == [m \in Match |-> IF k \in 1 .. n THEN next(m, k) ELSE m]
           s == [k \in Nat |-> step(k)]
           h == CHOOSE f : Takings(f, orders, side, p, info)
<1>1. n \in Nat /\ \A k \in 1 .. n : orders[k] \in BookOrder
  OBVIOUS
<1>2. \A k \in 1 .. n : \A m \in Match : next(m, k) \in Match
  BY <1>1, MatchStepType
<1>3. Untaken(p) \in Match
  <2>1. <<>> \in Seq(BookOrder) /\ <<>> \in Seq(BookEvent)
    OBVIOUS
  <2> QED BY <2>1 DEF Untaken, Match, OrderTerms
<1>4. MatchAll(orders, side, p, info) = h[n]
  BY DEF MatchAll, Takings, Untaken
<1> HIDE DEF n, next, h
<1>5. s \in [Nat -> [Match -> Match]]
  BY <1>2
<1>6. PICK g : AlongOrders(g, Match, n, Untaken(p), s)
  <2> HIDE DEF s
  <2> QED BY <1>1, <1>3, <1>5, OrderByOrder
<1>7. g \in [0 .. n -> Match] /\ g[0] = Untaken(p)
  BY <1>6 DEF AlongOrders
<1>8. \A k \in 1 .. n : g[k] = next(g[k - 1], k)
  <2> SUFFICES ASSUME NEW k \in 1 .. n PROVE g[k] = next(g[k - 1], k)
    OBVIOUS
  <2>1. k \in Nat /\ g[k] = s[k][g[k - 1]] /\ g[k - 1] \in Match
    BY <1>6 DEF AlongOrders
  <2>2. s[k] = step(k)
    BY <2>1
  <2> HIDE DEF s
  <2> QED BY <2>1, <2>2
<1>9. Takings(g, orders, side, p, info)
  <2>1. \A k \in 0 .. n : k # 0 => k \in 1 .. n
    BY <1>1
  <2>2. \A k \in 0 .. n : g[k] = IF k = 0 THEN Untaken(p) ELSE next(g[k - 1], k)
    BY <1>7, <1>8, <2>1
  <2>3. g = [k \in 0 .. n |-> g[k]]
    BY <1>7
  <2> QED BY <2>2, <2>3 DEF Takings, n, next
<1>10. Takings(h, orders, side, p, info)
  BY <1>9 DEF h
<1>11. \A k \in 0 .. n : h[k] = IF k = 0 THEN Untaken(p) ELSE next(h[k - 1], k)
  BY <1>10 DEF Takings, n, next
<1>12. ASSUME NEW k \in 0 + 1 .. n, h[k - 1] \in Match PROVE h[k] \in Match
  <2>1. k \in 0 .. n /\ k # 0 /\ k \in 1 .. n
    BY <1>1
  <2>2. h[k] = next(h[k - 1], k)
    BY <1>11, <2>1
  <2> QED BY <1>2, <1>12, <2>1, <2>2
<1>13. h[0] = Untaken(p) /\ h[0] \in Match
  <2>1. 0 \in 0 .. n
    BY <1>1
  <2> QED BY <1>3, <1>11, <2>1
<1>14. \A k \in 0 .. n : h[k] \in Match
  <2>1. 0 \in Nat
    OBVIOUS
  <2> QED BY <1>1, <1>12, <1>13, <2>1, Along
<1>15. \A k \in 1 .. n : h[k] = next(h[k - 1], k)
  <2>1. \A k \in 1 .. n : k \in 0 .. n /\ k # 0
    BY <1>1
  <2> QED BY <1>11, <2>1
<1> QED BY <1>4, <1>13, <1>14, <1>15 DEF n, next

\* The matching with all orders leaves orders.
LEMMA MatchType ==
  ASSUME NEW orders \in Seq(BookOrder), NEW side \in BookSides, NEW p, OrderTerms(p),
         NEW info \in [owner : Traders]
  PROVE  MatchAll(orders, side, p, info) \in Match
<1>1. Len(orders) \in 0 .. Len(orders)
  OBVIOUS
<1> QED BY <1>1, MatchedInTurn

\* An order goes between others.
LEMMA InsertType ==
  ASSUME NEW orders \in Seq(BookOrder), NEW o \in BookOrder, NEW side
  PROVE  Insert(orders, o, side) \in Seq(BookOrder)
<1> DEFINE n == Len(orders)
           ahead == {i \in DOMAIN orders : ~Better(side, o.price, orders[i].price)}
           at == Cardinality(ahead)
           none == [x \in BookOrder |-> 0]
<1>1. n \in Nat /\ ahead \subseteq 1 .. n
  OBVIOUS
<1>2. Insert(orders, o, side) = SubSeq(orders, 1, at) \o <<o>> \o SubSeq(orders, at + 1, Len(orders))
  BY DEF Insert
<1> HIDE DEF ahead, n
<1>3. IsFiniteSet(1 .. n) /\ Cardinality(1 .. n) = IF 1 > n THEN 0 ELSE n - 1 + 1
  BY <1>1, FS_Interval
<1>4. IsFiniteSet(ahead) /\ at <= Cardinality(1 .. n) /\ at \in Nat
  BY <1>1, <1>3, FS_Subset, FS_CardinalityType
<1>5. at \in 0 .. Len(orders)
  BY <1>1, <1>3, <1>4 DEF n
<1> HIDE DEF at, none
<1>6. none \in [BookOrder -> Int]
  BY DEF none
<1> QED BY <1>2, <1>5, <1>6, WeightInsert

\* A new order leaves a book.
LEMMA NewOrderType ==
  ASSUME BookTyped, NEW side \in BookSides, NEW p, OrderTerms(p), NEW user \in Traders
  PROVE  new_order(market_book, side, p, [owner |-> user], 0).book \in [BookSides -> Seq(BookOrder)]
<1> DEFINE info == [owner |-> user]
           opp == Opposite(side)
           m == MatchAll(market_book[opp], side, p, info)
           crossed == m.book # <<>> /\ Crosses(side, p.limit_price, m.book[1].price)
           afford == fp32_div(m.quote, p.limit_price)
           qty == Min({m.base, afford})
           posted == IF p.post_allowed /\ ~crossed /\ qty >= MinBase THEN qty ELSE 0
           order == [id |-> 0, price |-> p.limit_price, base |-> posted, info |-> info]
           own == IF posted > 0 THEN Insert(market_book[side], order, side) ELSE market_book[side]
<1>1. opp \in BookSides /\ opp # side /\ info \in [owner : Traders]
  BY DEF Opposite, BookSides
<1>2. market_book[opp] \in Seq(BookOrder) /\ market_book[side] \in Seq(BookOrder)
  BY <1>1 DEF BookTyped
<1>3. m \in Match
  BY <1>1, <1>2, MatchType
<1>4. new_order(market_book, side, p, info, 0).book = [market_book EXCEPT ![opp] = m.book, ![side] = own]
  BY <1>1 DEF new_order
<1> HIDE DEF m, opp, info
<1>5. m.base \in Nat /\ m.quote \in Nat /\ m.book \in Seq(BookOrder)
  BY <1>3 DEF Match
<1>6. afford \in Nat
  BY <1>5, OneRounding DEF OrderTerms
<1> HIDE DEF afford
<1>7. qty \in Nat
  BY <1>5, <1>6, MinTwo
<1> HIDE DEF qty, crossed
<1>8. posted \in Nat
  BY <1>7
<1> HIDE DEF posted
<1>9. order \in BookOrder
  BY <1>1, <1>8 DEF BookOrder, OrderTerms
<1> HIDE DEF order
<1>10. own \in Seq(BookOrder)
  BY <1>2, <1>9, InsertType
<1> HIDE DEF own
<1>11. [market_book EXCEPT ![opp] = m.book, ![side] = own] \in [BookSides -> Seq(BookOrder)]
  BY <1>1, <1>5, <1>10 DEF BookTyped
<1> QED BY <1>4, <1>11 DEF info

\* The terms of the orders that users place
LEMMA UserTerms ==
  ASSUME NEW qty \in TradeSizes, NEW price \in TradePrices, NEW options
  PROVE  LET p == OrderParams(MaxQty, qty, price, options)
         IN  OrderTerms(p) /\ OrderTerms(add_origination_fee(p))
<1> DEFINE p == OrderParams(MaxQty, qty, price, options)
<1>1. qty \in Nat /\ MaxQty \in Nat /\ price \in 1 .. ONE
  BY OrderbookAssumption, OrderbookModelAssumption
<1>2. /\ p.max_ticket_qty = MaxQty /\ p.max_underlying_token_qty = qty /\ p.limit_price = price
  BY DEF OrderParams
<1>3. ASSUME NEW a \in Nat PROVE borrow_order_qty(a) \in Nat
  <2> DEFINE b == 1 + a + (a * OriginationFee) \div FEE_UNIT
  <2>1. a * OriginationFee \in Nat /\ FEE_UNIT \in Nat \ {0}
    BY OriginationFeeAssumption
  <2>2. b \in Nat
    BY <2>1, DivBounds
  <2> HIDE DEF b
  <2>3. Min({MaxQty, b}) \in Nat
    BY <1>1, <2>2, MinTwo
  <2>4. borrow_order_qty(a) = 0 \/ borrow_order_qty(a) = a \/ borrow_order_qty(a) = Min({MaxQty, b})
    BY OriginationFeeAssumption DEF borrow_order_qty, b
  <2> QED BY <2>3, <2>4
<1>4. add_origination_fee(p) = [p EXCEPT !.max_ticket_qty = borrow_order_qty(MaxQty),
                                        !.max_underlying_token_qty = borrow_order_qty(qty)]
  BY <1>2 DEF add_origination_fee
<1>5. /\ add_origination_fee(p).max_ticket_qty = borrow_order_qty(MaxQty)
      /\ add_origination_fee(p).max_underlying_token_qty = borrow_order_qty(qty)
      /\ add_origination_fee(p).limit_price = price
  BY <1>2, <1>4 DEF OrderParams
<1> HIDE DEF p
<1>6. OrderTerms(p)
  BY <1>1, <1>2 DEF OrderTerms
<1>7. OrderTerms(add_origination_fee(p))
  BY <1>1, <1>3, <1>5 DEF OrderTerms
<1> QED BY <1>6, <1>7 DEF p

\* A user's order or cancellation leaves a book.
LEMMA BookStep ==
  ASSUME BookTyped, [BookNext]_market_book
  PROVE  BookTyped'
<1>1. ASSUME NEW action \in {"Lend", "Borrow"}, NEW user \in Traders, NEW qty \in TradeSizes,
             NEW price \in TradePrices, NEW options, place_order(action, user, qty, price, options)
      PROVE  BookTyped'
  <2> DEFINE params == OrderParams(MaxQty, qty, price, options)
             p == IF action = "Lend" THEN params ELSE add_origination_fee(params)
  <2>1. OrderTerms(p)
    BY UserTerms
  <2>2. SidePosted(action) \in BookSides
    BY DEF SidePosted, BookSides
  <2>3. market_book' = new_order(market_book, SidePosted(action), p, [owner |-> user], 0).book
    BY <1>1 DEF place_order, Placed
  <2> HIDE DEF p
  <2> QED BY <2>1, <2>2, <2>3, NewOrderType DEF BookTyped
<1>2. ASSUME NEW side \in {"Bid", "Ask"}, NEW n \in 1 .. MaxDepth, cancel_order(side, n)
      PROVE  BookTyped'
  <2> DEFINE orders == market_book[side]
             less == SubSeq(orders, 1, n - 1) \o SubSeq(orders, n + 1, Len(orders))
             none == [x \in BookOrder |-> 0]
  <2>1. orders \in Seq(BookOrder) /\ side \in BookSides
    BY DEF BookTyped, BookSides
  <2>2. n \in 1 .. Len(orders)
    BY <1>2, <2>1 DEF cancel_order
  <2>3. market_book' = [market_book EXCEPT ![side] = less]
    BY <1>2 DEF cancel_order
  <2>4. none \in [BookOrder -> Int]
    OBVIOUS
  <2> HIDE DEF none, orders
  <2>5. less \in Seq(BookOrder)
    BY <2>1, <2>2, <2>4, WeightWithout
  <2> HIDE DEF less
  <2> QED BY <2>1, <2>3, <2>5 DEF BookTyped
<1>3. CASE UNCHANGED market_book
  BY <1>3 DEF BookTyped
<1> QED BY <1>1, <1>2, <1>3 DEF BookNext

\* In a book of orders, every point of the chart can be had.
LEMMA TypedIsFillable == BookTyped => ChartIsFillable
<1> SUFFICES ASSUME BookTyped PROVE ChartIsFillable
  OBVIOUS
<1> DEFINE model == refresh(market_book)
           asks == model["Ask"]
           chart == sample_liquidity(model, "Ask", MaxQty)
           w == CHOOSE f : Lost(f, asks)
<1>1. asks \in Seq(Offers)
  <2> DEFINE orders == market_book["Ask"]
  <2>1. orders \in Seq(BookOrder)
    BY DEF BookTyped, BookSides
  <2>2. asks = [i \in DOMAIN orders |-> [owner |-> orders[i].info.owner,
                                        base_size |-> orders[i].base, price |-> orders[i].price]]
    BY DEF refresh
  <2>3. Len(orders) \in Nat /\ DOMAIN orders = 1 .. Len(orders)
    BY <2>1
  <2>4. \A i \in 1 .. Len(orders) :
          [owner |-> orders[i].info.owner, base_size |-> orders[i].base, price |-> orders[i].price] \in Offers
    <3>1. \A i \in 1 .. Len(orders) : orders[i] \in BookOrder
      BY <2>1
    <3> HIDE DEF orders
    <3> QED BY <3>1 DEF BookOrder, Offers
  <2> DEFINE len == Len(orders)
  <2> HIDE DEF model, orders
  <2>5. asks \in [1 .. len -> Offers] /\ len \in Nat
    BY <2>2, <2>3, <2>4 DEF len
  <2> HIDE DEF len
  <2> QED BY <2>5
<1> HIDE DEF model
<1>2. DOMAIN chart = 0 .. Len(asks)
  BY <1>1, ChartSteps
<1>3. worst_price("Lend") = ONE
  BY DEF worst_price
<1>4. \A k \in DOMAIN chart :
        chart[k].base <= w[chart[k].orders]
                           + simulate_taker(model, "Lend", chart[k].quote, ONE, 0).filled_base_qty
  BY <1>1, <1>2, PointFilled
<1> QED BY <1>3, <1>4 DEF ChartIsFillable, Lost, model

\* The chart's liquidity can be had (sample_liquidity against simulate_taker,
\* orderbook.rs:204 and 318): for every book that users' orders and cancellations build, and
\* any prices up to one, sizes, fee and rounding.
THEOREM ChartAlwaysFillable == BookSpec => []ChartIsFillable
<1>1. InitBook => BookTyped
  BY DEF InitBook, EmptyBook, BookTyped, BookSides
<1>2. BookTyped /\ [BookNext]_market_book => BookTyped'
  BY BookStep
<1>3. BookTyped => ChartIsFillable
  BY TypedIsFillable
<1> QED BY <1>1, <1>2, <1>3, PTL DEF BookSpec

-----------------------------------------------------------------------------
(* The simulation next to the matching: the matches among events, and what  *)
(* one order does to each.                                                  *)

LEMMA NoFills == NumFills(<<>>) = 0
<1>1. {i \in DOMAIN <<>> : <<>>[i].tag = "Fill"} = {}
  OBVIOUS
<1> QED BY <1>1, FS_EmptySet DEF NumFills

LEMMA OneFillMore ==
  ASSUME NEW s \in Seq(BookEvent), NEW e \in BookEvent, e.tag = "Fill", NEW x \in BookEvent, x.tag # "Fill"
  PROVE  /\ NumFills(s) \in Nat
         /\ NumFills(s \o <<e>>) = NumFills(s) + 1
         /\ NumFills(s \o <<e, x>>) = NumFills(s) + 1
<1> DEFINE n == Len(s)
           F == {i \in DOMAIN s : s[i].tag = "Fill"}
           a == s \o <<e>>
           b == s \o <<e, x>>
<1>1. n \in Nat /\ DOMAIN s = 1 .. n
  OBVIOUS
<1>2. IsFiniteSet(F) /\ n + 1 \notin F /\ Cardinality(F) \in Nat
  <2>0. 1 \in Int /\ n \in Int /\ F \subseteq 1 .. n
    BY <1>1
  <2>1. IsFiniteSet(1 .. n) /\ F \subseteq 1 .. n
    BY <2>0, FS_Interval
  <2> HIDE DEF F, n
  <2>2. n + 1 \notin 1 .. n
    BY <1>1
  <2> QED BY <2>1, <2>2, FS_Subset, FS_CardinalityType
<1>3. Cardinality(F \cup {n + 1}) = Cardinality(F) + 1
  BY <1>2, FS_AddElement
<1>4. DOMAIN a = 1 .. n + 1 /\ (\A i \in 1 .. n : a[i] = s[i]) /\ a[n + 1] = e
  BY <1>1
<1>5. DOMAIN b = 1 .. n + 2 /\ (\A i \in 1 .. n : b[i] = s[i]) /\ b[n + 1] = e /\ b[n + 2] = x
  BY <1>1
<1>6. {i \in DOMAIN a : a[i].tag = "Fill"} = F \cup {n + 1}
  <2>1. \A i : i \in 1 .. n + 1 <=> i \in 1 .. n \/ i = n + 1
    BY <1>1
  <2>2. n + 1 \notin 1 .. n
    BY <1>1
  <2> HIDE DEF a, n
  <2> QED BY <1>1, <1>4, <2>1, <2>2
<1>7. {i \in DOMAIN b : b[i].tag = "Fill"} = F \cup {n + 1}
  <2>1. \A i : i \in 1 .. n + 2 <=> i \in 1 .. n \/ i = n + 1 \/ i = n + 2
    BY <1>1
  <2> HIDE DEF b, n
  <2> QED BY <1>1, <1>5, <2>1
<1> QED BY <1>2, <1>3, <1>6, <1>7 DEF NumFills

\* One order of the matching

MatchOver(m, o, side, limit) == m.stopped \/ m.quote = 0 \/ ~Crosses(side, limit, o.price)
Passes(m, n, o) ==
  /\ n.stopped /\ n.base = m.base /\ n.quote = m.quote /\ n.aborted = m.aborted /\ n.events = m.events
  /\ n.book = m.book \o <<o>>
FillsOrder(m, n, o, user) ==
  LET f == Min({o.base, fp32_div(m.quote, o.price)})
      left == o.base - f
  IN  /\ ~n.stopped /\ n.aborted = (m.aborted \/ o.info.owner = user)
      /\ n.base = m.base - f /\ n.quote = m.quote - fp32_mul_floor(f, o.price)
      /\ NumFills(n.events) = NumFills(m.events) + 1
      /\ n.book = IF left < MinBase THEN m.book ELSE m.book \o <<[o EXCEPT !.base = left]>>

\* p are the terms of an order at a limit that may be posted
Limit(p, limit) == OrderTerms(p) /\ p.limit_price = limit /\ p.post_only = FALSE /\ p.post_allowed = TRUE

LEMMA MatchStep ==
  ASSUME NEW m \in Match, NEW o \in BookOrder, NEW side \in BookSides, NEW limit \in 1 .. ONE, NEW p, Limit(p, limit),
         NEW user \in Traders, o.base >= MinBase, m.base >= o.base
  PROVE  LET n == MatchOne(m, o, side, p, [owner |-> user])
         IN  /\ n \in Match
             /\ MatchOver(m, o, side, limit) => Passes(m, n, o)
             /\ ~MatchOver(m, o, side, limit) => FillsOrder(m, n, o, user)
<1> DEFINE info == [owner |-> user]
           n == MatchOne(m, o, side, p, info)
           qty == TradeQty(m, o)
           d == fp32_div(m.quote, o.price)
           f == Min({o.base, d})
           left == o.base - qty
           opp == Opposite(side)
           out == m.stopped \/ p.post_only \/ ~Crosses(side, p.limit_price, o.price) \/ qty = 0
<1>1. /\ o.base \in Nat /\ o.price \in 1 .. ONE /\ o.info \in [owner : Traders] /\ o.id \in Nat
      /\ m.base \in Nat /\ m.quote \in Nat /\ m.stopped \in BOOLEAN /\ m.aborted \in BOOLEAN
      /\ m.book \in Seq(BookOrder) /\ m.events \in Seq(BookEvent) /\ opp \in BookSides
      /\ o.base >= 1 /\ info \in [owner : Traders]
  BY OrderbookAssumption DEF BookOrder, Match, Opposite, BookSides
<1>2. n \in Match
  BY <1>1, MatchStepType DEF Limit
<1>3. d \in Nat
  BY <1>1, OneRounding
<1>4. qty = f /\ f \in Nat /\ f <= o.base /\ f \in {o.base, d}
  <2>1. f \in Nat /\ f <= o.base /\ f <= d /\ f \in {o.base, d}
    BY <1>1, <1>3, MinTwo
  <2> DEFINE S == {o.base, m.base, d}
  <2>2. f \in S /\ \A x \in S : f <= x
    BY <1>1, <1>3, <2>1
  <2>3. \A x \in S : x \in Int
    BY <1>1, <1>3
  <2>4. Min(S) \in S /\ \A x \in S : Min(S) <= x
    <3> HIDE DEF S
    <3>1. \E x \in S : \A y \in S : x <= y
      BY <2>2
    <3> QED BY <3>1 DEF Min
  <2> HIDE DEF S, f
  <2>5. Min(S) = f
    BY <2>2, <2>3, <2>4
  <2> QED BY <2>1, <2>5 DEF TradeQty, S
<1>5. qty = 0 <=> m.quote = 0
  <2>1. m.quote = 0 => d = 0
    <3>1. \A c \in Nat \ {0} : 0 \div c = 0
      OBVIOUS
    <3>2. o.price \in Nat \ {0} /\ ONE \in Nat
      BY <1>1, OrderbookAssumption
    <3>3. 0 * ONE = 0
      BY <3>2
    <3> QED BY <3>1, <3>2, <3>3 DEF fp32_div
  <2>2. m.quote # 0 => d # 0
    <3> SUFFICES ASSUME m.quote # 0, d = 0 PROVE FALSE
      OBVIOUS
    <3>1. o.price \in Nat \ {0} /\ ONE \in Nat \ {0} /\ o.price <= ONE
      BY <1>1, OrderbookAssumption
    <3>2. m.quote * ONE \in Nat
      BY <1>1, <3>1, MulNat
    <3>3. m.quote * ONE < o.price
      BY <3>1, <3>2, DivBounds DEF fp32_div
    <3>4. 1 \in Nat /\ 1 <= m.quote
      BY <1>1
    <3>5. 1 * ONE <= m.quote * ONE
      BY <1>1, <3>1, <3>4, MulNat
    <3> HIDE DEF d
    <3> QED BY <3>1, <3>2, <3>3, <3>5
  <2> HIDE DEF qty, d, f
  <2>3. m.quote = 0 => f = 0
    BY <1>1, <1>3, <2>1, MinTwo DEF f
  <2> QED BY <1>1, <1>4, <2>2, <2>3
<1>6. out <=> MatchOver(m, o, side, limit)
  BY <1>1, <1>5 DEF MatchOver, Limit
<1>7. CASE out
  <2>1. n = [m EXCEPT !.stopped = TRUE, !.book = m.book \o <<o>>]
    BY <1>7 DEF MatchOne
  <2> HIDE DEF n
  <2>2. Passes(m, n, o)
    BY <2>1 DEF Match, Passes
  <2> QED BY <1>2, <1>6, <1>7, <2>2 DEF n
<1>8. CASE ~out
  <2> DEFINE less == [o EXCEPT !.base = left]
             fill == Fill(opp, o, qty)
             gone == Out(opp, o, left)
             cost == quote_from_base(qty, o.price)
             bk == IF left < MinBase THEN m.book ELSE m.book \o <<less>>
             ev == m.events \o (IF left < MinBase THEN <<fill, gone>> ELSE <<fill>>)
             ab == m.aborted \/ o.info.owner = info.owner
  <2>1. n = [m EXCEPT !.aborted = ab, !.base = m.base - qty, !.quote = m.quote - cost,
                      !.book = bk, !.events = ev]
    BY <1>8 DEF MatchOne
  <2>2. left \in Nat
    BY <1>1, <1>4
  <2>3. fill \in BookEvent /\ gone \in BookEvent /\ fill.tag = "Fill" /\ gone.tag # "Fill"
    BY <1>1, <1>4, <2>2 DEF Fill, Out, BookEvent
  <2>4. NumFills(ev) = NumFills(m.events) + 1
    <3> HIDE DEF fill, gone, left
    <3> QED BY <1>1, <2>3, OneFillMore
  <2> HIDE DEF n, less, qty, cost, ev, bk, ab
  <2>5. /\ n.stopped = m.stopped /\ n.aborted = ab /\ n.base = m.base - qty /\ n.quote = m.quote - cost
        /\ n.book = bk /\ n.events = ev
    BY <2>1 DEF Match
  <2>6. ~m.stopped
    BY <1>8
  <2>7. cost = fp32_mul_floor(f, o.price) /\ ab = (m.aborted \/ o.info.owner = user)
    BY <1>4 DEF cost, ab, quote_from_base
  <2>8. bk = IF o.base - f < MinBase THEN m.book ELSE m.book \o <<[o EXCEPT !.base = o.base - f]>>
    BY <1>4 DEF bk, less
  <2> HIDE DEF f
  <2>9. FillsOrder(m, n, o, user)
    BY <1>4, <2>4, <2>5, <2>6, <2>7, <2>8 DEF FillsOrder, f, d
  <2> QED BY <1>2, <1>6, <1>8, <2>9 DEF n
<1> QED BY <1>7, <1>8

-----------------------------------------------------------------------------
(* The simulation next to the matching: all orders                         *)

\* what the client is shown of an order
Shown(o) == [owner |-> o.info.owner, base_size |-> o.base, price |-> o.price]

\* The simulation never is ahead of the program; the lender's keeps pace.
Pace(action, s, m, total) ==
  /\ m.quote - s.unfilled_quote_qty \in 0 .. NumFills(m.events) /\ NumFills(m.events) \in Nat
  /\ s.self_match => m.aborted
  /\ s.matches <= NumFills(m.events)
  /\ m.stopped => s.done
  /\ s.done => m.stopped \/ s.unfilled_quote_qty = 0
  /\ s.filled_quote_qty + s.unfilled_quote_qty = total
  /\ action = "Lend" => /\ m.quote = s.unfilled_quote_qty /\ m.aborted = s.self_match
                        /\ s.matches = NumFills(m.events) /\ s.done = m.stopped

LEMMA ShownType ==
  ASSUME NEW o \in BookOrder
  PROVE  Shown(o) \in Offers /\ Shown(o).owner = o.info.owner /\ Shown(o).base_size = o.base /\ Shown(o).price = o.price
BY DEF BookOrder, Shown, Offers

\* One order later
LEMMA PaceStep ==
  ASSUME NEW action \in {"Lend", "Borrow"}, NEW s \in Sim, NEW m \in Match, NEW o \in BookOrder,
         NEW limit \in 1 .. ONE, NEW p, Limit(p, limit), NEW user \in Traders, NEW total,
         o.base >= MinBase, m.base >= o.base, Pace(action, s, m, total)
  PROVE  Pace(action, SimulatedFill(s, Shown(o), action, limit, user),
              MatchOne(m, o, SidePosted(action), p, [owner |-> user]), total)
<1> DEFINE side == SidePosted(action)
           t == SimulatedFill(s, Shown(o), action, limit, user)
           n == MatchOne(m, o, side, p, [owner |-> user])
           u == s.unfilled_quote_qty
           v == m.quote
           f == Min({o.base, fp32_div(u, o.price)})
           g == Min({o.base, fp32_div(v, o.price)})
           q == IF action = "Lend" THEN fp32_mul_floor(f, o.price) ELSE fp32_mul_ceil(f, o.price)
           r == fp32_mul_floor(g, o.price)
           over == ShownOver(s, Shown(o), action, limit)
           end == MatchOver(m, o, side, limit)
<1>1. o.price \in 1 .. ONE /\ o.base \in Nat /\ u \in Nat /\ v \in Nat
  BY DEF BookOrder, Sim, Match
<1>2. side \in BookSides
  BY DEF SidePosted, BookSides
<1>3. /\ t \in Sim /\ n \in Match
      /\ over => Stays(s, t)
      /\ ~over => FillsShown(s, t, Shown(o), action, user)
      /\ end => Passes(m, n, o)
      /\ ~end => FillsOrder(m, n, o, user)
  BY <1>2, ShownType, SimulatedStep, MatchStep
<1>4. over <=> s.done \/ u = 0 \/ ~Crosses(side, limit, o.price)
  BY <1>1, ShownType DEF ShownOver, Matches, Crosses, SidePosted
<1>5. end <=> m.stopped \/ v = 0 \/ ~Crosses(side, limit, o.price)
  BY DEF MatchOver
<1> DEFINE F == NumFills(m.events)
<1>6. /\ v - u \in 0 .. F /\ F \in Nat /\ (s.self_match => m.aborted) /\ s.matches <= F
      /\ (m.stopped => s.done) /\ (s.done => m.stopped \/ u = 0) /\ s.filled_quote_qty + u = total
      /\ action = "Lend" => v = u /\ m.aborted = s.self_match /\ s.matches = F /\ s.done = m.stopped
  BY DEF Pace
<1>7. u <= v
  BY <1>1, <1>6
<1>8. /\ s.matches \in Nat /\ s.filled_quote_qty \in Nat /\ s.self_match \in BOOLEAN /\ m.aborted \in BOOLEAN
  BY DEF Sim, Match
<1> HIDE DEF t, n, side, over, end, u, v
<1>9. CASE over /\ end
  <2>1. /\ t.done /\ t.self_match = s.self_match /\ t.matches = s.matches
        /\ t.filled_quote_qty = s.filled_quote_qty /\ t.unfilled_quote_qty = u
    BY <1>3, <1>9 DEF Stays, u
  <2>2. n.stopped /\ n.quote = v /\ n.aborted = m.aborted /\ n.events = m.events
    BY <1>3, <1>9 DEF Passes, v
  <2>3. t.done \in BOOLEAN /\ n.stopped \in BOOLEAN
    BY <1>3 DEF Sim, Match
  <2> QED BY <1>6, <2>1, <2>2, <2>3 DEF Pace, t, n, side
<1>10. CASE over /\ ~end
  <2>1. u = 0 /\ ~m.stopped /\ v # 0
    BY <1>4, <1>5, <1>6, <1>10
  <2>2. /\ t.done /\ t.self_match = s.self_match /\ t.matches = s.matches
        /\ t.filled_quote_qty = s.filled_quote_qty /\ t.unfilled_quote_qty = u
    BY <1>3, <1>10 DEF Stays, u
  <2>3. ~n.stopped /\ n.aborted = (m.aborted \/ o.info.owner = user) /\ n.quote = v - r /\ NumFills(n.events) = F + 1
    BY <1>3, <1>10 DEF FillsOrder, v
  <2>4. r \in Nat /\ r <= v
    BY <1>1, <1>7, BothFill
  <2>5. action # "Lend"
    BY <1>1, <1>6, <2>1
  <2> HIDE DEF r, F
  <2>6. n.quote - u \in 0 .. F + 1
    BY <1>1, <1>6, <2>1, <2>3, <2>4
  <2>7. s.matches <= F + 1 /\ F + 1 \in Nat
    BY <1>6, <1>8
  <2> QED BY <1>6, <2>1, <2>2, <2>3, <2>5, <2>6, <2>7 DEF Pace, t, n, side
<1>11. CASE ~over /\ end
  <2>1. v # 0
    BY <1>1, <1>4, <1>7, <1>11
  <2> QED BY <1>4, <1>5, <1>6, <1>11, <2>1
<1>12. CASE ~over /\ ~end
  <2> DEFINE hit == o.info.owner = user
  <2>1. /\ ~t.done /\ t.self_match = (s.self_match \/ hit) /\ t.matches = s.matches + 1
        /\ t.filled_quote_qty = s.filled_quote_qty + q /\ t.unfilled_quote_qty = u - q
    BY <1>3, <1>12, ShownType DEF FillsShown, u
  <2>2. ~n.stopped /\ n.aborted = (m.aborted \/ hit) /\ n.quote = v - r /\ NumFills(n.events) = F + 1
    BY <1>3, <1>12 DEF FillsOrder, v
  <2>3. q \in Nat /\ r \in Nat /\ q <= u /\ r <= v /\ (v - r) - (u - q) \in 0 .. (v - u) + 1 /\ (action = "Lend" => r = q)
    <3>1. CASE action = "Lend"
      <4>1. v = u
        BY <1>6, <3>1
      <4>2. r = q
        BY <3>1, <4>1
      <4>3. r \in Nat /\ r <= v
        BY <1>1, <1>7, BothFill
      <4> HIDE DEF r, q
      <4> QED BY <1>1, <4>1, <4>2, <4>3
    <3>2. CASE action # "Lend"
      <4>1. q = fp32_mul_ceil(f, o.price)
        BY <3>2
      <4>2. /\ fp32_mul_ceil(f, o.price) \in Nat /\ fp32_mul_ceil(f, o.price) <= u /\ r \in Nat /\ r <= v
            /\ (v - r) - (u - fp32_mul_ceil(f, o.price)) \in 0 .. (v - u) + 1
        BY <1>1, <1>7, BothFill
      <4> HIDE DEF r, q, f
      <4> QED BY <3>2, <4>1, <4>2
    <3> QED BY <3>1, <3>2
  <2> HIDE DEF q, r, F, hit
  <2>4. (v - r) - (u - q) \in 0 .. F + 1 /\ F + 1 \in Nat
    BY <1>1, <1>6, <2>3
  <2>5. s.matches + 1 <= F + 1 /\ (s.filled_quote_qty + q) + (u - q) = total
    BY <1>1, <1>6, <1>8, <2>3
  <2>6. action = "Lend" => v - r = u - q /\ s.matches + 1 = F + 1
    BY <1>6, <2>3
  <2>7. t.done \in BOOLEAN /\ n.stopped \in BOOLEAN
    BY <1>3 DEF Sim, Match
  <2>8. t.done = n.stopped
    BY <2>1, <2>2, <2>7
  <2>9. (t.self_match => n.aborted) /\ (action = "Lend" => n.aborted = t.self_match)
    BY <1>6, <2>1, <2>2
  <2> QED BY <2>1, <2>2, <2>4, <2>5, <2>6, <2>8, <2>9 DEF Pace, t, n, side
<1> QED BY <1>9, <1>10, <1>11, <1>12

\* An order of the other side that still is good enough is left behind with one token at most.
FrontSpent(m, side, limit) ==
  /\ m.stopped => m.book # <<>>
  /\ m.book # <<>> /\ Crosses(side, limit, m.book[1].price) => m.quote <= 1

\* Something is matched exactly if the best order of the other side is good enough.
Begun(m, orders, side, limit) ==
  /\ NumFills(m.events) > 0 <=> Crosses(side, limit, orders[1].price)
  /\ NumFills(m.events) = 0 => m.stopped

LEMMA FrontStep ==
  ASSUME NEW m \in Match, NEW n \in Match, NEW o \in BookOrder, NEW side, NEW limit, NEW user,
         MatchOver(m, o, side, limit) => Passes(m, n, o),
         ~MatchOver(m, o, side, limit) => FillsOrder(m, n, o, user), FrontSpent(m, side, limit)
  PROVE  FrontSpent(n, side, limit)
<1>1. /\ m.book \in Seq(BookOrder) /\ m.quote \in Nat /\ o.base \in Nat /\ o.price \in 1 .. ONE /\ MinBase \in Nat \ {0}
  BY OrderbookAssumption DEF Match, BookOrder
<1>2. ASSUME NEW x \in BookOrder
      PROVE  m.book \o <<x>> # <<>> /\ (m.book \o <<x>>)[1] = IF m.book = <<>> THEN x ELSE m.book[1]
  BY <1>1
<1>3. CASE MatchOver(m, o, side, limit)
  <2>1. n.book = m.book \o <<o>> /\ n.quote = m.quote
    BY <1>3 DEF Passes
  <2>2. n.book # <<>> /\ n.book[1] = IF m.book = <<>> THEN o ELSE m.book[1]
    BY <1>2, <2>1
  <2>3. m.book = <<>> => m.quote = 0 \/ ~Crosses(side, limit, o.price)
    BY <1>3 DEF MatchOver, FrontSpent
  <2> QED BY <1>1, <2>1, <2>2, <2>3 DEF FrontSpent
<1>4. CASE ~MatchOver(m, o, side, limit)
  <2> DEFINE d == fp32_div(m.quote, o.price)
             f == Min({o.base, d})
             r == fp32_mul_floor(f, o.price)
             left == o.base - f
             less == [o EXCEPT !.base = left]
  <2>1. ~n.stopped /\ n.quote = m.quote - r /\ n.book = IF left < MinBase THEN m.book ELSE m.book \o <<less>>
    BY <1>4 DEF FillsOrder
  <2>2. d \in Nat /\ f \in Nat /\ f <= o.base /\ f \in {o.base, d} /\ r \in Nat
    <3>1. d \in Nat
      BY <1>1, OneRounding
    <3>2. f \in Nat /\ f <= o.base /\ f \in {o.base, d}
      BY <1>1, <3>1, MinTwo
    <3> QED BY <1>1, <3>1, <3>2, OneRounding
  <2>3. CASE left < MinBase
    <3>1. n.book = m.book
      BY <2>1, <2>3
    <3>2. n.quote <= m.quote
      <4> HIDE DEF r
      <4> QED BY <1>1, <2>1, <2>2
    <3>3. n.quote \in Nat
      BY DEF Match
    <3>4. ~n.stopped
      BY <2>1
    <3>5. m.quote <= 1 => n.quote <= 1
      BY <1>1, <3>2, <3>3
    <3> HIDE DEF f, r, d, left, less
    <3> QED BY <3>1, <3>4, <3>5 DEF FrontSpent
  <2>4. CASE ~(left < MinBase)
    <3>1. f # o.base
      BY <1>1, <2>4
    <3>2. r = fp32_mul_floor(d, o.price)
      BY <2>2, <3>1
    <3>3. m.quote - 1 <= r
      BY <1>1, <3>2, SpentUp
    <3>4. n.quote <= 1
      <4> HIDE DEF r
      <4> QED BY <1>1, <2>1, <2>2, <3>3
    <3>5. ~n.stopped
      BY <2>1
    <3> HIDE DEF f, r, d, left, less
    <3> QED BY <3>4, <3>5 DEF FrontSpent
  <2> QED BY <2>3, <2>4
<1> QED BY <1>3, <1>4

\* the tickets that the orders of a side offer or ask for
OnOffer(orders) == SumOver([i \in DOMAIN orders |-> orders[i].base], DOMAIN orders)

LEMMA Offering ==
  ASSUME NEW orders \in Seq(BookOrder), NEW k \in 1 .. Len(orders)
  PROVE  LET b == [i \in DOMAIN orders |-> orders[i].base]
         IN  /\ SumOver(b, 1 .. k - 1) \in Nat /\ orders[k].base \in Nat /\ OnOffer(orders) \in Nat
             /\ SumOver(b, 1 .. k) = SumOver(b, 1 .. k - 1) + orders[k].base
             /\ SumOver(b, 1 .. k) <= OnOffer(orders)
<1> DEFINE n == Len(orders)
           b == [i \in DOMAIN orders |-> orders[i].base]
<1>1. n \in Nat /\ DOMAIN orders = 1 .. n /\ k \in Nat
  OBVIOUS
<1>2. \A i \in 1 .. n : b[i] \in Nat /\ b[i] = orders[i].base
  <2>1. \A i \in 1 .. n : orders[i] \in BookOrder
    OBVIOUS
  <2> QED BY <1>1, <2>1 DEF BookOrder
<1>3. OnOffer(orders) = SumOver(b, 1 .. n)
  BY <1>1 DEF OnOffer
<1> HIDE DEF n, b
<1>4. 1 .. k = (1 .. k - 1) \cup {k} /\ k \notin 1 .. k - 1 /\ 1 .. k \subseteq 1 .. n /\ 1 .. k - 1 \subseteq 1 .. n /\ k \in 1 .. n
  BY <1>1 DEF n
<1>5. IsFiniteSet(1 .. n) /\ IsFiniteSet(1 .. k) /\ IsFiniteSet(1 .. k - 1)
  <2>1. 1 \in Int /\ n \in Int /\ k \in Int /\ k - 1 \in Int
    BY <1>1
  <2> QED BY <2>1, FS_Interval
<1>6. SumOver(b, 1 .. k) = SumOver(b, 1 .. k - 1) + b[k]
  <2>1. \A y \in (1 .. k - 1) \cup {k} : b[y] \in Int
    BY <1>2, <1>4
  <2>2. SumOver(b, (1 .. k - 1) \cup {k}) = SumOver(b, 1 .. k - 1) + b[k]
    BY <1>4, <1>5, <2>1, SumAdd
  <2> QED BY <1>4, <2>2
<1>7. SumOver(b, 1 .. k - 1) \in Nat /\ SumOver(b, 1 .. n) \in Nat
  BY <1>2, <1>4, <1>5, SumNat
<1>8. SumOver(b, 1 .. k) <= SumOver(b, 1 .. n)
  <2>1. /\ \A x \in 1 .. k : b[x] \in Int /\ b[x] <= b[x]
        /\ \A x \in 1 .. n : b[x] \in Int
        /\ \A x \in (1 .. n) \ (1 .. k) : 0 <= b[x]
    BY <1>2, <1>4
  <2> QED BY <1>4, <1>5, <2>1, SumMonotone
<1>9. b[k] = orders[k].base /\ b[k] \in Nat
  BY <1>2, <1>4
<1> QED BY <1>3, <1>6, <1>7, <1>8, <1>9 DEF b

LEMMA Alongside ==
  ASSUME NEW action \in {"Lend", "Borrow"}, NEW orders \in Seq(BookOrder), NEW limit \in 1 .. ONE, NEW user \in Traders,
         NEW total \in Nat \ {0}, NEW p, Limit(p, limit), p.max_underlying_token_qty = total,
         OnOffer(orders) <= p.max_ticket_qty,
         \A k \in 1 .. Len(orders) : orders[k].base >= MinBase,
         NEW g, g[0] = Unsimulated(total), \A k \in 0 .. Len(orders) : g[k] \in Sim,
         \A k \in 1 .. Len(orders) : g[k] = SimulatedFill(g[k - 1], Shown(orders[k]), action, limit, user),
         NEW h, h[0] = Untaken(p), \A k \in 0 .. Len(orders) : h[k] \in Match,
         \A k \in 1 .. Len(orders) : h[k] = MatchOne(h[k - 1], orders[k], SidePosted(action), p, [owner |-> user])
  PROVE  LET n == Len(orders)
         IN  /\ Pace(action, g[n], h[n], total) /\ FrontSpent(h[n], SidePosted(action), limit)
             /\ n > 0 => Begun(h[n], orders, SidePosted(action), limit)
             /\ p.max_ticket_qty <= h[n].base + OnOffer(orders)
<1> DEFINE n == Len(orders)
           side == SidePosted(action)
           b == [i \in DOMAIN orders |-> orders[i].base]
           Good(k) == /\ Pace(action, g[k], h[k], total) /\ FrontSpent(h[k], side, limit)
                      /\ k > 0 => Begun(h[k], orders, side, limit)
                      /\ p.max_ticket_qty <= h[k].base + SumOver(b, 1 .. k)
           V == {k \in 0 .. n : Good(k)}
           same == [k \in 0 .. n |-> k]
<1>1. n \in Nat /\ side \in BookSides /\ p.max_ticket_qty \in Nat /\ total \in Nat
  BY DEF SidePosted, BookSides, Limit, OrderTerms
<1>2. Good(0)
  <2>1. /\ h[0].quote = total /\ h[0].events = <<>> /\ h[0].stopped = FALSE /\ h[0].aborted = FALSE
        /\ h[0].book = <<>> /\ h[0].base = p.max_ticket_qty
    BY DEF Untaken
  <2>2. /\ g[0].unfilled_quote_qty = total /\ g[0].filled_quote_qty = 0 /\ g[0].matches = 0
        /\ g[0].self_match = FALSE /\ g[0].done = FALSE
    BY DEF Unsimulated
  <2>3. NumFills(h[0].events) = 0
    BY <2>1, NoFills
  <2>4. Pace(action, g[0], h[0], total)
    <3>1. total - total = 0 /\ 0 \in 0 .. 0 /\ 0 <= 0 /\ 0 + total = total /\ 0 \in Nat
      BY <1>1
    <3> DEFINE s == g[0]
               m == h[0]
    <3>2. /\ m.quote = total /\ m.stopped = FALSE /\ m.aborted = FALSE /\ NumFills(m.events) = 0
          /\ s.unfilled_quote_qty = total /\ s.filled_quote_qty = 0 /\ s.matches = 0
          /\ s.self_match = FALSE /\ s.done = FALSE
      BY <2>1, <2>2, <2>3
    <3> HIDE DEF s, m
    <3>3. Pace(action, s, m, total)
      BY <3>1, <3>2 DEF Pace
    <3> QED BY <3>3 DEF s, m
  <2>5. SumOver(b, 1 .. 0) = 0
    <3>1. 1 .. 0 = {}
      OBVIOUS
    <3> QED BY <3>1, SumEmpty
  <2>6. FrontSpent(h[0], side, limit)
    BY <2>1 DEF FrontSpent
  <2> QED BY <1>1, <2>1, <2>4, <2>5, <2>6
<1>3. ASSUME NEW k \in 1 .. n, Good(k - 1) PROVE Good(k)
  <2> DEFINE o == orders[k]
             s == g[k - 1]
             m == h[k - 1]
             t == g[k]
             r == h[k]
  <2>1. /\ k \in Nat /\ k - 1 \in 0 .. n /\ k \in 0 .. n /\ o \in BookOrder /\ o.base >= MinBase /\ o.base \in Nat
        /\ k # 1 => k - 1 > 0
    <3>1. o \in BookOrder
      OBVIOUS
    <3> QED BY <1>1, <3>1 DEF BookOrder
  <2>2. s \in Sim /\ m \in Match /\ t \in Sim /\ r \in Match
    BY <2>1
  <2>3. t = SimulatedFill(s, Shown(o), action, limit, user) /\ r = MatchOne(m, o, side, p, [owner |-> user])
    OBVIOUS
  <2>4. /\ SumOver(b, 1 .. k - 1) \in Nat /\ OnOffer(orders) \in Nat
        /\ SumOver(b, 1 .. k) = SumOver(b, 1 .. k - 1) + o.base /\ SumOver(b, 1 .. k) <= OnOffer(orders)
    BY Offering
  <2>5. m.base \in Nat /\ r.base \in Nat
    BY <2>2 DEF Match
  <2> DEFINE B(j) == SumOver(b, 1 .. j)
  <2>6. /\ Pace(action, s, m, total) /\ FrontSpent(m, side, limit)
        /\ k - 1 > 0 => Begun(m, orders, side, limit)
        /\ p.max_ticket_qty <= m.base + B(k - 1)
    BY <1>3
  <2> HIDE DEF s, m, t, r, o, side, b, Good
  <2>7. m.base >= o.base
    BY <1>1, <2>1, <2>4, <2>5, <2>6
  <2>8. Pace(action, t, r, total)
    BY <2>1, <2>2, <2>3, <2>6, <2>7, PaceStep DEF side
  <2>9. /\ MatchOver(m, o, side, limit) => Passes(m, r, o)
        /\ ~MatchOver(m, o, side, limit) => FillsOrder(m, r, o, user)
    BY <1>1, <2>1, <2>2, <2>3, <2>7, MatchStep
  <2>10. FrontSpent(r, side, limit)
    BY <2>2, <2>1, <2>6, <2>9, FrontStep
  <2>11. m.base - o.base <= r.base
    <3>1. CASE MatchOver(m, o, side, limit)
      <4>1. r.base = m.base
        BY <2>9, <3>1 DEF Passes
      <4> QED BY <2>1, <2>5, <4>1
    <3>2. CASE ~MatchOver(m, o, side, limit)
      <4> DEFINE d == fp32_div(m.quote, o.price)
                 f == Min({o.base, d})
      <4>1. r.base = m.base - f
        BY <2>9, <3>2 DEF FillsOrder
      <4>2. d \in Nat
        <5>1. m.quote \in Nat /\ o.price \in 1 .. ONE
          BY <2>1, <2>2 DEF Match, BookOrder
        <5> QED BY <5>1, OneRounding
      <4>3. f \in Nat /\ f <= o.base
        BY <2>1, <4>2, MinTwo
      <4> HIDE DEF f
      <4> QED BY <2>1, <2>5, <4>1, <4>3
    <3> QED BY <3>1, <3>2
  <2>12. p.max_ticket_qty <= r.base + B(k)
    BY <1>1, <2>1, <2>4, <2>5, <2>6, <2>11
  <2> DEFINE F == NumFills(m.events)
  <2>13. F \in Nat
    BY <2>6 DEF Pace
  <2>14. Begun(r, orders, side, limit)
    <3>1. CASE k = 1
      <4>1. m.stopped = FALSE /\ m.quote = total /\ m.events = <<>>
        BY <3>1 DEF m, Untaken
      <4>2. F = 0
        BY <4>1, NoFills
      <4>3. o = orders[1]
        BY <3>1 DEF o
      <4>4. MatchOver(m, o, side, limit) <=> ~Crosses(side, limit, o.price)
        BY <4>1 DEF MatchOver
      <4>5. CASE MatchOver(m, o, side, limit)
        <5>1. r.stopped /\ r.events = m.events
          BY <2>9, <4>5 DEF Passes
        <5> QED BY <4>2, <4>3, <4>4, <4>5, <5>1 DEF Begun
      <4>6. CASE ~MatchOver(m, o, side, limit)
        <5>1. NumFills(r.events) = F + 1
          BY <2>9, <4>6 DEF FillsOrder
        <5> QED BY <4>2, <4>3, <4>4, <4>6, <5>1 DEF Begun
      <4> QED BY <4>5, <4>6
    <3>2. CASE k # 1
      <4>1. Begun(m, orders, side, limit)
        BY <2>1, <2>6, <3>2
      <4>2. CASE MatchOver(m, o, side, limit)
        <5>1. r.stopped /\ r.events = m.events
          BY <2>9, <4>2 DEF Passes
        <5> QED BY <4>1, <5>1 DEF Begun
      <4>3. CASE ~MatchOver(m, o, side, limit)
        <5>1. NumFills(r.events) = F + 1 /\ ~m.stopped
          BY <2>9, <4>3 DEF FillsOrder, MatchOver
        <5>2. F > 0
          BY <2>13, <4>1, <5>1 DEF Begun
        <5> HIDE DEF F
        <5>3. F + 1 > 0 /\ F + 1 # 0
          BY <2>13
        <5> QED BY <4>1, <5>1, <5>2, <5>3 DEF Begun, F
      <4> QED BY <4>2, <4>3
    <3> QED BY <3>1, <3>2
  <2> QED BY <2>8, <2>10, <2>12, <2>14 DEF Good, t, r
<1>4. n \in V
  <2> HIDE DEF Good
  <2>1. \A k \in 0 .. n : same[k] = k
    OBVIOUS
  <2>2. same[0] \in V
    BY <1>1, <1>2, <2>1
  <2>3. ASSUME NEW k \in 0 + 1 .. n, same[k - 1] \in V PROVE same[k] \in V
    <3>1. k \in 1 .. n /\ k \in 0 .. n /\ k - 1 \in 0 .. n
      BY <1>1
    <3>2. Good(k - 1)
      BY <2>1, <2>3, <3>1
    <3>3. Good(k)
      BY <1>3, <3>1, <3>2
    <3> QED BY <2>1, <3>1, <3>3
  <2> HIDE DEF V, same
  <2>4. \A k \in 0 .. n : same[k] \in V
    BY <1>1, <2>2, <2>3, Along
  <2>5. n \in 0 .. n
    BY <1>1
  <2> QED BY <2>1, <2>4, <2>5
<1>5. SumOver(b, 1 .. n) = OnOffer(orders)
  BY DEF OnOffer
<1> QED BY <1>4, <1>5

-----------------------------------------------------------------------------
(* A book in order                                                         *)

\* of orders that are not too small, best first
Orderly(side, orders) ==
  /\ \A i \in 1 .. Len(orders) : orders[i].base >= MinBase
  /\ \A i, j \in 1 .. Len(orders) : i < j => ~Better(side, orders[j].price, orders[i].price)
BookOrderly == BookTyped /\ \A side \in BookSides : Orderly(side, market_book[side])

LEMMA NotBetter ==
  ASSUME NEW side, NEW a \in Nat, NEW b \in Nat, NEW c \in Nat
  PROVE  /\ ~Better(side, a, b) /\ ~Better(side, b, c) => ~Better(side, a, c)
         /\ Better(side, a, b) => ~Better(side, b, a)
         /\ ~Better(side, a, a)
BY DEF Better

LEMMA PricesOf ==
  ASSUME NEW orders \in Seq(BookOrder)
  PROVE  \A i \in 1 .. Len(orders) : /\ orders[i] \in BookOrder /\ orders[i].price \in Nat
                                     /\ orders[i].base \in Nat
<1>1. \A i \in 1 .. Len(orders) : orders[i] \in BookOrder
  OBVIOUS
<1> QED BY <1>1 DEF BookOrder

\* t is what a new order, behind at others, makes of the orders of its side
InsertedAt(at, t, orders, o, side) ==
  /\ \A i \in 1 .. Len(orders) : i <= at <=> ~Better(side, o.price, orders[i].price)
  /\ t \in Seq(BookOrder) /\ Len(t) = Len(orders) + 1 /\ t[at + 1] = o
  /\ \A i \in 1 .. at : t[i] = orders[i]
  /\ \A i \in at + 1 .. Len(orders) : t[i + 1] = orders[i]

LEMMA InsertPlace ==
  ASSUME NEW orders \in Seq(BookOrder), NEW o \in BookOrder, NEW side, Orderly(side, orders)
  PROVE  \E at \in 0 .. Len(orders) : InsertedAt(at, Insert(orders, o, side), orders, o, side)
<1> DEFINE n == Len(orders)
           ahead == {i \in DOMAIN orders : ~Better(side, o.price, orders[i].price)}
           at == Cardinality(ahead)
<1>1. n \in Nat /\ DOMAIN orders = 1 .. n /\ ahead \subseteq 1 .. n
  OBVIOUS
<1>2. Insert(orders, o, side) = SubSeq(orders, 1, at) \o <<o>> \o SubSeq(orders, at + 1, n)
  BY DEF Insert
<1>3. \A i \in 1 .. n : i \in ahead <=> ~Better(side, o.price, orders[i].price)
  BY <1>1
<1> HIDE DEF ahead, n
<1>4. IsFiniteSet(1 .. n) /\ Cardinality(1 .. n) = n
  <2>1. 1 \in Int /\ n \in Int /\ (1 > n => n = 0) /\ n - 1 + 1 = n
    BY <1>1
  <2> QED BY <2>1, FS_Interval
<1>5. IsFiniteSet(ahead) /\ at \in Nat /\ at <= n
  <2> DEFINE N == 1 .. n
  <2>1. ahead \in SUBSET N /\ IsFiniteSet(N) /\ Cardinality(N) = n
    BY <1>1, <1>4
  <2> HIDE DEF N
  <2>2. IsFiniteSet(ahead) /\ Cardinality(ahead) <= Cardinality(N)
    BY <2>1, FS_Subset
  <2>3. Cardinality(ahead) \in Nat
    BY <2>2, FS_CardinalityType
  <2> QED BY <2>1, <2>2, <2>3
<1>6. ASSUME NEW i \in 1 .. n PROVE i <= at <=> i \in ahead
  <2>1. o.price \in Nat /\ \A j \in 1 .. n : orders[j].price \in Nat
    <3>1. \A j \in 1 .. n : orders[j].price \in Nat
      BY PricesOf DEF n
    <3> QED BY <3>1 DEF BookOrder
  <2>2. i \in Nat /\ i - 1 \in Nat /\ i \in 1 .. i /\ 1 .. i \subseteq 1 .. n
    BY <1>1
  <2>3. /\ IsFiniteSet(1 .. i) /\ Cardinality(1 .. i) = i
        /\ IsFiniteSet(1 .. i - 1) /\ Cardinality(1 .. i - 1) = i - 1
    <3>1. 1 \in Int /\ i \in Int /\ i - 1 \in Int /\ ~(1 > i) /\ i - 1 + 1 = i /\ (1 > i - 1 => i - 1 = 0)
          /\ (i - 1) - 1 + 1 = i - 1
      BY <2>2
    <3> QED BY <3>1, FS_Interval
  <2>4. CASE i \in ahead
    <3>1. 1 .. i \subseteq ahead
      <4> SUFFICES ASSUME NEW j \in 1 .. i PROVE j \in ahead
        OBVIOUS
      <4>1. j \in 1 .. n /\ (j < i \/ j = i)
        BY <2>2
      <4>2. CASE j < i
        <5>1. ~Better(side, orders[i].price, orders[j].price)
          BY <4>1, <4>2 DEF Orderly, n
        <5>2. ~Better(side, o.price, orders[i].price)
          BY <1>3, <2>4
        <5>3. ~Better(side, o.price, orders[j].price)
          BY <2>1, <4>1, <5>1, <5>2, NotBetter
        <5> QED BY <1>3, <4>1, <5>3
      <4> QED BY <2>4, <4>1, <4>2
    <3>2. Cardinality(1 .. i) <= at
      BY <1>5, <3>1, FS_Subset
    <3> QED BY <2>3, <2>4, <3>2
  <2>5. CASE i \notin ahead
    <3>1. ahead \subseteq 1 .. i - 1
      <4> SUFFICES ASSUME NEW j \in ahead PROVE j \in 1 .. i - 1
        OBVIOUS
      <4>1. j \in 1 .. n
        BY <1>1
      <4>2. CASE i < j
        <5>1. ~Better(side, orders[j].price, orders[i].price)
          BY <4>1, <4>2 DEF Orderly, n
        <5>2. ~Better(side, o.price, orders[j].price)
          BY <1>3, <4>1
        <5>3. ~Better(side, o.price, orders[i].price)
          BY <2>1, <4>1, <5>1, <5>2, NotBetter
        <5> QED BY <1>3, <2>5, <5>3
      <4>3. CASE ~(i < j)
        <5>1. j # i
          BY <2>5
        <5> QED BY <1>1, <2>2, <4>1, <4>3, <5>1
      <4> QED BY <4>2, <4>3
    <3>2. at <= Cardinality(1 .. i - 1)
      BY <2>3, <3>1, FS_Subset
    <3>3. at <= i - 1
      BY <2>3, <3>2
    <3> HIDE DEF at
    <3> QED BY <1>5, <2>2, <2>5, <3>3
  <2> QED BY <2>4, <2>5
<1> HIDE DEF at
<1>7. at \in 0 .. n
  BY <1>1, <1>5
<1> DEFINE a == SubSeq(orders, 1, at)
           b == SubSeq(orders, at + 1, n)
           c == <<o>>
           t == a \o c \o b
<1>8. /\ a \in Seq(BookOrder) /\ Len(a) = at /\ \A i \in 1 .. at : a[i] = orders[i]
      /\ b \in Seq(BookOrder) /\ Len(b) = n - at /\ \A i \in 1 .. n - at : b[i] = orders[at + i]
  <2>1. at \in Int /\ 0 <= at /\ at <= n /\ n \in Int /\ 1 \in Int /\ at + 1 \in Int
    BY <1>1, <1>7
  <2>2. \A i \in 1 .. n : orders[i] \in BookOrder
    BY DEF n
  <2>3. (\A i \in 1 .. at : orders[i] \in BookOrder) /\ \A i \in at + 1 .. n : orders[i] \in BookOrder
    BY <2>1, <2>2
  <2>4. /\ a \in Seq(BookOrder) /\ Len(a) = IF 1 <= at THEN at - 1 + 1 ELSE 0
        /\ \A i \in 1 .. at - 1 + 1 : a[i] = orders[1 + i - 1]
    BY <2>1, <2>3, SubSeqProperties
  <2>5. /\ b \in Seq(BookOrder) /\ Len(b) = IF at + 1 <= n THEN n - (at + 1) + 1 ELSE 0
        /\ \A i \in 1 .. n - (at + 1) + 1 : b[i] = orders[at + 1 + i - 1]
    BY <2>1, <2>3, SubSeqProperties
  <2> HIDE DEF a, b
  <2>6. \A i \in 1 .. at : i \in 1 .. at - 1 + 1 /\ 1 + i - 1 = i
    BY <2>1
  <2>7. \A i \in 1 .. n - at : i \in 1 .. n - (at + 1) + 1 /\ at + 1 + i - 1 = at + i
    BY <2>1
  <2>8. (IF 1 <= at THEN at - 1 + 1 ELSE 0) = at /\ (IF at + 1 <= n THEN n - (at + 1) + 1 ELSE 0) = n - at
    BY <2>1
  <2> QED BY <2>4, <2>5, <2>6, <2>7, <2>8
<1>9. c \in Seq(BookOrder) /\ Len(c) = 1 /\ c[1] = o
  OBVIOUS
<1> HIDE DEF a, b, c
<1>10. /\ t \in Seq(BookOrder) /\ Len(t) = n + 1 /\ t[at + 1] = o
       /\ \A i \in 1 .. at : t[i] = orders[i]
       /\ \A i \in at + 1 .. n : t[i + 1] = orders[i]
  <2> DEFINE d == a \o c
  <2>0. at \in Nat /\ n - at \in Nat
    BY <1>1, <1>7
  <2>1. /\ d \in Seq(BookOrder) /\ Len(d) = at + 1 /\ d[at + 1] = o
        /\ \A i \in 1 .. at : d[i] = orders[i]
    <3>1. /\ d \in Seq(BookOrder) /\ Len(d) = at + 1
          /\ \A i \in 1 .. at + 1 : d[i] = IF i <= at THEN a[i] ELSE c[i - at]
      <4>1. /\ d \in Seq(BookOrder) /\ Len(d) = Len(a) + Len(c)
            /\ \A i \in 1 .. Len(a) + Len(c) : d[i] = IF i <= Len(a) THEN a[i] ELSE c[i - Len(a)]
        BY <1>8, <1>9, ConcatProperties
      <4> HIDE DEF d
      <4> QED BY <1>8, <1>9, <4>1
    <3> HIDE DEF d
    <3>2. at + 1 \in 1 .. at + 1 /\ ~(at + 1 <= at) /\ at + 1 - at = 1
      BY <2>0
    <3>3. \A i \in 1 .. at : i \in 1 .. at + 1 /\ i <= at
      BY <2>0
    <3> QED BY <1>8, <1>9, <3>1, <3>2, <3>3
  <2>2. t = d \o b
    OBVIOUS
  <2> HIDE DEF d, t
  <2>3. /\ t \in Seq(BookOrder) /\ Len(t) = (at + 1) + (n - at)
        /\ \A i \in 1 .. at + 1 : t[i] = d[i]
        /\ \A i \in 1 .. n - at : t[(at + 1) + i] = b[i]
    <3>1. /\ t \in Seq(BookOrder) /\ Len(t) = (at + 1) + (n - at)
          /\ \A i \in 1 .. (at + 1) + (n - at) : t[i] = IF i <= at + 1 THEN d[i] ELSE b[i - (at + 1)]
      <4>1. /\ t \in Seq(BookOrder) /\ Len(t) = Len(d) + Len(b)
            /\ \A i \in 1 .. Len(d) + Len(b) : t[i] = IF i <= Len(d) THEN d[i] ELSE b[i - Len(d)]
        BY <1>8, <2>1, <2>2, ConcatProperties
      <4> QED BY <1>8, <2>1, <4>1
    <3>2. \A i \in 1 .. at + 1 : i \in 1 .. (at + 1) + (n - at) /\ i <= at + 1
      BY <2>0
    <3>3. \A i \in 1 .. n - at : /\ (at + 1) + i \in 1 .. (at + 1) + (n - at) /\ ~((at + 1) + i <= at + 1)
                                 /\ ((at + 1) + i) - (at + 1) = i
      BY <2>0
    <3> QED BY <3>1, <3>2, <3>3
  <2>4. Len(t) = n + 1 /\ at + 1 \in 1 .. at + 1 /\ \A i \in 1 .. at : i \in 1 .. at + 1
    BY <1>1, <1>7, <2>3
  <2>5. ASSUME NEW i \in at + 1 .. n PROVE t[i + 1] = orders[i]
    <3>1. i - at \in 1 .. n - at /\ (at + 1) + (i - at) = i + 1 /\ at + (i - at) = i
      BY <1>1, <1>7
    <3> QED BY <1>8, <2>3, <3>1
  <2> QED BY <2>1, <2>3, <2>4, <2>5
<1> HIDE DEF t
<1>11. Insert(orders, o, side) = t
  BY <1>2 DEF t, a, b, c
<1>12. \A i \in 1 .. n : i <= at <=> ~Better(side, o.price, orders[i].price)
  BY <1>3, <1>6
<1>13. InsertedAt(at, t, orders, o, side)
  BY <1>10, <1>12 DEF InsertedAt, n
<1> QED BY <1>7, <1>11, <1>13 DEF n

LEMMA InsertOrderly ==
  ASSUME NEW orders \in Seq(BookOrder), NEW o \in BookOrder, NEW side, Orderly(side, orders), o.base >= MinBase
  PROVE  Orderly(side, Insert(orders, o, side))
<1> DEFINE n == Len(orders)
           t == Insert(orders, o, side)
<1>0. PICK at \in 0 .. n : InsertedAt(at, t, orders, o, side)
  BY InsertPlace
<1>1. /\ \A i \in 1 .. n : i <= at <=> ~Better(side, o.price, orders[i].price)
      /\ t \in Seq(BookOrder) /\ Len(t) = n + 1 /\ t[at + 1] = o
      /\ \A i \in 1 .. at : t[i] = orders[i]
      /\ \A i \in at + 1 .. n : t[i + 1] = orders[i]
  BY <1>0 DEF InsertedAt
<1>2. n \in Nat /\ at \in Nat /\ o.price \in Nat
  BY DEF BookOrder
<1>3. \A i \in 1 .. n : orders[i].price \in Nat /\ orders[i].base >= MinBase
  BY PricesOf DEF Orderly
<1>4. \A i, j \in 1 .. n : i < j => ~Better(side, orders[j].price, orders[i].price)
  BY DEF Orderly
<1> HIDE DEF n, t
<1>5. ASSUME NEW i \in 1 .. n + 1
      PROVE  \/ i \in 1 .. at /\ i \in 1 .. n /\ t[i] = orders[i]
             \/ i = at + 1 /\ t[i] = o
             \/ i - 1 \in at + 1 .. n /\ i - 1 \in 1 .. n /\ t[i] = orders[i - 1]
  <2>1. CASE i <= at
    <3>1. i \in 1 .. at /\ i \in 1 .. n
      BY <1>2, <2>1
    <3> QED BY <1>1, <3>1
  <2>2. CASE i = at + 1
    BY <1>1, <2>2
  <2>3. CASE i > at + 1
    <3>1. i - 1 \in at + 1 .. n /\ i - 1 \in 1 .. n /\ (i - 1) + 1 = i
      BY <1>2, <2>3
    <3> QED BY <1>1, <3>1
  <2> QED BY <1>2, <2>1, <2>2, <2>3
<1>6. \A i \in 1 .. n + 1 : t[i].base >= MinBase
  BY <1>3, <1>5
<1>7. ASSUME NEW i \in 1 .. n + 1, NEW j \in 1 .. n + 1, i < j
      PROVE  ~Better(side, t[j].price, t[i].price)
  <2>1. CASE i \in 1 .. at /\ i \in 1 .. n /\ t[i] = orders[i]
    <3>1. CASE j \in 1 .. at /\ j \in 1 .. n /\ t[j] = orders[j]
      BY <1>4, <1>7, <2>1, <3>1
    <3>2. CASE j = at + 1 /\ t[j] = o
      <4>1. i <= at
        BY <2>1
      <4> QED BY <1>1, <2>1, <3>2, <4>1
    <3>3. CASE j - 1 \in at + 1 .. n /\ j - 1 \in 1 .. n /\ t[j] = orders[j - 1]
      <4>1. i < j - 1
        BY <1>2, <2>1, <3>3
      <4> QED BY <1>4, <2>1, <3>3, <4>1
    <3> QED BY <1>5, <3>1, <3>2, <3>3
  <2>2. CASE i = at + 1 /\ t[i] = o
    <3>1. j - 1 \in at + 1 .. n /\ j - 1 \in 1 .. n /\ t[j] = orders[j - 1] /\ ~(j - 1 <= at)
      BY <1>2, <1>5, <1>7, <2>2
    <3>2. Better(side, o.price, orders[j - 1].price)
      BY <1>1, <3>1
    <3>3. ~Better(side, orders[j - 1].price, o.price)
      BY <1>2, <1>3, <3>1, <3>2, NotBetter
    <3> QED BY <2>2, <3>1, <3>3
  <2>3. CASE i - 1 \in at + 1 .. n /\ i - 1 \in 1 .. n /\ t[i] = orders[i - 1]
    <3>1. j - 1 \in 1 .. n /\ t[j] = orders[j - 1] /\ i - 1 < j - 1
      BY <1>2, <1>5, <1>7, <2>3
    <3> QED BY <1>4, <2>3, <3>1
  <2> QED BY <1>5, <2>1, <2>2, <2>3
<1> QED BY <1>1, <1>6, <1>7 DEF Orderly, t

LEMMA AppendOrderly ==
  ASSUME NEW s \in Seq(BookOrder), NEW side, Orderly(side, s), NEW x \in BookOrder, x.base >= MinBase,
         \A i \in 1 .. Len(s) : ~Better(side, x.price, s[i].price)
  PROVE  Orderly(side, s \o <<x>>)
<1> DEFINE n == Len(s)
           t == s \o <<x>>
<1>1. n \in Nat /\ Len(t) = n + 1 /\ t[n + 1] = x /\ \A i \in 1 .. n : t[i] = s[i]
  OBVIOUS
<1>2. /\ \A i \in 1 .. n : s[i].base >= MinBase
      /\ \A i, j \in 1 .. n : i < j => ~Better(side, s[j].price, s[i].price)
  BY DEF Orderly
<1> HIDE DEF t, n
<1>3. \A i \in 1 .. n + 1 : i \in 1 .. n \/ i = n + 1
  BY <1>1
<1>4. \A i \in 1 .. n + 1 : t[i].base >= MinBase
  BY <1>1, <1>2, <1>3
<1>5. ASSUME NEW i \in 1 .. n + 1, NEW j \in 1 .. n + 1, i < j PROVE ~Better(side, t[j].price, t[i].price)
  <2>1. i \in 1 .. n
    BY <1>1, <1>3, <1>5
  <2> QED BY <1>1, <1>2, <1>3, <1>5, <2>1 DEF n
<1> QED BY <1>1, <1>4, <1>5 DEF Orderly, t

\* b are orders a and perhaps, behind them, what is left of an order
KeepsOrder(b, a, o) ==
  \/ b = a
  \/ \E x \in BookOrder : x.price = o.price /\ x.base >= MinBase /\ x.base <= o.base /\ b = a \o <<x>>

\* What matching an order leaves of it keeps its place and its price.
LEMMA KeepStep ==
  ASSUME NEW m \in Match, NEW o \in BookOrder, NEW side \in BookSides, NEW p, OrderTerms(p),
         NEW info \in [owner : Traders], o.base >= MinBase
  PROVE  KeepsOrder(MatchOne(m, o, side, p, info).book, m.book, o)
<1> DEFINE n == MatchOne(m, o, side, p, info)
           qty == TradeQty(m, o)
           left == o.base - qty
           less == [o EXCEPT !.base = left]
           out == m.stopped \/ p.post_only \/ ~Crosses(side, p.limit_price, o.price) \/ qty = 0
<1>1. o.base \in Nat /\ o.price \in 1 .. ONE /\ m.base \in Nat /\ m.quote \in Nat
  BY DEF BookOrder, Match
<1>2. qty \in Nat /\ qty <= o.base
  <2>1. fp32_div(m.quote, o.price) \in Nat
    BY <1>1, OneRounding
  <2> QED BY <1>1, <2>1, MinThree DEF TradeQty
<1>3. less \in BookOrder /\ less.price = o.price /\ less.base = left /\ left <= o.base
  <2>1. left \in Nat /\ left <= o.base
    BY <1>1, <1>2
  <2> HIDE DEF left
  <2> QED BY <2>1 DEF BookOrder
<1>4. CASE out
  <2>1. n.book = m.book \o <<o>>
    <3>1. n = [m EXCEPT !.stopped = TRUE, !.book = m.book \o <<o>>]
      BY <1>4 DEF MatchOne
    <3> QED BY <3>1 DEF Match
  <2>2. o.base <= o.base
    BY <1>1
  <2> HIDE DEF n
  <2>3. KeepsOrder(n.book, m.book, o)
    BY <2>1, <2>2 DEF KeepsOrder
  <2> QED BY <2>3 DEF n
<1>5. CASE ~out
  <2>1. n.book = IF left < MinBase THEN m.book ELSE m.book \o <<less>>
    <3> DEFINE fill == Fill(Opposite(side), o, qty)
               gone == Out(Opposite(side), o, left)
               bk == IF left < MinBase THEN m.book ELSE m.book \o <<less>>
               ev == m.events \o (IF left < MinBase THEN <<fill, gone>> ELSE <<fill>>)
               ab == m.aborted \/ o.info.owner = info.owner
               cost == quote_from_base(qty, o.price)
    <3>1. n = [m EXCEPT !.aborted = ab, !.base = m.base - qty, !.quote = m.quote - cost,
                        !.book = bk, !.events = ev]
      BY <1>5 DEF MatchOne
    <3> HIDE DEF n, qty, left, less, fill, gone, bk, ev, ab, cost
    <3>2. n.book = bk
      BY <3>1 DEF Match
    <3> QED BY <3>2 DEF bk
  <2>2. MinBase \in Nat /\ left \in Int
    BY <1>1, <1>2, OrderbookAssumption
  <2> HIDE DEF n, left, less
  <2>3. CASE left < MinBase
    BY <2>1, <2>3 DEF KeepsOrder, n
  <2>4. CASE ~(left < MinBase)
    <3>1. left >= MinBase
      BY <2>2, <2>4
    <3> QED BY <1>3, <2>1, <2>4, <3>1 DEF KeepsOrder, n
  <2> QED BY <2>3, <2>4
<1> QED BY <1>4, <1>5

\* What a new order leaves of the orders it may match is in order.
LEMMA MatchedOrderly ==
  ASSUME NEW orders \in Seq(BookOrder), NEW side \in BookSides, NEW p, OrderTerms(p),
         NEW info \in [owner : Traders], Orderly(Opposite(side), orders)
  PROVE  Orderly(Opposite(side), MatchAll(orders, side, p, info).book)
<1> DEFINE n == Len(orders)
           opp == Opposite(side)
<1>1. n \in Nat /\ \A k \in 1 .. n : orders[k] \in BookOrder
  OBVIOUS
<1>2. PICK g : /\ MatchAll(orders, side, p, info) = g[n] /\ g[0] = Untaken(p)
               /\ \A k \in 0 .. n : g[k] \in Match
               /\ \A k \in 1 .. n : g[k] = MatchOne(g[k - 1], orders[k], side, p, info)
  BY MatchedInTurn
<1> DEFINE Ordered(k) == /\ Orderly(opp, g[k].book)
                         /\ \A i \in 1 .. Len(g[k].book), j \in k + 1 .. n :
                              ~Better(opp, orders[j].price, g[k].book[i].price)
           V == {k \in 0 .. n : Ordered(k)}
           same == [k \in 0 .. n |-> k]
<1>3. /\ \A k \in 1 .. n : orders[k].base >= MinBase
      /\ \A i, j \in 1 .. n : i < j => ~Better(opp, orders[j].price, orders[i].price)
  BY DEF Orderly
<1>4. Ordered(0)
  <2>1. g[0].book = <<>>
    BY <1>2 DEF Untaken
  <2> QED BY <2>1 DEF Orderly
<1>5. ASSUME NEW k \in 1 .. n, Ordered(k - 1) PROVE Ordered(k)
  <2> DEFINE o == orders[k]
             a == g[k - 1].book
             b == g[k].book
  <2>1. k \in Nat /\ k - 1 \in 0 .. n /\ k \in 0 .. n /\ k \in (k - 1) + 1 .. n
        /\ (\A j \in k + 1 .. n : j \in (k - 1) + 1 .. n /\ j \in 1 .. n /\ k < j)
    BY <1>1
  <2>2. g[k - 1] \in Match /\ a \in Seq(BookOrder) /\ o \in BookOrder /\ o.base >= MinBase
    BY <1>1, <1>2, <1>3, <2>1 DEF Match
  <2>3. KeepsOrder(b, a, o)
    BY <1>2, <2>2, KeepStep
  <2>4. /\ Orderly(opp, a)
        /\ \A i \in 1 .. Len(a), j \in (k - 1) + 1 .. n : ~Better(opp, orders[j].price, a[i].price)
    BY <1>5
  <2> HIDE DEF a, b, opp, n
  <2>5. \A i \in 1 .. Len(a), j \in k + 1 .. n : ~Better(opp, orders[j].price, a[i].price)
    BY <2>1, <2>4
  <2>6. CASE b = a
    BY <2>4, <2>5, <2>6 DEF a, b
  <2>7. ASSUME NEW x \in BookOrder, x.price = o.price, x.base >= MinBase, b = a \o <<x>> PROVE Ordered(k)
    <3>1. \A i \in 1 .. Len(a) : ~Better(opp, x.price, a[i].price)
      BY <2>1, <2>4, <2>7
    <3>2. Orderly(opp, b)
      BY <2>2, <2>4, <2>7, <3>1, AppendOrderly
    <3>3. Len(a) \in Nat /\ Len(b) = Len(a) + 1 /\ b[Len(a) + 1] = x /\ \A i \in 1 .. Len(a) : b[i] = a[i]
      BY <2>2, <2>7
    <3>4. \A i \in 1 .. Len(b) : i \in 1 .. Len(a) \/ i = Len(a) + 1
      BY <3>3
    <3>5. ASSUME NEW i \in 1 .. Len(b), NEW j \in k + 1 .. n PROVE ~Better(opp, orders[j].price, b[i].price)
      <4>1. CASE i \in 1 .. Len(a)
        BY <2>5, <3>3, <4>1
      <4>2. CASE i = Len(a) + 1
        <5>1. ~Better(opp, orders[j].price, o.price)
          BY <1>3, <2>1
        <5> QED BY <2>7, <3>3, <4>2, <5>1
      <4> QED BY <3>4, <4>1, <4>2
    <3> QED BY <3>2, <3>5 DEF b
  <2> QED BY <2>3, <2>6, <2>7 DEF KeepsOrder
<1>6. n \in V
  <2> HIDE DEF Ordered
  <2>1. \A k \in 0 .. n : same[k] = k
    OBVIOUS
  <2>2. same[0] \in V
    BY <1>1, <1>4, <2>1
  <2>3. ASSUME NEW k \in 0 + 1 .. n, same[k - 1] \in V PROVE same[k] \in V
    <3>1. k \in 1 .. n /\ k \in 0 .. n /\ k - 1 \in 0 .. n
      BY <1>1
    <3>2. Ordered(k - 1)
      BY <2>1, <2>3, <3>1
    <3>3. Ordered(k)
      BY <1>5, <3>1, <3>2
    <3> QED BY <2>1, <3>1, <3>3
  <2> HIDE DEF V, same
  <2>4. \A k \in 0 .. n : same[k] \in V
    BY <1>1, <2>2, <2>3, Along
  <2>5. n \in 0 .. n
    BY <1>1
  <2> QED BY <2>1, <2>4, <2>5
<1> QED BY <1>2, <1>6

\* A book without one of its orders stays in order.
LEMMA WithoutOrderly ==
  ASSUME NEW orders \in Seq(BookOrder), NEW side, Orderly(side, orders), NEW n \in 1 .. Len(orders)
  PROVE  Orderly(side, SubSeq(orders, 1, n - 1) \o SubSeq(orders, n + 1, Len(orders)))
<1> DEFINE len == Len(orders)
           a == SubSeq(orders, 1, n - 1)
           b == SubSeq(orders, n + 1, len)
           t == a \o b
<1>1. len \in Nat /\ n \in Nat /\ 1 <= n /\ n <= len
  OBVIOUS
<1>2. \A i \in 1 .. len : orders[i] \in BookOrder
  OBVIOUS
<1>3. /\ \A i \in 1 .. len : orders[i].base >= MinBase
      /\ \A i, j \in 1 .. len : i < j => ~Better(side, orders[j].price, orders[i].price)
  BY DEF Orderly
<1> HIDE DEF len
<1>4. (\A i \in 1 .. n - 1 : orders[i] \in BookOrder) /\ (\A i \in n + 1 .. len : orders[i] \in BookOrder)
      /\ n - 1 \in Int /\ 1 \in Int /\ n + 1 \in Int /\ len \in Int
  BY <1>1, <1>2
<1>5. /\ a \in Seq(BookOrder) /\ Len(a) = IF 1 <= n - 1 THEN n - 1 - 1 + 1 ELSE 0
      /\ \A i \in 1 .. n - 1 - 1 + 1 : a[i] = orders[1 + i - 1]
  BY <1>4, SubSeqProperties
<1>6. /\ b \in Seq(BookOrder) /\ Len(b) = IF n + 1 <= len THEN len - (n + 1) + 1 ELSE 0
      /\ \A i \in 1 .. len - (n + 1) + 1 : b[i] = orders[n + 1 + i - 1]
  BY <1>4, SubSeqProperties
<1> HIDE DEF a, b
<1>7. /\ t \in Seq(BookOrder) /\ Len(t) = Len(a) + Len(b)
      /\ \A i \in 1 .. Len(a) + Len(b) : t[i] = IF i <= Len(a) THEN a[i] ELSE b[i - Len(a)]
  BY <1>5, <1>6, ConcatProperties
<1> HIDE DEF t
<1>8. Len(a) = n - 1 /\ Len(b) = len - n
  BY <1>1, <1>5, <1>6
<1>9. Len(t) = len - 1
  BY <1>1, <1>7, <1>8
<1> DEFINE at(i) == IF i < n THEN i ELSE i + 1
<1>10. ASSUME NEW i \in 1 .. len - 1 PROVE at(i) \in 1 .. len /\ t[i] = orders[at(i)]
  <2>1. CASE i < n
    <3>1. i \in 1 .. n - 1 - 1 + 1 /\ 1 + i - 1 = i /\ i <= n - 1 /\ i \in 1 .. (n - 1) + (len - n) /\ i \in 1 .. len
      BY <1>1, <2>1
    <3>2. t[i] = a[i]
      BY <1>7, <1>8, <3>1
    <3>3. a[i] = orders[i]
      BY <1>5, <3>1
    <3> QED BY <2>1, <3>1, <3>2, <3>3
  <2>2. CASE ~(i < n)
    <3> DEFINE j == i - (n - 1)
    <3>1. j \in 1 .. len - (n + 1) + 1 /\ n + 1 + j - 1 = i + 1 /\ ~(i <= n - 1) /\ i \in 1 .. (n - 1) + (len - n)
          /\ i + 1 \in 1 .. len
      BY <1>1, <2>2
    <3> HIDE DEF j
    <3>2. t[i] = b[j]
      BY <1>7, <1>8, <3>1 DEF j
    <3>3. b[j] = orders[i + 1]
      BY <1>6, <3>1
    <3> QED BY <2>2, <3>1, <3>2, <3>3
  <2> QED BY <2>1, <2>2
<1>11. \A i, j \in 1 .. len - 1 : i < j => at(i) < at(j)
  BY <1>1
<1> HIDE DEF at
<1>12. \A i \in 1 .. len - 1 : t[i].base >= MinBase
  BY <1>3, <1>10
<1>13. \A i, j \in 1 .. len - 1 : i < j => ~Better(side, t[j].price, t[i].price)
  <2> SUFFICES ASSUME NEW i \in 1 .. len - 1, NEW j \in 1 .. len - 1, i < j
               PROVE  ~Better(side, t[j].price, t[i].price)
    OBVIOUS
  <2>1. at(i) < at(j)
    BY <1>11
  <2> QED BY <1>3, <1>10, <2>1
<1>14. Orderly(side, t)
  BY <1>9, <1>12, <1>13 DEF Orderly
<1> QED BY <1>14 DEF t, a, b, len

\* A new order leaves a book in order.
LEMMA NewOrderOrderly ==
  ASSUME BookOrderly, NEW side \in BookSides, NEW p, OrderTerms(p), NEW user \in Traders
  PROVE  LET t == new_order(market_book, side, p, [owner |-> user], 0).book
         IN  t \in [BookSides -> Seq(BookOrder)] /\ \A d \in BookSides : Orderly(d, t[d])
<1> DEFINE info == [owner |-> user]
           opp == Opposite(side)
           m == MatchAll(market_book[opp], side, p, info)
           crossed == m.book # <<>> /\ Crosses(side, p.limit_price, m.book[1].price)
           afford == fp32_div(m.quote, p.limit_price)
           qty == Min({m.base, afford})
           posted == IF p.post_allowed /\ ~crossed /\ qty >= MinBase THEN qty ELSE 0
           order == [id |-> 0, price |-> p.limit_price, base |-> posted, info |-> info]
           own == IF posted > 0 THEN Insert(market_book[side], order, side) ELSE market_book[side]
           t == new_order(market_book, side, p, info, 0).book
<1>0. BookTyped
  BY DEF BookOrderly
<1>1. opp \in BookSides /\ opp # side /\ info \in [owner : Traders] /\ \A d \in BookSides : d = opp \/ d = side
  BY DEF Opposite, BookSides
<1>2. /\ market_book[opp] \in Seq(BookOrder) /\ market_book[side] \in Seq(BookOrder)
      /\ Orderly(opp, market_book[opp]) /\ Orderly(side, market_book[side])
  BY <1>1 DEF BookOrderly, BookTyped
<1>3. m \in Match /\ Orderly(opp, m.book)
  BY <1>1, <1>2, MatchType, MatchedOrderly
<1>4. t = [market_book EXCEPT ![opp] = m.book, ![side] = own]
  BY <1>1 DEF new_order
<1>typed. t \in [BookSides -> Seq(BookOrder)]
  BY <1>0, NewOrderType
<1> HIDE DEF m, opp, info, t
<1>5. m.base \in Nat /\ m.quote \in Nat /\ m.book \in Seq(BookOrder)
  BY <1>3 DEF Match
<1>6. afford \in Nat
  BY <1>5, OneRounding DEF OrderTerms
<1> HIDE DEF afford
<1>7. qty \in Nat
  BY <1>5, <1>6, MinTwo
<1> HIDE DEF qty, crossed
<1>8. posted \in Nat /\ (posted > 0 => posted >= MinBase)
  BY <1>7
<1> HIDE DEF posted
<1>9. order \in BookOrder /\ order.base = posted
  BY <1>1, <1>8 DEF BookOrder, OrderTerms
<1> HIDE DEF order
<1>10. Orderly(side, own)
  <2>1. CASE posted > 0
    <3>1. Orderly(side, Insert(market_book[side], order, side))
      BY <1>2, <1>8, <1>9, <2>1, InsertOrderly
    <3> QED BY <2>1, <3>1
  <2>2. CASE ~(posted > 0)
    BY <1>2, <2>2
  <2> QED BY <2>1, <2>2
<1> HIDE DEF own
<1>11. t[opp] = m.book /\ t[side] = own
  BY <1>0, <1>1, <1>4 DEF BookTyped
<1>12. \A d \in BookSides : Orderly(d, t[d])
  BY <1>1, <1>3, <1>10, <1>11
<1> QED BY <1>typed, <1>12 DEF t, info

\* What users do leaves a book in order.
LEMMA OrderlyStep ==
  ASSUME BookOrderly, [BookNext]_market_book
  PROVE  BookOrderly'
<1>0. BookTyped /\ BookTyped'
  BY BookStep DEF BookOrderly
<1>1. ASSUME NEW action \in {"Lend", "Borrow"}, NEW user \in Traders, NEW qty \in TradeSizes,
             NEW price \in TradePrices, NEW options, place_order(action, user, qty, price, options)
      PROVE  BookOrderly'
  <2> DEFINE params == OrderParams(MaxQty, qty, price, options)
             p == IF action = "Lend" THEN params ELSE add_origination_fee(params)
  <2>1. OrderTerms(p)
    BY UserTerms
  <2>2. SidePosted(action) \in BookSides
    BY DEF SidePosted, BookSides
  <2>3. market_book' = new_order(market_book, SidePosted(action), p, [owner |-> user], 0).book
    BY <1>1 DEF place_order, Placed
  <2> HIDE DEF p
  <2> QED BY <1>0, <2>1, <2>2, <2>3, NewOrderOrderly DEF BookOrderly
<1>2. ASSUME NEW side \in {"Bid", "Ask"}, NEW n \in 1 .. MaxDepth, cancel_order(side, n)
      PROVE  BookOrderly'
  <2> DEFINE orders == market_book[side]
             less == SubSeq(orders, 1, n - 1) \o SubSeq(orders, n + 1, Len(orders))
  <2>1. orders \in Seq(BookOrder) /\ side \in BookSides /\ Orderly(side, orders)
    BY <1>0 DEF BookOrderly, BookTyped, BookSides
  <2>2. n \in 1 .. Len(orders)
    BY <1>2, <2>1 DEF cancel_order
  <2>3. market_book' = [market_book EXCEPT ![side] = less]
    BY <1>2 DEF cancel_order
  <2> HIDE DEF orders
  <2>4. Orderly(side, less)
    BY <2>1, <2>2, WithoutOrderly
  <2> HIDE DEF less
  <2>5. \A d \in BookSides : market_book'[d] = IF d = side THEN less ELSE market_book[d]
    BY <1>0, <2>1, <2>3 DEF BookTyped
  <2>6. \A d \in BookSides : Orderly(d, market_book'[d])
    BY <2>4, <2>5 DEF BookOrderly
  <2> QED BY <1>0, <2>6 DEF BookOrderly
<1>3. CASE UNCHANGED market_book
  BY <1>3 DEF BookOrderly, BookTyped
<1> QED BY <1>1, <1>2, <1>3 DEF BookNext

\* The order book is kept in order (orderbook.rs:92, which walks the orders of a side from the
\* best on): whatever users place and cancel, each side is sorted by price, the earlier of
\* equals first to be matched, and no order is below the minimum.
THEOREM BookAlwaysOrderly == BookSpec => []BookOrderly
<1>1. InitBook => BookOrderly
  BY DEF InitBook, EmptyBook, BookOrderly, BookTyped, BookSides, Orderly
<1>2. BookOrderly /\ [BookNext]_market_book => BookOrderly'
  BY OrderlyStep
<1> QED BY <1>1, <1>2, PTL DEF BookSpec

-----------------------------------------------------------------------------
(* What the client is shown, and what then happens                         *)

\* The client's model is the book as it shows its orders.
LEMMA Refreshed ==
  ASSUME BookTyped, NEW side \in BookSides
  PROVE  LET orders == market_book[side]
             model == refresh(market_book)
         IN  /\ orders \in Seq(BookOrder)
             /\ model[side] \in Seq(Offers) /\ Len(model[side]) = Len(orders)
             /\ \A i \in 1 .. Len(orders) : model[side][i] = Shown(orders[i])
<1> DEFINE orders == market_book[side]
           shown == refresh(market_book)[side]
           len == Len(orders)
<1>1. orders \in Seq(BookOrder)
  BY DEF BookTyped
<1>2. shown = [i \in DOMAIN orders |-> Shown(orders[i])]
  BY DEF refresh, BookSides, Shown
<1>3. len \in Nat /\ DOMAIN orders = 1 .. len /\ \A i \in 1 .. len : orders[i] \in BookOrder
  BY <1>1
<1> HIDE DEF orders, shown, len
<1>4. \A i \in 1 .. len : Shown(orders[i]) \in Offers
  BY <1>3, ShownType
<1>5. shown \in [1 .. len -> Offers] /\ DOMAIN shown = 1 .. len /\ \A i \in 1 .. len : shown[i] = Shown(orders[i])
  BY <1>2, <1>3, <1>4
<1>6. shown \in Seq(Offers) /\ Len(shown) = len
  BY <1>3, <1>5
<1> QED BY <1>1, <1>5, <1>6 DEF orders, shown, len

\* The terms of an order that the client simulates, and what it may take
Total(action, qty) == IF action = "Lend" THEN qty ELSE borrow_order_qty(qty)
TermsOf(action, qty, limit) ==
  LET params == OrderParams(MaxQty, qty, limit, {"post_allowed"})
  IN  IF action = "Lend" THEN params ELSE add_origination_fee(params)

LEMMA BorrowedQty ==
  ASSUME MaxQty \in Nat \ {0}
  PROVE  /\ borrow_order_qty(MaxQty) = MaxQty
         /\ \A a \in Nat \ {0} : borrow_order_qty(a) \in Nat \ {0}
<1> DEFINE b(a) == 1 + a + (a * OriginationFee) \div FEE_UNIT
<1>1. ASSUME NEW a \in Nat PROVE b(a) \in Nat /\ b(a) > a
  <2>1. a * OriginationFee \in Nat /\ FEE_UNIT \in Nat \ {0}
    BY OriginationFeeAssumption
  <2>2. (a * OriginationFee) \div FEE_UNIT \in Nat
    BY <2>1, DivBounds
  <2> QED BY <2>2
<1> HIDE DEF b
<1>2. \A a \in Nat \ {0} : borrow_order_qty(a) = a \/ borrow_order_qty(a) = Min({MaxQty, b(a)})
  BY OriginationFeeAssumption DEF borrow_order_qty, b
<1>3. ASSUME NEW a \in Nat \ {0}
      PROVE  borrow_order_qty(a) \in Nat \ {0} /\ (a = MaxQty => borrow_order_qty(a) = MaxQty)
  <2>1. b(a) \in Nat /\ b(a) > a
    BY <1>1
  <2>2. Min({MaxQty, b(a)}) \in {MaxQty, b(a)} /\ Min({MaxQty, b(a)}) <= MaxQty
    BY <2>1, MinTwo
  <2>3. Min({MaxQty, b(a)}) \in Nat \ {0} /\ (a = MaxQty => Min({MaxQty, b(a)}) = MaxQty)
    BY <2>1, <2>2
  <2> QED BY <1>2, <2>3
<1> QED BY <1>3

LEMMA WithFee ==
  ASSUME NEW base, NEW quote, NEW price, NEW options
  PROVE  LET p == OrderParams(base, quote, price, options)
             f == add_origination_fee(p)
         IN  /\ f.max_ticket_qty = borrow_order_qty(p.max_ticket_qty)
             /\ f.max_underlying_token_qty = borrow_order_qty(p.max_underlying_token_qty)
             /\ f.limit_price = p.limit_price /\ f.post_only = p.post_only /\ f.post_allowed = p.post_allowed
BY DEF add_origination_fee, OrderParams

LEMMA TermsLimit ==
  ASSUME MaxQty \in Nat \ {0}, NEW action \in {"Lend", "Borrow"}, NEW qty \in Nat \ {0}, NEW limit \in 1 .. ONE
  PROVE  LET p == TermsOf(action, qty, limit)
         IN  /\ Limit(p, limit) /\ p.max_underlying_token_qty = Total(action, qty)
             /\ p.max_ticket_qty = MaxQty /\ Total(action, qty) \in Nat \ {0}
<1> DEFINE params == OrderParams(MaxQty, qty, limit, {"post_allowed"})
           fee == add_origination_fee(params)
           terms(base, quote) ==
             [max_ticket_qty |-> base, max_underlying_token_qty |-> quote, limit_price |-> limit,
              post_only |-> FALSE, post_allowed |-> TRUE, auto_stake |-> FALSE, auto_roll |-> FALSE]
<1>1. params = terms(MaxQty, qty)
  <2>1. /\ ("post_only" \in {"post_allowed"}) = FALSE /\ ("post_allowed" \in {"post_allowed"}) = TRUE
        /\ ("auto_stake" \in {"post_allowed"}) = FALSE /\ ("auto_roll" \in {"post_allowed"}) = FALSE
    OBVIOUS
  <2> QED BY <2>1, Zenon DEF OrderParams
<1>2. /\ params.max_ticket_qty = MaxQty /\ params.max_underlying_token_qty = qty
      /\ params.limit_price = limit /\ params.post_only = FALSE /\ params.post_allowed = TRUE
  <2>1. \A b, q : /\ terms(b, q).max_ticket_qty = b /\ terms(b, q).max_underlying_token_qty = q
                 /\ terms(b, q).limit_price = limit /\ terms(b, q).post_only = FALSE /\ terms(b, q).post_allowed = TRUE
    BY Zenon
  <2> HIDE DEF terms, params
  <2> QED BY <1>1, <2>1
<1>3. /\ fee.max_ticket_qty = borrow_order_qty(MaxQty) /\ fee.max_underlying_token_qty = borrow_order_qty(qty)
      /\ fee.limit_price = limit /\ fee.post_only = FALSE /\ fee.post_allowed = TRUE
  <2>1. /\ fee.max_ticket_qty = borrow_order_qty(params.max_ticket_qty)
        /\ fee.max_underlying_token_qty = borrow_order_qty(params.max_underlying_token_qty)
        /\ fee.limit_price = params.limit_price /\ fee.post_only = params.post_only
        /\ fee.post_allowed = params.post_allowed
    BY WithFee
  <2> HIDE DEF fee, params
  <2> QED BY <1>2, <2>1
<1>4. borrow_order_qty(MaxQty) = MaxQty /\ borrow_order_qty(qty) \in Nat \ {0}
  BY BorrowedQty
<1> HIDE DEF params, fee, terms
<1>5. TermsOf(action, qty, limit) = IF action = "Lend" THEN params ELSE fee
  BY DEF TermsOf, params, fee
<1>6. CASE action = "Lend"
  BY <1>2, <1>5, <1>6 DEF Limit, OrderTerms, Total
<1>7. CASE action # "Lend"
  BY <1>3, <1>4, <1>5, <1>7 DEF Limit, OrderTerms, Total
<1> QED BY <1>6, <1>7

\* There is room for an order of a simulated size: no quantity that a user gives is cut
\* off at the largest there is.
BookFits ==
  \A side \in BookSides, qty \in SimulatedSizes, limit \in TradePrices :
    OnOffer(market_book[side]) + fp32_div(qty, limit) <= MaxQty

\* The simulated taker and the order, over the whole book
LEMMA SimulatedAndReal ==
  ASSUME BookOrderly, MaxQty \in Nat \ {0}, NEW action \in {"Lend", "Borrow"}, NEW qty \in Nat \ {0},
         NEW limit \in 1 .. ONE, NEW user \in Traders,
         OnOffer(market_book[Opposite(SidePosted(action))]) <= MaxQty
  PROVE  LET side == SidePosted(action)
             orders == market_book[Opposite(side)]
             s == simulate_taker(refresh(market_book), action, qty, limit, user)
             m == MatchAll(orders, side, TermsOf(action, qty, limit), [owner |-> user])
         IN  /\ s \in Sim /\ m \in Match
             /\ Pace(action, s, m, Total(action, qty)) /\ FrontSpent(m, side, limit)
             /\ orders = <<>> => NumFills(m.events) = 0
             /\ orders # <<>> => Begun(m, orders, side, limit)
             /\ MaxQty <= m.base + OnOffer(orders)
<1> DEFINE side == SidePosted(action)
           opp == Opposite(side)
           orders == market_book[opp]
           model == refresh(market_book)
           p == TermsOf(action, qty, limit)
           total == Total(action, qty)
           info == [owner |-> user]
           n == Len(orders)
<1>1. side \in BookSides /\ opp \in BookSides
  BY DEF SidePosted, Opposite, BookSides
<1>2. /\ orders \in Seq(BookOrder) /\ model[opp] \in Seq(Offers) /\ Len(model[opp]) = n
      /\ \A i \in 1 .. n : model[opp][i] = Shown(orders[i])
  BY <1>1, Refreshed DEF BookOrderly
<1>3. Limit(p, limit) /\ p.max_underlying_token_qty = total /\ p.max_ticket_qty = MaxQty /\ total \in Nat \ {0}
  BY TermsLimit
<1>4. \A k \in 1 .. n : orders[k].base >= MinBase
  BY <1>1 DEF BookOrderly, Orderly
<1> HIDE DEF p, orders, n, model
<1>5. PICK g : /\ simulate_taker(model, action, qty, limit, user) = g[n] /\ g[0] = Unsimulated(total)
               /\ \A k \in 0 .. n : g[k] \in Sim
               /\ \A k \in 1 .. n : g[k] = SimulatedFill(g[k - 1], model[opp][k], action, limit, user)
  <2>1. total = (IF action = "Lend" THEN qty ELSE borrow_order_qty(qty)) /\ total \in Nat
    BY <1>3 DEF Total
  <2> DEFINE shown == model[opp]
  <2>2. shown = model[Opposite(SidePosted(action))] /\ shown \in Seq(Offers) /\ Len(shown) = n
    BY <1>2
  <2> HIDE DEF total, shown
  <2>3. \E g : InTurn(simulate_taker(model, action, qty, limit, user), g, shown, total, action, limit, user)
    BY <2>1, <2>2, SimulatedInTurn
  <2>4. PICK g : InTurn(simulate_taker(model, action, qty, limit, user), g, shown, total, action, limit, user)
    BY <2>3
  <2> HIDE DEF opp
  <2> QED BY <2>2, <2>4 DEF InTurn, shown
<1>6. PICK h : /\ MatchAll(orders, side, p, info) = h[n] /\ h[0] = Untaken(p)
               /\ \A k \in 0 .. n : h[k] \in Match
               /\ \A k \in 1 .. n : h[k] = MatchOne(h[k - 1], orders[k], side, p, info)
  <2>1. info \in [owner : Traders] /\ OrderTerms(p)
    BY <1>3 DEF Limit
  <2> QED BY <1>1, <1>2, <2>1, MatchedInTurn DEF n
<1>7. \A k \in 1 .. n : g[k] = SimulatedFill(g[k - 1], Shown(orders[k]), action, limit, user)
  BY <1>2, <1>5
<1>8. OnOffer(orders) <= p.max_ticket_qty
  BY <1>3 DEF orders
<1>9. /\ Pace(action, g[n], h[n], total) /\ FrontSpent(h[n], side, limit)
      /\ n > 0 => Begun(h[n], orders, side, limit)
      /\ p.max_ticket_qty <= h[n].base + OnOffer(orders)
  BY <1>2, <1>3, <1>4, <1>5, <1>6, <1>7, <1>8, Alongside DEF n
<1>10. n \in Nat /\ (orders = <<>> => n = 0) /\ (orders # <<>> => n > 0) /\ n \in 0 .. n
  BY <1>2 DEF n
<1>11. n = 0 => NumFills(h[n].events) = 0
  BY <1>6, NoFills DEF Untaken
<1> QED BY <1>3, <1>5, <1>6, <1>9, <1>10, <1>11 DEF orders, p, model

\* The count of the orders ahead is the number of those that are matched before.
Aheads(f, orders, action, limit) ==
  f = [k \in 0 .. Len(orders) |-> IF k = 0 \/ ~Precedes(action, orders[k], limit) THEN 0 ELSE 1 + f[k - 1]]

LEMMA DepthIs ==
  ASSUME NEW orders, Len(orders) \in Nat, NEW action, NEW limit, NEW at \in 0 .. Len(orders),
         \A i \in 1 .. Len(orders) : i <= at <=> Precedes(action, orders[i], limit)
  PROVE  LET h == CHOOSE f : Aheads(f, orders, action, limit) IN Max({h[k] : k \in 0 .. Len(orders)}) = at
<1> DEFINE n == Len(orders)
           h == CHOOSE f : Aheads(f, orders, action, limit)
           w == [k \in 0 .. n |-> IF k <= at THEN k ELSE 0]
           S == {h[k] : k \in 0 .. n}
<1>1. n \in Nat /\ at \in Nat /\ at <= n
  OBVIOUS
<1>2. \A k \in 0 .. n : k # 0 => k \in 1 .. n /\ (k <= at <=> Precedes(action, orders[k], limit))
  BY <1>1
<1> HIDE DEF n, h
<1>3. Aheads(w, orders, action, limit)
  <2>1. ASSUME NEW k \in 0 .. n
        PROVE  w[k] = IF k = 0 \/ ~Precedes(action, orders[k], limit) THEN 0 ELSE 1 + w[k - 1]
    <3>1. CASE k = 0
      BY <1>1, <3>1
    <3>2. CASE k # 0 /\ k <= at
      <4>1. k - 1 \in 0 .. n /\ k - 1 <= at /\ 1 + (k - 1) = k
        BY <1>1, <3>2
      <4>2. w[k - 1] = k - 1 /\ w[k] = k
        BY <3>2, <4>1
      <4> QED BY <1>2, <3>2, <4>1, <4>2
    <3>3. CASE k # 0 /\ ~(k <= at)
      BY <1>2, <3>3
    <3> QED BY <3>1, <3>2, <3>3
  <2> QED BY <2>1 DEF Aheads, n
<1>4. Aheads(h, orders, action, limit)
  BY <1>3 DEF h
<1>5. \A k \in 0 .. n : h[k] = IF k = 0 \/ ~Precedes(action, orders[k], limit) THEN 0 ELSE 1 + h[k - 1]
  BY <1>4 DEF Aheads, n
<1> HIDE DEF w
<1>6. \A k \in 0 .. at : h[k] = k
  <2> DEFINE V == {k \in 0 .. at : h[k] = k}
             same == [k \in 0 .. at |-> k]
  <2>1. \A k \in 0 .. at : same[k] = k
    OBVIOUS
  <2>2. same[0] \in V
    BY <1>1, <1>5, <2>1
  <2>3. ASSUME NEW k \in 0 + 1 .. at, same[k - 1] \in V PROVE same[k] \in V
    <3>1. k \in 0 .. at /\ k - 1 \in 0 .. at /\ k \in 0 .. n /\ k # 0 /\ 1 + (k - 1) = k /\ k <= at
      BY <1>1
    <3>2. h[k - 1] = k - 1
      BY <2>1, <2>3, <3>1
    <3>3. h[k] = k
      BY <1>2, <1>5, <3>1, <3>2
    <3> QED BY <2>1, <3>1, <3>3
  <2> HIDE DEF V, same
  <2>4. \A k \in 0 .. at : same[k] \in V
    BY <1>1, <2>2, <2>3, Along
  <2> QED BY <2>1, <2>4 DEF V
<1>7. \A k \in 0 .. n : ~(k <= at) => h[k] = 0
  BY <1>1, <1>2, <1>5
<1>8. at \in S /\ \A x \in S : x \in Int /\ x <= at
  <2>1. at \in 0 .. at /\ at \in 0 .. n
    BY <1>1
  <2>2. at \in S
    BY <1>6, <2>1
  <2>3. \A k \in 0 .. n : h[k] \in Int /\ h[k] <= at
    <3> SUFFICES ASSUME NEW k \in 0 .. n PROVE h[k] \in Int /\ h[k] <= at
      OBVIOUS
    <3>1. CASE k <= at
      <4>1. k \in 0 .. at
        BY <3>1
      <4> QED BY <1>6, <4>1
    <3>2. CASE ~(k <= at)
      BY <1>1, <1>7, <3>2
    <3> QED BY <3>1, <3>2
  <2> QED BY <2>2, <2>3
<1> HIDE DEF S
<1>9. Max(S) \in S /\ \A y \in S : Max(S) >= y
  <2>1. \E x \in S : \A y \in S : x >= y
    BY <1>1, <1>8
  <2> QED BY <2>1 DEF Max
<1>10. Max(S) = at
  <2> DEFINE x == Max(S)
  <2>1. x \in S /\ x >= at
    BY <1>8, <1>9
  <2>2. x \in Int /\ x <= at
    BY <1>8, <2>1
  <2> HIDE DEF x
  <2>3. x = at
    BY <1>1, <2>1, <2>2
  <2> QED BY <2>3 DEF x
<1> QED BY <1>10 DEF S, h, n

\* Orders of a side are ahead of a new one, in the client's model as in the book.
LEMMA DepthShown ==
  ASSUME BookTyped, NEW action, action = "Lend", NEW o \in BookOrder,
         NEW at \in 0 .. Len(market_book[SidePosted(action)]), NEW t,
         InsertedAt(at, t, market_book[SidePosted(action)], o, "Bid")
  PROVE  LET shown == refresh(market_book)[SidePosted(action)]
             h == CHOOSE f : Aheads(f, shown, action, o.price)
         IN  Max({h[k] : k \in 0 .. Len(shown)}) = at
<1> DEFINE side == SidePosted(action)
           orders == market_book[side]
           shown == refresh(market_book)[side]
           n == Len(orders)
<1>1. /\ orders \in Seq(BookOrder) /\ Len(shown) = n /\ \A i \in 1 .. n : shown[i] = Shown(orders[i])
  <2>1. side \in BookSides
    BY DEF BookSides, SidePosted
  <2> QED BY <2>1, Refreshed
<1>2. \A i \in 1 .. n : i <= at <=> ~Better("Bid", o.price, orders[i].price)
  BY DEF InsertedAt
<1>3. o.price \in Nat /\ n \in Nat /\ at \in 0 .. n
  BY <1>1 DEF BookOrder
<1> HIDE DEF orders, shown, n
<1>4. \A i \in 1 .. n : orders[i] \in BookOrder /\ orders[i].price \in Nat
  BY <1>1, PricesOf DEF n
<1>5. ASSUME NEW i \in 1 .. n PROVE i <= at <=> Precedes(action, shown[i], o.price)
  <2>1. shown[i].price = orders[i].price
    BY <1>1, <1>4, ShownType
  <2>2. Precedes(action, shown[i], o.price) <=> orders[i].price >= o.price
    BY <2>1 DEF Precedes
  <2>3. ~Better("Bid", o.price, orders[i].price) <=> ~(o.price > orders[i].price)
    BY DEF Better
  <2> QED BY <1>2, <1>3, <1>4, <2>2, <2>3
<1>6. Len(shown) \in Nat /\ at \in 0 .. Len(shown)
  BY <1>1, <1>3
<1>7. \A i \in 1 .. Len(shown) : i <= at <=> Precedes(action, shown[i], o.price)
  BY <1>1, <1>5
<1>8. LET h == CHOOSE f : Aheads(f, shown, action, o.price) IN Max({h[k] : k \in 0 .. Len(shown)}) = at
  BY <1>6, <1>7, DepthIs
<1> QED BY <1>8 DEF shown

\* What is said of a simulation
Agrees(action, user, qty, limit) ==
  LET sim == simulate_maker(refresh(market_book), action, qty, limit, user)
      real == Placed(action, user, qty, limit, {"post_allowed"})
      fills == NumFills(real.events)
      posted == real.book["Bid"][sim.depth + 1]
  IN  /\ would_match(refresh(market_book), action, limit) <=> fills > 0
      /\ sim.fill.self_match => real.aborted
      /\ sim.fill.matches <= fills
      /\ sim.fill.filled_quote_qty - quote_filled(real) \in 0 .. fills
      /\ action = "Lend" =>
           /\ real.aborted => sim.fill.self_match
           /\ sim.fill.matches = fills /\ sim.fill.filled_quote_qty = quote_filled(real)
           /\ sim.fill.unfilled_quote_qty # 1 => sim.posted_base_qty = real.base_posted
           /\ real.base_posted > 0 => /\ real.base_posted = sim.posted_base_qty
                                      /\ posted.price = limit /\ posted.base = real.base_posted

LEMMA OneAgrees ==
  ASSUME BookOrderly, BookFits, MIN_BASE_SIZE_POSTED = MinBase, NEW action \in {"Lend", "Borrow"},
         NEW user \in Traders, NEW qty \in SimulatedSizes, NEW limit \in TradePrices
  PROVE  Agrees(action, user, qty, limit)
<1> DEFINE side == SidePosted(action)
           opp == Opposite(side)
           orders == market_book[opp]
           own == market_book[side]
           model == refresh(market_book)
           p == TermsOf(action, qty, limit)
           total == Total(action, qty)
           info == [owner |-> user]
           m == MatchAll(orders, side, p, info)
           s == simulate_taker(model, action, qty, limit, user)
           u == s.unfilled_quote_qty
           v == m.quote
           F == NumFills(m.events)
           crossed == m.book # <<>> /\ Crosses(side, limit, m.book[1].price)
           d == fp32_div(v, limit)
           most == Min({m.base, d})
           posted == IF p.post_allowed /\ ~crossed /\ most >= MinBase THEN most ELSE 0
           order == [id |-> 0, price |-> limit, base |-> posted, info |-> info]
           left == fp32_div(u, limit)
           sim == simulate_maker(model, action, qty, limit, user)
           real == Placed(action, user, qty, limit, {"post_allowed"})
<1>1. qty \in Nat \ {0} /\ limit \in 1 .. ONE /\ ONE \in Nat \ {0} /\ MinBase \in Nat \ {0} /\ MaxQty \in Nat
  BY OrderbookAssumption, OrderbookModelAssumption
<1>2. BookTyped /\ side \in BookSides /\ opp \in BookSides /\ opp # side
  BY DEF BookOrderly, SidePosted, Opposite, BookSides
<1>3. orders \in Seq(BookOrder) /\ own \in Seq(BookOrder) /\ Orderly(side, own)
  BY <1>2 DEF BookOrderly, BookTyped
<1>4. OnOffer(orders) \in Nat
  <2> HIDE DEF orders
  <2>1. CASE orders = <<>>
    <3>1. DOMAIN orders = {}
      BY <2>1
    <3> QED BY <3>1, SumEmpty DEF OnOffer
  <2>2. CASE orders # <<>>
    <3>1. 1 \in 1 .. Len(orders)
      BY <1>3, <2>2
    <3> QED BY <1>3, <3>1, Offering
  <2> QED BY <2>1, <2>2
<1>5. OnOffer(orders) + fp32_div(qty, limit) <= MaxQty /\ fp32_div(qty, limit) \in Nat \ {0}
  <2>1. fp32_div(qty, limit) \in Nat \ {0}
    <3>1. qty * ONE \in Nat /\ ONE <= qty * ONE
      <4>1. 1 * ONE <= qty * ONE /\ qty * ONE \in Nat
        BY <1>1, MulNat
      <4> QED BY <1>1, <4>1
    <3>2. fp32_div(qty, limit) \in Nat
      BY <1>1, OneRounding
    <3>3. qty * ONE < ((qty * ONE) \div limit) * limit + limit
      BY <1>1, <3>1, DivBounds
    <3>4. (qty * ONE) \div limit # 0
      <4> SUFFICES ASSUME (qty * ONE) \div limit = 0 PROVE FALSE
        OBVIOUS
      <4>1. qty * ONE < 0 * limit + limit
        BY <3>3
      <4>2. limit <= ONE /\ 0 * limit + limit = limit
        BY <1>1
      <4> QED BY <1>1, <3>1, <4>1, <4>2
    <3> QED BY <3>2, <3>4 DEF fp32_div
  <2> QED BY <1>2, <2>1 DEF BookFits
<1>6. MaxQty \in Nat \ {0} /\ OnOffer(orders) <= MaxQty
  <2> DEFINE all == OnOffer(orders)
             more == fp32_div(qty, limit)
  <2>1. all \in Nat /\ more \in Nat \ {0} /\ all + more <= MaxQty
    BY <1>4, <1>5
  <2> HIDE DEF all, more
  <2>2. MaxQty \in Nat \ {0} /\ all <= MaxQty
    BY <1>1, <2>1
  <2> QED BY <2>2 DEF all
<1>7. /\ Limit(p, limit) /\ p.max_underlying_token_qty = total /\ p.max_ticket_qty = MaxQty /\ total \in Nat \ {0}
  BY <1>1, <1>6, TermsLimit
<1>8. /\ s \in Sim /\ m \in Match
      /\ Pace(action, s, m, total) /\ FrontSpent(m, side, limit)
      /\ orders = <<>> => F = 0
      /\ orders # <<>> => Begun(m, orders, side, limit)
      /\ MaxQty <= m.base + OnOffer(orders)
  BY <1>1, <1>6, SimulatedAndReal
<1>9. real = new_order(market_book, side, p, info, 0)
  BY DEF Placed, TermsOf
<1>10. /\ real.book = [market_book EXCEPT ![opp] = m.book, ![side] = IF posted > 0 THEN Insert(@, order, side) ELSE @]
       /\ real.events = m.events /\ real.aborted = m.aborted /\ real.limit_price = limit
       /\ real.total_quote = total - v + quote_from_base(posted, limit) /\ real.base_posted = posted
  <2> HIDE DEF p, m, total, F, s, left, most
  <2>1. p.limit_price = limit /\ p.max_underlying_token_qty = total
    BY <1>7 DEF Limit
  <2>2. real = [book |-> [market_book EXCEPT ![opp] = m.book,
                                             ![side] = IF posted > 0 THEN Insert(@, order, side) ELSE @],
                events |-> m.events, aborted |-> m.aborted, limit_price |-> limit,
                total_base |-> p.max_ticket_qty - m.base + posted,
                total_quote |-> total - v + quote_from_base(posted, limit), base_posted |-> posted]
    BY <1>9, <2>1 DEF new_order, m, most
  <2> HIDE DEF real, posted
  <2> QED BY <2>2
<1>11. sim.fill = s /\ sim.would_post = (left >= MinBase)
       /\ sim.posted_base_qty = IF left >= MinBase THEN left ELSE 0
  BY DEF simulate_maker
<1>12. /\ v - u \in 0 .. F /\ F \in Nat /\ (s.self_match => m.aborted) /\ s.matches <= F
       /\ s.filled_quote_qty + u = total
       /\ action = "Lend" => v = u /\ m.aborted = s.self_match /\ s.matches = F /\ s.done = m.stopped
  BY <1>8 DEF Pace
<1>13. u \in Nat /\ v \in Nat /\ m.base \in Nat /\ s.filled_quote_qty \in Nat /\ m.book \in Seq(BookOrder)
  BY <1>8 DEF Sim, Match
<1>14. d \in Nat /\ left \in Nat /\ most \in Nat /\ (m.base >= d => most = d)
  <2>1. d \in Nat /\ left \in Nat
    BY <1>1, <1>13, OneRounding
  <2>2. most \in Nat /\ most <= m.base /\ most <= d /\ most \in {m.base, d}
    BY <1>13, <2>1, MinTwo
  <2> HIDE DEF most, d, left
  <2> QED BY <1>13, <2>1, <2>2
<1>15. crossed => v <= 1
  BY <1>8 DEF FrontSpent
<1>16. would_match(model, action, limit) <=> F > 0
  <2> DEFINE shown == model[opp]
  <2>1. shown \in Seq(Offers) /\ Len(shown) = Len(orders) /\ \A i \in 1 .. Len(orders) : shown[i] = Shown(orders[i])
    BY <1>2, Refreshed
  <2>2. would_match(model, action, limit) <=> shown # <<>> /\ Matches(action, shown[1], limit)
    BY DEF would_match
  <2> HIDE DEF shown, orders, model, F
  <2>3. CASE orders = <<>>
    <3>1. shown = <<>>
      BY <2>1, <2>3
    <3> QED BY <1>8, <1>12, <2>2, <2>3, <3>1
  <2>4. CASE orders # <<>>
    <3>1. shown # <<>> /\ 1 \in 1 .. Len(orders) /\ orders[1] \in BookOrder
      BY <1>3, <2>1, <2>4
    <3>2. shown[1].price = orders[1].price
      BY <2>1, <3>1, ShownType
    <3>3. Matches(action, shown[1], limit) <=> Crosses(side, limit, orders[1].price)
      <4>1. orders[1].price \in Nat /\ limit \in Nat
        BY <1>1, <3>1 DEF BookOrder
      <4> QED BY <3>2, <4>1 DEF Matches, Crosses, SidePosted
    <3>4. F > 0 <=> Crosses(side, limit, orders[1].price)
      BY <1>8, <2>4 DEF Begun, F
    <3> QED BY <2>2, <3>1, <3>3, <3>4
  <2> QED BY <2>3, <2>4
<1> HIDE DEF m, s, p, F, d, left, most, total, model
<1>17. posted \in Nat /\ posted = IF ~crossed /\ most >= MinBase THEN most ELSE 0
  BY <1>7, <1>14 DEF Limit
<1>18. quote_filled(real) = total - v
  <2> DEFINE q == quote_from_base(posted, limit)
  <2>1. q \in Nat
    BY <1>1, <1>17, OneRounding DEF quote_from_base
  <2>2. quote_filled(real) = (total - v + q) - q
    BY <1>10 DEF quote_filled, quote_posted
  <2> HIDE DEF q
  <2> QED BY <1>7, <1>13, <2>1, <2>2
<1>19. s.filled_quote_qty - quote_filled(real) \in 0 .. F /\ (v = u => s.filled_quote_qty = quote_filled(real))
  BY <1>7, <1>12, <1>13, <1>18
<1>20. ASSUME action = "Lend"
       PROVE  /\ u # 1 => sim.posted_base_qty = posted
              /\ posted > 0 => /\ posted = sim.posted_base_qty
                               /\ real.book["Bid"][sim.depth + 1] = order
  <2>1. v = u /\ d = left
    BY <1>12, <1>20 DEF d, left
  <2>2. total = qty /\ side = "Bid" /\ opp = "Ask"
    BY <1>20 DEF total, Total, SidePosted, Opposite
  <2>3. most = left
    <3> DEFINE room == fp32_div(qty, limit)
               offer == OnOffer(orders)
    <3>1. u <= qty
      BY <1>7, <1>12, <1>13, <2>2
    <3>2. left <= room
      BY <1>1, <1>13, <3>1, Rounding DEF left
    <3>3. room \in Nat /\ offer \in Nat /\ offer + room <= MaxQty /\ MaxQty <= m.base + offer
      BY <1>4, <1>5, <1>8
    <3> HIDE DEF room, offer
    <3>4. m.base >= left
      BY <1>1, <1>13, <1>14, <3>2, <3>3
    <3> QED BY <1>14, <2>1, <3>4
  <2>4. posted > 0 => ~crossed /\ left >= MinBase /\ posted = left
    BY <1>17, <2>3
  <2>5. u # 1 => sim.posted_base_qty = posted
    <3>1. CASE crossed
      <4>1. v <= 1
        BY <1>15, <3>1
      <4>2. ASSUME u # 1 PROVE left = 0
        <5>1. u = 0
          BY <1>13, <2>1, <4>1, <4>2
        <5>2. limit \in Nat \ {0} /\ 0 * ONE = 0
          BY <1>1
        <5>3. \A c \in Nat \ {0} : 0 \div c = 0
          OBVIOUS
        <5> QED BY <5>1, <5>2, <5>3 DEF left, fp32_div
      <4>3. posted = 0
        BY <1>17, <3>1
      <4>4. u # 1 => ~(left >= MinBase)
        BY <1>1, <4>2
      <4> HIDE DEF posted
      <4> QED BY <1>11, <4>3, <4>4
    <3>2. CASE ~crossed
      BY <1>11, <1>17, <2>3, <3>2
    <3> QED BY <3>1, <3>2
  <2>6. ASSUME posted > 0 PROVE posted = sim.posted_base_qty /\ real.book["Bid"][sim.depth + 1] = order
    <3>1. posted = left /\ left >= MinBase
      BY <2>4, <2>6
    <3>2. order \in BookOrder /\ order.price = limit
      <4>1. info \in [owner : Traders]
        OBVIOUS
      <4> HIDE DEF posted, info
      <4> QED BY <1>1, <1>17, <4>1 DEF BookOrder
    <3> HIDE DEF order, posted, crossed
    <3>3. real.book["Bid"] = Insert(own, order, side)
      <4>1. real.book = [market_book EXCEPT ![opp] = m.book, ![side] = Insert(own, order, side)]
        BY <1>2, <1>10, <2>6
      <4> HIDE DEF real
      <4> QED BY <1>2, <2>2, <4>1 DEF BookTyped
    <3>4. PICK at \in 0 .. Len(own) : InsertedAt(at, Insert(own, order, side), own, order, side)
      BY <1>3, <3>2, InsertPlace
    <3>5. sim.depth = at
      <4> DEFINE shown == model[side]
                 h == CHOOSE f : Aheads(f, shown, action, limit)
      <4>1. sim.depth = Max({h[k] : k \in 0 .. Len(shown)})
        BY <3>1 DEF simulate_maker, Aheads, left, s
      <4>2. Max({h[k] : k \in 0 .. Len(shown)}) = at
        BY <1>2, <1>20, <2>2, <3>2, <3>4, DepthShown DEF model
      <4> QED BY <4>1, <4>2
    <3>6. Insert(own, order, side)[at + 1] = order
      BY <3>4 DEF InsertedAt
    <3> QED BY <1>11, <3>1, <3>3, <3>5, <3>6
  <2> QED BY <2>5, <2>6
<1>21. order.price = limit /\ order.base = posted
  OBVIOUS
<1> HIDE DEF sim, real, order, posted
<1>22. /\ would_match(model, action, limit) <=> NumFills(real.events) > 0
       /\ sim.fill.self_match => real.aborted
       /\ sim.fill.matches <= NumFills(real.events)
       /\ sim.fill.filled_quote_qty - quote_filled(real) \in 0 .. NumFills(real.events)
  BY <1>10, <1>11, <1>12, <1>16, <1>19 DEF F
<1>23. ASSUME action = "Lend"
       PROVE  /\ real.aborted => sim.fill.self_match
              /\ sim.fill.matches = NumFills(real.events) /\ sim.fill.filled_quote_qty = quote_filled(real)
              /\ sim.fill.unfilled_quote_qty # 1 => sim.posted_base_qty = real.base_posted
              /\ real.base_posted > 0 => /\ real.base_posted = sim.posted_base_qty
                                         /\ real.book["Bid"][sim.depth + 1].price = limit
                                         /\ real.book["Bid"][sim.depth + 1].base = real.base_posted
  BY <1>10, <1>11, <1>12, <1>19, <1>20, <1>21, <1>23 DEF F
<1> QED BY <1>22, <1>23 DEF Agrees, sim, real, model

LEMMA OrderlyAgrees ==
  ASSUME BookOrderly, BookFits, MIN_BASE_SIZE_POSTED = MinBase
  PROVE  SimulationAgrees
<1>1. \A action \in {"Lend", "Borrow"}, user \in Traders, qty \in SimulatedSizes, limit \in TradePrices :
        Agrees(action, user, qty, limit)
  BY OneAgrees
<1> QED BY <1>1 DEF SimulationAgrees, Agrees

-----------------------------------------------------------------------------
(* Room in the book                                                        *)

Within(orders, most) == \A i \in 1 .. Len(orders) : orders[i].base <= most

\* A match takes from the order that it meets and from what the new one may pay.
LEMMA QuoteStep ==
  ASSUME NEW m \in Match, NEW o \in BookOrder, NEW side \in BookSides, NEW p, OrderTerms(p),
         NEW info \in [owner : Traders]
  PROVE  MatchOne(m, o, side, p, info).quote <= m.quote
<1> DEFINE n == MatchOne(m, o, side, p, info)
           qty == TradeQty(m, o)
           cost == quote_from_base(qty, o.price)
           out == m.stopped \/ p.post_only \/ ~Crosses(side, p.limit_price, o.price) \/ qty = 0
<1>1. o.base \in Nat /\ o.price \in 1 .. ONE /\ m.base \in Nat /\ m.quote \in Nat
  BY DEF BookOrder, Match
<1>2. cost \in Nat
  <2>1. fp32_div(m.quote, o.price) \in Nat
    BY <1>1, OneRounding
  <2>2. qty \in Nat
    BY <1>1, <2>1, MinThree DEF TradeQty
  <2> HIDE DEF qty
  <2> QED BY <1>1, <2>2, OneRounding DEF quote_from_base
<1>3. CASE out
  <2>1. n = [m EXCEPT !.stopped = TRUE, !.book = m.book \o <<o>>]
    BY <1>3 DEF MatchOne
  <2>2. n.quote = m.quote
    BY <2>1 DEF Match
  <2> QED BY <1>1, <2>2
<1>4. CASE ~out
  <2> DEFINE left == o.base - qty
             fill == Fill(Opposite(side), o, qty)
             gone == Out(Opposite(side), o, left)
             bk == IF left < MinBase THEN m.book ELSE m.book \o <<[o EXCEPT !.base = left]>>
             ev == m.events \o (IF left < MinBase THEN <<fill, gone>> ELSE <<fill>>)
             ab == m.aborted \/ o.info.owner = info.owner
  <2>1. n = [m EXCEPT !.aborted = ab, !.base = m.base - qty, !.quote = m.quote - cost,
                      !.book = bk, !.events = ev]
    BY <1>4 DEF MatchOne
  <2> HIDE DEF n, qty, left, fill, gone, bk, ev, ab, cost
  <2>2. n.quote = m.quote - cost
    BY <2>1 DEF Match
  <2>3. n.quote <= m.quote
    BY <1>1, <1>2, <2>2
  <2> QED BY <2>3 DEF n
<1> QED BY <1>3, <1>4

LEMMA MatchedWithin ==
  ASSUME NEW orders \in Seq(BookOrder), NEW side \in BookSides, NEW p, OrderTerms(p),
         NEW info \in [owner : Traders], Orderly(Opposite(side), orders), NEW most \in Nat, Within(orders, most)
  PROVE  LET m == MatchAll(orders, side, p, info)
         IN  Within(m.book, most) /\ m.quote <= p.max_underlying_token_qty
<1> DEFINE n == Len(orders)
           total == p.max_underlying_token_qty
<1>1. n \in Nat /\ (\A k \in 1 .. n : orders[k] \in BookOrder) /\ total \in Nat
  BY DEF OrderTerms
<1>2. PICK g : /\ MatchAll(orders, side, p, info) = g[n] /\ g[0] = Untaken(p)
               /\ \A k \in 0 .. n : g[k] \in Match
               /\ \A k \in 1 .. n : g[k] = MatchOne(g[k - 1], orders[k], side, p, info)
  BY MatchedInTurn
<1> DEFINE Small(k) == Within(g[k].book, most) /\ g[k].quote <= total
           V == {k \in 0 .. n : Small(k)}
           same == [k \in 0 .. n |-> k]
<1>3. \A k \in 1 .. n : orders[k].base >= MinBase /\ orders[k].base <= most
  BY DEF Orderly, Within
<1>4. Small(0)
  <2>1. g[0].book = <<>> /\ g[0].quote = total
    BY <1>2 DEF Untaken
  <2> QED BY <1>1, <2>1 DEF Within
<1>5. ASSUME NEW k \in 1 .. n, Small(k - 1) PROVE Small(k)
  <2> DEFINE o == orders[k]
             a == g[k - 1].book
             b == g[k].book
  <2>1. k - 1 \in 0 .. n /\ k \in 0 .. n
    BY <1>1
  <2>2. g[k - 1] \in Match /\ g[k] \in Match /\ a \in Seq(BookOrder) /\ o \in BookOrder
        /\ o.base >= MinBase /\ o.base <= most /\ o.base \in Nat
    <3>1. o \in BookOrder
      BY <1>1
    <3> QED BY <1>2, <1>3, <2>1, <3>1 DEF Match, BookOrder
  <2>3. KeepsOrder(b, a, o) /\ g[k].quote <= g[k - 1].quote
    BY <1>2, <2>2, KeepStep, QuoteStep
  <2>4. g[k].quote <= total
    <3>1. g[k].quote \in Nat /\ g[k - 1].quote \in Nat
      BY <2>2 DEF Match
    <3> QED BY <1>1, <1>5, <2>3, <3>1
  <2>5. Within(a, most)
    BY <1>5
  <2> HIDE DEF a, b, n, o
  <2>6. CASE b = a
    BY <2>4, <2>5, <2>6 DEF a, b
  <2>7. ASSUME NEW x \in BookOrder, x.base <= o.base, b = a \o <<x>> PROVE Within(b, most)
    <3>1. Len(a) \in Nat /\ Len(b) = Len(a) + 1 /\ b[Len(a) + 1] = x /\ \A i \in 1 .. Len(a) : b[i] = a[i]
      BY <2>2, <2>7
    <3>2. \A i \in 1 .. Len(b) : i \in 1 .. Len(a) \/ i = Len(a) + 1
      BY <3>1
    <3>3. x.base <= most
      <4>1. x.base \in Nat
        BY DEF BookOrder
      <4> QED BY <2>2, <2>7, <4>1
    <3> QED BY <2>5, <3>1, <3>2, <3>3 DEF Within
  <2> QED BY <2>3, <2>4, <2>6, <2>7 DEF KeepsOrder, b
<1>6. n \in V
  <2> HIDE DEF Small
  <2>1. \A k \in 0 .. n : same[k] = k
    OBVIOUS
  <2>2. same[0] \in V
    BY <1>1, <1>4, <2>1
  <2>3. ASSUME NEW k \in 0 + 1 .. n, same[k - 1] \in V PROVE same[k] \in V
    <3>1. k \in 1 .. n /\ k \in 0 .. n /\ k - 1 \in 0 .. n
      BY <1>1
    <3>2. Small(k - 1)
      BY <2>1, <2>3, <3>1
    <3>3. Small(k)
      BY <1>5, <3>1, <3>2
    <3> QED BY <2>1, <3>1, <3>3
  <2> HIDE DEF V, same
  <2>4. \A k \in 0 .. n : same[k] \in V
    BY <1>1, <2>2, <2>3, Along
  <2>5. n \in 0 .. n
    BY <1>1
  <2> QED BY <2>1, <2>4, <2>5
<1> QED BY <1>2, <1>6

LEMMA InsertWithin ==
  ASSUME NEW orders \in Seq(BookOrder), NEW o \in BookOrder, NEW side, Orderly(side, orders),
         NEW most, Within(orders, most), o.base <= most
  PROVE  Within(Insert(orders, o, side), most)
<1> DEFINE n == Len(orders)
           t == Insert(orders, o, side)
<1>0. PICK at \in 0 .. n : InsertedAt(at, t, orders, o, side)
  BY InsertPlace
<1>1. /\ Len(t) = n + 1 /\ t[at + 1] = o /\ \A i \in 1 .. at : t[i] = orders[i]
      /\ \A i \in at + 1 .. n : t[i + 1] = orders[i]
  BY <1>0 DEF InsertedAt
<1>2. n \in Nat /\ at \in Nat /\ at <= n
  OBVIOUS
<1>3. \A i \in 1 .. n : orders[i].base <= most
  BY DEF Within
<1> HIDE DEF n, t
<1>4. ASSUME NEW i \in 1 .. n + 1 PROVE t[i].base <= most
  <2>1. CASE i <= at
    <3>1. i \in 1 .. at /\ i \in 1 .. n
      BY <1>2, <2>1
    <3> QED BY <1>1, <1>3, <3>1
  <2>2. CASE i = at + 1
    BY <1>1, <2>2
  <2>3. CASE i > at + 1
    <3>1. i - 1 \in at + 1 .. n /\ i - 1 \in 1 .. n /\ (i - 1) + 1 = i
      BY <1>2, <2>3
    <3> QED BY <1>1, <1>3, <3>1
  <2> QED BY <1>2, <2>1, <2>2, <2>3
<1> QED BY <1>1, <1>4 DEF Within, t

LEMMA WithoutWithin ==
  ASSUME NEW orders \in Seq(BookOrder), NEW n \in 1 .. Len(orders), NEW most, Within(orders, most)
  PROVE  LET t == SubSeq(orders, 1, n - 1) \o SubSeq(orders, n + 1, Len(orders))
         IN  Len(t) = Len(orders) - 1 /\ Within(t, most)
<1> DEFINE S == {x \in BookOrder : x.base <= most}
           len == Len(orders)
           a == SubSeq(orders, 1, n - 1)
           b == SubSeq(orders, n + 1, len)
           t == a \o b
<1>1. len \in Nat /\ n \in Nat /\ 1 <= n /\ n <= len
  OBVIOUS
<1>2. \A i \in 1 .. len : orders[i] \in S
  <2>1. \A i \in 1 .. len : orders[i] \in BookOrder
    OBVIOUS
  <2> QED BY <2>1 DEF Within
<1> HIDE DEF len, S
<1>3. (\A i \in 1 .. n - 1 : orders[i] \in S) /\ (\A i \in n + 1 .. len : orders[i] \in S)
      /\ n - 1 \in Int /\ 1 \in Int /\ n + 1 \in Int /\ len \in Int
  BY <1>1, <1>2
<1>4. a \in Seq(S) /\ Len(a) = IF 1 <= n - 1 THEN n - 1 - 1 + 1 ELSE 0
  BY <1>3, SubSeqProperties
<1>5. b \in Seq(S) /\ Len(b) = IF n + 1 <= len THEN len - (n + 1) + 1 ELSE 0
  BY <1>3, SubSeqProperties
<1> HIDE DEF a, b
<1>6. t \in Seq(S) /\ Len(t) = Len(a) + Len(b)
  BY <1>4, <1>5, ConcatProperties
<1> HIDE DEF t
<1>7. Len(t) = len - 1
  BY <1>1, <1>4, <1>5, <1>6
<1>8. \A i \in 1 .. Len(t) : t[i] \in S
  BY <1>6
<1>9. Within(t, most)
  BY <1>8 DEF Within, S
<1> QED BY <1>7, <1>9 DEF t, a, b, len

\* A new order is no more than what it may pay buys.
LEMMA NewOrderWithin ==
  ASSUME BookOrderly, NEW side \in BookSides, NEW p, OrderTerms(p), NEW user \in Traders, NEW most \in Nat,
         \A d \in BookSides : Within(market_book[d], most),
         fp32_div(p.max_underlying_token_qty, p.limit_price) <= most
  PROVE  LET t == new_order(market_book, side, p, [owner |-> user], 0).book
         IN  \A d \in BookSides : Within(t[d], most)
<1> DEFINE info == [owner |-> user]
           opp == Opposite(side)
           m == MatchAll(market_book[opp], side, p, info)
           crossed == m.book # <<>> /\ Crosses(side, p.limit_price, m.book[1].price)
           afford == fp32_div(m.quote, p.limit_price)
           qty == Min({m.base, afford})
           posted == IF p.post_allowed /\ ~crossed /\ qty >= MinBase THEN qty ELSE 0
           order == [id |-> 0, price |-> p.limit_price, base |-> posted, info |-> info]
           own == IF posted > 0 THEN Insert(market_book[side], order, side) ELSE market_book[side]
           t == new_order(market_book, side, p, info, 0).book
<1>0. BookTyped
  BY DEF BookOrderly
<1>1. opp \in BookSides /\ opp # side /\ info \in [owner : Traders] /\ \A d \in BookSides : d = opp \/ d = side
  BY DEF Opposite, BookSides
<1>2. /\ market_book[opp] \in Seq(BookOrder) /\ market_book[side] \in Seq(BookOrder)
      /\ Orderly(opp, market_book[opp]) /\ Orderly(side, market_book[side])
      /\ Within(market_book[opp], most) /\ Within(market_book[side], most)
  BY <1>1 DEF BookOrderly, BookTyped
<1>3. m \in Match /\ Within(m.book, most) /\ m.quote <= p.max_underlying_token_qty
  BY <1>1, <1>2, MatchType, MatchedWithin
<1>4. t = [market_book EXCEPT ![opp] = m.book, ![side] = own]
  BY <1>1 DEF new_order
<1> HIDE DEF m, opp, info, t
<1>5. m.base \in Nat /\ m.quote \in Nat /\ m.book \in Seq(BookOrder)
  BY <1>3 DEF Match
<1>6. afford \in Nat /\ afford <= most
  <2> DEFINE all == fp32_div(p.max_underlying_token_qty, p.limit_price)
  <2>1. afford \in Nat /\ afford <= all /\ all \in Nat
    BY <1>3, <1>5, Rounding, OneRounding DEF OrderTerms
  <2>2. all <= most
    OBVIOUS
  <2> HIDE DEF afford, all
  <2> QED BY <2>1, <2>2
<1> HIDE DEF afford
<1>7. qty \in Nat /\ qty <= most
  <2>1. qty \in Nat /\ qty <= afford
    BY <1>5, <1>6, MinTwo
  <2> HIDE DEF qty
  <2> QED BY <1>6, <2>1
<1> HIDE DEF qty, crossed
<1>8. posted \in Nat /\ posted <= most
  BY <1>7
<1> HIDE DEF posted
<1>9. order \in BookOrder /\ order.base = posted
  BY <1>1, <1>8 DEF BookOrder, OrderTerms
<1> HIDE DEF order
<1>10. Within(own, most)
  <2>1. CASE posted > 0
    <3>1. Within(Insert(market_book[side], order, side), most)
      BY <1>2, <1>8, <1>9, InsertWithin
    <3> QED BY <2>1, <3>1
  <2>2. CASE ~(posted > 0)
    BY <1>2, <2>2
  <2> QED BY <2>1, <2>2
<1> HIDE DEF own
<1>11. t[opp] = m.book /\ t[side] = own
  BY <1>0, <1>1, <1>4 DEF BookTyped
<1>12. \A d \in BookSides : Within(t[d], most)
  BY <1>1, <1>3, <1>10, <1>11
<1> QED BY <1>12 DEF t, info

\* most tickets are enough for every order that is placed
Largest(most) ==
  /\ most \in Nat
  /\ \A action \in {"Lend", "Borrow"}, qty \in TradeSizes, price \in TradePrices :
       fp32_div(Total(action, qty), price) <= most

BookSmall(most) ==
  /\ BookOrderly
  /\ \A side \in BookSides : Len(market_book[side]) <= MaxDepth /\ Within(market_book[side], most)

LEMMA SmallStep ==
  ASSUME NEW most, Largest(most), BookSmall(most), [BookNext]_market_book
  PROVE  BookSmall(most)'
<1>0. BookOrderly /\ BookOrderly' /\ BookTyped /\ most \in Nat
  BY OrderlyStep DEF BookSmall, BookOrderly, Largest
<1>1. ASSUME NEW action \in {"Lend", "Borrow"}, NEW user \in Traders, NEW qty \in TradeSizes,
             NEW price \in TradePrices, NEW options, place_order(action, user, qty, price, options)
      PROVE  BookSmall(most)'
  <2> DEFINE params == OrderParams(MaxQty, qty, price, options)
             fee == add_origination_fee(params)
             p == IF action = "Lend" THEN params ELSE fee
             t == new_order(market_book, SidePosted(action), p, [owner |-> user], 0).book
  <2>1. OrderTerms(p)
    BY UserTerms
  <2>2. SidePosted(action) \in BookSides
    BY DEF SidePosted, BookSides
  <2>3. p.max_underlying_token_qty = Total(action, qty) /\ p.limit_price = price
    <3>1. params.max_underlying_token_qty = qty /\ params.limit_price = price
      BY DEF OrderParams
    <3>2. fee.max_underlying_token_qty = borrow_order_qty(params.max_underlying_token_qty)
          /\ fee.limit_price = params.limit_price
      BY WithFee
    <3> HIDE DEF params, fee
    <3> QED BY <3>1, <3>2 DEF Total
  <2>4. fp32_div(p.max_underlying_token_qty, p.limit_price) <= most
    BY <2>3 DEF Largest
  <2>5. market_book' = t
    BY <1>1 DEF place_order, Placed
  <2> HIDE DEF p
  <2>6. \A d \in BookSides : Within(t[d], most)
    BY <1>0, <2>1, <2>2, <2>4, NewOrderWithin DEF BookSmall
  <2>7. \A d \in BookSides : Len(t[d]) <= MaxDepth
    BY <1>1 DEF place_order, Placed, BookSides, p
  <2> HIDE DEF t
  <2> QED BY <1>0, <2>5, <2>6, <2>7 DEF BookSmall
<1>2. ASSUME NEW side \in {"Bid", "Ask"}, NEW n \in 1 .. MaxDepth, cancel_order(side, n)
      PROVE  BookSmall(most)'
  <2> DEFINE orders == market_book[side]
             less == SubSeq(orders, 1, n - 1) \o SubSeq(orders, n + 1, Len(orders))
  <2>1. orders \in Seq(BookOrder) /\ side \in BookSides /\ Within(orders, most) /\ Len(orders) <= MaxDepth
    BY <1>0 DEF BookSmall, BookTyped, BookSides
  <2>2. n \in 1 .. Len(orders) /\ Len(orders) \in Nat
    BY <1>2, <2>1 DEF cancel_order
  <2>3. market_book' = [market_book EXCEPT ![side] = less]
    BY <1>2 DEF cancel_order
  <2> HIDE DEF orders
  <2>4. Len(less) = Len(orders) - 1 /\ Within(less, most)
    BY <2>1, <2>2, WithoutWithin
  <2> HIDE DEF less
  <2>5. \A d \in BookSides : market_book'[d] = IF d = side THEN less ELSE market_book[d]
    BY <1>0, <2>1, <2>3 DEF BookTyped
  <2>6. Len(less) <= MaxDepth
    BY <2>1, <2>2, <2>4, OrderbookModelAssumption
  <2>7. \A d \in BookSides : Len(market_book'[d]) <= MaxDepth /\ Within(market_book'[d], most)
    BY <2>4, <2>5, <2>6 DEF BookSmall
  <2> QED BY <1>0, <2>7 DEF BookSmall
<1>3. CASE UNCHANGED market_book
  BY <1>3 DEF BookSmall, BookOrderly, BookTyped
<1> QED BY <1>1, <1>2, <1>3 DEF BookNext

\* What a side offers is at most the largest order for every place.
LEMMA OfferWithin ==
  ASSUME NEW orders \in Seq(BookOrder), NEW most \in Nat, Within(orders, most), NEW depth \in Nat, Len(orders) <= depth
  PROVE  OnOffer(orders) <= depth * most
<1> DEFINE n == Len(orders)
           b == [i \in DOMAIN orders |-> orders[i].base]
           Low(k) == SumOver(b, 1 .. k) \in Nat /\ SumOver(b, 1 .. k) <= k * most
           V == {k \in 0 .. n : Low(k)}
           same == [k \in 0 .. n |-> k]
<1>1. n \in Nat /\ n <= depth
  OBVIOUS
<1>2. Low(0)
  <2>1. 1 .. 0 = {} /\ 0 * most = 0
    OBVIOUS
  <2> QED BY <2>1, SumEmpty
<1>3. ASSUME NEW k \in 1 .. n, Low(k - 1) PROVE Low(k)
  <2> DEFINE x == SumOver(b, 1 .. k - 1)
             y == SumOver(b, 1 .. k)
             c == orders[k].base
  <2>1. x \in Nat /\ c \in Nat /\ y = x + c /\ c <= most
    BY Offering DEF Within
  <2>2. x <= (k - 1) * most
    BY <1>3
  <2>3. k \in Nat /\ k - 1 \in Nat /\ (k - 1) * most + most = k * most /\ (k - 1) * most \in Nat
    BY <1>1
  <2> DEFINE z == (k - 1) * most
             w == k * most
  <2> HIDE DEF x, y, c, z, w
  <2>4. y \in Nat /\ y <= w
    <3>1. x <= z /\ z + most = w /\ z \in Nat
      BY <2>2, <2>3 DEF z, w
    <3> QED BY <2>1, <3>1
  <2> QED BY <2>4 DEF y, w
<1>4. n \in V
  <2> HIDE DEF Low
  <2>1. \A k \in 0 .. n : same[k] = k
    OBVIOUS
  <2>2. same[0] \in V
    BY <1>1, <1>2, <2>1
  <2>3. ASSUME NEW k \in 0 + 1 .. n, same[k - 1] \in V PROVE same[k] \in V
    <3>1. k \in 1 .. n /\ k \in 0 .. n /\ k - 1 \in 0 .. n
      BY <1>1
    <3>2. Low(k - 1)
      BY <2>1, <2>3, <3>1
    <3>3. Low(k)
      BY <1>3, <3>1, <3>2
    <3> QED BY <2>1, <3>1, <3>3
  <2> HIDE DEF V, same
  <2>4. \A k \in 0 .. n : same[k] \in V
    BY <1>1, <2>2, <2>3, Along
  <2>5. n \in 0 .. n
    BY <1>1
  <2> QED BY <2>1, <2>4, <2>5
<1>5. DOMAIN orders = 1 .. n
  OBVIOUS
<1>6. OnOffer(orders) \in Nat /\ OnOffer(orders) <= n * most
  BY <1>4, <1>5 DEF OnOffer
<1>7. n * most <= depth * most /\ n * most \in Nat /\ depth * most \in Nat
  BY <1>1, MulNat
<1> DEFINE w == depth * most
           z == n * most
           x == OnOffer(orders)
<1>8. x \in Nat /\ x <= z /\ z <= w /\ z \in Nat /\ w \in Nat
  BY <1>6, <1>7
<1> HIDE DEF w, z, x
<1>9. x <= w
  BY <1>8
<1> QED BY <1>9 DEF x, w

\* The largest quantity there is leaves room for a full side and an order that is simulated.
Roomy ==
  \E most : /\ Largest(most)
            /\ \A qty \in SimulatedSizes, limit \in TradePrices : MaxDepth * most + fp32_div(qty, limit) <= MaxQty

LEMMA SmallFits ==
  ASSUME NEW most, Largest(most), BookSmall(most),
         \A qty \in SimulatedSizes, limit \in TradePrices : MaxDepth * most + fp32_div(qty, limit) <= MaxQty
  PROVE  BookFits
<1> SUFFICES ASSUME NEW side \in BookSides, NEW qty \in SimulatedSizes, NEW limit \in TradePrices
             PROVE  OnOffer(market_book[side]) + fp32_div(qty, limit) <= MaxQty
  BY DEF BookFits
<1>1. /\ market_book[side] \in Seq(BookOrder) /\ most \in Nat /\ Within(market_book[side], most)
      /\ MaxDepth \in Nat /\ Len(market_book[side]) <= MaxDepth
  BY OrderbookModelAssumption DEF BookSmall, BookOrderly, BookTyped, Largest
<1>2. OnOffer(market_book[side]) <= MaxDepth * most
  BY <1>1, OfferWithin
<1>3. fp32_div(qty, limit) \in Nat /\ MaxDepth * most \in Nat /\ MaxQty \in Nat
  <2>1. qty \in Nat /\ limit \in 1 .. ONE
    BY OrderbookModelAssumption
  <2>2. MaxDepth * most \in Nat
    BY <1>1, MulNat
  <2> QED BY <2>1, <2>2, OneRounding, OrderbookAssumption
<1>4. OnOffer(market_book[side]) \in Int
  <2> DEFINE orders == market_book[side]
  <2>1. orders \in Seq(BookOrder)
    BY <1>1
  <2> HIDE DEF orders
  <2>2. CASE orders = <<>>
    <3>1. DOMAIN orders = {}
      BY <2>2
    <3> QED BY <3>1, SumEmpty DEF OnOffer, orders
  <2>3. CASE orders # <<>>
    <3>1. 1 \in 1 .. Len(orders)
      BY <2>1, <2>3
    <3>2. OnOffer(orders) \in Nat
      BY <2>1, <3>1, Offering
    <3> QED BY <3>2 DEF orders
  <2> QED BY <2>2, <2>3
<1> DEFINE x == OnOffer(market_book[side])
           y == fp32_div(qty, limit)
           z == MaxDepth * most
<1>5. x \in Int /\ y \in Nat /\ z \in Nat /\ x <= z /\ z + y <= MaxQty
  BY <1>2, <1>3, <1>4
<1> HIDE DEF x, y, z
<1>6. x + y <= MaxQty
  BY <1>3, <1>5
<1> QED BY <1>6 DEF x, y

\* What the client shows of an order is what the program then does (simulate_maker and
\* simulate_taker, orderbook.rs:318 and 455, against the matching of new_order): on every
\* book that users' orders and cancellations build, for any prices up to one, sizes, fee and
\* depth, if the smallest order is the same for both and the largest quantity is not in the way.
THEOREM SimulationAlwaysAgrees ==
  ASSUME MIN_BASE_SIZE_POSTED = MinBase, Roomy
  PROVE  BookSpec => []SimulationAgrees
<1>1. PICK most : /\ Largest(most)
                  /\ \A qty \in SimulatedSizes, limit \in TradePrices : MaxDepth * most + fp32_div(qty, limit) <= MaxQty
  BY DEF Roomy
<1>2. InitBook => BookSmall(most)
  <2> SUFFICES ASSUME InitBook PROVE BookSmall(most)
    OBVIOUS
  <2>1. \A side \in BookSides : market_book[side] = <<>>
    BY DEF InitBook, EmptyBook, BookSides
  <2>2. BookOrderly
    BY <2>1 DEF InitBook, EmptyBook, BookOrderly, BookTyped, BookSides, Orderly
  <2>3. MaxDepth \in Nat
    BY OrderbookModelAssumption
  <2> QED BY <2>1, <2>2, <2>3 DEF BookSmall, Within
<1>3. BookSmall(most) /\ [BookNext]_market_book => BookSmall(most)'
  BY <1>1, SmallStep
<1>4. BookSmall(most) => SimulationAgrees
  BY <1>1, SmallFits, OrderlyAgrees DEF BookSmall
<1> QED BY <1>2, <1>3, <1>4, PTL DEF BookSpec

=============================================================================
