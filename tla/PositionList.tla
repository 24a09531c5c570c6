---------------------------- MODULE PositionList ----------------------------
(***************************************************************************)
(* AccountPositionList (state/account/positions.rs) and the operations of  *)
(* MarginAccount on it (state/account.rs): `positions` is an array of      *)
(* slots in which a free slot has the default token, and `map` an array of *)
(* (mint, index) keys of which the first `length` are kept sorted by mint  *)
(* and are searched by bisection.                                          *)
(*                                                                         *)
(* Public keys are numbers in their byte order; 0 is Pubkey::default().    *)
(* Array positions count from 1. A position keeps the fields the list's    *)
(* operations read: token, address and balance.                            *)
(***************************************************************************)
EXTENDS Integers, FiniteSets

CONSTANTS Mints, Addresses, MaxBalance, SlotCount, MaxUserPositions

ASSUME PositionListAssumption ==
    /\ Mints \subseteq Nat \ {0}
    /\ Addresses \subseteq Nat \ {0}
    /\ SlotCount \in Nat \ {0}
    /\ MaxUserPositions \in 1 .. SlotCount
    /\ MaxBalance \in Nat

VARIABLES
    length,         \* AccountPositionList.length
    map,            \* AccountPositionList.map
    positions,      \* AccountPositionList.positions
    liquidating     \* MarginAccount::is_liquidating()

listVars == <<length, map, positions, liquidating>>

Slots == 1 .. SlotCount

Default == 0

Keys == [mint : Mints \cup {Default}, index : 0 .. SlotCount]

\* Zeroable::zeroed() for a key and for a position.
ZeroKey      == [mint |-> Default, index |-> 0]
ZeroPosition == [token |-> Default, address |-> Default, balance |-> 0]

ListTypeOK ==
    /\ length \in 0 .. SlotCount
    /\ map \in [Slots -> Keys]
    /\ positions \in [Slots -> [token : Mints \cup {Default},
                                address : Addresses \cup {Default},
                                balance : 0 .. MaxBalance]]
    /\ liquidating \in BOOLEAN

InitList ==
    /\ length = 0
    /\ map = [i \in Slots |-> ZeroKey]
    /\ positions = [i \in Slots |-> ZeroPosition]
    /\ liquidating = FALSE

-----------------------------------------------------------------------------
(* Lookup.                                                                 *)

NotFound == 0

\* slice::binary_search_by_key over the first n keys (external).
Bisect(keys, m, n) ==
    LET search[w \in (1 .. n + 1) \X (0 .. n)] ==
          LET l == w[1]
              r == w[2]
              mid == l + (r - l) \div 2
          IN  IF l > r THEN NotFound
              ELSE IF keys[mid].mint = m THEN mid
              ELSE IF keys[mid].mint < m THEN search[<<mid + 1, r>>]
              ELSE search[<<l, mid - 1>>]
    IN  search[<<1, n>>]

\* get_map_index: where mint m is in the sorted part of the map.
get_map_index(m) == Bisect(map, m, length)

\* get: the position of mint m, ZeroPosition for None.
get(m) ==
    LET i == get_map_index(m)
    IN  IF i = NotFound THEN ZeroPosition ELSE positions[map[i].index]

\* Slip: trust the index of the key.
get_position_by_key_trusting(key) == positions[key.index]

\* get_position_by_key: the index is a hint, used when the slot still has
\* the key's mint; otherwise the map is searched.
get_position_by_key(key) ==
    IF positions[key.index].token = key.mint
    THEN positions[key.index]
    ELSE get(key.mint)

-----------------------------------------------------------------------------
(* AccountPositionList::add and ::remove.                                  *)

\* sort_by_key over keys with distinct mints: key k is the one with k - 1
\* smaller mints in the prefix of length n.
SortedByMint(keys, n) ==
    [k \in Slots |->
        IF k > n THEN keys[k]
        ELSE keys[CHOOSE i \in 1 .. n :
                    Cardinality({j \in 1 .. n : keys[j].mint < keys[i].mint})
                        = k - 1]]

FreeSlots == {i \in Slots : positions[i].token = Default}

FirstFree == CHOOSE i \in FreeSlots : \A j \in FreeSlots : i <= j

\* Slip: the key is appended and the map is left unsorted.
Add_unsorted(m, p) ==
    /\ FreeSlots # {}
    /\ map' = [map EXCEPT ![length + 1] = [mint |-> m, index |-> FirstFree]]
    /\ length' = length + 1
    /\ positions' = [positions EXCEPT ![FirstFree] = p]

\* add, for a mint that is not in the map yet: take the first free slot,
\* append its key, sort, and mark the slot; the caller fills it with p.
Add(m, p) ==
    /\ FreeSlots # {}
    /\ map' = SortedByMint(
                [map EXCEPT ![length + 1] = [mint |-> m, index |-> FirstFree]],
                length + 1)
    /\ length' = length + 1
    /\ positions' = [positions EXCEPT ![FirstFree] = p]

\* Slip: the shifted keys are not followed by a cleared last key.
Shift_keeps_last(keys, i, n) ==
    [k \in Slots |-> IF k \in i .. n - 1 THEN keys[k + 1] ELSE keys[k]]

\* copy_within(i + 1 .. n, i), then clear the last key.
Shift(keys, i, n) ==
    [k \in Slots |-> IF k = n THEN ZeroKey
                     ELSE IF k \in i .. n - 1 THEN keys[k + 1]
                     ELSE keys[k]]

\* remove: the position must be the one held at address a.
remove(m, a) ==
    LET i == get_map_index(m)
        slot == map[i].index
    IN  /\ i # NotFound
        /\ positions[slot].address = a
        /\ positions' = [positions EXCEPT ![slot] = ZeroPosition]
        /\ map' = Shift(map, i, length)
        /\ length' = length - 1

-----------------------------------------------------------------------------
(* MarginAccount's operations on the list.                                 *)

\* Slip: the owner's limit is ignored.
MayRegister_always == TRUE

\* The owner may not go past MAX_USER_POSITIONS; a liquidator may.
MayRegister == liquidating \/ length < MaxUserPositions

\* register_position: an existing mint keeps its position as it is.
register_position(m, a) ==
    /\ MayRegister
    /\ \/ /\ \E i \in Slots : map[i].mint = m
          /\ UNCHANGED <<length, map, positions>>
       \/ /\ \A i \in Slots : map[i].mint # m
          /\ Add(m, [token |-> m, address |-> a, balance |-> 0])
    /\ UNCHANGED liquidating

\* unregister_position: refused while the position has a balance (the whole
\* instruction fails, so the removal is undone).
unregister_position(m, a) ==
    /\ remove(m, a)
    /\ get(m).balance = 0
    /\ UNCHANGED liquidating

\* set_position_balance through get_mut.
set_position_balance(m, a, b) ==
    LET i == get_map_index(m)
    IN  /\ i # NotFound
        /\ positions[map[i].index].address = a
        /\ positions' = [positions EXCEPT ![map[i].index].balance = b]
        /\ UNCHANGED <<length, map, liquidating>>

\* start_liquidation and end_liquidation, as far as the list is concerned.
start_liquidation == ~liquidating /\ liquidating' = TRUE
end_liquidation   == liquidating /\ liquidating' = FALSE

ListNext ==
    \/ \E m \in Mints, a \in Addresses :
         \/ register_position(m, a)
         \/ unregister_position(m, a)
         \/ \E b \in 0 .. MaxBalance : set_position_balance(m, a, b)
    \/ (start_liquidation \/ end_liquidation) /\ UNCHANGED <<length, map, positions>>

ListSpec == InitList /\ [][ListNext]_listVars

-----------------------------------------------------------------------------
(* Properties.                                                             *)

\* The sorted prefix and the slots describe each other: keys strictly sorted,
\* each pointing at the slot of its mint; every used slot has a key; whatever
\* is beyond the prefix or free is zero, so that add's scan of the whole map
\* and its search for a free slot see no ghosts.
MapMirrorsSlots ==
    /\ \A i, j \in 1 .. length : i < j => map[i].mint < map[j].mint
    /\ \A i \in 1 .. length :
          map[i].index \in Slots /\ positions[map[i].index].token = map[i].mint
    /\ \A s \in Slots :
          \/ positions[s] = ZeroPosition
          \/ \E i \in 1 .. length : map[i].index = s
    /\ \A i \in length + 1 .. SlotCount : map[i] = ZeroKey

\* Bisection over the map finds every registered mint and no other.
SearchIsExact ==
    \A m \in Mints :
        IF \E s \in Slots : positions[s].token = m
        THEN get(m).token = m
        ELSE get(m) = ZeroPosition

\* A key kept across other registrations and removals (adapter results hold
\* one while they are applied) resolves to the position of its mint: the
\* index it carries may be outdated, never misleading.
StaleKeysResolve ==
    \A m \in Mints, s \in Slots :
        get_position_by_key([mint |-> m, index |-> s]) = get(m)

\* The list implements the abstract map of PositionMap.
position_of ==
    [m \in Mints |->
        IF \E s \in Slots : positions[s].token = m
        THEN LET p == positions[CHOOSE s \in Slots : positions[s].token = m]
             IN  [address |-> p.address, balance |-> p.balance]
        ELSE [address |-> 0, balance |-> 0]]

Map == INSTANCE PositionMap WITH pos <- position_of

ImplementsPositionMap == Map!AbsSpec

=============================================================================
