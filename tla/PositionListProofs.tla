------------------------- MODULE PositionListProofs -------------------------
(***************************************************************************)
(* The position list of a margin account, for every number of slots and    *)
(* every set of mints: the sorted map and the slots always describe each   *)
(* other, bisection finds every position and no other, a key kept across   *)
(* other operations still resolves to its position, and the data structure *)
(* implements the map of PositionMap.                                      *)
(***************************************************************************)
EXTENDS PositionList, SumTheorems

\* A key in use has a mint, and its slot the address of a token account.
KeysInUse ==
    \A i \in 1 .. length :
        map[i].mint \in Mints /\ positions[map[i].index].address \in Addresses

ListInv == ListTypeOK /\ MapMirrorsSlots /\ KeysInUse

-----------------------------------------------------------------------------
(* Sorting.                                                                *)

\* The mints of keys are numbers.
LEMMA KeyTypes ==
  /\ \A k \in Keys : k.mint \in Nat
  /\ SlotCount \in Nat \ {0} /\ Mints \subseteq Nat \ {0}
  /\ Default \notin Mints
<1>1. Mints \subseteq Nat \ {0} /\ SlotCount \in Nat \ {0}
  BY PositionListAssumption
<1>2. \A m \in Mints \cup {Default} : m \in Nat
  BY <1>1 DEF Default
<1>3. \A k \in Keys : k.mint \in Mints \cup {Default}
  BY DEF Keys
<1>4. \A k \in Keys : k.mint \in Nat
  BY <1>2, <1>3
<1>5. Default \notin Mints
  BY <1>1 DEF Default
<1> QED BY <1>1, <1>4, <1>5

\* sort_by_key permutes the keys of the prefix, and orders them strictly when
\* their mints differ. Keys have different numbers of smaller keys, so for
\* each place there is one.
LEMMA Sorted ==
  ASSUME NEW keys \in [Slots -> Keys], NEW n \in Slots,
         \A i, j \in 1 .. n : i # j => keys[i].mint # keys[j].mint
  PROVE  LET s == SortedByMint(keys, n)
         IN  /\ s \in [Slots -> Keys]
             /\ \A k \in Slots : k > n => s[k] = keys[k]
             /\ \A k \in 1 .. n : \E i \in 1 .. n : s[k] = keys[i]
             /\ \A i \in 1 .. n : \E k \in 1 .. n : s[k] = keys[i]
             /\ \A j, k \in 1 .. n : j < k => s[j].mint < s[k].mint
<1> DEFINE Below(i) == {j \in 1 .. n : keys[j].mint < keys[i].mint}
           rank == [i \in 1 .. n |-> Cardinality(Below(i))]
           pick(k) == CHOOSE i \in 1 .. n : Cardinality(Below(i)) = k - 1
           s == SortedByMint(keys, n)
<1>0. /\ n \in Nat \ {0} /\ n <= SlotCount
      /\ 1 .. n \subseteq Slots
      /\ \A i \in 1 .. n : keys[i].mint \in Nat
  BY KeyTypes DEF Slots
<1>1. ASSUME NEW i \in 1 .. n
      PROVE  IsFiniteSet(Below(i)) /\ Cardinality(Below(i)) \in 0 .. n - 1
  <2>1. IsFiniteSet(1 .. n) /\ Cardinality(1 .. n) = n
    BY <1>0, FS_Interval
  <2>2. IsFiniteSet((1 .. n) \ {i}) /\ Cardinality((1 .. n) \ {i}) = n - 1
    BY <2>1, FS_RemoveElement
  <2>3. Below(i) \in SUBSET ((1 .. n) \ {i})
    BY <1>0
  <2>4. IsFiniteSet(Below(i)) /\ Cardinality(Below(i)) <= n - 1
    <3> HIDE DEF Below
    <3> QED BY <2>2, <2>3, FS_Subset
  <2>5. Cardinality(Below(i)) \in Nat
    <3> HIDE DEF Below
    <3> QED BY <2>4, FS_CardinalityType
  <2> HIDE DEF Below
  <2> QED BY <1>0, <2>4, <2>5
<1>2. ASSUME NEW i \in 1 .. n, NEW j \in 1 .. n, keys[i].mint < keys[j].mint
      PROVE  Cardinality(Below(i)) < Cardinality(Below(j))
  <2>1. i \notin Below(i) /\ Below(i) \cup {i} \in SUBSET Below(j)
    BY <1>0, <1>2
  <2> HIDE DEF Below
  <2>2. IsFiniteSet(Below(i)) /\ IsFiniteSet(Below(j))
    BY <1>1
  <2>3. Cardinality(Below(i) \cup {i}) = Cardinality(Below(i)) + 1
    BY <2>1, <2>2, FS_AddElement
  <2>4. Cardinality(Below(i) \cup {i}) <= Cardinality(Below(j))
    BY <2>1, <2>2, FS_Subset
  <2>5. Cardinality(Below(i)) \in Nat /\ Cardinality(Below(j)) \in Nat
    BY <1>1, <1>0
  <2> QED BY <2>3, <2>4, <2>5
<1> HIDE DEF Below
<1>3. \A i, j \in 1 .. n : i # j => rank[i] # rank[j]
  <2> SUFFICES ASSUME NEW i \in 1 .. n, NEW j \in 1 .. n, i # j
               PROVE  Cardinality(Below(i)) # Cardinality(Below(j))
    OBVIOUS
  <2>1. keys[i].mint < keys[j].mint \/ keys[j].mint < keys[i].mint
    BY <1>0
  <2>2. Cardinality(Below(i)) \in Nat /\ Cardinality(Below(j)) \in Nat
    BY <1>0, <1>1
  <2> QED BY <1>2, <2>1, <2>2
<1>4. rank \in Injection(1 .. n, 0 .. n - 1)
  <2>1. rank \in [1 .. n -> 0 .. n - 1]
    BY <1>1
  <2> HIDE DEF rank
  <2> QED BY <1>3, <2>1 DEF Injection, IsInjective
<1>5. rank \in Surjection(1 .. n, 0 .. n - 1)
  <2>1. /\ IsFiniteSet(0 .. n - 1) /\ Cardinality(1 .. n) = n
        /\ Cardinality(0 .. n - 1) = n
    BY <1>0, FS_Interval
  <2> HIDE DEF rank
  <2> QED BY <1>4, <2>1, FS_Injection
<1>6. ASSUME NEW k \in 1 .. n
      PROVE  pick(k) \in 1 .. n /\ Cardinality(Below(pick(k))) = k - 1
  <2>1. k - 1 \in 0 .. n - 1
    BY <1>0
  <2>2. \E i \in 1 .. n : rank[i] = k - 1
    <3> HIDE DEF rank
    <3> QED BY <1>5, <2>1 DEF Surjection
  <2> QED BY <2>2
<1>7. \A k \in Slots : s[k] = IF k > n THEN keys[k] ELSE keys[pick(k)]
  BY DEF SortedByMint, Below
<1>8. \A k \in 1 .. n : s[k] = keys[pick(k)] /\ pick(k) \in 1 .. n
  BY <1>0, <1>6, <1>7
<1>9. s \in [Slots -> Keys]
  <2>1. s = [k \in Slots |-> s[k]]
    BY DEF SortedByMint
  <2>2. ASSUME NEW k \in Slots PROVE s[k] \in Keys
    <3>1. CASE k > n
      BY <1>7, <3>1
    <3>2. CASE ~(k > n)
      <4>1. k \in 1 .. n
        BY <1>0, <3>2 DEF Slots
      <4> HIDE DEF s, pick
      <4> QED BY <1>0, <1>8, <4>1
    <3> QED BY <3>1, <3>2
  <2> HIDE DEF s
  <2> QED BY <2>1, <2>2
<1>10. ASSUME NEW i \in 1 .. n PROVE \E k \in 1 .. n : s[k] = keys[i]
  <2> DEFINE k == Cardinality(Below(i)) + 1
  <2>1. k \in 1 .. n /\ k - 1 = Cardinality(Below(i))
    BY <1>0, <1>1
  <2>2. pick(k) \in 1 .. n /\ Cardinality(Below(pick(k))) = Cardinality(Below(i))
    <3> HIDE DEF k, pick
    <3> QED BY <1>6, <2>1
  <2>3. pick(k) = i
    <3> HIDE DEF pick, k
    <3> QED BY <1>3, <2>2
  <2> HIDE DEF pick, k, s
  <2> QED BY <1>8, <2>1, <2>3
<1>11. ASSUME NEW j \in 1 .. n, NEW k \in 1 .. n, j < k
       PROVE  s[j].mint < s[k].mint
  <2> DEFINE a == pick(j)
             b == pick(k)
  <2>1. /\ a \in 1 .. n /\ b \in 1 .. n /\ s[j] = keys[a] /\ s[k] = keys[b]
        /\ Cardinality(Below(a)) = j - 1 /\ Cardinality(Below(b)) = k - 1
    <3> HIDE DEF pick, s
    <3> QED BY <1>6, <1>8
  <2> HIDE DEF a, b, s, pick
  <2>2. ~(keys[b].mint < keys[a].mint)
    BY <1>0, <1>2, <1>11, <2>1
  <2>3. a # b
    BY <1>0, <1>11, <2>1
  <2>4. keys[a].mint \in Nat /\ keys[b].mint \in Nat /\ keys[a].mint # keys[b].mint
    BY <1>0, <2>1, <2>3
  <2> QED BY <2>1, <2>2, <2>4
<1> HIDE DEF s, pick
<1>12. \A k \in 1 .. n : \E i \in 1 .. n : s[k] = keys[i]
  BY <1>8
<1>13. \A k \in Slots : k > n => s[k] = keys[k]
  BY <1>7
<1> QED BY <1>9, <1>10, <1>11, <1>12, <1>13 DEF s

-----------------------------------------------------------------------------
(* Bisection.                                                              *)

\* f searches the windows w of W for mint m, as the local function of Bisect
\* does.
Searches(f, keys, m, W) ==
    f = [w \in W |->
          LET l == w[1]
              r == w[2]
              mid == l + (r - l) \div 2
          IN  IF l > r THEN NotFound
              ELSE IF keys[mid].mint = m THEN mid
              ELSE IF keys[mid].mint < m THEN f[<<mid + 1, r>>]
              ELSE f[<<l, mid - 1>>]]

Windows(n) == (1 .. n + 1) \X (0 .. n)

\* The windows of at most k keys
Narrow(n, k) == {w \in Windows(n) : w[2] - w[1] + 1 <= k}

\* What f has to find in window w of the first n keys
Finds(f, keys, m, w) ==
    IF \E i \in w[1] .. w[2] : keys[i].mint = m
    THEN f[w] \in w[1] .. w[2] /\ keys[f[w]].mint = m
    ELSE f[w] = NotFound

\* Bisect is one of the functions that search all windows, if there is one.
LEMMA BisectChosen ==
  ASSUME NEW keys, NEW m, NEW n
  PROVE  Bisect(keys, m, n) = (CHOOSE f : Searches(f, keys, m, Windows(n)))[<<1, n>>]
  BY DEF Bisect, Searches, Windows

\* Both halves of a window are windows, and narrower.
LEMMA Halves ==
  ASSUME NEW n \in Nat, NEW k \in Nat, NEW w \in Narrow(n, k + 1), ~(w[1] > w[2])
  PROVE  LET mid == w[1] + (w[2] - w[1]) \div 2
         IN  /\ mid \in w[1] .. w[2] /\ mid \in 1 .. n
             /\ <<mid + 1, w[2]>> \in Narrow(n, k)
             /\ <<w[1], mid - 1>> \in Narrow(n, k)
<1> DEFINE l == w[1]
           r == w[2]
           mid == l + (r - l) \div 2
<1>1. l \in 1 .. n + 1 /\ r \in 0 .. n /\ r - l + 1 <= k + 1 /\ l <= r
  BY DEF Narrow, Windows
<1> HIDE DEF l, r
<1>2. mid \in Int /\ l <= mid /\ mid <= r
  BY <1>1
<1> HIDE DEF mid
<1>3. /\ mid \in l .. r /\ mid \in 1 .. n
      /\ mid + 1 \in 1 .. n + 1 /\ mid - 1 \in 0 .. n
      /\ r - (mid + 1) + 1 <= k /\ (mid - 1) - l + 1 <= k
  BY <1>1, <1>2
<1>4. <<mid + 1, r>> \in Narrow(n, k) /\ <<l, mid - 1>> \in Narrow(n, k)
  BY <1>1, <1>3 DEF Narrow, Windows
<1> QED BY <1>3, <1>4 DEF mid, l, r

\* There is one: it is built for wider and wider windows.
LEMMA SearchExists ==
  ASSUME NEW keys, NEW m, NEW n \in Nat
  PROVE  \E f : Searches(f, keys, m, Windows(n))
<1> DEFINE P == {k \in Nat : \E f : Searches(f, keys, m, Narrow(n, k))}
<1>1. 0 \in P
  <2> DEFINE f == [w \in Narrow(n, 0) |-> NotFound]
  <2>1. \A w \in Narrow(n, 0) : w[1] > w[2]
    BY DEF Narrow, Windows
  <2>2. Searches(f, keys, m, Narrow(n, 0))
    BY <2>1 DEF Searches
  <2> QED BY <2>2
<1>2. ASSUME NEW k \in Nat, k \in P PROVE k + 1 \in P
  <2>1. PICK f : Searches(f, keys, m, Narrow(n, k))
    BY <1>2
  <2> DEFINE mid(w) == w[1] + (w[2] - w[1]) \div 2
             body(g, w) == IF w[1] > w[2] THEN NotFound
                           ELSE IF keys[mid(w)].mint = m THEN mid(w)
                           ELSE IF keys[mid(w)].mint < m THEN g[<<mid(w) + 1, w[2]>>]
                           ELSE g[<<w[1], mid(w) - 1>>]
             h == [w \in Narrow(n, k + 1) |-> body(f, w)]
  <2>2. \A w \in Narrow(n, k) : w \in Narrow(n, k + 1) /\ h[w] = f[w]
    <3>1. \A w \in Narrow(n, k) : w \in Narrow(n, k + 1)
      BY DEF Narrow, Windows
    <3>2. \A w \in Narrow(n, k) : f[w] = body(f, w)
      BY <2>1 DEF Searches
    <3> QED BY <3>1, <3>2
  <2>3. ASSUME NEW w \in Narrow(n, k + 1) PROVE h[w] = body(h, w)
    <3>1. CASE w[1] > w[2]
      BY <3>1
    <3>2. CASE ~(w[1] > w[2])
      <4>1. /\ <<mid(w) + 1, w[2]>> \in Narrow(n, k)
            /\ <<w[1], mid(w) - 1>> \in Narrow(n, k)
        BY <3>2, Halves
      <4>2. /\ h[<<mid(w) + 1, w[2]>>] = f[<<mid(w) + 1, w[2]>>]
            /\ h[<<w[1], mid(w) - 1>>] = f[<<w[1], mid(w) - 1>>]
        <5> HIDE DEF h, mid
        <5> QED BY <2>2, <4>1
      <4>3. h[w] = body(f, w)
        OBVIOUS
      <4> HIDE DEF h, mid
      <4> QED BY <3>2, <4>2, <4>3
    <3> QED BY <3>1, <3>2
  <2>4. Searches(h, keys, m, Narrow(n, k + 1))
    <3>1. h = [w \in Narrow(n, k + 1) |-> h[w]]
      OBVIOUS
    <3>2. h = [w \in Narrow(n, k + 1) |-> body(h, w)]
      <4> HIDE DEF h, body
      <4> QED BY <2>3, <3>1
    <3> HIDE DEF h
    <3> QED BY <3>2 DEF Searches
  <2> HIDE DEF h
  <2> QED BY <2>4
<1>3. Nat \subseteq P
  <2> HIDE DEF P
  <2> QED BY <1>1, <1>2, NatSetInduction
<1>4. Narrow(n, n) = Windows(n)
  BY DEF Narrow, Windows
<1>5. n \in P
  BY <1>3
<1> QED BY <1>4, <1>5

\* Over strictly sorted keys it finds what there is to find in each window.
LEMMA SearchFinds ==
  ASSUME NEW n \in Nat, NEW keys, NEW m \in Nat, NEW f,
         \A i \in 1 .. n : keys[i].mint \in Nat,
         \A i, j \in 1 .. n : i < j => keys[i].mint < keys[j].mint,
         Searches(f, keys, m, Windows(n))
  PROVE  \A w \in Windows(n) : Finds(f, keys, m, w)
<1> DEFINE P == {k \in Nat : \A w \in Narrow(n, k) : Finds(f, keys, m, w)}
           mid(w) == w[1] + (w[2] - w[1]) \div 2
<1>0. \A w \in Windows(n) :
        f[w] = IF w[1] > w[2] THEN NotFound
               ELSE IF keys[mid(w)].mint = m THEN mid(w)
               ELSE IF keys[mid(w)].mint < m THEN f[<<mid(w) + 1, w[2]>>]
               ELSE f[<<w[1], mid(w) - 1>>]
  BY DEF Searches
<1>a. ASSUME NEW w \in Windows(n), w[1] > w[2] PROVE Finds(f, keys, m, w)
  <2>1. f[w] = NotFound
    BY <1>0, <1>a
  <2>2. ~\E i \in w[1] .. w[2] : TRUE
    BY <1>a DEF Windows
  <2> QED BY <2>1, <2>2 DEF Finds
<1>1. 0 \in P
  <2>1. \A w \in Narrow(n, 0) : w \in Windows(n) /\ w[1] > w[2]
    BY DEF Narrow, Windows
  <2> QED BY <1>a, <2>1
<1>2. ASSUME NEW k \in Nat, k \in P PROVE k + 1 \in P
  <2> SUFFICES ASSUME NEW w \in Narrow(n, k + 1), ~(w[1] > w[2])
               PROVE  Finds(f, keys, m, w)
    BY <1>a DEF Narrow
  <2> DEFINE l == w[1]
             r == w[2]
             c == mid(w)
             right == <<c + 1, r>>
             left == <<l, c - 1>>
  <2>1. /\ c \in l .. r /\ c \in 1 .. n /\ right \in Narrow(n, k) /\ left \in Narrow(n, k)
    BY Halves
  <2>2. /\ l \in Int /\ r \in Int /\ l >= 1 /\ r <= n /\ l <= r /\ w \in Windows(n)
    BY DEF Narrow, Windows
  <2>3. Finds(f, keys, m, right) /\ Finds(f, keys, m, left)
    BY <1>2, <2>1
  <2>4. f[w] = IF keys[c].mint = m THEN c
               ELSE IF keys[c].mint < m THEN f[right] ELSE f[left]
    BY <1>0, <2>2
  <2>5. right[1] = c + 1 /\ right[2] = r /\ left[1] = l /\ left[2] = c - 1
    OBVIOUS
  <2> HIDE DEF l, r, c, right, left, mid
  <2>6. CASE keys[c].mint = m
    BY <2>1, <2>4, <2>6 DEF Finds, l, r
  <2>7. CASE keys[c].mint < m
    <3>1. \A i \in l .. r : keys[i].mint = m => i \in c + 1 .. r
      <4> SUFFICES ASSUME NEW i \in l .. r, keys[i].mint = m, i <= c PROVE FALSE
        BY <2>1, <2>2
      <4>1. i \in 1 .. n /\ (i < c => keys[i].mint < keys[c].mint)
        BY <2>1, <2>2
      <4> QED BY <2>1, <2>2, <2>7, <4>1
    <3>2. c + 1 .. r \subseteq l .. r
      BY <2>1, <2>2
    <3>3. f[w] = f[right]
      BY <2>1, <2>4, <2>7
    <3> QED BY <2>3, <2>5, <3>1, <3>2, <3>3 DEF Finds, l, r
  <2>8. CASE keys[c].mint # m /\ ~(keys[c].mint < m)
    <3>1. \A i \in l .. r : keys[i].mint = m => i \in l .. c - 1
      <4> SUFFICES ASSUME NEW i \in l .. r, keys[i].mint = m, i >= c PROVE FALSE
        BY <2>1, <2>2
      <4>1. i \in 1 .. n /\ (c < i => keys[c].mint < keys[i].mint)
        BY <2>1, <2>2
      <4> QED BY <2>1, <2>2, <2>8, <4>1
    <3>2. l .. c - 1 \subseteq l .. r
      BY <2>1, <2>2
    <3>3. f[w] = f[left]
      BY <2>4, <2>8
    <3> QED BY <2>3, <2>5, <3>1, <3>2, <3>3 DEF Finds, l, r
  <2> QED BY <2>6, <2>7, <2>8
<1>3. Nat \subseteq P
  <2> HIDE DEF P
  <2> QED BY <1>1, <1>2, NatSetInduction
<1>4. Narrow(n, n) = Windows(n)
  BY DEF Narrow, Windows
<1>5. n \in P
  BY <1>3
<1> QED BY <1>4, <1>5

\* binary_search_by_key: the place of the mint among the first n keys, if it
\* is there.
LEMMA BisectFinds ==
  ASSUME NEW n \in Nat, NEW keys, NEW m \in Nat,
         \A i \in 1 .. n : keys[i].mint \in Nat,
         \A i, j \in 1 .. n : i < j => keys[i].mint < keys[j].mint
  PROVE  IF \E i \in 1 .. n : keys[i].mint = m
         THEN Bisect(keys, m, n) \in 1 .. n /\ keys[Bisect(keys, m, n)].mint = m
         ELSE Bisect(keys, m, n) = NotFound
<1> DEFINE f == CHOOSE f : Searches(f, keys, m, Windows(n))
<1>1. Searches(f, keys, m, Windows(n))
  BY SearchExists
<1>2. Bisect(keys, m, n) = f[<<1, n>>]
  BY BisectChosen
<1> HIDE DEF f
<1>3. <<1, n>> \in Windows(n)
  BY DEF Windows
<1>4. Finds(f, keys, m, <<1, n>>)
  BY <1>1, <1>3, SearchFinds
<1> QED BY <1>2, <1>4 DEF Finds

-----------------------------------------------------------------------------
(* What the invariant says of keys, slots and lookups.                     *)

\* Keys in use have distinct mints and distinct slots, and slots in use
\* have a key.
LEMMA KeysAndSlots ==
  ASSUME ListInv
  PROVE  /\ length \in Nat /\ length <= SlotCount /\ 1 .. length \subseteq Slots
         /\ \A i \in 1 .. length : /\ map[i] \in Keys /\ map[i].mint \in Mints
                                  /\ map[i].mint \in Nat /\ map[i].index \in Slots
                                  /\ positions[map[i].index].token = map[i].mint
         /\ \A i, j \in 1 .. length : map[i].mint = map[j].mint => i = j
         /\ \A i, j \in 1 .. length : map[i].index = map[j].index => i = j
         /\ \A s \in Slots : positions[s].token \in Mints =>
              \E i \in 1 .. length : map[i].index = s /\ map[i].mint = positions[s].token
         /\ \A s \in Slots : positions[s].token = Default => positions[s] = ZeroPosition
<1> USE DEF ListInv
<1>1. length \in Nat /\ length <= SlotCount /\ 1 .. length \subseteq Slots
  BY KeyTypes DEF ListTypeOK, Slots
<1>2. \A i \in 1 .. length : /\ map[i] \in Keys /\ map[i].mint \in Mints
                            /\ map[i].mint \in Nat /\ map[i].index \in Slots
                            /\ positions[map[i].index].token = map[i].mint
  BY <1>1, KeyTypes DEF ListTypeOK, MapMirrorsSlots, KeysInUse
<1>3. \A i, j \in 1 .. length : map[i].mint = map[j].mint => i = j
  <2> SUFFICES ASSUME NEW i \in 1 .. length, NEW j \in 1 .. length, i # j
               PROVE  map[i].mint # map[j].mint
    OBVIOUS
  <2>1. i < j \/ j < i
    BY <1>1
  <2> QED BY <1>2, <2>1 DEF MapMirrorsSlots
<1>4. \A i, j \in 1 .. length : map[i].index = map[j].index => i = j
  BY <1>2, <1>3
<1>5. ASSUME NEW s \in Slots, positions[s].token \in Mints
      PROVE  \E i \in 1 .. length : map[i].index = s /\ map[i].mint = positions[s].token
  <2>1. positions[s] # ZeroPosition
    BY <1>5, KeyTypes DEF ZeroPosition
  <2> QED BY <1>2, <2>1 DEF MapMirrorsSlots
<1>6. ASSUME NEW s \in Slots, positions[s].token = Default
      PROVE  positions[s] = ZeroPosition
  BY <1>2, <1>6, KeyTypes DEF MapMirrorsSlots
<1> QED BY <1>1, <1>2, <1>3, <1>4, <1>5, <1>6

\* get_map_index finds the key of a registered mint.
LEMMA Lookup ==
  ASSUME ListInv, NEW m \in Mints
  PROVE  IF \E i \in 1 .. length : map[i].mint = m
         THEN get_map_index(m) \in 1 .. length /\ map[get_map_index(m)].mint = m
         ELSE get_map_index(m) = NotFound
<1>1. /\ length \in Nat /\ m \in Nat
      /\ \A i \in 1 .. length : map[i].mint \in Nat
  BY KeysAndSlots, KeyTypes
<1>2. \A i, j \in 1 .. length : i < j => map[i].mint < map[j].mint
  BY DEF ListInv, MapMirrorsSlots
<1> QED BY <1>1, <1>2, BisectFinds DEF get_map_index

\* get returns the position in the slot of the mint, or none.
LEMMA GetFinds ==
  ASSUME ListInv, NEW m \in Mints
  PROVE  /\ \A i \in 1 .. length : map[i].mint = m =>
              get_map_index(m) = i /\ get(m) = positions[map[i].index]
         /\ \A s \in Slots : positions[s].token = m => get(m) = positions[s]
         /\ (\A s \in Slots : positions[s].token # m) => get(m) = ZeroPosition
<1>1. ASSUME NEW i \in 1 .. length, map[i].mint = m
      PROVE  get_map_index(m) = i /\ get(m) = positions[map[i].index]
  <2>1. get_map_index(m) \in 1 .. length /\ map[get_map_index(m)].mint = m
    BY <1>1, Lookup
  <2>2. get_map_index(m) = i
    BY <1>1, <2>1, KeysAndSlots
  <2>3. i # NotFound
    BY KeysAndSlots DEF NotFound
  <2> QED BY <2>2, <2>3 DEF get
<1>2. ASSUME NEW s \in Slots, positions[s].token = m
      PROVE  get(m) = positions[s]
  BY <1>1, <1>2, KeysAndSlots
<1>3. ASSUME \A s \in Slots : positions[s].token # m
      PROVE  get(m) = ZeroPosition
  <2>1. ~\E i \in 1 .. length : map[i].mint = m
    BY <1>3, KeysAndSlots
  <2>2. get_map_index(m) = NotFound
    BY <2>1, Lookup
  <2> QED BY <2>2 DEF get
<1> QED BY <1>1, <1>2, <1>3

-----------------------------------------------------------------------------
(* The operations preserve the invariant.                                  *)

Position == [token : Mints \cup {Default}, address : Addresses \cup {Default},
             balance : 0 .. MaxBalance]

\* When a slot is free there is a place for one more key.
LEMMA RoomForKey ==
  ASSUME ListInv, FreeSlots # {}
  PROVE  /\ FirstFree \in Slots /\ positions[FirstFree].token = Default
         /\ length < SlotCount /\ length + 1 \in Slots
<1>1. FirstFree \in FreeSlots
  <2>1. FreeSlots \subseteq Nat
    BY KeyTypes DEF FreeSlots, Slots
  <2>2. IsWellFoundedOn({ss \in Nat \X Nat : ss[1] < ss[2]}, Nat)
    BY NatLessThanWellFounded DEF OpToRel
  <2>3. PICK i \in FreeSlots :
          \A j \in FreeSlots : <<j, i>> \notin {ss \in Nat \X Nat : ss[1] < ss[2]}
    BY <2>1, <2>2, WFMin
  <2>4. ASSUME NEW j \in FreeSlots PROVE i <= j
    <3>1. i \in Nat /\ j \in Nat /\ <<j, i>> \in Nat \X Nat
      BY <2>1
    <3>2. ~(j < i)
      BY <2>3, <3>1
    <3> QED BY <3>1, <3>2
  <2> QED BY <2>4 DEF FirstFree
<1>2. FirstFree \in Slots /\ positions[FirstFree].token = Default
  BY <1>1 DEF FreeSlots
<1>3. length \in Nat /\ SlotCount \in Nat \ {0}
  BY KeysAndSlots, KeyTypes
<1>4. length < SlotCount
  <2> DEFINE f == [i \in 1 .. length |-> map[i].index]
             T == Slots \ {FirstFree}
  <2>1. \A i \in 1 .. length : map[i].index \in T
    BY <1>2, KeysAndSlots, KeyTypes
  <2>2. f \in Injection(1 .. length, T)
    <3>1. f \in [1 .. length -> T]
      BY <2>1
    <3>2. \A i, j \in 1 .. length : f[i] = f[j] => i = j
      BY KeysAndSlots
    <3> HIDE DEF f
    <3> QED BY <3>1, <3>2 DEF Injection, IsInjective
  <2>3. /\ IsFiniteSet(Slots) /\ Cardinality(Slots) = SlotCount
        /\ Cardinality(1 .. length) = length
    BY <1>3, FS_Interval DEF Slots
  <2>4. IsFiniteSet(T) /\ Cardinality(T) = SlotCount - 1
    BY <1>2, <2>3, FS_RemoveElement
  <2>5. Cardinality(1 .. length) <= Cardinality(T)
    <3> HIDE DEF f, T
    <3> QED BY <2>2, <2>4, FS_Injection
  <2> QED BY <1>3, <2>3, <2>4, <2>5
<1> QED BY <1>2, <1>3, <1>4 DEF Slots

\* add takes a free slot and inserts its key where the order wants it.
LEMMA AddStep ==
  ASSUME ListInv, NEW m \in Mints, NEW p \in Position,
         p.token = m, p.address \in Addresses,
         \A i \in Slots : map[i].mint # m,
         Add(m, p), liquidating' = liquidating
  PROVE  ListInv'
<1> DEFINE s == FirstFree
           key == [mint |-> m, index |-> s]
           n == length + 1
           keys == [map EXCEPT ![n] = key]
<1>1. /\ s \in Slots /\ positions[s].token = Default
      /\ n \in Slots /\ length \in Nat /\ n \in Nat
  BY RoomForKey, KeysAndSlots DEF Add
<1>2. /\ map' = SortedByMint(keys, n) /\ length' = n
      /\ positions' = [positions EXCEPT ![s] = p]
  BY DEF Add
<1>3. key \in Keys /\ key.mint = m /\ key.index = s
  BY <1>1, KeyTypes DEF Keys, Slots
<1>4. map \in [Slots -> Keys] /\ positions \in [Slots -> Position]
  BY DEF ListInv, ListTypeOK, Position
<1> HIDE DEF s, key
<1>5. /\ keys \in [Slots -> Keys] /\ keys[n] = key
      /\ \A i \in 1 .. length : keys[i] = map[i]
      /\ \A i \in Slots : i > n => keys[i] = map[i]
  <2>1. \A i \in 1 .. length : i \in Slots /\ i # n
    BY <1>1, KeysAndSlots
  <2>2. \A i \in Slots : i > n => i # n
    BY <1>1
  <2> QED BY <1>1, <1>3, <1>4, <2>1, <2>2
<1>6. \A i \in 1 .. n : i \in 1 .. length \/ i = n
  BY <1>1
<1>7. \A i, j \in 1 .. n : i # j => keys[i].mint # keys[j].mint
  <2>1. \A i \in 1 .. length : keys[i].mint # m
    BY <1>5, KeysAndSlots
  <2> HIDE DEF keys
  <2> QED BY <1>3, <1>5, <1>6, <2>1, KeysAndSlots
<1> HIDE DEF keys
<1>8. /\ map' \in [Slots -> Keys]
      /\ \A k \in Slots : k > n => map'[k] = keys[k]
      /\ \A k \in 1 .. n : \E i \in 1 .. n : map'[k] = keys[i]
      /\ \A i \in 1 .. n : \E k \in 1 .. n : map'[k] = keys[i]
      /\ \A j, k \in 1 .. n : j < k => map'[j].mint < map'[k].mint
  <2> HIDE DEF n
  <2> QED BY <1>1, <1>2, <1>5, <1>7, Sorted, ZenonT(40)
<1>9. /\ positions' \in [Slots -> Position] /\ positions'[s] = p
      /\ \A t \in Slots \ {s} : positions'[t] = positions[t]
  BY <1>1, <1>2, <1>4
\* every key has its slot
<1>10. ASSUME NEW i \in 1 .. n
       PROVE  /\ keys[i].index \in Slots /\ keys[i].mint \in Mints
              /\ positions'[keys[i].index].token = keys[i].mint
              /\ positions'[keys[i].index].address \in Addresses
  <2>1. CASE i = n
    BY <1>1, <1>3, <1>5, <1>9, <2>1
  <2>2. CASE i \in 1 .. length
    <3>1. /\ keys[i] = map[i] /\ map[i].index \in Slots /\ map[i].mint \in Mints
          /\ positions[map[i].index].token = map[i].mint
          /\ positions[map[i].index].address \in Addresses
      BY <1>5, <2>2, KeysAndSlots DEF ListInv, KeysInUse
    <3>2. map[i].index # s
      BY <1>1, <3>1, KeyTypes
    <3> QED BY <1>9, <3>1, <3>2
  <2> QED BY <1>6, <2>1, <2>2
<1>11. \A k \in 1 .. n :
         /\ map'[k].index \in Slots /\ map'[k].mint \in Mints
         /\ positions'[map'[k].index].token = map'[k].mint
         /\ positions'[map'[k].index].address \in Addresses
  BY <1>8, <1>10
\* every slot has its key
<1>12. ASSUME NEW t \in Slots
       PROVE  positions'[t] = ZeroPosition \/ \E k \in 1 .. n : map'[k].index = t
  <2>1. ASSUME NEW i \in 1 .. n, keys[i].index = t
        PROVE  \E k \in 1 .. n : map'[k].index = t
    BY <1>8, <2>1
  <2>2. CASE t = s
    <3>1. n \in 1 .. n
      BY <1>1
    <3> QED BY <1>3, <1>5, <2>1, <2>2, <3>1
  <2>3. CASE t # s
    <3>1. positions[t] = ZeroPosition \/ \E i \in 1 .. length : map[i].index = t
      BY DEF ListInv, MapMirrorsSlots
    <3>2. \A i \in 1 .. length : i \in 1 .. n
      BY <1>1
    <3> QED BY <1>5, <1>9, <2>1, <2>3, <3>1, <3>2
  <2> QED BY <2>2, <2>3
<1>13. \A i \in n + 1 .. SlotCount : map'[i] = ZeroKey
  <2>1. \A i \in n + 1 .. SlotCount : i \in Slots /\ i > n /\ i \in length + 1 .. SlotCount
    BY <1>1, KeyTypes DEF Slots
  <2> HIDE DEF n
  <2> QED BY <1>5, <1>8, <2>1 DEF ListInv, MapMirrorsSlots
<1>14. n \in 0 .. SlotCount
  BY <1>1, KeyTypes DEF Slots
<1>15. ListTypeOK'
  BY <1>2, <1>8, <1>9, <1>14 DEF ListInv, ListTypeOK, Position
<1>16. MapMirrorsSlots'
  <2> HIDE DEF n
  <2> QED BY <1>2, <1>8, <1>11, <1>12, <1>13 DEF MapMirrorsSlots
<1>17. KeysInUse'
  <2> HIDE DEF n
  <2> QED BY <1>2, <1>11 DEF KeysInUse
<1> QED BY <1>15, <1>16, <1>17 DEF ListInv

\* remove clears the slot and closes the gap in the map.
LEMMA RemoveStep ==
  ASSUME ListInv, NEW m \in Mints, NEW a, remove(m, a), liquidating' = liquidating
  PROVE  ListInv'
<1> DEFINE i == get_map_index(m)
           s == map[i].index
<1>1. /\ i # NotFound
      /\ positions' = [positions EXCEPT ![s] = ZeroPosition]
      /\ map' = Shift(map, i, length)
      /\ length' = length - 1
  BY DEF remove
<1>2. i \in 1 .. length /\ map[i].mint = m
  BY <1>1, Lookup
<1> HIDE DEF i
<1>3. /\ s \in Slots /\ length \in Nat \ {0} /\ length <= SlotCount /\ i \in Nat
      /\ map \in [Slots -> Keys] /\ positions \in [Slots -> Position]
      /\ 1 .. length \subseteq Slots
  BY <1>2, KeysAndSlots DEF ListInv, ListTypeOK, Position
<1>4. ZeroKey \in Keys /\ ZeroPosition \in Position
  <2>1. 0 \in 0 .. SlotCount
    BY KeyTypes
  <2>2. 0 \in 0 .. MaxBalance
    BY PositionListAssumption
  <2> QED BY <2>1, <2>2 DEF ZeroKey, ZeroPosition, Keys, Position
<1> HIDE DEF s
\* where the key at place k comes from
<1> DEFINE from(k) == IF k < i THEN k ELSE k + 1
<1>5. \A k \in Slots : map'[k] = IF k = length THEN ZeroKey
                                 ELSE IF k \in i .. length - 1 THEN map[k + 1] ELSE map[k]
  BY <1>1 DEF Shift
<1>6. ASSUME NEW k \in 1 .. length - 1
      PROVE  map'[k] = map[from(k)] /\ from(k) \in 1 .. length /\ from(k) # i
  <2>1. k \in Slots /\ k # length
    BY <1>3
  <2>2. CASE k < i
    BY <1>3, <1>5, <2>1, <2>2
  <2>3. CASE ~(k < i)
    <3>1. k \in i .. length - 1
      BY <1>2, <1>3, <2>3
    <3> QED BY <1>2, <1>3, <1>5, <2>1, <2>3, <3>1
  <2> QED BY <2>2, <2>3
<1>7. \A j, k \in 1 .. length - 1 : j < k => from(j) < from(k)
  BY <1>2, <1>3
<1>8. ASSUME NEW j \in 1 .. length, j # i PROVE \E k \in 1 .. length - 1 : from(k) = j
  <2>1. CASE j < i
    <3>1. j \in 1 .. length - 1 /\ from(j) = j
      BY <1>2, <1>3, <2>1
    <3> QED BY <3>1
  <2>2. CASE ~(j < i)
    <3>1. j - 1 \in 1 .. length - 1 /\ from(j - 1) = j
      BY <1>2, <1>3, <1>8, <2>2
    <3> QED BY <3>1
  <2> QED BY <2>1, <2>2
<1> HIDE DEF from
<1>9. /\ positions' \in [Slots -> Position] /\ positions'[s] = ZeroPosition
      /\ \A t \in Slots \ {s} : positions'[t] = positions[t]
  BY <1>1, <1>3, <1>4
<1>10. map' \in [Slots -> Keys]
  <2>1. ASSUME NEW k \in Slots PROVE map'[k] \in Keys
    <3>1. k \in i .. length - 1 => k + 1 \in Slots
      BY <1>2, <1>3, KeyTypes DEF Slots
    <3> QED BY <1>3, <1>4, <1>5, <3>1
  <2>2. map' = [k \in Slots |-> map'[k]]
    BY <1>1 DEF Shift
  <2> QED BY <2>1, <2>2
<1>11. \A k \in 1 .. length - 1 :
         /\ map'[k].index \in Slots /\ map'[k].mint \in Mints
         /\ positions'[map'[k].index].token = map'[k].mint
         /\ positions'[map'[k].index].address \in Addresses
  <2> SUFFICES ASSUME NEW j \in 1 .. length, j # i
               PROVE  /\ map[j].index \in Slots /\ map[j].mint \in Mints
                      /\ positions'[map[j].index].token = map[j].mint
                      /\ positions'[map[j].index].address \in Addresses
    BY <1>6
  <2>1. map[j].index # s
    BY <1>2, KeysAndSlots DEF s
  <2> QED BY <1>9, <2>1, KeysAndSlots DEF ListInv, KeysInUse
<1>12. \A j, k \in 1 .. length - 1 : j < k => map'[j].mint < map'[k].mint
  BY <1>6, <1>7 DEF ListInv, MapMirrorsSlots
<1>13. ASSUME NEW t \in Slots
       PROVE  positions'[t] = ZeroPosition \/ \E k \in 1 .. length - 1 : map'[k].index = t
  <2>1. CASE t = s
    BY <1>9, <2>1
  <2>2. CASE t # s
    <3>1. CASE positions[t] = ZeroPosition
      BY <1>9, <2>2, <3>1
    <3>2. CASE \E j \in 1 .. length : map[j].index = t
      <4>1. PICK j \in 1 .. length : map[j].index = t
        BY <3>2
      <4>2. j # i
        BY <2>2, <4>1 DEF s
      <4>3. PICK k \in 1 .. length - 1 : from(k) = j
        BY <1>8, <4>2
      <4> QED BY <1>6, <4>1, <4>3
    <3> QED BY <3>1, <3>2 DEF ListInv, MapMirrorsSlots
  <2> QED BY <2>1, <2>2
<1>14. \A k \in (length - 1) + 1 .. SlotCount : map'[k] = ZeroKey
  <2> SUFFICES ASSUME NEW k \in length .. SlotCount PROVE map'[k] = ZeroKey
    BY <1>3
  <2>1. k \in Slots /\ ~(k \in i .. length - 1) /\ (k # length => k \in length + 1 .. SlotCount)
    BY <1>2, <1>3, KeyTypes DEF Slots
  <2> QED BY <1>5, <2>1 DEF ListInv, MapMirrorsSlots
<1>15. length - 1 \in 0 .. SlotCount
  BY <1>3, KeyTypes
<1>16. ListTypeOK'
  BY <1>1, <1>9, <1>10, <1>15 DEF ListInv, ListTypeOK, Position
<1>17. MapMirrorsSlots'
  BY <1>1, <1>11, <1>12, <1>13, <1>14 DEF MapMirrorsSlots
<1>18. KeysInUse'
  BY <1>1, <1>11 DEF KeysInUse
<1> QED BY <1>16, <1>17, <1>18 DEF ListInv

\* set_position_balance writes the balance of one slot in use.
LEMMA SetBalanceStep ==
  ASSUME ListInv, NEW m \in Mints, NEW a, NEW b \in 0 .. MaxBalance,
         set_position_balance(m, a, b)
  PROVE  ListInv'
<1> DEFINE i == get_map_index(m)
           s == map[i].index
           p == [positions[s] EXCEPT !.balance = b]
<1>1. /\ i # NotFound /\ positions' = [positions EXCEPT ![s] = p]
      /\ map' = map /\ length' = length /\ liquidating' = liquidating
  BY DEF set_position_balance
<1>2. i \in 1 .. length /\ map[i].mint = m
  BY <1>1, Lookup
<1> HIDE DEF i
<1>3. /\ s \in Slots /\ positions \in [Slots -> Position]
      /\ positions[s].token = m /\ positions[s].address \in Addresses
  BY <1>2, KeysAndSlots DEF ListInv, ListTypeOK, KeysInUse, Position
<1> HIDE DEF s
<1>4. p \in Position /\ p.token = positions[s].token /\ p.address = positions[s].address
  BY <1>3 DEF Position
<1> HIDE DEF p
<1>5. /\ positions' \in [Slots -> Position]
      /\ \A t \in Slots : /\ positions'[t].token = positions[t].token
                          /\ positions'[t].address = positions[t].address
                          /\ t # s => positions'[t] = positions[t]
  BY <1>1, <1>3, <1>4
<1>6. ListTypeOK'
  BY <1>1, <1>5 DEF ListInv, ListTypeOK, Position
<1>7. MapMirrorsSlots'
  <2>1. \A k \in 1 .. length : map[k].index \in Slots /\ positions'[map[k].index].token = map[k].mint
    BY <1>5, KeysAndSlots
  <2>2. \A t \in Slots : positions'[t] = ZeroPosition \/ \E k \in 1 .. length : map[k].index = t
    <3>1. \E k \in 1 .. length : map[k].index = s
      BY <1>2 DEF s
    <3> QED BY <1>5, <3>1 DEF ListInv, MapMirrorsSlots
  <2> QED BY <1>1, <2>1, <2>2 DEF ListInv, MapMirrorsSlots
<1>8. KeysInUse'
  BY <1>1, <1>5, KeysAndSlots DEF ListInv, KeysInUse
<1> QED BY <1>6, <1>7, <1>8 DEF ListInv

\* A position as register_position fills it.
LEMMA NewPosition ==
  ASSUME NEW m \in Mints, NEW a \in Addresses
  PROVE  LET p == [token |-> m, address |-> a, balance |-> 0]
         IN  p \in Position /\ p.token = m /\ p.address = a /\ p.balance = 0
<1>1. 0 \in 0 .. MaxBalance
  BY PositionListAssumption
<1> QED BY <1>1 DEF Position

\* The empty list satisfies the invariant.
LEMMA ListInvInit == InitList => ListInv
<1> SUFFICES ASSUME InitList PROVE ListInv
  OBVIOUS
<1>1. 0 \in 0 .. SlotCount /\ 0 \in 0 .. MaxBalance /\ 1 .. 0 = {} /\ 0 + 1 .. SlotCount = Slots
  BY KeyTypes, PositionListAssumption DEF Slots
<1>2. ListTypeOK
  BY <1>1 DEF InitList, ListTypeOK, Keys, ZeroKey, ZeroPosition
<1>3. MapMirrorsSlots
  BY <1>1 DEF InitList, MapMirrorsSlots
<1>4. KeysInUse
  BY <1>1 DEF InitList, KeysInUse
<1> QED BY <1>2, <1>3, <1>4 DEF ListInv

\* Every operation preserves it.
LEMMA ListInvStep == ListInv /\ [ListNext]_listVars => ListInv'
<1> SUFFICES ASSUME ListInv, [ListNext]_listVars
             PROVE  ListInv'
  OBVIOUS
<1>0. ASSUME UNCHANGED <<length, map, positions>>, liquidating' \in BOOLEAN
      PROVE  ListInv'
  BY <1>0 DEF ListInv, ListTypeOK, MapMirrorsSlots, KeysInUse
<1>1. ASSUME NEW m \in Mints, NEW a \in Addresses, register_position(m, a)
      PROVE  ListInv'
  <2>1. liquidating' = liquidating /\ liquidating \in BOOLEAN
    BY <1>1 DEF register_position, ListInv, ListTypeOK
  <2>2. CASE UNCHANGED <<length, map, positions>>
    BY <1>0, <2>1, <2>2
  <2>3. CASE /\ \A i \in Slots : map[i].mint # m
             /\ Add(m, [token |-> m, address |-> a, balance |-> 0])
    BY <2>1, <2>3, NewPosition, AddStep
  <2> QED BY <1>1, <2>2, <2>3 DEF register_position
<1>2. ASSUME NEW m \in Mints, NEW a \in Addresses, unregister_position(m, a)
      PROVE  ListInv'
  BY <1>2, RemoveStep DEF unregister_position
<1>3. ASSUME NEW m \in Mints, NEW a \in Addresses, NEW b \in 0 .. MaxBalance,
             set_position_balance(m, a, b)
      PROVE  ListInv'
  BY <1>3, SetBalanceStep
<1>4. CASE (start_liquidation \/ end_liquidation) /\ UNCHANGED <<length, map, positions>>
  BY <1>0, <1>4 DEF start_liquidation, end_liquidation
<1>5. CASE UNCHANGED listVars
  BY <1>0, <1>5 DEF listVars, ListInv, ListTypeOK
<1> QED BY <1>1, <1>2, <1>3, <1>4, <1>5 DEF ListNext

-----------------------------------------------------------------------------
(* The theorems.                                                           *)

\* The invariant holds at all times.
THEOREM ListInvAlways == ListSpec => []ListInv
  BY ListInvInit, ListInvStep, PTL DEF ListSpec

\* Whatever is registered and removed, in whatever order, the map stays
\* strictly sorted, its keys and the slots describe each other, and what is
\* free is zero.
THEOREM MapAlwaysMirrorsSlots == ListSpec => []MapMirrorsSlots
<1>1. ListInv => MapMirrorsSlots
  BY DEF ListInv
<1> QED BY <1>1, ListInvAlways, PTL

\* Bisection over the map finds every registered mint and no other.
THEOREM SearchAlwaysExact == ListSpec => []SearchIsExact
<1>1. ListInv => SearchIsExact
  <2> SUFFICES ASSUME ListInv, NEW m \in Mints
               PROVE  IF \E s \in Slots : positions[s].token = m
                      THEN get(m).token = m ELSE get(m) = ZeroPosition
    BY DEF SearchIsExact
  <2> QED BY GetFinds
<1> QED BY <1>1, ListInvAlways, PTL

\* A key with an outdated index resolves to the position of its mint.
THEOREM StaleKeysAlwaysResolve == ListSpec => []StaleKeysResolve
<1>1. ListInv => StaleKeysResolve
  <2> SUFFICES ASSUME ListInv, NEW m \in Mints, NEW s \in Slots
               PROVE  get_position_by_key([mint |-> m, index |-> s]) = get(m)
    BY DEF StaleKeysResolve
  <2>1. get_position_by_key([mint |-> m, index |-> s]) =
          IF positions[s].token = m THEN positions[s] ELSE get(m)
    BY DEF get_position_by_key
  <2> QED BY <2>1, GetFinds
<1> QED BY <1>1, ListInvAlways, PTL

-----------------------------------------------------------------------------
(* The list implements the map of PositionMap.                             *)

NoPosition == [address |-> 0, balance |-> 0]

\* The abstract position of a mint is what its slot holds.
LEMMA PositionOf ==
  ASSUME ListInv
  PROVE  /\ position_of = [m \in Mints |-> position_of[m]]
         /\ \A i \in 1 .. length :
              /\ position_of[map[i].mint] =
                   [address |-> positions[map[i].index].address,
                    balance |-> positions[map[i].index].balance]
              /\ position_of[map[i].mint] # NoPosition
         /\ \A m \in Mints : (\A i \in 1 .. length : map[i].mint # m) =>
              position_of[m] = NoPosition
<1>1. position_of = [m \in Mints |-> position_of[m]]
  BY DEF position_of
<1>2. ASSUME NEW i \in 1 .. length
      PROVE  /\ position_of[map[i].mint] =
                  [address |-> positions[map[i].index].address,
                   balance |-> positions[map[i].index].balance]
             /\ position_of[map[i].mint] # NoPosition
  <2> DEFINE m == map[i].mint
             s == map[i].index
  <2>1. m \in Mints /\ s \in Slots /\ positions[s].token = m
    BY KeysAndSlots
  <2>2. \A t \in Slots : positions[t].token = m => t = s
    BY <2>1, KeysAndSlots
  <2> HIDE DEF m, s
  <2>3. (CHOOSE t \in Slots : positions[t].token = m) = s
    BY <2>1, <2>2
  <2>4. position_of[m] = [address |-> positions[s].address, balance |-> positions[s].balance]
    BY <2>1, <2>3 DEF position_of
  <2>5. positions[s].address \in Addresses /\ 0 \notin Addresses
    BY PositionListAssumption DEF ListInv, KeysInUse, s
  <2>6. position_of[m] # NoPosition
    BY <2>4, <2>5 DEF NoPosition
  <2> QED BY <2>4, <2>6 DEF m, s
<1>3. ASSUME NEW m \in Mints, \A i \in 1 .. length : map[i].mint # m
      PROVE  position_of[m] = NoPosition
  <2>1. ~\E s \in Slots : positions[s].token = m
    BY <1>3, KeysAndSlots
  <2> QED BY <2>1 DEF position_of, NoPosition
<1> QED BY <1>1, <1>2, <1>3

\* There are as many registered mints as keys.
LEMMA RegisteredCount ==
  ASSUME ListInv
  PROVE  Cardinality(Map!Registered) = length
<1>1. Map!Registered = {m \in Mints : position_of[m] # NoPosition}
  BY DEF Map!Registered, Map!Unregistered, NoPosition
<1> DEFINE f == [i \in 1 .. length |-> map[i].mint]
           R == Map!Registered
<1>2. \A i \in 1 .. length : map[i].mint \in R
  BY <1>1, KeysAndSlots, PositionOf
<1>3. \A m \in R : \E i \in 1 .. length : map[i].mint = m
  BY <1>1, PositionOf
<1> HIDE DEF R
<1>4. f \in [1 .. length -> R]
  BY <1>2
<1>5. /\ \A i, j \in 1 .. length : f[i] = f[j] => i = j
      /\ \A m \in R : \E i \in 1 .. length : f[i] = m
  BY <1>3, KeysAndSlots
<1> HIDE DEF f
<1>6. f \in Bijection(1 .. length, R)
  BY <1>4, <1>5 DEF Bijection, Injection, Surjection, IsInjective
<1>7. length \in Nat
  BY KeysAndSlots
<1>8. IsFiniteSet(1 .. length) /\ Cardinality(1 .. length) = length
  BY <1>7, FS_Interval
<1>9. ExistsBijection(1 .. length, R)
  BY <1>6 DEF ExistsBijection
<1>10. Cardinality(R) = length
  BY <1>8, <1>9, FS_Bijection
<1> QED BY <1>10 DEF R

\* The same read off the slots.
SlotView ==
    /\ position_of = [m \in Mints |-> position_of[m]]
    /\ \A s \in Slots : positions[s].token \in Mints =>
         /\ position_of[positions[s].token] =
              [address |-> positions[s].address, balance |-> positions[s].balance]
         /\ position_of[positions[s].token] # NoPosition
    /\ \A m \in Mints : (\A s \in Slots : positions[s].token # m) =>
         position_of[m] = NoPosition

\* It holds whenever the invariant does.
LEMMA SlotViewHolds == ListInv => SlotView
<1> SUFFICES ASSUME ListInv PROVE SlotView
  OBVIOUS
<1>1. ASSUME NEW s \in Slots, positions[s].token \in Mints
      PROVE  /\ position_of[positions[s].token] =
                  [address |-> positions[s].address, balance |-> positions[s].balance]
             /\ position_of[positions[s].token] # NoPosition
  <2>1. PICK i \in 1 .. length : map[i].index = s /\ map[i].mint = positions[s].token
    BY <1>1, KeysAndSlots
  <2> QED BY <2>1, PositionOf
<1>2. ASSUME NEW m \in Mints, \A s \in Slots : positions[s].token # m
      PROVE  position_of[m] = NoPosition
  <2>1. \A i \in 1 .. length : map[i].mint # m
    BY <1>2, KeysAndSlots
  <2> QED BY <2>1, PositionOf
<1> QED BY <1>1, <1>2, PositionOf DEF SlotView

\* Before and after a step.
LEMMA SlotViewAfter == ListInv' => SlotView'
  BY SlotViewHolds, PTL

\* An operation that writes one slot writes the position of one mint.
LEMMA OneSlot ==
  ASSUME ListInv, ListInv', NEW m \in Mints, NEW s \in Slots, NEW p \in Position,
         positions'[s] = p, \A t \in Slots \ {s} : positions'[t] = positions[t],
         positions[s].token \in {m, Default}, p.token \in {m, Default},
         \A t \in Slots : positions[t].token = m => t = s
  PROVE  /\ p.token = m =>
              position_of'[m] = [address |-> p.address, balance |-> p.balance]
         /\ p.token = Default => position_of'[m] = NoPosition
         /\ \A k \in Mints : k # m => position_of'[k] = position_of[k]
         /\ position_of' = [k \in Mints |-> position_of'[k]]
         /\ position_of = [k \in Mints |-> position_of[k]]
<1>1. SlotView /\ SlotView'
  BY SlotViewHolds, SlotViewAfter
<1>2. DOMAIN positions = Slots
  BY DEF ListInv, ListTypeOK
<1>3. positions'[s] = p /\ \A t \in Slots \ {s} : positions'[t] = positions[t]
  OBVIOUS
<1>4. ASSUME NEW k \in Mints, k # m PROVE position_of'[k] = position_of[k]
  <2>1. CASE \E t \in Slots : positions[t].token = k
    <3>1. PICK t \in Slots : positions[t].token = k
      BY <2>1
    <3>2. t # s
      BY <1>4, <3>1, KeyTypes
    <3>3. positions'[t] = positions[t]
      BY <1>3, <3>2
    <3>4. position_of[k] = [address |-> positions[t].address, balance |-> positions[t].balance]
      BY <1>1, <3>1 DEF SlotView
    <3>5. positions'[t].token \in Mints => position_of'[positions'[t].token] =
            [address |-> positions'[t].address, balance |-> positions'[t].balance]
      BY <1>1 DEF SlotView
    <3> HIDE DEF position_of
    <3> QED BY <3>1, <3>3, <3>4, <3>5
  <2>2. CASE \A t \in Slots : positions[t].token # k
    <3>1. \A t \in Slots : positions'[t].token # k
      BY <1>3, <1>4, <2>2, KeyTypes
    <3> QED BY <1>1, <2>2, <3>1 DEF SlotView
  <2> QED BY <2>1, <2>2
<1>5. p.token = m => position_of'[m] = [address |-> p.address, balance |-> p.balance]
  <2>1. positions'[s].token \in Mints => position_of'[positions'[s].token] =
          [address |-> positions'[s].address, balance |-> positions'[s].balance]
    BY <1>1 DEF SlotView
  <2> HIDE DEF position_of
  <2> QED BY <1>3, <2>1
<1>6. p.token = Default => position_of'[m] = NoPosition
  <2> SUFFICES ASSUME p.token = Default PROVE position_of'[m] = NoPosition
    OBVIOUS
  <2>1. \A t \in Slots : positions'[t].token # m
    BY <1>3, KeyTypes
  <2> QED BY <1>1, <2>1 DEF SlotView
<1>7. /\ position_of' = [k \in Mints |-> position_of'[k]]
      /\ position_of = [k \in Mints |-> position_of[k]]
  BY <1>1 DEF SlotView
<1> HIDE DEF position_of
<1> QED BY <1>4, <1>5, <1>6, <1>7

\* Every operation is one of the map, or leaves it alone.
LEMMA RefinementStep ==
  ListInv /\ ListInv' /\ [ListNext]_listVars => [Map!AbsNext]_(Map!absVars)
<1> SUFFICES ASSUME ListInv, ListInv', [ListNext]_listVars
             PROVE  [Map!AbsNext]_(Map!absVars)
  OBVIOUS
<1>0. /\ liquidating \in BOOLEAN /\ Map!Unregistered = NoPosition /\ length \in Nat
      /\ positions \in [Slots -> Position]
  BY KeysAndSlots DEF ListInv, ListTypeOK, Map!Unregistered, NoPosition, Position
<1>1. ASSUME NEW m \in Mints, NEW a \in Addresses, register_position(m, a)
      PROVE  Map!AbsRegister(m, a)
  <2>1. liquidating' = liquidating /\ (liquidating \/ length < MaxUserPositions)
    BY <1>1 DEF register_position, MayRegister
  <2>2. liquidating \/ Cardinality(Map!Registered) < MaxUserPositions
    BY <2>1, RegisteredCount
  <2>c. Map!Cardinality(Map!Registered) = Cardinality(Map!Registered)
    BY DEF Map!Cardinality, Cardinality
  <2>3. CASE (\E i \in Slots : map[i].mint = m) /\ UNCHANGED <<length, map, positions>>
    <3>1. position_of' = position_of
      BY <2>3 DEF position_of
    <3>2. PICK i \in Slots : map[i].mint = m
      BY <2>3
    <3>3. i \in 1 .. length
      <4>1. i \in 1 .. length \/ i \in length + 1 .. SlotCount
        BY <1>0, KeyTypes DEF Slots
      <4>2. i \notin length + 1 .. SlotCount
        BY <3>2, KeyTypes DEF ListInv, MapMirrorsSlots, ZeroKey
      <4> QED BY <4>1, <4>2
    <3>4. position_of[m] # NoPosition
      BY <3>2, <3>3, PositionOf
    <3> HIDE DEF position_of
    <3> QED BY <1>0, <2>1, <2>2, <2>c, <3>1, <3>4 DEF Map!AbsRegister
  <2>4. CASE /\ \A i \in Slots : map[i].mint # m
             /\ Add(m, [token |-> m, address |-> a, balance |-> 0])
    <3> DEFINE p == [token |-> m, address |-> a, balance |-> 0]
    <3>1. FreeSlots # {} /\ positions' = [positions EXCEPT ![FirstFree] = p]
      BY <2>4 DEF Add
    <3>2. FirstFree \in Slots /\ positions[FirstFree].token = Default /\ length < SlotCount
      BY <3>1, RoomForKey
    <3>3. \A i \in 1 .. length : map[i].mint # m
      BY <2>4, KeysAndSlots
    <3>4. \A t \in Slots : positions[t].token # m
      BY <3>3, KeysAndSlots
    <3>5. p.token = m /\ p.address = a /\ p.balance = 0
      OBVIOUS
    <3>p. p \in Position
      BY PositionListAssumption DEF Position
    <3> HIDE DEF p
    <3>6. position_of' = [position_of EXCEPT ![m] = [address |-> a, balance |-> 0]]
      <4>1. PICK s \in Slots : s = FirstFree
        BY <3>2
      <4>2. /\ positions'[s] = p /\ \A t \in Slots \ {s} : positions'[t] = positions[t]
            /\ positions[s].token \in {m, Default} /\ p.token \in {m, Default}
            /\ \A t \in Slots : positions[t].token = m => t = s
        BY <1>0, <3>1, <3>2, <3>4, <3>5, <4>1
      <4> DEFINE v == [address |-> a, balance |-> 0]
      <4>3. v = [address |-> p.address, balance |-> p.balance]
        BY <3>5
      <4> HIDE DEF position_of, v
      <4>4. /\ position_of'[m] = v
            /\ \A k \in Mints : k # m => position_of'[k] = position_of[k]
            /\ position_of' = [k \in Mints |-> position_of'[k]]
            /\ position_of = [k \in Mints |-> position_of[k]]
        BY <3>p, <3>5, <4>2, <4>3, OneSlot
      <4>5. position_of' = [position_of EXCEPT ![m] = v]
        BY <4>4
      <4> QED BY <4>5 DEF v
    <3>7. position_of[m] = NoPosition
      BY <3>3, PositionOf
    <3>8. Cardinality(Map!Registered) < SlotCount
      BY <3>2, RegisteredCount
    <3> HIDE DEF position_of
    <3> QED BY <1>0, <2>1, <2>2, <2>c, <3>6, <3>7, <3>8 DEF Map!AbsRegister
  <2> QED BY <1>1, <2>3, <2>4 DEF register_position
<1>2. ASSUME NEW m \in Mints, NEW a \in Addresses, unregister_position(m, a)
      PROVE  Map!AbsUnregister(m)
  <2> DEFINE i == get_map_index(m)
             s == map[i].index
  <2>1. /\ i # NotFound /\ positions' = [positions EXCEPT ![s] = ZeroPosition]
        /\ get(m).balance = 0 /\ liquidating' = liquidating
    BY <1>2 DEF unregister_position, remove
  <2>2. i \in 1 .. length /\ map[i].mint = m
    BY <2>1, Lookup
  <2> HIDE DEF i
  <2>3. s \in Slots /\ positions[s].token = m /\ get(m) = positions[s]
    BY <2>2, KeysAndSlots, GetFinds
  <2>4. \A t \in Slots : positions[t].token = m => t = s
    BY <2>2, KeysAndSlots DEF s
  <2>5. ZeroPosition.token = Default
    BY DEF ZeroPosition
  <2>6. position_of[m] # NoPosition /\ position_of[m].balance = 0
    <3>1. position_of[m] # NoPosition /\ position_of[m] =
            [address |-> positions[s].address, balance |-> positions[s].balance]
      BY <2>2, PositionOf DEF s
    <3> QED BY <2>1, <2>3, <3>1
  <2> HIDE DEF s
  <2>p. ZeroPosition \in Position
    BY PositionListAssumption DEF ZeroPosition, Position
  <2>7. position_of' = [position_of EXCEPT ![m] = NoPosition]
    <3>1. positions'[s] = ZeroPosition /\ \A t \in Slots \ {s} : positions'[t] = positions[t]
      BY <1>0, <2>1, <2>3
    <3> HIDE DEF position_of
    <3>2. /\ position_of'[m] = NoPosition
          /\ \A k \in Mints : k # m => position_of'[k] = position_of[k]
          /\ position_of' = [k \in Mints |-> position_of'[k]]
          /\ position_of = [k \in Mints |-> position_of[k]]
      BY <2>3, <2>4, <2>5, <2>p, <3>1, OneSlot, ZenonT(40)
    <3> QED BY <3>2
  <2> QED BY <1>0, <2>1, <2>6, <2>7 DEF Map!AbsUnregister
<1>3. ASSUME NEW m \in Mints, NEW a \in Addresses, NEW b \in 0 .. MaxBalance,
             set_position_balance(m, a, b)
      PROVE  Map!AbsSetBalance(m, b)
  <2> DEFINE i == get_map_index(m)
             s == map[i].index
             p == [positions[s] EXCEPT !.balance = b]
  <2>1. /\ i # NotFound /\ positions' = [positions EXCEPT ![s] = p]
        /\ liquidating' = liquidating
    BY <1>3 DEF set_position_balance
  <2>2. i \in 1 .. length /\ map[i].mint = m
    BY <2>1, Lookup
  <2> HIDE DEF i
  <2>3. s \in Slots /\ positions[s].token = m
    BY <2>2, KeysAndSlots
  <2>4. \A t \in Slots : positions[t].token = m => t = s
    BY <2>2, KeysAndSlots DEF s
  <2>5. /\ position_of[m] # NoPosition
        /\ position_of[m] = [address |-> positions[s].address, balance |-> positions[s].balance]
    BY <2>2, PositionOf DEF s
  <2> HIDE DEF s
  <2>6. p.token = m /\ p.address = positions[s].address /\ p.balance = b
    BY <1>0, <2>3 DEF Position
  <2>p. p \in Position
    BY <1>0, <2>3 DEF Position
  <2> HIDE DEF p
  <2>7. position_of' = [position_of EXCEPT ![m] =
                          [address |-> positions[s].address, balance |-> b]]
    <3>1. /\ positions[s].token \in {m, Default} /\ p.token \in {m, Default}
          /\ positions'[s] = p /\ \A t \in Slots \ {s} : positions'[t] = positions[t]
      BY <1>0, <2>1, <2>3, <2>6
    <3> DEFINE v == [address |-> positions[s].address, balance |-> b]
    <3>2. v = [address |-> p.address, balance |-> p.balance]
      BY <2>6
    <3> HIDE DEF position_of, v
    <3>3. /\ position_of'[m] = v
          /\ \A k \in Mints : k # m => position_of'[k] = position_of[k]
          /\ position_of' = [k \in Mints |-> position_of'[k]]
          /\ position_of = [k \in Mints |-> position_of[k]]
      BY <2>3, <2>4, <2>6, <2>p, <3>1, <3>2, OneSlot
    <3>4. position_of' = [position_of EXCEPT ![m] = v]
      BY <3>3
    <3> QED BY <3>4 DEF v
  <2>8. [position_of[m] EXCEPT !.balance = b] = [address |-> positions[s].address, balance |-> b]
    BY <2>5
  <2>9. position_of' = [position_of EXCEPT ![m] = [position_of[m] EXCEPT !.balance = b]]
    BY <2>7, <2>8
  <2> QED BY <1>0, <2>1, <2>5, <2>9 DEF Map!AbsSetBalance
<1>4. CASE (start_liquidation \/ end_liquidation) /\ UNCHANGED <<length, map, positions>>
  <2>1. position_of' = position_of
    BY <1>4 DEF position_of
  <2>2. liquidating' = ~liquidating
    BY <1>0, <1>4 DEF start_liquidation, end_liquidation
  <2>3. Map!AbsLiquidation
    BY <2>1, <2>2 DEF Map!AbsLiquidation
  <2> QED BY <2>3 DEF Map!AbsNext
<1>5. CASE UNCHANGED listVars
  <2>1. position_of' = position_of /\ liquidating' = liquidating
    BY <1>5 DEF listVars, position_of
  <2> QED BY <2>1 DEF Map!absVars
<1>6. ASSUME NEW m \in Mints, NEW a \in Addresses,
             \/ register_position(m, a)
             \/ unregister_position(m, a)
             \/ \E b \in 0 .. MaxBalance : set_position_balance(m, a, b)
      PROVE  Map!AbsNext
  BY <1>1, <1>2, <1>3, <1>6 DEF Map!AbsNext
<1> QED BY <1>4, <1>5, <1>6 DEF ListNext

\* Slots, keys, sorting and bisection together are a map from mints to
\* positions with room for SlotCount of them.
THEOREM ListImplementsMap == ListSpec => ImplementsPositionMap
<1>1. InitList => Map!AbsInit
  <2> SUFFICES ASSUME InitList PROVE Map!AbsInit
    OBVIOUS
  <2>1. SlotView
    BY ListInvInit, SlotViewHolds
  <2>2. \A m \in Mints : position_of[m] = NoPosition
    BY <2>1, KeyTypes DEF SlotView, InitList, ZeroPosition
  <2>3. position_of = [m \in Mints |-> NoPosition]
    <3>1. position_of = [m \in Mints |-> position_of[m]]
      BY <2>1 DEF SlotView
    <3> QED BY <2>2, <3>1
  <2> QED BY <2>3 DEF InitList, Map!AbsInit, Map!Unregistered, NoPosition
<1> QED
  BY <1>1, RefinementStep, ListInvAlways, PTL
     DEF ListSpec, ImplementsPositionMap, Map!AbsSpec
=============================================================================
