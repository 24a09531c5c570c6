---------------------------- MODULE ClientProofs ----------------------------
(***************************************************************************)
(* The client libraries, proved.  The crank of a market, for any accounts, *)
(* events, sizes of transactions, batches and chunks, and any number of    *)
(* failing calls: no account that has to be settled is lost between the    *)
(* tasks, but for those of a transaction that was executed and reported as *)
(* failed.  The client of a margin account, for any pools, tokens, markets  *)
(* and limit of positions: sent in order and undisturbed, what it builds   *)
(* finds every position as it expects it.  The packing of instructions,    *)
(* for any groups, sizes and limit: no way to cut a list makes fewer       *)
(* transactions than condense.                                             *)
(***************************************************************************)
EXTENDS Crank, MarginClient, Condense, SumTheorems, SequenceTheorems


-----------------------------------------------------------------------------
(* Sequences *)

\* The elements of a part, and of two sequences.
LEMMA SetsOfSequences ==
  ASSUME NEW S, NEW s \in Seq(S), NEW t \in Seq(S)
  PROVE  /\ ToSet(s) \subseteq S /\ ToSet(<<>>) = {}
         /\ s \o t \in Seq(S) /\ ToSet(s \o t) = ToSet(s) \cup ToSet(t)
<1> DEFINE r == s \o t
<1>1. /\ r \in Seq(S) /\ Len(r) = Len(s) + Len(t) /\ Len(s) \in Nat /\ Len(t) \in Nat
      /\ \A i \in 1 .. Len(s) : r[i] = s[i] /\ s[i] \in S
      /\ \A i \in 1 .. Len(t) : r[Len(s) + i] = t[i] /\ t[i] \in S
  OBVIOUS
<1>2. DOMAIN s = 1 .. Len(s) /\ DOMAIN t = 1 .. Len(t) /\ DOMAIN r = 1 .. Len(r)
  BY <1>1
<1> HIDE DEF r
<1>3. \A i \in 1 .. Len(r) : i \in 1 .. Len(s) \/ \E j \in 1 .. Len(t) : i = Len(s) + j
  <2> SUFFICES ASSUME NEW i \in 1 .. Len(r), i \notin 1 .. Len(s)
               PROVE  \E j \in 1 .. Len(t) : i = Len(s) + j
    OBVIOUS
  <2>1. i - Len(s) \in 1 .. Len(t) /\ i = Len(s) + (i - Len(s))
    BY <1>1
  <2> QED BY <2>1
<1>4. \A i \in 1 .. Len(s) : i \in 1 .. Len(r)
  BY <1>1
<1>5. \A j \in 1 .. Len(t) : Len(s) + j \in 1 .. Len(r)
  BY <1>1
<1>6. ToSet(r) \subseteq ToSet(s) \cup ToSet(t)
  <2> SUFFICES ASSUME NEW i \in 1 .. Len(r) PROVE r[i] \in ToSet(s) \cup ToSet(t)
    BY <1>2 DEF ToSet
  <2>1. CASE i \in 1 .. Len(s)
    BY <1>1, <1>2, <2>1 DEF ToSet
  <2>2. CASE \E j \in 1 .. Len(t) : i = Len(s) + j
    BY <1>1, <1>2, <2>2 DEF ToSet
  <2> QED BY <1>3, <2>1, <2>2
<1>7. ToSet(s) \subseteq ToSet(r)
  BY <1>1, <1>2, <1>4 DEF ToSet
<1>8. ToSet(t) \subseteq ToSet(r)
  <2> SUFFICES ASSUME NEW j \in 1 .. Len(t) PROVE t[j] \in ToSet(r)
    BY <1>2 DEF ToSet
  <2>1. r[Len(s) + j] = t[j] /\ Len(s) + j \in DOMAIN r
    BY <1>1, <1>2, <1>5
  <2> QED BY <2>1 DEF ToSet
<1>9. ToSet(s) \subseteq S /\ ToSet(<<>>) = {}
  BY <1>1, <1>2 DEF ToSet
<1> QED BY <1>1, <1>6, <1>7, <1>8, <1>9 DEF r

\* An element more
LEMMA Appended ==
  ASSUME NEW S, NEW s \in Seq(S), NEW x \in S
  PROVE  /\ Append(s, x) \in Seq(S) /\ Len(Append(s, x)) = Len(s) + 1
         /\ Append(s, x)[Len(s) + 1] = x
         /\ \A i \in 1 .. Len(s) : Append(s, x)[i] = s[i]
         /\ ToSet(Append(s, x)) = ToSet(s) \cup {x}
<1> DEFINE t == <<x>>
<1>1. t \in Seq(S) /\ ToSet(t) = {x} /\ Append(s, x) = s \o t
  BY DEF ToSet
<1> HIDE DEF t
<1>2. ToSet(Append(s, x)) = ToSet(s) \cup {x}
  BY <1>1, SetsOfSequences
<1> QED BY <1>2

\* A part of a sequence
LEMMA PartOf ==
  ASSUME NEW S, NEW s \in Seq(S), NEW a \in Nat \ {0}, NEW b \in Nat, b <= Len(s), a <= b + 1
  PROVE  /\ SubSeq(s, a, b) \in Seq(S) /\ Len(SubSeq(s, a, b)) = b + 1 - a
         /\ \A i \in 1 .. b + 1 - a : SubSeq(s, a, b)[i] = s[a + i - 1]
         /\ \A x : x \in ToSet(SubSeq(s, a, b)) <=> \E i \in a .. b : x = s[i]
<1> DEFINE r == SubSeq(s, a, b)
           n == b + 1 - a
<1>1. Len(s) \in Nat /\ n \in Nat
  OBVIOUS
<1>2. r = [i \in 1 .. n |-> s[a + i - 1]]
  OBVIOUS
<1>3. \A i \in 1 .. n : a + i - 1 \in a .. b /\ a + i - 1 \in 1 .. Len(s)
  BY <1>1
<1>4. r \in Seq(S) /\ Len(r) = n
  <2>1. \A i \in 1 .. n : s[a + i - 1] \in S
    BY <1>3
  <2> HIDE DEF r
  <2>2. r \in [1 .. n -> S]
    BY <1>2, <2>1
  <2> QED BY <1>1, <2>2
<1> HIDE DEF r
<1>5. ToSet(r) = {r[i] : i \in 1 .. n}
  BY <1>2 DEF ToSet
<1>6. ASSUME NEW x \in ToSet(r) PROVE \E i \in a .. b : x = s[i]
  BY <1>2, <1>3, <1>5
<1>7. ASSUME NEW i \in a .. b PROVE s[i] \in ToSet(r)
  <2>1. i + 1 - a \in 1 .. n /\ a + (i + 1 - a) - 1 = i
    BY <1>1
  <2>2. r[i + 1 - a] = s[i]
    BY <1>2, <2>1
  <2> QED BY <1>5, <2>1, <2>2
<1> QED BY <1>2, <1>4, <1>6, <1>7 DEF r

-----------------------------------------------------------------------------
(* NoDupeQueue *)

Items(q) == ToSet(q.list)

\* The set is that of the list, and no item is in the list twice.
NoDupes(q) ==
  /\ q = [list |-> q.list, set |-> q.set] /\ q.list \in Seq(Accounts) /\ q.set = Items(q)
  /\ \A i, j \in 1 .. Len(q.list) : q.list[i] = q.list[j] => i = j

\* An item is pushed, or is there already.
LEMMA Pushed ==
  ASSUME NEW q, NoDupes(q), NEW a \in Accounts
  PROVE  NoDupes(push(q, a)) /\ Items(push(q, a)) = Items(q) \cup {a}
<1>1. CASE a \in q.set
  BY <1>1 DEF push, NoDupes
<1>2. CASE a \notin q.set
  <2> DEFINE s == q.list
             n == Len(s)
             t == Append(s, a)
  <2>1. push(q, a) = [list |-> t, set |-> q.set \cup {a}]
    BY <1>2 DEF push
  <2>2. s \in Seq(Accounts) /\ n \in Nat /\ ToSet(s) = q.set
    BY DEF NoDupes, Items
  <2>3. /\ t \in Seq(Accounts) /\ Len(t) = n + 1 /\ t[n + 1] = a
        /\ \A i \in 1 .. n : t[i] = s[i]
        /\ ToSet(t) = ToSet(s) \cup {a}
    BY <2>2, Appended
  <2>6. \A i \in 1 .. n : s[i] # a
    BY <1>2, <2>2 DEF ToSet
  <2>7. \A i, j \in 1 .. n : s[i] = s[j] => i = j
    BY DEF NoDupes
  <2> HIDE DEF s, t, n
  <2>8. ASSUME NEW i \in 1 .. Len(t), NEW j \in 1 .. Len(t), t[i] = t[j] PROVE i = j
    <3>1. (i \in 1 .. n \/ i = n + 1) /\ (j \in 1 .. n \/ j = n + 1)
      BY <2>2, <2>3
    <3> QED BY <2>2, <2>3, <2>6, <2>7, <2>8, <3>1
  <2> QED BY <2>1, <2>2, <2>3, <2>8 DEF NoDupes, Items, s
<1> QED BY <1>1, <1>2

Pushes(g, q, items) ==
  g = [n \in 0 .. Len(items) |-> IF n = 0 THEN q ELSE push(g[n - 1], items[n])]

\* Many items are pushed, one after the other.
LEMMA PushedMany ==
  ASSUME NEW q, NoDupes(q), NEW items \in Seq(Accounts)
  PROVE  NoDupes(push_many(q, items)) /\ Items(push_many(q, items)) = Items(q) \cup ToSet(items)
<1> DEFINE V == {x \in [list : Seq(Accounts), set : SUBSET Accounts] : NoDupes(x)}
           n == Len(items)
           move(k) == [x \in V |-> IF k \in 1 .. n THEN push(x, items[k]) ELSE x]
           s == [k \in Nat |-> move(k)]
<1>0. \A x : NoDupes(x) => x \in V
  <2> SUFFICES ASSUME NEW x, NoDupes(x) PROVE x \in [list : Seq(Accounts), set : SUBSET Accounts]
    OBVIOUS
  <2>1. x.list \in Seq(Accounts) /\ x.set \subseteq Accounts /\ x = [list |-> x.list, set |-> x.set]
    BY SetsOfSequences DEF NoDupes, Items
  <2> QED BY <2>1
<1>1. n \in Nat /\ \A k \in 1 .. n : items[k] \in Accounts
  OBVIOUS
<1>2. \A k \in 1 .. n : \A x \in V :
        push(x, items[k]) \in V /\ Items(push(x, items[k])) = Items(x) \cup {items[k]}
  BY <1>0, <1>1, Pushed
<1>3. q \in V /\ \A x \in V : NoDupes(x)
  BY <1>0
<1> HIDE DEF V, n
<1>4. s \in [Nat -> [V -> V]]
  BY <1>2
<1>5. PICK g : ByRecursion(g, V, 0, n, q, s)
  <2> HIDE DEF s
  <2>1. 0 <= n /\ 0 \in Nat
    BY <1>1
  <2> QED BY <1>1, <1>3, <1>4, <2>1, Recursion
<1>6. g \in [0 .. n -> V] /\ g[0] = q
  BY <1>5 DEF ByRecursion
<1>7. ASSUME NEW k \in 1 .. n PROVE g[k] = push(g[k - 1], items[k])
  <2>1. k \in 0 + 1 .. n /\ k \in Nat /\ k - 1 \in 0 .. n
    BY <1>1
  <2>2. g[k] = s[k][g[k - 1]] /\ g[k - 1] \in V
    BY <1>5, <2>1 DEF ByRecursion
  <2>3. s[k] = move(k)
    BY <2>1
  <2> HIDE DEF s
  <2> QED BY <2>2, <2>3
<1>8. Pushes(g, q, items)
  <2>1. \A k \in 0 .. n : k # 0 => k \in 1 .. n
    BY <1>1
  <2>2. \A k \in 0 .. n : g[k] = IF k = 0 THEN q ELSE push(g[k - 1], items[k])
    BY <1>6, <1>7, <2>1
  <2>3. g = [k \in 0 .. n |-> g[k]]
    BY <1>6
  <2> QED BY <2>2, <2>3 DEF Pushes, n
<1> DEFINE h == CHOOSE f : Pushes(f, q, items)
<1>9. Pushes(h, q, items)
  BY <1>8
<1>10. push_many(q, items) = h[n]
  BY DEF push_many, Pushes, n
<1> HIDE DEF h
<1>11. h[0] = q /\ \A k \in 1 .. n : h[k] = push(h[k - 1], items[k])
  <2>1. \A k \in 0 .. n : h[k] = IF k = 0 THEN q ELSE push(h[k - 1], items[k])
    BY <1>9 DEF Pushes, n
  <2>2. 0 \in 0 .. n /\ \A k \in 1 .. n : k \in 0 .. n /\ k # 0
    BY <1>1
  <2> QED BY <2>1, <2>2
<1> DEFINE Upto(k) == {items[i] : i \in 1 .. k}
           P == {k \in Nat : k <= n => h[k] \in V /\ Items(h[k]) = Items(q) \cup Upto(k)}
<1>12. 0 \in P
  <2>1. Upto(0) = {}
    OBVIOUS
  <2> QED BY <1>3, <1>11, <2>1
<1>13. ASSUME NEW k \in Nat, k \in P PROVE k + 1 \in P
  <2> SUFFICES ASSUME k + 1 <= n PROVE h[k + 1] \in V /\ Items(h[k + 1]) = Items(q) \cup Upto(k + 1)
    OBVIOUS
  <2>1. k + 1 \in 1 .. n /\ (k + 1) - 1 = k /\ k <= n
    BY <1>1
  <2>2. h[k] \in V /\ Items(h[k]) = Items(q) \cup Upto(k)
    BY <1>13, <2>1
  <2>3. h[k + 1] = push(h[k], items[k + 1])
    BY <1>11, <2>1
  <2>4. h[k + 1] \in V /\ Items(h[k + 1]) = Items(h[k]) \cup {items[k + 1]}
    BY <1>2, <2>1, <2>2, <2>3
  <2>5. Upto(k + 1) = Upto(k) \cup {items[k + 1]}
    <3>1. 1 .. k + 1 = (1 .. k) \cup {k + 1}
      OBVIOUS
    <3> QED BY <3>1
  <2> QED BY <2>2, <2>4, <2>5
<1>14. n \in P
  <2> HIDE DEF P
  <2> QED BY <1>1, <1>12, <1>13, NatSetInduction
<1>15. Upto(n) = ToSet(items)
  BY DEF ToSet, n
<1> QED BY <1>1, <1>3, <1>10, <1>14, <1>15

\* The first items are taken out.
LEMMA PoppedMany ==
  ASSUME NEW q, NoDupes(q), NEW max \in Nat
  PROVE  /\ NoDupes(pop_many(q, max)) /\ FirstItems(q, max) \in Seq(Accounts)
         /\ Items(q) = ToSet(FirstItems(q, max)) \cup Items(pop_many(q, max))
<1> DEFINE s == q.list
           n == Len(s)
           b == IF max < n THEN max ELSE n
           first == FirstItems(q, max)
           rest == SubSeq(s, b + 1, n)
<1>1. s \in Seq(Accounts) /\ n \in Nat /\ b \in Nat /\ b <= n /\ q.set = ToSet(s)
      /\ \A i, j \in 1 .. n : s[i] = s[j] => i = j
  BY DEF NoDupes, Items
<1>2. first = SubSeq(s, 1, b)
  BY DEF FirstItems
<1> HIDE DEF b
<1>3. /\ first \in Seq(Accounts) /\ Len(first) = b
      /\ \A x : x \in ToSet(first) <=> \E i \in 1 .. b : x = s[i]
  <2>1. 1 \in Nat \ {0} /\ 1 <= b + 1 /\ b + 1 - 1 = b
    BY <1>1
  <2> HIDE DEF s, first, n
  <2> QED BY <1>1, <1>2, <2>1, PartOf DEF n
<1>4. /\ rest \in Seq(Accounts) /\ Len(rest) = n - b
      /\ \A i \in 1 .. n - b : rest[i] = s[b + i]
      /\ \A x : x \in ToSet(rest) <=> \E i \in b + 1 .. n : x = s[i]
  <2> HIDE DEF s, n
  <2>1. b + 1 \in Nat \ {0} /\ b + 1 <= n + 1 /\ n + 1 - (b + 1) = n - b
        /\ \A i \in 1 .. n - b : b + 1 + i - 1 = b + i
    <3>1. b \in Nat /\ n \in Nat /\ b <= n
      BY <1>1
    <3> QED BY <3>1
  <2>2. /\ rest \in Seq(Accounts) /\ Len(rest) = n + 1 - (b + 1)
        /\ \A i \in 1 .. n + 1 - (b + 1) : rest[i] = s[b + 1 + i - 1]
        /\ \A x : x \in ToSet(rest) <=> \E i \in b + 1 .. n : x = s[i]
    BY <1>1, <2>1, PartOf DEF n
  <2> HIDE DEF rest
  <2> QED BY <2>1, <2>2
<1>5. pop_many(q, max) = [list |-> rest, set |-> q.set \ ToSet(first)]
  BY <1>3 DEF pop_many
<1> HIDE DEF rest, first
<1>6. ToSet(s) = {s[i] : i \in 1 .. n}
  BY <1>1 DEF ToSet
<1> HIDE DEF s, n
<1>7. \A i \in 1 .. n : i \in 1 .. b \/ i \in b + 1 .. n
  BY <1>1
<1>8. \A i \in 1 .. b : i \in 1 .. n /\ i \notin b + 1 .. n
  BY <1>1
<1>9. \A i \in b + 1 .. n : i \in 1 .. n
  BY <1>1
<1>10. ToSet(s) = ToSet(first) \cup ToSet(rest)
  BY <1>3, <1>4, <1>6, <1>7, <1>8, <1>9
<1>11. ToSet(first) \cap ToSet(rest) = {}
  BY <1>1, <1>3, <1>4, <1>8, <1>9
<1>12. q.set \ ToSet(first) = ToSet(rest)
  BY <1>1, <1>10, <1>11
<1>13. ASSUME NEW i \in 1 .. Len(rest), NEW j \in 1 .. Len(rest), rest[i] = rest[j] PROVE i = j
  <2>1. b + i \in 1 .. n /\ b + j \in 1 .. n /\ i \in 1 .. n - b /\ j \in 1 .. n - b
    BY <1>1, <1>4
  <2>2. b + i = b + j
    BY <1>1, <1>4, <1>13, <2>1
  <2> QED BY <1>1, <2>1, <2>2
<1>14. NoDupes(pop_many(q, max)) /\ Items(pop_many(q, max)) = ToSet(rest)
  BY <1>4, <1>5, <1>12, <1>13 DEF NoDupes, Items
<1>15. Items(q) = ToSet(s)
  BY DEF Items, s
<1> QED BY <1>3, <1>10, <1>14, <1>15 DEF first

-----------------------------------------------------------------------------
(* The accounts of events *)

Finds(g, s) ==
  g = [n \in 0 .. Len(s) |->
         CASE n = 0 -> <<>>
           [] n > 0 /\ s[n].account \in Accounts -> Append(g[n - 1], s[n].account)
           [] OTHER -> g[n - 1]]

\* The margin accounts among those of the events are found, and no other.
LEMMA AccountsFound ==
  ASSUME NEW s \in Seq(Events)
  PROVE  /\ MarginAccountsOf(s) \in Seq(Accounts)
         /\ \A a \in Accounts : a \in ToSet(MarginAccountsOf(s)) <=> \E i \in 1 .. Len(s) : s[i].account = a
<1> DEFINE V == Seq(Accounts)
           n == Len(s)
           next(x, k) == IF s[k].account \in Accounts THEN Append(x, s[k].account) ELSE x
           move(k) == [x \in V |-> IF k \in 1 .. n THEN next(x, k) ELSE x]
           z == [k \in Nat |-> move(k)]
<1>1. n \in Nat /\ <<>> \in V
  OBVIOUS
<1>2. \A k \in 1 .. n : \A x \in V :
        /\ next(x, k) \in V
        /\ ToSet(next(x, k)) = ToSet(x) \cup ({s[k].account} \cap Accounts)
  <2> SUFFICES ASSUME NEW k \in 1 .. n, NEW x \in V
               PROVE  /\ next(x, k) \in V
                      /\ ToSet(next(x, k)) = ToSet(x) \cup ({s[k].account} \cap Accounts)
    OBVIOUS
  <2> DEFINE a == s[k].account
  <2>1. CASE a \in Accounts
    <3> HIDE DEF a
    <3>1. Append(x, a) \in V /\ ToSet(Append(x, a)) = ToSet(x) \cup {a}
      BY <2>1, Appended
    <3>2. next(x, k) = Append(x, a)
      BY <2>1 DEF a
    <3>3. {a} \cap Accounts = {a}
      BY <2>1
    <3> QED BY <3>1, <3>2, <3>3 DEF a
  <2>2. CASE a \notin Accounts
    BY <2>2
  <2> QED BY <2>1, <2>2
<1> HIDE DEF V, n, next
<1>3. z \in [Nat -> [V -> V]]
  BY <1>2
<1>4. PICK g : ByRecursion(g, V, 0, n, <<>>, z)
  <2> HIDE DEF z
  <2>1. 0 <= n /\ 0 \in Nat
    BY <1>1
  <2> QED BY <1>1, <1>3, <2>1, Recursion
<1>5. g \in [0 .. n -> V] /\ g[0] = <<>>
  BY <1>4 DEF ByRecursion
<1>6. ASSUME NEW k \in 1 .. n PROVE g[k] = next(g[k - 1], k)
  <2>1. k \in 0 + 1 .. n /\ k \in Nat /\ k - 1 \in 0 .. n
    BY <1>1
  <2>2. g[k] = z[k][g[k - 1]] /\ g[k - 1] \in V
    BY <1>4, <2>1 DEF ByRecursion
  <2>3. z[k] = move(k)
    BY <2>1
  <2> HIDE DEF z
  <2> QED BY <2>2, <2>3
<1>7. Finds(g, s)
  <2>1. \A k \in 0 .. n : k # 0 => k \in 1 .. n /\ k > 0
    BY <1>1
  <2>2. ASSUME NEW k \in 0 .. n
        PROVE  g[k] = CASE k = 0 -> <<>>
                        [] k > 0 /\ s[k].account \in Accounts -> Append(g[k - 1], s[k].account)
                        [] OTHER -> g[k - 1]
    <3>1. CASE k = 0
      BY <1>5, <3>1
    <3>2. CASE k # 0
      <4>1. g[k] = IF s[k].account \in Accounts THEN Append(g[k - 1], s[k].account) ELSE g[k - 1]
        BY <1>6, <2>1, <3>2 DEF next
      <4> QED BY <2>1, <3>2, <4>1
    <3> QED BY <3>1, <3>2
  <2>3. g = [k \in 0 .. n |-> g[k]]
    BY <1>5
  <2> QED BY <2>2, <2>3 DEF Finds, n
<1> DEFINE h == CHOOSE f : Finds(f, s)
<1>8. Finds(h, s)
  BY <1>7
<1>9. MarginAccountsOf(s) = h[n]
  BY DEF MarginAccountsOf, Finds, n
<1> HIDE DEF h
<1>10. h[0] = <<>> /\ \A k \in 1 .. n : h[k] = next(h[k - 1], k)
  <2>1. \A k \in 0 .. n :
          h[k] = CASE k = 0 -> <<>>
                   [] k > 0 /\ s[k].account \in Accounts -> Append(h[k - 1], s[k].account)
                   [] OTHER -> h[k - 1]
    BY <1>8 DEF Finds, n
  <2>2. 0 \in 0 .. n /\ \A k \in 1 .. n : k \in 0 .. n /\ k # 0 /\ k > 0
    BY <1>1
  <2>3. ASSUME NEW k \in 1 .. n PROVE h[k] = next(h[k - 1], k)
    <3>1. CASE s[k].account \in Accounts
      BY <2>1, <2>2, <3>1 DEF next
    <3>2. CASE s[k].account \notin Accounts
      BY <2>1, <2>2, <3>2 DEF next
    <3> QED BY <3>1, <3>2
  <2> QED BY <2>1, <2>2, <2>3
<1> DEFINE Upto(k) == {s[i].account : i \in 1 .. k} \cap Accounts
           P == {k \in Nat : k <= n => h[k] \in V /\ ToSet(h[k]) = Upto(k)}
<1>11. 0 \in P
  <2>1. Upto(0) = {} /\ ToSet(<<>>) = {}
    BY DEF ToSet
  <2> QED BY <1>1, <1>10, <2>1
<1>12. ASSUME NEW k \in Nat, k \in P PROVE k + 1 \in P
  <2> SUFFICES ASSUME k + 1 <= n PROVE h[k + 1] \in V /\ ToSet(h[k + 1]) = Upto(k + 1)
    OBVIOUS
  <2>1. k + 1 \in 1 .. n /\ (k + 1) - 1 = k /\ k <= n
    BY <1>1
  <2>2. h[k] \in V /\ ToSet(h[k]) = Upto(k)
    BY <1>12, <2>1
  <2>3. h[k + 1] = next(h[k], k + 1)
    BY <1>10, <2>1
  <2>4. h[k + 1] \in V /\ ToSet(h[k + 1]) = ToSet(h[k]) \cup ({s[k + 1].account} \cap Accounts)
    BY <1>2, <2>1, <2>2, <2>3
  <2>5. Upto(k + 1) = Upto(k) \cup ({s[k + 1].account} \cap Accounts)
    <3>1. 1 .. k + 1 = (1 .. k) \cup {k + 1}
      OBVIOUS
    <3> QED BY <3>1
  <2> QED BY <2>2, <2>4, <2>5
<1>13. n \in P
  <2> HIDE DEF P
  <2> QED BY <1>1, <1>11, <1>12, NatSetInduction
<1>14. h[n] \in V /\ ToSet(h[n]) = Upto(n)
  BY <1>1, <1>13
<1>15. \A a \in Accounts : a \in Upto(n) <=> \E i \in 1 .. n : s[i].account = a
  OBVIOUS
<1> QED BY <1>9, <1>14, <1>15 DEF V, n

-----------------------------------------------------------------------------
(* Chunks *)

Chunk == [items : Seq(Accounts), landed : BOOLEAN]

\* The accounts in chunks that have not landed
Waiting(cs) == UNION {ToSet(cs[i].items) : i \in {j \in DOMAIN cs : ~cs[j].landed}}

\* An account waits in one of the chunks.
LEMMA WaitingIn ==
  ASSUME NEW cs, NEW x
  PROVE  x \in Waiting(cs) <=> \E i \in DOMAIN cs : ~cs[i].landed /\ x \in ToSet(cs[i].items)
  BY DEF Waiting

\* More chunks
LEMMA ChunksJoin ==
  ASSUME NEW cs \in Seq(Chunk), NEW ds \in Seq(Chunk)
  PROVE  cs \o ds \in Seq(Chunk) /\ Waiting(cs) \cup Waiting(ds) \subseteq Waiting(cs \o ds)
<1> DEFINE r == cs \o ds
<1>1. /\ r \in Seq(Chunk) /\ Len(r) = Len(cs) + Len(ds) /\ Len(cs) \in Nat /\ Len(ds) \in Nat
      /\ \A i \in 1 .. Len(cs) : r[i] = cs[i]
      /\ \A i \in 1 .. Len(ds) : r[Len(cs) + i] = ds[i]
  OBVIOUS
<1>2. DOMAIN cs = 1 .. Len(cs) /\ DOMAIN ds = 1 .. Len(ds) /\ DOMAIN r = 1 .. Len(r)
  BY <1>1
<1> HIDE DEF r
<1>3. ASSUME NEW x \in Waiting(cs) PROVE x \in Waiting(r)
  <2>1. PICK i \in 1 .. Len(cs) : ~cs[i].landed /\ x \in ToSet(cs[i].items)
    BY <1>2, <1>3, WaitingIn
  <2>2. i \in 1 .. Len(r) /\ r[i] = cs[i]
    BY <1>1
  <2> QED BY <1>2, <2>1, <2>2, WaitingIn
<1>4. ASSUME NEW x \in Waiting(ds) PROVE x \in Waiting(r)
  <2>1. PICK i \in 1 .. Len(ds) : ~ds[i].landed /\ x \in ToSet(ds[i].items)
    BY <1>2, <1>4, WaitingIn
  <2>2. Len(cs) + i \in 1 .. Len(r) /\ r[Len(cs) + i] = ds[i]
    BY <1>1
  <2> QED BY <1>2, <2>1, <2>2, WaitingIn
<1> QED BY <1>1, <1>3, <1>4 DEF r

\* A sequence without one of its elements.
LEMMA RemovedFrom ==
  ASSUME NEW S, NEW s \in Seq(S), NEW i \in DOMAIN s
  PROVE  RemoveAt(s, i) \in Seq(S)
<1> DEFINE n == Len(s)
<1>1. n \in Nat /\ DOMAIN s = 1 .. n /\ i \in 1 .. n
  OBVIOUS
<1>2. /\ i - 1 \in Nat /\ i - 1 <= Len(s) /\ 1 <= (i - 1) + 1 /\ 1 \in Nat \ {0}
      /\ i + 1 \in Nat \ {0} /\ i + 1 <= n + 1 /\ n <= Len(s)
  BY <1>1
<1>3. SubSeq(s, 1, i - 1) \in Seq(S) /\ SubSeq(s, i + 1, n) \in Seq(S)
  BY <1>1, <1>2, PartOf
<1>4. RemoveAt(s, i) = SubSeq(s, 1, i - 1) \o SubSeq(s, i + 1, n)
  BY DEF RemoveAt
<1> QED BY <1>3, <1>4, SetsOfSequences

\* Without the i-th chunk: the others still wait.
LEMMA ChunkRemoved ==
  ASSUME NEW cs \in Seq(Chunk), NEW i \in DOMAIN cs
  PROVE  /\ RemoveAt(cs, i) \in Seq(Chunk)
         /\ \A x \in Waiting(cs) :
              x \in Waiting(RemoveAt(cs, i)) \/ (~cs[i].landed /\ x \in ToSet(cs[i].items))
<1> DEFINE n == Len(cs)
           before == SubSeq(cs, 1, i - 1)
           after == SubSeq(cs, i + 1, n)
<1>1. n \in Nat /\ DOMAIN cs = 1 .. n /\ i \in 1 .. n
  OBVIOUS
<1>2. i - 1 \in Nat /\ i - 1 <= n /\ i + 1 \in Nat \ {0} /\ i + 1 <= n + 1 /\ 1 <= (i - 1) + 1 /\ 1 \in Nat \ {0}
  BY <1>1
<1> HIDE DEF n
<1>3. before \in Seq(Chunk) /\ \A x : x \in ToSet(before) <=> \E j \in 1 .. i - 1 : x = cs[j]
  BY <1>2, PartOf DEF n
<1>4. after \in Seq(Chunk) /\ \A x : x \in ToSet(after) <=> \E j \in i + 1 .. n : x = cs[j]
  <2>1. n \in Nat /\ n <= Len(cs) /\ i + 1 \in Nat \ {0} /\ i + 1 <= n + 1
    BY <1>1, <1>2 DEF n
  <2> HIDE DEF n
  <2> QED BY <2>1, PartOf
<1>5. RemoveAt(cs, i) = before \o after
  BY DEF RemoveAt, n
<1> HIDE DEF before, after
<1>6. /\ RemoveAt(cs, i) \in Seq(Chunk)
      /\ Waiting(before) \cup Waiting(after) \subseteq Waiting(RemoveAt(cs, i))
  BY <1>3, <1>4, <1>5, ChunksJoin
<1>7. ASSUME NEW x \in Waiting(cs), cs[i].landed \/ x \notin ToSet(cs[i].items)
      PROVE  x \in Waiting(before) \cup Waiting(after)
  <2>1. PICK j \in 1 .. n : ~cs[j].landed /\ x \in ToSet(cs[j].items)
    BY <1>1, <1>7, WaitingIn
  <2>2. j \in 1 .. i - 1 \/ j \in i + 1 .. n
    BY <1>1, <1>7, <2>1
  <2>3. CASE j \in 1 .. i - 1
    <3>1. PICK k \in DOMAIN before : before[k] = cs[j]
      BY <1>3, <2>3 DEF ToSet
    <3> QED BY <2>1, <3>1, WaitingIn
  <2>4. CASE j \in i + 1 .. n
    <3>1. PICK k \in DOMAIN after : after[k] = cs[j]
      BY <1>4, <2>4 DEF ToSet
    <3> QED BY <2>1, <3>1, WaitingIn
  <2> QED BY <2>2, <2>3, <2>4
<1> QED BY <1>6, <1>7

\* Items cut into chunks all wait in them.
LEMMA ChunkedWaits ==
  ASSUME NEW s \in Seq(Accounts)
  PROVE  Chunked(s) \in Seq(Chunk) /\ ToSet(s) \subseteq Waiting(Chunked(s))
<1> DEFINE c == chunk_size
           n == Len(s)
           m == (n + c - 1) \div c
           a(i) == (i - 1) * c + 1
           b(i) == IF i * c < n THEN i * c ELSE n
           cs == Chunked(s)
<1>1. c \in Nat \ {0} /\ n \in Nat
  BY CrankAssumption
<1>2. cs = [i \in 1 .. m |-> [items |-> SubSeq(s, a(i), b(i)), landed |-> FALSE]]
  BY DEF Chunked
<1> HIDE DEF n, c, cs
<1>3. m \in Nat /\ m * c <= n + c - 1 /\ n + c - 1 < m * c + c
  <2> DEFINE x == n + c - 1
  <2>1. x \in Nat /\ x \in Int /\ x >= 0
    BY <1>1
  <2> HIDE DEF x
  <2>2. x \div c \in Nat /\ (x \div c) * c <= x /\ x < (x \div c) * c + c
    BY <1>1, <2>1, DivBounds
  <2>3. m = x \div c
    BY DEF x
  <2> HIDE DEF m
  <2> QED BY <2>2, <2>3 DEF x
<1> HIDE DEF m
<1>4. ASSUME NEW i \in 1 .. m
      PROVE  /\ a(i) \in Nat \ {0} /\ b(i) \in Nat /\ b(i) <= n /\ a(i) <= b(i) + 1
             /\ SubSeq(s, a(i), b(i)) \in Seq(Accounts)
             /\ \A k \in a(i) .. b(i) : s[k] \in ToSet(SubSeq(s, a(i), b(i)))
  <2>1. i \in Nat /\ i - 1 \in Nat /\ i - 1 <= m - 1 /\ m - 1 \in Nat /\ i * c \in Nat
        /\ (i - 1) * c \in Nat /\ i * c = (i - 1) * c + c /\ m * c = (m - 1) * c + c /\ (m - 1) * c \in Nat
    <3>1. i \in Nat /\ i - 1 \in Nat /\ i - 1 <= m - 1 /\ m - 1 \in Nat
      BY <1>3
    <3>2. i * c \in Nat /\ (i - 1) * c \in Nat /\ (m - 1) * c \in Nat
      BY <1>1, <3>1, MulNat
    <3>3. i * c = (i - 1) * c + c /\ m * c = (m - 1) * c + c
      BY <1>1, <1>3, <3>1
    <3> QED BY <3>1, <3>2, <3>3
  <2>2. (i - 1) * c <= (m - 1) * c
    BY <1>1, <2>1, MulNat
  <2> DEFINE x == (i - 1) * c
             y == (m - 1) * c
             z == i * c
             w == m * c
  <2>3. x \in Nat /\ y \in Nat /\ z \in Nat /\ z = x + c /\ w = y + c /\ x <= y /\ w <= n + c - 1
    BY <1>3, <2>1, <2>2
  <2>4. a(i) = x + 1 /\ b(i) = IF z < n THEN z ELSE n
    OBVIOUS
  <2> HIDE DEF x, y, z, w, a, b
  <2>5. a(i) \in Nat \ {0} /\ b(i) \in Nat /\ b(i) <= n /\ a(i) <= b(i) + 1
    BY <1>1, <2>3, <2>4
  <2>6. /\ SubSeq(s, a(i), b(i)) \in Seq(Accounts)
        /\ \A k : k \in ToSet(SubSeq(s, a(i), b(i))) <=> \E j \in a(i) .. b(i) : k = s[j]
    BY <2>5, PartOf DEF n
  <2> QED BY <2>5, <2>6
<1>5. cs \in Seq(Chunk)
  <2> HIDE DEF a, b
  <2>1. \A i \in 1 .. m : [items |-> SubSeq(s, a(i), b(i)), landed |-> FALSE] \in Chunk
    BY <1>4 DEF Chunk
  <2>2. cs \in [1 .. m -> Chunk]
    BY <1>2, <2>1
  <2> QED BY <1>3, <2>2
<1>6. ASSUME NEW k \in 1 .. n PROVE s[k] \in Waiting(cs)
  <2> DEFINE q == (k - 1) \div c
             i == q + 1
  <2>1. k \in Nat /\ k - 1 \in Nat /\ k <= n
    BY <1>1
  <2>2. q \in Nat /\ q * c <= k - 1 /\ k - 1 < q * c + c
    <3> DEFINE x == k - 1
    <3>1. x \in Nat /\ x \in Int /\ x >= 0
      BY <2>1
    <3> HIDE DEF x
    <3>2. x \div c \in Nat /\ (x \div c) * c <= x /\ x < (x \div c) * c + c
      BY <1>1, <3>1, DivBounds
    <3>3. q = x \div c
      BY DEF x
    <3> HIDE DEF q
    <3> QED BY <3>2, <3>3 DEF x
  <2> HIDE DEF q
  <2>3. i * c = q * c + c /\ q * c \in Nat /\ (i - 1) * c = q * c
    BY <1>1, <2>2
  <2>4. i \in 1 .. m
    <3>1. q < m
      <4>0. SUFFICES ASSUME m <= q PROVE FALSE
        BY <1>3, <2>2
      <4>1. m * c <= q * c /\ m * c \in Nat
        BY <1>1, <1>3, <2>2, <4>0, MulNat
      <4> DEFINE x == m * c
                 y == q * c
      <4>2. x \in Nat /\ y \in Nat /\ x <= y /\ y <= k - 1 /\ n + c - 1 < x + c
        BY <1>3, <2>2, <2>3, <4>1
      <4> HIDE DEF x, y
      <4> QED BY <1>1, <2>1, <4>2
    <3> QED BY <1>3, <2>2, <3>1
  <2>5. k \in a(i) .. b(i)
    <3> DEFINE x == q * c
    <3>1. a(i) = x + 1 /\ b(i) = IF x + c < n THEN x + c ELSE n
      BY <2>3
    <3>2. x \in Nat /\ x <= k - 1 /\ k - 1 < x + c
      BY <2>2, <2>3
    <3> HIDE DEF x, a, b
    <3> QED BY <1>1, <2>1, <3>1, <3>2
  <2> HIDE DEF a, b, i
  <2>6. s[k] \in ToSet(cs[i].items) /\ i \in DOMAIN cs /\ ~cs[i].landed
    BY <1>2, <1>4, <2>4, <2>5
  <2> QED BY <2>6, WaitingIn
<1>7. ToSet(s) = {s[k] : k \in 1 .. n}
  BY DEF ToSet, n
<1> QED BY <1>5, <1>6, <1>7 DEF cs

\* A sequence turned round has the same elements.
LEMMA Reversed ==
  ASSUME NEW S, NEW s \in Seq(S)
  PROVE  Reverse(s) \in Seq(S) /\ ToSet(s) \subseteq ToSet(Reverse(s))
<1> DEFINE n == Len(s)
           r == Reverse(s)
<1>1. n \in Nat /\ DOMAIN s = 1 .. n /\ \A i \in 1 .. n : s[i] \in S
  OBVIOUS
<1>2. r = [i \in 1 .. n |-> s[(n - i) + 1]]
  BY DEF Reverse
<1> HIDE DEF n, r
<1>3. \A i \in 1 .. n : (n - i) + 1 \in 1 .. n /\ (n - ((n - i) + 1)) + 1 = i
  BY <1>1
<1>4. r \in [1 .. n -> S]
  BY <1>1, <1>2, <1>3
<1>5. r \in Seq(S)
  BY <1>1, <1>4
<1>6. ASSUME NEW i \in 1 .. n PROVE s[i] \in ToSet(r)
  <2>1. r[(n - i) + 1] = s[i] /\ (n - i) + 1 \in DOMAIN r
    BY <1>2, <1>3
  <2> QED BY <2>1 DEF ToSet
<1>7. ToSet(s) = {s[i] : i \in 1 .. n}
  BY <1>1 DEF ToSet
<1> QED BY <1>5, <1>6, <1>7 DEF r

-----------------------------------------------------------------------------
(* The inductive invariant *)

\* an event of a transaction
Line == [event : Events, seqno : Nat]

\* What a transaction consumes is noted to be settled.
TxIsNoted == TxAccounts(tx) \subseteq ToSet(to_settle)

\* The accounts that are sure to be settled yet: a chunk that has landed and accounts
\* that are noted and not consumed do not count.
Held ==
  Items(input_queue) \cup Items(retry_queue) \cup Waiting(chunks)
    \cup (IF step = "confirm" THEN TxAccounts(tx) ELSE {})

QueuesTyped ==
  /\ events \in Seq(Events) /\ queue \in Seq(Events) /\ to_settle \in Seq(Accounts)
  /\ seqno \in [Accounts -> Nat] /\ users \in [Accounts -> Nat]
  /\ tx \in Seq(Line) /\ late \in Seq(Seq(Line))
  /\ NoDupes(input_queue) /\ NoDupes(retry_queue) /\ chunks \in Seq(Chunk)

\* PendingIsTracked by itself says nothing of which copy of an account will be settled.
CrankInv ==
  /\ QueuesTyped
  /\ TxIsNoted
  /\ unsettled \subseteq Held \cup missed

LEMMA CrankInit == Init => CrankInv
<1> SUFFICES ASSUME Init PROVE CrankInv
  OBVIOUS
<1>1. NoDupes(EmptyQueue)
  BY SetsOfSequences DEF NoDupes, EmptyQueue, Items, ToSet
<1>2. <<>> \in Seq(Events) /\ <<>> \in Seq(Accounts) /\ <<>> \in Seq(Chunk)
      /\ <<>> \in Seq(Line) /\ <<>> \in Seq(Seq(Line)) /\ DOMAIN <<>> = {}
  OBVIOUS
<1>3. QueuesTyped
  BY <1>1, <1>2 DEF Init, QueuesTyped
<1>4. TxIsNoted
  BY <1>2 DEF Init, TxIsNoted, TxAccounts
<1> QED BY <1>3, <1>4 DEF Init, CrankInv

\* The market's users and the copies the consumer takes
LEMMA MarketKeeps ==
  CrankInv /\ (NewEvent \/ Take \/ sync_queues \/ sync_users \/ SyncFails) => CrankInv'
<1> SUFFICES ASSUME CrankInv, NewEvent \/ Take \/ sync_queues \/ sync_users \/ SyncFails
             PROVE  CrankInv'
  OBVIOUS
<1>1. CASE NewEvent
  <2>1. events' \in Seq(Events)
    BY <1>1, Appended DEF NewEvent, CrankInv, QueuesTyped
  <2> QED BY <1>1, <2>1 DEF NewEvent, consumer, settler, CrankInv, QueuesTyped, Held, TxIsNoted
<1>2. CASE Take
  <2>1. seqno' \in [Accounts -> Nat]
    BY <1>2 DEF Take, CrankInv, QueuesTyped
  <2> QED BY <1>2, <2>1 DEF Take, consumer, settler, CrankInv, QueuesTyped, Held, TxIsNoted
<1>3. CASE sync_queues
  BY <1>3 DEF sync_queues, market, settler, CrankInv, QueuesTyped, Held, TxIsNoted
<1>4. CASE sync_users
  BY <1>4 DEF sync_users, market, settler, CrankInv, QueuesTyped, Held, TxIsNoted
<1>5. CASE SyncFails
  BY <1>5 DEF SyncFails, market, settler, CrankInv, QueuesTyped, Held, TxIsNoted
<1> QED BY <1>1, <1>2, <1>3, <1>4, <1>5

\* What is kept of the copied queue for a transaction is among what was prepared.
LEMMA KeptIsPrepared ==
  ASSUME NEW q \in Seq(Events)
  PROVE  /\ Prepared(q) \in Seq(Events)
         /\ SubSeq(q, Len(Prepared(q)) + 1, Len(q)) \in Seq(Events)
         /\ Len(Kept(q)) \in Nat /\ DOMAIN Kept(q) = 1 .. Len(Kept(q))
         /\ \A i \in DOMAIN Kept(q) : i \in 1 .. Len(Prepared(q)) /\ Prepared(q)[i] = q[i]
<1> DEFINE n == Len(q)
           m == MAX_EVENTS_PER_TX
<1>1. n \in Nat /\ m \in Nat /\ m >= 2
  BY CrankAssumption
<1>2. CASE n < m
  <2>1. Prepared(q) = q /\ Kept(q) = q /\ DOMAIN q = 1 .. n
    BY <1>2 DEF Prepared, Kept
  <2>2. SubSeq(q, n + 1, n) \in Seq(Events)
    <3>1. n + 1 \in Nat \ {0} /\ n + 1 <= n + 1 /\ n <= Len(q)
      BY <1>1
    <3> QED BY <1>1, <3>1, PartOf
  <2> QED BY <1>1, <2>1, <2>2
<1>3. CASE ~(n < m)
  <2>1. Prepared(q) = SubSeq(q, 1, m) /\ Kept(q) = SubSeq(q, 1, m - 1)
    BY <1>3 DEF Prepared, Kept
  <2> HIDE DEF m
  <2>2. m <= Len(q) /\ m - 1 \in Nat /\ m - 1 <= Len(q) /\ m + 1 \in Nat \ {0} /\ m + 1 <= n + 1
        /\ 1 \in Nat \ {0} /\ 1 <= m + 1 /\ 1 <= (m - 1) + 1
        /\ \A i \in 1 .. m : 1 + i - 1 = i
    BY <1>1, <1>3
  <2>3. Prepared(q) \in Seq(Events) /\ Len(Prepared(q)) = m + 1 - 1
        /\ \A i \in 1 .. m + 1 - 1 : Prepared(q)[i] = q[1 + i - 1]
    BY <1>1, <2>1, <2>2, PartOf
  <2>4. Kept(q) \in Seq(Events) /\ Len(Kept(q)) = (m - 1) + 1 - 1
    BY <1>1, <2>1, <2>2, PartOf
  <2>5. m + 1 - 1 = m /\ (m - 1) + 1 - 1 = m - 1 /\ m - 1 \in Nat
    BY <1>1, <2>2
  <2>6. DOMAIN Kept(q) = 1 .. m - 1
    BY <2>4, <2>5
  <2>7. SubSeq(q, Len(Prepared(q)) + 1, n) \in Seq(Events)
    <3>1. Len(Prepared(q)) + 1 = m + 1 /\ n <= Len(q)
      BY <1>1, <2>3, <2>5
    <3> QED BY <1>1, <2>2, <3>1, PartOf
  <2>8. \A i \in 1 .. m - 1 : i \in 1 .. m
    BY <1>1
  <2> QED BY <2>2, <2>3, <2>4, <2>5, <2>6, <2>7, <2>8
<1> QED BY <1>2, <1>3

\* Sequence numbers only count up.
LEMMA AdvancedTyped ==
  ASSUME NEW numbers \in [Accounts -> Nat], NEW s \in Seq(Events)
  PROVE  /\ Advanced(numbers, s) \in [Accounts -> Nat]
         /\ \A i \in 1 .. Len(s) : Earlier(s, i) \in Nat
<1>1. Len(s) \in Nat /\ DOMAIN s = 1 .. Len(s)
  OBVIOUS
<1>2. ASSUME NEW n \in Int, NEW J, J \subseteq 1 .. n
      PROVE  Cardinality(J) \in Nat
  <2>1. IsFiniteSet(1 .. n)
    BY FS_Interval
  <2>2. IsFiniteSet(J)
    BY <1>2, <2>1, FS_Subset
  <2> QED BY <2>2, FS_CardinalityType
<1>3. ASSUME NEW a \in Accounts
      PROVE  Cardinality({j \in DOMAIN s : s[j].opens /\ s[j].account = a}) \in Nat
  <2>1. {j \in DOMAIN s : s[j].opens /\ s[j].account = a} \subseteq 1 .. Len(s) /\ Len(s) \in Int
    BY <1>1
  <2> QED BY <1>2, <2>1
<1>4. Advanced(numbers, s) \in [Accounts -> Nat]
  BY <1>3 DEF Advanced
<1>5. ASSUME NEW i \in 1 .. Len(s) PROVE Earlier(s, i) \in Nat
  <2>1. {j \in 1 .. (i - 1) : s[j].opens /\ s[j].account = s[i].account} \subseteq 1 .. (i - 1)
        /\ i - 1 \in Int
    OBVIOUS
  <2> QED BY <1>2, <2>1 DEF Earlier
<1> QED BY <1>4, <1>5

LEMMA ConsumeKeeps == CrankInv /\ consume_next => CrankInv'
<1> SUFFICES ASSUME CrankInv, consume_next PROVE CrankInv'
  OBVIOUS
<1> DEFINE p == Prepared(queue)
           k == Kept(queue)
<1>1. queue \in Seq(Events) /\ users \in [Accounts -> Nat]
  BY DEF CrankInv, QueuesTyped
<1>2. /\ p \in Seq(Events) /\ SubSeq(queue, Len(p) + 1, Len(queue)) \in Seq(Events)
      /\ Len(k) \in Nat /\ DOMAIN k = 1 .. Len(k)
      /\ \A i \in DOMAIN k : i \in 1 .. Len(p) /\ p[i] = queue[i]
  BY <1>1, KeptIsPrepared
<1>3. /\ to_settle' = MarginAccountsOf(p) /\ queue' = SubSeq(queue, Len(p) + 1, Len(queue))
      /\ tx' = [i \in DOMAIN k |-> margin_fill_accounts(queue, i)]
      /\ users' = Advanced(users, p)
      /\ step = "consume" /\ step' = "send" /\ UNCHANGED <<market, settler>>
  BY DEF consume_next
<1>4. \A i \in DOMAIN k : i \in 1 .. Len(queue)
  <2>1. Len(k) <= Len(queue)
    <3>1. CASE Len(queue) < MAX_EVENTS_PER_TX
      BY <1>1, <3>1 DEF Kept
    <3>2. CASE ~(Len(queue) < MAX_EVENTS_PER_TX)
      <4> DEFINE m == MAX_EVENTS_PER_TX
      <4>1. m \in Nat /\ m >= 2
        BY CrankAssumption
      <4> HIDE DEF m
      <4>2. 1 \in Nat \ {0} /\ m - 1 \in Nat /\ m - 1 <= Len(queue) /\ 1 <= (m - 1) + 1
        BY <1>1, <3>2, <4>1 DEF m
      <4>3. Len(SubSeq(queue, 1, m - 1)) = (m - 1) + 1 - 1
        BY <1>1, <4>2, PartOf
      <4>4. k = SubSeq(queue, 1, m - 1)
        BY <3>2 DEF Kept, m
      <4> QED BY <4>1, <4>2, <4>3, <4>4
    <3> QED BY <3>1, <3>2
  <2> QED BY <1>1, <1>2, <2>1
<1> HIDE DEF p, k
<1>5. /\ to_settle' \in Seq(Accounts)
      /\ \A a \in Accounts : a \in ToSet(to_settle') <=> \E i \in 1 .. Len(p) : p[i].account = a
  BY <1>2, <1>3, AccountsFound
<1>6. users' \in [Accounts -> Nat] /\ \A i \in 1 .. Len(queue) : Earlier(queue, i) \in Nat
  BY <1>1, <1>2, <1>3, AdvancedTyped
<1>7. tx' \in Seq(Line)
  <2>1. ASSUME NEW i \in DOMAIN k PROVE margin_fill_accounts(queue, i) \in Line
    <3>1. queue[i] \in Events /\ Earlier(queue, i) \in Nat
      BY <1>1, <1>4, <1>6
    <3>2. Numbered(queue[i]) => users[queue[i].account] + Earlier(queue, i) \in Nat
      BY <1>1, <3>1 DEF Numbered
    <3> QED BY <3>1, <3>2 DEF margin_fill_accounts, Line
  <2>2. tx' \in [1 .. Len(k) -> Line]
    BY <1>2, <1>3, <2>1
  <2> QED BY <1>2, <2>2
<1>8. TxIsNoted'
  <2>1. DOMAIN tx' = DOMAIN k /\ \A i \in DOMAIN k : tx'[i].event = queue[i]
    BY <1>3 DEF margin_fill_accounts
  <2> QED BY <1>2, <1>5, <2>1 DEF TxIsNoted, TxAccounts
<1>9. QueuesTyped'
  BY <1>2, <1>3, <1>5, <1>6, <1>7 DEF CrankInv, QueuesTyped, market, settler
<1>10. unsettled' \subseteq Held' \cup missed'
  BY <1>3 DEF CrankInv, Held, market, settler
<1> QED BY <1>8, <1>9, <1>10 DEF CrankInv

\* A transaction finds the first events of the queue.
LEMMA FoundFirst ==
  ASSUME events \in Seq(Events), NEW t \in Seq(Line)
  PROVE  /\ Found(t) \in Seq(Events) /\ Len(Found(t)) <= Len(t)
         /\ \A i \in 1 .. Len(Found(t)) : Found(t)[i] = events[i]
         /\ SubSeq(events, Len(Found(t)) + 1, Len(events)) \in Seq(Events)
<1> DEFINE n == IF Len(t) <= Len(events) THEN Len(t) ELSE Len(events)
<1>1. n \in Nat /\ n <= Len(t) /\ n <= Len(events) /\ Len(events) \in Nat
  OBVIOUS
<1>2. Found(t) = SubSeq(events, 1, n)
  BY DEF Found
<1> HIDE DEF n
<1>3. 1 \in Nat \ {0} /\ 1 <= n + 1 /\ n + 1 - 1 = n /\ \A i \in 1 .. n : 1 + i - 1 = i
      /\ n + 1 \in Nat \ {0} /\ n + 1 <= Len(events) + 1
  BY <1>1
<1>4. /\ Found(t) \in Seq(Events) /\ Len(Found(t)) = n + 1 - 1
      /\ \A i \in 1 .. n + 1 - 1 : Found(t)[i] = events[1 + i - 1]
  BY <1>1, <1>2, <1>3, PartOf
<1>5. SubSeq(events, n + 1, Len(events)) \in Seq(Events)
  BY <1>1, <1>3, PartOf
<1>6. Len(Found(t)) = n /\ \A i \in 1 .. n : Found(t)[i] = events[i]
  BY <1>3, <1>4
<1> QED BY <1>1, <1>4, <1>5, <1>6

\* The market consumes events of the accounts the transaction is made for and no others.
LEMMA ConsumedSafely ==
  ASSUME QueuesTyped, NEW t \in Seq(Line), Accepted(t), Consumes(t)
  PROVE  /\ events' \in Seq(Events) /\ seqno' \in [Accounts -> Nat]
         /\ unsettled' = unsettled \cup ToSet(MarginAccountsOf(Found(t)))
         /\ ToSet(MarginAccountsOf(Found(t))) \subseteq TxAccounts(t)
<1> DEFINE f == Found(t)
           m == MarginAccountsOf(f)
<1>1. /\ f \in Seq(Events) /\ Len(f) <= Len(t)
      /\ \A i \in 1 .. Len(f) : f[i] = events[i]
      /\ SubSeq(events, Len(f) + 1, Len(events)) \in Seq(Events)
  BY FoundFirst DEF QueuesTyped
<1>2. /\ seqno' = Advanced(seqno, f) /\ unsettled' = unsettled \cup ToSet(m)
      /\ events' = SubSeq(events, Len(f) + 1, Len(events))
  BY DEF Consumes
<1>3. \A i \in DOMAIN f : t[i].event.account = events[i].account
  BY DEF Accepted
<1> HIDE DEF f
<1>4. DOMAIN f = 1 .. Len(f) /\ \A i \in DOMAIN f : i \in DOMAIN t
  BY <1>1
<1>5. m \in Seq(Accounts)
      /\ \A a \in Accounts : a \in ToSet(m) <=> \E i \in 1 .. Len(f) : f[i].account = a
  BY <1>1, AccountsFound
<1> HIDE DEF m
<1>6. ToSet(m) \subseteq Accounts
  BY <1>5, SetsOfSequences
<1>7. ToSet(m) \subseteq TxAccounts(t)
  BY <1>1, <1>3, <1>4, <1>5, <1>6 DEF TxAccounts
<1>8. seqno' \in [Accounts -> Nat]
  BY <1>1, <1>2, AdvancedTyped DEF QueuesTyped
<1> QED BY <1>1, <1>2, <1>7, <1>8 DEF f, m

LEMMA LandsKeeps == CrankInv /\ Lands => CrankInv'
<1> SUFFICES ASSUME CrankInv, Lands PROVE CrankInv'
  OBVIOUS
<1>1. QueuesTyped /\ tx \in Seq(Line) /\ Accepted(tx) /\ Consumes(tx)
  BY DEF Lands, CrankInv, QueuesTyped
<1>2. /\ events' \in Seq(Events) /\ seqno' \in [Accounts -> Nat]
      /\ unsettled' \subseteq unsettled \cup TxAccounts(tx)
  BY <1>1, ConsumedSafely
<1>3. /\ step = "send" /\ step' = "confirm"
      /\ UNCHANGED <<late, missed, queue, users, tx, to_settle, settler>>
  BY DEF Lands
<1>4. QueuesTyped'
  BY <1>1, <1>2, <1>3 DEF QueuesTyped, settler
<1>5. TxIsNoted'
  BY <1>3 DEF CrankInv, TxIsNoted
<1>6. unsettled' \subseteq Held' \cup missed'
  <2>1. Held' = Held \cup TxAccounts(tx)
    BY <1>3 DEF Held, settler
  <2> QED BY <1>2, <1>3, <2>1 DEF CrankInv
<1> QED BY <1>4, <1>5, <1>6 DEF CrankInv

\* What a late transaction consumes is missed.
LEMMA LateKeeps == CrankInv /\ LandsLate => CrankInv'
<1> SUFFICES ASSUME CrankInv, LandsLate PROVE CrankInv'
  OBVIOUS
<1>1. PICK i \in DOMAIN late :
        /\ Accepted(late[i]) /\ Consumes(late[i])
        /\ missed' = missed \cup ToSet(MarginAccountsOf(Found(late[i])))
        /\ late' = RemoveAt(late, i)
  BY DEF LandsLate
<1>2. UNCHANGED <<consumer, settler>>
  BY DEF LandsLate
<1>3. QueuesTyped /\ late \in Seq(Seq(Line)) /\ late[i] \in Seq(Line)
  BY DEF CrankInv, QueuesTyped
<1>4. /\ events' \in Seq(Events) /\ seqno' \in [Accounts -> Nat]
      /\ unsettled' = unsettled \cup ToSet(MarginAccountsOf(Found(late[i])))
  BY <1>1, <1>3, ConsumedSafely
<1>5. late' \in Seq(Seq(Line))
  <2> DEFINE S == Seq(Line)
  <2>1. late \in Seq(S)
    BY <1>3
  <2> HIDE DEF S
  <2>2. RemoveAt(late, i) \in Seq(S)
    BY <2>1, RemovedFrom
  <2> QED BY <1>1, <2>2 DEF S
<1>6. QueuesTyped'
  BY <1>2, <1>3, <1>4, <1>5 DEF QueuesTyped, consumer, settler
<1>7. TxIsNoted'
  BY <1>2 DEF CrankInv, TxIsNoted, consumer
<1>8. unsettled' \subseteq Held' \cup missed'
  BY <1>1, <1>2, <1>4 DEF CrankInv, Held, consumer, settler
<1> QED BY <1>6, <1>7, <1>8 DEF CrankInv

\* The transaction is given up, or its success heard of: then it hands over its accounts.
LEMMA EndsKeep == CrankInv /\ (Rejected \/ SendFails \/ Confirmed) => CrankInv'
<1> SUFFICES ASSUME CrankInv, Rejected \/ SendFails \/ Confirmed PROVE CrankInv'
  OBVIOUS
<1>1. <<>> \in Seq(Accounts) /\ <<>> \in Seq(Line) /\ DOMAIN <<>> = {}
  OBVIOUS
<1>2. tx' = <<>> /\ to_settle' = <<>> /\ step' = "sync_queues"
  BY DEF Rejected, SendFails, Confirmed
<1>3. TxIsNoted'
  BY <1>1, <1>2 DEF TxIsNoted, TxAccounts
<1>4. CASE Rejected
  <2>1. step = "send" /\ UNCHANGED <<market, queue, users, settler>>
    BY <1>4 DEF Rejected
  <2>2. QueuesTyped'
    BY <1>1, <1>2, <2>1 DEF CrankInv, QueuesTyped, market, settler
  <2>3. unsettled' \subseteq Held' \cup missed'
    BY <1>2, <2>1 DEF CrankInv, Held, market, settler
  <2> QED BY <1>3, <2>2, <2>3 DEF CrankInv
<1>5. CASE SendFails
  <2>1. /\ UNCHANGED <<events, seqno, unsettled, queue, users, settler>>
        /\ step = "send" => late' = Append(late, tx) /\ missed' = missed
        /\ step # "send" => late' = late /\ missed' = missed \cup TxAccounts(tx)
    BY <1>5 DEF SendFails
  <2>2. late' \in Seq(Seq(Line))
    <3>1. late \in Seq(Seq(Line)) /\ tx \in Seq(Line)
      BY DEF CrankInv, QueuesTyped
    <3> DEFINE S == Seq(Line)
    <3>2. late \in Seq(S) /\ tx \in S
      BY <3>1
    <3> HIDE DEF S
    <3>3. Append(late, tx) \in Seq(S)
      BY <3>2, Appended
    <3> QED BY <2>1, <3>1, <3>3 DEF S
  <2>3. QueuesTyped'
    BY <1>1, <1>2, <2>1, <2>2 DEF CrankInv, QueuesTyped, settler
  <2>4. unsettled' \subseteq Held' \cup missed'
    BY <1>2, <2>1 DEF CrankInv, Held, settler
  <2> QED BY <1>3, <2>3, <2>4 DEF CrankInv
<1>6. CASE Confirmed
  <2>1. /\ input_queue' = push_many(input_queue, to_settle) /\ step = "confirm"
        /\ missed' = missed \ ToSet(to_settle)
        /\ UNCHANGED <<events, seqno, unsettled, late, queue, users, retry_queue, chunks>>
    BY <1>6 DEF Confirmed
  <2>2. NoDupes(input_queue') /\ Items(input_queue') = Items(input_queue) \cup ToSet(to_settle)
    <3>1. NoDupes(input_queue) /\ to_settle \in Seq(Accounts)
      BY DEF CrankInv, QueuesTyped
    <3> QED BY <2>1, <3>1, PushedMany
  <2>3. QueuesTyped'
    BY <1>1, <1>2, <2>1, <2>2 DEF CrankInv, QueuesTyped
  <2>4. unsettled' \subseteq Held' \cup missed'
    BY <1>2, <2>1, <2>2 DEF CrankInv, Held, TxIsNoted
  <2> QED BY <1>3, <2>3, <2>4 DEF CrankInv
<1> QED BY <1>4, <1>5, <1>6

LEMMA SpawnKeeps == CrankInv /\ (process_all \/ Spawn) => CrankInv'
  BY DEF process_all, Spawn, market, consumer, CrankInv, QueuesTyped, Held, TxIsNoted

\* A batch takes its items out of the queue and into chunks.
LEMMA BatchKeeps == CrankInv /\ process_batch => CrankInv'
<1> SUFFICES ASSUME CrankInv, process_batch PROVE CrankInv'
  OBVIOUS
<1> DEFINE first == FirstItems(input_queue, batch_size)
<1>1. /\ NoDupes(input_queue) /\ chunks \in Seq(Chunk) /\ batch_size \in Nat
  BY CrankAssumption DEF CrankInv, QueuesTyped
<1>2. /\ chunks' = chunks \o Chunked(first) /\ input_queue' = pop_many(input_queue, batch_size)
      /\ UNCHANGED <<market, consumer, retry_queue>>
  BY DEF process_batch
<1>3. /\ NoDupes(input_queue') /\ first \in Seq(Accounts)
      /\ Items(input_queue) = ToSet(first) \cup Items(input_queue')
  BY <1>1, <1>2, PoppedMany
<1> HIDE DEF first
<1>4. Chunked(first) \in Seq(Chunk) /\ ToSet(first) \subseteq Waiting(Chunked(first))
  BY <1>3, ChunkedWaits
<1>5. chunks' \in Seq(Chunk) /\ Waiting(chunks) \cup Waiting(Chunked(first)) \subseteq Waiting(chunks')
  BY <1>1, <1>2, <1>4, ChunksJoin
<1>6. QueuesTyped'
  BY <1>2, <1>3, <1>5 DEF CrankInv, QueuesTyped, market, consumer
<1>7. unsettled' \subseteq Held' \cup missed'
  <2>1. Held \subseteq Held'
    BY <1>2, <1>3, <1>4, <1>5 DEF Held, market, consumer
  <2> QED BY <1>2, <2>1 DEF CrankInv, market
<1> QED BY <1>2, <1>6, <1>7 DEF CrankInv, TxIsNoted, consumer

\* A chunk lands: what no longer waits is settled.
LEMMA SettleKeeps == CrankInv /\ try_settle => CrankInv'
<1> SUFFICES ASSUME CrankInv, try_settle PROVE CrankInv'
  OBVIOUS
<1>1. PICK i \in DOMAIN chunks :
        /\ ~chunks[i].landed
        /\ chunks' = [chunks EXCEPT ![i].landed = TRUE]
        /\ unsettled' = unsettled \ ToSet(chunks[i].items)
        /\ missed' = missed \ ToSet(chunks[i].items)
  BY DEF try_settle
<1>2. UNCHANGED <<events, seqno, late, consumer, input_queue, retry_queue>>
  BY DEF try_settle
<1>3. chunks \in Seq(Chunk) /\ Len(chunks) \in Nat /\ DOMAIN chunks = 1 .. Len(chunks)
      /\ chunks[i] \in Chunk
  BY DEF CrankInv, QueuesTyped
<1> DEFINE landed == [chunks[i] EXCEPT !.landed = TRUE]
<1>4. chunks' = [chunks EXCEPT ![i] = landed] /\ landed \in Chunk
  BY <1>1, <1>3 DEF Chunk
<1> HIDE DEF landed
<1>5. chunks' \in Seq(Chunk) /\ DOMAIN chunks' = DOMAIN chunks
      /\ \A j \in DOMAIN chunks : j # i => chunks'[j] = chunks[j]
  BY <1>3, <1>4
<1>6. ASSUME NEW x \in Waiting(chunks) PROVE x \in Waiting(chunks') \/ x \in ToSet(chunks[i].items)
  <2>1. PICK j \in DOMAIN chunks : ~chunks[j].landed /\ x \in ToSet(chunks[j].items)
    BY <1>6, WaitingIn
  <2>2. CASE j = i
    BY <2>1, <2>2
  <2>3. CASE j # i
    BY <1>5, <2>1, <2>3, WaitingIn
  <2> QED BY <2>2, <2>3
<1>7. QueuesTyped'
  BY <1>2, <1>5 DEF CrankInv, QueuesTyped, consumer
<1>8. unsettled' \subseteq Held' \cup missed'
  BY <1>1, <1>2, <1>6 DEF CrankInv, Held, consumer
<1> QED BY <1>2, <1>7, <1>8 DEF CrankInv, TxIsNoted, consumer

LEMMA DoneKeeps == CrankInv /\ ChunkDone => CrankInv'
<1> SUFFICES ASSUME CrankInv, ChunkDone PROVE CrankInv'
  OBVIOUS
<1>1. PICK i \in DOMAIN chunks : chunks[i].landed /\ chunks' = RemoveAt(chunks, i)
  BY DEF ChunkDone
<1>2. UNCHANGED <<market, consumer, input_queue, retry_queue>>
  BY DEF ChunkDone
<1>3. chunks \in Seq(Chunk)
  BY DEF CrankInv, QueuesTyped
<1>4. chunks' \in Seq(Chunk) /\ Waiting(chunks) \subseteq Waiting(chunks')
  BY <1>1, <1>3, ChunkRemoved
<1>5. QueuesTyped'
  BY <1>2, <1>4 DEF CrankInv, QueuesTyped, market, consumer
<1>6. unsettled' \subseteq Held' \cup missed'
  BY <1>2, <1>4 DEF CrankInv, Held, market, consumer
<1> QED BY <1>2, <1>5, <1>6 DEF CrankInv, TxIsNoted, consumer

\* A chunk fails: all of it is queued for a retry, whatever of it was settled.
LEMMA FailKeeps == CrankInv /\ ChunkFails => CrankInv'
<1> SUFFICES ASSUME CrankInv, ChunkFails PROVE CrankInv'
  OBVIOUS
<1>1. PICK i \in DOMAIN chunks : \E settled \in SUBSET ToSet(chunks[i].items) :
        /\ ~chunks[i].landed
        /\ unsettled' = unsettled \ settled /\ missed' = missed \ settled
        /\ retry_queue' = push_many(retry_queue, ForRetry(chunks[i].items))
        /\ chunks' = RemoveAt(chunks, i)
  BY DEF ChunkFails
<1>2. UNCHANGED <<events, seqno, late, consumer, input_queue>>
  BY DEF ChunkFails
<1>9. unsettled' \ missed' \subseteq unsettled \ missed
  BY <1>1
<1>3. chunks \in Seq(Chunk) /\ NoDupes(retry_queue) /\ chunks[i].items \in Seq(Accounts)
  <2>1. chunks \in Seq(Chunk) /\ NoDupes(retry_queue)
    BY DEF CrankInv, QueuesTyped
  <2>2. chunks[i] \in Chunk
    BY <2>1
  <2> QED BY <2>1, <2>2 DEF Chunk
<1> DEFINE s == chunks[i].items
<1>4. ForRetry(s) \in Seq(Accounts) /\ ToSet(s) \subseteq ToSet(ForRetry(s))
  BY <1>3, Reversed DEF ForRetry
<1>5. NoDupes(retry_queue') /\ Items(retry_queue') = Items(retry_queue) \cup ToSet(ForRetry(s))
  BY <1>1, <1>3, <1>4, PushedMany
<1>6. chunks' \in Seq(Chunk) /\ Waiting(chunks) \subseteq Waiting(chunks') \cup ToSet(s)
  BY <1>1, <1>3, ChunkRemoved
<1> HIDE DEF s
<1>7. QueuesTyped'
  BY <1>2, <1>5, <1>6 DEF CrankInv, QueuesTyped, consumer
<1>8. unsettled' \subseteq Held' \cup missed'
  BY <1>2, <1>4, <1>5, <1>6, <1>9 DEF CrankInv, Held, consumer
<1> QED BY <1>2, <1>7, <1>8 DEF CrankInv, TxIsNoted, consumer

\* Retries go back to the input.
LEMMA JoinKeeps == CrankInv /\ Join => CrankInv'
<1> SUFFICES ASSUME CrankInv, Join PROVE CrankInv'
  OBVIOUS
<1> DEFINE first == FirstItems(retry_queue, batch_size)
<1>1. NoDupes(input_queue) /\ NoDupes(retry_queue) /\ batch_size \in Nat
  BY CrankAssumption DEF CrankInv, QueuesTyped
<1>2. /\ input_queue' = push_many(input_queue, first)
      /\ retry_queue' = pop_many(retry_queue, batch_size)
      /\ UNCHANGED <<market, consumer, chunks>>
  BY DEF Join
<1>3. /\ NoDupes(retry_queue') /\ first \in Seq(Accounts)
      /\ Items(retry_queue) = ToSet(first) \cup Items(retry_queue')
  BY <1>1, <1>2, PoppedMany
<1> HIDE DEF first
<1>4. NoDupes(input_queue') /\ Items(input_queue') = Items(input_queue) \cup ToSet(first)
  BY <1>1, <1>2, <1>3, PushedMany
<1>5. QueuesTyped'
  BY <1>2, <1>3, <1>4 DEF CrankInv, QueuesTyped, market, consumer
<1>6. unsettled' \subseteq Held' \cup missed'
  BY <1>2, <1>3, <1>4 DEF CrankInv, Held, market, consumer
<1> QED BY <1>2, <1>5, <1>6 DEF CrankInv, TxIsNoted, consumer

-----------------------------------------------------------------------------
(* The theorem *)

\* The invariant holds in every state of the crank.
THEOREM CrankInvAlways == Spec => []CrankInv
<1>1. Init => CrankInv
  BY CrankInit
<1>2. CrankInv /\ [Next]_vars => CrankInv'
  <2> SUFFICES ASSUME CrankInv, [Next]_vars PROVE CrankInv'
    OBVIOUS
  <2>1. CASE Next
    BY <2>1, MarketKeeps, ConsumeKeeps, LandsKeeps, LateKeeps, EndsKeep, SpawnKeeps, BatchKeeps,
       SettleKeeps, DoneKeeps, FailKeeps, JoinKeeps DEF Next, ConsumerNext, SettlerNext
  <2>2. CASE UNCHANGED vars
    BY <2>2 DEF vars, market, consumer, settler, CrankInv, QueuesTyped, TxIsNoted, Held
  <2> QED BY <2>1, <2>2
<1> QED BY <1>1, <1>2, PTL DEF Spec

\* An account that has to be settled is in a queue, in a call under way or noted by the
\* consumer at any time (event_consumer.rs:412-415, queue_processor.rs:134-138, 171-177),
\* unless the transaction that consumed its event was reported as failed: then it is among
\* the missed ones, until it is settled or consumed again by a confirmed transaction.
THEOREM PendingAlwaysTracked == Spec => []PendingIsTracked
<1>1. CrankInv => PendingIsTracked
  <2> SUFFICES ASSUME CrankInv PROVE PendingIsTracked
    OBVIOUS
  <2>1. Waiting(chunks) \subseteq InFlight
    BY DEF Waiting, InFlight
  <2>2. Held \subseteq Tracked
    BY <2>1 DEF Held, Tracked, Items, CrankInv, TxIsNoted
  <2> QED BY <2>2 DEF CrankInv, PendingIsTracked
<1> QED BY <1>1, CrankInvAlways, PTL

-----------------------------------------------------------------------------
(* What a margin account has registered, along a plan of the client *)

Positions == PoolPositions \cup Deposits \cup TermPositions
Price == [funded : BOOLEAN, fresh : BOOLEAN]
Helds == UNION {[D -> Price] : D \in SUBSET Positions}

Signed == {"anyone", "authority", "liquidate_begin", "liquidate_end", "adapter_invoke", "liquidator_invoke"}

\* the client registers no position of a market, and none but the authority asks to close one
Instructions ==
  {ix \in [signed_by : Signed, needs : SUBSET Positions, adds : SUBSET Positions, drops : SUBSET Positions,
           prices : SUBSET Positions, moves : SUBSET Positions] :
     /\ ix.adds \cap TermPositions = {}
     /\ ix.drops \cap TermPositions # {} => ix.signed_by = "authority"}

\* an instruction finds the positions it needs, and not those it registers
Ready(R, ix) == ix.needs \subseteq R /\ ix.adds \cap R = {}
After(R, ix) == (R \cup ix.adds) \ ix.drops

\* s leads from the positions R to the positions T, by steps in Q
Chain(Q, X, R, s, T) ==
  /\ s \in Seq(X)
  /\ \E g \in [0 .. Len(s) -> SUBSET Positions] :
       /\ g[0] = R /\ g[Len(s)] = T
       /\ \A k \in 1 .. Len(s) : <<g[k - 1], s[k], g[k]>> \in Q

IxSteps == {q \in (SUBSET Positions) \X Instructions \X (SUBSET Positions) : Ready(q[1], q[2]) /\ q[3] = After(q[1], q[2])}
Leads(R, txn, T) == Chain(IxSteps, Instructions, R, txn, T)

TxSteps == {q \in (SUBSET Positions) \X Seq(Instructions) \X (SUBSET Positions) : Leads(q[1], q[2], q[3])}
SetUp(R, plan_) == \E T \in SUBSET Positions : Chain(TxSteps, Seq(Instructions), R, plan_, T)

\* An empty sequence leads nowhere.
LEMMA ChainEmpty ==
  ASSUME NEW Q, NEW X, NEW R \in SUBSET Positions
  PROVE  Chain(Q, X, R, <<>>, R)
<1> DEFINE g == [k \in 0 .. 0 |-> R]
<1>1. Len(<<>>) = 0 /\ <<>> \in Seq(X) /\ 1 .. 0 = {} /\ 0 \in 0 .. 0
  OBVIOUS
<1>2. g \in [0 .. 0 -> SUBSET Positions] /\ g[0] = R
  OBVIOUS
<1> HIDE DEF g
<1> QED BY <1>1, <1>2 DEF Chain

\* A single step
LEMMA ChainOne ==
  ASSUME NEW Q, NEW X, NEW x \in X, NEW R \in SUBSET Positions, NEW T \in SUBSET Positions, <<R, x, T>> \in Q
  PROVE  Chain(Q, X, R, <<x>>, T)
<1> DEFINE g == [k \in 0 .. 1 |-> IF k = 0 THEN R ELSE T]
           s == <<x>>
<1>1. Len(s) = 1 /\ s \in Seq(X) /\ s[1] = x
  OBVIOUS
<1>2. g \in [0 .. 1 -> SUBSET Positions] /\ g[0] = R /\ g[1] = T
  OBVIOUS
<1>3. \A k \in 1 .. 1 : k = 1 /\ k - 1 = 0
  OBVIOUS
<1> HIDE DEF g, s
<1>4. Chain(Q, X, R, s, T)
  BY <1>1, <1>2, <1>3 DEF Chain
<1> QED BY <1>4 DEF s

\* Steps that leave the positions as they are
LEMMA ChainSame ==
  ASSUME NEW Q, NEW X, NEW R \in SUBSET Positions, NEW s \in Seq(X), \A k \in 1 .. Len(s) : <<R, s[k], R>> \in Q
  PROVE  Chain(Q, X, R, s, R)
<1> DEFINE n == Len(s)
           g == [k \in 0 .. n |-> R]
<1>1. n \in Nat
  OBVIOUS
<1>2. \A k \in 1 .. n : k \in 0 .. n /\ k - 1 \in 0 .. n
  BY <1>1
<1>3. g \in [0 .. n -> SUBSET Positions] /\ g[0] = R /\ g[n] = R
  BY <1>1
<1>4. \A k \in 1 .. n : <<g[k - 1], s[k], g[k]>> \in Q
  BY <1>2
<1> HIDE DEF g
<1> QED BY <1>3, <1>4 DEF Chain

\* One sequence after the other
LEMMA ChainJoin ==
  ASSUME NEW Q, NEW X, NEW R, NEW S, NEW T, NEW s, NEW t, Chain(Q, X, R, s, S), Chain(Q, X, S, t, T)
  PROVE  Chain(Q, X, R, s \o t, T)
<1> DEFINE m == Len(s)
           n == Len(t)
           r == s \o t
<1>1. s \in Seq(X) /\ t \in Seq(X)
  BY DEF Chain
<1>2. /\ m \in Nat /\ n \in Nat /\ r \in Seq(X) /\ Len(r) = m + n
      /\ \A k \in 1 .. m : r[k] = s[k]
      /\ \A k \in 1 .. n : r[m + k] = t[k]
  BY <1>1
<1>3. PICK g \in [0 .. m -> SUBSET Positions] :
        g[0] = R /\ g[m] = S /\ \A k \in 1 .. m : <<g[k - 1], s[k], g[k]>> \in Q
  BY DEF Chain
<1>4. PICK h \in [0 .. n -> SUBSET Positions] :
        h[0] = S /\ h[n] = T /\ \A k \in 1 .. n : <<h[k - 1], t[k], h[k]>> \in Q
  BY DEF Chain
<1> HIDE DEF m, n, r
<1> DEFINE f == [k \in 0 .. m + n |-> IF k <= m THEN g[k] ELSE h[k - m]]
<1>5. f \in [0 .. m + n -> SUBSET Positions]
  <2>1. \A k \in 0 .. m + n : (k <= m => k \in 0 .. m) /\ (~(k <= m) => k - m \in 0 .. n)
    BY <1>2
  <2> QED BY <2>1
<1>6. \A k \in 0 .. m : f[k] = g[k]
  <2>1. \A k \in 0 .. m : k \in 0 .. m + n /\ k <= m
    BY <1>2
  <2> QED BY <2>1
<1>7. ASSUME NEW k \in 0 .. n PROVE f[m + k] = h[k]
  <2>1. m + k \in 0 .. m + n /\ (m + k) - m = k
    BY <1>2
  <2>2. CASE k = 0
    <3>1. m + k = m /\ m \in 0 .. m
      BY <1>2, <2>2
    <3> QED BY <1>3, <1>4, <1>6, <2>2, <3>1
  <2>3. CASE k # 0
    <3>1. ~(m + k <= m)
      BY <1>2, <2>3
    <3> QED BY <2>1, <3>1
  <2> QED BY <2>2, <2>3
<1> HIDE DEF f
<1>8. f[0] = R /\ f[m + n] = T
  <2>1. 0 \in 0 .. m /\ n \in 0 .. n
    BY <1>2
  <2> QED BY <1>3, <1>4, <1>6, <1>7, <2>1
<1>9. ASSUME NEW k \in 1 .. m + n PROVE <<f[k - 1], r[k], f[k]>> \in Q
  <2>1. CASE k <= m
    <3>1. k \in 1 .. m /\ k \in 0 .. m /\ k - 1 \in 0 .. m
      BY <1>2, <2>1
    <3> QED BY <1>2, <1>3, <1>6, <3>1
  <2>2. CASE ~(k <= m)
    <3> DEFINE j == k - m
    <3>1. j \in 1 .. n /\ j \in 0 .. n /\ j - 1 \in 0 .. n /\ k = m + j /\ k - 1 = m + (j - 1)
      BY <1>2, <2>2
    <3> HIDE DEF j
    <3>2. f[k] = h[j] /\ f[k - 1] = h[j - 1] /\ r[k] = t[j]
      BY <1>2, <1>7, <3>1
    <3> QED BY <1>4, <3>1, <3>2
  <2> QED BY <2>1, <2>2
<1>10. Chain(Q, X, R, r, T)
  BY <1>2, <1>5, <1>8, <1>9 DEF Chain
<1> QED BY <1>10 DEF r

\* A sequence without its first element
LEMMA WithoutFirst ==
  ASSUME NEW X, NEW s \in Seq(X), s # <<>>
  PROVE  /\ Len(s) \in Nat /\ Len(s) >= 1 /\ 1 \in DOMAIN s /\ s[1] \in X
         /\ RemoveAt(s, 1) \in Seq(X) /\ Len(RemoveAt(s, 1)) = Len(s) - 1
         /\ \A k \in 1 .. Len(s) - 1 : RemoveAt(s, 1)[k] = s[k + 1]
<1> DEFINE n == Len(s)
           r == RemoveAt(s, 1)
           u == SubSeq(s, 2, n)
<1>1. n \in Nat /\ n >= 1 /\ 1 \in DOMAIN s /\ s[1] \in X
  OBVIOUS
<1>2. u \in Seq(X) /\ Len(u) = n - 1 /\ \A k \in 1 .. n - 1 : u[k] = s[k + 1]
  <2>1. 2 \in Nat \ {0} /\ n \in Nat /\ n <= Len(s) /\ 2 <= n + 1 /\ n + 1 - 2 = n - 1
    BY <1>1
  <2>2. \A k \in 1 .. n - 1 : 2 + k - 1 = k + 1
    BY <1>1
  <2> QED BY <2>1, <2>2, PartOf
<1>3. SubSeq(s, 1, 1 - 1) = <<>> /\ 1 + 1 = 2
  OBVIOUS
<1>4. r = SubSeq(s, 1, 1 - 1) \o SubSeq(s, 1 + 1, n)
  BY DEF RemoveAt
<1>5. r = <<>> \o u
  BY <1>3, <1>4
<1> HIDE DEF u, r
<1>6. <<>> \o u = u
  BY <1>2
<1> QED BY <1>1, <1>2, <1>5, <1>6 DEF r

\* The first step, and the rest
LEMMA ChainRest ==
  ASSUME NEW Q, NEW X, NEW R, NEW T, NEW s, Chain(Q, X, R, s, T), s # <<>>
  PROVE  /\ s[1] \in X /\ 1 \in DOMAIN s
         /\ \E S \in SUBSET Positions : <<R, s[1], S>> \in Q /\ Chain(Q, X, S, RemoveAt(s, 1), T)
<1> DEFINE n == Len(s)
           r == RemoveAt(s, 1)
<1>1. s \in Seq(X)
  BY DEF Chain
<1>2. n \in Nat /\ n >= 1 /\ 1 \in DOMAIN s /\ s[1] \in X
  BY <1>1, WithoutFirst
<1>3. r \in Seq(X) /\ Len(r) = n - 1 /\ \A k \in 1 .. n - 1 : r[k] = s[k + 1]
  BY <1>1, WithoutFirst
<1>4. PICK g \in [0 .. n -> SUBSET Positions] :
        g[0] = R /\ g[n] = T /\ \A k \in 1 .. n : <<g[k - 1], s[k], g[k]>> \in Q
  BY DEF Chain
<1> HIDE DEF n, r
<1> DEFINE f == [k \in 0 .. n - 1 |-> g[k + 1]]
<1>5. f \in [0 .. n - 1 -> SUBSET Positions] /\ f[0] = g[1] /\ f[n - 1] = g[n]
  <2>1. \A k \in 0 .. n - 1 : k + 1 \in 0 .. n
    BY <1>2
  <2>2. 0 \in 0 .. n - 1 /\ n - 1 \in 0 .. n - 1 /\ (n - 1) + 1 = n /\ 0 + 1 = 1
    BY <1>2
  <2> QED BY <2>1, <2>2
<1>6. \A k \in 1 .. n - 1 : <<f[k - 1], r[k], f[k]>> \in Q
  <2> SUFFICES ASSUME NEW k \in 1 .. n - 1 PROVE <<f[k - 1], r[k], f[k]>> \in Q
    OBVIOUS
  <2>1. k \in 0 .. n - 1 /\ k - 1 \in 0 .. n - 1 /\ (k - 1) + 1 = k /\ k + 1 \in 1 .. n /\ (k + 1) - 1 = k
    BY <1>2
  <2>2. f[k] = g[k + 1] /\ f[k - 1] = g[k] /\ r[k] = s[k + 1]
    BY <1>3, <2>1
  <2> QED BY <1>4, <2>1, <2>2
<1> HIDE DEF f
<1>7. Chain(Q, X, g[1], r, T)
  BY <1>3, <1>4, <1>5, <1>6 DEF Chain
<1>8. 1 \in 1 .. n /\ 1 - 1 = 0 /\ 1 \in 0 .. n
  BY <1>2
<1>9. <<R, s[1], g[1]>> \in Q /\ g[1] \in SUBSET Positions
  BY <1>4, <1>8
<1> QED BY <1>2, <1>7, <1>9 DEF r

-----------------------------------------------------------------------------
(* What one instruction does to the positions *)

Shape(ix, needs, adds, drops) == ix \in Instructions /\ ix.needs = needs /\ ix.adds = adds /\ ix.drops = drops

LEMMA PositionSets ==
  /\ \A p \in ClientPools : note(p) \in Positions /\ loan(p) \in Positions /\ note(p) \in Notes
  /\ \A t \in ClientTokens : token(t) \in Positions /\ token(t) \in Deposits
  /\ \A m \in ClientMarkets : claims(m) \in Positions /\ collateral(m) \in Positions
  /\ (PoolPositions \cup Deposits) \cap TermPositions = {}
  /\ PoolPositions \cup Deposits \subseteq Positions /\ Notes \subseteq PoolPositions
<1>1. \A pos \in PoolPositions : pos[1] \in {"note", "loan"}
  BY DEF PoolPositions, Notes, note, loan
<1>2. \A pos \in Deposits : pos[1] = "token"
  BY DEF Deposits, token
<1>3. \A pos \in TermPositions : pos[1] \in {"claims", "collateral"}
  BY DEF TermPositions, claims, collateral
<1>4. (PoolPositions \cup Deposits) \cap TermPositions = {}
  BY <1>1, <1>2, <1>3
<1> QED BY <1>4 DEF Positions, PoolPositions, Notes, TermPositions, Deposits

\* the instructions of the margin program itself
LEMMA MarginShapes ==
  /\ \A pos \in PoolPositions \cup Deposits : Shape(register_ix(pos), {}, {pos}, {})
  /\ \A pos \in Positions : Shape(close_ix(pos), {pos}, {}, {pos})
  /\ \A t \in ClientTokens : /\ Shape(transfer_ix(t), {token(t)}, {}, {})
                             /\ Shape(refresh_deposit_ix(t), {token(t)}, {}, {})
  /\ Shape(liquidate_begin_ix, {}, {}, {})
  /\ Shape(liquidate_end_ix, {}, {}, {})
<1>1. ASSUME NEW pos \in PoolPositions \cup Deposits PROVE Shape(register_ix(pos), {}, {pos}, {})
  <2>1. {pos} \in SUBSET Positions /\ {pos} \cap TermPositions = {}
    BY PositionSets
  <2> QED BY <2>1 DEF Shape, Instructions, Signed, Instruction, register_ix
<1>4. ASSUME NEW pos \in Positions PROVE Shape(close_ix(pos), {pos}, {}, {pos})
  BY DEF Shape, Instructions, Signed, Instruction, close_ix
<1>2. ASSUME NEW t \in ClientTokens
      PROVE  /\ Shape(transfer_ix(t), {token(t)}, {}, {})
             /\ Shape(refresh_deposit_ix(t), {token(t)}, {}, {})
  <2>1. {token(t)} \in SUBSET Positions
    BY PositionSets
  <2> QED BY <2>1 DEF Shape, Instructions, Signed, Instruction, transfer_ix, refresh_deposit_ix
<1>3. Shape(liquidate_begin_ix, {}, {}, {}) /\ Shape(liquidate_end_ix, {}, {}, {})
  BY DEF Shape, Instructions, Signed, Instruction, liquidate_begin_ix, liquidate_end_ix
<1> QED BY <1>1, <1>2, <1>3, <1>4

\* the calls of adapters, as they are wrapped
LEMMA CallShapes ==
  ASSUME NEW needs \in SUBSET Positions
  PROVE  /\ Shape(invoke_ix(Called("account", needs)), needs, {}, {})
         /\ Shape(invoke_ix(Called("anyone", needs)), needs, {}, {})
         /\ Shape(adapter_invoke_ix(Called("account", needs)), needs, {}, {})
<1>1. Shape(invoke_ix(Called("account", needs)), needs, {}, {})
  BY DEF Shape, Instructions, Signed, Instruction, Called, invoke_ix
<1>2. Shape(invoke_ix(Called("anyone", needs)), needs, {}, {})
  BY DEF Shape, Instructions, Signed, Instruction, Called, invoke_ix
<1>3. Shape(adapter_invoke_ix(Called("account", needs)), needs, {}, {})
  BY DEF Shape, Instructions, Signed, Instruction, Called, adapter_invoke_ix
<1> QED BY <1>1, <1>2, <1>3

\* the loans and the refreshers
LEMMA PoolShapes ==
  ASSUME NEW p \in ClientPools
  PROVE  /\ Shape(adapter_invoke_ix(register_loan_ix(p)), {}, {loan(p)}, {})
         /\ Shape(adapter_invoke_ix(close_loan_ix(p)), {loan(p)}, {}, {loan(p)})
         /\ Shape(margin_refresh_position_ix(p), {}, {}, {})
         /\ Shape(invoke_ix(margin_refresh_position_ix(p)), {}, {}, {})
<1>1. /\ {loan(p)} \in SUBSET Positions /\ {note(p), loan(p)} \in SUBSET Positions
      /\ {loan(p)} \cap TermPositions = {}
  BY PositionSets DEF PoolPositions
<1>2. Shape(adapter_invoke_ix(register_loan_ix(p)), {}, {loan(p)}, {})
  BY <1>1 DEF Shape, Instructions, Signed, Instruction, adapter_invoke_ix, register_loan_ix
<1>3. Shape(adapter_invoke_ix(close_loan_ix(p)), {loan(p)}, {}, {loan(p)})
  BY <1>1 DEF Shape, Instructions, Signed, Instruction, adapter_invoke_ix, close_loan_ix
<1>4. Shape(margin_refresh_position_ix(p), {}, {}, {}) /\ margin_refresh_position_ix(p).signed_by = "anyone"
  BY <1>1 DEF Shape, Instructions, Signed, Instruction, margin_refresh_position_ix
<1>5. invoke_ix(margin_refresh_position_ix(p)) = margin_refresh_position_ix(p)
  BY <1>4 DEF invoke_ix
<1> QED BY <1>2, <1>3, <1>4, <1>5

\* the refreshers of a market
LEMMA TermShapes ==
  ASSUME NEW m \in ClientMarkets
  PROVE  Shape(refresh_position_ix(m), {claims(m)}, {}, {})
<1>1. {claims(m)} \in SUBSET Positions /\ {claims(m), collateral(m)} \in SUBSET Positions
  BY PositionSets
<1> QED BY <1>1 DEF Shape, Instructions, Signed, Instruction, refresh_position_ix

\* A single instruction of a known shape
LEMMA OneLeads ==
  ASSUME NEW R \in SUBSET Positions, NEW needs, NEW adds, NEW drops, NEW ix, Shape(ix, needs, adds, drops),
         needs \subseteq R, adds \cap R = {}
  PROVE  /\ (R \cup adds) \ drops \in SUBSET Positions
         /\ <<R, ix, (R \cup adds) \ drops>> \in IxSteps
         /\ Leads(R, <<ix>>, (R \cup adds) \ drops)
<1> DEFINE T == (R \cup adds) \ drops
<1>1. ix \in Instructions /\ adds \in SUBSET Positions
  BY DEF Shape, Instructions
<1>2. T \in SUBSET Positions
  BY <1>1
<1>5. Ready(R, ix) /\ T = After(R, ix)
  BY DEF Ready, After, Shape
<1> HIDE DEF T
<1>3. <<R, ix, T>> \in IxSteps
  <2> DEFINE q == <<R, ix, T>>
  <2>1. q \in (SUBSET Positions) \X Instructions \X (SUBSET Positions) /\ q[1] = R /\ q[2] = ix /\ q[3] = T
    BY <1>1, <1>2
  <2> HIDE DEF q
  <2>2. q \in IxSteps
    BY <1>5, <2>1 DEF IxSteps
  <2> QED BY <2>2 DEF q
<1>4. Leads(R, <<ix>>, T)
  BY <1>1, <1>2, <1>3, ChainOne DEF Leads
<1> QED BY <1>2, <1>3, <1>4 DEF T

-----------------------------------------------------------------------------
(* The execution of a transaction *)

Endings == {"landed", "stale", "unhealthy", "healthy", "excessive loss", "unauthorized", "unregistered",
            "duplicate", "full", "not closable"}
Results == [held : Helds, end : Endings]

\* An instruction changes the set of positions as it says, or nothing.
LEMMA OneEnds ==
  ASSUME NEW a \in Helds, NEW ix \in Instructions, NEW r \in Ends(a, ix)
  PROVE  /\ r \in Results /\ DOMAIN a \in SUBSET Positions
         /\ r.end = "landed" => DOMAIN r.held = After(DOMAIN a, ix)
         /\ DOMAIN r.held \cap TermPositions = DOMAIN a \cap TermPositions
         /\ Ready(DOMAIN a, ix) => r.end \notin {"unregistered", "duplicate"}
<1>1. DOMAIN a \in SUBSET Positions /\ a \in [DOMAIN a -> Price]
  BY DEF Helds
<1>2. CASE Refused(a, ix) # "no"
  <2>1. r = [held |-> a, end |-> Refused(a, ix)]
    BY <1>2 DEF Ends
  <2>2. Refused(a, ix) \in {"unauthorized", "unregistered", "duplicate", "full", "not closable", "no"}
    BY DEF Refused
  <2>3. Ready(DOMAIN a, ix) => Refused(a, ix) \notin {"unregistered", "duplicate"}
    BY DEF Refused, Ready
  <2>4. r.held = a /\ r.end = Refused(a, ix) /\ r.end # "landed"
    BY <1>2, <2>1, <2>2
  <2>5. r \in Results
    BY <1>2, <2>1, <2>2 DEF Results, Endings
  <2> QED BY <1>1, <2>3, <2>4, <2>5
<1>3. CASE Refused(a, ix) = "no"
  <2>1. PICK after \in Moved(a, ix) :
          \E e \in IF ix.signed_by \in {"anyone", "authority", "liquidate_end"} THEN {"landed"}
                   ELSE ValuationEnds(after, ix.signed_by) : r = [held |-> after, end |-> e]
    BY <1>3 DEF Ends
  <2> DEFINE e == r.end
  <2>10. /\ e \in IF ix.signed_by \in {"anyone", "authority", "liquidate_end"} THEN {"landed"}
                  ELSE ValuationEnds(after, ix.signed_by)
         /\ r = [held |-> after, end |-> e] /\ r.held = after
    BY <2>1
  <2> HIDE DEF e
  <2>2. e \in {"landed", "stale", "unhealthy", "healthy", "excessive loss"}
    <3>1. ix.signed_by \in Signed
      BY DEF Instructions
    <3>2. CASE ix.signed_by \in {"anyone", "authority", "liquidate_end"}
      BY <2>10, <3>2
    <3>3. CASE ix.signed_by = "adapter_invoke"
      BY <2>10, <3>3 DEF ValuationEnds
    <3>4. CASE ix.signed_by = "liquidate_begin"
      BY <2>10, <3>4 DEF ValuationEnds
    <3>5. CASE ix.signed_by = "liquidator_invoke"
      BY <2>10, <3>5 DEF ValuationEnds
    <3> QED BY <3>1, <3>2, <3>3, <3>4, <3>5 DEF Signed
  <2>3. PICK funded \in SUBSET ix.moves :
          after = [pos \in (DOMAIN a \cup ix.adds) \ ix.drops |->
                     IF pos \notin DOMAIN a THEN Unpriced
                     ELSE [funded |-> IF pos \in ix.moves THEN pos \in funded ELSE a[pos].funded,
                           fresh |-> a[pos].fresh \/ pos \in ix.prices]]
    BY DEF Moved
  <2> DEFINE D == After(DOMAIN a, ix)
             value(pos) == IF pos \notin DOMAIN a THEN Unpriced
                     ELSE [funded |-> IF pos \in ix.moves THEN pos \in funded ELSE a[pos].funded,
                           fresh |-> a[pos].fresh \/ pos \in ix.prices]
  <2>4. \A pos \in D : value(pos) \in Price
    <3> SUFFICES ASSUME NEW pos \in D PROVE value(pos) \in Price
      OBVIOUS
    <3>1. CASE pos \notin DOMAIN a
      BY <3>1 DEF Price, Unpriced
    <3>2. CASE pos \in DOMAIN a
      <4>1. a[pos] \in Price
        BY <1>1, <3>2
      <4>2. a[pos].funded \in BOOLEAN /\ a[pos].fresh \in BOOLEAN
        BY <4>1 DEF Price
      <4> DEFINE x == IF pos \in ix.moves THEN pos \in funded ELSE a[pos].funded
                 y == a[pos].fresh \/ pos \in ix.prices
      <4>3. x \in BOOLEAN /\ y \in BOOLEAN
        <5>1. \A b \in BOOLEAN, c \in BOOLEAN : (b \/ c) \in BOOLEAN
          OBVIOUS
        <5>4. (pos \in funded) \in BOOLEAN /\ (pos \in ix.prices) \in BOOLEAN
          OBVIOUS
        <5>5. y \in BOOLEAN
          BY <4>2, <5>1, <5>4
        <5>2. CASE pos \in ix.moves
          BY <5>4, <5>2, <5>5
        <5>3. CASE pos \notin ix.moves
          BY <4>2, <5>5, <5>3
        <5> QED BY <5>2, <5>3
      <4>4. value(pos) = [funded |-> x, fresh |-> y]
        BY <3>2
      <4> HIDE DEF x, y, value
      <4> QED BY <4>3, <4>4 DEF Price
    <3> QED BY <3>1, <3>2
  <2>5. after = [pos \in D |-> value(pos)]
    BY <2>3 DEF After
  <2>6. D \in SUBSET Positions
    BY <1>1 DEF After, Instructions
  <2> HIDE DEF D, value
  <2>7. after \in [D -> Price] /\ DOMAIN after = D
    BY <2>4, <2>5
  <2>8. after \in Helds
    BY <2>6, <2>7 DEF Helds
  <2>9. r \in Results
    BY <2>10, <2>2, <2>8 DEF Results, Endings
  <2>11. ix.drops \cap TermPositions = {} /\ ix.adds \cap TermPositions = {}
    BY <1>3 DEF Refused, AdapterOnly, Instructions
  <2>12. DOMAIN r.held \cap TermPositions = DOMAIN a \cap TermPositions
    BY <2>7, <2>10, <2>11 DEF D, After
  <2> QED BY <1>1, <2>10, <2>12, <2>2, <2>7, <2>9 DEF D, e
<1> QED BY <1>2, <1>3

\* One more instruction
Continued(S, ix) == UNION {IF s.end = "landed" THEN Ends(s.held, ix) ELSE {s} : s \in S}

Runs(g, a, txn) ==
  g = [k \in 0 .. Len(txn) |->
         IF k = 0 THEN {[held |-> a, end |-> "landed"]}
         ELSE UNION {IF s.end = "landed" THEN Ends(s.held, txn[k]) ELSE {s} : s \in g[k - 1]}]

\* A transaction runs instruction by instruction.
LEMMA ExecutedSteps ==
  ASSUME NEW txn \in Seq(Instructions), held \in Helds
  PROVE  \E h : /\ h[0] = {[held |-> held, end |-> "landed"]}
                /\ \A k \in 1 .. Len(txn) : h[k] = Continued(h[k - 1], txn[k])
                /\ Executed(txn) = {IF r.end = "landed" THEN r ELSE [r EXCEPT !.held = held] : r \in h[Len(txn)]}
<1> DEFINE V == SUBSET Results
           n == Len(txn)
           x == {[held |-> held, end |-> "landed"]}
           move(k) == [S \in V |-> IF k \in 1 .. n THEN Continued(S, txn[k]) ELSE S]
           z == [k \in Nat |-> move(k)]
<1>1. n \in Nat /\ x \in V
  BY DEF Results, Endings
<1>2. \A k \in 1 .. n : \A S \in V : Continued(S, txn[k]) \in V
  <2> SUFFICES ASSUME NEW k \in 1 .. n, NEW S \in V, NEW r \in Continued(S, txn[k]) PROVE r \in Results
    OBVIOUS
  <2>1. PICK s \in S : r \in IF s.end = "landed" THEN Ends(s.held, txn[k]) ELSE {s}
    BY DEF Continued
  <2>2. s \in Results /\ s.held \in Helds /\ txn[k] \in Instructions
    BY DEF Results
  <2>3. CASE s.end = "landed"
    BY <2>1, <2>2, <2>3, OneEnds
  <2>4. CASE s.end # "landed"
    BY <2>1, <2>2, <2>4
  <2> QED BY <2>3, <2>4
<1> HIDE DEF V, n, x
<1>3. z \in [Nat -> [V -> V]]
  BY <1>2
<1>4. PICK g : ByRecursion(g, V, 0, n, x, z)
  <2> HIDE DEF z
  <2>1. 0 <= n /\ 0 \in Nat
    BY <1>1
  <2> QED BY <1>1, <1>3, <2>1, Recursion
<1>5. g \in [0 .. n -> V] /\ g[0] = x
  BY <1>4 DEF ByRecursion
<1>6. ASSUME NEW k \in 1 .. n PROVE g[k] = Continued(g[k - 1], txn[k])
  <2>1. k \in 0 + 1 .. n /\ k \in Nat /\ k - 1 \in 0 .. n
    BY <1>1
  <2>2. g[k] = z[k][g[k - 1]] /\ g[k - 1] \in V
    BY <1>4, <2>1 DEF ByRecursion
  <2>3. z[k] = move(k)
    BY <2>1
  <2> HIDE DEF z
  <2> QED BY <2>2, <2>3
<1>7. Runs(g, held, txn)
  <2>1. \A k \in 0 .. n : k # 0 => k \in 1 .. n
    BY <1>1
  <2>2. \A k \in 0 .. n : g[k] = IF k = 0 THEN x ELSE Continued(g[k - 1], txn[k])
    BY <1>5, <1>6, <2>1
  <2>3. g = [k \in 0 .. n |-> g[k]]
    BY <1>5
  <2> QED BY <2>2, <2>3 DEF Runs, Continued, n, x
<1> DEFINE h == CHOOSE f : Runs(f, held, txn)
<1>8. Runs(h, held, txn)
  BY <1>7
<1>9. Executed(txn) = {IF r.end = "landed" THEN r ELSE [r EXCEPT !.held = held] : r \in h[n]}
  BY DEF Executed, Runs, n
<1> HIDE DEF h
<1>10. h[0] = x /\ \A k \in 1 .. n : h[k] = Continued(h[k - 1], txn[k])
  <2>1. \A k \in 0 .. n : h[k] = IF k = 0 THEN x ELSE Continued(h[k - 1], txn[k])
    BY <1>8 DEF Runs, Continued, n, x
  <2>2. 0 \in 0 .. n /\ \A k \in 1 .. n : k \in 0 .. n /\ k # 0
    BY <1>1
  <2> QED BY <2>1, <2>2
<1> QED BY <1>9, <1>10 DEF n, x

\* Where its instructions lead, a transaction that lands ends; none of them misses a
\* position, or finds one it registers.
LEMMA ExecutedEnds ==
  ASSUME NEW txn \in Seq(Instructions), held \in Helds, NEW r \in Executed(txn)
  PROVE  /\ r \in Results
         /\ r.end # "landed" => r.held = held
         /\ DOMAIN r.held \cap TermPositions = Registered \cap TermPositions
         /\ \A T : Leads(Registered, txn, T) => /\ r.end = "landed" => DOMAIN r.held = T
                                               /\ r.end \notin {"unregistered", "duplicate"}
<1> DEFINE n == Len(txn)
<1>1. n \in Nat /\ n \in 0 .. n /\ \A k \in 1 .. n : txn[k] \in Instructions
  OBVIOUS
<1>2. PICK h : /\ h[0] = {[held |-> held, end |-> "landed"]}
               /\ \A k \in 1 .. n : h[k] = Continued(h[k - 1], txn[k])
               /\ Executed(txn) = {IF q.end = "landed" THEN q ELSE [q EXCEPT !.held = held] : q \in h[n]}
  BY ExecutedSteps
<1>3. PICK q \in h[n] : r = IF q.end = "landed" THEN q ELSE [q EXCEPT !.held = held]
  BY <1>2
<1> HIDE DEF n
<1> DEFINE Same == {q_ \in Results : DOMAIN q_.held \cap TermPositions = Registered \cap TermPositions}
<1>4. \A k \in 0 .. n : h[k] \in SUBSET Same
  <2> DEFINE V == SUBSET Same
  <2>1. h[0] \in V
    BY <1>2 DEF Results, Endings, Registered
  <2>2. ASSUME NEW k \in 1 .. n, h[k - 1] \in V PROVE h[k] \in V
    <3> SUFFICES ASSUME NEW y \in h[k] PROVE y \in Same
      OBVIOUS
    <3>1. PICK s \in h[k - 1] : y \in IF s.end = "landed" THEN Ends(s.held, txn[k]) ELSE {s}
      BY <1>2 DEF Continued
    <3>2. s \in Results /\ s.held \in Helds
      BY <2>2 DEF Results
    <3>3. s \in Same
      BY <2>2, <3>1
    <3>4. CASE s.end = "landed"
      <4>1. /\ y \in Results
            /\ DOMAIN y.held \cap TermPositions = DOMAIN s.held \cap TermPositions
        BY <1>1, <3>1, <3>2, <3>4, OneEnds
      <4> QED BY <3>3, <4>1
    <3>5. CASE s.end # "landed"
      BY <3>1, <3>3, <3>5
    <3> QED BY <3>4, <3>5
  <2> HIDE DEF V
  <2>3. \A k \in 0 + 1 .. n : h[k - 1] \in V => h[k] \in V
    BY <2>2
  <2>4. \A k \in 0 .. n : h[k] \in V
    BY <1>1, <2>1, <2>3, Along
  <2> QED BY <2>4 DEF V
<1>5. q \in Same /\ q \in Results /\ q = [held |-> q.held, end |-> q.end]
  BY <1>1, <1>3, <1>4 DEF Results
<1>6. r \in Same /\ r.end = q.end /\ (r.end = "landed" => r = q) /\ (r.end # "landed" => r.held = held)
  <2>1. CASE q.end = "landed"
    BY <1>3, <1>5, <2>1
  <2>2. CASE q.end # "landed"
    <3>1. r = [held |-> held, end |-> q.end]
      BY <1>3, <1>5, <2>2
    <3>2. q.end \in Endings
      BY <1>5 DEF Results
    <3> QED BY <2>2, <3>1, <3>2 DEF Results, Registered
  <2> QED BY <2>1, <2>2
<1>7. ASSUME NEW T, Leads(Registered, txn, T)
      PROVE  /\ q.end = "landed" => DOMAIN q.held = T
             /\ q.end \notin {"unregistered", "duplicate"}
  <2>1. PICK g \in [0 .. n -> SUBSET Positions] :
          g[0] = Registered /\ g[n] = T /\ \A k \in 1 .. n : <<g[k - 1], txn[k], g[k]>> \in IxSteps
    BY <1>7 DEF Leads, Chain, n
  <2> DEFINE Good(k) == \A s \in h[k] : /\ s.end = "landed" => DOMAIN s.held = g[k]
                                        /\ s.end \notin {"unregistered", "duplicate"}
             P == {k \in Nat : k <= n => Good(k)}
  <2>2. 0 \in P
    BY <1>2, <2>1 DEF Registered
  <2>3. ASSUME NEW j \in Nat, j \in P PROVE j + 1 \in P
    <3> DEFINE k == j + 1
    <3> SUFFICES ASSUME k <= n PROVE Good(k)
      OBVIOUS
    <3>1. j <= n /\ k \in 1 .. n /\ k - 1 = j /\ j \in 0 .. n
      BY <1>1
    <3>2. Good(j)
      BY <2>3, <3>1
    <3>3. <<g[j], txn[k], g[k]>> \in IxSteps
      BY <2>1, <3>1
    <3>4. Ready(g[j], txn[k]) /\ g[k] = After(g[j], txn[k])
      BY <3>3 DEF IxSteps
    <3>5. h[k] = Continued(h[j], txn[k]) /\ txn[k] \in Instructions /\ h[j] \subseteq Results
      BY <1>1, <1>2, <1>4, <3>1
    <3> HIDE DEF k
    <3> SUFFICES ASSUME NEW y \in h[k]
                 PROVE  /\ y.end = "landed" => DOMAIN y.held = g[k]
                        /\ y.end \notin {"unregistered", "duplicate"}
      OBVIOUS
    <3>6. PICK s \in h[j] : y \in IF s.end = "landed" THEN Ends(s.held, txn[k]) ELSE {s}
      BY <3>5 DEF Continued
    <3>7. s.held \in Helds
      BY <3>5 DEF Results
    <3>8. CASE s.end = "landed"
      <4>1. y \in Ends(s.held, txn[k]) /\ DOMAIN s.held = g[j]
        BY <3>2, <3>6, <3>8
      <4> QED BY <3>4, <3>5, <3>7, <4>1, OneEnds
    <3>9. CASE s.end # "landed"
      BY <3>2, <3>6, <3>9
    <3> QED BY <3>8, <3>9
  <2>4. n \in P
    <3> HIDE DEF P
    <3> QED BY <1>1, <2>2, <2>3, NatSetInduction
  <2> QED BY <1>1, <1>3, <2>1, <2>4
<1> QED BY <1>6, <1>7

-----------------------------------------------------------------------------
(* Lists of sets, and lists of lists *)

\* SetToSeq names every element of a finite set once.
LEMMA Listed ==
  ASSUME NEW S, IsFiniteSet(S)
  PROVE  /\ SetToSeq(S) \in Seq(S) /\ SetToSeq(S) \in [1 .. Len(SetToSeq(S)) -> S]
         /\ \A x \in S : \E i \in 1 .. Len(SetToSeq(S)) : SetToSeq(S)[i] = x
         /\ \A i, j \in 1 .. Len(SetToSeq(S)) : SetToSeq(S)[i] = SetToSeq(S)[j] => i = j
<1> DEFINE n == Cardinality(S)
           f == SetToSeq(S)
<1>1. n \in Nat /\ \E g : g \in Bijection(1 .. n, S)
  BY FS_CardinalityType DEF ExistsBijection
<1>2. \E g \in [1 .. n -> S] : IsInjective(g)
  BY <1>1 DEF Bijection, Injection, IsInjective
<1>3. f \in [1 .. n -> S] /\ IsInjective(f)
  BY <1>2 DEF SetToSeq
<1> HIDE DEF n, f
<1>4. f \in Seq(S) /\ Len(f) = n
  BY <1>1, <1>3
<1>5. \A i, j \in 1 .. n : f[i] = f[j] => i = j
  BY <1>3 DEF IsInjective
<1>6. f \in Injection(1 .. n, S)
  BY <1>3, <1>5 DEF Injection
<1>7. Cardinality(1 .. n) = n
  BY <1>1, FS_Interval
<1>8. f \in Surjection(1 .. n, S)
  BY <1>6, <1>7, FS_Injection DEF n
<1>9. \A x \in S : \E i \in 1 .. n : f[i] = x
  BY <1>8 DEF Surjection
<1> QED BY <1>3, <1>4, <1>5, <1>9 DEF f

Flattens(g, s) == g = [i \in 1 .. Len(s) |-> IF i = 1 THEN s[i] ELSE g[i - 1] \o s[i]]

\* FlattenSeq appends list after list.
LEMMA FlattenSteps ==
  ASSUME NEW X, NEW s \in Seq(Seq(X))
  PROVE  \E h : /\ h[0] = <<>> /\ \A k \in 0 .. Len(s) : h[k] \in Seq(X)
                /\ \A k \in 1 .. Len(s) : h[k] = h[k - 1] \o s[k]
                /\ FlattenSeq(s) = h[Len(s)]
<1> DEFINE V == Seq(X)
           n == Len(s)
           move(k) == [x \in V |-> IF k \in 1 .. n THEN x \o s[k] ELSE x]
           z == [k \in Nat |-> move(k)]
<1>1. n \in Nat /\ <<>> \in V /\ \A k \in 1 .. n : s[k] \in V
  OBVIOUS
<1>2. \A k \in 1 .. n : \A x \in V : x \o s[k] \in V
  BY <1>1
<1> HIDE DEF n
<1>3. z \in [Nat -> [V -> V]]
  <2> HIDE DEF V
  <2> QED BY <1>2
<1>4. PICK g : ByRecursion(g, V, 0, n, <<>>, z)
  <2> HIDE DEF z, V
  <2>1. 0 <= n /\ 0 \in Nat
    BY <1>1
  <2> QED BY <1>1, <1>3, <2>1, Recursion
<1> HIDE DEF V
<1>5. g \in [0 .. n -> V] /\ g[0] = <<>>
  BY <1>4 DEF ByRecursion
<1>6. ASSUME NEW k \in 1 .. n PROVE g[k] = g[k - 1] \o s[k]
  <2>1. k \in 0 + 1 .. n /\ k \in Nat /\ k - 1 \in 0 .. n
    BY <1>1
  <2>2. g[k] = z[k][g[k - 1]] /\ g[k - 1] \in V
    BY <1>4, <2>1 DEF ByRecursion
  <2>3. z[k] = move(k)
    BY <2>1
  <2> HIDE DEF z
  <2> QED BY <2>2, <2>3
<1>7. CASE n = 0
  <2>1. s = <<>>
    BY <1>7 DEF n
  <2>2. FlattenSeq(s) = <<>>
    BY <1>7, <2>1 DEF FlattenSeq, n
  <2>3. \A k \in 0 .. n : g[k] \in V
    BY <1>5
  <2> QED BY <1>5, <1>6, <1>7, <2>2, <2>3 DEF n, V
<1>8. CASE n # 0
  <2>1. \A k \in 1 .. n : k \in 0 .. n /\ (k # 1 => k - 1 \in 1 .. n) /\ 1 - 1 = 0
    BY <1>1
  <2> DEFINE f == [k \in 1 .. n |-> g[k]]
  <2>2. \A k \in 1 .. n : f[k] = IF k = 1 THEN s[k] ELSE f[k - 1] \o s[k]
    <3> SUFFICES ASSUME NEW k \in 1 .. n PROVE f[k] = IF k = 1 THEN s[k] ELSE f[k - 1] \o s[k]
      OBVIOUS
    <3>1. CASE k = 1
      <4>1. g[k] = <<>> \o s[k]
        BY <1>5, <1>6, <2>1, <3>1
      <4>2. <<>> \o s[k] = s[k]
        BY <1>1 DEF V
      <4> QED BY <3>1, <4>1, <4>2
    <3>2. CASE k # 1
      BY <1>6, <2>1, <3>2
    <3> QED BY <3>1, <3>2
  <2>3. f = [k \in 1 .. n |-> f[k]]
    OBVIOUS
  <2> HIDE DEF f
  <2>4. Flattens(f, s)
    BY <2>2, <2>3 DEF Flattens, n
  <2> DEFINE c == CHOOSE q : Flattens(q, s)
  <2>5. Flattens(c, s)
    BY <2>4
  <2>6. FlattenSeq(s) = c[n]
    BY <1>8 DEF FlattenSeq, Flattens, n
  <2> HIDE DEF c
  <2>7. \A k \in 1 .. n : c[k] = IF k = 1 THEN s[k] ELSE c[k - 1] \o s[k]
    BY <2>5 DEF Flattens, n
  <2> DEFINE h == [k \in 0 .. n |-> IF k = 0 THEN <<>> ELSE c[k]]
  <2>8. h[0] = <<>> /\ \A k \in 1 .. n : h[k] = c[k]
    BY <1>1, <2>1
  <2>9. ASSUME NEW k \in 1 .. n PROVE h[k] = h[k - 1] \o s[k]
    <3>1. CASE k = 1
      <4>1. h[k] = s[k] /\ h[k - 1] = <<>>
        BY <2>1, <2>7, <2>8, <3>1
      <4>2. <<>> \o s[k] = s[k]
        BY <1>1 DEF V
      <4> QED BY <4>1, <4>2
    <3>2. CASE k # 1
      BY <2>1, <2>7, <2>8, <3>2
    <3> QED BY <3>1, <3>2
  <2> HIDE DEF h
  <2>10. \A k \in 0 .. n : h[k] \in V
    <3>1. \A k \in 0 + 1 .. n : h[k - 1] \in V => h[k] \in V
      <4> SUFFICES ASSUME NEW k \in 0 + 1 .. n, h[k - 1] \in V PROVE h[k] \in V
        OBVIOUS
      <4>1. k \in 1 .. n
        OBVIOUS
      <4>2. h[k] = h[k - 1] \o s[k] /\ s[k] \in V
        BY <1>1, <2>9, <4>1
      <4> QED BY <4>2 DEF V
    <3> QED BY <1>1, <2>8, <3>1, Along
  <2>11. n \in 1 .. n
    BY <1>1, <1>8
  <2> QED BY <2>6, <2>8, <2>9, <2>10, <2>11 DEF n, V
<1> QED BY <1>7, <1>8

-----------------------------------------------------------------------------
(* Refreshers *)

\* instructions that set prices, of positions the account has, and nothing else
Refreshers(R) ==
  {ix \in Instructions : /\ ix.signed_by = "anyone" /\ ix.needs \subseteq R
                         /\ ix.adds = {} /\ ix.drops = {} /\ ix.moves = {}}
RefreshTxs(R) == {<<ix>> : ix \in Refreshers(R)}

\* what the transactions set the prices of
PricedBy(s) == UNION {tx_[1].prices : tx_ \in ToSet(s)}

\* Each makes a transaction of each.
LEMMA EachRefreshes ==
  ASSUME NEW R, NEW ix, IsFiniteSet(DOMAIN ix), \A x \in DOMAIN ix : ix[x] \in Refreshers(R)
  PROVE  /\ Each(ix) \in Seq(RefreshTxs(R))
         /\ \A x \in DOMAIN ix : ix[x].prices \subseteq PricedBy(Each(ix))
<1> DEFINE D == DOMAIN ix
           s == SetToSeq(D)
           n == Len(s)
           e == Each(ix)
<1>1. /\ s \in Seq(D) /\ s \in [1 .. n -> D]
      /\ \A x \in D : \E i \in 1 .. n : s[i] = x
  BY Listed
<1>2. n \in Nat
  BY <1>1
<1>3. e = [i \in 1 .. n |-> <<ix[s[i]]>>]
  BY DEF Each
<1> HIDE DEF s, n, e
<1>4. \A i \in 1 .. n : s[i] \in D /\ e[i] = <<ix[s[i]]>> /\ e[i] \in RefreshTxs(R)
  <2> SUFFICES ASSUME NEW i \in 1 .. n PROVE s[i] \in D /\ e[i] = <<ix[s[i]]>> /\ e[i] \in RefreshTxs(R)
    OBVIOUS
  <2>1. s[i] \in D /\ e[i] = <<ix[s[i]]>>
    BY <1>1, <1>3
  <2>2. ix[s[i]] \in Refreshers(R)
    BY <2>1
  <2> QED BY <2>1, <2>2 DEF RefreshTxs
<1>5. e \in [1 .. n -> RefreshTxs(R)]
  BY <1>3, <1>4
<1>6. e \in Seq(RefreshTxs(R)) /\ DOMAIN e = 1 .. n
  BY <1>2, <1>5
<1>7. ASSUME NEW x \in D PROVE ix[x].prices \subseteq PricedBy(e)
  <2>1. PICK i \in 1 .. n : s[i] = x
    BY <1>1
  <2>2. e[i] \in ToSet(e) /\ e[i] = <<ix[x]>>
    BY <1>4, <1>6, <2>1 DEF ToSet
  <2>3. e[i][1] = ix[x]
    BY <2>2
  <2> QED BY <2>2, <2>3 DEF PricedBy
<1> QED BY <1>6, <1>7 DEF e

\* All refreshers are refreshers, and each position has one.
LEMMA RefreshersTyped ==
  ASSUME NEW R \in SUBSET Positions
  PROVE  /\ \A t \in ClientTokens : token(t) \in R => refresh_deposit_ix(t) \in Refreshers(R)
         /\ \A p \in ClientPools : margin_refresh_position_ix(p) \in Refreshers(R)
         /\ \A m \in ClientMarkets : claims(m) \in R => refresh_position_ix(m) \in Refreshers(R)
<1>1. ASSUME NEW t \in ClientTokens, token(t) \in R PROVE refresh_deposit_ix(t) \in Refreshers(R)
  <2>1. Shape(refresh_deposit_ix(t), {token(t)}, {}, {})
    BY MarginShapes
  <2>2. refresh_deposit_ix(t).signed_by = "anyone" /\ refresh_deposit_ix(t).moves = {}
    BY DEF refresh_deposit_ix, Instruction
  <2> QED BY <1>1, <2>1, <2>2 DEF Refreshers, Shape
<1>2. ASSUME NEW p \in ClientPools PROVE margin_refresh_position_ix(p) \in Refreshers(R)
  <2>1. Shape(margin_refresh_position_ix(p), {}, {}, {})
    BY PoolShapes
  <2>2. margin_refresh_position_ix(p).signed_by = "anyone" /\ margin_refresh_position_ix(p).moves = {}
    BY DEF margin_refresh_position_ix, Instruction
  <2> QED BY <2>1, <2>2 DEF Refreshers, Shape
<1>3. ASSUME NEW m \in ClientMarkets, claims(m) \in R PROVE refresh_position_ix(m) \in Refreshers(R)
  <2>1. Shape(refresh_position_ix(m), {claims(m)}, {}, {})
    BY TermShapes
  <2>2. refresh_position_ix(m).signed_by = "anyone" /\ refresh_position_ix(m).moves = {}
    BY DEF refresh_position_ix, Instruction
  <2> QED BY <1>3, <2>1, <2>2 DEF Refreshers, Shape
<1> QED BY <1>1, <1>2, <1>3

\* The adapter registers and closes the two positions of a market together.
Paired(R) == \A m \in ClientMarkets : claims(m) \in R <=> collateral(m) \in R

\* The canonical refresher leaves no position out.
LEMMA AllRefreshed ==
  ASSUME NEW R \in SUBSET Positions, Paired(R)
  PROVE  /\ refresh_deposit_positions(R) \in Seq(RefreshTxs(R))
         /\ refresh_all_pool_positions(R) \in Seq(RefreshTxs(R))
         /\ canonical_position_refresher(R) \in Seq(RefreshTxs(R))
         /\ R \subseteq PricedBy(canonical_position_refresher(R))
<1> DEFINE X == RefreshTxs(R)
           a == refresh_deposit_positions(R)
           b == refresh_all_pool_positions(R)
           c == refresh_fixed_term_positions(R)
<1>1. a \in Seq(X) /\ \A t \in ClientTokens : token(t) \in R => token(t) \in PricedBy(a)
  <2> DEFINE D == {t \in ClientTokens : token(t) \in R}
             ix == [t \in D |-> refresh_deposit_ix(t)]
  <2>1. IsFiniteSet(D)
    BY MarginClientAssumption, FS_Subset
  <2>2. DOMAIN ix = D /\ \A t \in D : ix[t] \in Refreshers(R) /\ token(t) \in ix[t].prices
    <3>1. \A t \in D : token(t) \in refresh_deposit_ix(t).prices
      BY DEF refresh_deposit_ix, Instruction
    <3> QED BY <3>1, RefreshersTyped
  <2>3. a = Each(ix)
    BY DEF refresh_deposit_positions
  <2> HIDE DEF ix, a
  <2>4. a \in Seq(X) /\ \A t \in D : ix[t].prices \subseteq PricedBy(a)
    BY <2>1, <2>2, <2>3, EachRefreshes
  <2> QED BY <2>2, <2>4
<1>2. b \in Seq(X) /\ \A p \in ClientPools : {note(p), loan(p)} \cap R # {} => {note(p), loan(p)} \subseteq PricedBy(b)
  <2> DEFINE D == {p \in ClientPools : {note(p), loan(p)} \cap R # {}}
             ix == [p \in D |-> margin_refresh_position_ix(p)]
  <2>1. IsFiniteSet(D)
    BY MarginClientAssumption, FS_Subset
  <2>2. DOMAIN ix = D /\ \A p \in D : ix[p] \in Refreshers(R) /\ {note(p), loan(p)} \subseteq ix[p].prices
    <3>1. \A p \in D : {note(p), loan(p)} \subseteq margin_refresh_position_ix(p).prices
      BY DEF margin_refresh_position_ix, Instruction
    <3> QED BY <3>1, RefreshersTyped
  <2>3. b = Each(ix)
    BY DEF refresh_all_pool_positions
  <2> HIDE DEF ix, b
  <2>4. b \in Seq(X) /\ \A p \in D : ix[p].prices \subseteq PricedBy(b)
    BY <2>1, <2>2, <2>3, EachRefreshes
  <2>5. \A p \in D : {note(p), loan(p)} \subseteq PricedBy(b)
    BY <2>2, <2>4
  <2> QED BY <2>4, <2>5
<1>3. c \in Seq(X) /\ R \cap TermPositions \subseteq PricedBy(c)
  <2> DEFINE D == R \cap TermPositions
             ix == [pos \in D |-> refresh_position_ix(pos[2])]
  <2>1. IsFiniteSet(D)
    <3>1. /\ IsFiniteSet({claims(m) : m \in ClientMarkets})
          /\ IsFiniteSet({collateral(m) : m \in ClientMarkets})
      <4> DEFINE f == [m \in ClientMarkets |-> claims(m)]
                 g == [m \in ClientMarkets |-> collateral(m)]
      <4>1. /\ f \in Surjection(ClientMarkets, {claims(m) : m \in ClientMarkets})
            /\ g \in Surjection(ClientMarkets, {collateral(m) : m \in ClientMarkets})
        BY DEF Surjection
      <4> QED BY <4>1, MarginClientAssumption, FS_Surjection
    <3>2. IsFiniteSet(TermPositions)
      BY <3>1, FS_Union DEF TermPositions
    <3> QED BY <3>2, FS_Subset
  <2>2. DOMAIN ix = D /\ \A pos \in D : ix[pos] \in Refreshers(R) /\ pos \in ix[pos].prices
    <3> SUFFICES ASSUME NEW pos \in D PROVE ix[pos] \in Refreshers(R) /\ pos \in ix[pos].prices
      OBVIOUS
    <3>1. PICK m \in ClientMarkets : pos \in {claims(m), collateral(m)}
      BY DEF TermPositions
    <3>2. pos[2] = m /\ claims(m) \in R
      BY <3>1 DEF claims, collateral, Paired
    <3>3. ix[pos] = refresh_position_ix(m)
      BY <3>2
    <3>4. refresh_position_ix(m).prices = {claims(m), collateral(m)}
      BY DEF refresh_position_ix, Instruction
    <3> QED BY <3>1, <3>2, <3>3, <3>4, RefreshersTyped
  <2>3. c = Each(ix)
    BY DEF refresh_fixed_term_positions
  <2> HIDE DEF ix, c
  <2>4. c \in Seq(X) /\ \A pos \in D : ix[pos].prices \subseteq PricedBy(c)
    BY <2>1, <2>2, <2>3, EachRefreshes
  <2> QED BY <2>2, <2>4
<1> DEFINE r == canonical_position_refresher(R)
<1>4. r = a \o b \o c
  BY DEF canonical_position_refresher
<1> HIDE DEF X, a, b, c, r
<1> DEFINE d == a \o b
<1>5. d \in Seq(X) /\ ToSet(d) = ToSet(a) \cup ToSet(b) /\ r = d \o c
  BY <1>1, <1>2, <1>4, SetsOfSequences
<1> HIDE DEF d
<1>6. r \in Seq(X) /\ ToSet(r) = ToSet(a) \cup ToSet(b) \cup ToSet(c)
  BY <1>3, <1>5, SetsOfSequences
<1>7. PricedBy(a) \cup PricedBy(b) \cup PricedBy(c) \subseteq PricedBy(r)
  BY <1>6 DEF PricedBy
<1>8. ASSUME NEW pos \in R PROVE pos \in PricedBy(r)
  <2>1. pos \in PoolPositions \/ pos \in Deposits \/ pos \in TermPositions
    BY DEF Positions
  <2>2. CASE pos \in PoolPositions
    <3>1. PICK p \in ClientPools : pos \in {note(p), loan(p)}
      BY <2>2 DEF PoolPositions, Notes
    <3> QED BY <1>2, <1>7, <3>1
  <2>3. CASE pos \in Deposits
    BY <1>1, <1>7, <2>3 DEF Deposits
  <2>4. CASE pos \in TermPositions
    BY <1>3, <1>7, <2>4
  <2> QED BY <2>1, <2>2, <2>3, <2>4
<1> QED BY <1>1, <1>2, <1>6, <1>8 DEF a, b, r, X

\* Refreshers can always run.
LEMMA RefreshersSetUp ==
  ASSUME NEW R \in SUBSET Positions, NEW s \in Seq(RefreshTxs(R))
  PROVE  /\ Chain(TxSteps, Seq(Instructions), R, s, R)
         /\ Leads(R, FlattenSeq(s), R)
<1>1. \A k \in 1 .. Len(s) : /\ s[k] \in Seq(Instructions) /\ Leads(R, s[k], R)
                             /\ <<R, s[k], R>> \in TxSteps
  <2> SUFFICES ASSUME NEW k \in 1 .. Len(s)
               PROVE  s[k] \in Seq(Instructions) /\ Leads(R, s[k], R) /\ <<R, s[k], R>> \in TxSteps
    OBVIOUS
  <2>1. s[k] \in RefreshTxs(R)
    OBVIOUS
  <2>2. PICK ix \in Refreshers(R) : s[k] = <<ix>>
    BY <2>1 DEF RefreshTxs
  <2>3. Shape(ix, ix.needs, {}, {}) /\ ix.needs \subseteq R
    BY DEF Refreshers, Shape
  <2>4. Leads(R, <<ix>>, (R \cup {}) \ {})
    BY <2>3, OneLeads
  <2>5. (R \cup {}) \ {} = R
    OBVIOUS
  <2> DEFINE tt == s[k]
             q == <<R, tt, R>>
  <2>6. Leads(R, tt, R) /\ tt \in Seq(Instructions)
    BY <2>2, <2>4, <2>5 DEF Leads, Chain
  <2> HIDE DEF tt
  <2>7. q \in (SUBSET Positions) \X Seq(Instructions) \X (SUBSET Positions) /\ q[1] = R /\ q[2] = tt /\ q[3] = R
    BY <2>6
  <2> HIDE DEF q
  <2>8. q \in TxSteps
    BY <2>6, <2>7 DEF TxSteps
  <2> QED BY <2>6, <2>8 DEF q, tt
<1>2. s \in Seq(Seq(Instructions))
  <2> DEFINE n == Len(s)
  <2>1. n \in Nat /\ s = [k \in 1 .. n |-> s[k]]
    OBVIOUS
  <2> HIDE DEF n
  <2>2. s \in [1 .. n -> Seq(Instructions)]
    BY <1>1, <2>1 DEF n
  <2> QED BY <2>1, <2>2
<1>3. Chain(TxSteps, Seq(Instructions), R, s, R)
  BY <1>1, <1>2, ChainSame
<1>4. Leads(R, FlattenSeq(s), R)
  <2> DEFINE n == Len(s)
  <2>1. n \in Nat
    OBVIOUS
  <2> HIDE DEF n
  <2>2. PICK h : /\ h[0] = <<>> /\ \A k \in 0 .. n : h[k] \in Seq(Instructions)
                 /\ \A k \in 1 .. n : h[k] = h[k - 1] \o s[k]
                 /\ FlattenSeq(s) = h[n]
    BY <1>2, FlattenSteps DEF n
  <2> DEFINE V == {u \in Seq(Instructions) : Leads(R, u, R)}
  <2>3. h[0] \in V
    BY <2>2, ChainEmpty DEF Leads
  <2>4. ASSUME NEW k \in 0 + 1 .. n, h[k - 1] \in V PROVE h[k] \in V
    <3>1. k \in 1 .. n /\ k \in 0 .. n
      BY <2>1
    <3>2. Leads(R, h[k - 1], R) /\ Leads(R, s[k], R)
      BY <1>1, <2>4, <3>1 DEF n
    <3>3. Leads(R, h[k - 1] \o s[k], R)
      BY <3>2, ChainJoin DEF Leads
    <3> QED BY <2>2, <3>1, <3>3
  <2> HIDE DEF V
  <2>5. \A k \in 0 .. n : h[k] \in V
    BY <2>1, <2>3, <2>4, Along
  <2>6. n \in 0 .. n
    BY <2>1
  <2> QED BY <2>2, <2>5, <2>6 DEF V
<1> QED BY <1>3, <1>4

-----------------------------------------------------------------------------
(* The operations of the builder set up what they use *)

\* One transaction
LEMMA OneTx ==
  ASSUME NEW R \in SUBSET Positions, NEW T \in SUBSET Positions, NEW tx_, Leads(R, tx_, T)
  PROVE  Chain(TxSteps, Seq(Instructions), R, <<tx_>>, T) /\ SetUp(R, <<tx_>>)
<1> DEFINE q == <<R, tx_, T>>
<1>1. tx_ \in Seq(Instructions)
  BY DEF Leads, Chain
<1>2. q \in (SUBSET Positions) \X Seq(Instructions) \X (SUBSET Positions) /\ q[1] = R /\ q[2] = tx_ /\ q[3] = T
  BY <1>1
<1> HIDE DEF q
<1>3. q \in TxSteps
  BY <1>2 DEF TxSteps
<1>4. Chain(TxSteps, Seq(Instructions), R, <<tx_>>, T)
  BY <1>1, <1>3, ChainOne DEF q
<1> QED BY <1>4 DEF SetUp

\* An instruction more
LEMMA ThenOne ==
  ASSUME NEW R, NEW S \in SUBSET Positions, NEW s, Leads(R, s, S),
         NEW needs, NEW adds, NEW drops, NEW ix, Shape(ix, needs, adds, drops), needs \subseteq S, adds \cap S = {}
  PROVE  Leads(R, s \o <<ix>>, (S \cup adds) \ drops)
<1>1. Leads(S, <<ix>>, (S \cup adds) \ drops)
  BY OneLeads
<1> QED BY <1>1, ChainJoin DEF Leads

\* An instruction more that changes no positions
LEMMA ThenUse ==
  ASSUME NEW R, NEW S \in SUBSET Positions, NEW s, Leads(R, s, S),
         NEW needs \in SUBSET S, NEW ix, Shape(ix, needs, {}, {})
  PROVE  Leads(R, s \o <<ix>>, S)
<1>1. Leads(R, s \o <<ix>>, (S \cup {}) \ {})
  BY ThenOne
<1>2. (S \cup {}) \ {} = S
  OBVIOUS
<1> QED BY <1>1, <1>2

LEMMA UseLeads ==
  ASSUME NEW R \in SUBSET Positions, NEW needs \in SUBSET R, NEW ix, Shape(ix, needs, {}, {})
  PROVE  Leads(R, <<ix>>, R)
<1>1. Leads(R, <<ix>>, (R \cup {}) \ {})
  BY OneLeads
<1>2. (R \cup {}) \ {} = R
  OBVIOUS
<1> QED BY <1>1, <1>2

LEMMA RegisterLeads ==
  ASSUME NEW R \in SUBSET Positions, NEW pos \in Positions, pos \notin R, NEW ix, Shape(ix, {}, {pos}, {})
  PROVE  Leads(R, <<ix>>, R \cup {pos})
<1>3. {} \subseteq R /\ {pos} \cap R = {}
  OBVIOUS
<1>1. Leads(R, <<ix>>, (R \cup {pos}) \ {})
  BY <1>3, OneLeads
<1>2. (R \cup {pos}) \ {} = R \cup {pos}
  OBVIOUS
<1> QED BY <1>1, <1>2

LEMMA CloseLeads ==
  ASSUME NEW R \in SUBSET Positions, NEW pos \in R, NEW ix, Shape(ix, {pos}, {}, {pos})
  PROVE  Leads(R, <<ix>>, R \ {pos})
<1>1. Leads(R, <<ix>>, (R \cup {}) \ {pos})
  <2> DEFINE all == {pos}
             none == {}
  <2>1. Shape(ix, all, none, all) /\ all \subseteq R /\ none \cap R = {}
    OBVIOUS
  <2> HIDE DEF all, none
  <2>2. Leads(R, <<ix>>, (R \cup none) \ all)
    BY <2>1, OneLeads
  <2> QED BY <2>2 DEF all, none
<1>2. (R \cup {}) \ {pos} = R \ {pos}
  OBVIOUS
<1> QED BY <1>1, <1>2

\* A position the account lacks is registered.
LEMMA GetOrCreate ==
  ASSUME Registered \in SUBSET Positions, NEW pos \in PoolPositions \cup Deposits
  PROVE  Leads(Registered, get_or_create_position(pos), Registered \cup {pos})
<1>1. CASE pos \in Registered
  <2>1. Registered \cup {pos} = Registered
    BY <1>1
  <2>2. get_or_create_position(pos) = <<>>
    BY <1>1 DEF get_or_create_position
  <2> QED BY <2>1, <2>2, ChainEmpty DEF Leads
<1>2. CASE pos \notin Registered
  <2>1. get_or_create_position(pos) = <<register_ix(pos)>>
    BY <1>2 DEF get_or_create_position
  <2>2. pos \in Positions
    BY PositionSets
  <2> QED BY <1>2, <2>1, <2>2, RegisterLeads, MarginShapes
<1> QED BY <1>1, <1>2

LEMMA GetOrCreateLoan ==
  ASSUME Registered \in SUBSET Positions, NEW p \in ClientPools
  PROVE  Leads(Registered \cup {note(p)}, get_or_create_pool_loan_position(p), Registered \cup {note(p)} \cup {loan(p)})
<1> DEFINE S == Registered \cup {note(p)}
<1>1. S \in SUBSET Positions /\ loan(p) \in Positions /\ note(p) # loan(p)
  BY PositionSets DEF note, loan
<1>2. loan(p) \in S <=> loan(p) \in Registered
  BY <1>1
<1> HIDE DEF S
<1>3. CASE loan(p) \in Registered
  <2>1. S \cup {loan(p)} = S
    BY <1>2, <1>3
  <2>2. get_or_create_pool_loan_position(p) = <<>>
    BY <1>3 DEF get_or_create_pool_loan_position
  <2>3. Leads(S, <<>>, S)
    BY <1>1, ChainEmpty DEF Leads
  <2> QED BY <2>1, <2>2, <2>3 DEF S
<1>4. CASE loan(p) \notin Registered
  <2>1. get_or_create_pool_loan_position(p) = <<adapter_invoke_ix(register_loan_ix(p))>>
    BY <1>4 DEF get_or_create_pool_loan_position
  <2>2. Leads(S, <<adapter_invoke_ix(register_loan_ix(p))>>, S \cup {loan(p)})
    BY <1>1, <1>2, <1>4, RegisterLeads, PoolShapes
  <2> QED BY <2>1, <2>2 DEF S
<1> QED BY <1>3, <1>4

LEMMA PairJoins ==
  ASSUME NEW x, NEW y
  PROVE  <<x, y>> = <<x>> \o <<y>>
<1> DEFINE X == {x, y}
           s == <<x>>
           t == <<y>>
           q == <<x, y>>
           r == s \o t
<1>1. /\ s \in Seq(X) /\ t \in Seq(X) /\ q \in Seq(X) /\ Len(s) = 1 /\ Len(t) = 1 /\ Len(q) = 2
      /\ s[1] = x /\ t[1] = y /\ q[1] = x /\ q[2] = y
  OBVIOUS
<1> HIDE DEF s, t, q, X
<1>5. /\ r \in Seq(X) /\ Len(r) = Len(s) + Len(t)
      /\ \A k \in 1 .. Len(s) : r[k] = s[k]
      /\ \A k \in 1 .. Len(t) : r[Len(s) + k] = t[k]
  <2>1. s \in Seq(X) /\ t \in Seq(X)
    BY <1>1
  <2> QED BY <2>1
<1>2. r \in Seq(X) /\ Len(r) = 2 /\ r[1] = x /\ r[2] = y
  <2>1. 1 \in 1 .. Len(s) /\ 1 \in 1 .. Len(t) /\ Len(s) + 1 = 2 /\ Len(s) + Len(t) = 2
    BY <1>1
  <2> QED BY <1>1, <1>5, <2>1
<1> HIDE DEF r
<1>3. \A k \in 1 .. 2 : r[k] = q[k]
  <2>1. \A k \in 1 .. 2 : k = 1 \/ k = 2
    OBVIOUS
  <2> QED BY <1>1, <1>2, <2>1
<1>4. r = q
  BY <1>1, <1>2, <1>3
<1> QED BY <1>4 DEF q, r, s, t

LEMMA GetOrCreateDeposit ==
  ASSUME Registered \in SUBSET Positions, NEW p \in ClientPools
  PROVE  Leads(Registered, get_or_create_pool_deposit(p), Registered \cup {note(p)})
<1> DEFINE R == Registered
           S == R \cup {note(p)}
<1>1. note(p) \in Positions /\ note(p) \in PoolPositions \cup Deposits /\ S \in SUBSET Positions
  BY PositionSets DEF PoolPositions
<1>2. CASE note(p) \in R
  <2>1. S = R
    BY <1>2
  <2>2. get_or_create_pool_deposit(p) = <<>>
    BY <1>2 DEF get_or_create_pool_deposit
  <2>3. Leads(R, <<>>, R)
    BY ChainEmpty DEF Leads
  <2> QED BY <2>1, <2>2, <2>3
<1>3. CASE note(p) \notin R
  <2> DEFINE x == register_ix(note(p))
             y == invoke_ix(margin_refresh_position_ix(p))
  <2>1. get_or_create_pool_deposit(p) = <<x, y>>
    BY <1>3 DEF get_or_create_pool_deposit, create_pool_deposit
  <2>2. Shape(x, {}, {note(p)}, {}) /\ Shape(y, {}, {}, {})
    BY <1>1, MarginShapes, PoolShapes
  <2> HIDE DEF x, y, R, S
  <2>3. Leads(R, <<x>>, S)
    BY <1>1, <1>3, <2>2, RegisterLeads DEF R, S
  <2>4. Leads(R, <<x>> \o <<y>>, S)
    BY <1>1, <2>2, <2>3, ThenUse
  <2> QED BY <2>1, <2>4, PairJoins DEF R, S
<1> QED BY <1>2, <1>3

\* deposits
LEMMA DepositSetUp ==
  ASSUME Registered \in SUBSET Positions, NEW p \in ClientPools, NEW source \in {"account", "anyone"}
  PROVE  SetUp(Registered, pool_deposit(p, source)) /\ SetUp(Registered, pool_deposit_deprecated(p, source))
<1> DEFINE R == Registered
           S == R \cup {note(p)}
           z == invoke_ix(deposit_ix(p, source))
<1>1. note(p) \in PoolPositions \cup Deposits /\ S \in SUBSET Positions /\ {note(p)} \in SUBSET S /\ R \in SUBSET Positions
  BY PositionSets DEF PoolPositions
<1>2. Shape(z, {note(p)}, {}, {})
  <2>1. {note(p)} \in SUBSET Positions
    BY <1>1
  <2> QED BY <2>1, CallShapes DEF deposit_ix
<1>3. SetUp(R, pool_deposit(p, source))
  <2> DEFINE a == get_or_create_pool_deposit(p)
  <2>1. Leads(R, a, S)
    BY GetOrCreateDeposit
  <2>2. pool_deposit(p, source) = << a \o <<z>> >>
    BY DEF pool_deposit
  <2> HIDE DEF a, z, R, S
  <2>3. Leads(R, a \o <<z>>, S)
    BY <1>1, <1>2, <2>1, ThenUse
  <2> QED BY <1>1, <2>2, <2>3, OneTx
<1>4. SetUp(R, pool_deposit_deprecated(p, source))
  <2> DEFINE a == get_or_create_position(note(p))
             x == margin_refresh_position_ix(p)
             b == IF source = "account" /\ note(p) \notin Registered THEN <<x>> ELSE << >>
             c == a \o b
  <2>1. Leads(R, a, S)
    BY <1>1, GetOrCreate
  <2>2. pool_deposit_deprecated(p, source) = << c \o <<z>> >>
    BY DEF pool_deposit_deprecated
  <2>3. Shape(x, {}, {}, {})
    BY PoolShapes
  <2>4. b = <<x>> \/ b = <<>>
    OBVIOUS
  <2> HIDE DEF a, b, x, z, R, S
  <2>5. Leads(S, b, S)
    <3>1. Leads(S, <<x>>, S)
      BY <1>1, <2>3, UseLeads
    <3>2. Leads(S, <<>>, S)
      BY <1>1, ChainEmpty DEF Leads
    <3> QED BY <2>4, <3>1, <3>2
  <2>6. Leads(R, c, S)
    BY <2>1, <2>5, ChainJoin DEF Leads
  <2> HIDE DEF c
  <2>7. Leads(R, c \o <<z>>, S)
    BY <1>1, <1>2, <2>6, ThenUse
  <2> QED BY <1>1, <2>2, <2>7, OneTx
<1> QED BY <1>3, <1>4

\* loans
LEMMA LoanSetUp ==
  ASSUME Registered \in SUBSET Positions, NEW p \in ClientPools
  PROVE  SetUp(Registered, borrow(p)) /\ SetUp(Registered, margin_repay(p))
<1> DEFINE R == Registered
           S == R \cup {note(p)}
           T == S \cup {loan(p)}
           a == get_or_create_position(note(p))
           b == get_or_create_pool_loan_position(p)
           c == a \o b
<1>1. /\ note(p) \in PoolPositions \cup Deposits /\ R \in SUBSET Positions /\ S \in SUBSET Positions
      /\ T \in SUBSET Positions /\ {note(p), loan(p)} \in SUBSET T /\ {note(p), loan(p)} \in SUBSET Positions
  BY PositionSets DEF PoolPositions
<1>2. Leads(R, a, S) /\ Leads(S, b, T)
  BY <1>1, GetOrCreate, GetOrCreateLoan
<1> DEFINE x == margin_refresh_position_ix(p)
           y == adapter_invoke_ix(margin_borrow_ix(p))
           z == adapter_invoke_ix(margin_repay_ix(p))
<1>3. Shape(x, {}, {}, {}) /\ Shape(y, {note(p), loan(p)}, {}, {}) /\ Shape(z, {note(p), loan(p)}, {}, {})
  BY <1>1, CallShapes, PoolShapes DEF margin_borrow_ix, margin_repay_ix
<1>4. borrow(p) = << c \o <<x, y>> >> /\ margin_repay(p) = << c \o <<z>> >>
  BY DEF borrow, margin_repay
<1> HIDE DEF a, b, x, y, z, R, S, T
<1>5. Leads(R, c, T)
  BY <1>2, ChainJoin DEF Leads
<1> HIDE DEF c
<1>6. Leads(T, <<x>>, T) /\ Leads(T, <<x>> \o <<y>>, T)
  BY <1>1, <1>3, UseLeads, ThenUse
<1>7. Leads(R, c \o <<x, y>>, T)
  BY <1>5, <1>6, PairJoins, ChainJoin DEF Leads
<1>8. Leads(R, c \o <<z>>, T)
  BY <1>1, <1>3, <1>5, ThenUse
<1> QED BY <1>1, <1>4, <1>7, <1>8, OneTx DEF R

\* operations on a single position
LEMMA SimpleSetUp ==
  ASSUME Registered \in SUBSET Positions
  PROVE  /\ \A p \in ClientPools : /\ SetUp(Registered, withdraw(p))
                                   /\ \A source \in {"account", "anyone"} :
                                        loan(p) \in Registered => SetUp(Registered, pool_repay(p, source))
         /\ \A t \in ClientTokens : /\ SetUp(Registered, transfer_deposit(t))
                                    /\ token(t) \notin Registered => SetUp(Registered, create_deposit_position(t))
                                    /\ token(t) \in Registered => SetUp(Registered, close_deposit_position(t))
         /\ SetUp(Registered, liquidate_end)
<1> DEFINE R == Registered
<1>1. ASSUME NEW p \in ClientPools PROVE SetUp(R, withdraw(p))
  <2> DEFINE S == R \cup {note(p)}
             a == get_or_create_position(note(p))
             z == adapter_invoke_ix(withdraw_ix(p))
  <2>1. /\ note(p) \in PoolPositions \cup Deposits /\ R \in SUBSET Positions /\ S \in SUBSET Positions
        /\ {note(p)} \in SUBSET S /\ {note(p)} \in SUBSET Positions
    BY PositionSets DEF PoolPositions
  <2>2. Leads(R, a, S)
    BY <2>1, GetOrCreate
  <2>3. Shape(z, {note(p)}, {}, {})
    BY <2>1, CallShapes DEF withdraw_ix
  <2>4. withdraw(p) = << a \o <<z>> >>
    BY DEF withdraw
  <2> HIDE DEF a, z, R, S
  <2>5. Leads(R, a \o <<z>>, S)
    BY <2>1, <2>2, <2>3, ThenUse
  <2> QED BY <2>1, <2>4, <2>5, OneTx
<1>2. ASSUME NEW p \in ClientPools, NEW source \in {"account", "anyone"}, loan(p) \in R
      PROVE  SetUp(R, pool_repay(p, source))
  <2> DEFINE z == invoke_ix(repay_ix(p, source))
  <2>1. {loan(p)} \in SUBSET Positions /\ {loan(p)} \in SUBSET R
    BY <1>2
  <2>2. Shape(z, {loan(p)}, {}, {})
    BY <2>1, CallShapes DEF repay_ix
  <2>3. pool_repay(p, source) = << <<z>> >>
    BY DEF pool_repay
  <2> HIDE DEF z
  <2>4. Leads(R, <<z>>, R)
    BY <2>1, <2>2, UseLeads
  <2> QED BY <2>3, <2>4, OneTx
<1>3. ASSUME NEW t \in ClientTokens
      PROVE  /\ SetUp(R, transfer_deposit(t))
             /\ token(t) \notin R => SetUp(R, create_deposit_position(t))
             /\ token(t) \in R => SetUp(R, close_deposit_position(t))
  <2> DEFINE S == R \cup {token(t)}
             a == get_or_create_position(token(t))
             x == transfer_ix(t)
             y == register_ix(token(t))
             z == close_ix(token(t))
  <2>1. /\ token(t) \in PoolPositions \cup Deposits /\ token(t) \in Positions /\ R \in SUBSET Positions
        /\ S \in SUBSET Positions /\ {token(t)} \in SUBSET S /\ R \ {token(t)} \in SUBSET Positions
    BY PositionSets
  <2>2. Leads(R, a, S)
    BY <2>1, GetOrCreate
  <2>3. Shape(x, {token(t)}, {}, {}) /\ Shape(y, {}, {token(t)}, {}) /\ Shape(z, {token(t)}, {}, {token(t)})
    BY <2>1, MarginShapes
  <2>4. /\ transfer_deposit(t) = << a \o <<x>> >> /\ create_deposit_position(t) = << <<y>> >>
        /\ close_deposit_position(t) = << <<z>> >>
    BY DEF transfer_deposit, create_deposit_position, close_deposit_position
  <2> HIDE DEF a, x, y, z, R, S
  <2>5. SetUp(R, transfer_deposit(t))
    <3>1. Leads(R, a \o <<x>>, S)
      BY <2>1, <2>2, <2>3, ThenUse
    <3> QED BY <2>1, <2>4, <3>1, OneTx
  <2>6. ASSUME token(t) \notin R PROVE SetUp(R, create_deposit_position(t))
    <3>1. Leads(R, <<y>>, S)
      BY <2>1, <2>3, <2>6, RegisterLeads DEF S
    <3> QED BY <2>1, <2>4, <3>1, OneTx
  <2>7. ASSUME token(t) \in R PROVE SetUp(R, close_deposit_position(t))
    <3>1. Leads(R, <<z>>, R \ {token(t)})
      BY <2>1, <2>3, <2>7, CloseLeads
    <3> QED BY <2>1, <2>4, <3>1, OneTx
  <2> QED BY <2>5, <2>6, <2>7
<1>4. SetUp(R, liquidate_end)
  <2>1. Leads(R, <<liquidate_end_ix>>, R)
    <3>1. {} \in SUBSET R
      OBVIOUS
    <3> QED BY <3>1, MarginShapes, UseLeads
  <2> QED BY <2>1, OneTx DEF liquidate_end
<1> QED BY <1>1, <1>2, <1>3, <1>4

\* closing the positions of a pool
LEMMA ClosePoolSetUp ==
  ASSUME Registered \in SUBSET Positions, NEW p \in ClientPools
  PROVE  /\ \A pos \in {note(p), loan(p)} \cap Registered : SetUp(Registered, close_pool_position(pos))
         /\ {note(p), loan(p)} \subseteq Registered => SetUp(Registered, close_pool_positions(p))
<1> DEFINE R == Registered
           x == close_ix(note(p))
           y == adapter_invoke_ix(close_loan_ix(p))
<1>1. note(p) \in Positions /\ loan(p) \in Positions /\ note(p) # loan(p) /\ note(p) \in Notes
  BY PositionSets DEF note, loan
<1>2. Shape(x, {note(p)}, {}, {note(p)}) /\ Shape(y, {loan(p)}, {}, {loan(p)})
  BY <1>1, MarginShapes, PoolShapes
<1>3. close_pool_positions(p) = << <<x, y>> >>
  BY DEF close_pool_positions
<1>4. close_pool_position(note(p)) = << <<x>> >>
  BY <1>1 DEF close_pool_position
<1>5. close_pool_position(loan(p)) = << <<y>> >>
  <2>1. loan(p) \notin Notes /\ loan(p)[2] = p
    BY DEF Notes, note, loan
  <2> QED BY <2>1 DEF close_pool_position
<1> HIDE DEF x, y, R
<1>6. ASSUME note(p) \in R PROVE SetUp(R, close_pool_position(note(p)))
  <2>1. Leads(R, <<x>>, R \ {note(p)}) /\ R \ {note(p)} \in SUBSET Positions /\ R \in SUBSET Positions
    BY <1>2, <1>6, CloseLeads DEF R
  <2> QED BY <1>4, <2>1, OneTx
<1>7. ASSUME loan(p) \in R PROVE SetUp(R, close_pool_position(loan(p)))
  <2>1. Leads(R, <<y>>, R \ {loan(p)}) /\ R \ {loan(p)} \in SUBSET Positions /\ R \in SUBSET Positions
    BY <1>2, <1>7, CloseLeads DEF R
  <2> QED BY <1>5, <2>1, OneTx
<1>8. ASSUME {note(p), loan(p)} \subseteq R PROVE SetUp(R, close_pool_positions(p))
  <2> DEFINE S == R \ {note(p)}
             T == (S \cup {}) \ {loan(p)}
  <2>1. Leads(R, <<x>>, S) /\ S \in SUBSET Positions /\ R \in SUBSET Positions /\ T \in SUBSET Positions
    BY <1>2, <1>8, CloseLeads DEF R
  <2>2. {loan(p)} \subseteq S /\ {} \cap S = {}
    BY <1>1, <1>8
  <2> HIDE DEF S
  <2>3. Leads(R, <<x>> \o <<y>>, T)
    BY <1>2, <2>1, <2>2, ThenOne
  <2> HIDE DEF T
  <2> QED BY <1>3, <2>1, <2>3, PairJoins, OneTx
<1> QED BY <1>6, <1>7, <1>8 DEF R

\* a transaction after others
LEMMA ThenTx ==
  ASSUME NEW R, NEW S \in SUBSET Positions, NEW T \in SUBSET Positions, NEW s, NEW tx_,
         Chain(TxSteps, Seq(Instructions), R, s, S), Leads(S, tx_, T)
  PROVE  Chain(TxSteps, Seq(Instructions), R, s \o <<tx_>>, T)
<1>1. Chain(TxSteps, Seq(Instructions), S, <<tx_>>, T)
  BY OneTx
<1> QED BY <1>1, ChainJoin

\* Positions that the account lacks are registered, whatever the order.
LEMMA SetupSwap ==
  ASSUME Registered \in SUBSET Positions, NEW mints \in SUBSET PoolPositions, IsFiniteSet(mints)
  PROVE  Leads(Registered, setup_swap(mints), Registered \cup mints)
<1> DEFINE R == Registered
           D == mints \ R
           s == SetToSeq(D)
           n == Len(s)
           u == setup_swap(mints)
           g == [k \in 0 .. n |-> R \cup {s[i] : i \in 1 .. k}]
<1>1. /\ s \in Seq(D) /\ s \in [1 .. n -> D]
      /\ \A x \in D : \E i \in 1 .. n : s[i] = x
      /\ \A i, j \in 1 .. n : s[i] = s[j] => i = j
  <2>1. IsFiniteSet(D)
    BY FS_Difference
  <2> HIDE DEF D
  <2> QED BY <2>1, Listed
<1>2. n \in Nat
  BY <1>1
<1>3. u = [i \in 1 .. n |-> register_ix(s[i])]
  BY DEF setup_swap
<1> HIDE DEF s, n, u
<1>4. D \subseteq PoolPositions \cup Deposits /\ D \subseteq Positions /\ D \cap R = {}
  BY PositionSets
<1>5. \A i \in 1 .. n : s[i] \in D /\ u[i] = register_ix(s[i]) /\ Shape(u[i], {}, {s[i]}, {})
  BY <1>1, <1>3, <1>4, MarginShapes
<1>6. u \in [1 .. n -> Instructions] /\ Len(u) = n /\ u \in Seq(Instructions)
  <2>1. u \in [1 .. n -> Instructions]
    BY <1>3, <1>5 DEF Shape
  <2> QED BY <1>2, <2>1
<1> HIDE DEF D, R
<1>7. g \in [0 .. n -> SUBSET Positions] /\ g[0] = R /\ g[n] = R \cup D
  <2>1. \A k \in 0 .. n : \A i \in 1 .. k : i \in 1 .. n
    BY <1>2
  <2>2. R \in SUBSET Positions
    BY DEF R
  <2>3. g \in [0 .. n -> SUBSET Positions]
    BY <1>4, <1>5, <2>1, <2>2
  <2>4. 0 \in 0 .. n /\ n \in 0 .. n /\ 1 .. 0 = {}
    BY <1>2
  <2>5. {s[i] : i \in 1 .. n} = D
    BY <1>1
  <2> QED BY <2>3, <2>4, <2>5
<1>8. ASSUME NEW k \in 1 .. n PROVE <<g[k - 1], u[k], g[k]>> \in IxSteps
  <2>1. k - 1 \in 0 .. n /\ k \in 0 .. n /\ (1 .. k) = (1 .. k - 1) \cup {k} /\ \A i \in 1 .. k - 1 : i \in 1 .. n /\ i # k
    BY <1>2
  <2>2. g[k] = g[k - 1] \cup {s[k]} /\ g[k - 1] = R \cup {s[i] : i \in 1 .. k - 1}
    BY <2>1
  <2>3. s[k] \notin g[k - 1]
    BY <1>1, <1>4, <1>5, <2>1, <2>2
  <2>4. g[k - 1] \in SUBSET Positions
    BY <1>7, <2>1
  <2> HIDE DEF g
  <2>5. {} \subseteq g[k - 1] /\ {s[k]} \cap g[k - 1] = {}
    BY <2>3
  <2>6. <<g[k - 1], u[k], (g[k - 1] \cup {s[k]}) \ {}>> \in IxSteps
    BY <1>5, <2>4, <2>5, OneLeads
  <2>7. (g[k - 1] \cup {s[k]}) \ {} = g[k]
    BY <2>2
  <2> QED BY <2>6, <2>7
<1> HIDE DEF g
<1>9. Leads(R, u, R \cup D)
  BY <1>6, <1>7, <1>8 DEF Leads, Chain
<1>10. R \cup D = R \cup mints
  BY DEF D
<1> QED BY <1>9, <1>10 DEF R, u

\* swaps
LEMMA SwapSetUp ==
  ASSUME Registered \in SUBSET Positions, NEW p \in ClientPools, NEW q \in ClientPools
  PROVE  /\ note(p) \in Registered => SetUp(Registered, swap(p, q))
         /\ SetUp(Registered, route_swap_txs(p, q))
<1> DEFINE R == Registered
           both == {note(p), note(q)}
           T == R \cup both
           w == invoke_ix(swap_ix(p, q))
           v == adapter_invoke_ix(swap_ix(p, q))
<1>1. /\ both \in SUBSET PoolPositions /\ both \in SUBSET Positions /\ T \in SUBSET Positions /\ R \in SUBSET Positions
      /\ both \in SUBSET T /\ note(q) \in Positions /\ note(q) \in PoolPositions \cup Deposits
  BY PositionSets DEF PoolPositions
<1>2. Shape(w, both, {}, {}) /\ Shape(v, both, {}, {})
  BY <1>1, CallShapes DEF swap_ix
<1>3. IsFiniteSet(both)
  <2>1. IsFiniteSet({note(p)})
    BY FS_Singleton
  <2>2. IsFiniteSet({note(p)} \cup {note(q)})
    BY <2>1, FS_AddElement
  <2>3. {note(p)} \cup {note(q)} = both
    OBVIOUS
  <2> QED BY <2>2, <2>3
<1>4. ASSUME note(p) \in R PROVE SetUp(R, swap(p, q))
  <2> DEFINE x == register_ix(note(q))
             y == invoke_ix(margin_refresh_position_ix(q))
             S == R \cup {note(q)}
             a == IF note(q) \in Registered THEN << >> ELSE << <<x>>, <<y>> >>
  <2>1. swap(p, q) = a \o << <<w>> >>
    BY DEF swap
  <2>2. Shape(x, {}, {note(q)}, {}) /\ Shape(y, {}, {}, {})
    BY <1>1, MarginShapes, PoolShapes
  <2>3. S = T /\ S \in SUBSET Positions
    BY <1>1, <1>4
  <2> HIDE DEF w, x, y
  <2>4. Chain(TxSteps, Seq(Instructions), R, a, S)
    <3>1. CASE note(q) \in R
      <4>1. S = R /\ a = <<>>
        BY <3>1
      <4> QED BY <4>1, ChainEmpty
    <3>2. CASE note(q) \notin R
      <4> DEFINE c == <<x>>
                 d == <<y>>
      <4>1. a = <<c, d>>
        BY <3>2
      <4>2. Leads(R, c, S)
        BY <1>1, <2>2, <3>2, RegisterLeads
      <4>3. Leads(S, d, S)
        <5>1. {} \in SUBSET S
          OBVIOUS
        <5> HIDE DEF S
        <5> QED BY <2>2, <2>3, <5>1, UseLeads
      <4> HIDE DEF a, c, d, S, R
      <4>4. Chain(TxSteps, Seq(Instructions), R, <<c>>, S)
        BY <1>1, <2>3, <4>2, OneTx
      <4>5. Chain(TxSteps, Seq(Instructions), R, <<c>> \o <<d>>, S)
        BY <2>3, <4>3, <4>4, ThenTx
      <4> QED BY <4>1, <4>5, PairJoins
    <3> QED BY <3>1, <3>2
  <2>5. Leads(S, <<w>>, S)
    <3>1. both \in SUBSET S
      BY <1>1, <2>3
    <3> HIDE DEF S, both
    <3> QED BY <1>2, <2>3, <3>1, UseLeads
  <2> HIDE DEF a, S, R
  <2>6. Chain(TxSteps, Seq(Instructions), R, a \o << <<w>> >>, S)
    BY <2>3, <2>4, <2>5, ThenTx
  <2> QED BY <2>1, <2>3, <2>6 DEF SetUp
<1>5. SetUp(R, route_swap_txs(p, q))
  <2> DEFINE setup == setup_swap(both)
             a == IF setup = << >> THEN << >> ELSE <<setup>>
  <2>1. route_swap_txs(p, q) = a \o << <<v>> >>
    BY DEF route_swap_txs
  <2>2. Leads(R, setup, T)
    BY <1>1, <1>3, SetupSwap
  <2> HIDE DEF setup, R, T, v, both
  <2>3. Chain(TxSteps, Seq(Instructions), R, a, T)
    <3>1. CASE setup = <<>>
      <4>1. Leads(R, <<>>, T)
        BY <2>2, <3>1
      <4>2. R = T
        BY <4>1 DEF Leads, Chain
      <4> QED BY <1>1, <3>1, <4>2, ChainEmpty
    <3>2. CASE setup # <<>>
      BY <1>1, <2>2, <3>2, OneTx
    <3> QED BY <3>1, <3>2
  <2>4. Leads(T, <<v>>, T)
    BY <1>1, <1>2, UseLeads
  <2> HIDE DEF a
  <2>5. Chain(TxSteps, Seq(Instructions), R, a \o << <<v>> >>, T)
    BY <1>1, <2>3, <2>4, ThenTx
  <2> QED BY <1>1, <2>1, <2>5 DEF SetUp
<1> QED BY <1>4, <1>5

LEMMA PositionsFinite == IsFiniteSet(Positions)
<1> DEFINE f == [p \in ClientPools |-> note(p)]
           g == [p \in ClientPools |-> loan(p)]
           h == [t \in ClientTokens |-> token(t)]
           c == [m \in ClientMarkets |-> claims(m)]
           d == [m \in ClientMarkets |-> collateral(m)]
<1>1. /\ f \in Surjection(ClientPools, Notes)
      /\ g \in Surjection(ClientPools, {loan(p) : p \in ClientPools})
      /\ h \in Surjection(ClientTokens, Deposits)
      /\ c \in Surjection(ClientMarkets, {claims(m) : m \in ClientMarkets})
      /\ d \in Surjection(ClientMarkets, {collateral(m) : m \in ClientMarkets})
  BY DEF Surjection, Notes, Deposits
<1>2. /\ IsFiniteSet(Notes) /\ IsFiniteSet({loan(p) : p \in ClientPools}) /\ IsFiniteSet(Deposits)
      /\ IsFiniteSet({claims(m) : m \in ClientMarkets})
      /\ IsFiniteSet({collateral(m) : m \in ClientMarkets})
  BY <1>1, MarginClientAssumption, FS_Surjection
<1>3. IsFiniteSet(PoolPositions) /\ IsFiniteSet(TermPositions)
  BY <1>2, FS_Union DEF PoolPositions, TermPositions
<1>4. IsFiniteSet(PoolPositions \cup Deposits)
  BY <1>2, <1>3, FS_Union
<1> QED BY <1>3, <1>4, FS_Union DEF Positions

\* The empty positions are closed, whatever the order.
LEMMA CloseEmptySetUp ==
  ASSUME Registered \in SUBSET Positions
  PROVE  SetUp(Registered, close_empty_positions)
<1> DEFINE R == Registered
           D == {pos \in Registered : ~held[pos].funded}
           s == SetToSeq(D)
           n == Len(s)
           u == [i \in 1 .. n |-> IF s[i][1] = "loan" THEN adapter_invoke_ix(close_loan_ix(s[i][2])) ELSE close_ix(s[i])]
           g == [k \in 0 .. n |-> R \ {s[i] : i \in 1 .. k}]
<1>1. /\ s \in Seq(D) /\ s \in [1 .. n -> D]
      /\ \A i, j \in 1 .. n : s[i] = s[j] => i = j
  <2>1. IsFiniteSet(D)
    BY PositionsFinite, FS_Subset
  <2> HIDE DEF D
  <2> QED BY <2>1, Listed
<1>2. n \in Nat
  BY <1>1
<1>3. close_empty_positions = << u >>
  BY DEF close_empty_positions
<1>4. D \subseteq R /\ R \subseteq Positions
  OBVIOUS
<1> HIDE DEF s, n, D
<1>5. ASSUME NEW i \in 1 .. n PROVE s[i] \in D /\ Shape(u[i], {s[i]}, {}, {s[i]})
  <2>1. s[i] \in D /\ s[i] \in Positions
    BY <1>1, <1>4
  <2>2. CASE s[i][1] = "loan"
    <3>1. PICK p \in ClientPools : s[i] = loan(p)
      BY <2>1, <2>2 DEF Positions, PoolPositions, Notes, Deposits, TermPositions, note, loan, token, claims, collateral
    <3>2. s[i][2] = p
      BY <3>1 DEF loan
    <3>3. u[i] = adapter_invoke_ix(close_loan_ix(p))
      BY <2>2, <3>2
    <3> HIDE DEF u
    <3> QED BY <2>1, <3>1, <3>3, PoolShapes
  <2>3. CASE s[i][1] # "loan"
    <3>1. u[i] = close_ix(s[i])
      BY <2>3
    <3> HIDE DEF u
    <3> QED BY <2>1, <3>1, MarginShapes
  <2> QED BY <2>2, <2>3
<1>6. u \in [1 .. n -> Instructions] /\ Len(u) = n /\ u \in Seq(Instructions)
  <2>1. u = [i \in 1 .. n |-> u[i]]
    OBVIOUS
  <2> HIDE DEF u
  <2>2. u \in [1 .. n -> Instructions]
    BY <1>5, <2>1 DEF Shape
  <2> QED BY <1>2, <2>2
<1> HIDE DEF R, u
<1>7. g \in [0 .. n -> SUBSET Positions] /\ g[0] = R
  <2>1. 0 \in 0 .. n /\ n \in 0 .. n /\ 1 .. 0 = {}
    BY <1>2
  <2> QED BY <1>4, <2>1
<1>8. ASSUME NEW k \in 1 .. n PROVE <<g[k - 1], u[k], g[k]>> \in IxSteps
  <2>1. k - 1 \in 0 .. n /\ k \in 0 .. n /\ (1 .. k) = (1 .. k - 1) \cup {k} /\ \A i \in 1 .. k - 1 : i \in 1 .. n /\ i # k
    BY <1>2
  <2>2. g[k] = g[k - 1] \ {s[k]} /\ g[k - 1] = R \ {s[i] : i \in 1 .. k - 1}
    BY <2>1
  <2>3. s[k] \in g[k - 1]
    BY <1>1, <1>4, <1>5, <2>1, <2>2
  <2>4. g[k - 1] \in SUBSET Positions
    BY <1>7, <2>1
  <2> HIDE DEF g
  <2>5. {s[k]} \subseteq g[k - 1] /\ {} \cap g[k - 1] = {}
    BY <2>3
  <2>6. <<g[k - 1], u[k], (g[k - 1] \cup {}) \ {s[k]}>> \in IxSteps
    BY <1>5, <2>4, <2>5, OneLeads
  <2>7. (g[k - 1] \cup {}) \ {s[k]} = g[k]
    BY <2>2
  <2> QED BY <2>6, <2>7
<1>9. n \in 0 .. n
  BY <1>2
<1>10. g[n] \in SUBSET Positions
  BY <1>7, <1>9
<1> HIDE DEF g
<1>11. Leads(R, u, g[n])
  BY <1>6, <1>7, <1>8 DEF Leads, Chain
<1>12. SetUp(R, << u >>)
  BY <1>4, <1>10, <1>11, OneTx
<1> QED BY <1>3, <1>12 DEF R

\* what a liquidator asks for
LEMMA LiquidateSetUp ==
  ASSUME Registered \in SUBSET Positions, Paired(Registered), NEW refresh_ \in BOOLEAN
  PROVE  SetUp(Registered, liquidate_begin_builder(refresh_))
<1> DEFINE R == Registered
           a == refresh_all_pool_positions(R)
           b == refresh_deposit_positions(R)
           c == a \o b
           d == IF refresh_ THEN FlattenSeq(c) ELSE << >>
           z == liquidate_begin_ix
<1>1. a \in Seq(RefreshTxs(R)) /\ b \in Seq(RefreshTxs(R)) /\ R \in SUBSET Positions
  BY AllRefreshed
<1>2. liquidate_begin_builder(refresh_) = << d \o <<z>> >>
  BY DEF liquidate_begin_builder
<1>3. Shape(z, {}, {}, {})
  BY MarginShapes
<1> HIDE DEF R, a, b, z
<1>4. c \in Seq(RefreshTxs(R))
  BY <1>1
<1> HIDE DEF c
<1>5. Leads(R, d, R)
  <2>1. CASE refresh_
    BY <1>1, <1>4, <2>1, RefreshersSetUp
  <2>2. CASE ~refresh_
    BY <1>1, <2>2, ChainEmpty DEF Leads
  <2> QED BY <2>1, <2>2
<1> HIDE DEF d
<1>6. Leads(R, d \o <<z>>, R)
  <2>1. {} \in SUBSET R
    OBVIOUS
  <2> QED BY <1>1, <1>3, <1>5, <2>1, ThenUse
<1> QED BY <1>1, <1>2, <1>6, OneTx DEF R

\* an order, after everything has been refreshed
LEMMA OrderSetUp ==
  ASSUME Registered \in SUBSET Positions, Paired(Registered), NEW m \in ClientMarkets,
         {claims(m), collateral(m)} \subseteq Registered
  PROVE  /\ SetUp(Registered, refresh_and_invoke_signed(m))
         /\ adapter_invoke_ix(order_ix(m)) \in Instructions
<1> DEFINE R == Registered
           needs == {claims(m), collateral(m)}
           a == canonical_position_refresher(R)
           z == adapter_invoke_ix(order_ix(m))
<1>1. a \in Seq(RefreshTxs(R)) /\ R \in SUBSET Positions /\ needs \in SUBSET R /\ needs \in SUBSET Positions
  BY AllRefreshed
<1>2. refresh_and_invoke_signed(m) = a \o << <<z>> >>
  BY DEF refresh_and_invoke_signed
<1>3. Shape(z, needs, {}, {})
  BY <1>1, CallShapes DEF order_ix
<1>4. z \in Instructions
  BY <1>3 DEF Shape
<1> HIDE DEF R, a, z, needs
<1>5. Chain(TxSteps, Seq(Instructions), R, a, R)
  BY <1>1, RefreshersSetUp
<1>6. Leads(R, <<z>>, R)
  BY <1>1, <1>3, UseLeads
<1>7. Chain(TxSteps, Seq(Instructions), R, a \o << <<z>> >>, R)
  BY <1>1, <1>5, <1>6, ThenTx
<1> QED BY <1>1, <1>2, <1>4, <1>7 DEF SetUp, R, z

-----------------------------------------------------------------------------
(* The inductive invariant of the client *)

\* All but the last transaction refresh, and the last is an order; no position of the
\* account stays stale until then.
OrderIsRefreshed ==
  plan # <<>> =>
    LET n == Len(plan)
    IN  /\ \A i \in 1 .. n - 1 : plan[i] \in RefreshTxs(Positions)
        /\ \A pos \in Registered : held[pos].fresh \/ \E i \in 1 .. n - 1 : pos \in plan[i][1].prices
        /\ \E ix \in Instructions : plan[n] = <<ix>> /\ ix.signed_by = "adapter_invoke" /\ ix.adds = {} /\ ix.drops = {}

\* CalmPlansLand speaks of outcomes only, not of what is still to be sent.
ClientInv ==
  /\ held \in Helds /\ Paired(Registered)
  /\ plan \in Seq(Seq(Instructions))
  /\ session = "none" => plan = <<>> /\ outcome = "none"
  /\ calm /\ ordered => SetUp(Registered, plan) /\ outcome \notin {"unregistered", "duplicate"}
  /\ calm /\ ordered /\ session = "refreshed" => outcome # "stale" /\ OrderIsRefreshed

LEMMA HeldDomain ==
  ASSUME held \in Helds
  PROVE  Registered \in SUBSET Positions /\ held \in [Registered -> Price]
BY DEF Helds, Registered

LEMMA NothingSetUp ==
  ASSUME NEW R \in SUBSET Positions
  PROVE  SetUp(R, <<>>)
BY ChainEmpty DEF SetUp

LEMMA ClientInitial == InitClient => ClientInv
<1> SUFFICES ASSUME InitClient PROVE ClientInv
  OBVIOUS
<1>1. /\ held = << >> /\ plan = << >> /\ session = "none" /\ outcome = "none"
  BY DEF InitClient
<1>2. DOMAIN held = {} /\ held \in [{} -> Price]
  BY <1>1
<1>3. held \in Helds /\ Registered = {}
  BY <1>2 DEF Helds, Registered
<1>4. SetUp(Registered, <<>>)
  BY <1>3, NothingSetUp
<1>5. Paired(Registered)
  BY <1>3 DEF Paired
<1>6. plan \in Seq(Seq(Instructions))
  BY <1>1
<1> HIDE DEF InitClient
<1> QED BY <1>1, <1>3, <1>4, <1>5, <1>6 DEF ClientInv

\* What is built is a plan that sets up what it uses.
LEMMA BuiltKeeps ==
  ASSUME ClientInv, NEW kind, kind # "none", NEW txs_, SetUp(Registered, txs_), Built(kind, txs_)
  PROVE  (kind = "refreshed" => OrderIsRefreshed') => ClientInv'
<1>1. /\ session = "none" /\ plan' = txs_ /\ session' = kind /\ outcome' = "none"
      /\ UNCHANGED held
  BY DEF Built
<1>2. held' \in Helds /\ Registered' = Registered /\ Paired(Registered')
  BY <1>1 DEF ClientInv, Registered
<1>3. txs_ \in Seq(Seq(Instructions))
  BY DEF SetUp, Chain
<1>4. SetUp(Registered', plan')
  BY <1>1, <1>2
<1> SUFFICES ASSUME kind = "refreshed" => OrderIsRefreshed' PROVE ClientInv'
  OBVIOUS
<1> HIDE DEF Built
<1> QED BY <1>1, <1>2, <1>3, <1>4 DEF ClientInv

LEMMA PoolOperationKeeps == ClientInv /\ PoolOperation => ClientInv'
<1> SUFFICES ASSUME ClientInv, PoolOperation PROVE ClientInv'
  OBVIOUS
<1>1. Registered \in SUBSET Positions
  BY HeldDomain DEF ClientInv
<1>2. \E txs_ : SetUp(Registered, txs_) /\ Built("built", txs_)
  <2>1. PICK p \in ClientPools :
    \/ \E source \in {"account", "anyone"} :
         \/ Built("built", pool_deposit(p, source))
         \/ Built("built", pool_deposit_deprecated(p, source))
         \/ loan(p) \in Registered /\ Built("built", pool_repay(p, source))
    \/ Built("built", borrow(p)) \/ Built("built", margin_repay(p)) \/ Built("built", withdraw(p))
    \/ \E pos \in {note(p), loan(p)} \cap Registered : Built("built", close_pool_position(pos))
    \/ {note(p), loan(p)} \subseteq Registered /\ Built("built", close_pool_positions(p))
    \/ \E q \in ClientPools \ {p} : \/ note(p) \in Registered /\ Built("built", swap(p, q))
                                    \/ Built("built", route_swap_txs(p, q))
    BY DEF PoolOperation
  <2>2. CASE \E source \in {"account", "anyone"} :
         \/ Built("built", pool_deposit(p, source))
         \/ Built("built", pool_deposit_deprecated(p, source))
         \/ loan(p) \in Registered /\ Built("built", pool_repay(p, source))
    BY <1>1, <2>2, DepositSetUp, SimpleSetUp
  <2>3. CASE Built("built", borrow(p)) \/ Built("built", margin_repay(p)) \/ Built("built", withdraw(p))
    BY <1>1, <2>3, LoanSetUp, SimpleSetUp
  <2>4. CASE \/ \E pos \in {note(p), loan(p)} \cap Registered : Built("built", close_pool_position(pos))
             \/ {note(p), loan(p)} \subseteq Registered /\ Built("built", close_pool_positions(p))
    BY <1>1, <2>4, ClosePoolSetUp
  <2>5. CASE \E q \in ClientPools \ {p} : \/ note(p) \in Registered /\ Built("built", swap(p, q))
                                          \/ Built("built", route_swap_txs(p, q))
    BY <1>1, <2>5, SwapSetUp
  <2> QED BY <2>1, <2>2, <2>3, <2>4, <2>5
<1> QED BY <1>2, BuiltKeeps

\* The order of RefreshingProxy comes after the refreshers of every position.
LEMMA OrderBuilt ==
  ASSUME ClientInv, ~builder, NEW m \in ClientMarkets, {claims(m), collateral(m)} \subseteq Registered,
         Built("refreshed", refresh_and_invoke_signed(m))
  PROVE  OrderIsRefreshed'
<1> DEFINE R == Registered
           a == canonical_position_refresher(R)
           n == Len(a)
           z == adapter_invoke_ix(order_ix(m))
           t == << <<z>> >>
           u == a \o t
<1>1. R \in SUBSET Positions /\ Paired(R)
  BY HeldDomain DEF ClientInv
<1>2. a \in Seq(RefreshTxs(R)) /\ R \subseteq PricedBy(a) /\ z \in Instructions
  BY <1>1, AllRefreshed, OrderSetUp
<1>3. z.signed_by = "adapter_invoke" /\ z.adds = {} /\ z.drops = {}
  BY DEF adapter_invoke_ix, order_ix, Called, Instruction
<1>4. plan' = u /\ held' = held /\ Registered' = R
  BY DEF Built, refresh_and_invoke_signed, Registered
<1> HIDE DEF R, a, z
<1>5. RefreshTxs(R) \subseteq RefreshTxs(Positions)
  BY <1>1 DEF RefreshTxs, Refreshers
<1>6. n \in Nat /\ \A i \in 1 .. n : a[i] \in RefreshTxs(R)
  BY <1>2
<1>7. Len(u) = n + 1 /\ u[n + 1] = <<z>> /\ \A i \in 1 .. n : u[i] = a[i]
  <2> DEFINE X == RefreshTxs(R) \cup {<<z>>}
  <2>1. a \in Seq(X) /\ t \in Seq(X) /\ Len(t) = 1 /\ t[1] = <<z>>
    <3>1. t \in Seq(X) /\ Len(t) = 1 /\ t[1] = <<z>>
      OBVIOUS
    <3>2. a \in Seq(X)
      <4>1. a = [i \in 1 .. n |-> a[i]]
        BY <1>2
      <4> HIDE DEF n
      <4>2. a \in [1 .. n -> X]
        BY <1>6, <4>1
      <4> QED BY <1>6, <4>2
    <3> QED BY <3>1, <3>2
  <2> HIDE DEF X, t
  <2>2. /\ Len(u) = Len(a) + Len(t)
        /\ \A k \in 1 .. Len(a) : u[k] = a[k]
        /\ \A k \in 1 .. Len(t) : u[Len(a) + k] = t[k]
    <3>1. a \in Seq(X) /\ t \in Seq(X)
      BY <2>1
    <3> QED BY <3>1
  <2>3. 1 \in 1 .. Len(t)
    BY <2>1
  <2> QED BY <2>1, <2>2, <2>3
<1> HIDE DEF n, u, t
<1>8. (n + 1) - 1 = n
  BY <1>6
<1>9. \A pos \in R : \E i \in 1 .. n : pos \in u[i][1].prices
  <2>1. \A pos \in R : \E x \in ToSet(a) : pos \in x[1].prices
    BY <1>2 DEF PricedBy
  <2>2. ToSet(a) = {a[i] : i \in 1 .. n}
    BY <1>2 DEF ToSet, n
  <2>3. \A pos \in R : \E i \in 1 .. n : pos \in a[i][1].prices
    BY <2>1, <2>2
  <2> QED BY <1>7, <2>3
<1> QED BY <1>2, <1>3, <1>4, <1>5, <1>6, <1>7, <1>8, <1>9 DEF OrderIsRefreshed

LEMMA AccountOperationKeeps == ClientInv /\ AccountOperation => ClientInv'
<1> SUFFICES ASSUME ClientInv, AccountOperation PROVE ClientInv'
  OBVIOUS
<1>1. Registered \in SUBSET Positions /\ Paired(Registered)
  BY HeldDomain DEF ClientInv
<1>2. CASE \E t \in ClientTokens : \/ Built("built", transfer_deposit(t))
                                   \/ token(t) \notin Registered /\ Built("built", create_deposit_position(t))
                                   \/ token(t) \in Registered /\ Built("built", close_deposit_position(t))
  <2>1. \E txs_ : SetUp(Registered, txs_) /\ Built("built", txs_)
    BY <1>1, <1>2, SimpleSetUp
  <2> QED BY <2>1, BuiltKeeps
<1>3. CASE Built("built", close_empty_positions)
  BY <1>1, <1>3, CloseEmptySetUp, BuiltKeeps
<1>4. CASE \E refresh_ \in BOOLEAN : builder /\ Built("built", liquidate_begin_builder(refresh_))
  <2>1. \E txs_ : SetUp(Registered, txs_) /\ Built("built", txs_)
    BY <1>1, <1>4, LiquidateSetUp
  <2> QED BY <2>1, BuiltKeeps
<1>5. CASE Built("built", liquidate_end)
  <2>1. \E txs_ : SetUp(Registered, txs_) /\ Built("built", txs_)
    BY <1>1, <1>5, SimpleSetUp
  <2> QED BY <2>1, BuiltKeeps
<1>6. CASE \E m \in ClientMarkets : /\ {claims(m), collateral(m)} \subseteq Registered /\ ~builder
                                   /\ Built("refreshed", refresh_and_invoke_signed(m))
  <2>1. PICK m \in ClientMarkets : /\ {claims(m), collateral(m)} \subseteq Registered /\ ~builder
                                   /\ Built("refreshed", refresh_and_invoke_signed(m))
    BY <1>6
  <2>2. OrderIsRefreshed'
    BY <2>1, OrderBuilt
  <2>3. SetUp(Registered, refresh_and_invoke_signed(m))
    BY <1>1, <2>1, OrderSetUp
  <2>4. PICK kind, txs_ : kind = "refreshed" /\ SetUp(Registered, txs_) /\ Built(kind, txs_)
    BY <2>1, <2>3
  <2>5. kind # "none"
    BY <2>4
  <2>6. (kind = "refreshed" => OrderIsRefreshed') => ClientInv'
    BY <2>4, <2>5, BuiltKeeps
  <2> QED BY <2>2, <2>6
<1>7. \/ \E t \in ClientTokens : \/ Built("built", transfer_deposit(t))
                                 \/ token(t) \notin Registered /\ Built("built", create_deposit_position(t))
                                 \/ token(t) \in Registered /\ Built("built", close_deposit_position(t))
      \/ Built("built", close_empty_positions)
      \/ \E refresh_ \in BOOLEAN : builder /\ Built("built", liquidate_begin_builder(refresh_))
      \/ builder /\ Built("built", liquidate_end)
      \/ \E m \in ClientMarkets : /\ {claims(m), collateral(m)} \subseteq Registered /\ ~builder
                                  /\ Built("refreshed", refresh_and_invoke_signed(m))
  BY Zenon DEF AccountOperation
<1>8. CASE builder /\ Built("built", liquidate_end)
  BY <1>5, <1>8
<1> QED BY <1>2, <1>3, <1>4, <1>6, <1>7, <1>8, Zenon

\* A transaction of one instruction
LEMMA ExecutedOne ==
  ASSUME NEW ix \in Instructions, held \in Helds, NEW r \in Executed(<<ix>>)
  PROVE  \E q \in Ends(held, ix) : r.end = q.end /\ (r.end = "landed" => r = q)
<1> DEFINE tt == <<ix>>
<1>1. tt \in Seq(Instructions) /\ Len(tt) = 1 /\ tt[1] = ix
  OBVIOUS
<1> HIDE DEF tt
<1>2. PICK h : /\ h[0] = {[held |-> held, end |-> "landed"]}
               /\ \A k \in 1 .. Len(tt) : h[k] = Continued(h[k - 1], tt[k])
               /\ Executed(tt) = {IF q.end = "landed" THEN q ELSE [q EXCEPT !.held = held] : q \in h[Len(tt)]}
  BY <1>1, ExecutedSteps
<1>3. 1 \in 1 .. Len(tt) /\ 1 - 1 = 0
  BY <1>1
<1>4. h[1] = Continued(h[0], ix)
  BY <1>1, <1>2, <1>3
<1>5. h[1] = Ends(held, ix)
  BY <1>2, <1>4 DEF Continued
<1>6. PICK q \in Ends(held, ix) : r = IF q.end = "landed" THEN q ELSE [q EXCEPT !.held = held]
  BY <1>1, <1>2, <1>5 DEF tt
<1>7. q = [held |-> q.held, end |-> q.end]
  <2>1. q \in Results
    BY OneEnds
  <2> QED BY <2>1 DEF Results
<1>8. CASE q.end = "landed"
  BY <1>6, <1>8
<1>9. CASE q.end # "landed"
  <2>1. r.end = q.end
    BY <1>6, <1>7, <1>9
  <2> QED BY <1>9, <2>1
<1> QED BY <1>8, <1>9

\* A refresher is not refused for a stale price, and lets no price become one.
LEMMA RefresherEnds ==
  ASSUME NEW a \in Helds, NEW ix \in Refreshers(Positions), NEW r \in Ends(a, ix)
  PROVE  /\ r.end # "stale"
         /\ r.end = "landed" => /\ DOMAIN r.held = DOMAIN a
                               /\ \A pos \in DOMAIN a : a[pos].fresh \/ pos \in ix.prices => r.held[pos].fresh
<1>1. ix.signed_by = "anyone" /\ ix.adds = {} /\ ix.drops = {} /\ ix.moves = {}
  BY DEF Refreshers
<1>2. CASE Refused(a, ix) # "no"
  <2>1. r.end = Refused(a, ix)
    BY <1>2 DEF Ends
  <2>2. Refused(a, ix) \notin {"stale", "landed"}
    BY DEF Refused
  <2> QED BY <2>1, <2>2
<1>3. CASE Refused(a, ix) = "no"
  <2>1. PICK after \in Moved(a, ix) : r = [held |-> after, end |-> "landed"]
    BY <1>1, <1>3 DEF Ends
  <2>2. PICK funded \in SUBSET ix.moves :
          after = [pos \in (DOMAIN a \cup ix.adds) \ ix.drops |->
                     IF pos \notin DOMAIN a THEN Unpriced
                     ELSE [funded |-> IF pos \in ix.moves THEN pos \in funded ELSE a[pos].funded,
                           fresh |-> a[pos].fresh \/ pos \in ix.prices]]
    BY DEF Moved
  <2>3. (DOMAIN a \cup ix.adds) \ ix.drops = DOMAIN a
    BY <1>1
  <2>4. DOMAIN after = DOMAIN a
    BY <2>2, <2>3
  <2>5. ASSUME NEW pos \in DOMAIN a, a[pos].fresh \/ pos \in ix.prices PROVE after[pos].fresh
    BY <2>2, <2>3, <2>5
  <2> QED BY <2>1, <2>4, <2>5
<1> QED BY <1>2, <1>3

\* When every price is fresh, an order is not refused for a stale one.
LEMMA OrderEnds ==
  ASSUME NEW a \in Helds, NEW ix \in Instructions, NEW r \in Ends(a, ix), ix.signed_by = "adapter_invoke",
         ix.adds = {}, ix.drops = {}, \A pos \in DOMAIN a : a[pos].fresh
  PROVE  r.end # "stale"
<1>2. CASE Refused(a, ix) # "no"
  <2>1. r.end = Refused(a, ix)
    BY <1>2 DEF Ends
  <2>2. Refused(a, ix) \notin {"stale", "landed"}
    BY DEF Refused
  <2> QED BY <2>1, <2>2
<1>3. CASE Refused(a, ix) = "no"
  <2>1. PICK after \in Moved(a, ix) : \E e \in ValuationEnds(after, ix.signed_by) : r = [held |-> after, end |-> e]
    BY <1>3 DEF Ends
  <2>2. PICK funded \in SUBSET ix.moves :
          after = [pos \in (DOMAIN a \cup ix.adds) \ ix.drops |->
                     IF pos \notin DOMAIN a THEN Unpriced
                     ELSE [funded |-> IF pos \in ix.moves THEN pos \in funded ELSE a[pos].funded,
                           fresh |-> a[pos].fresh \/ pos \in ix.prices]]
    BY DEF Moved
  <2>3. (DOMAIN a \cup ix.adds) \ ix.drops = DOMAIN a
    OBVIOUS
  <2>4. \A pos \in DOMAIN after : after[pos].fresh
    BY <2>2, <2>3
  <2>5. Stale(after) = {}
    BY <2>4 DEF Stale
  <2>6. ValuationEnds(after, ix.signed_by) = {"landed", "unhealthy"}
    BY <2>5 DEF ValuationEnds
  <2> QED BY <2>1, <2>6
<1> QED BY <1>2, <1>3

\* A sequence without any one element
LEMMA WithoutOne ==
  ASSUME NEW X, NEW s \in Seq(X), NEW i \in DOMAIN s
  PROVE  RemoveAt(s, i) \in Seq(X)
<1> DEFINE n == Len(s)
           u == SubSeq(s, 1, i - 1)
           v == SubSeq(s, i + 1, n)
<1>1. n \in Nat /\ i \in Nat /\ 1 <= i /\ i <= n
  OBVIOUS
<1>2. u \in Seq(X)
  <2>1. 1 \in Nat \ {0} /\ i - 1 \in Nat /\ i - 1 <= n /\ 1 <= (i - 1) + 1
    BY <1>1
  <2> QED BY <2>1, PartOf
<1>3. v \in Seq(X)
  <2>1. i + 1 \in Nat \ {0} /\ n \in Nat /\ n <= Len(s) /\ i + 1 <= n + 1
    BY <1>1
  <2> QED BY <2>1, PartOf
<1> HIDE DEF u, v
<1>4. u \o v \in Seq(X)
  BY <1>2, <1>3
<1> QED BY <1>4 DEF RemoveAt, u, v, n

\* Positions in markets come and go in pairs, or not at all.
LEMMA PairsStay ==
  ASSUME NEW R, NEW T, Paired(R), T \cap TermPositions = R \cap TermPositions
  PROVE  Paired(T)
<1>1. \A m \in ClientMarkets : claims(m) \in TermPositions /\ collateral(m) \in TermPositions
  BY DEF TermPositions
<1> QED BY <1>1 DEF Paired

\* Sending in order: what is left sets up what it uses.
LEMMA SendSetUp ==
  ASSUME ClientInv, calm, ordered, Send
  PROVE  SetUp(Registered', plan') /\ outcome' \notin {"unregistered", "duplicate"}
<1>1. PICK i \in {1} \cap DOMAIN plan : \E r_ \in Executed(plan[i]) :
        /\ held' = r_.held
        /\ plan' = IF ordered /\ r_.end # "landed" THEN << >> ELSE RemoveAt(plan, i)
        /\ outcome' = IF r_.end # "landed" THEN r_.end ELSE outcome
  BY DEF Send
<1>2. PICK r \in Executed(plan[1]) :
        /\ held' = r.held
        /\ plan' = IF r.end # "landed" THEN << >> ELSE RemoveAt(plan, 1)
        /\ outcome' = IF r.end # "landed" THEN r.end ELSE outcome
  BY <1>1
<1>3. plan \in Seq(Seq(Instructions)) /\ plan # <<>> /\ plan[1] \in Seq(Instructions)
  <2>1. plan \in Seq(Seq(Instructions)) /\ 1 \in DOMAIN plan
    BY <1>1 DEF ClientInv
  <2> QED BY <2>1
<1>4. PICK T \in SUBSET Positions : Chain(TxSteps, Seq(Instructions), Registered, plan, T)
  BY DEF ClientInv, SetUp
<1>5. PICK S \in SUBSET Positions :
        <<Registered, plan[1], S>> \in TxSteps /\ Chain(TxSteps, Seq(Instructions), S, RemoveAt(plan, 1), T)
  BY <1>3, <1>4, ChainRest
<1>6. Leads(Registered, plan[1], S)
  BY <1>5 DEF TxSteps
<1>7. r \in Results /\ (r.end = "landed" => DOMAIN r.held = S) /\ r.end \notin {"unregistered", "duplicate"}
  BY <1>2, <1>3, <1>6, ExecutedEnds DEF ClientInv
<1>8. Registered' = DOMAIN r.held /\ r.held \in Helds
  BY <1>2, <1>7 DEF Registered, Results
<1>9. CASE r.end = "landed"
  <2>1. Registered' = S /\ plan' = RemoveAt(plan, 1) /\ outcome' = outcome
    BY <1>2, <1>7, <1>8, <1>9
  <2>2. SetUp(S, RemoveAt(plan, 1))
    BY <1>5 DEF SetUp
  <2> QED BY <2>1, <2>2 DEF ClientInv
<1>10. CASE r.end # "landed"
  <2>1. plan' = <<>> /\ outcome' = r.end
    BY <1>2, <1>10
  <2>2. DOMAIN r.held \in SUBSET Positions
    BY <1>8 DEF Helds
  <2>3. SetUp(DOMAIN r.held, <<>>)
    BY <2>2, NothingSetUp
  <2> QED BY <1>7, <1>8, <2>1, <2>3
<1> QED BY <1>9, <1>10

\* A refresher leaves the rest refreshed for the order; the order finds no stale price.
LEMMA SendRefreshed ==
  ASSUME ClientInv, calm, ordered, session = "refreshed", Send
  PROVE  outcome' # "stale" /\ OrderIsRefreshed'
<1>1. PICK i \in {1} \cap DOMAIN plan : \E r_ \in Executed(plan[i]) :
        /\ held' = r_.held
        /\ plan' = IF ordered /\ r_.end # "landed" THEN << >> ELSE RemoveAt(plan, i)
        /\ outcome' = IF r_.end # "landed" THEN r_.end ELSE outcome
  BY DEF Send
<1>2. PICK r \in Executed(plan[1]) :
        /\ held' = r.held
        /\ plan' = IF r.end # "landed" THEN << >> ELSE RemoveAt(plan, 1)
        /\ outcome' = IF r.end # "landed" THEN r.end ELSE outcome
  BY <1>1
<1> DEFINE n == Len(plan)
<1>3. /\ n \in Nat /\ n >= 1 /\ RemoveAt(plan, 1) \in Seq(Seq(Instructions)) /\ Len(RemoveAt(plan, 1)) = n - 1
      /\ \A k \in 1 .. n - 1 : RemoveAt(plan, 1)[k] = plan[k + 1]
      /\ plan # <<>>
  <2>1. plan \in Seq(Seq(Instructions)) /\ 1 \in DOMAIN plan
    BY <1>1 DEF ClientInv
  <2>2. plan # <<>>
    BY <2>1
  <2> QED BY <2>1, <2>2, WithoutFirst
<1>4. /\ held \in Helds /\ outcome # "stale"
      /\ \A k \in 1 .. n - 1 : plan[k] \in RefreshTxs(Positions)
      /\ \A pos \in Registered : held[pos].fresh \/ \E k \in 1 .. n - 1 : pos \in plan[k][1].prices
      /\ \E ix \in Instructions : plan[n] = <<ix>> /\ ix.signed_by = "adapter_invoke" /\ ix.adds = {} /\ ix.drops = {}
  BY <1>3 DEF ClientInv, OrderIsRefreshed
<1> HIDE DEF n
<1>5. r.end # "landed" => (r.end # "stale" => outcome' # "stale" /\ OrderIsRefreshed')
  BY <1>2 DEF OrderIsRefreshed
<1>6. CASE n = 1
  <2>1. PICK ix \in Instructions : plan[1] = <<ix>> /\ ix.signed_by = "adapter_invoke" /\ ix.adds = {} /\ ix.drops = {}
    BY <1>4, <1>6
  <2>2. PICK q \in Ends(held, ix) : r.end = q.end
    BY <1>2, <1>4, <2>1, ExecutedOne
  <2>3. \A pos \in DOMAIN held : held[pos].fresh
    <3>1. 1 .. n - 1 = {}
      BY <1>6
    <3> QED BY <1>4, <3>1 DEF Registered
  <2>4. q.end # "stale"
    BY <1>4, <2>1, <2>2, <2>3, OrderEnds
  <2>5. CASE r.end = "landed"
    <3>1. plan' = RemoveAt(plan, 1) /\ outcome' = outcome
      BY <1>2, <2>5
    <3>2. RemoveAt(plan, 1) = <<>>
      BY <1>3, <1>6
    <3> QED BY <1>4, <3>1, <3>2 DEF OrderIsRefreshed
  <2> QED BY <1>5, <2>2, <2>4, <2>5
<1>7. CASE n # 1
  <2>1. n - 1 \in Nat /\ 1 \in 1 .. n - 1 /\ (n - 1) - 1 = n - 2 /\ n - 1 \in 1 .. n - 1 /\ (n - 1) + 1 = n
    BY <1>3, <1>7
  <2>2. PICK ix \in Refreshers(Positions) : plan[1] = <<ix>>
    BY <1>4, <2>1 DEF RefreshTxs
  <2>3. ix \in Instructions
    BY DEF Refreshers
  <2>4. PICK q \in Ends(held, ix) : r.end = q.end /\ (r.end = "landed" => r = q)
    BY <1>2, <1>4, <2>2, <2>3, ExecutedOne
  <2>5. /\ q.end # "stale"
        /\ q.end = "landed" => /\ DOMAIN q.held = DOMAIN held
                              /\ \A pos \in DOMAIN held : held[pos].fresh \/ pos \in ix.prices => q.held[pos].fresh
    BY <1>4, <2>4, RefresherEnds
  <2>6. CASE r.end # "landed"
    BY <1>5, <2>4, <2>5, <2>6
  <2>7. CASE r.end = "landed"
    <3> DEFINE s == RemoveAt(plan, 1)
    <3>1. plan' = s /\ outcome' = outcome /\ held' = q.held /\ Len(s) = n - 1
      BY <1>2, <1>3, <2>4, <2>7
    <3>2. /\ Registered' = Registered
          /\ \A pos \in Registered : held[pos].fresh \/ pos \in ix.prices => held'[pos].fresh
      BY <2>4, <2>5, <2>7, <3>1 DEF Registered
    <3>3. \A k \in 1 .. n - 1 : s[k] = plan[k + 1]
      BY <1>3
    <3> HIDE DEF s
    <3>4. \A k \in 1 .. (n - 1) - 1 : s[k] \in RefreshTxs(Positions)
      <4>1. \A k \in 1 .. (n - 1) - 1 : k \in 1 .. n - 1 /\ k + 1 \in 1 .. n - 1
        BY <1>3, <2>1
      <4> QED BY <1>4, <3>3, <4>1
    <3>5. ASSUME NEW pos \in Registered
          PROVE  held'[pos].fresh \/ \E k \in 1 .. (n - 1) - 1 : pos \in s[k][1].prices
      <4>1. CASE held[pos].fresh
        BY <3>2, <4>1
      <4>2. CASE ~held[pos].fresh
        <5>1. PICK k \in 1 .. n - 1 : pos \in plan[k][1].prices
          BY <1>4, <4>2
        <5>2. CASE k = 1
          <6>1. plan[k][1] = ix
            BY <2>2, <5>2
          <6> QED BY <3>2, <5>1, <6>1
        <5>3. CASE k # 1
          <6>1. k - 1 \in 1 .. (n - 1) - 1 /\ k - 1 \in 1 .. n - 1 /\ (k - 1) + 1 = k
            BY <1>3, <2>1, <5>3
          <6>2. s[k - 1] = plan[k]
            BY <3>3, <6>1
          <6> QED BY <5>1, <6>1, <6>2
        <5> QED BY <5>2, <5>3
      <4> QED BY <4>1, <4>2
    <3>6. s[n - 1] = plan[n]
      BY <2>1, <3>3
    <3>7. OrderIsRefreshed'
      BY <1>4, <3>1, <3>2, <3>4, <3>5, <3>6 DEF OrderIsRefreshed
    <3> QED BY <1>4, <3>1, <3>7
  <2> QED BY <2>6, <2>7
<1> QED BY <1>6, <1>7

LEMMA SendKeeps == ClientInv /\ Send => ClientInv'
<1> SUFFICES ASSUME ClientInv, Send PROVE ClientInv'
  OBVIOUS
<1> DEFINE I == IF ordered THEN {1} \cap DOMAIN plan ELSE DOMAIN plan
           sent(r_, i_) == /\ held' = r_.held
                           /\ plan' = IF ordered /\ r_.end # "landed" THEN << >> ELSE RemoveAt(plan, i_)
<1>0. PICK i \in I : \E r_ \in Executed(plan[i]) : sent(r_, i)
  BY DEF Send
<1>1. PICK r \in Executed(plan[i]) : sent(r, i)
  BY <1>0
<1>2. UNCHANGED <<session, ordered, calm>>
  BY DEF Send
<1>3. i \in DOMAIN plan /\ plan \in Seq(Seq(Instructions)) /\ held \in Helds
  BY <1>0 DEF ClientInv
<1>4. plan[i] \in Seq(Instructions) /\ plan # <<>>
  BY <1>3
<1>5. r \in Results /\ DOMAIN r.held \cap TermPositions = Registered \cap TermPositions
  BY <1>1, <1>3, <1>4, ExecutedEnds
<1>6. held' \in Helds /\ Paired(Registered')
  <2>1. Registered' = DOMAIN r.held /\ r.held \in Helds
    BY <1>1, <1>5 DEF Registered, Results
  <2>2. Paired(DOMAIN r.held)
    BY <1>5, PairsStay DEF ClientInv
  <2> QED BY <1>1, <2>1, <2>2
<1>7. plan' \in Seq(Seq(Instructions))
  <2>1. RemoveAt(plan, i) \in Seq(Seq(Instructions)) /\ << >> \in Seq(Seq(Instructions))
    BY <1>3, WithoutOne
  <2> QED BY <1>1, <2>1
<1>8. session # "none"
  BY <1>4 DEF ClientInv
<1>9. calm' /\ ordered' => SetUp(Registered', plan') /\ outcome' \notin {"unregistered", "duplicate"}
  BY <1>2, SendSetUp
<1>10. calm' /\ ordered' /\ session' = "refreshed" => outcome' # "stale" /\ OrderIsRefreshed'
  BY <1>2, SendRefreshed
<1> HIDE DEF Send
<1> QED BY <1>2, <1>6, <1>7, <1>8, <1>9, <1>10 DEF ClientInv

\* Others act before the client has read the account, or spoil its calm.
LEMMA ElsewhereKeeps == ClientInv /\ Elsewhere => ClientInv'
<1> SUFFICES ASSUME ClientInv, Elsewhere PROVE ClientInv'
  OBVIOUS
<1>1. calm' = (session = "none") /\ UNCHANGED <<session, plan, ordered, outcome>>
  BY DEF Elsewhere
<1>2. held \in Helds /\ Registered \in SUBSET Positions /\ held \in [Registered -> Price] /\ Paired(Registered)
  BY HeldDomain DEF ClientInv
<1>3. \A D \in SUBSET Positions : \A a \in [D -> Price] : a \in Helds /\ DOMAIN a = D
  BY DEF Helds
<1>4. Unpriced \in Price
  BY DEF Unpriced, Price
<1>5. ASSUME NEW a \in Helds, NEW pos \in Positions
      PROVE  Put(a, pos, Unpriced) \in Helds /\ DOMAIN Put(a, pos, Unpriced) = DOMAIN a \cup {pos}
  <2>1. PICK D \in SUBSET Positions : a \in [D -> Price]
    BY DEF Helds
  <2> DEFINE E == D \cup {pos}
             b == [x \in E |-> IF x = pos THEN Unpriced ELSE a[x]]
  <2>2. E \in SUBSET Positions /\ b \in [E -> Price] /\ DOMAIN a = D
    BY <1>4, <2>1
  <2>3. Put(a, pos, Unpriced) = b
    BY <2>2 DEF Put
  <2> HIDE DEF b
  <2> QED BY <1>3, <2>2, <2>3
<1>6. held' \in Helds /\ Paired(Registered')
  <2>1. CASE \E quote \in Quoted : held' = Expired(quote)
    <3>1. PICK quote \in Quoted : held' = Expired(quote)
      BY <2>1
    <3>2. \A pos \in Registered : [held[pos] EXCEPT !.fresh = FALSE] \in Price /\ held[pos] \in Price
      BY <1>2 DEF Price
    <3>3. held' \in [Registered -> Price]
      BY <3>1, <3>2 DEF Expired
    <3> QED BY <1>2, <1>3, <3>3 DEF Registered
  <2>2. CASE \E pos \in (Notes \cup Deposits) \ Registered : held' = Put(held, pos, Unpriced)
    <3>1. PICK pos \in (Notes \cup Deposits) \ Registered : held' = Put(held, pos, Unpriced)
      BY <2>2
    <3>2. pos \in Positions /\ pos \notin TermPositions
      BY PositionSets
    <3>3. held' \in Helds /\ Registered' = Registered \cup {pos}
      BY <1>2, <1>5, <3>1, <3>2 DEF Registered
    <3>4. (Registered \cup {pos}) \cap TermPositions = Registered \cap TermPositions
      BY <3>2
    <3> QED BY <1>2, <3>3, <3>4, PairsStay
  <2>3. CASE \E pos \in Registered \ TermPositions : held' = Drop(held, pos)
    <3>1. PICK pos \in Registered \ TermPositions : held' = Drop(held, pos)
      BY <2>3
    <3> DEFINE E == Registered \ {pos}
    <3>2. held' = [x \in E |-> held[x]]
      BY <3>1 DEF Drop, Registered
    <3>3. E \in SUBSET Positions /\ held' \in [E -> Price]
      BY <1>2, <3>2
    <3>4. held' \in Helds /\ Registered' = E /\ E \cap TermPositions = Registered \cap TermPositions
      BY <1>3, <3>3 DEF Registered
    <3> HIDE DEF E
    <3> QED BY <1>2, <3>4, PairsStay
  <2>4. CASE \E m \in ClientMarkets : held' = Put(Put(held, claims(m), Unpriced), collateral(m), Unpriced)
    <3>1. PICK m \in ClientMarkets : held' = Put(Put(held, claims(m), Unpriced), collateral(m), Unpriced)
      BY <2>4
    <3> DEFINE b == Put(held, claims(m), Unpriced)
    <3>2. claims(m) \in Positions /\ collateral(m) \in Positions
      BY PositionSets
    <3>3. b \in Helds /\ DOMAIN b = DOMAIN held \cup {claims(m)}
      BY <1>2, <1>5, <3>2
    <3>4. held' = Put(b, collateral(m), Unpriced)
      BY <3>1
    <3> HIDE DEF b
    <3>5. held' \in Helds /\ DOMAIN held' = (DOMAIN held \cup {claims(m)}) \cup {collateral(m)}
      BY <1>5, <3>2, <3>3, <3>4
    <3>6. \A k \in ClientMarkets : (claims(k) = claims(m) <=> k = m) /\ (collateral(k) = collateral(m) <=> k = m)
                                   /\ claims(k) # collateral(m) /\ collateral(k) # claims(m)
      BY DEF claims, collateral
    <3> QED BY <1>2, <3>5, <3>6 DEF Paired, Registered
  <2>5. CASE UNCHANGED held
    BY <1>2, <2>5 DEF Registered
  <2> QED BY <2>1, <2>2, <2>3, <2>4, <2>5 DEF Elsewhere
<1>7. CASE session = "none"
  <2>1. plan' = <<>> /\ outcome' = "none" /\ session' = "none"
    BY <1>1, <1>7 DEF ClientInv
  <2>2. Registered' \in SUBSET Positions
    BY <1>6 DEF Helds, Registered
  <2>3. SetUp(Registered', <<>>)
    BY <2>2, NothingSetUp
  <2>4. plan' \in Seq(Seq(Instructions))
    BY <2>1
  <2> HIDE DEF Elsewhere
  <2> QED BY <1>6, <2>1, <2>3, <2>4 DEF ClientInv
<1>8. CASE session # "none"
  BY <1>1, <1>6, <1>8 DEF ClientInv
<1> QED BY <1>7, <1>8

LEMMA AnswerKeeps == ClientInv /\ AnswerTaken => ClientInv'
<1> SUFFICES ASSUME ClientInv, AnswerTaken PROVE ClientInv'
  OBVIOUS
<1>1. plan' = <<>> /\ session' = "none" /\ outcome' = "none" /\ held' = held /\ Registered' = Registered
  BY DEF AnswerTaken, Registered
<1>2. held' \in Helds /\ Paired(Registered') /\ SetUp(Registered', <<>>)
  BY <1>1, HeldDomain, NothingSetUp DEF ClientInv
<1>3. plan' \in Seq(Seq(Instructions))
  BY <1>1
<1> HIDE DEF AnswerTaken
<1> QED BY <1>1, <1>2, <1>3 DEF ClientInv

LEMMA ClientStays ==
  ASSUME ClientInv, UNCHANGED <<held, plan, ordered, session, outcome, calm>>
  PROVE  ClientInv'
BY DEF ClientInv, OrderIsRefreshed, Registered, Price, Helds, Positions

LEMMA ClientInvKept == ClientInv /\ [ClientNext]_clientVars => ClientInv'
<1>1. ClientInv /\ PoolOperation => ClientInv'
  BY PoolOperationKeeps
<1>2. ClientInv /\ AccountOperation => ClientInv'
  BY AccountOperationKeeps
<1>3. ClientInv /\ (\E is \in BOOLEAN : liquidator(is)) => ClientInv'
  <2>1. (\E is \in BOOLEAN : liquidator(is)) => UNCHANGED <<held, plan, ordered, session, outcome, calm>>
    BY DEF liquidator
  <2> QED BY <2>1, ClientStays
<1>4. ClientInv /\ UNCHANGED clientVars => ClientInv'
  BY ClientStays DEF clientVars
<1> QED BY <1>1, <1>2, <1>3, <1>4, SendKeeps, AnswerKeeps, ElsewhereKeeps DEF ClientNext

\* The inductive invariant of the client: in a calm session sent in order, every transaction
\* left finds the positions it needs registered, and those it registers missing; and the order
\* at the end of a refreshed session finds a fresh price for every position (tx_builder,
\* refresh, margin_integrator.rs).
THEOREM ClientInvAlways == ClientSpec => []ClientInv
<1>1. InitClient => ClientInv
  BY ClientInitial
<1>2. ClientInv /\ [ClientNext]_clientVars => ClientInv'
  BY ClientInvKept
<1> QED BY <1>1, <1>2, PTL DEF ClientSpec

\* Sent in order while nothing else acts on the account, no transaction of the client fails on a
\* position that is missing or registered twice, and no order of RefreshingProxy on a stale price.
THEOREM CalmPlansAlwaysLand == ClientSpec => []CalmPlansLand
<1>1. ClientInv => CalmPlansLand
  BY DEF ClientInv, CalmPlansLand
<1> QED BY <1>1, ClientInvAlways, PTL

-----------------------------------------------------------------------------
(* Lists of groups, joined *)

\* What holds of b and goes from each number to the next holds up to e.
LEMMA Upward ==
  ASSUME NEW b \in Nat, NEW e \in Nat, NEW Good, b \in Good,
         \A k \in b + 1 .. e : k - 1 \in Good => k \in Good
  PROVE  \A k \in b .. e : k \in Good
<1> DEFINE g == [k \in Nat |-> k]
<1>1. g[b] \in Good
  OBVIOUS
<1>2. \A k \in b + 1 .. e : g[k - 1] \in Good => g[k] \in Good
  <2> SUFFICES ASSUME NEW k \in b + 1 .. e, g[k - 1] \in Good PROVE g[k] \in Good
    OBVIOUS
  <2>1. k \in Nat /\ k - 1 \in Nat
    OBVIOUS
  <2>2. g[k - 1] = k - 1 /\ g[k] = k
    BY <2>1
  <2> QED BY <2>2
<1>3. \A k \in b .. e : g[k] = k
  OBVIOUS
<1> HIDE DEF g
<1>4. \A k \in b .. e : g[k] \in Good
  BY <1>1, <1>2, Along
<1> QED BY <1>3, <1>4


LEMMA Associated ==
  ASSUME NEW X, NEW a \in Seq(X), NEW b \in Seq(X), NEW c \in Seq(X)
  PROVE  (a \o b) \o c = a \o (b \o c)
BY ConcatAssociative

\* A group more.
LEMMA FlattenAppend ==
  ASSUME NEW X, NEW s \in Seq(Seq(X)), NEW b \in Seq(X)
  PROVE  /\ FlattenSeq(<<>>) = <<>> /\ FlattenSeq(s) \in Seq(X)
         /\ FlattenSeq(Append(s, b)) = FlattenSeq(s) \o b
<1> DEFINE n == Len(s)
           t == Append(s, b)
<1>1. /\ t \in Seq(Seq(X)) /\ Len(t) = n + 1 /\ t[n + 1] = b /\ n \in Nat
      /\ \A k \in 1 .. n : t[k] = s[k]
  OBVIOUS
<1>2. PICK g : /\ g[0] = <<>> /\ \A k \in 0 .. n : g[k] \in Seq(X)
               /\ \A k \in 1 .. n : g[k] = g[k - 1] \o s[k]
               /\ FlattenSeq(s) = g[n]
  BY FlattenSteps
<1>3. PICK h : /\ h[0] = <<>> /\ \A k \in 0 .. Len(t) : h[k] \in Seq(X)
               /\ \A k \in 1 .. Len(t) : h[k] = h[k - 1] \o t[k]
               /\ FlattenSeq(t) = h[Len(t)]
  BY <1>1, FlattenSteps
<1> DEFINE D == {k \in Nat : g[k] = h[k]}
<1> HIDE DEF t
<1>4. \A k \in 0 .. n : k \in D
  <2>1. 0 \in D
    BY <1>2, <1>3
  <2>2. ASSUME NEW k \in 0 + 1 .. n, k - 1 \in D PROVE k \in D
    <3>1. k \in 1 .. n /\ k \in 1 .. Len(t) /\ k \in Nat
      BY <1>1
    <3>2. g[k] = g[k - 1] \o s[k] /\ h[k] = h[k - 1] \o t[k] /\ t[k] = s[k]
      BY <1>1, <1>2, <1>3, <3>1
    <3> QED BY <2>2, <3>1, <3>2
  <2> HIDE DEF D, n
  <2>3. n \in Nat /\ 0 \in Nat
    BY <1>1
  <2> QED BY <2>1, <2>2, <2>3, Upward
<1>5. g[n] = h[n]
  BY <1>1, <1>4
<1>6. h[n + 1] = h[n] \o b
  <2>1. n + 1 \in 1 .. Len(t) /\ (n + 1) - 1 = n
    BY <1>1
  <2> QED BY <1>1, <1>3, <2>1
<1>7. FlattenSeq(<<>>) = <<>>
  BY DEF FlattenSeq
<1>8. g[n] \in Seq(X)
  BY <1>1, <1>2
<1> QED BY <1>1, <1>2, <1>3, <1>5, <1>6, <1>7, <1>8 DEF t

\* the groups after the first i, up to the k-th, joined
Flat(s, i, k) == ijoin(SubSeq(s, i + 1, k))

LEMMA FlatSteps ==
  ASSUME NEW X, NEW s \in Seq(Seq(X)), NEW i \in 0 .. Len(s)
  PROVE  /\ Flat(s, i, i) = <<>>
         /\ \A k \in i .. Len(s) : Flat(s, i, k) \in Seq(X)
         /\ \A k \in i + 1 .. Len(s) : s[k] \in Seq(X) /\ Flat(s, i, k) = Flat(s, i, k - 1) \o s[k]
<1>0. Len(s) \in Nat /\ i \in Nat /\ i \in Int /\ i + 1 \in Int
  OBVIOUS
<1>1. Flat(s, i, i) = <<>>
  <2>1. SubSeq(s, i + 1, i) = <<>>
    BY <1>0, SubSeqEmpty
  <2>2. FlattenSeq(<<>>) = <<>>
    BY DEF FlattenSeq
  <2> QED BY <2>1, <2>2 DEF Flat, ijoin
<1>2. ASSUME NEW k \in i .. Len(s) PROVE SubSeq(s, i + 1, k) \in Seq(Seq(X)) /\ Flat(s, i, k) \in Seq(X)
  <2>1. SubSeq(s, i + 1, k) \in Seq(Seq(X))
    <3>1. k \in Int /\ \A j \in i + 1 .. k : s[j] \in Seq(X)
      BY <1>0
    <3> QED BY <1>0, <3>1, SubSeqProperties
  <2>2. <<>> \in Seq(X)
    OBVIOUS
  <2> QED BY <2>1, <2>2, FlattenAppend DEF Flat, ijoin
<1>3. ASSUME NEW k \in i + 1 .. Len(s) PROVE s[k] \in Seq(X) /\ Flat(s, i, k) = Flat(s, i, k - 1) \o s[k]
  <2> DEFINE r == SubSeq(s, i + 1, k - 1)
  <2>1. i + 1 \in 1 .. Len(s) /\ k \in i + 1 .. Len(s) /\ k - 1 \in i .. Len(s)
    BY <1>0
  <2>2. s[k] \in Seq(X) /\ r \in Seq(Seq(X))
    BY <1>0, <1>2, <2>1
  <2>3. SubSeq(s, i + 1, k) = r \o <<s[k]>>
    BY <2>1, SubSeqRecursiveSecond
  <2> HIDE DEF r
  <2>4. r \o <<s[k]>> = Append(r, s[k])
    BY <2>2, AppendIsConcat
  <2>5. FlattenSeq(Append(r, s[k])) = FlattenSeq(r) \o s[k]
    BY <2>2, FlattenAppend
  <2> QED BY <2>2, <2>3, <2>4, <2>5 DEF Flat, ijoin, r
<1> QED BY <1>1, <1>2, <1>3

LEMMA FlatJoins ==
  ASSUME NEW X, NEW s \in Seq(Seq(X)), NEW k \in 0 .. Len(s), NEW j \in 0 .. k, NEW i \in 0 .. j
  PROVE  Flat(s, i, k) = Flat(s, i, j) \o Flat(s, j, k)
<1> DEFINE a == Flat(s, i, j)
           D == {m \in Nat : Flat(s, i, m) = a \o Flat(s, j, m)}
<1>1. /\ Len(s) \in Nat /\ i \in 0 .. Len(s) /\ j \in 0 .. Len(s) /\ j \in i .. Len(s)
      /\ a \in Seq(X) /\ k \in j .. Len(s) /\ j \in Nat
  <2>1. Len(s) \in Nat
    OBVIOUS
  <2>2. i \in 0 .. Len(s) /\ j \in 0 .. Len(s) /\ j \in i .. Len(s) /\ k \in j .. Len(s) /\ j \in Nat
    BY <2>1
  <2>3. a \in Seq(X)
    BY <2>2, FlatSteps
  <2> QED BY <2>1, <2>2, <2>3
<1> HIDE DEF a
<1>2. j \in D
  <2>1. Flat(s, j, j) = <<>>
    BY <1>1, FlatSteps
  <2>2. a \o <<>> = a
    BY <1>1
  <2> QED BY <1>1, <2>1, <2>2 DEF a
<1>3. ASSUME NEW m \in j + 1 .. Len(s), m - 1 \in D PROVE m \in D
  <2>1. m \in i + 1 .. Len(s) /\ m - 1 \in j .. Len(s) /\ m \in Nat
    BY <1>1
  <2>2. /\ s[m] \in Seq(X) /\ Flat(s, i, m) = Flat(s, i, m - 1) \o s[m]
    BY <1>1, <2>1, FlatSteps
  <2>3. Flat(s, j, m) = Flat(s, j, m - 1) \o s[m] /\ Flat(s, j, m - 1) \in Seq(X)
    BY <1>1, <2>1, FlatSteps
  <2>4. Flat(s, i, m - 1) = a \o Flat(s, j, m - 1)
    BY <1>3
  <2> DEFINE b == Flat(s, j, m - 1)
             c == s[m]
  <2>5. b \in Seq(X) /\ c \in Seq(X)
    BY <2>2, <2>3
  <2> HIDE DEF b, c
  <2>6. (a \o b) \o c = a \o (b \o c)
    <3>1. a \in Seq(X)
      BY <1>1
    <3> QED BY <2>5, <3>1, Associated
  <2> QED BY <2>1, <2>2, <2>3, <2>4, <2>6 DEF b, c
<1> HIDE DEF D
<1>4. \A m \in j .. Len(s) : m \in D
  BY <1>1, <1>2, <1>3, Upward
<1> QED BY <1>1, <1>4 DEF D, a

-----------------------------------------------------------------------------
(* The size of a transaction *)

\* the instructions of all groups
Ixs == UNION {ToSet(b) : b \in Builders}
data_len == [x \in Ixs |-> x.data]
AccountsOf(b) == UNION {x.accounts : x \in ToSet(b)}

LEMMA GroupsTyped ==
  /\ Builders \subseteq Seq(Ixs)
  /\ \A x \in Ixs : x.data \in Nat /\ IsFiniteSet(x.accounts)
  /\ data_len \in [Ixs -> Int]
<1>1. ASSUME NEW b \in Builders PROVE b \in Seq(Ixs)
  <2>1. b \in Seq(ToSet(b)) /\ ToSet(b) \subseteq Ixs
    BY CondenseAssumption DEF Ixs
  <2> QED BY <2>1, SeqMonotonic
<1>2. ASSUME NEW x \in Ixs PROVE x.data \in Nat /\ IsFiniteSet(x.accounts)
  <2>1. PICK b \in Builders : x \in ToSet(b)
    BY DEF Ixs
  <2>2. PICK i \in DOMAIN b : x = b[i]
    BY <2>1 DEF ToSet
  <2> QED BY <2>2, CondenseAssumption
<1> QED BY <1>1, <1>2 DEF data_len

LEMMA Encoded ==
  ASSUME NEW b \in Seq(Ixs)
  PROVE  /\ IsFiniteSet(AccountsOf(b)) /\ Cardinality(AccountsOf(b)) \in Nat /\ Weight(data_len, b) \in Nat
         /\ fake_encode(b) = 4 * ((HEADER_SIZE + ACCOUNT_SIZE * Cardinality(AccountsOf(b))
                                     + Weight(data_len, b) + 2) \div 3)
<1>1. Len(b) \in Nat /\ DOMAIN b = 1 .. Len(b) /\ \A i \in 1 .. Len(b) : b[i] \in Ixs
  OBVIOUS
<1>2. ToSet(b) = {b[i] : i \in DOMAIN b}
  BY DEF ToSet
<1>3. IsFiniteSet(1 .. Len(b))
  BY <1>1, FS_Interval
<1>4. IsFiniteSet({x.accounts : x \in ToSet(b)}) /\ \A t \in {x.accounts : x \in ToSet(b)} : IsFiniteSet(t)
  <2> DEFINE f == [i \in 1 .. Len(b) |-> b[i].accounts]
  <2>1. {x.accounts : x \in ToSet(b)} = {f[i] : i \in 1 .. Len(b)}
    BY <1>1, <1>2
  <2>2. f \in [1 .. Len(b) -> {f[i] : i \in 1 .. Len(b)}]
    OBVIOUS
  <2>3. IsFiniteSet({f[i] : i \in 1 .. Len(b)})
    <3> DEFINE T == {f[i] : i \in 1 .. Len(b)}
    <3>1. f \in Surjection(1 .. Len(b), T)
      BY DEF Surjection
    <3> HIDE DEF T, f
    <3>2. IsFiniteSet(T)
      BY <1>3, <3>1, FS_Surjection
    <3> QED BY <3>2 DEF T
  <2>4. \A i \in 1 .. Len(b) : IsFiniteSet(f[i])
    BY <1>1, GroupsTyped
  <2> QED BY <2>1, <2>3, <2>4
<1>5. IsFiniteSet(AccountsOf(b)) /\ Cardinality(AccountsOf(b)) \in Nat
  <2>1. IsFiniteSet(AccountsOf(b))
    BY <1>4, FS_UNION DEF AccountsOf
  <2> QED BY <2>1, FS_CardinalityType
<1> DEFINE s == SumOver([i \in DOMAIN b |-> b[i].data], DOMAIN b)
<1>6. Weight(data_len, b) = s /\ s \in Nat
  <2> DEFINE f == [i \in 1 .. Len(b) |-> b[i].data]
             g == [i \in 1 .. Len(b) |-> data_len[b[i]]]
  <2>1. f = g /\ \A i \in 1 .. Len(b) : f[i] \in Nat
    BY <1>1, GroupsTyped DEF data_len
  <2>2. SumOver(f, 1 .. Len(b)) \in Nat
    <3> HIDE DEF f
    <3> QED BY <1>3, <2>1, SumNat
  <2>3. s = SumOver(f, 1 .. Len(b))
    BY <1>1
  <2>4. Weight(data_len, b) = SumOver(g, 1 .. Len(b))
    BY <1>1 DEF Weight
  <2> HIDE DEF s, f, g
  <2> QED BY <2>1, <2>2, <2>3, <2>4
<1>7. fake_encode(b) = 4 * ((HEADER_SIZE + ACCOUNT_SIZE * Cardinality(AccountsOf(b)) + s + 2) \div 3)
  BY <1>2 DEF fake_encode, AccountsOf
<1> HIDE DEF s
<1> QED BY <1>5, <1>6, <1>7

\* A transaction with fewer instructions, and no more of any, is not larger.
LEMMA EncodedLess ==
  ASSUME NEW a \in Seq(Ixs), NEW b \in Seq(Ixs),
         ToSet(a) \subseteq ToSet(b), Weight(data_len, a) <= Weight(data_len, b)
  PROVE  fake_encode(a) <= fake_encode(b) /\ fake_encode(b) \in Nat \ {0}
<1> DEFINE ca == Cardinality(AccountsOf(a))
           cb == Cardinality(AccountsOf(b))
           wa == Weight(data_len, a)
           wb == Weight(data_len, b)
           xa == ACCOUNT_SIZE * ca
           xb == ACCOUNT_SIZE * cb
<1>1. AccountsOf(a) \subseteq AccountsOf(b)
  BY DEF AccountsOf
<1>2. /\ ca \in Nat /\ cb \in Nat /\ wa \in Nat /\ wb \in Nat
      /\ fake_encode(a) = 4 * ((HEADER_SIZE + xa + wa + 2) \div 3)
      /\ fake_encode(b) = 4 * ((HEADER_SIZE + xb + wb + 2) \div 3)
  BY Encoded
<1>3. ca <= cb
  BY <1>1, Encoded, FS_Subset
<1>4. HEADER_SIZE \in Nat \ {0} /\ ACCOUNT_SIZE \in Nat /\ wa <= wb
  BY CondenseAssumption
<1> HIDE DEF ca, cb, wa, wb
<1>5. xa <= xb /\ xa \in Nat /\ xb \in Nat
  <2>1. \A u, n, m \in Nat : n <= m => u * n <= u * m /\ u * n \in Nat /\ u * m \in Nat
    <3> SUFFICES ASSUME NEW u \in Nat, NEW n \in Nat, NEW m \in Nat, n <= m
                 PROVE  u * n <= u * m /\ u * n \in Nat /\ u * m \in Nat
      OBVIOUS
    <3>1. u * m = u * n + u * (m - n) /\ u * (m - n) >= 0 /\ u * n >= 0
      OBVIOUS
    <3> QED BY <3>1
  <2> QED BY <1>2, <1>3, <1>4, <2>1
<1> HIDE DEF xa, xb
<1>6. \A p, q \in Nat : p <= q /\ q >= 1 => (p + 2) \div 3 <= (q + 2) \div 3 /\ (q + 2) \div 3 >= 1 /\ (q + 2) \div 3 \in Nat
  OBVIOUS
<1> DEFINE p == HEADER_SIZE + xa + wa
           q == HEADER_SIZE + xb + wb
<1>7. p \in Nat /\ q \in Nat /\ p <= q /\ q >= 1
  BY <1>2, <1>4, <1>5
<1>8. fake_encode(a) = 4 * ((p + 2) \div 3) /\ fake_encode(b) = 4 * ((q + 2) \div 3)
  BY <1>2
<1> HIDE DEF p, q
<1>9. (p + 2) \div 3 <= (q + 2) \div 3 /\ (q + 2) \div 3 >= 1 /\ (q + 2) \div 3 \in Nat /\ (p + 2) \div 3 \in Int
  BY <1>6, <1>7
<1> QED BY <1>8, <1>9

\* A part of a transaction that fits does.
LEMMA FitsPart ==
  ASSUME NEW a \in Seq(Ixs), NEW b \in Seq(Ixs), FitsAlone(a \o b)
  PROVE  FitsAlone(a) /\ FitsAlone(b)
<1>1. a \o b \in Seq(Ixs) /\ ToSet(a \o b) = ToSet(a) \cup ToSet(b)
  BY SetsOfSequences
<1>2. Weight(data_len, a \o b) = Weight(data_len, a) + Weight(data_len, b)
  BY GroupsTyped, WeightConcat
<1>3. Weight(data_len, a) \in Nat /\ Weight(data_len, b) \in Nat
  BY Encoded
<1>4. /\ fake_encode(a) <= fake_encode(a \o b) /\ fake_encode(b) <= fake_encode(a \o b)
      /\ fake_encode(a \o b) \in Nat
  <2>1. /\ Weight(data_len, a) <= Weight(data_len, a \o b) /\ Weight(data_len, b) <= Weight(data_len, a \o b)
        /\ ToSet(a) \subseteq ToSet(a \o b) /\ ToSet(b) \subseteq ToSet(a \o b)
    BY <1>1, <1>2, <1>3
  <2> QED BY <1>1, <2>1, EncodedLess
<1>5. fake_encode(a) \in Nat /\ fake_encode(b) \in Nat
  <2>1. Weight(data_len, a) <= Weight(data_len, a) /\ Weight(data_len, b) <= Weight(data_len, b)
    BY <1>3
  <2> QED BY <2>1, EncodedLess
<1>6. fake_encode(a \o b) <= MAX_TX_SIZE /\ MAX_TX_SIZE \in Nat
  BY CondenseAssumption DEF FitsAlone
<1> QED BY <1>4, <1>5, <1>6 DEF FitsAlone

-----------------------------------------------------------------------------
(* Reversal *)

LEMMA ReverseTyped ==
  ASSUME NEW X, NEW s \in Seq(X)
  PROVE  /\ Reverse(s) \in Seq(X) /\ Len(Reverse(s)) = Len(s)
         /\ \A i \in 1 .. Len(s) : Reverse(s)[i] = s[(Len(s) - i) + 1] /\ (Len(s) - i) + 1 \in 1 .. Len(s)
<1> DEFINE n == Len(s)
           r == Reverse(s)
<1>1. n \in Nat /\ \A i \in 1 .. n : s[i] \in X
  OBVIOUS
<1>2. r = [i \in 1 .. n |-> s[(n - i) + 1]]
  BY DEF Reverse
<1> HIDE DEF n, r
<1>3. \A i \in 1 .. n : (n - i) + 1 \in 1 .. n
  BY <1>1
<1>4. r \in [1 .. n -> X]
  BY <1>1, <1>2, <1>3
<1>5. r \in Seq(X) /\ Len(r) = n
  BY <1>1, <1>4
<1> QED BY <1>2, <1>3, <1>5 DEF r, n

LEMMA ReverseTwice ==
  ASSUME NEW X, NEW s \in Seq(X)
  PROVE  Reverse(Reverse(s)) = s
<1> DEFINE r == Reverse(s)
           n == Len(s)
<1>1. r \in Seq(X) /\ Len(r) = n /\ n \in Nat /\ \A i \in 1 .. n : r[i] = s[(n - i) + 1]
  BY ReverseTyped
<1>2. Reverse(r) \in Seq(X) /\ Len(Reverse(r)) = n /\ \A i \in 1 .. n : Reverse(r)[i] = r[(n - i) + 1]
  BY <1>1, ReverseTyped
<1> HIDE DEF r, n
<1>3. \A i \in 1 .. n : (n - i) + 1 \in 1 .. n /\ (n - ((n - i) + 1)) + 1 = i
  BY <1>1
<1>4. \A i \in 1 .. n : Reverse(r)[i] = s[i]
  BY <1>1, <1>2, <1>3
<1>5. Reverse(r) = s
  BY <1>2, <1>4, SeqEqual DEF n
<1> QED BY <1>5 DEF r

LEMMA Concatenated ==
  ASSUME NEW X, NEW s \in Seq(X), NEW t \in Seq(X)
  PROVE  /\ s \o t \in Seq(X) /\ Len(s) \in Nat /\ Len(t) \in Nat /\ Len(s \o t) = Len(s) + Len(t)
         /\ \A i \in 1 .. Len(s) : (s \o t)[i] = s[i]
         /\ \A i \in 1 .. Len(t) : (s \o t)[Len(s) + i] = t[i]
OBVIOUS

LEMMA ReverseJoined ==
  ASSUME NEW X, NEW s \in Seq(X), NEW t \in Seq(X)
  PROVE  Reverse(s \o t) = Reverse(t) \o Reverse(s)
<1> DEFINE u == s \o t
           v == Reverse(t) \o Reverse(s)
           a == Len(s)
           b == Len(t)
<1>1. /\ a \in Nat /\ b \in Nat /\ u \in Seq(X) /\ Len(u) = a + b
      /\ \A i \in 1 .. a : u[i] = s[i]
      /\ \A i \in 1 .. b : u[a + i] = t[i]
  OBVIOUS
<1>2. /\ Reverse(s) \in Seq(X) /\ Len(Reverse(s)) = a /\ \A i \in 1 .. a : Reverse(s)[i] = s[(a - i) + 1]
      /\ Reverse(t) \in Seq(X) /\ Len(Reverse(t)) = b /\ \A i \in 1 .. b : Reverse(t)[i] = t[(b - i) + 1]
  BY ReverseTyped
<1>3. /\ v \in Seq(X) /\ Len(v) = b + a
      /\ \A i \in 1 .. b : v[i] = Reverse(t)[i]
      /\ \A i \in 1 .. a : v[b + i] = Reverse(s)[i]
  <2> DEFINE p == Reverse(t)
             q == Reverse(s)
  <2>1. p \in Seq(X) /\ q \in Seq(X) /\ Len(p) = b /\ Len(q) = a
    BY <1>2
  <2> HIDE DEF p, q, a, b
  <2>2. /\ p \o q \in Seq(X) /\ Len(p \o q) = Len(p) + Len(q)
        /\ \A i \in 1 .. Len(p) : (p \o q)[i] = p[i]
        /\ \A i \in 1 .. Len(q) : (p \o q)[Len(p) + i] = q[i]
    <3>1. p \in Seq(X) /\ q \in Seq(X)
      BY <2>1
    <3> QED BY <3>1, Concatenated
  <2>3. v = p \o q
    BY DEF p, q
  <2> HIDE DEF v
  <2>4. v \in Seq(X) /\ Len(v) = b + a /\ (\A i \in 1 .. b : v[i] = p[i]) /\ \A i \in 1 .. a : v[b + i] = q[i]
    BY <2>1, <2>2, <2>3
  <2> QED BY <2>4 DEF p, q
<1> HIDE DEF u, v, a, b
<1>4. Reverse(u) \in Seq(X) /\ Len(Reverse(u)) = a + b /\ \A i \in 1 .. a + b : Reverse(u)[i] = u[((a + b) - i) + 1]
  BY <1>1, ReverseTyped
<1>5. ASSUME NEW i \in 1 .. a + b PROVE Reverse(u)[i] = v[i]
  <2>1. CASE i <= b
    <3>1. i \in 1 .. b /\ (b - i) + 1 \in 1 .. b /\ ((a + b) - i) + 1 = a + ((b - i) + 1)
      BY <1>1, <2>1
    <3> QED BY <1>1, <1>2, <1>3, <1>4, <3>1
  <2>2. CASE ~(i <= b)
    <3>1. i - b \in 1 .. a /\ (a - (i - b)) + 1 \in 1 .. a /\ ((a + b) - i) + 1 = (a - (i - b)) + 1 /\ b + (i - b) = i
      BY <1>1, <2>2
    <3>2. Reverse(u)[i] = u[(a - (i - b)) + 1] /\ u[(a - (i - b)) + 1] = s[(a - (i - b)) + 1]
      BY <1>1, <1>4, <3>1
    <3>3. v[b + (i - b)] = Reverse(s)[i - b] /\ Reverse(s)[i - b] = s[(a - (i - b)) + 1]
      BY <1>2, <1>3, <3>1
    <3> QED BY <3>1, <3>2, <3>3
  <2> QED BY <2>1, <2>2
<1>6. Len(Reverse(u)) = Len(v)
  BY <1>1, <1>3, <1>4
<1>7. Reverse(u) = v
  BY <1>1, <1>3, <1>4, <1>5, <1>6, SeqEqual
<1> QED BY <1>7 DEF u, v

LEMMA ReverseOne ==
  ASSUME NEW x
  PROVE  Reverse(<<x>>) = <<x>> /\ Reverse(<<>>) = <<>>
<1>1. <<x>> \in Seq({x}) /\ Len(<<x>>) = 1 /\ <<x>>[1] = x /\ <<>> \in Seq({x}) /\ Len(<<>>) = 0
  OBVIOUS
<1>2. Reverse(<<x>>) \in Seq({x}) /\ Len(Reverse(<<x>>)) = 1 /\ Reverse(<<x>>)[1] = <<x>>[(1 - 1) + 1]
  <2> DEFINE o == <<x>>
  <2>1. o \in Seq({x}) /\ Len(o) = 1
    BY <1>1
  <2> HIDE DEF o
  <2>2. /\ Reverse(o) \in Seq({x}) /\ Len(Reverse(o)) = Len(o)
        /\ \A i \in 1 .. Len(o) : Reverse(o)[i] = o[(Len(o) - i) + 1]
    BY <2>1, ReverseTyped
  <2>3. Reverse(o)[1] = o[(1 - 1) + 1]
    BY <2>1, <2>2
  <2> QED BY <2>1, <2>2, <2>3 DEF o
<1>3. Reverse(<<>>) \in Seq({x}) /\ Len(Reverse(<<>>)) = 0
  BY <1>1, ReverseTyped
<1>4. Reverse(<<x>>)[1] = x
  BY <1>1, <1>2
<1>5. \A s \in Seq({x}) : Len(s) = 0 => s = <<>>
  OBVIOUS
<1>6. \A i \in 1 .. 1 : i = 1
  OBVIOUS
<1> DEFINE r == Reverse(<<x>>)
<1>7. r = <<x>>
  <2>1. r \in Seq({x}) /\ Len(r) = Len(<<x>>) /\ \A i \in 1 .. Len(r) : r[i] = <<x>>[i]
    BY <1>1, <1>2, <1>4, <1>6
  <2> HIDE DEF r
  <2> QED BY <1>1, <2>1, SeqEqual
<1> QED BY <1>3, <1>5, <1>7

\* Backwards a transaction is as large.
LEMMA FitsReversed ==
  ASSUME NEW s \in Seq(Ixs)
  PROVE  FitsAlone(Reverse(s)) <=> FitsAlone(s)
<1> DEFINE W(q) == Weight(data_len, q)
           P == {n \in Nat : \A q \in Seq(Ixs) : Len(q) = n => W(Reverse(q)) = W(q)}
<1>1. 0 \in P
  <2> SUFFICES ASSUME NEW q \in Seq(Ixs), Len(q) = 0 PROVE W(Reverse(q)) = W(q)
    OBVIOUS
  <2>1. q = <<>>
    OBVIOUS
  <2>2. Reverse(<<>>) = <<>>
    BY ReverseOne
  <2> QED BY <2>1, <2>2
<1>2. ASSUME NEW n \in Nat, n \in P PROVE n + 1 \in P
  <2> SUFFICES ASSUME NEW q \in Seq(Ixs), Len(q) = n + 1 PROVE W(Reverse(q)) = W(q)
    OBVIOUS
  <2> DEFINE f == SubSeq(q, 1, n)
             x == q[n + 1]
  <2>1. f \in Seq(Ixs) /\ Len(f) = n /\ x \in Ixs /\ q = f \o <<x>> /\ <<x>> \in Seq(Ixs)
    <3>1. n + 1 \in 1 .. Len(q) /\ 1 \in 1 .. Len(q) /\ n + 1 \in 1 .. Len(q) /\ (n + 1) - 1 = n
      OBVIOUS
    <3>2. x \in Ixs /\ <<x>> \in Seq(Ixs)
      BY <3>1
    <3>3. f \in Seq(Ixs) /\ Len(f) = n
      OBVIOUS
    <3>4. SubSeq(q, 1, n + 1) = q
      BY SubSeqFull
    <3>5. SubSeq(q, 1, n + 1) = f \o <<x>>
      BY <3>1, SubSeqRecursiveSecond
    <3> QED BY <3>2, <3>3, <3>4, <3>5
  <2> HIDE DEF f, x
  <2>2. Reverse(q) = <<x>> \o Reverse(f)
    <3>1. Reverse(f \o <<x>>) = Reverse(<<x>>) \o Reverse(f)
      BY <2>1, ReverseJoined
    <3> QED BY <2>1, <3>1, ReverseOne
  <2>3. W(Reverse(f)) = W(f) /\ Reverse(f) \in Seq(Ixs)
    <3>1. Reverse(f) \in Seq(Ixs)
      BY <2>1, ReverseTyped
    <3> QED BY <1>2, <2>1, <3>1
  <2> HIDE DEF P
  <2>4. W(<<x>> \o Reverse(f)) = W(<<x>>) + W(Reverse(f)) /\ W(f \o <<x>>) = W(f) + W(<<x>>)
    BY <2>1, <2>3, GroupsTyped, WeightConcat
  <2>5. W(f) \in Nat /\ W(<<x>>) \in Nat
    BY <2>1, Encoded
  <2>6. W(q) = W(f) + W(<<x>>) /\ W(Reverse(q)) = W(<<x>>) + W(Reverse(f))
    BY <2>1, <2>2, <2>4
  <2> HIDE DEF W
  <2>7. W(Reverse(f)) = W(f)
    BY <2>3
  <2> QED BY <2>5, <2>6, <2>7
<1>3. Nat \subseteq P
  <2> HIDE DEF P
  <2> QED BY <1>1, <1>2, NatSetInduction
<1>4. Reverse(s) \in Seq(Ixs) /\ Len(s) \in Nat
  BY ReverseTyped
<1>5. W(Reverse(s)) = W(s)
  BY <1>3, <1>4
<1>6. \A q \in Seq(Ixs) : ToSet(q) \subseteq ToSet(Reverse(q))
  BY Reversed
<1>7. ToSet(Reverse(s)) \subseteq ToSet(s) /\ ToSet(s) \subseteq ToSet(Reverse(s))
  BY <1>4, <1>6, ReverseTwice
<1>8. AccountsOf(Reverse(s)) = AccountsOf(s)
  BY <1>7 DEF AccountsOf
<1>9. fake_encode(Reverse(s)) = fake_encode(s)
  BY <1>4, <1>5, <1>8, Encoded
<1> QED BY <1>9 DEF FitsAlone

LEMMA DeepTyped ==
  ASSUME NEW X, NEW s \in Seq(Seq(X))
  PROVE  /\ deep_reverse(s) \in Seq(Seq(X)) /\ Len(deep_reverse(s)) = Len(s)
         /\ \A i \in 1 .. Len(s) : deep_reverse(s)[i] = Reverse(s[(Len(s) - i) + 1])
<1> DEFINE n == Len(s)
           d == deep_reverse(s)
           r == Reverse(s)
<1>1. n \in Nat /\ DOMAIN s = 1 .. n
  OBVIOUS
<1>2. \A i \in 1 .. n : r[i] = s[(n - i) + 1] /\ (n - i) + 1 \in 1 .. n
  BY ReverseTyped
<1>3. \A i \in 1 .. n : s[i] \in Seq(X)
  OBVIOUS
<1>4. d = [i \in 1 .. n |-> Reverse(r[i])]
  BY <1>1 DEF deep_reverse
<1> HIDE DEF n, d, r
<1>5. ASSUME NEW i \in 1 .. n PROVE Reverse(r[i]) \in Seq(X)
  <2>1. r[i] \in Seq(X)
    BY <1>2, <1>3
  <2> QED BY <2>1, ReverseTyped
<1>6. d \in [1 .. n -> Seq(X)]
  BY <1>4, <1>5
<1>7. d \in Seq(Seq(X)) /\ Len(d) = n
  BY <1>1, <1>6
<1>8. \A i \in 1 .. n : d[i] = Reverse(s[(n - i) + 1])
  BY <1>2, <1>4
<1> QED BY <1>7, <1>8 DEF d, n

LEMMA DeepTwice ==
  ASSUME NEW X, NEW s \in Seq(Seq(X))
  PROVE  deep_reverse(deep_reverse(s)) = s
<1> DEFINE d == deep_reverse(s)
           e == deep_reverse(d)
           n == Len(s)
<1>1. n \in Nat /\ d \in Seq(Seq(X)) /\ Len(d) = n /\ \A i \in 1 .. n : d[i] = Reverse(s[(n - i) + 1])
  BY DeepTyped
<1> HIDE DEF d
<1>2. e \in Seq(Seq(X)) /\ Len(e) = n /\ \A i \in 1 .. n : e[i] = Reverse(d[(n - i) + 1])
  <2>1. /\ deep_reverse(d) \in Seq(Seq(X)) /\ Len(deep_reverse(d)) = Len(d)
        /\ \A i \in 1 .. Len(d) : deep_reverse(d)[i] = Reverse(d[(Len(d) - i) + 1])
    BY <1>1, DeepTyped
  <2> QED BY <1>1, <2>1
<1>3. \A i \in 1 .. n : s[i] \in Seq(X)
  OBVIOUS
<1> HIDE DEF e, n
<1>4. ASSUME NEW i \in 1 .. n PROVE e[i] = s[i]
  <2>1. (n - i) + 1 \in 1 .. n /\ (n - ((n - i) + 1)) + 1 = i
    BY <1>1
  <2>2. e[i] = Reverse(Reverse(s[i]))
    BY <1>1, <1>2, <2>1
  <2> QED BY <1>3, <2>2, ReverseTwice
<1>5. e = s
  BY <1>2, <1>4, SeqEqual DEF n
<1> QED BY <1>5 DEF e, d

LEMMA DeepJoined ==
  ASSUME NEW X, NEW s \in Seq(Seq(X)), NEW b \in Seq(X)
  PROVE  deep_reverse(Append(s, b)) = <<Reverse(b)>> \o deep_reverse(s) /\ deep_reverse(<<>>) = <<>>
<1> DEFINE n == Len(s)
           t == Append(s, b)
           d == deep_reverse(t)
           c == deep_reverse(s)
           o == <<Reverse(b)>>
           e == o \o c
<1>1. /\ n \in Nat /\ t \in Seq(Seq(X)) /\ Len(t) = n + 1 /\ t[n + 1] = b
      /\ \A k \in 1 .. n : t[k] = s[k]
  OBVIOUS
<1>2. c \in Seq(Seq(X)) /\ Len(c) = n /\ \A i \in 1 .. n : c[i] = Reverse(s[(n - i) + 1])
  BY DeepTyped
<1>3. o \in Seq(Seq(X)) /\ Len(o) = 1 /\ o[1] = Reverse(b)
  <2>1. Reverse(b) \in Seq(X)
    BY ReverseTyped
  <2> QED BY <2>1
<1> HIDE DEF t, c, o, n
<1>4. d \in Seq(Seq(X)) /\ Len(d) = n + 1 /\ \A i \in 1 .. n + 1 : d[i] = Reverse(t[((n + 1) - i) + 1])
  <2>1. t \in Seq(Seq(X))
    BY <1>1
  <2>2. d \in Seq(Seq(X)) /\ Len(d) = Len(t) /\ \A i \in 1 .. Len(t) : d[i] = Reverse(t[(Len(t) - i) + 1])
    BY <2>1, DeepTyped
  <2> QED BY <1>1, <2>2
<1>5. e \in Seq(Seq(X)) /\ Len(e) = n + 1 /\ e[1] = o[1] /\ \A i \in 1 .. n : e[1 + i] = c[i]
  <2>1. o \in Seq(Seq(X)) /\ c \in Seq(Seq(X))
    BY <1>2, <1>3
  <2>2. /\ e \in Seq(Seq(X)) /\ Len(e) = Len(o) + Len(c) /\ \A i \in 1 .. Len(o) : e[i] = o[i]
        /\ \A i \in 1 .. Len(c) : e[Len(o) + i] = c[i]
    BY <2>1, Concatenated
  <2> HIDE DEF e
  <2>3. Len(o) = 1 /\ Len(c) = n /\ 1 \in 1 .. 1
    BY <1>2, <1>3
  <2> QED BY <1>1, <2>2, <2>3
<1> HIDE DEF d, e
<1>6. ASSUME NEW i \in 1 .. n + 1 PROVE d[i] = e[i]
  <2>1. CASE i = 1
    <3>1. ((n + 1) - i) + 1 = n + 1
      BY <1>1, <2>1
    <3> QED BY <1>1, <1>3, <1>4, <1>5, <2>1, <3>1
  <2>2. CASE i # 1
    <3>1. i - 1 \in 1 .. n /\ 1 + (i - 1) = i /\ ((n + 1) - i) + 1 = (n - (i - 1)) + 1 /\ (n - (i - 1)) + 1 \in 1 .. n
      BY <1>1, <2>2
    <3>2. d[i] = Reverse(t[(n - (i - 1)) + 1]) /\ t[(n - (i - 1)) + 1] = s[(n - (i - 1)) + 1]
      BY <1>1, <1>4, <3>1
    <3>3. e[1 + (i - 1)] = c[i - 1] /\ c[i - 1] = Reverse(s[(n - (i - 1)) + 1])
      BY <1>2, <1>5, <3>1
    <3> QED BY <3>1, <3>2, <3>3
  <2> QED BY <2>1, <2>2
<1>7. d = e
  BY <1>4, <1>5, <1>6, SeqEqual
<1>8. deep_reverse(<<>>) = <<>>
  <2>1. <<>> \in Seq(Seq(X)) /\ Len(<<>>) = 0
    OBVIOUS
  <2>2. deep_reverse(<<>>) \in Seq(Seq(X)) /\ Len(deep_reverse(<<>>)) = Len(<<>>)
    BY <2>1, DeepTyped
  <2> QED BY <2>1, <2>2
<1> QED BY <1>7, <1>8 DEF d, e, o, c, t

\* Backwards, the groups from k back to i are joined to the same, backwards.
LEMMA FlatReversed ==
  ASSUME NEW X, NEW s \in Seq(Seq(X)), NEW k \in 0 .. Len(s), NEW i \in 0 .. k
  PROVE  Flat(deep_reverse(s), Len(s) - k, Len(s) - i) = Reverse(Flat(s, i, k))
<1> DEFINE n == Len(s)
           d == deep_reverse(s)
           Good == {m \in Nat : Flat(d, n - m, n - i) = Reverse(Flat(s, i, m))}
<1>1. n \in Nat /\ i \in 0 .. n /\ i \in Nat /\ k \in i .. n /\ k \in Nat
  OBVIOUS
<1>2. d \in Seq(Seq(X)) /\ Len(d) = n /\ \A j \in 1 .. n : d[j] = Reverse(s[(n - j) + 1])
  BY DeepTyped
<1> HIDE DEF n, d
<1>3. i \in Good
  <2>1. Flat(s, i, i) = <<>>
    BY <1>1, FlatSteps DEF n
  <2>2. n - i \in 0 .. Len(d) /\ d \in Seq(Seq(X))
    BY <1>1, <1>2
  <2>3. Flat(d, n - i, n - i) = <<>>
    BY <2>2, FlatSteps
  <2> QED BY <1>1, <2>1, <2>3, ReverseOne
<1>4. ASSUME NEW m \in i + 1 .. n, m - 1 \in Good PROVE m \in Good
  <2> DEFINE a == n - m
             b == n - (m - 1)
             c == n - i
  <2>1. /\ m \in Nat /\ m - 1 \in i .. n /\ m \in 1 .. n /\ m \in i + 1 .. Len(s)
        /\ a \in 0 .. b /\ b \in 0 .. c /\ c \in 0 .. Len(d) /\ a \in 0 .. Len(d)
        /\ b \in a + 1 .. Len(d) /\ b - 1 = a /\ (n - b) + 1 = m /\ b \in 1 .. n
    BY <1>1, <1>2 DEF n
  <2>2. Flat(d, b, c) = Reverse(Flat(s, i, m - 1))
    BY <1>4
  <2>3. s[m] \in Seq(X) /\ Flat(s, i, m - 1) \in Seq(X) /\ Flat(s, i, m) = Flat(s, i, m - 1) \o s[m]
    <3>1. i \in 0 .. Len(s) /\ m - 1 \in i .. Len(s)
      BY <1>1, <2>1 DEF n
    <3> QED BY <2>1, <3>1, FlatSteps
  <2> HIDE DEF a, b, c, Good
  <2>4. Flat(d, a, b) = Reverse(s[m])
    <3>0. d \in Seq(Seq(X)) /\ a \in 0 .. Len(d) /\ b \in a + 1 .. Len(d)
      BY <1>2, <2>1
    <3>1. Flat(d, a, b) = Flat(d, a, b - 1) \o d[b] /\ d[b] \in Seq(X) /\ Flat(d, a, a) = <<>>
      BY <3>0, FlatSteps
    <3>2. d[b] = Reverse(s[m])
      BY <1>2, <2>1
    <3>3. <<>> \o d[b] = d[b]
      BY <3>1
    <3> QED BY <2>1, <3>1, <3>2, <3>3
  <2>5. Flat(d, a, c) = Flat(d, a, b) \o Flat(d, b, c)
    <3>1. d \in Seq(Seq(X)) /\ c \in 0 .. Len(d) /\ b \in 0 .. c /\ a \in 0 .. b
      BY <1>2, <2>1
    <3> QED BY <3>1, FlatJoins
  <2>6. Reverse(Flat(s, i, m - 1) \o s[m]) = Reverse(s[m]) \o Reverse(Flat(s, i, m - 1))
    BY <2>3, ReverseJoined
  <2>7. Flat(d, a, c) = Reverse(Flat(s, i, m))
    BY <2>2, <2>3, <2>4, <2>5, <2>6
  <2> QED BY <2>1, <2>7 DEF a, c, Good
<1> HIDE DEF Good
<1>5. \A m \in i .. n : m \in Good
  BY <1>1, <1>3, <1>4, Upward
<1> QED BY <1>1, <1>5 DEF Good, n, d

-----------------------------------------------------------------------------
(* The ways to cut a list *)

WayStep(S, b) ==
  IF b = << >> THEN S
  ELSE {Append(w, b) : w \in S} \cup {Append(Front(w), Last(w) \o b) : w \in S \ {<< >>}}

WayRuns(g, list) ==
  g = [k \in 0 .. Len(list) |->
         IF k = 0 THEN {<< >>}
         ELSE IF list[k] = << >> THEN g[k - 1]
         ELSE {Append(w, list[k]) : w \in g[k - 1]}
                \cup {Append(Front(w), Last(w) \o list[k]) : w \in g[k - 1] \ {<< >>}}]

\* the ways to cut the first k groups
WaysTo(list, k) == (CHOOSE g : WayRuns(g, list))[k]

\* A sequence that is not empty, its last element and the others.
LEMMA FrontAndLast ==
  ASSUME NEW X, NEW w \in Seq(X), w # <<>>
  PROVE  Front(w) \in Seq(X) /\ Last(w) \in X /\ w = Append(Front(w), Last(w)) /\ Len(Front(w)) = Len(w) - 1
<1> DEFINE n == Len(w)
           f == SubSeq(w, 1, n - 1)
           x == w[n]
<1>1. n \in Nat \ {0} /\ n \in 1 .. n /\ 1 \in 1 .. n
  OBVIOUS
<1>2. f \in Seq(X) /\ x \in X /\ Len(f) = n - 1
  <2>1. n - 1 \in Nat /\ n - 1 <= n /\ 1 <= (n - 1) + 1 /\ 1 \in Nat \ {0} /\ ((n - 1) + 1) - 1 = n - 1
    BY <1>1
  <2>2. f \in Seq(X) /\ Len(f) = ((n - 1) + 1) - 1
    BY <2>1, PartOf
  <2> QED BY <1>1, <2>1, <2>2
<1>3. SubSeq(w, 1, n) = w
  BY SubSeqFull
<1>4. SubSeq(w, 1, n) = f \o <<x>>
  BY <1>1, SubSeqRecursiveSecond
<1> HIDE DEF f, x, n
<1>5. f \o <<x>> = Append(f, x)
  BY <1>2, AppendIsConcat
<1>6. Front(w) = f /\ Last(w) = x
  BY DEF Front, Last, f, x, n
<1> QED BY <1>2, <1>3, <1>4, <1>5, <1>6 DEF n

LEMMA FrontOfAppend ==
  ASSUME NEW X, NEW u \in Seq(X), NEW x \in X
  PROVE  /\ Append(u, x) \in Seq(X) /\ Append(u, x) # <<>> /\ Len(Append(u, x)) = Len(u) + 1
         /\ Front(Append(u, x)) = u /\ Last(Append(u, x)) = x
         /\ Append(u, x)[1] = IF u = <<>> THEN x ELSE u[1]
<1> DEFINE w == Append(u, x)
           n == Len(u)
<1>1. w \in Seq(X) /\ Len(w) = n + 1 /\ w[n + 1] = x /\ n \in Nat /\ \A i \in 1 .. n : w[i] = u[i]
  OBVIOUS
<1>2. w # <<>>
  BY <1>1
<1> HIDE DEF w
<1>3. Last(w) = x
  BY <1>1 DEF Last
<1>4. Front(w) = u
  <2> DEFINE f == Front(w)
  <2>1. f = SubSeq(w, 1, n)
    BY <1>1 DEF Front
  <2>2. f \in Seq(X) /\ Len(f) = n /\ \A i \in 1 .. n : f[i] = w[i]
    BY <1>1, <2>1
  <2> HIDE DEF f
  <2>3. \A i \in 1 .. Len(f) : f[i] = u[i]
    BY <1>1, <2>2
  <2>4. f = u
    BY <2>2, <2>3, SeqEqual
  <2> QED BY <2>4 DEF f
<1>5. w[1] = IF u = <<>> THEN x ELSE u[1]
  <2>1. u = <<>> => n = 0
    OBVIOUS
  <2>2. u # <<>> => 1 \in 1 .. n
    OBVIOUS
  <2> QED BY <1>1, <2>1, <2>2
<1> QED BY <1>1, <1>2, <1>3, <1>4, <1>5 DEF w

LEMMA WayStepTyped ==
  ASSUME NEW X, NEW S \in SUBSET Seq(Seq(X)), NEW b \in Seq(X)
  PROVE  WayStep(S, b) \in SUBSET Seq(Seq(X))
<1> SUFFICES ASSUME NEW v \in WayStep(S, b) PROVE v \in Seq(Seq(X))
  OBVIOUS
<1>1. CASE v \in S
  BY <1>1
<1>2. CASE \E w \in S : v = Append(w, b)
  BY <1>2
<1>3. CASE \E w \in S \ {<<>>} : v = Append(Front(w), Last(w) \o b)
  <2>1. PICK w \in S \ {<<>>} : v = Append(Front(w), Last(w) \o b)
    BY <1>3
  <2>2. w \in Seq(Seq(X)) /\ w # <<>>
    OBVIOUS
  <2>3. Front(w) \in Seq(Seq(X)) /\ Last(w) \in Seq(X)
    BY <2>2, FrontAndLast
  <2>4. Last(w) \o b \in Seq(X)
    BY <2>3
  <2> QED BY <2>1, <2>3, <2>4, FrontOfAppend
<1> QED BY <1>1, <1>2, <1>3 DEF WayStep

LEMMA WaysSteps ==
  ASSUME NEW X, NEW s \in Seq(Seq(X))
  PROVE  /\ Ways(s) = WaysTo(s, Len(s)) /\ WaysTo(s, 0) = {<<>>}
         /\ \A k \in 0 .. Len(s) : WaysTo(s, k) \in SUBSET Seq(Seq(X))
         /\ \A k \in 1 .. Len(s) : s[k] \in Seq(X) /\ WaysTo(s, k) = WayStep(WaysTo(s, k - 1), s[k])
<1> DEFINE V == SUBSET Seq(Seq(X))
           n == Len(s)
           x == {<<>>}
           move(k) == [S \in V |-> IF k \in 1 .. n THEN WayStep(S, s[k]) ELSE S]
           z == [k \in Nat |-> move(k)]
<1>1. n \in Nat /\ x \in V /\ \A k \in 1 .. n : s[k] \in Seq(X)
  OBVIOUS
<1>2. \A k \in 1 .. n : \A S \in V : WayStep(S, s[k]) \in V
  BY <1>1, WayStepTyped
<1> HIDE DEF V, n, x
<1>3. z \in [Nat -> [V -> V]]
  BY <1>2
<1>4. PICK g : ByRecursion(g, V, 0, n, x, z)
  <2> HIDE DEF z
  <2>1. 0 <= n /\ 0 \in Nat
    BY <1>1
  <2> QED BY <1>1, <1>3, <2>1, Recursion
<1>5. g \in [0 .. n -> V] /\ g[0] = x
  BY <1>4 DEF ByRecursion
<1>6. ASSUME NEW k \in 1 .. n PROVE g[k] = WayStep(g[k - 1], s[k])
  <2>1. k \in 0 + 1 .. n /\ k \in Nat /\ k - 1 \in 0 .. n
    BY <1>1
  <2>2. g[k] = z[k][g[k - 1]] /\ g[k - 1] \in V
    BY <1>4, <2>1 DEF ByRecursion
  <2>3. z[k] = move(k)
    BY <2>1
  <2> HIDE DEF z
  <2> QED BY <2>2, <2>3
<1>7. WayRuns(g, s)
  <2>1. \A k \in 0 .. n : k # 0 => k \in 1 .. n
    BY <1>1
  <2>2. \A k \in 0 .. n : g[k] = IF k = 0 THEN x ELSE WayStep(g[k - 1], s[k])
    BY <1>5, <1>6, <2>1
  <2>3. g = [k \in 0 .. n |-> g[k]]
    BY <1>5
  <2> QED BY <2>2, <2>3 DEF WayRuns, WayStep, n, x
<1> DEFINE h == CHOOSE f : WayRuns(f, s)
<1>8. WayRuns(h, s)
  BY <1>7
<1>9. Ways(s) = h[n] /\ \A k : WaysTo(s, k) = h[k]
  BY DEF Ways, WayRuns, WaysTo, n
<1> HIDE DEF h
<1>10. h[0] = x /\ \A k \in 1 .. n : h[k] = WayStep(h[k - 1], s[k])
  <2>1. \A k \in 0 .. n : h[k] = IF k = 0 THEN x ELSE WayStep(h[k - 1], s[k])
    BY <1>8 DEF WayRuns, WayStep, n, x
  <2>2. 0 \in 0 .. n /\ \A k \in 1 .. n : k \in 0 .. n /\ k # 0
    BY <1>1
  <2> QED BY <2>1, <2>2
<1>11. \A k \in 0 .. n : h[k] \in V
  <2>1. ASSUME NEW k \in 0 + 1 .. n, h[k - 1] \in V PROVE h[k] \in V
    <3>1. k \in 1 .. n
      BY <1>1
    <3> QED BY <1>2, <1>10, <2>1, <3>1
  <2> QED BY <1>1, <1>10, <2>1, Along
<1> QED BY <1>1, <1>9, <1>10, <1>11 DEF n, x, V

\* A way ends with groups joined, after a way of the groups before them.
EndsAt(s, k, w) ==
  \E i \in 0 .. k : \E u \in WaysTo(s, i) : Flat(s, i, k) # <<>> /\ w = Append(u, Flat(s, i, k))

LEMMA WayEnds ==
  ASSUME NEW X, NEW s \in Seq(Seq(X)), NEW k \in 0 .. Len(s), NEW w \in WaysTo(s, k)
  PROVE  (w = <<>> /\ Flat(s, 0, k) = <<>>) \/ EndsAt(s, k, w)
<1> DEFINE n == Len(s)
           Ended(m, v) == (v = <<>> /\ Flat(s, 0, m) = <<>>) \/ EndsAt(s, m, v)
           Good == {m \in Nat : \A v \in WaysTo(s, m) : Ended(m, v)}
<1>1. n \in Nat /\ k \in 0 .. n /\ 0 \in Nat /\ 0 \in 0 .. n
  OBVIOUS
<1>2. 0 \in Good
  <2>1. Flat(s, 0, 0) = <<>>
    BY <1>1, FlatSteps
  <2>2. WaysTo(s, 0) = {<<>>}
    BY WaysSteps
  <2> QED BY <2>1, <2>2
<1>3. ASSUME NEW m \in 0 + 1 .. n, m - 1 \in Good PROVE m \in Good
  <2> DEFINE b == s[m]
             j == m - 1
             S == WaysTo(s, j)
  <2>1. m \in 1 .. n /\ m \in Nat /\ j \in 0 .. n /\ j \in 0 .. m /\ j \in Nat /\ m - 1 = j /\ 0 .. j \subseteq 0 .. m
    BY <1>1
  <2>2. b \in Seq(X) /\ WaysTo(s, m) = WayStep(S, b) /\ S \in SUBSET Seq(Seq(X))
    <3>1. b \in Seq(X) /\ WaysTo(s, m) = WayStep(WaysTo(s, m - 1), b)
      BY <2>1, WaysSteps
    <3>2. S \in SUBSET Seq(Seq(X))
      BY <2>1, WaysSteps
    <3> QED BY <3>1, <3>2
  <2>3. \A i \in 0 .. j : Flat(s, i, j) \in Seq(X) /\ Flat(s, i, m) = Flat(s, i, j) \o b
    <3> SUFFICES ASSUME NEW i \in 0 .. j PROVE Flat(s, i, j) \in Seq(X) /\ Flat(s, i, m) = Flat(s, i, j) \o b
      OBVIOUS
    <3>1. i \in 0 .. Len(s) /\ j \in i .. Len(s) /\ m \in i + 1 .. Len(s)
      BY <2>1
    <3> QED BY <3>1, FlatSteps
  <2>4. \A v \in S : Ended(j, v)
    BY <1>3
  <2>5. Flat(s, j, j) = <<>>
    BY <2>1, FlatSteps
  <2> SUFFICES ASSUME NEW v \in WaysTo(s, m) PROVE Ended(m, v)
    BY <2>1
  <2> HIDE DEF b, S, j
  <2>6. CASE b = <<>>
    <3>1. v \in S
      BY <2>2, <2>6 DEF WayStep
    <3>2. \A i \in 0 .. j : Flat(s, i, m) = Flat(s, i, j)
      BY <2>3, <2>6
    <3>3. CASE v = <<>> /\ Flat(s, 0, j) = <<>>
      <4>1. 0 \in 0 .. j
        BY <2>1
      <4> QED BY <3>2, <3>3, <4>1
    <3>4. CASE EndsAt(s, j, v)
      BY <2>1, <3>2, <3>4 DEF EndsAt
    <3> QED BY <2>4, <3>1, <3>3, <3>4
  <2>7. CASE b # <<>> /\ \E u \in S : v = Append(u, b)
    <3>1. PICK u \in S : v = Append(u, b)
      BY <2>7
    <3>2. j \in 0 .. j
      BY <2>1
    <3>3. Flat(s, j, m) = b
      <4>1. Flat(s, j, m) = Flat(s, j, j) \o b
        BY <2>3, <3>2
      <4>2. <<>> \o b = b
        BY <2>2
      <4> QED BY <2>5, <4>1, <4>2
    <3> QED BY <2>1, <2>7, <3>1, <3>3 DEF EndsAt, S
  <2>8. CASE b # <<>> /\ \E u \in S \ {<<>>} : v = Append(Front(u), Last(u) \o b)
    <3>1. PICK u \in S \ {<<>>} : v = Append(Front(u), Last(u) \o b)
      BY <2>8
    <3>2. EndsAt(s, j, u)
      BY <2>4, <3>1
    <3>3. PICK i \in 0 .. j : \E y \in WaysTo(s, i) : Flat(s, i, j) # <<>> /\ u = Append(y, Flat(s, i, j))
      BY <3>2 DEF EndsAt
    <3>4. PICK y \in WaysTo(s, i) : u = Append(y, Flat(s, i, j))
      BY <3>3
    <3>5. y \in Seq(Seq(X)) /\ i \in 0 .. m
      <4>1. i \in 0 .. n /\ i \in 0 .. m
        BY <1>1, <2>1
      <4> QED BY <4>1, WaysSteps
    <3>6. Flat(s, i, j) \in Seq(X) /\ Flat(s, i, m) = Flat(s, i, j) \o b
      BY <2>3
    <3>7. Front(u) = y /\ Last(u) = Flat(s, i, j)
      BY <3>4, <3>5, <3>6, FrontOfAppend
    <3>8. v = Append(y, Flat(s, i, m))
      BY <3>1, <3>6, <3>7
    <3>9. Flat(s, i, m) # <<>>
      <4>1. Len(Flat(s, i, m)) = Len(Flat(s, i, j)) + Len(b) /\ Len(b) \in Nat \ {0} /\ Len(Flat(s, i, j)) \in Nat
        BY <2>2, <2>8, <3>6
      <4>2. Len(<<>>) = 0
        OBVIOUS
      <4> QED BY <4>1, <4>2
    <3> QED BY <3>5, <3>8, <3>9 DEF EndsAt
  <2> QED BY <2>2, <2>6, <2>7, <2>8 DEF WayStep
<1> HIDE DEF Good, n
<1>4. \A m \in 0 .. n : m \in Good
  BY <1>1, <1>2, <1>3, Upward
<1> QED BY <1>1, <1>4 DEF Good

\* A way goes on with any groups joined, unless they are empty.
LEMMA WayGrows ==
  ASSUME NEW X, NEW s \in Seq(Seq(X)), NEW k \in 0 .. Len(s), NEW i \in 0 .. k, NEW u \in WaysTo(s, i)
  PROVE  IF Flat(s, i, k) = <<>> THEN u \in WaysTo(s, k) ELSE Append(u, Flat(s, i, k)) \in WaysTo(s, k)
<1> DEFINE n == Len(s)
           Grown(m) == IF Flat(s, i, m) = <<>> THEN u \in WaysTo(s, m) ELSE Append(u, Flat(s, i, m)) \in WaysTo(s, m)
           Good == {m \in Nat : Grown(m)}
<1>1. n \in Nat /\ i \in 0 .. n /\ i \in Nat /\ k \in i .. n /\ k \in Nat
  OBVIOUS
<1>2. u \in Seq(Seq(X))
  BY <1>1, WaysSteps
<1>3. i \in Good
  <2>1. Flat(s, i, i) = <<>>
    BY <1>1, FlatSteps
  <2> QED BY <1>1, <2>1
<1>4. ASSUME NEW m \in i + 1 .. n, m - 1 \in Good PROVE m \in Good
  <2> DEFINE b == s[m]
             j == m - 1
             S == WaysTo(s, j)
             f == Flat(s, i, j)
  <2>1. m \in 1 .. n /\ m \in Nat /\ j \in i .. n /\ j \in 0 .. n /\ j \in Nat
    BY <1>1
  <2>2. b \in Seq(X) /\ WaysTo(s, m) = WayStep(S, b) /\ S \in SUBSET Seq(Seq(X))
    <3>1. b \in Seq(X) /\ WaysTo(s, m) = WayStep(WaysTo(s, m - 1), b)
      BY <2>1, WaysSteps
    <3>2. S \in SUBSET Seq(Seq(X))
      BY <2>1, WaysSteps
    <3> QED BY <3>1, <3>2
  <2>3. f \in Seq(X) /\ Flat(s, i, m) = f \o b
    BY <1>1, <2>1, FlatSteps
  <2>4. IF f = <<>> THEN u \in S ELSE Append(u, f) \in S
    BY <1>4
  <2> HIDE DEF Good
  <2> SUFFICES Grown(m)
    BY <2>1 DEF Good
  <2> HIDE DEF b, j, S, f
  <2>5. CASE b = <<>>
    <3>1. f \o b = f
      BY <2>3, <2>5
    <3>2. WaysTo(s, m) = S
      BY <2>2, <2>5 DEF WayStep
    <3> QED BY <2>3, <2>4, <3>1, <3>2
  <2>6. CASE b # <<>>
    <3>1. f \o b # <<>>
      <4>1. Len(f \o b) = Len(f) + Len(b) /\ Len(b) \in Nat \ {0} /\ Len(f) \in Nat
        BY <2>2, <2>3, <2>6
      <4>2. Len(<<>>) = 0
        OBVIOUS
      <4> QED BY <4>1, <4>2
    <3>2. CASE f = <<>>
      <4>1. f \o b = b
        BY <2>2, <3>2
      <4>2. Append(u, b) \in WaysTo(s, m)
        BY <2>2, <2>4, <2>6, <3>2 DEF WayStep
      <4> QED BY <2>3, <3>1, <4>1, <4>2
    <3>3. CASE f # <<>>
      <4>0. u \in Seq(Seq(X)) /\ f \in Seq(X)
        BY <1>2, <2>3
      <4>1. Append(u, f) \in S /\ Append(u, f) # <<>> /\ Front(Append(u, f)) = u /\ Last(Append(u, f)) = f
        <5>1. Append(u, f) # <<>> /\ Front(Append(u, f)) = u /\ Last(Append(u, f)) = f
          <6> DEFINE Y == Seq(X)
          <6>1. u \in Seq(Y) /\ f \in Y
            BY <4>0
          <6> HIDE DEF Y
          <6> QED BY <6>1, FrontOfAppend
        <5>2. Append(u, f) \in S
          BY <2>4, <3>3
        <5> QED BY <5>1, <5>2
      <4>2. Append(u, f \o b) \in WaysTo(s, m)
        BY <2>2, <2>6, <4>1 DEF WayStep
      <4> QED BY <2>3, <3>1, <4>2
    <3> QED BY <3>2, <3>3
  <2> QED BY <2>5, <2>6
<1> HIDE DEF Good, n
<1>5. \A m \in i .. n : m \in Good
  BY <1>1, <1>3, <1>4, Upward
<1> QED BY <1>1, <1>5 DEF Good

\* w is the way u of the first i groups and, joined, the others up to k.
EndsWith(X, s, k, w, i, u) ==
  /\ Flat(s, i, k) # <<>> /\ Flat(s, i, k) \in Seq(X) /\ u \in Seq(Seq(X))
  /\ w = Append(u, Flat(s, i, k)) /\ Len(w) = Len(u) + 1 /\ Len(u) \in Nat
  /\ w[1] = IF u = <<>> THEN Flat(s, i, k) ELSE u[1]

LEMMA WayEnding ==
  ASSUME NEW X, NEW s \in Seq(Seq(X)), NEW k \in 0 .. Len(s), NEW w \in WaysTo(s, k), w # <<>>
  PROVE  \E i \in 0 .. k : \E u \in WaysTo(s, i) : EndsWith(X, s, k, w, i, u)
<1>1. PICK i \in 0 .. k : \E u \in WaysTo(s, i) : Flat(s, i, k) # <<>> /\ w = Append(u, Flat(s, i, k))
  BY WayEnds DEF EndsAt
<1>2. PICK u \in WaysTo(s, i) : Flat(s, i, k) # <<>> /\ w = Append(u, Flat(s, i, k))
  BY <1>1
<1>3. i \in 0 .. Len(s) /\ k \in i .. Len(s)
  OBVIOUS
<1>4. u \in Seq(Seq(X)) /\ Flat(s, i, k) \in Seq(X)
  BY <1>3, FlatSteps, WaysSteps
<1> DEFINE f == Flat(s, i, k)
<1>5. f \in Seq(X) /\ w = Append(u, f)
  BY <1>2, <1>4
<1> HIDE DEF f
<1>6. Len(w) = Len(u) + 1 /\ w[1] = IF u = <<>> THEN f ELSE u[1]
  BY <1>4, <1>5, FrontOfAppend
<1>7. Len(u) \in Nat
  BY <1>4
<1>8. EndsWith(X, s, k, w, i, u)
  BY <1>2, <1>4, <1>6, <1>7 DEF f, EndsWith
<1> QED BY <1>8

\* Joined to nothing only if both are.
LEMMA JoinedEmpty ==
  ASSUME NEW X, NEW a \in Seq(X), NEW b \in Seq(X), a \o b = <<>>
  PROVE  a = <<>> /\ b = <<>>
<1>1. Len(a \o b) = Len(a) + Len(b) /\ Len(a) \in Nat /\ Len(b) \in Nat
  OBVIOUS
<1>2. Len(<<>>) = 0
  OBVIOUS
<1>3. Len(a) = 0 /\ Len(b) = 0
  BY <1>1, <1>2
<1> QED BY <1>3

\* Only if there is no instruction there is no transaction.
LEMMA EmptyWay ==
  ASSUME NEW X, NEW s \in Seq(Seq(X)), NEW k \in 0 .. Len(s), NEW w \in WaysTo(s, k)
  PROVE  w = <<>> <=> Flat(s, 0, k) = <<>>
<1>1. ASSUME w # <<>> PROVE Flat(s, 0, k) # <<>>
  <2>1. PICK i \in 0 .. k : \E u \in WaysTo(s, i) : EndsWith(X, s, k, w, i, u)
    BY <1>1, WayEnding
  <2>2. Flat(s, i, k) # <<>> /\ Flat(s, i, k) \in Seq(X)
    BY <2>1 DEF EndsWith
  <2>3. i \in 0 .. Len(s) /\ i \in 0 .. k /\ 0 \in 0 .. i /\ 0 \in 0 .. Len(s) /\ i \in 0 .. Len(s)
    OBVIOUS
  <2>4. Flat(s, 0, k) = Flat(s, 0, i) \o Flat(s, i, k)
    BY <2>3, FlatJoins
  <2>5. Flat(s, 0, i) \in Seq(X)
    BY <2>3, FlatSteps
  <2> DEFINE a == Flat(s, 0, i)
             b == Flat(s, i, k)
  <2>6. a \in Seq(X) /\ b \in Seq(X) /\ b # <<>>
    BY <2>2, <2>5
  <2> HIDE DEF a, b
  <2>7. a \o b # <<>>
    BY <2>6, JoinedEmpty
  <2> QED BY <2>4, <2>7 DEF a, b
<1>2. ASSUME w = <<>> PROVE Flat(s, 0, k) = <<>>
  <2>1. ~EndsAt(s, k, w)
    <3> SUFFICES ASSUME EndsAt(s, k, w) PROVE FALSE
      OBVIOUS
    <3>1. PICK i \in 0 .. k : \E u \in WaysTo(s, i) : w = Append(u, Flat(s, i, k))
      BY DEF EndsAt
    <3>2. PICK u \in WaysTo(s, i) : w = Append(u, Flat(s, i, k))
      BY <3>1
    <3>3. i \in 0 .. Len(s) /\ k \in i .. Len(s)
      OBVIOUS
    <3> DEFINE f == Flat(s, i, k)
    <3>4. f \in Seq(X) /\ u \in Seq(Seq(X)) /\ w = Append(u, f)
      BY <3>2, <3>3, FlatSteps, WaysSteps
    <3> HIDE DEF f
    <3>5. Append(u, f) # <<>>
      BY <3>4, FrontOfAppend
    <3> QED BY <1>2, <3>4, <3>5
  <2> QED BY <2>1, WayEnds
<1> QED BY <1>1, <1>2

\* The first transaction of a way has the first groups.
LEMMA WayBegins ==
  ASSUME NEW X, NEW s \in Seq(Seq(X)), NEW k \in 0 .. Len(s), NEW w \in WaysTo(s, k), w # <<>>
  PROVE  \E i \in 0 .. k : w[1] = Flat(s, 0, i)
<1> DEFINE n == Len(s)
           Good == {m \in Nat : \A j \in 0 .. n : \A v \in WaysTo(s, j) :
                      v # <<>> /\ Len(v) = m => \E i \in 0 .. j : v[1] = Flat(s, 0, i)}
<1>1. n \in Nat /\ k \in 0 .. n
  OBVIOUS
<1>2. 0 \in Good
  <2> SUFFICES ASSUME NEW j \in 0 .. n, NEW v \in WaysTo(s, j), v # <<>>, Len(v) = 0 PROVE FALSE
    BY <1>1
  <2>1. v \in Seq(Seq(X))
    BY WaysSteps
  <2> QED BY <2>1
<1>3. ASSUME NEW m \in Nat, m \in Good PROVE m + 1 \in Good
  <2> SUFFICES ASSUME NEW j \in 0 .. n, NEW v \in WaysTo(s, j), v # <<>>, Len(v) = m + 1
               PROVE  \E i \in 0 .. j : v[1] = Flat(s, 0, i)
    OBVIOUS
  <2>1. PICK i \in 0 .. j : \E u \in WaysTo(s, i) : EndsWith(X, s, j, v, i, u)
    BY WayEnding
  <2>2. PICK u \in WaysTo(s, i) :
           /\ Flat(s, i, j) # <<>> /\ Flat(s, i, j) \in Seq(X) /\ u \in Seq(Seq(X))
           /\ v = Append(u, Flat(s, i, j)) /\ Len(v) = Len(u) + 1 /\ Len(u) \in Nat
           /\ v[1] = IF u = <<>> THEN Flat(s, i, j) ELSE u[1]
    BY <2>1 DEF EndsWith
  <2>3. i \in 0 .. n /\ 0 .. i \subseteq 0 .. j /\ j \in 0 .. j /\ 0 \in 0 .. i
    BY <1>1
  <2>4. CASE u = <<>>
    <3>1. Flat(s, 0, i) = <<>>
      BY <2>3, <2>4, EmptyWay
    <3>2. Flat(s, 0, j) = Flat(s, 0, i) \o Flat(s, i, j)
      <4>1. j \in 0 .. Len(s) /\ i \in 0 .. j /\ 0 \in 0 .. i
        BY <2>3
      <4> QED BY <4>1, FlatJoins
    <3>3. <<>> \o Flat(s, i, j) = Flat(s, i, j)
      BY <2>2
    <3> QED BY <2>2, <2>3, <2>4, <3>1, <3>2, <3>3
  <2>5. CASE u # <<>>
    <3>1. Len(u) = m
      BY <2>2
    <3>2. \E h \in 0 .. i : u[1] = Flat(s, 0, h)
      BY <1>3, <2>3, <2>5, <3>1
    <3> QED BY <2>2, <2>3, <2>5, <3>2
  <2> QED BY <2>4, <2>5
<1> HIDE DEF Good
<1>4. Nat \subseteq Good
  BY <1>2, <1>3, NatSetInduction
<1>5. Len(w) \in Nat
  <2>1. w \in Seq(Seq(X))
    BY <1>1, WaysSteps
  <2> QED BY <2>1
<1> QED BY <1>1, <1>4, <1>5 DEF Good

\* Backwards, the ways to cut a list are those to cut it backwards.
LEMMA WayReversed ==
  ASSUME NEW X, NEW s \in Seq(Seq(X))
  PROVE  \A w \in Ways(s) : w \in Seq(Seq(X)) /\ deep_reverse(w) \in Ways(deep_reverse(s))
<1> DEFINE n == Len(s)
           d == deep_reverse(s)
           Good == {m \in Nat : \A k \in 0 .. n : \A w \in WaysTo(s, k) : \A v \in WaysTo(d, n - k) :
                      Len(w) = m => v \o deep_reverse(w) \in WaysTo(d, n)}
<1>1. n \in Nat /\ d \in Seq(Seq(X)) /\ Len(d) = n
  BY DeepTyped
<1>2. \A k \in 0 .. n : /\ n - k \in 0 .. n
                        /\ \A w \in WaysTo(s, k) : w \in Seq(Seq(X))
                        /\ \A v \in WaysTo(d, n - k) : v \in Seq(Seq(X))
  <2> SUFFICES ASSUME NEW k \in 0 .. n
               PROVE  /\ n - k \in 0 .. n
                      /\ \A w \in WaysTo(s, k) : w \in Seq(Seq(X))
                      /\ \A v \in WaysTo(d, n - k) : v \in Seq(Seq(X))
    OBVIOUS
  <2>1. n - k \in 0 .. n
    BY <1>1
  <2>2. \A w \in WaysTo(s, k) : w \in Seq(Seq(X))
    BY WaysSteps
  <2> HIDE DEF n, d
  <2>3. \A v \in WaysTo(d, n - k) : v \in Seq(Seq(X))
    BY <1>1, <2>1, WaysSteps
  <2> QED BY <2>1, <2>2, <2>3
<1>3. \A k \in 0 .. n : \A i \in 0 .. k : Flat(d, n - k, n - i) = Reverse(Flat(s, i, k))
  BY FlatReversed
<1> HIDE DEF d, n
<1>4. 0 \in Good
  <2> SUFFICES ASSUME NEW k \in 0 .. n, NEW w \in WaysTo(s, k), NEW v \in WaysTo(d, n - k), Len(w) = 0
               PROVE  v \o deep_reverse(w) \in WaysTo(d, n)
    BY <1>1
  <2>1. w = <<>> /\ v \in Seq(Seq(X))
    BY <1>2
  <2>2. Flat(s, 0, k) = <<>>
    <3>1. k \in 0 .. Len(s)
      BY DEF n
    <3> QED BY <2>1, <3>1, EmptyWay
  <2>3. 0 \in 0 .. k /\ n - 0 = n /\ n \in 0 .. Len(d) /\ n - k \in 0 .. n
    BY <1>1
  <2>4. Flat(d, n - k, n) = <<>>
    BY <1>3, <2>2, <2>3, ReverseOne
  <2>5. v \in WaysTo(d, n)
    BY <1>1, <2>3, <2>4, WayGrows
  <2>6. deep_reverse(w) = <<>>
    <3>1. <<>> \in Seq(Seq(X)) /\ <<>> \in Seq(X)
      OBVIOUS
    <3> QED BY <2>1, <3>1, DeepJoined
  <2>7. v \o <<>> = v
    BY <2>1
  <2> QED BY <2>5, <2>6, <2>7
<1>5. ASSUME NEW m \in Nat, m \in Good PROVE m + 1 \in Good
  <2> SUFFICES ASSUME NEW k \in 0 .. n, NEW w \in WaysTo(s, k), NEW v \in WaysTo(d, n - k), Len(w) = m + 1
               PROVE  v \o deep_reverse(w) \in WaysTo(d, n)
    OBVIOUS
  <2>1. w # <<>> /\ v \in Seq(Seq(X)) /\ k \in 0 .. Len(s)
    <3>1. w # <<>>
      <4>1. Len(<<>>) = 0
        OBVIOUS
      <4> QED BY <4>1
    <3> QED BY <1>2, <3>1 DEF n
  <2>2. PICK i \in 0 .. k : \E u \in WaysTo(s, i) : EndsWith(X, s, k, w, i, u)
    BY <2>1, WayEnding
  <2>3. PICK u \in WaysTo(s, i) : EndsWith(X, s, k, w, i, u)
    BY <2>2
  <2> DEFINE f == Flat(s, i, k)
             r == Reverse(f)
             c == deep_reverse(u)
  <2>4. f # <<>> /\ f \in Seq(X) /\ u \in Seq(Seq(X)) /\ w = Append(u, f) /\ Len(u) = m
    <3>1. f # <<>> /\ f \in Seq(X) /\ u \in Seq(Seq(X)) /\ w = Append(u, f) /\ Len(w) = Len(u) + 1 /\ Len(u) \in Nat
      BY <2>3 DEF EndsWith
    <3> QED BY <3>1
  <2>5. i \in 0 .. n /\ n - i \in 0 .. n /\ n - k \in 0 .. n - i /\ n - i \in 0 .. Len(d)
    BY <1>1
  <2>6. Flat(d, n - k, n - i) = r
    BY <1>3
  <2> HIDE DEF f
  <2>7. r \in Seq(X) /\ Len(r) = Len(f)
    BY <2>4, ReverseTyped
  <2>8. r # <<>>
    <3>1. Len(f) # 0 /\ Len(<<>>) = 0
      BY <2>4
    <3> QED BY <2>7, <3>1
  <2>9. c \in Seq(Seq(X)) /\ deep_reverse(w) = <<r>> \o c
    BY <2>4, DeepTyped, DeepJoined
  <2> HIDE DEF r, c, Good
  <2>10. Append(v, r) \in WaysTo(d, n - i)
    BY <1>1, <2>5, <2>6, <2>8, WayGrows
  <2>11. Append(v, r) \o deep_reverse(u) \in WaysTo(d, n)
    BY <1>5, <2>4, <2>5, <2>10 DEF Good
  <2>12. Append(v, r) \o c = v \o (<<r>> \o c)
    <3>1. Append(v, r) = v \o <<r>>
      BY <2>1, <2>7, AppendIsConcat
    <3>2. <<r>> \in Seq(Seq(X)) /\ v \in Seq(Seq(X)) /\ c \in Seq(Seq(X))
      BY <2>1, <2>7, <2>9
    <3>3. (v \o <<r>>) \o c = v \o (<<r>> \o c)
      BY <3>2, Associated
    <3> QED BY <3>1, <3>3
  <2> QED BY <2>9, <2>11, <2>12 DEF c
<1> HIDE DEF Good
<1>6. Nat \subseteq Good
  BY <1>4, <1>5, NatSetInduction
<1>7. Ways(s) = WaysTo(s, n) /\ Ways(d) = WaysTo(d, n) /\ WaysTo(d, 0) = {<<>>}
  <2>1. Ways(s) = WaysTo(s, n)
    BY WaysSteps DEF n
  <2>2. Ways(d) = WaysTo(d, Len(d)) /\ WaysTo(d, 0) = {<<>>}
    BY <1>1, WaysSteps
  <2> QED BY <1>1, <2>1, <2>2
<1>8. ASSUME NEW w \in Ways(s) PROVE w \in Seq(Seq(X)) /\ deep_reverse(w) \in Ways(d)
  <2>1. n \in 0 .. n /\ n - n = 0
    BY <1>1
  <2>2. w \in Seq(Seq(X)) /\ w \in WaysTo(s, n) /\ <<>> \in WaysTo(d, n - n)
    BY <1>2, <1>7, <2>1
  <2>3. Len(w) \in Nat
    BY <2>2
  <2>4. <<>> \o deep_reverse(w) \in WaysTo(d, n)
    BY <1>6, <2>1, <2>2, <2>3 DEF Good
  <2>5. deep_reverse(w) \in Seq(Seq(X))
    BY <2>2, DeepTyped
  <2>6. <<>> \o deep_reverse(w) = deep_reverse(w)
    BY <2>5
  <2> QED BY <1>7, <2>2, <2>4, <2>6
<1> QED BY <1>8 DEF d

\* Part of a part of a list.
LEMMA PartOfRest ==
  ASSUME NEW X, NEW s \in Seq(X), NEW j \in 0 .. Len(s), NEW c \in 0 .. Len(s) - j, NEW a \in 0 .. c
  PROVE  /\ SubSeq(s, j + 1, Len(s)) \in Seq(X) /\ Len(SubSeq(s, j + 1, Len(s))) = Len(s) - j
         /\ SubSeq(SubSeq(s, j + 1, Len(s)), a + 1, c) = SubSeq(s, (j + a) + 1, j + c)
<1> DEFINE n == Len(s)
           r == SubSeq(s, j + 1, n)
           p == SubSeq(r, a + 1, c)
           q == SubSeq(s, (j + a) + 1, j + c)
<1>1. n \in Nat /\ j \in Nat /\ a \in Nat /\ c \in Nat /\ a <= c /\ j + c <= n
  OBVIOUS
<1>2. r \in Seq(X) /\ Len(r) = n - j /\ \A i \in 1 .. n - j : r[i] = s[j + i]
  OBVIOUS
<1> HIDE DEF r
<1>3. p \in Seq(X) /\ Len(p) = c - a /\ \A i \in 1 .. c - a : p[i] = r[a + i]
  BY <1>1, <1>2
<1>4. q \in Seq(X) /\ Len(q) = c - a /\ \A i \in 1 .. c - a : q[i] = s[(j + a) + i]
  BY <1>1
<1>5. \A i \in 1 .. c - a : a + i \in 1 .. n - j /\ j + (a + i) = (j + a) + i
  BY <1>1
<1> HIDE DEF p, q
<1>6. \A i \in 1 .. c - a : p[i] = q[i]
  BY <1>2, <1>3, <1>4, <1>5
<1>7. p = q
  BY <1>3, <1>4, <1>6, SeqEqual
<1> QED BY <1>2, <1>7 DEF p, q, r, n

\* The groups after the first i, up to the k-th, are those up to the j-th and the others.
Splits(s, i, j, k) ==
  /\ Flat(s, i, k) = Flat(s, i, j) \o Flat(s, j, k)
  /\ Flat(s, i, j) \in Seq(Ixs) /\ Flat(s, j, k) \in Seq(Ixs) /\ Flat(s, i, k) \in Seq(Ixs)
  /\ Flat(s, i, j) = <<>> => Flat(s, i, k) = Flat(s, j, k)
  /\ Flat(s, i, k) = <<>> => Flat(s, i, j) = <<>> /\ Flat(s, j, k) = <<>>

FitsSplit(s, i, j, k) ==
  FitsAlone(Flat(s, i, k)) => FitsAlone(Flat(s, i, j)) /\ FitsAlone(Flat(s, j, k))

\* Fewer groups of a transaction that fits do.
LEMMA FitsLess ==
  ASSUME NEW s \in Seq(Seq(Ixs)), NEW k \in 0 .. Len(s), NEW j \in 0 .. k, NEW i \in 0 .. j
  PROVE  Splits(s, i, j, k) /\ FitsSplit(s, i, j, k)
<1> DEFINE a == Flat(s, i, j)
           b == Flat(s, j, k)
           c == Flat(s, i, k)
<1>1. i \in 0 .. Len(s) /\ j \in 0 .. Len(s) /\ j \in i .. Len(s) /\ k \in j .. Len(s) /\ k \in i .. Len(s)
  OBVIOUS
<1>2. a \in Seq(Ixs) /\ b \in Seq(Ixs) /\ c \in Seq(Ixs)
  BY <1>1, FlatSteps
<1>3. c = a \o b
  BY FlatJoins
<1> HIDE DEF a, b, c
<1>4. a = <<>> => c = b
  BY <1>2, <1>3
<1>5. c = <<>> => a = <<>> /\ b = <<>>
  BY <1>2, <1>3, JoinedEmpty
<1>6. FitsAlone(c) => FitsAlone(a) /\ FitsAlone(b)
  BY <1>2, <1>3, FitsPart
<1> QED BY <1>2, <1>3, <1>4, <1>5, <1>6 DEF Splits, FitsSplit, a, b, c

-----------------------------------------------------------------------------
(* The greedy choice *)

\* the ways to cut the first k groups in which each transaction fits
FittingTo(s, k) == {w \in WaysTo(s, k) : \A i \in DOMAIN w : FitsAlone(w[i])}

\* The transactions of w do not take more groups than those made of the first j, w has not
\* fewer of them, and the first has not more instructions.
NotBetter(s, made, j, k, w) ==
  /\ Len(w) <= Len(made) => k <= j \/ Flat(s, j, k) = <<>>
  /\ k >= j => Len(made) <= Len(w)
  /\ w # <<>> /\ made # <<>> => Len(w[1]) <= Len(made[1])

\* No way to cut any number of groups is better than what is made of the first j.
Packed(s, made, j) ==
  /\ made \in FittingTo(s, j)
  /\ \A k \in 0 .. Len(s) : \A w \in FittingTo(s, k) : NotBetter(s, made, j, k, w)

LEMMA FittingTyped ==
  ASSUME NEW s \in Seq(Seq(Ixs)), NEW k \in 0 .. Len(s), NEW w \in FittingTo(s, k)
  PROVE  /\ w \in WaysTo(s, k) /\ w \in Seq(Seq(Ixs)) /\ Len(w) \in Nat
         /\ \A i \in 1 .. Len(w) : w[i] \in Seq(Ixs) /\ FitsAlone(w[i])
<1>1. w \in WaysTo(s, k) /\ \A i \in DOMAIN w : FitsAlone(w[i])
  BY DEF FittingTo
<1>2. w \in Seq(Seq(Ixs))
  BY <1>1, WaysSteps
<1> QED BY <1>1, <1>2

\* A fitting way that is not empty is a fitting way with a transaction that fits.
LEMMA FittingEnding ==
  ASSUME NEW s \in Seq(Seq(Ixs)), NEW k \in 0 .. Len(s), NEW w \in FittingTo(s, k), w # <<>>
  PROVE  \E i \in 0 .. k : \E u \in FittingTo(s, i) :
           FitsAlone(Flat(s, i, k)) /\ Len(w) = Len(u) + 1
<1>1. /\ w \in WaysTo(s, k) /\ w \in Seq(Seq(Ixs)) /\ Len(w) \in Nat
      /\ \A i \in 1 .. Len(w) : FitsAlone(w[i])
  BY FittingTyped
<1>2. PICK i \in 0 .. k : \E u \in WaysTo(s, i) : EndsWith(Ixs, s, k, w, i, u)
  BY <1>1, WayEnding
<1>3. PICK u \in WaysTo(s, i) : EndsWith(Ixs, s, k, w, i, u)
  BY <1>2
<1> DEFINE f == Flat(s, i, k)
<1>4. f \in Seq(Ixs) /\ u \in Seq(Seq(Ixs)) /\ w = Append(u, f) /\ Len(w) = Len(u) + 1 /\ Len(u) \in Nat
  BY <1>3 DEF EndsWith
<1> HIDE DEF f
<1>5. w[Len(u) + 1] = f /\ \A m \in 1 .. Len(u) : w[m] = u[m]
  BY <1>4
<1>6. FitsAlone(f)
  BY <1>1, <1>4, <1>5
<1>7. \A m \in DOMAIN u : FitsAlone(u[m])
  <2>1. DOMAIN u = 1 .. Len(u) /\ \A m \in 1 .. Len(u) : m \in 1 .. Len(w)
    BY <1>4
  <2> QED BY <1>1, <1>5, <2>1
<1> QED BY <1>4, <1>6, <1>7 DEF FittingTo, f

\* Before the first group.
LEMMA PackedFirst ==
  ASSUME NEW s \in Seq(Seq(Ixs))
  PROVE  Packed(s, <<>>, 0)
<1>1. <<>> \in FittingTo(s, 0)
  <2>1. WaysTo(s, 0) = {<<>>}
    BY WaysSteps
  <2> QED BY <2>1 DEF FittingTo
<1>2. ASSUME NEW k \in 0 .. Len(s), NEW w \in FittingTo(s, k) PROVE NotBetter(s, <<>>, 0, k, w)
  <2>1. w \in WaysTo(s, k) /\ w \in Seq(Seq(Ixs)) /\ Len(w) \in Nat
    BY FittingTyped
  <2>2. Len(<<>>) = 0
    OBVIOUS
  <2>3. Len(w) <= 0 => w = <<>>
    BY <2>1
  <2>4. w = <<>> => Flat(s, 0, k) = <<>>
    BY <2>1, EmptyWay
  <2> QED BY <2>1, <2>2, <2>3, <2>4 DEF NotBetter
<1> QED BY <1>1, <1>2 DEF Packed

\* With the groups up to e, the most that fit, in the next transaction, nothing is better.
LEMMA PackedNext ==
  ASSUME NEW s \in Seq(Seq(Ixs)), NEW j \in 0 .. Len(s), NEW e \in j .. Len(s),
         NEW made, Packed(s, made, j),
         FitsAlone(Flat(s, j, e)), \A k \in e + 1 .. Len(s) : ~FitsAlone(Flat(s, j, k))
  PROVE  Packed(s, IF Flat(s, j, e) = <<>> THEN made ELSE Append(made, Flat(s, j, e)), e)
<1> DEFINE f == Flat(s, j, e)
           n == Len(s)
           m == Len(made)
<1>1. n \in Nat /\ e \in 0 .. n /\ j \in 0 .. e /\ j \in Nat /\ e \in Nat
  OBVIOUS
<1>2. made \in FittingTo(s, j)
  BY DEF Packed
<1>3. /\ made \in WaysTo(s, j) /\ made \in Seq(Seq(Ixs)) /\ m \in Nat
      /\ \A i \in 1 .. m : made[i] \in Seq(Ixs) /\ FitsAlone(made[i])
  BY <1>2, FittingTyped
<1>4. \A k \in 0 .. n : \A w \in FittingTo(s, k) : NotBetter(s, made, j, k, w)
  BY DEF Packed
<1>5. f \in Seq(Ixs) /\ FitsAlone(f)
  <2>1. 0 \in 0 .. j
    OBVIOUS
  <2> QED BY <1>1, FlatSteps
<1>6. \A k \in e .. n : /\ Flat(s, j, k) = f \o Flat(s, e, k) /\ Flat(s, e, k) \in Seq(Ixs)
                        /\ f = <<>> => Flat(s, j, k) = Flat(s, e, k)
                        /\ Flat(s, j, k) = <<>> => f = <<>> /\ Flat(s, e, k) = <<>>
  <2> SUFFICES ASSUME NEW k \in e .. n
               PROVE  /\ Flat(s, j, k) = f \o Flat(s, e, k) /\ Flat(s, e, k) \in Seq(Ixs)
                      /\ f = <<>> => Flat(s, j, k) = Flat(s, e, k)
                      /\ Flat(s, j, k) = <<>> => f = <<>> /\ Flat(s, e, k) = <<>>
    OBVIOUS
  <2>1. k \in 0 .. Len(s) /\ e \in 0 .. k /\ j \in 0 .. e
    BY <1>1
  <2>2. Splits(s, j, e, k)
    BY <2>1, FitsLess
  <2> QED BY <2>2 DEF Splits
<1>7. CASE f = <<>>
  <2>1. made \in FittingTo(s, e)
    <3>1. made \in WaysTo(s, e)
      BY <1>1, <1>3, <1>7, WayGrows
    <3> QED BY <1>2, <3>1 DEF FittingTo
  <2>2. ASSUME NEW k \in 0 .. n, NEW w \in FittingTo(s, k) PROVE NotBetter(s, made, e, k, w)
    <3>1. NotBetter(s, made, j, k, w)
      BY <1>4, <2>2
    <3>2. Len(w) <= m => k <= e \/ Flat(s, e, k) = <<>>
      <4> SUFFICES ASSUME Len(w) <= m, k > e PROVE Flat(s, e, k) = <<>>
        BY <1>1
      <4>1. ~(k <= j) /\ k \in e .. n
        BY <1>1
      <4>2. Flat(s, j, k) = <<>>
        BY <3>1, <4>1 DEF NotBetter
      <4> QED BY <1>6, <4>1, <4>2
    <3>3. k >= e => k >= j
      BY <1>1
    <3> QED BY <3>1, <3>2, <3>3 DEF NotBetter
  <2>3. Packed(s, made, e)
    BY <2>1, <2>2 DEF Packed
  <2> QED BY <1>7, <2>3
<1>8. CASE f # <<>>
  <2> DEFINE v == Append(made, f)
  <2>1. /\ v \in Seq(Seq(Ixs)) /\ Len(v) = m + 1 /\ v[m + 1] = f /\ \A i \in 1 .. m : v[i] = made[i]
        /\ v[1] = IF made = <<>> THEN f ELSE made[1]
    <3> HIDE DEF f
    <3> QED BY <1>3, <1>5, FrontOfAppend
  <2>2. v \in FittingTo(s, e)
    <3>1. v \in WaysTo(s, e)
      BY <1>1, <1>3, <1>8, WayGrows
    <3>2. ASSUME NEW i \in DOMAIN v PROVE FitsAlone(v[i])
      <4> HIDE DEF v, f
      <4>1. i \in 1 .. m \/ i = m + 1
        BY <1>3, <2>1
      <4> QED BY <1>3, <1>5, <2>1, <4>1
    <3> QED BY <3>1, <3>2 DEF FittingTo
  <2> HIDE DEF v, f
  <2>3. ASSUME NEW k \in 0 .. n, NEW w \in FittingTo(s, k) PROVE NotBetter(s, v, e, k, w)
    <3>1. /\ w \in WaysTo(s, k) /\ w \in Seq(Seq(Ixs)) /\ Len(w) \in Nat
          /\ \A i \in 1 .. Len(w) : w[i] \in Seq(Ixs) /\ FitsAlone(w[i])
      BY FittingTyped
    <3>2. Len(w) <= m + 1 => k <= e \/ Flat(s, e, k) = <<>>
      <4> SUFFICES ASSUME Len(w) <= m + 1, k > e PROVE FALSE
        BY <1>1
      <4>1. k \in e .. n /\ k \in e + 1 .. n /\ j \in 0 .. k
        BY <1>1
      <4>2. Flat(s, j, k) # <<>> /\ ~FitsAlone(Flat(s, j, k))
        BY <1>6, <1>8, <4>1 DEF f
      <4>3. w # <<>>
        <5> SUFFICES ASSUME w = <<>> PROVE FALSE
          OBVIOUS
        <5>1. Flat(s, 0, k) = <<>>
          BY <3>1, EmptyWay
        <5>2. k \in 0 .. Len(s) /\ j \in 0 .. k /\ 0 \in 0 .. j
          BY <1>1, <4>1
        <5>3. Splits(s, 0, j, k)
          BY <5>2, FitsLess
        <5> QED BY <4>2, <5>1, <5>3 DEF Splits
      <4>4. PICK i \in 0 .. k : \E u \in FittingTo(s, i) : FitsAlone(Flat(s, i, k)) /\ Len(w) = Len(u) + 1
        BY <4>3, FittingEnding
      <4>5. PICK u \in FittingTo(s, i) : FitsAlone(Flat(s, i, k)) /\ Len(w) = Len(u) + 1
        BY <4>4
      <4>6. i \in 0 .. n /\ i \in Nat
        BY <1>1
      <4>7. Len(u) <= m
        <5>1. Len(u) \in Nat
          BY <4>6, FittingTyped
        <5> QED BY <1>3, <4>5, <5>1
      <4>8. i <= j \/ Flat(s, j, i) = <<>>
        BY <1>4, <4>6, <4>7 DEF NotBetter
      <4>9. CASE i <= j
        <5>1. k \in 0 .. Len(s) /\ j \in 0 .. k /\ i \in 0 .. j
          BY <1>1, <4>1, <4>6, <4>9
        <5>2. FitsSplit(s, i, j, k)
          BY <5>1, FitsLess
        <5> QED BY <4>2, <4>5, <5>2 DEF FitsSplit
      <4>10. CASE ~(i <= j)
        <5>1. k \in 0 .. Len(s) /\ i \in 0 .. k /\ j \in 0 .. i
          BY <1>1, <4>6, <4>10
        <5>3. Splits(s, j, i, k)
          BY <5>1, FitsLess
        <5>2. Flat(s, j, k) = Flat(s, i, k)
          BY <4>8, <4>10, <5>3 DEF Splits
        <5> QED BY <4>2, <4>5, <5>2
      <4> QED BY <4>9, <4>10
    <3>3. k >= e => m + 1 <= Len(w)
      <4> SUFFICES ASSUME k >= e, Len(w) <= m PROVE FALSE
        BY <1>3, <3>1
      <4>1. k \in e .. n
        BY <1>1
      <4>2. Flat(s, j, k) # <<>>
        BY <1>6, <1>8, <4>1
      <4>3. k <= j
        BY <1>4, <4>2 DEF NotBetter
      <4>4. k = j /\ e = j
        BY <1>1, <4>1, <4>3
      <4>5. Flat(s, j, j) = <<>>
        BY <1>1, FlatSteps
      <4> QED BY <4>2, <4>4, <4>5
    <3>4. w # <<>> => Len(w[1]) <= Len(v[1])
      <4> SUFFICES ASSUME w # <<>> PROVE Len(w[1]) <= Len(v[1])
        OBVIOUS
      <4>1. CASE made # <<>>
        BY <1>4, <2>1, <4>1 DEF NotBetter
      <4>2. CASE made = <<>>
        <5>1. Flat(s, 0, j) = <<>>
          BY <1>1, <1>3, <4>2, EmptyWay
        <5>2. PICK i \in 0 .. k : w[1] = Flat(s, 0, i)
          BY <3>1, WayBegins
        <5>3. i \in 0 .. n /\ i \in Nat /\ FitsAlone(Flat(s, 0, i))
          <6>1. 1 \in 1 .. Len(w)
            BY <3>1
          <6> QED BY <1>1, <3>1, <5>2, <6>1
        <5>4. Flat(s, 0, e) = f /\ v[1] = f
          <6>1. e \in 0 .. Len(s) /\ j \in 0 .. e /\ 0 \in 0 .. j
            BY <1>1
          <6>2. Splits(s, 0, j, e)
            BY <6>1, FitsLess
          <6> QED BY <2>1, <4>2, <5>1, <6>2 DEF f, Splits
        <5>5. i <= e
          <6> SUFFICES ASSUME i > e PROVE FALSE
            BY <1>1, <5>3
          <6>1. i \in 0 .. Len(s) /\ i \in e + 1 .. n /\ j \in 0 .. i /\ 0 \in 0 .. j
            BY <1>1, <5>3
          <6>3. Splits(s, 0, j, i)
            BY <6>1, FitsLess
          <6>2. Flat(s, 0, i) = Flat(s, j, i)
            BY <5>1, <6>3 DEF Splits
          <6> QED BY <5>3, <6>1, <6>2
        <5> DEFINE a == Flat(s, 0, i)
                   b == Flat(s, i, e)
        <5>6. f = a \o b /\ a \in Seq(Ixs) /\ b \in Seq(Ixs)
          <6>1. e \in 0 .. Len(s) /\ i \in 0 .. e /\ 0 \in 0 .. i
            BY <1>1, <5>3, <5>5
          <6>2. Splits(s, 0, i, e)
            BY <6>1, FitsLess
          <6> QED BY <5>4, <6>2 DEF Splits
        <5>7. w[1] = a
          BY <5>2
        <5> HIDE DEF a, b
        <5>8. Len(a \o b) = Len(a) + Len(b) /\ Len(a) \in Nat /\ Len(b) \in Nat
          BY <5>6
        <5> QED BY <5>4, <5>6, <5>7, <5>8
      <4> QED BY <4>1, <4>2
    <3> QED BY <2>1, <3>2, <3>3, <3>4 DEF NotBetter
  <2>4. Packed(s, v, e)
    BY <2>2, <2>3 DEF Packed
  <2> QED BY <1>8, <2>4 DEF v, f
<1> QED BY <1>7, <1>8

-----------------------------------------------------------------------------
(* The search for the groups that fit *)

\* After the first j groups of s: the lower bound of the search fits, nothing above the
\* upper bound does.
Searching(s, j, at) ==
  LET low == at.bounds[1]
      high == at.bounds[2]
  IN  /\ low \in 1 .. high /\ high \in 1 .. Len(s) - j /\ at.try_len \in low .. high
      /\ FitsAlone(Flat(s, j, j + low))
      /\ \A k \in j + high + 1 .. Len(s) : ~FitsAlone(Flat(s, j, k))

LEMMA SearchBegins ==
  ASSUME NEW s \in Seq(Seq(Ixs)), NEW j \in 0 .. Len(s), \A i \in 1 .. Len(s) : FitsAlone(s[i]),
         SubSeq(s, j + 1, Len(s)) # <<>>
  PROVE  Searching(s, j, NewSearch(SubSeq(s, j + 1, Len(s))))
<1> DEFINE n == Len(s)
           r == SubSeq(s, j + 1, n)
           at == NewSearch(r)
<1>1. n \in Nat /\ j \in Nat /\ r \in Seq(Seq(Ixs)) /\ Len(r) = n - j
  <2>1. 0 \in 0 .. n - j /\ 0 \in 0 .. 0
    OBVIOUS
  <2> QED BY <2>1, PartOfRest
<1> HIDE DEF r
<1>2. n - j >= 1
  <2>1. r # <<>>
    BY DEF r
  <2> QED BY <1>1, <2>1
<1>3. at.bounds[1] = 1 /\ at.bounds[2] = n - j /\ at.try_len = n - j
  BY <1>1, <1>2 DEF NewSearch
<1>4. Flat(s, j, j + 1) = s[j + 1] /\ j + 1 \in 1 .. n
  <2>1. j + 1 \in j + 1 .. Len(s) /\ (j + 1) - 1 = j /\ j + 1 \in 1 .. n
    BY <1>1, <1>2
  <2>2. s[j + 1] \in Seq(Ixs) /\ Flat(s, j, j + 1) = <<>> \o s[j + 1]
    BY <2>1, FlatSteps
  <2> QED BY <2>1, <2>2
<1>5. Searching(s, j, at)
  <2> HIDE DEF at
  <2>1. FitsAlone(Flat(s, j, j + 1))
    BY <1>4
  <2>2. \A k \in j + (n - j) + 1 .. n : FALSE
    BY <1>1
  <2> QED BY <1>1, <1>2, <1>3, <2>1, <2>2 DEF Searching
<1> QED BY <1>5 DEF r

LEMMA RoundedTyped ==
  ASSUME NEW a \in Nat, NEW b \in Nat, NEW c \in Nat \ {0}
  PROVE  Rounded(a, b, c) \in Int
<1>1. 2 * a * b + c \in Nat /\ 2 * c \in Nat \ {0}
  OBVIOUS
<1>2. \A p \in Nat, q \in Nat \ {0} : p \div q \in Int
  OBVIOUS
<1> QED BY <1>1, <1>2 DEF Rounded

\* Each attempt moves a bound past it and tries between the bounds.
LEMMA SearchNarrows ==
  ASSUME NEW s \in Seq(Seq(Ixs)), NEW j \in 0 .. Len(s), NEW at, Searching(s, j, at),
         at.bounds[1] # at.bounds[2],
         NEW size, size = fake_encode(Flat(s, j, j + at.try_len)),
         NEW kept, kept = Narrowed(at, size),
         NEW maybe_try, maybe_try = Within(Rounded(MAX_TX_SIZE, at.try_len, size), kept)
  PROVE  Searching(s, j, [bounds |-> kept,
                          try_len |-> IF maybe_try = at.try_len THEN (kept[1] + kept[2] + 1) \div 2 ELSE maybe_try])
<1> DEFINE n == Len(s)
           b1 == at.bounds[1]
           b2 == at.bounds[2]
           t == at.try_len
           next == [bounds |-> kept,
                    try_len |-> IF maybe_try = t THEN (kept[1] + kept[2] + 1) \div 2 ELSE maybe_try]
<1>1. /\ n \in Nat /\ j \in Nat /\ b1 \in 1 .. b2 /\ b2 \in 1 .. n - j /\ t \in b1 .. b2 /\ b1 # b2
      /\ FitsAlone(Flat(s, j, j + b1)) /\ \A k \in j + b2 + 1 .. n : ~FitsAlone(Flat(s, j, k))
  <2>1. /\ b1 \in 1 .. b2 /\ b2 \in 1 .. Len(s) - j /\ t \in b1 .. b2
        /\ FitsAlone(Flat(s, j, j + b1)) /\ \A k \in j + b2 + 1 .. Len(s) : ~FitsAlone(Flat(s, j, k))
    BY DEF Searching
  <2>2. Len(s) \in Nat /\ j \in Nat
    OBVIOUS
  <2>3. b1 # b2
    OBVIOUS
  <2> HIDE DEF b1, b2, t
  <2> QED BY <2>1, <2>2, <2>3
<1> HIDE DEF b1, b2, t
<1>2. MAX_TX_SIZE \in Nat /\ size \in Nat \ {0}
  <2>1. j + t \in j .. Len(s)
    <3>1. n \in Nat /\ j \in Nat /\ b1 \in 1 .. b2 /\ b2 \in 1 .. n - j /\ t \in b1 .. b2
      BY <1>1
    <3> HIDE DEF n
    <3>2. j + t \in j .. n
      BY <3>1
    <3> QED BY <3>2 DEF n
  <2>2. Flat(s, j, j + t) \in Seq(Ixs)
    BY <2>1, FlatSteps
  <2> DEFINE f == Flat(s, j, j + t)
  <2>3. f \in Seq(Ixs) /\ size = fake_encode(f)
    BY <2>2 DEF t
  <2> HIDE DEF f
  <2>4. Weight(data_len, f) <= Weight(data_len, f)
    BY <2>3, Encoded
  <2> QED BY <2>3, <2>4, EncodedLess, CondenseAssumption
<1>3. size <= MAX_TX_SIZE <=> FitsAlone(Flat(s, j, j + t))
  BY DEF FitsAlone, t
<1> DEFINE lo == kept[1]
           hi == kept[2]
<1> HIDE DEF lo, hi
<1>4. /\ lo \in 1 .. hi /\ hi \in 1 .. n - j
      /\ FitsAlone(Flat(s, j, j + lo))
      /\ \A k \in j + hi + 1 .. n : ~FitsAlone(Flat(s, j, k))
  <2>1. CASE size > MAX_TX_SIZE
    <3>1. lo = b1 /\ hi = t - 1
      BY <2>1 DEF Narrowed, b1, t, lo, hi
    <3>2. ~FitsAlone(Flat(s, j, j + t)) /\ t # b1
      <4>1. ~(size <= MAX_TX_SIZE)
        BY <1>2, <2>1
      <4>2. ~FitsAlone(Flat(s, j, j + t))
        BY <1>3, <4>1
      <4>3. FitsAlone(Flat(s, j, j + b1))
        BY <1>1
      <4> QED BY <4>2, <4>3
    <3>3. ASSUME NEW k \in j + (t - 1) + 1 .. n PROVE ~FitsAlone(Flat(s, j, k))
      <4>1. k \in 0 .. Len(s) /\ j + t \in 0 .. k /\ j \in 0 .. j + t
        BY <1>1
      <4>2. FitsSplit(s, j, j + t, k)
        BY <4>1, FitsLess
      <4> QED BY <3>2, <4>2 DEF FitsSplit
    <3>4. t - 1 \in 1 .. n - j /\ b1 \in 1 .. t - 1
      BY <1>1, <3>2
    <3>5. FitsAlone(Flat(s, j, j + lo))
      BY <1>1, <3>1
    <3>6. \A k \in j + hi + 1 .. n : ~FitsAlone(Flat(s, j, k))
      BY <3>1, <3>3
    <3> QED BY <3>1, <3>4, <3>5, <3>6
  <2>2. CASE ~(size > MAX_TX_SIZE)
    <3>1. lo = t /\ hi = b2
      BY <2>2 DEF Narrowed, b2, t, lo, hi
    <3>2. FitsAlone(Flat(s, j, j + lo))
      <4>1. size <= MAX_TX_SIZE
        BY <1>2, <2>2
      <4>2. FitsAlone(Flat(s, j, j + t))
        BY <1>3, <4>1
      <4> QED BY <3>1, <4>2
    <3>3. lo \in 1 .. hi /\ hi \in 1 .. n - j
      BY <1>1, <3>1
    <3>4. \A k \in j + hi + 1 .. n : ~FitsAlone(Flat(s, j, k))
      BY <1>1, <3>1
    <3> QED BY <3>2, <3>3, <3>4
  <2> QED BY <2>1, <2>2
<1>5. lo \in Nat /\ hi \in Nat /\ lo <= hi
  BY <1>1, <1>4
<1>6. maybe_try \in lo .. hi
  <2> DEFINE g == Rounded(MAX_TX_SIZE, t, size)
  <2>1. g \in Int
    <3>1. t \in Nat
      BY <1>1
    <3> QED BY <1>2, <3>1, RoundedTyped
  <2>2. maybe_try = Within(g, kept)
    BY DEF t
  <2> HIDE DEF g
  <2> QED BY <1>5, <2>1, <2>2 DEF Within, lo, hi
<1>7. (lo + hi + 1) \div 2 \in lo .. hi
  BY <1>5
<1>8. next.bounds = kept /\ next.try_len \in lo .. hi
  BY <1>6, <1>7 DEF lo, hi
<1>9. Searching(s, j, next)
  <2> HIDE DEF next
  <2> QED BY <1>4, <1>8 DEF Searching, lo, hi
<1> QED BY <1>9 DEF next, t

-----------------------------------------------------------------------------
(* condense finds the best way *)

\* the list in the order in which it is packed, and how much of it is
Work == IF right THEN deep_reverse(txs) ELSE txs
Done == Len(Work) - Len(shrink_me)

\* made becomes the answer, which condense reverses once nothing is left.
Stands(made) == condensed = IF shrink_me = <<>> /\ right THEN deep_reverse(made) ELSE made

Packing ==
  /\ Done \in 0 .. Len(Work) /\ shrink_me = SubSeq(Work, Done + 1, Len(Work))
  /\ \E made \in FittingTo(Work, Done) : Packed(Work, made, Done) /\ Stands(made)
  /\ shrink_me # <<>> => Searching(Work, Done, search)

\* What CondensedIsBest rests on: after each step nothing is better than what is made so
\* far, and the search keeps the number of groups that fit between its bounds.
CondenseInv ==
  /\ txs \in Seq(Builders) /\ right \in BOOLEAN
  /\ (\A i \in DOMAIN txs : FitsAlone(txs[i])) => Packing

LEMMA DeepEmpty == deep_reverse(<<>>) = <<>>
<1>1. <<>> \in Seq(Seq({}))
  OBVIOUS
<1>2. deep_reverse(<<>>) \in Seq(Seq({})) /\ Len(deep_reverse(<<>>)) = Len(<<>>)
  BY <1>1, DeepTyped
<1> DEFINE d == deep_reverse(<<>>)
<1>3. d \in Seq(Seq({})) /\ Len(d) = 0
  BY <1>2
<1> HIDE DEF d
<1>4. d = <<>>
  BY <1>3
<1> QED BY <1>4 DEF d

LEMMA GroupsOf ==
  ASSUME NEW s \in Seq(Builders)
  PROVE  s \in Seq(Seq(Ixs)) /\ deep_reverse(s) \in Seq(Seq(Ixs))
<1>1. s \in Seq(Seq(Ixs))
  <2>1. Seq(Builders) \subseteq Seq(Seq(Ixs))
    BY GroupsTyped, SeqMonotonic
  <2> QED BY <2>1
<1> QED BY <1>1, DeepTyped

LEMMA DeepFits ==
  ASSUME NEW s \in Seq(Seq(Ixs))
  PROVE  (\A i \in DOMAIN s : FitsAlone(s[i])) => \A i \in DOMAIN deep_reverse(s) : FitsAlone(deep_reverse(s)[i])
<1> SUFFICES ASSUME \A i \in DOMAIN s : FitsAlone(s[i]), NEW i \in DOMAIN deep_reverse(s)
             PROVE  FitsAlone(deep_reverse(s)[i])
  OBVIOUS
<1> DEFINE d == deep_reverse(s)
           n == Len(s)
           k == (n - i) + 1
<1>1. d \in Seq(Seq(Ixs)) /\ Len(d) = n /\ n \in Nat /\ \A m \in 1 .. n : d[m] = Reverse(s[(n - m) + 1])
  BY DeepTyped
<1>2. i \in 1 .. n
  BY <1>1
<1>3. k \in 1 .. n /\ s[k] \in Seq(Ixs) /\ FitsAlone(s[k])
  <2>1. k \in 1 .. n
    <3>1. n \in Nat
      OBVIOUS
    <3> HIDE DEF n
    <3> QED BY <1>2, <3>1
  <2>2. \A m \in 1 .. n : s[m] \in Seq(Ixs) /\ FitsAlone(s[m])
    OBVIOUS
  <2> HIDE DEF k, n
  <2> QED BY <2>1, <2>2
<1>4. FitsAlone(Reverse(s[k]))
  BY <1>3, FitsReversed
<1> QED BY <1>1, <1>2, <1>4

LEMMA WorkTyped ==
  ASSUME txs \in Seq(Builders), right \in BOOLEAN
  PROVE  /\ Work \in Seq(Seq(Ixs)) /\ Len(Work) = Len(txs) /\ Len(Work) \in Nat
         /\ (\A i \in DOMAIN txs : FitsAlone(txs[i])) => \A i \in 1 .. Len(Work) : FitsAlone(Work[i])
<1>1. txs \in Seq(Seq(Ixs)) /\ deep_reverse(txs) \in Seq(Seq(Ixs))
  BY GroupsOf
<1>2. Len(deep_reverse(txs)) = Len(txs)
  BY <1>1, DeepTyped
<1>3. (\A i \in DOMAIN txs : FitsAlone(txs[i])) => \A i \in DOMAIN deep_reverse(txs) : FitsAlone(deep_reverse(txs)[i])
  BY <1>1, DeepFits
<1>4. /\ Work \in Seq(Seq(Ixs)) /\ Len(Work) = Len(txs)
      /\ (\A i \in DOMAIN txs : FitsAlone(txs[i])) => \A i \in DOMAIN Work : FitsAlone(Work[i])
  BY <1>1, <1>2, <1>3 DEF Work
<1> QED BY <1>4

LEMMA FirstPacking ==
  ASSUME NEW s \in Seq(Seq(Ixs))
  PROVE  <<>> \in FittingTo(s, 0) /\ Packed(s, <<>>, 0)
BY PackedFirst DEF Packed

LEMMA CondenseInitially ==
  InitCondense => CondenseInv
<1> SUFFICES ASSUME InitCondense PROVE CondenseInv
  OBVIOUS
<1>1. txs = <<>> /\ right = FALSE /\ shrink_me = <<>> /\ condensed = <<>>
  BY DEF InitCondense
<1>2. Work = <<>> /\ <<>> \in Seq(Seq(Ixs)) /\ Len(<<>>) = 0 /\ <<>> \in Seq(Builders)
  BY <1>1 DEF Work
<1>3. Done = 0 /\ SubSeq(<<>>, 1, 0) = <<>>
  BY <1>1, <1>2, SubSeqEmpty DEF Done
<1>4. Packing
  <2>1. \E made \in FittingTo(Work, Done) : Packed(Work, made, Done) /\ Stands(made)
    BY <1>1, <1>2, <1>3, FirstPacking DEF Stands
  <2> QED BY <1>1, <1>2, <1>3, <2>1 DEF Packing
<1> QED BY <1>1, <1>2, <1>4 DEF CondenseInv

LEMMA CondenseKeepsInv ==
  CondenseInv /\ [CondenseNext]_condenseVars => CondenseInv'
<1> SUFFICES ASSUME CondenseInv, [CondenseNext]_condenseVars PROVE CondenseInv'
  OBVIOUS
<1> USE DEF CondenseInv
<1>1. /\ txs \in Seq(Builders) /\ right \in BOOLEAN
      /\ Work \in Seq(Seq(Ixs)) /\ Len(Work) \in Nat
      /\ (\A i \in DOMAIN txs : FitsAlone(txs[i])) => \A i \in 1 .. Len(Work) : FitsAlone(Work[i])
  BY WorkTyped
<1>2. ASSUME NEW n \in 0 .. MaxBuilders, NEW list \in [1 .. n -> Builders], NEW to_the_right \in BOOLEAN,
             condense(list, to_the_right)
      PROVE  CondenseInv'
  <2> DEFINE w == IF to_the_right THEN deep_reverse(list) ELSE list
  <2>1. n \in Nat /\ list \in Seq(Builders)
    BY CondenseAssumption
  <2>2. /\ txs' = list /\ right' = to_the_right /\ shrink_me' = w /\ condensed' = <<>>
        /\ search' = NewSearch(shrink_me')
    BY <1>2 DEF condense
  <2>3. Work' = w
    BY <2>2 DEF Work
  <2>4. w \in Seq(Seq(Ixs)) /\ Len(w) \in Nat
    <3>1. w \in Seq(Seq(Ixs))
      BY <2>1, GroupsOf
    <3> HIDE DEF w
    <3> QED BY <3>1
  <2>5. (\A i \in DOMAIN list : FitsAlone(list[i])) => \A i \in 1 .. Len(w) : FitsAlone(w[i])
    <3>1. list \in Seq(Seq(Ixs))
      BY <2>1, GroupsOf
    <3>2. (\A i \in DOMAIN list : FitsAlone(list[i])) => \A i \in DOMAIN w : FitsAlone(w[i])
      BY <3>1, DeepFits
    <3> HIDE DEF w
    <3> QED BY <2>4, <3>2
  <2> HIDE DEF w
  <2>6. Done' = 0 /\ SubSeq(w, 1, Len(w)) = w
    <3>1. Done' = Len(w) - Len(w)
      BY <2>2, <2>3 DEF Done
    <3> QED BY <2>4, <3>1, SubSeqFull
  <2>7. ASSUME \A i \in DOMAIN list : FitsAlone(list[i]) PROVE Packing'
    <3>1. <<>> \in FittingTo(w, 0) /\ Packed(w, <<>>, 0)
      BY <2>4, FirstPacking
    <3>2. Stands(<<>>)'
      BY <2>2, DeepEmpty DEF Stands
    <3>3. w # <<>> => Searching(w, 0, NewSearch(w))
      <4>1. 0 \in 0 .. Len(w) /\ 0 + 1 = 1
        BY <2>4
      <4> QED BY <2>4, <2>5, <2>6, <2>7, <4>1, SearchBegins
    <3>4. (\E made \in FittingTo(Work, Done) : Packed(Work, made, Done) /\ Stands(made))'
      BY <2>3, <2>6, <3>1, <3>2
    <3> QED BY <2>2, <2>3, <2>4, <2>6, <3>3, <3>4 DEF Packing
  <2> QED BY <2>1, <2>2, <2>7
<1>3. CASE find_first_condensed
  <2>1. UNCHANGED <<txs, right, shrink_me, condensed>> /\ shrink_me # <<>>
    BY <1>3 DEF find_first_condensed
  <2>2. Work' = Work /\ Done' = Done /\ \A made : Stands(made)' <=> Stands(made)
    BY <2>1 DEF Work, Done, Stands
  <2>3. ASSUME Packing PROVE Searching(Work, Done, search')
    <3> DEFINE r == SubSeq(Work, Done + 1, Len(Work))
               t == search.try_len
               size == fake_encode(ijoin(SubSeq(shrink_me, 1, t)))
               kept == Narrowed(search, size)
               maybe_try == Within(Rounded(MAX_TX_SIZE, t, size), kept)
    <3>1. Searching(Work, Done, search) /\ Done \in 0 .. Len(Work) /\ shrink_me = r
      BY <2>1, <2>3 DEF Packing
    <3>2. t \in 0 .. Len(Work) - Done /\ 0 \in 0 .. t
      <4>1. search.bounds[1] \in 1 .. search.bounds[2] /\ search.bounds[2] \in 1 .. Len(Work) - Done
        BY <3>1 DEF Searching
      <4>2. t \in search.bounds[1] .. search.bounds[2]
        BY <3>1 DEF Searching
      <4>3. Len(Work) - Done \in Int
        BY <1>1, <3>1
      <4> DEFINE room == Len(Work) - Done
                 low == search.bounds[1]
                 high == search.bounds[2]
      <4>4. room \in Int /\ low \in 1 .. high /\ high \in 1 .. room /\ t \in low .. high
        BY <4>1, <4>2, <4>3
      <4> HIDE DEF t, room, low, high
      <4>5. t \in 0 .. room /\ 0 \in 0 .. t
        BY <4>4
      <4> QED BY <4>5 DEF room
    <3>3. SubSeq(shrink_me, 1, t) = SubSeq(Work, Done + 1, Done + t)
      <4>3. Work \in Seq(Seq(Ixs)) /\ Done \in 0 .. Len(Work)
        BY <1>1, <3>1
      <4>1. SubSeq(r, 0 + 1, t) = SubSeq(Work, (Done + 0) + 1, Done + t)
        BY <3>2, <4>3, PartOfRest
      <4>2. (Done + 0) + 1 = Done + 1 /\ 0 + 1 = 1
        BY <3>1
      <4> HIDE DEF r
      <4> QED BY <3>1, <4>1, <4>2
    <3>4. size = fake_encode(Flat(Work, Done, Done + t))
      BY <3>3 DEF Flat
    <3>5. /\ search.bounds[1] # search.bounds[2]
          /\ search' = [bounds |-> kept,
                        try_len |-> IF maybe_try = t THEN (kept[1] + kept[2] + 1) \div 2 ELSE maybe_try]
      BY <1>3 DEF find_first_condensed
    <3> HIDE DEF size, kept, maybe_try
    <3>6. kept = Narrowed(search, size) /\ maybe_try = Within(Rounded(MAX_TX_SIZE, t, size), kept)
      BY DEF kept, maybe_try
    <3> QED BY <1>1, <3>1, <3>4, <3>5, <3>6, SearchNarrows
  <2>4. ASSUME Packing PROVE Packing'
    BY <2>1, <2>2, <2>3, <2>4 DEF Packing
  <2> QED BY <1>1, <2>1, <2>4
<1>4. CASE condense_left
  <2> DEFINE r == SubSeq(Work, Done + 1, Len(Work))
             b == search.bounds[1]
             f == ijoin(SubSeq(shrink_me, 1, b))
             e == Done + b
             next(m) == IF f = <<>> THEN m ELSE Append(m, f)
  <2>1. /\ UNCHANGED <<txs, right>> /\ shrink_me # <<>> /\ search.bounds[1] = search.bounds[2]
        /\ shrink_me' = SubSeq(shrink_me, b + 1, Len(shrink_me))
        /\ condensed' = IF shrink_me' = <<>> /\ right THEN deep_reverse(next(condensed)) ELSE next(condensed)
        /\ search' = NewSearch(shrink_me')
    BY <1>4 DEF condense_left
  <2>2. Work' = Work
    BY <2>1 DEF Work
  <2>3. ASSUME Packing, \A i \in DOMAIN txs : FitsAlone(txs[i]) PROVE Packing'
    <3>1. Searching(Work, Done, search) /\ Done \in 0 .. Len(Work) /\ shrink_me = r
      BY <2>1, <2>3 DEF Packing
    <3>2. /\ b \in 1 .. Len(Work) - Done /\ FitsAlone(Flat(Work, Done, e))
          /\ \A k \in e + 1 .. Len(Work) : ~FitsAlone(Flat(Work, Done, k))
      BY <2>1, <3>1 DEF Searching
    <3>3. Len(shrink_me) = Len(Work) - Done /\ shrink_me \in Seq(Seq(Ixs))
      <4>1. 0 \in 0 .. Len(Work) - Done /\ 0 \in 0 .. 0
        BY <1>1, <3>1
      <4> QED BY <1>1, <3>1, <4>1, PartOfRest
    <3>4. SubSeq(shrink_me, 1, b) = SubSeq(Work, Done + 1, e)
      <4>1. b \in 0 .. Len(Work) - Done /\ 0 \in 0 .. b /\ (Done + 0) + 1 = Done + 1 /\ 0 + 1 = 1
        BY <1>1, <3>1, <3>2
      <4>3. Work \in Seq(Seq(Ixs)) /\ Done \in 0 .. Len(Work)
        BY <1>1, <3>1
      <4>2. SubSeq(r, 0 + 1, b) = SubSeq(Work, (Done + 0) + 1, Done + b)
        BY <4>1, <4>3, PartOfRest
      <4> HIDE DEF r
      <4> QED BY <3>1, <4>1, <4>2
    <3>5. f = Flat(Work, Done, e)
      BY <3>4 DEF Flat
    <3>6. shrink_me' = SubSeq(Work, e + 1, Len(Work))
      <4> DEFINE c == Len(Work) - Done
      <4>1. c \in 0 .. Len(Work) - Done /\ b \in 0 .. c /\ Done + c = Len(Work)
        <5>1. Len(Work) \in Nat /\ Done \in 0 .. Len(Work) /\ b \in 1 .. Len(Work) - Done
          BY <1>1, <3>1, <3>2
        <5> HIDE DEF b
        <5> QED BY <5>1
      <4> HIDE DEF c
      <4>4. Work \in Seq(Seq(Ixs)) /\ Done \in 0 .. Len(Work)
        BY <1>1, <3>1
      <4>2. SubSeq(r, b + 1, c) = SubSeq(Work, (Done + b) + 1, Done + c)
        BY <4>1, <4>4, PartOfRest
      <4>3. c = Len(shrink_me)
        BY <3>3 DEF c
      <4> HIDE DEF r
      <4> QED BY <2>1, <3>1, <4>1, <4>2, <4>3
    <3>7. e \in Done .. Len(Work) /\ e \in 0 .. Len(Work)
      BY <1>1, <3>1, <3>2
    <3>8. Done' = e
      <4>1. Len(shrink_me') = Len(Work) - e
        <5>1. 0 \in 0 .. Len(Work) - e /\ 0 \in 0 .. 0
          BY <1>1, <3>7
        <5> HIDE DEF e
        <5> QED BY <1>1, <3>6, <3>7, <5>1, PartOfRest
      <4>2. Done' = Len(Work) - (Len(Work) - e)
        BY <2>2, <4>1 DEF Done
      <4> HIDE DEF e
      <4> QED BY <1>1, <3>7, <4>2
    <3>9. PICK made \in FittingTo(Work, Done) : Packed(Work, made, Done) /\ Stands(made)
      BY <2>3 DEF Packing
    <3>10. condensed = made
      BY <2>1, <3>9 DEF Stands
    <3>11. PICK after : after = next(made)
      OBVIOUS
    <3>12. Packed(Work, after, e) /\ after \in FittingTo(Work, e)
      <4>1. after = IF Flat(Work, Done, e) = <<>> THEN made ELSE Append(made, Flat(Work, Done, e))
        BY <3>5, <3>11
      <4> HIDE DEF e, f
      <4>2. Packed(Work, after, e)
        BY <1>1, <3>1, <3>2, <3>5, <3>7, <3>9, <4>1, PackedNext
      <4> QED BY <4>2 DEF Packed
    <3>13. Stands(after)'
      <4>1. next(condensed) = after
        BY <3>10, <3>11
      <4> HIDE DEF next
      <4> QED BY <2>1, <4>1 DEF Stands
    <3>14. shrink_me' # <<>> => Searching(Work, e, search')
      <4>1. \A i \in 1 .. Len(Work) : FitsAlone(Work[i])
        BY <1>1, <2>3
      <4> HIDE DEF e
      <4> QED BY <1>1, <2>1, <3>6, <3>7, <4>1, SearchBegins
    <3>15. (\E made_too \in FittingTo(Work, Done) : Packed(Work, made_too, Done) /\ Stands(made_too))'
      <4>1. after \in FittingTo(Work', Done') /\ Packed(Work', after, Done') /\ Stands(after)'
        BY <2>2, <3>8, <3>12, <3>13
      <4> HIDE DEF e, next, r
      <4> QED BY <4>1
    <3> QED BY <2>2, <3>6, <3>7, <3>8, <3>14, <3>15 DEF Packing
  <2> QED BY <1>1, <2>1, <2>3
<1>5. CASE Answered
  <2>1. /\ shrink_me = <<>> /\ txs' = <<>> /\ condensed' = <<>>
        /\ UNCHANGED <<right, shrink_me, search>>
    BY <1>5 DEF Answered
  <2>2. Work' = <<>> /\ <<>> \in Seq(Seq(Ixs)) /\ Len(<<>>) = 0 /\ <<>> \in Seq(Builders)
    BY <2>1, DeepEmpty DEF Work
  <2>3. Done' = 0 /\ SubSeq(<<>>, 1, 0) = <<>>
    BY <2>1, <2>2, SubSeqEmpty DEF Done
  <2>4. Stands(<<>>)'
    BY <2>1, DeepEmpty DEF Stands
  <2>5. Packing'
    <3>1. <<>> \in FittingTo(<<>>, 0) /\ Packed(<<>>, <<>>, 0)
      BY <2>2, FirstPacking
    <3>2. (\E made \in FittingTo(Work, Done) : Packed(Work, made, Done) /\ Stands(made))'
      BY <2>2, <2>3, <2>4, <3>1
    <3> QED BY <2>1, <2>2, <2>3, <3>2 DEF Packing
  <2> QED BY <1>1, <2>1, <2>2, <2>5
<1>6. CASE UNCHANGED condenseVars
  <2>1. UNCHANGED <<txs, right, shrink_me, condensed, search>>
    BY <1>6 DEF condenseVars
  <2>2. Packing' <=> Packing
    <3>1. Work' = Work /\ Done' = Done /\ \A made : Stands(made)' <=> Stands(made)
      BY <2>1 DEF Work, Done, Stands
    <3> QED BY <2>1, <3>1 DEF Packing
  <2> QED BY <2>1, <2>2
<1> QED BY <1>2, <1>3, <1>4, <1>5, <1>6 DEF CondenseNext

LEMMA FittingIsFittingTo ==
  ASSUME NEW s \in Seq(Seq(Ixs))
  PROVE  FittingWays(s) = FittingTo(s, Len(s))
<1>1. Ways(s) = WaysTo(s, Len(s))
  BY WaysSteps
<1> QED BY <1>1 DEF FittingWays, FittingTo

\* the instructions in the transaction that CondensedIsBest compares
Edge(w, last) == IF w = <<>> THEN 0 ELSE IF last THEN Len(w[Len(w)]) ELSE Len(w[1])

LEMMA FittingReversed ==
  ASSUME NEW s \in Seq(Seq(Ixs)), NEW w \in FittingWays(s)
  PROVE  /\ w \in Seq(Seq(Ixs)) /\ deep_reverse(w) \in FittingWays(deep_reverse(s))
         /\ deep_reverse(deep_reverse(w)) = w /\ Len(deep_reverse(w)) = Len(w)
         /\ Edge(deep_reverse(w), FALSE) = Edge(w, TRUE)
<1> DEFINE v == deep_reverse(w)
           n == Len(w)
<1>1. w \in Ways(s) /\ \A i \in DOMAIN w : FitsAlone(w[i])
  BY DEF FittingWays
<1>2. w \in Seq(Seq(Ixs)) /\ v \in Ways(deep_reverse(s))
  BY <1>1, WayReversed
<1>3. /\ v \in Seq(Seq(Ixs)) /\ Len(v) = n /\ n \in Nat
      /\ \A i \in 1 .. n : v[i] = Reverse(w[(n - i) + 1])
  BY <1>2, DeepTyped
<1>4. \A i \in DOMAIN v : FitsAlone(v[i])
  BY <1>1, <1>2, DeepFits
<1>5. deep_reverse(v) = w
  BY <1>2, DeepTwice
<1> HIDE DEF v
<1>6. Edge(v, FALSE) = Edge(w, TRUE)
  <2>1. CASE w = <<>>
    <3>1. v = <<>>
      BY <1>3, <2>1
    <3> QED BY <2>1, <3>1 DEF Edge
  <2>2. CASE w # <<>>
    <3>1. n \in 1 .. n /\ 1 \in 1 .. n /\ (n - 1) + 1 = n /\ v # <<>>
      BY <1>2, <1>3, <2>2
    <3>2. v[1] = Reverse(w[n]) /\ w[n] \in Seq(Ixs)
      BY <1>2, <1>3, <3>1
    <3>3. Len(v[1]) = Len(w[n])
      BY <3>2, ReverseTyped
    <3> QED BY <2>2, <3>1, <3>3 DEF Edge
  <2> QED BY <2>1, <2>2
<1>7. v \in FittingWays(deep_reverse(s))
  BY <1>2, <1>4 DEF FittingWays, v
<1> QED BY <1>2, <1>3, <1>5, <1>6, <1>7 DEF v

\* With all groups packed, no way to cut the list is better.
LEMMA PackedIsBest ==
  ASSUME NEW s \in Seq(Seq(Ixs)), NEW made, Packed(s, made, Len(s))
  PROVE  /\ made \in FittingWays(s)
         /\ \A w \in FittingWays(s) : Len(made) <= Len(w) /\ Edge(w, FALSE) <= Edge(made, FALSE)
<1> DEFINE n == Len(s)
<1>1. n \in 0 .. n /\ n \in Nat /\ FittingWays(s) = FittingTo(s, n)
  BY FittingIsFittingTo
<1>2. made \in FittingTo(s, n)
  BY DEF Packed
<1>3. made \in WaysTo(s, n) /\ made \in Seq(Seq(Ixs)) /\ \A i \in 1 .. Len(made) : made[i] \in Seq(Ixs)
  BY <1>1, <1>2, FittingTyped
<1>4. ASSUME NEW w \in FittingTo(s, n) PROVE Len(made) <= Len(w) /\ Edge(w, FALSE) <= Edge(made, FALSE)
  <2>1. NotBetter(s, made, n, n, w)
    BY <1>1 DEF Packed
  <2>2. w \in WaysTo(s, n) /\ w \in Seq(Seq(Ixs))
    BY <1>1, FittingTyped
  <2>3. Len(made) <= Len(w)
    BY <1>1, <2>1 DEF NotBetter
  <2>4. w = <<>> <=> made = <<>>
    <3>1. Len(s) \in 0 .. Len(s)
      BY <1>1
    <3>2. w = <<>> <=> Flat(s, 0, Len(s)) = <<>>
      BY <2>2, <3>1, EmptyWay
    <3>3. made = <<>> <=> Flat(s, 0, Len(s)) = <<>>
      BY <1>3, <3>1, EmptyWay
    <3> QED BY <3>2, <3>3
  <2>5. CASE made = <<>>
    BY <2>3, <2>4, <2>5 DEF Edge
  <2>6. CASE made # <<>>
    BY <2>1, <2>3, <2>4, <2>6 DEF Edge, NotBetter
  <2> QED BY <2>5, <2>6
<1> QED BY <1>1, <1>2, <1>4

LEMMA CondenseInvIsBest ==
  CondenseInv => CondensedIsBest
<1> SUFFICES ASSUME CondenseInv, shrink_me = <<>>, txs # <<>>, \A i \in DOMAIN txs : FitsAlone(txs[i])
             PROVE  /\ condensed \in FittingWays(txs)
                    /\ \A w \in FittingWays(txs) : Len(condensed) <= Len(w) /\ Edge(w, right) <= Edge(condensed, right)
  BY DEF CondensedIsBest, Edge
<1>1. /\ txs \in Seq(Builders) /\ right \in BOOLEAN /\ Packing
  BY DEF CondenseInv
<1>2. Work \in Seq(Seq(Ixs)) /\ Len(Work) \in Nat /\ txs \in Seq(Seq(Ixs))
  BY <1>1, GroupsOf, WorkTyped
<1>3. Done = Len(Work)
  <2>1. Len(<<>>) = 0
    OBVIOUS
  <2> QED BY <1>2, <2>1 DEF Done
<1>4. PICK made : Packed(Work, made, Len(Work)) /\ condensed = IF right THEN deep_reverse(made) ELSE made
  BY <1>1, <1>3 DEF Packing, Stands
<1>5. /\ made \in FittingWays(Work)
      /\ \A w \in FittingWays(Work) : Len(made) <= Len(w) /\ Edge(w, FALSE) <= Edge(made, FALSE)
  BY <1>2, <1>4, PackedIsBest
<1>6. CASE right = FALSE
  BY <1>4, <1>5, <1>6 DEF Work
<1>7. CASE right = TRUE
  <2>1. Work = deep_reverse(txs) /\ condensed = deep_reverse(made) /\ deep_reverse(Work) = txs
    BY <1>2, <1>4, <1>7, DeepTwice DEF Work
  <2>2. /\ made \in Seq(Seq(Ixs)) /\ condensed \in FittingWays(txs)
    BY <1>2, <1>5, <2>1, FittingReversed
  <2>3. /\ deep_reverse(condensed) = made /\ Len(condensed) = Len(made)
        /\ Edge(made, FALSE) = Edge(condensed, TRUE)
    <3>1. deep_reverse(made) = condensed /\ deep_reverse(condensed) = made
      BY <2>1, <2>2, DeepTwice
    <3>2. Len(deep_reverse(condensed)) = Len(condensed) /\ Edge(deep_reverse(condensed), FALSE) = Edge(condensed, TRUE)
      BY <1>2, <2>2, FittingReversed
    <3> QED BY <3>1, <3>2
  <2>4. ASSUME NEW w \in FittingWays(txs)
        PROVE  Len(condensed) <= Len(w) /\ Edge(w, TRUE) <= Edge(condensed, TRUE)
    <3> DEFINE v == deep_reverse(w)
    <3>1. v \in FittingWays(Work) /\ Len(v) = Len(w) /\ Edge(v, FALSE) = Edge(w, TRUE)
      BY <1>2, <2>1, FittingReversed
    <3> HIDE DEF v
    <3> QED BY <1>5, <2>3, <3>1
  <2> QED BY <1>7, <2>2, <2>4
<1> QED BY <1>1, <1>6, <1>7

\* While condense and condense_fast pack (transaction.rs:240-335), of the groups already in
\* transactions no way to cut them is better, whatever the limit and the sizes are, and the
\* search for the next transaction has the number of groups that fit between its bounds.
THEOREM CondenseInvAlways ==
  CondenseSpec => []CondenseInv
<1>1. InitCondense => CondenseInv
  BY CondenseInitially
<1>2. CondenseInv /\ [CondenseNext]_condenseVars => CondenseInv'
  BY CondenseKeepsInv
<1> QED BY <1>1, <1>2, PTL DEF CondenseSpec

\* The smallest possible number of transactions (transaction.rs:228-238): of any list of any
\* groups that fit alone, with any sizes and limit, no other way to cut it makes fewer
\* transactions, and none has more instructions at the edge condense or condense_fast fills.
THEOREM CondensedAlwaysBest ==
  CondenseSpec => []CondensedIsBest
<1>1. CondenseInv => CondensedIsBest
  BY CondenseInvIsBest
<1> QED BY <1>1, CondenseInvAlways, PTL

=============================================================================
