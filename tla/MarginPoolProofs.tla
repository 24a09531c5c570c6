-------------------------- MODULE MarginPoolProofs --------------------------
(***************************************************************************)
(* Proofs about the lending pool, for every number of users, precision,    *)
(* configuration, sequence of amounts and length of time.                  *)
(*                                                                         *)
(* The arithmetic comes first: each of the roundings of convert favours    *)
(* the pool, up to the truncation of a quotient before it is rounded up.   *)
(* Then what every method makes of the pool's record, and of the value of  *)
(* a note in it, and at last the handlers.                                 *)
(***************************************************************************)
EXTENDS MarginPool, SumTheorems

-----------------------------------------------------------------------------
(* Fixed-point arithmetic *)

\* Rounding a Number to tokens or notes.
LEMMA Rounding ==
  ASSUME NEW x \in Nat
  PROVE  /\ as_u64(x) \in Nat /\ as_u64(x) * ONE <= x
         /\ as_u64_ceil(x) \in Nat /\ x <= as_u64_ceil(x) * ONE
<1>1. ONE \in Nat \ {0}
  BY PoolAssumption
<1>2. as_u64(x) \in Nat /\ as_u64(x) * ONE <= x
  BY <1>1, DivBounds DEF as_u64
<1> DEFINE y == (x + ONE) - 1
<1>3. y \in Nat
  BY <1>1
<1>4. y \div ONE \in Nat /\ y < (y \div ONE) * ONE + ONE
  BY <1>1, <1>3, DivBounds
<1>5. as_u64_ceil(x) = y \div ONE
  BY <1>1 DEF as_u64_ceil
<1> DEFINE z == y \div ONE
<1>6. z * ONE \in Int
  BY <1>1, <1>4
<1>7. x <= z * ONE
  <2> HIDE DEF z
  <2> QED BY <1>1, <1>4, <1>6 DEF z
<1> HIDE DEF y
<1> QED BY <1>2, <1>4, <1>5, <1>7

\* Tokens into notes: rounded down they are worth no more than the tokens, and
\* rounded up no less, but for the truncated quotient.
LEMMA TokensToNotes ==
  ASSUME NEW v \in Nat, NEW r \in Nat \ {0}
  PROVE  LET x == Div(Number(v), r)
         IN  /\ as_u64(x) \in Nat /\ as_u64_ceil(x) \in Nat
             /\ as_u64(x) * r <= v * ONE
             /\ v * ONE <= as_u64_ceil(x) * r + r \div ONE
<1>1. ONE \in Nat \ {0}
  BY PoolAssumption
<1> DEFINE w == v * ONE
           x == Div(Number(v), r)
           d == as_u64(x)
           n == as_u64_ceil(x)
           q == r \div ONE
<1>2. w \in Nat /\ w * ONE \in Nat
  BY <1>1, MulNat
<1>3. x = (w * ONE) \div r
  BY DEF Div, Number
<1> HIDE DEF w
<1>4. x \in Nat /\ x * r <= w * ONE /\ w * ONE < x * r + r
  BY <1>2, <1>3, DivBounds
<1> HIDE DEF x
<1>5. d \in Nat /\ n \in Nat /\ d * ONE <= x /\ x <= n * ONE
  BY <1>4, Rounding
<1>6. q \in Nat /\ r < q * ONE + ONE
  BY <1>1, DivBounds
<1> HIDE DEF d, n, q
<1>7. d * r <= w
  <2>1. (d * ONE) * r <= x * r
    BY <1>1, <1>4, <1>5, MulNat
  <2>2. (d * r) * ONE = (d * ONE) * r /\ d * r \in Int
    BY <1>1, <1>5
  <2>3. (d * r) * ONE <= w * ONE
    BY <1>1, <1>2, <1>4, <2>1, <2>2
  <2> QED BY <1>1, <1>2, <2>2, <2>3, Cancel
<1>8. w <= n * r + q
  <2>1. x * r <= (n * ONE) * r
    BY <1>1, <1>4, <1>5, MulNat
  <2>2. (n * r) * ONE = (n * ONE) * r /\ n * r \in Int
    BY <1>1, <1>5
  <2>3. (n * r + q + 1) * ONE = (n * r) * ONE + (q * ONE + ONE)
    BY <1>1, <1>6, <2>2
  <2>4. w * ONE < (n * r + q + 1) * ONE
    <3>1. (n * r) * ONE \in Int /\ q * ONE \in Int /\ x * r \in Int
      BY <1>1, <1>4, <1>6, <2>2
    <3> QED BY <1>1, <1>2, <1>4, <1>6, <2>1, <2>2, <2>3, <3>1
  <2>5. w < n * r + q + 1
    <3> DEFINE m == n * r + q + 1
    <3>1. m \in Int
      BY <1>6, <2>2
    <3> HIDE DEF m
    <3> QED BY <1>1, <1>2, <2>4, <3>1, Cancel DEF m
  <2> QED BY <1>2, <1>6, <2>2, <2>5
<1> QED BY <1>5, <1>7, <1>8 DEF x, d, n, q, w

\* Notes into tokens.
LEMMA NotesToTokens ==
  ASSUME NEW n \in Nat, NEW r \in Nat \ {0}
  PROVE  LET x == Mul(Number(n), r)
         IN  /\ as_u64(x) \in Nat /\ as_u64_ceil(x) \in Nat
             /\ as_u64(x) * ONE <= n * r
             /\ n * r <= as_u64_ceil(x) * ONE
<1>1. ONE \in Nat \ {0}
  BY PoolAssumption
<1> DEFINE x == Mul(Number(n), r)
<1>2. n * r \in Nat
  BY MulNat
<1>3. (n * ONE) * r = (n * r) * ONE
  BY <1>1
<1>4. x = ((n * r) * ONE) \div ONE
  BY <1>3 DEF Mul, Number
<1>5. \A m \in Nat : (m * ONE) \div ONE = m
  <2> SUFFICES ASSUME NEW m \in Nat PROVE (m * ONE) \div ONE = m
    OBVIOUS
  <2> DEFINE y == (m * ONE) \div ONE
  <2>1. m * ONE \in Nat
    BY <1>1, MulNat
  <2>2. y \in Int /\ y * ONE <= m * ONE /\ m * ONE < y * ONE + ONE
    BY <1>1, <2>1, DivBounds
  <2> HIDE DEF y
  <2>3. y <= m
    BY <1>1, <2>2, Cancel
  <2>4. (y + 1) * ONE = y * ONE + ONE
    BY <1>1, <2>2
  <2>5. m < y + 1
    <3> DEFINE z == y + 1
    <3>1. z \in Int /\ m * ONE < z * ONE
      BY <2>2, <2>4
    <3> HIDE DEF z
    <3> QED BY <1>1, <3>1, Cancel DEF z
  <2>6. y = m
    BY <2>2, <2>3, <2>5
  <2> QED BY <2>6 DEF y
<1>6. x = n * r
  BY <1>2, <1>4, <1>5
<1> QED BY <1>2, <1>6, Rounding

-----------------------------------------------------------------------------
(* The exponential's series: the recursive functions of expm1_approx       *)

Powers(z, x, n) == z = [k \in 1..n |-> IF k = 1 THEN x ELSE Mul(z[k - 1], x)]
Factorials(f, n) == f = [k \in 1..n |-> IF k = 1 THEN 1 ELSE k * f[k - 1]]
Partials(a, z, f, n) == a = [k \in 0..n |-> IF k = 0 THEN 0 ELSE a[k - 1] + z[k] \div f[k]]

\* The local functions of expm1_approx are ones that satisfy their recursions.
LEMMA ExpChosen ==
  ASSUME NEW x, NEW n
  PROVE  expm1_approx(x, n) =
           (CHOOSE a : Partials(a, CHOOSE z : Powers(z, x, n), CHOOSE f : Factorials(f, n), n))[n]
  BY DEF expm1_approx, Powers, Factorials, Partials

\* Its powers are natural numbers,
LEMMA PowersNat ==
  ASSUME NEW x \in Nat, NEW n \in Nat \ {0}
  PROVE  LET z == CHOOSE z : Powers(z, x, n) IN \A k \in 1 .. n : z[k] \in Nat
<1>1. \A a \in Nat : Mul(a, x) \in Nat
  <2> SUFFICES ASSUME NEW a \in Nat PROVE Mul(a, x) \in Nat
    OBVIOUS
  <2>1. a * x \in Nat /\ ONE \in Nat \ {0}
    BY MulNat, PoolAssumption
  <2> QED BY <2>1, DivBounds DEF Mul
<1> DEFINE step == [a \in Nat |-> Mul(a, x)]
           s == [k \in Nat |-> step]
<1>3. s \in [Nat -> [Nat -> Nat]]
  BY <1>1
<1>4. \E g : ByRecursion(g, Nat, 1, n, x, s)
  <2>1. 1 \in Nat /\ 1 <= n /\ n \in Nat
    OBVIOUS
  <2> HIDE DEF s
  <2> QED BY <1>3, <2>1, Recursion
<1>5. PICK g : ByRecursion(g, Nat, 1, n, x, s)
  BY <1>4
<1>6. Powers(g, x, n)
  <2>1. ASSUME NEW k \in 1 .. n PROVE g[k] = IF k = 1 THEN x ELSE Mul(g[k - 1], x)
    <3>1. CASE k # 1
      <4>1. k \in 1 + 1 .. n /\ k - 1 \in 1 .. n /\ k \in Nat
        BY <3>1
      <4>2. g[k - 1] \in Nat /\ g[k] = s[k][g[k - 1]] /\ s[k] = step
        BY <1>5, <4>1 DEF ByRecursion
      <4>3. step[g[k - 1]] = Mul(g[k - 1], x)
        BY <4>2
      <4> HIDE DEF step, s
      <4> QED BY <3>1, <4>2, <4>3
    <3> QED BY <1>5, <3>1 DEF ByRecursion
  <2> QED BY <2>1, <1>5 DEF Powers, ByRecursion
<1> DEFINE z == CHOOSE z : Powers(z, x, n)
<1>7. Powers(z, x, n)
  BY <1>6
<1> HIDE DEF z
<1>8. \A k \in 1 .. n : z[k] = IF k = 1 THEN x ELSE Mul(z[k - 1], x)
  BY <1>7 DEF Powers
<1>9. z[1] \in Nat /\ \A k \in 1 + 1 .. n : z[k - 1] \in Nat => z[k] \in Nat
  <2>1. \A k \in 1 + 1 .. n : k \in 1 .. n /\ k # 1
    OBVIOUS
  <2> HIDE DEF s, step
  <2> QED BY <1>1, <1>8, <2>1
<1>10. \A k \in 1 .. n : z[k] \in Nat
  BY <1>9, Along
<1> QED BY <1>10 DEF z

\* its factorials are positive,
LEMMA FactorialsPositive ==
  ASSUME NEW n \in Nat \ {0}
  PROVE  LET f == CHOOSE f : Factorials(f, n) IN \A k \in 1 .. n : f[k] \in Nat \ {0}
<1> DEFINE V == Nat \ {0}
           step(k) == [a \in V |-> IF k = 0 THEN 1 ELSE k * a]
           s == [k \in Nat |-> step(k)]
<1>1. \A k \in V, a \in V : k * a \in V
  OBVIOUS
<1>2. \A k \in Nat : step(k) \in [V -> V]
  BY <1>1
<1>3. s \in [Nat -> [V -> V]]
  <2> HIDE DEF step
  <2> QED BY <1>2
<1>4. \E g : ByRecursion(g, V, 1, n, 1, s)
  <2>1. 1 \in Nat /\ 1 <= n /\ n \in Nat /\ 1 \in V
    OBVIOUS
  <2> HIDE DEF s, V
  <2> QED BY <1>3, <2>1, Recursion
<1>5. PICK g : ByRecursion(g, V, 1, n, 1, s)
  BY <1>4
<1>6. Factorials(g, n)
  <2>1. ASSUME NEW k \in 1 .. n PROVE g[k] = IF k = 1 THEN 1 ELSE k * g[k - 1]
    <3>1. CASE k # 1
      <4>1. k \in 1 + 1 .. n /\ k - 1 \in 1 .. n /\ k \in Nat /\ k # 0
        BY <3>1
      <4>2. g[k - 1] \in V /\ g[k] = s[k][g[k - 1]]
        BY <1>5, <4>1 DEF ByRecursion
      <4>3. s[k] = step(k)
        BY <4>1
      <4>4. step(k)[g[k - 1]] = k * g[k - 1]
        BY <4>1, <4>2
      <4> HIDE DEF step, s
      <4> QED BY <3>1, <4>2, <4>3, <4>4
    <3> QED BY <1>5, <3>1 DEF ByRecursion
  <2> QED BY <2>1, <1>5 DEF Factorials, ByRecursion
<1> DEFINE f == CHOOSE f : Factorials(f, n)
<1>7. Factorials(f, n)
  BY <1>6
<1> HIDE DEF f
<1>8. \A k \in 1 .. n : f[k] = IF k = 1 THEN 1 ELSE k * f[k - 1]
  BY <1>7 DEF Factorials
<1>9. f[1] \in V /\ \A k \in 1 + 1 .. n : f[k - 1] \in V => f[k] \in V
  BY <1>1, <1>8
<1>10. \A k \in 1 .. n : f[k] \in V
  <2> HIDE DEF V
  <2> QED BY <1>9, Along
<1> QED BY <1>10 DEF f

\* and so its sum is a natural number.
LEMMA ExpNat ==
  ASSUME NEW x \in Nat, NEW n \in Nat \ {0}
  PROVE  expm1_approx(x, n) \in Nat
<1> DEFINE z == CHOOSE z : Powers(z, x, n)
           f == CHOOSE f : Factorials(f, n)
           q(k) == z[k] \div f[k]
<1>1. \A k \in 1 .. n : q(k) \in Nat
  <2>1. \A k \in 1 .. n : z[k] \in Nat /\ f[k] \in Nat \ {0}
    BY PowersNat, FactorialsPositive
  <2> HIDE DEF z, f
  <2> QED BY <2>1, DivBounds
<1> HIDE DEF z, f
<1> DEFINE step(k) == [a \in Nat |-> IF k \in 1 .. n THEN a + q(k) ELSE 0]
           s == [k \in Nat |-> step(k)]
<1>2. \A k \in Nat : step(k) \in [Nat -> Nat]
  <2> HIDE DEF q
  <2> QED BY <1>1
<1>3. s \in [Nat -> [Nat -> Nat]]
  <2> HIDE DEF step
  <2> QED BY <1>2
<1>4. \E g : ByRecursion(g, Nat, 0, n, 0, s)
  <2>1. 0 \in Nat /\ 0 <= n /\ n \in Nat
    OBVIOUS
  <2> HIDE DEF s
  <2> QED BY <1>3, <2>1, Recursion
<1>5. PICK g : ByRecursion(g, Nat, 0, n, 0, s)
  BY <1>4
<1>6. Partials(g, z, f, n)
  <2>1. ASSUME NEW k \in 0 .. n PROVE g[k] = IF k = 0 THEN 0 ELSE g[k - 1] + q(k)
    <3>1. CASE k # 0
      <4>1. k \in 0 + 1 .. n /\ k \in 1 .. n /\ k - 1 \in 0 .. n /\ k \in Nat
        BY <3>1
      <4>2. g[k - 1] \in Nat /\ g[k] = s[k][g[k - 1]]
        BY <1>5, <4>1 DEF ByRecursion
      <4>3. s[k] = step(k)
        BY <4>1
      <4>4. step(k)[g[k - 1]] = g[k - 1] + q(k)
        <5> HIDE DEF q
        <5> QED BY <4>1, <4>2
      <4> HIDE DEF step, s, q
      <4> QED BY <3>1, <4>2, <4>3, <4>4
    <3> HIDE DEF q
    <3> QED BY <1>5, <3>1 DEF ByRecursion
  <2> QED BY <2>1, <1>5 DEF Partials, ByRecursion
<1> DEFINE a == CHOOSE a : Partials(a, z, f, n)
<1>7. Partials(a, z, f, n)
  BY <1>6
<1>8. expm1_approx(x, n) = a[n]
  BY ExpChosen DEF z, f
<1> HIDE DEF a
<1>9. \A k \in 0 .. n : a[k] = IF k = 0 THEN 0 ELSE a[k - 1] + q(k)
  BY <1>7 DEF Partials
<1> HIDE DEF q
<1>10. a[0] \in Nat /\ \A k \in 0 + 1 .. n : a[k - 1] \in Nat => a[k] \in Nat
  BY <1>1, <1>9
<1>11. \A k \in 0 .. n : a[k] \in Nat
  BY <1>10, Along
<1> QED BY <1>8, <1>11

-----------------------------------------------------------------------------
(* Rates and interest *)

\* The number one is positive.
LEMMA OneType == ONE \in Nat \ {0} /\ ONE >= 2 /\ Year \in Nat \ {0} /\ Week \in Nat \ {0}
  BY PoolAssumption

\* A product and a quotient of natural Numbers is one.
LEMMA MulDivNat ==
  ASSUME NEW a \in Nat, NEW b \in Nat
  PROVE  Mul(a, b) \in Nat /\ (b # 0 => Div(a, b) \in Nat)
<1>1. a * b \in Nat /\ a * ONE \in Nat
  BY MulNat, OneType
<1> QED BY <1>1, DivBounds, OneType DEF Mul, Div

\* The values and rates of a pool are numbers; only the deposit rate, of what
\* the fees leave, could be negative.
LEMMA RatesType ==
  ASSUME NEW p \in MarginPoolType
  PROVE  /\ total_value(p) \in Nat
         /\ total_value(p) = p.borrowed + p.deposit_tokens * ONE
         /\ p.deposit_tokens * ONE \in Nat
         /\ deposit_value(p) \in Int /\ total_value(p) - p.fees <= deposit_value(p)
         /\ deposit_note_exchange_rate(p) \in Int
         /\ loan_note_exchange_rate(p) \in Nat
<1>1. /\ p.borrowed \in Nat /\ p.fees \in Nat /\ p.deposit_tokens \in Nat
      /\ p.deposit_notes \in Nat /\ p.loan_notes \in Nat
  BY DEF MarginPoolType
<1>2. p.deposit_tokens * ONE \in Nat
  BY <1>1, OneType, MulNat
<1>3. total_value(p) \in Nat /\ total_value(p) = p.borrowed + p.deposit_tokens * ONE
  BY <1>1, <1>2 DEF total_value, Number
<1>4. deposit_value(p) \in Int /\ total_value(p) - p.fees <= deposit_value(p)
  BY <1>1, <1>3, OneType DEF deposit_value, Larger
<1>5. /\ Larger(1, p.deposit_notes) \in Nat \ {0} /\ Larger(1, p.loan_notes) \in Nat \ {0}
      /\ Larger(ONE, p.borrowed) \in Nat
  BY <1>1, OneType DEF Larger
<1>6. deposit_note_exchange_rate(p) \in Int
  BY <1>4, <1>5, DivBounds DEF deposit_note_exchange_rate
<1>7. loan_note_exchange_rate(p) \in Nat
  BY <1>5, DivBounds DEF loan_note_exchange_rate
<1> QED BY <1>2, <1>3, <1>4, <1>6, <1>7

\* A point between two others.
LEMMA InterpolateNat ==
  ASSUME NEW x \in Nat, NEW x0 \in Nat, NEW x1 \in Nat, NEW y0 \in Nat, NEW y1 \in Nat,
         x0 <= x, x0 < x1, y0 <= y1
  PROVE  interpolate(x, x0, x1, y0, y1) \in Nat
<1>1. x - x0 \in Nat /\ y1 - y0 \in Nat /\ x1 - x0 \in Nat /\ x1 - x0 # 0
  OBVIOUS
<1>2. Mul(x - x0, y1 - y0) \in Nat
  BY <1>1, MulDivNat
<1>3. Div(Mul(x - x0, y1 - y0), x1 - x0) \in Nat
  BY <1>1, <1>2, MulDivNat
<1> QED BY <1>3 DEF interpolate

\* The interest rate of a pool on which it is defined is a Number.
LEMMA InterestRateNat ==
  ASSUME NEW p \in MarginPoolType, InterestDefined(p)
  PROVE  interest_rate(p) \in Nat
<1> DEFINE c == p.config
           u == utilization_rate(p)
<1>1. /\ c.util_1 \in Nat /\ c.util_2 \in Nat /\ c.borrow_0 \in Nat /\ c.borrow_1 \in Nat
      /\ c.borrow_2 \in Nat /\ c.borrow_3 \in Nat
      /\ c.borrow_0 <= c.borrow_1 /\ c.borrow_1 <= c.borrow_2 /\ c.borrow_2 <= c.borrow_3
      /\ p.deposit_notes \in Nat
  BY DEF MarginPoolType, PoolConfigs
<1>2. CASE p.deposit_notes = 0
  BY <1>1, <1>2 DEF interest_rate
<1>3. CASE p.deposit_notes > 0
  <2>1. total_value(p) \in Nat /\ total_value(p) > 0 /\ p.borrowed \in Nat
    BY <1>3, RatesType DEF InterestDefined, MarginPoolType
  <2>2. u \in Nat
    <3>1. total_value(p) # 0
      BY <2>1
    <3>2. Div(p.borrowed, total_value(p)) \in Nat
      BY <2>1, <3>1, MulDivNat, Zenon
    <3> QED BY <3>2 DEF utilization_rate
  <2>3. u > 0 \/ c.util_1 > 0
    BY <1>3 DEF InterestDefined
  <2> HIDE DEF c, u
  <2>4. CASE u <= c.util_1
    <3>1. interpolate(u, 0, c.util_1, c.borrow_0, c.borrow_1) \in Nat
      <4>1. 0 \in Nat /\ 0 <= u /\ 0 < c.util_1
        BY <1>1, <2>2, <2>3, <2>4, OneType
      <4> QED BY <1>1, <2>2, <4>1, InterpolateNat, Zenon
    <3>2. interest_rate(p) = interpolate(u, 0, c.util_1, c.borrow_0, c.borrow_1)
      BY <1>1, <1>3, <2>2, <2>4 DEF interest_rate, c, u
    <3> QED BY <3>1, <3>2
  <2>5. CASE u > c.util_1 /\ u <= c.util_2
    <3>1. interpolate(u, c.util_1, c.util_2, c.borrow_1, c.borrow_2) \in Nat
      <4>1. c.util_1 <= u /\ c.util_1 < c.util_2
        BY <1>1, <2>2, <2>5, OneType
      <4> QED BY <1>1, <2>2, <4>1, InterpolateNat, Zenon
    <3>2. interest_rate(p) = interpolate(u, c.util_1, c.util_2, c.borrow_1, c.borrow_2)
      BY <1>1, <1>3, <2>2, <2>5 DEF interest_rate, c, u
    <3> QED BY <3>1, <3>2
  <2>6. CASE u > c.util_1 /\ u > c.util_2 /\ u < ONE
    <3>1. interpolate(u, c.util_2, ONE, c.borrow_2, c.borrow_3) \in Nat
      <4>1. ONE \in Nat /\ c.util_2 <= u /\ c.util_2 < ONE
        BY <1>1, <2>2, <2>6, OneType
      <4> QED BY <1>1, <2>2, <4>1, InterpolateNat, Zenon
    <3>2. interest_rate(p) = interpolate(u, c.util_2, ONE, c.borrow_2, c.borrow_3)
      BY <1>1, <1>3, <2>2, <2>6 DEF interest_rate, c, u
    <3> QED BY <3>1, <3>2
  <2>7. CASE u > c.util_1 /\ u > c.util_2 /\ ~(u < ONE)
    <3>1. interest_rate(p) = c.borrow_3
      BY <1>1, <1>3, <2>2, <2>7 DEF interest_rate, c, u
    <3> QED BY <1>1, <3>1
  <2> QED BY <1>1, <2>2, <2>4, <2>5, <2>6, <2>7
<1> QED BY <1>1, <1>2, <1>3

\* The time that one call accrues.
LEMMA TimeToAccrue ==
  ASSUME PoolTypeOK
  PROVE  /\ time_to_accrue(pool) \in Nat /\ time_to_accrue(pool) <= Week
         /\ pool.accrued_until + time_to_accrue(pool) <= clock
<1> DEFINE a == clock - pool.accrued_until
<1>1. a \in Nat
  BY DEF PoolTypeOK, MarginPoolType
<1>2. Min({a, Week}) = IF a <= Week THEN a ELSE Week
  <2> HIDE DEF a
  <2> QED BY <1>1, OneType DEF Min
<1>3. time_to_accrue(pool) = IF a <= Week THEN a ELSE Week
  BY <1>2 DEF time_to_accrue
<1> QED BY <1>1, <1>3, OneType DEF PoolTypeOK, MarginPoolType

\* Accruing interest leaves a pool, with more borrowed and more fees and
\* nothing else changed but the time.
LEMMA AccruedType ==
  ASSUME PoolTypeOK, AccrualDefined(pool)
  PROVE  /\ Accrued \in MarginPoolType
         /\ Accrued.deposit_tokens = pool.deposit_tokens
         /\ Accrued.deposit_notes = pool.deposit_notes
         /\ Accrued.loan_notes = pool.loan_notes
         /\ Accrued.accrued_until <= clock
         /\ total_value(pool) <= total_value(Accrued)
<1> DEFINE t == time_to_accrue(pool)
           interest == Mul(pool.borrowed, compound_interest(interest_rate(pool), t))
           fee == Mul(interest, pool.config.fee_rate)
<1>1. t \in Nat /\ t <= Week /\ pool.accrued_until + t <= clock /\ pool \in MarginPoolType
  BY TimeToAccrue DEF PoolTypeOK
<1>2. CASE t = 0
  <2>1. Accrued = pool
    BY <1>2 DEF Accrued, accrue_interest
  <2> QED BY <1>1, <2>1, RatesType DEF PoolTypeOK
<1>3. CASE t # 0
  <2>1. interest_rate(pool) \in Nat
    BY <1>1, <1>3, InterestRateNat DEF AccrualDefined
  <2>2. Terms[t] \in Nat \ {0}
    BY <1>1, <1>3, PoolAssumption
  <2>3. (interest_rate(pool) * t) \div Year \in Nat
    <3>1. interest_rate(pool) * t \in Nat
      BY <1>1, <2>1, MulNat
    <3> QED BY <3>1, DivBounds, OneType
  <2>4. compound_interest(interest_rate(pool), t) \in Nat
    BY <2>2, <2>3, ExpNat DEF compound_interest
  <2>5. pool.borrowed \in Nat /\ pool.config.fee_rate \in Nat
    BY <1>1 DEF MarginPoolType, PoolConfigs
  <2>6. interest \in Nat
    BY <2>4, <2>5, MulDivNat
  <2>7. fee \in Nat
    <3> HIDE DEF interest
    <3> QED BY <2>5, <2>6, MulDivNat
  <2>8. Accrued = [pool EXCEPT !.borrowed = @ + interest, !.fees = @ + fee, !.accrued_until = @ + t]
    BY <1>3 DEF Accrued, accrue_interest
  <2> HIDE DEF interest, fee, t
  <2>9. Accrued = [borrowed |-> pool.borrowed + interest, fees |-> pool.fees + fee,
                   deposit_tokens |-> pool.deposit_tokens, deposit_notes |-> pool.deposit_notes,
                   loan_notes |-> pool.loan_notes, accrued_until |-> pool.accrued_until + t,
                   config |-> pool.config]
    BY <1>1, <2>8 DEF MarginPoolType
  <2>10. pool.fees + fee \in Nat /\ pool.borrowed + interest \in Nat /\ pool.accrued_until + t \in Nat
    BY <1>1, <2>6, <2>7 DEF MarginPoolType
  <2>11. Accrued \in MarginPoolType
    BY <1>1, <2>9, <2>10 DEF MarginPoolType
  <2>12. /\ Accrued.borrowed = pool.borrowed + interest
         /\ Accrued.deposit_tokens = pool.deposit_tokens
    BY <2>9
  <2>13. total_value(pool) <= total_value(Accrued)
    BY <1>1, <2>6, <2>11, <2>12, RatesType DEF MarginPoolType
  <2> QED BY <1>1, <2>9, <2>11, <2>13
<1> QED BY <1>2, <1>3

-----------------------------------------------------------------------------
(* Amounts *)

Actions == {"Deposit", "Withdraw", "Borrow", "Repay"}

\* The amount a, at rate r, is one the pool gains by: what comes in is worth the
\* notes it gives, and what goes out is worth no more than the notes it takes but
\* for the truncated quotient.
Favours(a, r, action) ==
  /\ a.tokens \in Nat /\ a.notes \in Nat
  /\ action \in {"Deposit", "Repay"} => a.notes * r <= a.tokens * ONE
  /\ action \in {"Borrow", "Withdraw"} => a.tokens * ONE <= a.notes * r + r \div ONE

\* Every conversion favours the pool.
LEMMA ConvertFavours ==
  ASSUME NEW p, NEW action \in Actions, exchange_rate(p, action) \in Nat \ {0},
         NEW kind \in {"Tokens", "Notes"}, NEW v \in Nat
  PROVE  Favours(convert(p, kind, v, action), exchange_rate(p, action), action)
<1> DEFINE r == exchange_rate(p, action)
           a == convert(p, kind, v, action)
<1>0. r \in Nat \ {0} /\ r \div ONE \in Nat /\ v * r \in Nat
  BY OneType, DivBounds, MulNat
<1>1. CASE kind = "Tokens"
  <2> DEFINE x == Div(Number(v), r)
             n == Rounded(x, direction(action, kind))
  <2>1. a = [tokens |-> v, notes |-> n]
    BY <1>1 DEF convert
  <2>2. /\ as_u64(x) \in Nat /\ as_u64_ceil(x) \in Nat
        /\ as_u64(x) * r <= v * ONE
        /\ v * ONE <= as_u64_ceil(x) * r + r \div ONE
    BY <1>0, TokensToNotes
  <2>3. n = IF action \in {"Borrow", "Withdraw"} THEN as_u64_ceil(x) ELSE as_u64(x)
    <3> HIDE DEF x
    <3> QED BY <1>1 DEF direction, Rounded, Actions
  <2> HIDE DEF r, x, n, a
  <2>4. CASE action \in {"Borrow", "Withdraw"}
    BY <2>1, <2>2, <2>3, <2>4 DEF Favours, a, r
  <2>5. CASE action \in {"Deposit", "Repay"}
    BY <2>1, <2>2, <2>3, <2>5 DEF Favours, a, r
  <2> QED BY <2>4, <2>5 DEF Actions
<1>2. CASE kind = "Notes"
  <2> DEFINE x == Mul(Number(v), r)
             t == Rounded(x, direction(action, kind))
  <2>1. a = [tokens |-> t, notes |-> v]
    BY <1>2 DEF convert
  <2>2. /\ as_u64(x) \in Nat /\ as_u64_ceil(x) \in Nat
        /\ as_u64(x) * ONE <= v * r
        /\ v * r <= as_u64_ceil(x) * ONE
    BY <1>0, NotesToTokens
  <2>3. t = IF action \in {"Borrow", "Withdraw"} THEN as_u64(x) ELSE as_u64_ceil(x)
    <3> HIDE DEF x
    <3> QED BY <1>2 DEF direction, Rounded, Actions
  <2> HIDE DEF r, x, t, a
  <2>4. CASE action \in {"Borrow", "Withdraw"}
    <3>1. t = as_u64(x) /\ t * ONE <= v * r /\ t * ONE \in Nat
      BY <2>2, <2>3, <2>4, OneType, MulNat
    <3>2. t * ONE <= v * r + r \div ONE
      BY <1>0, <3>1
    <3> QED BY <2>1, <2>2, <3>1, <3>2, <2>4 DEF Favours, a, r
  <2>5. CASE action \in {"Deposit", "Repay"}
    BY <2>1, <2>2, <2>3, <2>5 DEF Favours, a, r
  <2> QED BY <2>4, <2>5 DEF Actions
<1> QED BY <1>1, <1>2

\* So does the amount of every change that is defined.
LEMMA ChangeFavours ==
  ASSUME NEW p, NEW action \in Actions, exchange_rate(p, action) \in Int,
         NEW kind \in {"ShiftBy", "SetTo"}, NEW current \in Nat, NEW v \in Nat,
         ChangeDefined(p, current, kind, v, action)
  PROVE  /\ exchange_rate(p, action) \in Nat \ {0}
         /\ Favours(calculate_full_amount(p, current, kind, v, action),
                    exchange_rate(p, action), action)
<1>1. exchange_rate(p, action) \in Nat \ {0}
  BY DEF ChangeDefined
<1>2. CASE kind = "ShiftBy"
  BY <1>1, <1>2, ConvertFavours DEF calculate_full_amount
<1>3. CASE kind = "SetTo"
  <2> DEFINE d == SetToDelta(p, current, v, action)
  <2>1. convert(p, "Tokens", v, action).notes \in Nat
    BY <1>1, ConvertFavours DEF Favours
  <2>2. d \in Nat
    BY <1>3, <2>1 DEF ChangeDefined, SetToDelta
  <2>3. calculate_full_amount(p, current, kind, v, action) = convert(p, "Notes", d, action)
    BY <1>3 DEF calculate_full_amount
  <2> HIDE DEF d
  <2> QED BY <1>1, <2>2, <2>3, ConvertFavours
<1> QED BY <1>1, <1>2, <1>3

-----------------------------------------------------------------------------
(* The methods of the pool's record, and what they do to the value of notes *)

\* A pool with other amounts.
WithAmounts(p, b, f, t, n, l) ==
  [borrowed |-> b, fees |-> f, deposit_tokens |-> t, deposit_notes |-> n, loan_notes |-> l,
   accrued_until |-> p.accrued_until, config |-> p.config]

\* What the methods make of a pool.
LEMMA Methods ==
  ASSUME NEW p \in MarginPoolType, NEW a, NEW w
  PROVE  /\ deposited(p, a) = WithAmounts(p, p.borrowed, p.fees, p.deposit_tokens + a.tokens,
                                          p.deposit_notes + a.notes, p.loan_notes)
         /\ withdrawn(p, a) = WithAmounts(p, p.borrowed, p.fees, p.deposit_tokens - a.tokens,
                                          p.deposit_notes - a.notes, p.loan_notes)
         /\ borrowed(p, a) = WithAmounts(p, p.borrowed + a.tokens * ONE, p.fees,
                                         p.deposit_tokens - a.tokens, p.deposit_notes,
                                         p.loan_notes + a.notes)
         /\ repaid(p, a) = WithAmounts(p, saturating_sub(p.borrowed, a.tokens * ONE), p.fees,
                                       p.deposit_tokens + a.tokens, p.deposit_notes,
                                       p.loan_notes - a.notes)
         /\ margin_repaid(p, a, w) = WithAmounts(p, saturating_sub(p.borrowed, a.tokens * ONE),
                                                 p.fees, p.deposit_tokens,
                                                 p.deposit_notes - w.notes, p.loan_notes - a.notes)
         /\ collected(p) = WithAmounts(p, p.borrowed,
                             p.fees - Mul(Number(FeeNotes(p)), deposit_note_exchange_rate(p)),
                             p.deposit_tokens, p.deposit_notes + FeeNotes(p), p.loan_notes)
<1>1. deposited(p, a) = WithAmounts(p, p.borrowed, p.fees, p.deposit_tokens + a.tokens,
                                    p.deposit_notes + a.notes, p.loan_notes)
  <2> DEFINE x == p.deposit_tokens + a.tokens
             y == p.deposit_notes + a.notes
  <2>1. deposited(p, a) = [p EXCEPT !.deposit_tokens = x, !.deposit_notes = y]
    BY DEF deposited
  <2> HIDE DEF x, y
  <2>2. deposited(p, a) = WithAmounts(p, p.borrowed, p.fees, x, y, p.loan_notes)
    BY <2>1 DEF WithAmounts, MarginPoolType
  <2> QED BY <2>2 DEF x, y
<1>2. withdrawn(p, a) = WithAmounts(p, p.borrowed, p.fees, p.deposit_tokens - a.tokens,
                                    p.deposit_notes - a.notes, p.loan_notes)
  <2> DEFINE x == p.deposit_tokens - a.tokens
             y == p.deposit_notes - a.notes
  <2>1. withdrawn(p, a) = [p EXCEPT !.deposit_tokens = x, !.deposit_notes = y]
    BY DEF withdrawn
  <2> HIDE DEF x, y
  <2>2. withdrawn(p, a) = WithAmounts(p, p.borrowed, p.fees, x, y, p.loan_notes)
    BY <2>1 DEF WithAmounts, MarginPoolType
  <2> QED BY <2>2 DEF x, y
<1>3. borrowed(p, a) = WithAmounts(p, p.borrowed + a.tokens * ONE, p.fees,
                                   p.deposit_tokens - a.tokens, p.deposit_notes,
                                   p.loan_notes + a.notes)
  <2> DEFINE x == p.deposit_tokens - a.tokens
             y == p.loan_notes + a.notes
             z == p.borrowed + a.tokens * ONE
  <2>1. borrowed(p, a) = [p EXCEPT !.deposit_tokens = x, !.loan_notes = y, !.borrowed = z]
    BY DEF borrowed, Number
  <2> HIDE DEF x, y, z
  <2>2. borrowed(p, a) = WithAmounts(p, z, p.fees, x, p.deposit_notes, y)
    BY <2>1 DEF WithAmounts, MarginPoolType
  <2> QED BY <2>2 DEF x, y, z
<1>4. repaid(p, a) = WithAmounts(p, saturating_sub(p.borrowed, a.tokens * ONE), p.fees,
                                 p.deposit_tokens + a.tokens, p.deposit_notes,
                                 p.loan_notes - a.notes)
  <2> DEFINE x == p.deposit_tokens + a.tokens
             y == p.loan_notes - a.notes
             z == saturating_sub(p.borrowed, a.tokens * ONE)
  <2>1. repaid(p, a) = [[p EXCEPT !.deposit_tokens = x] EXCEPT !.loan_notes = y, !.borrowed = z]
    <3> DEFINE q == [p EXCEPT !.deposit_tokens = x]
    <3>1. repaid(p, a) = debt_reduced(q, a)
      BY DEF repaid
    <3>2. q.loan_notes = p.loan_notes /\ q.borrowed = p.borrowed
      BY DEF MarginPoolType
    <3>3. debt_reduced(q, a) = [q EXCEPT !.loan_notes = y, !.borrowed = z]
      <4> HIDE DEF q
      <4> QED BY <3>2 DEF debt_reduced, Number
    <3> HIDE DEF y, z
    <3> QED BY <3>1, <3>3
  <2> HIDE DEF x, y, z
  <2>2. repaid(p, a) = WithAmounts(p, z, p.fees, x, p.deposit_notes, y)
    BY <2>1 DEF WithAmounts, MarginPoolType
  <2> QED BY <2>2 DEF x, y, z
<1>5. margin_repaid(p, a, w) = WithAmounts(p, saturating_sub(p.borrowed, a.tokens * ONE),
                                           p.fees, p.deposit_tokens,
                                           p.deposit_notes - w.notes, p.loan_notes - a.notes)
  <2> DEFINE x == p.deposit_notes - w.notes
             y == p.loan_notes - a.notes
             z == saturating_sub(p.borrowed, a.tokens * ONE)
  <2>1. margin_repaid(p, a, w) = [[p EXCEPT !.deposit_notes = x] EXCEPT !.loan_notes = y, !.borrowed = z]
    <3> DEFINE q == [p EXCEPT !.deposit_notes = x]
    <3>1. margin_repaid(p, a, w) = debt_reduced(q, a)
      BY DEF margin_repaid
    <3>2. q.loan_notes = p.loan_notes /\ q.borrowed = p.borrowed
      BY DEF MarginPoolType
    <3>3. debt_reduced(q, a) = [q EXCEPT !.loan_notes = y, !.borrowed = z]
      <4> HIDE DEF q
      <4> QED BY <3>2 DEF debt_reduced, Number
    <3> HIDE DEF y, z
    <3> QED BY <3>1, <3>3
  <2> HIDE DEF x, y, z
  <2>2. margin_repaid(p, a, w) = WithAmounts(p, z, p.fees, p.deposit_tokens, x, y)
    BY <2>1 DEF WithAmounts, MarginPoolType
  <2> QED BY <2>2 DEF x, y, z
<1>6. collected(p) = WithAmounts(p, p.borrowed,
                       p.fees - Mul(Number(FeeNotes(p)), deposit_note_exchange_rate(p)),
                       p.deposit_tokens, p.deposit_notes + FeeNotes(p), p.loan_notes)
  <2> DEFINE x == p.fees - Mul(Number(FeeNotes(p)), deposit_note_exchange_rate(p))
             y == p.deposit_notes + FeeNotes(p)
  <2>1. collected(p) = [p EXCEPT !.fees = x, !.deposit_notes = y]
    BY DEF collected
  <2> HIDE DEF x, y
  <2>2. collected(p) = WithAmounts(p, p.borrowed, x, p.deposit_tokens, y, p.loan_notes)
    BY <2>1 DEF WithAmounts, MarginPoolType
  <2> QED BY <2>2 DEF x, y
<1> QED BY <1>1, <1>2, <1>3, <1>4, <1>5, <1>6, Zenon

\* From p to q no depositor is diluted, and no borrower charged.
NotDiluted(p, q) ==
  LET rate == deposit_note_exchange_rate(p)
  IN  total_value(p) >= ONE /\ q.deposit_notes > 0 =>
        deposit_value(q) + Larger(0, rate) \div ONE >= q.deposit_notes * rate

NotCharged(p, q) ==
  LET rate == loan_note_exchange_rate(p)
  IN  Unnoted(q, rate) <= Larger(0, Unnoted(p, rate)) + rate \div ONE

\* The deposit notes out are worth no more than what the pool has for them.
LEMMA NoteValue ==
  ASSUME NEW p \in MarginPoolType, total_value(p) >= ONE,
         p.deposit_notes > 0 \/ deposit_note_exchange_rate(p) > 0
  PROVE  p.deposit_notes * deposit_note_exchange_rate(p) <= total_value(p) - p.fees
<1> DEFINE V == deposit_value(p)
           N == p.deposit_notes
           M == Larger(1, N)
           r == deposit_note_exchange_rate(p)
<1>1. N \in Nat /\ p.fees \in Nat /\ total_value(p) \in Nat /\ r \in Int
  BY RatesType DEF MarginPoolType
<1>2. V = total_value(p) - p.fees /\ V \in Int
  BY <1>1, OneType DEF deposit_value, Larger
<1>3. M \in Nat \ {0} /\ M = IF N > 0 THEN N ELSE 1
  BY <1>1 DEF Larger
<1>4. r = V \div M
  BY DEF deposit_note_exchange_rate
<1> HIDE DEF V, M
<1>5. r * M <= V
  BY <1>2, <1>3, <1>4, DivBounds
<1> HIDE DEF N, r
<1>6. CASE N > 0
  <2>1. M = N /\ r * N = N * r
    BY <1>1, <1>3, <1>6
  <2>2. N * r <= V
    BY <1>5, <2>1
  <2> QED BY <1>2, <2>2 DEF N, r
<1>7. CASE ~(N > 0)
  <2>1. N = 0 /\ M = 1 /\ r > 0
    BY <1>1, <1>3, <1>7 DEF N, r
  <2>2. N * r = 0 /\ r * M = r
    BY <1>1, <2>1
  <2>3. N * r <= V
    BY <1>1, <1>2, <1>5, <2>1, <2>2
  <2> QED BY <1>2, <2>3 DEF N, r
<1> QED BY <1>6, <1>7

\* A change that brings in x of value, for notes worth no more than x and the
\* truncated quotient, dilutes nobody.
LEMMA KeepsValue ==
  ASSUME NEW p \in MarginPoolType, NEW q \in MarginPoolType, NEW x \in Int,
         total_value(q) - q.fees >= (total_value(p) - p.fees) + x,
         NEW r, r = deposit_note_exchange_rate(p),
         q.deposit_notes * r <= p.deposit_notes * r + x + Larger(0, r) \div ONE,
         q.deposit_notes > 0 => p.deposit_notes > 0 \/ r > 0
  PROVE  NotDiluted(p, q)
<1> SUFFICES ASSUME total_value(p) >= ONE, q.deposit_notes > 0
             PROVE  deposit_value(q) + Larger(0, r) \div ONE >= q.deposit_notes * r
  BY DEF NotDiluted
<1>1. p.deposit_notes * r <= total_value(p) - p.fees
  BY NoteValue
<1>2. total_value(q) - q.fees <= deposit_value(q)
  BY RatesType
<1>3. /\ r \in Int /\ deposit_value(q) \in Int /\ total_value(p) \in Nat /\ total_value(q) \in Nat
      /\ p.fees \in Nat /\ q.fees \in Nat /\ p.deposit_notes \in Nat /\ q.deposit_notes \in Nat
  BY RatesType DEF MarginPoolType
<1>4. Larger(0, r) \in Nat
  BY <1>3 DEF Larger
<1>5. Larger(0, r) \div ONE \in Nat
  BY <1>4, OneType, DivBounds
<1>6. p.deposit_notes * r \in Int /\ q.deposit_notes * r \in Int
  BY <1>3
<1> QED BY <1>1, <1>2, <1>3, <1>5, <1>6

\* Likewise for what is owed: x more of it, for notes worth as much.
LEMMA KeepsDebt ==
  ASSUME NEW p \in MarginPoolType, NEW q \in MarginPoolType, NEW r, r = loan_note_exchange_rate(p),
         \/ q.borrowed - q.loan_notes * r <= (p.borrowed - p.loan_notes * r) + r \div ONE
         \/ q.borrowed = 0
  PROVE  NotCharged(p, q)
<1>1. r \in Nat
  BY RatesType
<1>2. r \div ONE \in Nat
  BY <1>1, OneType, DivBounds
<1>3. p.borrowed \in Nat /\ q.borrowed \in Nat /\ p.loan_notes * r \in Nat /\ q.loan_notes * r \in Nat
  BY <1>1, MulNat DEF MarginPoolType
<1> QED BY <1>1, <1>2, <1>3 DEF NotCharged, Unnoted, Larger

\* A method that touches neither debt nor loan notes charges nobody.
LEMMA SameDebt ==
  ASSUME NEW p \in MarginPoolType, NEW q \in MarginPoolType,
         q.borrowed = p.borrowed, q.loan_notes = p.loan_notes
  PROVE  NotCharged(p, q)
<1> DEFINE r == loan_note_exchange_rate(p)
<1>1. r \in Nat /\ r \div ONE \in Nat
  BY RatesType, OneType, DivBounds
<1>2. p.borrowed \in Nat /\ p.loan_notes * r \in Nat
  BY <1>1, MulNat DEF MarginPoolType
<1>3. q.borrowed - q.loan_notes * r <= (p.borrowed - p.loan_notes * r) + r \div ONE
  BY <1>1, <1>2
<1> HIDE DEF r
<1> QED BY <1>3, KeepsDebt DEF r

\* The value and the debt of a pool with other amounts.
LEMMA WithAmountsValue ==
  ASSUME NEW p, NEW b, NEW f, NEW t, NEW n, NEW l
  PROVE  LET q == WithAmounts(p, b, f, t, n, l)
         IN  /\ q.borrowed = b /\ q.fees = f /\ q.deposit_tokens = t /\ q.deposit_notes = n
             /\ q.loan_notes = l /\ q.accrued_until = p.accrued_until
             /\ total_value(q) = b + t * ONE
  BY DEF WithAmounts, total_value, Number

\* The fields of a pool, and its rates.
LEMMA Fields ==
  ASSUME NEW p \in MarginPoolType
  PROVE  /\ p.borrowed \in Nat /\ p.fees \in Nat /\ p.deposit_tokens \in Nat
         /\ p.deposit_notes \in Nat /\ p.loan_notes \in Nat /\ p.accrued_until \in Nat
  BY DEF MarginPoolType

\* A deposit of tokens for notes that are worth no more.
LEMMA DepositKeeps ==
  ASSUME NEW p \in MarginPoolType, NEW a, NEW r, r = deposit_note_exchange_rate(p),
         r \in Nat \ {0}, Favours(a, r, "Deposit")
  PROVE  LET q == deposited(p, a)
         IN  /\ q \in MarginPoolType /\ q.accrued_until = p.accrued_until
             /\ q.deposit_tokens = p.deposit_tokens + a.tokens
             /\ q.deposit_notes = p.deposit_notes + a.notes
             /\ q.loan_notes = p.loan_notes /\ q.borrowed = p.borrowed
             /\ total_value(q) = total_value(p) + a.tokens * ONE
             /\ NotDiluted(p, q) /\ NotCharged(p, q)
<1> DEFINE q == deposited(p, a)
           x == a.tokens * ONE
           y == a.notes * r
<1>1. a.tokens \in Nat /\ a.notes \in Nat /\ y <= x
  BY DEF Favours
<1>2. x \in Nat /\ y \in Nat /\ p.deposit_tokens * ONE \in Nat /\ p.deposit_notes * r \in Nat
  BY <1>1, Fields, MulNat, OneType
<1>3. q = WithAmounts(p, p.borrowed, p.fees, p.deposit_tokens + a.tokens,
                      p.deposit_notes + a.notes, p.loan_notes)
  BY Methods
<1>4. q \in MarginPoolType
  <2>1. p.deposit_tokens + a.tokens \in Nat /\ p.deposit_notes + a.notes \in Nat
    BY <1>1, Fields
  <2> QED BY <1>3, <2>1 DEF WithAmounts, MarginPoolType
<1>5. /\ q.borrowed = p.borrowed /\ q.fees = p.fees /\ q.accrued_until = p.accrued_until
      /\ q.deposit_tokens = p.deposit_tokens + a.tokens /\ q.deposit_notes = p.deposit_notes + a.notes
      /\ q.loan_notes = p.loan_notes
      /\ total_value(q) = p.borrowed + (p.deposit_tokens + a.tokens) * ONE
  BY <1>3, WithAmountsValue
<1> HIDE DEF q
<1>6. (p.deposit_tokens + a.tokens) * ONE = p.deposit_tokens * ONE + x
  BY <1>1, Fields, OneType
<1>7. total_value(q) = total_value(p) + x /\ total_value(q) - q.fees >= (total_value(p) - p.fees) + x
  BY <1>2, <1>5, <1>6, Fields, RatesType
<1>8. q.deposit_notes * r = p.deposit_notes * r + y
  BY <1>1, <1>5, Fields
<1>9. Larger(0, r) \div ONE \in Nat
  BY OneType, DivBounds DEF Larger
<1> HIDE DEF x, y
<1>10. q.deposit_notes * r <= p.deposit_notes * r + x + Larger(0, r) \div ONE
  BY <1>1, <1>2, <1>8, <1>9
<1>11. NotDiluted(p, q)
  BY <1>2, <1>4, <1>7, <1>10, KeepsValue
<1>12. NotCharged(p, q)
  BY <1>4, <1>5, SameDebt
<1> QED BY <1>4, <1>5, <1>7, <1>11, <1>12 DEF q, x

\* A withdrawal of tokens for notes that are worth as much.
LEMMA WithdrawKeeps ==
  ASSUME NEW p \in MarginPoolType, NEW a, NEW r, r = deposit_note_exchange_rate(p),
         r \in Nat \ {0}, Favours(a, r, "Withdraw"), CanWithdraw(p, a)
  PROVE  LET q == withdrawn(p, a)
         IN  /\ q \in MarginPoolType /\ q.accrued_until = p.accrued_until
             /\ q.deposit_tokens = p.deposit_tokens - a.tokens
             /\ q.deposit_notes = p.deposit_notes - a.notes
             /\ q.loan_notes = p.loan_notes
             /\ total_value(q) = total_value(p) - a.tokens * ONE
             /\ NotDiluted(p, q) /\ NotCharged(p, q)
<1> DEFINE q == withdrawn(p, a)
           x == a.tokens * ONE
           y == a.notes * r
<1>1. a.tokens \in Nat /\ a.notes \in Nat /\ x <= y + r \div ONE
  BY DEF Favours
<1>2. x \in Nat /\ y \in Nat /\ p.deposit_tokens * ONE \in Nat /\ p.deposit_notes * r \in Nat
  BY <1>1, Fields, MulNat, OneType
<1>3. q = WithAmounts(p, p.borrowed, p.fees, p.deposit_tokens - a.tokens,
                      p.deposit_notes - a.notes, p.loan_notes)
  BY Methods
<1>4. q \in MarginPoolType
  <2>1. p.deposit_tokens - a.tokens \in Nat /\ p.deposit_notes - a.notes \in Nat
    BY <1>1, Fields DEF CanWithdraw
  <2> QED BY <1>3, <2>1 DEF WithAmounts, MarginPoolType
<1>5. /\ q.borrowed = p.borrowed /\ q.fees = p.fees /\ q.accrued_until = p.accrued_until
      /\ q.deposit_tokens = p.deposit_tokens - a.tokens /\ q.deposit_notes = p.deposit_notes - a.notes
      /\ q.loan_notes = p.loan_notes
      /\ total_value(q) = p.borrowed + (p.deposit_tokens - a.tokens) * ONE
  BY <1>3, WithAmountsValue
<1> HIDE DEF q
<1>6. (p.deposit_tokens - a.tokens) * ONE = p.deposit_tokens * ONE - x
  BY <1>1, Fields, OneType
<1>7. /\ total_value(q) = total_value(p) - x
      /\ total_value(q) - q.fees >= (total_value(p) - p.fees) + (0 - x)
  BY <1>2, <1>5, <1>6, Fields, RatesType
<1>8. q.deposit_notes * r = p.deposit_notes * r - y
  BY <1>1, <1>5, Fields
<1>9. Larger(0, r) = r /\ r \div ONE \in Nat
  BY OneType, DivBounds DEF Larger
<1> HIDE DEF x, y
<1>10. q.deposit_notes * r <= p.deposit_notes * r + (0 - x) + Larger(0, r) \div ONE
  BY <1>1, <1>2, <1>8, <1>9
<1>11. NotDiluted(p, q)
  <2>1. 0 - x \in Int
    BY <1>2
  <2> DEFINE z == 0 - x
  <2> HIDE DEF z
  <2>2. z \in Int /\ total_value(q) - q.fees >= (total_value(p) - p.fees) + z
        /\ q.deposit_notes * r <= p.deposit_notes * r + z + Larger(0, r) \div ONE
    BY <1>7, <1>10, <2>1 DEF z
  <2> QED BY <1>4, <2>2, KeepsValue
<1>12. NotCharged(p, q)
  BY <1>4, <1>5, SameDebt
<1> QED BY <1>4, <1>5, <1>7, <1>11, <1>12 DEF q, x

\* A loan of tokens for loan notes that are worth as much.
LEMMA BorrowKeeps ==
  ASSUME NEW p \in MarginPoolType, NEW a, NEW r, r = loan_note_exchange_rate(p),
         r \in Nat \ {0}, Favours(a, r, "Borrow"), CanBorrow(p, a)
  PROVE  LET q == borrowed(p, a)
         IN  /\ q \in MarginPoolType /\ q.accrued_until = p.accrued_until
             /\ q.deposit_tokens = p.deposit_tokens - a.tokens
             /\ q.deposit_notes = p.deposit_notes /\ q.loan_notes = p.loan_notes + a.notes
             /\ q.fees = p.fees /\ total_value(q) = total_value(p)
             /\ NotDiluted(p, q) /\ NotCharged(p, q)
<1> DEFINE q == borrowed(p, a)
           x == a.tokens * ONE
           y == a.notes * r
           d == deposit_note_exchange_rate(p)
<1>1. a.tokens \in Nat /\ a.notes \in Nat /\ x <= y + r \div ONE
  BY DEF Favours
<1>2. x \in Nat /\ y \in Nat /\ p.deposit_tokens * ONE \in Nat /\ p.loan_notes * r \in Nat
  BY <1>1, Fields, MulNat, OneType
<1>3. q = WithAmounts(p, p.borrowed + x, p.fees, p.deposit_tokens - a.tokens,
                      p.deposit_notes, p.loan_notes + a.notes)
  BY Methods
<1> HIDE DEF x
<1>4. q \in MarginPoolType
  <2>1. p.deposit_tokens - a.tokens \in Nat /\ p.borrowed + x \in Nat /\ p.loan_notes + a.notes \in Nat
    BY <1>1, <1>2, Fields DEF CanBorrow
  <2> QED BY <1>3, <2>1 DEF WithAmounts, MarginPoolType
<1>5. /\ q.borrowed = p.borrowed + x /\ q.fees = p.fees /\ q.accrued_until = p.accrued_until
      /\ q.deposit_tokens = p.deposit_tokens - a.tokens /\ q.deposit_notes = p.deposit_notes
      /\ q.loan_notes = p.loan_notes + a.notes
      /\ total_value(q) = p.borrowed + x + (p.deposit_tokens - a.tokens) * ONE
  BY <1>3, WithAmountsValue
<1> HIDE DEF q
<1>6. (p.deposit_tokens - a.tokens) * ONE = p.deposit_tokens * ONE - x
  BY <1>1, Fields, OneType DEF x
<1>7. total_value(q) = total_value(p)
  BY <1>2, <1>5, <1>6, Fields, RatesType
<1>8. q.loan_notes * r = p.loan_notes * r + y
  BY <1>1, <1>5, Fields
<1>9. d \in Int /\ Larger(0, d) \div ONE \in Nat /\ r \div ONE \in Nat
  <2>1. d \in Int
    BY RatesType
  <2>2. Larger(0, d) \in Nat
    BY <2>1 DEF Larger
  <2> QED BY <2>1, <2>2, OneType, DivBounds
<1>10. NotDiluted(p, q)
  <2> HIDE DEF d
  <2>1. p.deposit_notes * d \in Int
    BY <1>9, Fields
  <2>2. q.deposit_notes * d <= p.deposit_notes * d + 0 + Larger(0, d) \div ONE
    BY <1>5, <1>9, <2>1
  <2>3. total_value(q) - q.fees >= (total_value(p) - p.fees) + 0
    BY <1>5, <1>7, Fields, RatesType
  <2> QED BY <1>4, <1>5, <2>2, <2>3, KeepsValue DEF d
<1> HIDE DEF y
<1>11. q.borrowed - q.loan_notes * r <= (p.borrowed - p.loan_notes * r) + r \div ONE
  BY <1>1, <1>2, <1>5, <1>8, <1>9, Fields
<1>12. NotCharged(p, q)
  BY <1>4, <1>11, KeepsDebt
<1> QED BY <1>4, <1>5, <1>7, <1>10, <1>12 DEF q

\* Less debt: what is left of it, and that the tokens taken off it are worth
\* more than the loan notes.
LEMMA DebtReduced ==
  ASSUME NEW p \in MarginPoolType, NEW q \in MarginPoolType, NEW a, NEW r,
         r = loan_note_exchange_rate(p), r \in Nat \ {0}, Favours(a, r, "Repay"),
         q.borrowed = saturating_sub(p.borrowed, a.tokens * ONE),
         q.loan_notes = p.loan_notes - a.notes
  PROVE  p.borrowed - a.tokens * ONE <= q.borrowed /\ NotCharged(p, q)
<1> DEFINE x == a.tokens * ONE
           y == a.notes * r
<1>1. a.tokens \in Nat /\ a.notes \in Nat /\ y <= x
  BY DEF Favours
<1>2. x \in Nat /\ y \in Nat /\ p.loan_notes * r \in Nat /\ r \div ONE \in Nat
  <2>1. x \in Nat /\ y \in Nat /\ p.loan_notes * r \in Nat
    BY <1>1, Fields, MulNat, OneType
  <2> QED BY <2>1, OneType, DivBounds
<1>3. q.loan_notes * r = p.loan_notes * r - y
  BY <1>1, Fields
<1> HIDE DEF x, y
<1>4. q.borrowed = IF p.borrowed >= x THEN p.borrowed - x ELSE 0
  BY DEF saturating_sub, x
<1>5. p.borrowed - x <= q.borrowed
  BY <1>2, <1>4, Fields
<1>6. \/ q.borrowed - q.loan_notes * r <= (p.borrowed - p.loan_notes * r) + r \div ONE
      \/ q.borrowed = 0
  BY <1>1, <1>2, <1>3, <1>4, Fields
<1>7. NotCharged(p, q)
  BY <1>6, KeepsDebt
<1> QED BY <1>5, <1>7 DEF x

\* A repayment with tokens.
LEMMA RepayKeeps ==
  ASSUME NEW p \in MarginPoolType, NEW a, NEW r, r = loan_note_exchange_rate(p),
         r \in Nat \ {0}, Favours(a, r, "Repay"), CanRepay(p, a)
  PROVE  LET q == repaid(p, a)
         IN  /\ q \in MarginPoolType /\ q.accrued_until = p.accrued_until
             /\ q.deposit_tokens = p.deposit_tokens + a.tokens
             /\ q.deposit_notes = p.deposit_notes /\ q.loan_notes = p.loan_notes - a.notes
             /\ total_value(q) >= total_value(p)
             /\ NotDiluted(p, q) /\ NotCharged(p, q)
<1> DEFINE q == repaid(p, a)
           x == a.tokens * ONE
           b == saturating_sub(p.borrowed, x)
           d == deposit_note_exchange_rate(p)
<1>1. a.tokens \in Nat /\ a.notes \in Nat
  BY DEF Favours
<1>2. x \in Nat /\ p.deposit_tokens * ONE \in Nat
  BY <1>1, Fields, MulNat, OneType
<1>3. q = WithAmounts(p, b, p.fees, p.deposit_tokens + a.tokens, p.deposit_notes,
                      p.loan_notes - a.notes)
  BY Methods
<1>4. q \in MarginPoolType
  <2>1. p.deposit_tokens + a.tokens \in Nat /\ p.loan_notes - a.notes \in Nat
    BY <1>1, Fields DEF CanRepay
  <2>2. b \in Nat
    <3> HIDE DEF x
    <3> QED BY <1>2, Fields DEF saturating_sub
  <2> HIDE DEF b
  <2> QED BY <1>3, <2>1, <2>2 DEF WithAmounts, MarginPoolType
<1>5. /\ q.borrowed = b /\ q.fees = p.fees /\ q.accrued_until = p.accrued_until
      /\ q.deposit_tokens = p.deposit_tokens + a.tokens /\ q.deposit_notes = p.deposit_notes
      /\ q.loan_notes = p.loan_notes - a.notes
      /\ total_value(q) = b + (p.deposit_tokens + a.tokens) * ONE
  <2> HIDE DEF b
  <2> QED BY <1>3, WithAmountsValue
<1> HIDE DEF q
<1>6. p.borrowed - x <= b /\ NotCharged(p, q)
  BY <1>4, <1>5, DebtReduced
<1>7. (p.deposit_tokens + a.tokens) * ONE = p.deposit_tokens * ONE + x
  BY <1>1, Fields, OneType
<1>8. q.borrowed \in Nat
  BY <1>4, Fields
<1> HIDE DEF b, x
<1>9. /\ total_value(q) >= total_value(p)
      /\ total_value(q) - q.fees >= (total_value(p) - p.fees) + 0
  BY <1>2, <1>5, <1>6, <1>7, <1>8, Fields, RatesType
<1>10. d \in Int /\ Larger(0, d) \div ONE \in Nat
  <2>1. d \in Int
    BY RatesType
  <2>2. Larger(0, d) \in Nat
    BY <2>1 DEF Larger
  <2> QED BY <2>1, <2>2, OneType, DivBounds
<1>11. NotDiluted(p, q)
  <2> HIDE DEF d
  <2>1. p.deposit_notes * d \in Int
    BY <1>10, Fields
  <2>2. q.deposit_notes * d <= p.deposit_notes * d + 0 + Larger(0, d) \div ONE
    BY <1>5, <1>10, <2>1
  <2> QED BY <1>4, <1>5, <1>9, <2>2, KeepsValue DEF d
<1> QED BY <1>4, <1>5, <1>6, <1>9, <1>11 DEF q

\* A repayment with deposit notes.
LEMMA MarginRepayKeeps ==
  ASSUME NEW p \in MarginPoolType, NEW a, NEW w, NEW r, r = loan_note_exchange_rate(p),
         r \in Nat \ {0}, Favours(a, r, "Repay"), CanRepay(p, a),
         NEW d, d = deposit_note_exchange_rate(p), d \in Nat \ {0},
         Favours(w, d, "Withdraw"), w.tokens = a.tokens, w.notes <= p.deposit_notes
  PROVE  LET q == margin_repaid(p, a, w)
         IN  /\ q \in MarginPoolType /\ q.accrued_until = p.accrued_until
             /\ q.deposit_tokens = p.deposit_tokens
             /\ q.deposit_notes = p.deposit_notes - w.notes
             /\ q.loan_notes = p.loan_notes - a.notes
             /\ total_value(q) >= total_value(p) - a.tokens * ONE
             /\ NotDiluted(p, q) /\ NotCharged(p, q)
<1> DEFINE q == margin_repaid(p, a, w)
           x == a.tokens * ONE
           y == w.notes * d
           b == saturating_sub(p.borrowed, x)
<1>1. a.tokens \in Nat /\ a.notes \in Nat /\ w.notes \in Nat /\ x <= y + d \div ONE
  BY DEF Favours
<1>2. x \in Nat /\ y \in Nat /\ p.deposit_tokens * ONE \in Nat /\ p.deposit_notes * d \in Nat
  BY <1>1, Fields, MulNat, OneType
<1>3. q = WithAmounts(p, b, p.fees, p.deposit_tokens, p.deposit_notes - w.notes,
                      p.loan_notes - a.notes)
  BY Methods
<1>4. q \in MarginPoolType
  <2>1. p.deposit_notes - w.notes \in Nat /\ p.loan_notes - a.notes \in Nat
    BY <1>1, Fields DEF CanRepay
  <2>2. b \in Nat
    <3> HIDE DEF x
    <3> QED BY <1>2, Fields DEF saturating_sub
  <2> HIDE DEF b
  <2> QED BY <1>3, <2>1, <2>2 DEF WithAmounts, MarginPoolType
<1>5. /\ q.borrowed = b /\ q.fees = p.fees /\ q.accrued_until = p.accrued_until
      /\ q.deposit_tokens = p.deposit_tokens /\ q.deposit_notes = p.deposit_notes - w.notes
      /\ q.loan_notes = p.loan_notes - a.notes
      /\ total_value(q) = b + p.deposit_tokens * ONE
  <2> HIDE DEF b
  <2> QED BY <1>3, WithAmountsValue
<1> HIDE DEF q
<1>6. p.borrowed - x <= b /\ NotCharged(p, q)
  BY <1>4, <1>5, DebtReduced
<1>7. q.borrowed \in Nat
  BY <1>4, Fields
<1>8. q.deposit_notes * d = p.deposit_notes * d - y
  BY <1>1, <1>5, Fields
<1>9. Larger(0, d) = d /\ d \div ONE \in Nat
  BY OneType, DivBounds DEF Larger
<1> HIDE DEF b, x, y
<1> DEFINE z == 0 - x
<1>10. /\ z \in Int /\ total_value(q) >= total_value(p) - x
       /\ total_value(q) - q.fees >= (total_value(p) - p.fees) + z
  BY <1>2, <1>5, <1>6, <1>7, Fields, RatesType
<1>11. q.deposit_notes * d <= p.deposit_notes * d + z + Larger(0, d) \div ONE
  BY <1>1, <1>2, <1>8, <1>9
<1> HIDE DEF z
<1>12. NotDiluted(p, q)
  BY <1>4, <1>10, <1>11, KeepsValue
<1> QED BY <1>4, <1>5, <1>6, <1>10, <1>12 DEF q, x

\* A withdrawal worth the whole pool burns every note there is.
LEMMA WithdrawsAll ==
  ASSUME NEW p \in MarginPoolType, NEW w, NEW d, d = deposit_note_exchange_rate(p),
         d \in Nat \ {0}, Favours(w, d, "Withdraw"), w.tokens # 0,
         total_value(p) <= w.tokens * ONE
  PROVE  p.deposit_notes <= w.notes
<1> DEFINE N == p.deposit_notes
           M == Larger(1, N)
           V == deposit_value(p)
           x == w.tokens * ONE
<1>1. w.tokens \in Nat /\ w.notes \in Nat /\ x <= w.notes * d + d \div ONE
  BY DEF Favours
<1>2. x \in Nat /\ ONE <= x
  BY <1>1, OneType, MulNat
<1>3. V <= x /\ V \in Int
  <2>1. total_value(p) \in Nat /\ p.fees \in Nat /\ V \in Int
    BY RatesType, Fields
  <2> HIDE DEF x
  <2>2. total_value(p) <= x
    BY DEF x
  <2> QED BY <1>2, <2>1, <2>2, OneType DEF deposit_value, Larger
<1>4. N \in Nat /\ M \in Nat \ {0} /\ N <= M
  BY Fields DEF Larger
<1>5. d = V \div M
  BY DEF deposit_note_exchange_rate
<1> HIDE DEF V, M, x, N
<1>6. d * M <= V
  BY <1>3, <1>4, <1>5, DivBounds
<1>7. d \div ONE < d /\ d \div ONE \in Nat
  <2> DEFINE h == d \div ONE
  <2>1. h \in Nat /\ h * ONE <= d
    BY OneType, DivBounds
  <2> HIDE DEF h
  <2>2. h + h <= h * ONE
    BY <2>1, OneType
  <2>3. h * ONE \in Nat
    BY <2>1, OneType, MulNat
  <2>4. h < d
    BY <2>1, <2>2, <2>3
  <2> QED BY <2>1, <2>4 DEF h
<1>8. SUFFICES ASSUME w.notes + 1 <= N PROVE FALSE
  BY <1>1, <1>4 DEF N
<1>9. (w.notes + 1) * d <= M * d
  BY <1>1, <1>4, <1>8, MulNat
<1>10. (w.notes + 1) * d = w.notes * d + d /\ M * d = d * M /\ w.notes * d \in Nat /\ d * M \in Nat
  BY <1>1, <1>4, MulNat
<1> QED BY <1>1, <1>2, <1>3, <1>6, <1>7, <1>9, <1>10

\* Fees that become notes.
LEMMA CollectKeeps ==
  ASSUME NEW p \in MarginPoolType, NEW r, r = deposit_note_exchange_rate(p), r \in Nat \ {0}
  PROVE  LET q == collected(p)
         IN  /\ q \in MarginPoolType /\ q.accrued_until = p.accrued_until
             /\ FeeNotes(p) \in Nat
             /\ q.deposit_tokens = p.deposit_tokens
             /\ q.deposit_notes = p.deposit_notes + FeeNotes(p)
             /\ q.loan_notes = p.loan_notes /\ total_value(q) = total_value(p)
             /\ NotDiluted(p, q) /\ NotCharged(p, q)
<1> DEFINE q == collected(p)
           n == FeeNotes(p)
           x == Div(p.fees, r)
           y == Mul(Number(n), r)
<1>1. p.fees * ONE \in Nat /\ p.deposit_notes * r \in Nat /\ p.deposit_tokens * ONE \in Nat
  BY Fields, OneType, MulNat
<1>2. x \in Nat /\ x * r <= p.fees * ONE
  BY <1>1, DivBounds DEF Div
<1>3. n \in Nat /\ n * ONE <= x
  <2>1. n = as_u64(x)
    BY DEF FeeNotes
  <2> HIDE DEF x, n
  <2> QED BY <1>2, <2>1, Rounding
<1> HIDE DEF n, x
<1>4. n * r <= p.fees /\ n * r \in Nat
  <2>1. (n * ONE) * r <= x * r /\ n * ONE \in Nat
    BY <1>2, <1>3, MulNat, OneType
  <2>2. (n * ONE) * r = (n * r) * ONE /\ n * r \in Nat /\ x * r \in Nat
    BY <1>2, <1>3, OneType, MulNat
  <2>3. (n * r) * ONE <= p.fees * ONE
    BY <1>1, <1>2, <2>1, <2>2, OneType
  <2> QED BY <2>2, <2>3, Cancel, Fields, OneType
<1>5. y = n * r
  <2>1. y = ((n * ONE) * r) \div ONE
    BY DEF Mul, Number
  <2> DEFINE m == n * r
  <2>2. (n * ONE) * r = m * ONE
    BY <1>3, OneType
  <2>3. m \in Nat
    BY <1>4
  <2> HIDE DEF m, y
  <2>4. y = (m * ONE) \div ONE
    BY <2>1, <2>2
  <2>5. m * ONE \in Nat
    BY <2>3, MulNat, OneType
  <2>6. y \in Int /\ y * ONE <= m * ONE /\ m * ONE < y * ONE + ONE
    BY <2>4, <2>5, DivBounds, OneType
  <2>7. y <= m
    BY <2>3, <2>6, Cancel, OneType
  <2>8. m < y + 1
    <3> DEFINE k == y + 1
    <3>1. k \in Int /\ k * ONE = y * ONE + ONE
      BY <2>6, OneType
    <3> HIDE DEF k
    <3>2. m < k
      BY <2>3, <2>6, <3>1, Cancel, OneType
    <3> QED BY <3>2 DEF k
  <2> QED BY <2>3, <2>6, <2>7, <2>8 DEF m
<1>6. q = WithAmounts(p, p.borrowed, p.fees - y, p.deposit_tokens, p.deposit_notes + n, p.loan_notes)
  <2>1. collected(p) = WithAmounts(p, p.borrowed, p.fees - Mul(Number(FeeNotes(p)), r),
                                   p.deposit_tokens, p.deposit_notes + FeeNotes(p), p.loan_notes)
    BY Methods
  <2> QED BY <2>1 DEF n
<1> HIDE DEF y
<1>7. q \in MarginPoolType
  <2>1. p.fees - y \in Nat /\ p.deposit_notes + n \in Nat
    BY <1>3, <1>4, <1>5, Fields
  <2> QED BY <1>6, <2>1 DEF WithAmounts, MarginPoolType
<1>8. /\ q.borrowed = p.borrowed /\ q.fees = p.fees - y /\ q.accrued_until = p.accrued_until
      /\ q.deposit_tokens = p.deposit_tokens /\ q.deposit_notes = p.deposit_notes + n
      /\ q.loan_notes = p.loan_notes
      /\ total_value(q) = p.borrowed + p.deposit_tokens * ONE
  BY <1>6, WithAmountsValue
<1> HIDE DEF q
<1>9. /\ y \in Int /\ total_value(q) = total_value(p)
      /\ total_value(q) - q.fees >= (total_value(p) - p.fees) + y
  BY <1>1, <1>4, <1>5, <1>8, Fields, RatesType
<1>10. q.deposit_notes * r = p.deposit_notes * r + y
  BY <1>3, <1>5, <1>8, Fields
<1>11. Larger(0, r) \div ONE \in Nat
  BY OneType, DivBounds DEF Larger
<1>12. q.deposit_notes * r <= p.deposit_notes * r + y + Larger(0, r) \div ONE
  BY <1>1, <1>9, <1>10, <1>11
<1>13. NotDiluted(p, q)
  BY <1>7, <1>9, <1>12, KeepsValue
<1>14. NotCharged(p, q)
  BY <1>7, <1>8, SameDebt
<1> QED BY <1>3, <1>7, <1>8, <1>9, <1>13, <1>14 DEF q, n

-----------------------------------------------------------------------------
(* The instructions                                                        *)

\* The inductive invariant: what a handler computes from the pool's record is
\* typed, the record agrees with the token accounts it moves, and there is value
\* under the notes of the users.
HasValue == (\E u \in Users : deposits[u] > 0) => total_value(pool) > 0

PoolInv == PoolTypeOK /\ LedgerMatchesTokens /\ HasValue

\* What every step keeps.
Kept ==
  /\ PoolInv'
  /\ Exchanges => NotDiluted(Accrued, pool') /\ NotCharged(Accrued, pool')

\* The pool a handler goes on with.
LEMMA AccrueFirstType ==
  ASSUME PoolInv, AccrueFirst, NEW p, p = Accrued
  PROVE  /\ p \in MarginPoolType /\ p.accrued_until <= clock
         /\ p.deposit_tokens = pool.deposit_tokens /\ p.deposit_notes = pool.deposit_notes
         /\ p.loan_notes = pool.loan_notes
         /\ total_value(pool) <= total_value(p)
  BY AccruedType DEF PoolInv, AccrueFirst

\* A step keeps the value under the users' notes when it leaves no notes, when it
\* leaves value, or when it neither takes value nor gives a user notes.
LEMMA ValueKept ==
  ASSUME PoolInv, PoolTypeOK', LedgerMatchesTokens',
         \/ pool'.deposit_notes = 0
         \/ total_value(pool') > 0
         \/ /\ total_value(pool) <= total_value(pool')
            /\ \A w \in Users : deposits'[w] <= deposits[w]
  PROVE  HasValue'
<1> SUFFICES ASSUME NEW u \in Users, deposits'[u] > 0 PROVE total_value(pool') > 0
  BY DEF HasValue
<1>1. CASE pool'.deposit_notes = 0
  <2> DEFINE g == deposits'
  <2>1. /\ IsFiniteSet(Users) /\ fee_notes' \in Nat /\ \A w \in Users : g[w] \in Nat
        /\ 0 = SumOver(g, Users) + fee_notes' /\ g[u] > 0
    BY <1>1, PoolAssumption DEF PoolTypeOK, LedgerMatchesTokens
  <2> HIDE DEF g
  <2>2. g[u] <= SumOver(g, Users) /\ SumOver(g, Users) \in Nat
    BY <2>1, SumCovers, SumNat
  <2>3. g[u] \in Nat /\ fee_notes' \in Nat /\ 0 = SumOver(g, Users) + fee_notes' /\ g[u] > 0
    BY <2>1
  <2>4. \A i, j, k \in Nat : i > 0 /\ i <= j => j + k # 0
    OBVIOUS
  <2> QED BY <2>2, <2>3, <2>4, Zenon
<1>2. CASE /\ total_value(pool) <= total_value(pool')
           /\ \A w \in Users : deposits'[w] <= deposits[w]
  <2>1. deposits[u] \in Nat /\ deposits'[u] \in Nat
    BY DEF PoolInv, PoolTypeOK
  <2>2. deposits[u] > 0
    BY <1>2, <2>1
  <2>3. total_value(pool) > 0
    BY <2>2 DEF PoolInv, HasValue
  <2>4. total_value(pool) \in Nat /\ total_value(pool') \in Nat
    BY RatesType DEF PoolInv, PoolTypeOK
  <2> QED BY <1>2, <2>3, <2>4
<1> QED BY <1>1, <1>2

\* The amount of a handler's change.
LEMMA HandlerAmount ==
  ASSUME NEW p \in MarginPoolType, NEW action \in Actions, NEW kind \in {"ShiftBy", "SetTo"},
         NEW current \in Nat, NEW v \in Nat, ChangeDefined(p, current, kind, v, action)
  PROVE  LET r == exchange_rate(p, action)
         IN  /\ r \in Nat \ {0}
             /\ r = IF action \in {"Deposit", "Withdraw"}
                      THEN deposit_note_exchange_rate(p) ELSE loan_note_exchange_rate(p)
             /\ Favours(calculate_full_amount(p, current, kind, v, action), r, action)
<1>1. exchange_rate(p, action) \in Int
  BY RatesType DEF exchange_rate
<1>2. /\ exchange_rate(p, action) \in Nat \ {0}
      /\ Favours(calculate_full_amount(p, current, kind, v, action),
                 exchange_rate(p, action), action)
  BY <1>1, ChangeFavours
<1> QED BY <1>2 DEF exchange_rate

\* One user's deposit notes become y.
LEMMA DepositsMove ==
  ASSUME PoolInv, NEW u \in Users, NEW y \in Nat, deposits' = [deposits EXCEPT ![u] = y]
  PROVE  /\ deposits' \in [Users -> Nat]
         /\ SumOver(deposits, Users) \in Nat
         /\ SumOver(deposits', Users) = SumOver(deposits, Users) + (y - deposits[u])
<1> DEFINE f == deposits
           g == deposits'
<1>1. f \in [Users -> Nat] /\ IsFiniteSet(Users)
  BY PoolAssumption DEF PoolInv, PoolTypeOK
<1>2. g \in [Users -> Nat] /\ g[u] = y /\ \A v \in Users \ {u} : g[v] = f[v]
  BY <1>1
<1> HIDE DEF f, g
<1>3. SumOver(f, Users) \in Nat /\ SumOver(g, Users) = SumOver(f, Users) + (g[u] - f[u])
  BY <1>1, <1>2, SumExcept
<1> QED BY <1>2, <1>3 DEF f, g

\* The loans are finitely many.
LEMMA LoansType ==
  ASSUME PoolInv
  PROVE  /\ IsFiniteSet(DOMAIN loans) /\ DOMAIN loans \subseteq Users
         /\ loans \in [DOMAIN loans -> Nat]
         /\ SumOver(loans, DOMAIN loans) \in Nat
<1>1. DOMAIN loans \subseteq Users /\ loans \in [DOMAIN loans -> Nat] /\ IsFiniteSet(Users)
  BY PoolAssumption DEF PoolInv, PoolTypeOK
<1>2. IsFiniteSet(DOMAIN loans)
  BY <1>1, FS_Subset
<1> DEFINE S == DOMAIN loans
<1>3. IsFiniteSet(S) /\ \A x \in S : loans[x] \in Nat
  BY <1>1, <1>2
<1> HIDE DEF S
<1>4. SumOver(loans, S) \in Nat
  BY <1>3, SumNat
<1> QED BY <1>1, <1>2, <1>4 DEF S

\* One user's loan notes become y.
LEMMA LoansMove ==
  ASSUME PoolInv, NEW u \in DOMAIN loans, NEW y \in Nat, loans' = [loans EXCEPT ![u] = y]
  PROVE  /\ DOMAIN loans' = DOMAIN loans /\ DOMAIN loans' \subseteq Users
         /\ loans' \in [DOMAIN loans' -> Nat]
         /\ SumOver(loans, DOMAIN loans) \in Nat
         /\ SumOver(loans', DOMAIN loans') = SumOver(loans, DOMAIN loans) + (y - loans[u])
<1> DEFINE S == DOMAIN loans
           f == loans
           g == loans'
<1>1. IsFiniteSet(S) /\ S \subseteq Users /\ f \in [S -> Nat] /\ u \in S
  BY LoansType
<1>2. DOMAIN loans' = S
  OBVIOUS
<1> HIDE DEF S
<1>3. g \in [S -> Nat] /\ g[u] = y /\ \A v \in S \ {u} : g[v] = f[v]
  BY <1>1
<1> HIDE DEF f, g
<1>4. SumOver(f, S) \in Nat /\ SumOver(g, S) = SumOver(f, S) + (g[u] - f[u])
  BY <1>1, <1>3, SumExcept
<1> QED BY <1>1, <1>2, <1>3, <1>4 DEF S, f, g

\* deposit
LEMMA DepositKept ==
  ASSUME PoolInv, NEW u \in Users, NEW kind \in {"ShiftBy", "SetTo"}, NEW v \in Nat,
         deposit(u, kind, v)
  PROVE  Kept
<1> DEFINE p == Accrued
           a == calculate_full_amount(p, deposits[u], kind, v, "Deposit")
           q == deposited(p, a)
           y == deposits[u] + a.notes
<1>1. /\ AccrueFirst /\ ChangeDefined(p, deposits[u], kind, v, "Deposit")
      /\ ValidAmount(a)
      /\ pool' = q /\ vault' = vault + a.tokens /\ deposits' = [deposits EXCEPT ![u] = y]
      /\ loans' = loans /\ fee_notes' = fee_notes /\ clock' = clock
  BY DEF deposit
<1>2. deposits[u] \in Nat
  BY DEF PoolInv, PoolTypeOK
<1>3. /\ p \in MarginPoolType /\ p.accrued_until <= clock
      /\ p.deposit_tokens = pool.deposit_tokens /\ p.deposit_notes = pool.deposit_notes
      /\ p.loan_notes = pool.loan_notes /\ total_value(pool) <= total_value(p)
  BY <1>1, AccrueFirstType
<1> HIDE DEF p
<1> DEFINE r == exchange_rate(p, "Deposit")
<1>4. r \in Nat \ {0} /\ r = deposit_note_exchange_rate(p) /\ Favours(a, r, "Deposit")
  BY <1>1, <1>2, <1>3, HandlerAmount DEF Actions
<1>5. a.tokens \in Nat /\ a.notes \in Nat
  BY <1>4 DEF Favours
<1> HIDE DEF a, r
<1>6. /\ q \in MarginPoolType /\ q.accrued_until = p.accrued_until
      /\ q.deposit_tokens = p.deposit_tokens + a.tokens
      /\ q.deposit_notes = p.deposit_notes + a.notes
      /\ q.loan_notes = p.loan_notes /\ total_value(q) = total_value(p) + a.tokens * ONE
      /\ NotDiluted(p, q) /\ NotCharged(p, q)
  BY <1>3, <1>4, DepositKeeps
<1>7. y \in Nat /\ y - deposits[u] = a.notes
  BY <1>2, <1>5
<1> HIDE DEF q, y
<1>8. /\ deposits' \in [Users -> Nat] /\ SumOver(deposits, Users) \in Nat
      /\ SumOver(deposits', Users) = SumOver(deposits, Users) + a.notes
  BY <1>1, <1>7, DepositsMove
<1>9. PoolTypeOK'
  BY <1>1, <1>3, <1>5, <1>6, <1>8 DEF PoolInv, PoolTypeOK
<1>10. LedgerMatchesTokens'
  BY <1>1, <1>3, <1>5, <1>6, <1>8 DEF PoolInv, PoolTypeOK, LedgerMatchesTokens
<1>11. HasValue'
  <2>1. total_value(pool) \in Nat /\ total_value(p) \in Nat
    BY <1>3, RatesType DEF PoolInv, PoolTypeOK
  <2>2. CASE a.tokens = 0
    <3>1. total_value(q) = total_value(p) + 0 /\ a.notes = 0
      BY <1>1, <1>6, <2>2, OneType DEF ValidAmount
    <3>2. total_value(pool) <= total_value(pool') /\ \A w \in Users : deposits'[w] <= deposits[w]
      BY <1>1, <1>2, <1>3, <2>1, <3>1 DEF PoolInv, PoolTypeOK, y
    <3> QED BY <1>9, <1>10, <3>2, ValueKept
  <2>3. CASE a.tokens # 0
    <3>1. a.tokens * ONE \in Nat /\ a.tokens * ONE > 0
      BY <1>5, <2>3, OneType, MulNat
    <3>2. total_value(pool') > 0
      BY <1>1, <1>6, <2>1, <3>1
    <3> QED BY <1>9, <1>10, <3>2, ValueKept
  <2> QED BY <2>2, <2>3
<1> QED BY <1>1, <1>6, <1>9, <1>10, <1>11 DEF Kept, PoolInv, p

\* withdraw
LEMMA WithdrawKept ==
  ASSUME PoolInv, NEW u \in Users, NEW kind \in {"ShiftBy", "SetTo"}, NEW v \in Nat,
         withdraw(u, kind, v)
  PROVE  Kept
<1> DEFINE p == Accrued
           a == calculate_full_amount(p, deposits[u], kind, v, "Withdraw")
           q == withdrawn(p, a)
           y == deposits[u] - a.notes
<1>1. /\ AccrueFirst /\ ChangeDefined(p, deposits[u], kind, v, "Withdraw")
      /\ ValidAmount(a) /\ CanWithdraw(p, a) /\ a.tokens <= vault /\ a.notes <= deposits[u]
      /\ pool' = q /\ vault' = vault - a.tokens /\ deposits' = [deposits EXCEPT ![u] = y]
      /\ loans' = loans /\ fee_notes' = fee_notes /\ clock' = clock
  BY DEF withdraw
<1>2. deposits[u] \in Nat /\ vault \in Nat
  BY DEF PoolInv, PoolTypeOK
<1>3. /\ p \in MarginPoolType /\ p.accrued_until <= clock
      /\ p.deposit_tokens = pool.deposit_tokens /\ p.deposit_notes = pool.deposit_notes
      /\ p.loan_notes = pool.loan_notes /\ total_value(pool) <= total_value(p)
  BY <1>1, AccrueFirstType
<1> HIDE DEF p
<1> DEFINE r == exchange_rate(p, "Withdraw")
<1>4. r \in Nat \ {0} /\ r = deposit_note_exchange_rate(p) /\ Favours(a, r, "Withdraw")
  BY <1>1, <1>2, <1>3, HandlerAmount DEF Actions
<1>5. a.tokens \in Nat /\ a.notes \in Nat
  BY <1>4 DEF Favours
<1> HIDE DEF a, r
<1>6. /\ q \in MarginPoolType /\ q.accrued_until = p.accrued_until
      /\ q.deposit_tokens = p.deposit_tokens - a.tokens
      /\ q.deposit_notes = p.deposit_notes - a.notes
      /\ q.loan_notes = p.loan_notes /\ total_value(q) = total_value(p) - a.tokens * ONE
      /\ NotDiluted(p, q) /\ NotCharged(p, q)
  BY <1>1, <1>3, <1>4, WithdrawKeeps
<1>7. y \in Nat /\ y - deposits[u] = 0 - a.notes /\ vault - a.tokens \in Nat
  BY <1>1, <1>2, <1>5
<1> HIDE DEF q, y
<1>8. /\ deposits' \in [Users -> Nat] /\ SumOver(deposits, Users) \in Nat
      /\ SumOver(deposits', Users) = SumOver(deposits, Users) + (0 - a.notes)
  BY <1>1, <1>7, DepositsMove
<1>9. PoolTypeOK'
  BY <1>1, <1>3, <1>6, <1>7, <1>8 DEF PoolInv, PoolTypeOK
<1>10. LedgerMatchesTokens'
  BY <1>1, <1>2, <1>3, <1>5, <1>6, <1>8 DEF PoolInv, PoolTypeOK, LedgerMatchesTokens
<1>11. HasValue'
  <2>1. /\ total_value(pool) \in Nat /\ total_value(p) \in Nat /\ total_value(q) \in Nat
        /\ a.tokens * ONE \in Nat
    BY <1>3, <1>5, <1>6, RatesType, OneType, MulNat DEF PoolInv, PoolTypeOK
  <2>2. CASE a.tokens = 0
    <3>1. total_value(q) = total_value(p) - 0 /\ a.notes = 0
      BY <1>1, <1>6, <2>2, OneType DEF ValidAmount
    <3>2. total_value(pool) <= total_value(pool') /\ \A w \in Users : deposits'[w] <= deposits[w]
      BY <1>1, <1>2, <1>3, <2>1, <3>1 DEF PoolInv, PoolTypeOK, y
    <3> QED BY <1>9, <1>10, <3>2, ValueKept
  <2>3. CASE a.tokens # 0 /\ total_value(q) > 0
    BY <1>1, <1>9, <1>10, <2>3, ValueKept
  <2>4. CASE a.tokens # 0 /\ ~ (total_value(q) > 0)
    <3>1. total_value(p) <= a.tokens * ONE
      BY <1>6, <2>1, <2>4
    <3>2. p.deposit_notes <= a.notes
      BY <1>3, <1>4, <2>4, <3>1, WithdrawsAll
    <3>3. pool'.deposit_notes = 0
      BY <1>1, <1>3, <1>5, <1>6, <3>2 DEF CanWithdraw, MarginPoolType
    <3> QED BY <1>9, <1>10, <3>3, ValueKept
  <2> QED BY <2>2, <2>3, <2>4
<1> QED BY <1>1, <1>6, <1>9, <1>10, <1>11 DEF Kept, PoolInv, p

\* margin_borrow_v2
LEMMA MarginBorrowV2Kept ==
  ASSUME PoolInv, NEW u \in Users, NEW v \in Nat, margin_borrow_v2(u, v)
  PROVE  Kept
<1> DEFINE p == Accrued
           a == calculate_full_amount(p, loans[u], "ShiftBy", v, "Borrow")
           q == borrowed(p, a)
           y == loans[u] + a.notes
<1>1. /\ u \in DOMAIN loans
      /\ AccrueFirst /\ ChangeDefined(p, loans[u], "ShiftBy", v, "Borrow")
      /\ CanBorrow(p, a) /\ a.tokens <= vault
      /\ pool' = q /\ vault' = vault - a.tokens /\ loans' = [loans EXCEPT ![u] = y]
      /\ deposits' = deposits /\ fee_notes' = fee_notes /\ clock' = clock
  BY DEF margin_borrow_v2
<1>2. loans[u] \in Nat /\ vault \in Nat
  BY <1>1 DEF PoolInv, PoolTypeOK
<1>3. /\ p \in MarginPoolType /\ p.accrued_until <= clock
      /\ p.deposit_tokens = pool.deposit_tokens /\ p.deposit_notes = pool.deposit_notes
      /\ p.loan_notes = pool.loan_notes /\ total_value(pool) <= total_value(p)
  BY <1>1, AccrueFirstType
<1> HIDE DEF p
<1> DEFINE r == exchange_rate(p, "Borrow")
<1>4. r \in Nat \ {0} /\ r = loan_note_exchange_rate(p) /\ Favours(a, r, "Borrow")
  BY <1>1, <1>2, <1>3, HandlerAmount DEF Actions
<1>5. a.tokens \in Nat /\ a.notes \in Nat
  BY <1>4 DEF Favours
<1> HIDE DEF a, r
<1>6. /\ q \in MarginPoolType /\ q.accrued_until = p.accrued_until
      /\ q.deposit_tokens = p.deposit_tokens - a.tokens
      /\ q.deposit_notes = p.deposit_notes
      /\ q.loan_notes = p.loan_notes + a.notes /\ total_value(q) = total_value(p)
      /\ NotDiluted(p, q) /\ NotCharged(p, q)
  BY <1>1, <1>3, <1>4, BorrowKeeps
<1>7. y \in Nat /\ y - loans[u] = a.notes /\ vault - a.tokens \in Nat
  BY <1>1, <1>2, <1>5
<1> HIDE DEF q, y
<1>8. /\ DOMAIN loans' \subseteq Users /\ loans' \in [DOMAIN loans' -> Nat]
      /\ SumOver(loans, DOMAIN loans) \in Nat
      /\ SumOver(loans', DOMAIN loans') = SumOver(loans, DOMAIN loans) + a.notes
  BY <1>1, <1>7, LoansMove
<1>9. PoolTypeOK'
  BY <1>1, <1>3, <1>6, <1>7, <1>8 DEF PoolInv, PoolTypeOK
<1>10. LedgerMatchesTokens'
  BY <1>1, <1>2, <1>3, <1>5, <1>6, <1>8 DEF PoolInv, PoolTypeOK, LedgerMatchesTokens
<1>11. HasValue'
  <2>1. /\ total_value(pool) \in Nat /\ total_value(p) \in Nat /\ total_value(q) \in Nat
    BY <1>3, <1>6, RatesType DEF PoolInv, PoolTypeOK
  <2>2. total_value(pool) <= total_value(pool') /\ \A w \in Users : deposits'[w] <= deposits[w]
    BY <1>1, <1>3, <1>6, <2>1 DEF PoolInv, PoolTypeOK
  <2> QED BY <1>9, <1>10, <2>2, ValueKept
<1> QED BY <1>1, <1>6, <1>9, <1>10, <1>11 DEF Kept, PoolInv, p

\* repay
LEMMA RepayKept ==
  ASSUME PoolInv, NEW u \in Users, NEW kind \in {"ShiftBy", "SetTo"}, NEW v \in Nat,
         repay(u, kind, v)
  PROVE  Kept
<1> DEFINE p == Accrued
           a == calculate_full_amount(p, loans[u], kind, v, "Repay")
           q == repaid(p, a)
           y == loans[u] - a.notes
<1>1. /\ u \in DOMAIN loans
      /\ AccrueFirst /\ ChangeDefined(p, loans[u], kind, v, "Repay")
      /\ CanRepay(p, a) /\ a.notes <= loans[u]
      /\ pool' = q /\ vault' = vault + a.tokens /\ loans' = [loans EXCEPT ![u] = y]
      /\ deposits' = deposits /\ fee_notes' = fee_notes /\ clock' = clock
  BY DEF repay
<1>2. loans[u] \in Nat /\ vault \in Nat
  BY <1>1 DEF PoolInv, PoolTypeOK
<1>3. /\ p \in MarginPoolType /\ p.accrued_until <= clock
      /\ p.deposit_tokens = pool.deposit_tokens /\ p.deposit_notes = pool.deposit_notes
      /\ p.loan_notes = pool.loan_notes /\ total_value(pool) <= total_value(p)
  BY <1>1, AccrueFirstType
<1> HIDE DEF p
<1> DEFINE r == exchange_rate(p, "Repay")
<1>4. r \in Nat \ {0} /\ r = loan_note_exchange_rate(p) /\ Favours(a, r, "Repay")
  BY <1>1, <1>2, <1>3, HandlerAmount DEF Actions
<1>5. a.tokens \in Nat /\ a.notes \in Nat
  BY <1>4 DEF Favours
<1> HIDE DEF a, r
<1>6. /\ q \in MarginPoolType /\ q.accrued_until = p.accrued_until
      /\ q.deposit_tokens = p.deposit_tokens + a.tokens
      /\ q.deposit_notes = p.deposit_notes
      /\ q.loan_notes = p.loan_notes - a.notes /\ total_value(q) >= total_value(p)
      /\ NotDiluted(p, q) /\ NotCharged(p, q)
  BY <1>1, <1>3, <1>4, RepayKeeps
<1>7. y \in Nat /\ y - loans[u] = 0 - a.notes /\ vault + a.tokens \in Nat
  BY <1>1, <1>2, <1>5
<1> HIDE DEF q, y
<1>8. /\ DOMAIN loans' \subseteq Users /\ loans' \in [DOMAIN loans' -> Nat]
      /\ SumOver(loans, DOMAIN loans) \in Nat
      /\ SumOver(loans', DOMAIN loans') = SumOver(loans, DOMAIN loans) + (0 - a.notes)
  BY <1>1, <1>7, LoansMove
<1>9. PoolTypeOK'
  BY <1>1, <1>3, <1>6, <1>7, <1>8 DEF PoolInv, PoolTypeOK
<1>10. LedgerMatchesTokens'
  BY <1>1, <1>2, <1>3, <1>5, <1>6, <1>8 DEF PoolInv, PoolTypeOK, LedgerMatchesTokens
<1>11. HasValue'
  <2>1. /\ total_value(pool) \in Nat /\ total_value(p) \in Nat /\ total_value(q) \in Nat
    BY <1>3, <1>6, RatesType DEF PoolInv, PoolTypeOK
  <2>2. total_value(pool) <= total_value(pool') /\ \A w \in Users : deposits'[w] <= deposits[w]
    BY <1>1, <1>3, <1>6, <2>1 DEF PoolInv, PoolTypeOK
  <2> QED BY <1>9, <1>10, <2>2, ValueKept
<1> QED BY <1>1, <1>6, <1>9, <1>10, <1>11 DEF Kept, PoolInv, p

\* margin_borrow: the loan and then the deposit of what was lent, at the rate the
\* loan has left as it was.
LEMMA MarginBorrowKept ==
  ASSUME PoolInv, NEW u \in Users, NEW kind \in {"ShiftBy", "SetTo"}, NEW v \in Nat,
         margin_borrow(u, kind, v)
  PROVE  Kept
<1> DEFINE p == Accrued
           a == calculate_full_amount(p, loans[u], kind, v, "Borrow")
           lent == borrowed(p, a)
           d == convert(lent, "Tokens", a.tokens, "Deposit")
           q == deposited(lent, d)
           y == loans[u] + a.notes
           z == deposits[u] + d.notes
<1>1. /\ u \in DOMAIN loans
      /\ AccrueFirst /\ ChangeDefined(p, loans[u], kind, v, "Borrow")
      /\ CanBorrow(p, a) /\ exchange_rate(lent, "Deposit") > 0 /\ ValidAmount(d)
      /\ pool' = q /\ vault' = vault /\ loans' = [loans EXCEPT ![u] = y]
      /\ deposits' = [deposits EXCEPT ![u] = z] /\ fee_notes' = fee_notes /\ clock' = clock
  BY DEF margin_borrow
<1>2. loans[u] \in Nat /\ deposits[u] \in Nat /\ vault \in Nat
  BY <1>1 DEF PoolInv, PoolTypeOK
<1>3. /\ p \in MarginPoolType /\ p.accrued_until <= clock
      /\ p.deposit_tokens = pool.deposit_tokens /\ p.deposit_notes = pool.deposit_notes
      /\ p.loan_notes = pool.loan_notes /\ total_value(pool) <= total_value(p)
  BY <1>1, AccrueFirstType
<1> HIDE DEF p
<1> DEFINE r == exchange_rate(p, "Borrow")
<1>4. r \in Nat \ {0} /\ r = loan_note_exchange_rate(p) /\ Favours(a, r, "Borrow")
  BY <1>1, <1>2, <1>3, HandlerAmount DEF Actions
<1>5. a.tokens \in Nat /\ a.notes \in Nat
  BY <1>4 DEF Favours
<1> HIDE DEF a, r
<1>6. /\ lent \in MarginPoolType /\ lent.accrued_until = p.accrued_until
      /\ lent.deposit_tokens = p.deposit_tokens - a.tokens
      /\ lent.deposit_notes = p.deposit_notes
      /\ lent.loan_notes = p.loan_notes + a.notes
      /\ lent.fees = p.fees /\ total_value(lent) = total_value(p)
      /\ NotCharged(p, lent)
  BY <1>1, <1>3, <1>4, BorrowKeeps
<1> HIDE DEF lent
<1> DEFINE s == deposit_note_exchange_rate(lent)
<1>7. s = deposit_note_exchange_rate(p) /\ s = exchange_rate(lent, "Deposit")
  BY <1>6 DEF deposit_note_exchange_rate, deposit_value, exchange_rate
<1>8. s \in Nat \ {0}
  BY <1>1, <1>6, <1>7, RatesType
<1> HIDE DEF s
<1>9. Favours(d, s, "Deposit")
  BY <1>5, <1>7, <1>8, ConvertFavours DEF Actions
<1>10. d.tokens = a.tokens /\ d.notes \in Nat
  BY <1>9 DEF convert, Favours
<1> HIDE DEF d
<1>11. /\ q \in MarginPoolType /\ q.accrued_until = lent.accrued_until
       /\ q.deposit_tokens = lent.deposit_tokens + d.tokens
       /\ q.deposit_notes = lent.deposit_notes + d.notes
       /\ q.loan_notes = lent.loan_notes /\ q.borrowed = lent.borrowed
       /\ total_value(q) = total_value(lent) + d.tokens * ONE
       /\ NotDiluted(lent, q)
  BY <1>6, <1>8, <1>9, DepositKeeps DEF s
<1>12. y \in Nat /\ y - loans[u] = a.notes /\ z \in Nat /\ z - deposits[u] = d.notes
  BY <1>2, <1>5, <1>10
<1> HIDE DEF q, y, z
<1>13. NotDiluted(p, q)
  BY <1>6, <1>7, <1>11 DEF NotDiluted, s
<1>14. NotCharged(p, q)
  BY <1>6, <1>11 DEF NotCharged, Unnoted
<1>15. /\ DOMAIN loans' \subseteq Users /\ loans' \in [DOMAIN loans' -> Nat]
       /\ SumOver(loans, DOMAIN loans) \in Nat
       /\ SumOver(loans', DOMAIN loans') = SumOver(loans, DOMAIN loans) + a.notes
  BY <1>1, <1>12, LoansMove
<1>16. /\ deposits' \in [Users -> Nat] /\ SumOver(deposits, Users) \in Nat
       /\ SumOver(deposits', Users) = SumOver(deposits, Users) + d.notes
  BY <1>1, <1>12, DepositsMove
<1>17. PoolTypeOK'
  BY <1>1, <1>3, <1>6, <1>11, <1>15, <1>16 DEF PoolInv, PoolTypeOK
<1>18. LedgerMatchesTokens'
  <2>1. q.deposit_tokens = p.deposit_tokens
    BY <1>3, <1>5, <1>6, <1>10, <1>11, Fields
  <2>2. p.deposit_notes \in Nat /\ p.loan_notes \in Nat
    BY <1>3, Fields
  <2> QED BY <1>1, <1>2, <1>3, <1>5, <1>6, <1>10, <1>11, <1>15, <1>16, <2>1, <2>2
          DEF PoolInv, PoolTypeOK, LedgerMatchesTokens
<1>19. HasValue'
  <2>1. total_value(pool) \in Nat /\ total_value(p) \in Nat
    BY <1>3, RatesType DEF PoolInv, PoolTypeOK
  <2>2. CASE d.tokens = 0
    <3>1. total_value(q) = total_value(p) + 0 /\ d.notes = 0
      BY <1>1, <1>6, <1>11, <2>2, OneType DEF ValidAmount
    <3>2. total_value(pool) <= total_value(pool') /\ \A w \in Users : deposits'[w] <= deposits[w]
      BY <1>1, <1>2, <1>3, <2>1, <3>1 DEF PoolInv, PoolTypeOK, z
    <3> QED BY <1>17, <1>18, <3>2, ValueKept
  <2>3. CASE d.tokens # 0
    <3>1. d.tokens * ONE \in Nat /\ d.tokens * ONE > 0
      BY <1>5, <1>10, <2>3, OneType, MulNat
    <3>2. total_value(pool') > 0
      BY <1>1, <1>6, <1>11, <2>1, <3>1
    <3> QED BY <1>17, <1>18, <3>2, ValueKept
  <2> QED BY <2>2, <2>3
<1> QED BY <1>1, <1>13, <1>14, <1>17, <1>18, <1>19 DEF Kept, PoolInv, p

\* margin_repay
LEMMA MarginRepayKept ==
  ASSUME PoolInv, NEW payer \in Users, NEW u \in Users, NEW kind \in {"ShiftBy", "SetTo"},
         NEW v \in Nat, margin_repay(payer, u, kind, v)
  PROVE  Kept
<1> DEFINE p == Accrued
           a == calculate_full_amount(p, loans[u], kind, v, "Repay")
           w == convert(p, "Tokens", a.tokens, "Withdraw")
           q == margin_repaid(p, a, w)
           y == loans[u] - a.notes
           z == deposits[payer] - w.notes
<1>1. /\ u \in DOMAIN loans
      /\ AccrueFirst /\ ChangeDefined(p, loans[u], kind, v, "Repay")
      /\ exchange_rate(p, "Withdraw") > 0 /\ ValidAmount(w) /\ w.notes <= p.deposit_notes
      /\ CanRepay(p, a) /\ a.notes <= loans[u] /\ w.notes <= deposits[payer]
      /\ pool' = q /\ vault' = vault /\ loans' = [loans EXCEPT ![u] = y]
      /\ deposits' = [deposits EXCEPT ![payer] = z] /\ fee_notes' = fee_notes /\ clock' = clock
  BY DEF margin_repay
<1>2. loans[u] \in Nat /\ deposits[payer] \in Nat /\ vault \in Nat
  BY <1>1 DEF PoolInv, PoolTypeOK
<1>3. /\ p \in MarginPoolType /\ p.accrued_until <= clock
      /\ p.deposit_tokens = pool.deposit_tokens /\ p.deposit_notes = pool.deposit_notes
      /\ p.loan_notes = pool.loan_notes /\ total_value(pool) <= total_value(p)
  BY <1>1, AccrueFirstType
<1> HIDE DEF p
<1> DEFINE r == exchange_rate(p, "Repay")
           s == exchange_rate(p, "Withdraw")
<1>4. r \in Nat \ {0} /\ r = loan_note_exchange_rate(p) /\ Favours(a, r, "Repay")
  BY <1>1, <1>2, <1>3, HandlerAmount DEF Actions
<1>5. a.tokens \in Nat /\ a.notes \in Nat
  BY <1>4 DEF Favours
<1> HIDE DEF a, r
<1>6. s \in Nat \ {0} /\ s = deposit_note_exchange_rate(p)
  BY <1>1, <1>3, RatesType DEF exchange_rate
<1>7. Favours(w, s, "Withdraw")
  BY <1>5, <1>6, ConvertFavours DEF Actions
<1>8. w.tokens = a.tokens /\ w.notes \in Nat
  BY <1>7 DEF convert, Favours
<1> HIDE DEF w, s
<1>9. /\ q \in MarginPoolType /\ q.accrued_until = p.accrued_until
      /\ q.deposit_tokens = p.deposit_tokens
      /\ q.deposit_notes = p.deposit_notes - w.notes
      /\ q.loan_notes = p.loan_notes - a.notes
      /\ total_value(q) >= total_value(p) - a.tokens * ONE
      /\ NotDiluted(p, q) /\ NotCharged(p, q)
  BY <1>1, <1>3, <1>4, <1>6, <1>7, <1>8, MarginRepayKeeps
<1>10. /\ y \in Nat /\ y - loans[u] = 0 - a.notes
       /\ z \in Nat /\ z - deposits[payer] = 0 - w.notes
  BY <1>1, <1>2, <1>5, <1>8
<1> HIDE DEF q, y, z
<1>11. /\ DOMAIN loans' \subseteq Users /\ loans' \in [DOMAIN loans' -> Nat]
       /\ SumOver(loans, DOMAIN loans) \in Nat
       /\ SumOver(loans', DOMAIN loans') = SumOver(loans, DOMAIN loans) + (0 - a.notes)
  BY <1>1, <1>10, LoansMove
<1>12. /\ deposits' \in [Users -> Nat] /\ SumOver(deposits, Users) \in Nat
       /\ SumOver(deposits', Users) = SumOver(deposits, Users) + (0 - w.notes)
  BY <1>1, <1>10, DepositsMove
<1>13. PoolTypeOK'
  BY <1>1, <1>3, <1>9, <1>11, <1>12 DEF PoolInv, PoolTypeOK
<1>14. LedgerMatchesTokens'
  BY <1>1, <1>2, <1>3, <1>5, <1>8, <1>9, <1>11, <1>12 DEF PoolInv, PoolTypeOK, LedgerMatchesTokens
<1>15. HasValue'
  <2>1. /\ total_value(pool) \in Nat /\ total_value(p) \in Nat /\ total_value(q) \in Nat
        /\ a.tokens * ONE \in Nat
    BY <1>3, <1>5, <1>9, RatesType, OneType, MulNat DEF PoolInv, PoolTypeOK
  <2>2. CASE a.tokens = 0
    <3>1. total_value(q) >= total_value(p) - 0 /\ w.notes = 0
      BY <1>1, <1>8, <1>9, <2>2, OneType DEF ValidAmount
    <3>2. total_value(pool) <= total_value(pool') /\ \A x \in Users : deposits'[x] <= deposits[x]
      BY <1>1, <1>2, <1>3, <2>1, <3>1 DEF PoolInv, PoolTypeOK, z
    <3> QED BY <1>13, <1>14, <3>2, ValueKept
  <2>3. CASE a.tokens # 0 /\ total_value(q) > 0
    BY <1>1, <1>13, <1>14, <2>3, ValueKept
  <2>4. CASE a.tokens # 0 /\ ~ (total_value(q) > 0)
    <3>1. total_value(p) <= w.tokens * ONE /\ w.tokens # 0
      BY <1>8, <1>9, <2>1, <2>4
    <3>2. p.deposit_notes <= w.notes
      BY <1>3, <1>6, <1>7, <3>1, WithdrawsAll
    <3>3. pool'.deposit_notes = 0
      BY <1>1, <1>3, <1>8, <1>9, <3>2 DEF MarginPoolType
    <3> QED BY <1>13, <1>14, <3>3, ValueKept
  <2> QED BY <2>2, <2>3, <2>4
<1> QED BY <1>1, <1>9, <1>13, <1>14, <1>15 DEF Kept, PoolInv, p

\* collect
LEMMA CollectKept ==
  ASSUME PoolInv, collect
  PROVE  Kept
<1> DEFINE p == Accrued
           q == collected(p)
           n == FeeNotes(p)
<1>1. /\ AccrualDefined(pool)
      /\ vault' = vault /\ deposits' = deposits /\ loans' = loans /\ clock' = clock
      /\ \/ pool' = p /\ fee_notes' = fee_notes
         \/ pool' = q /\ fee_notes' = fee_notes + n /\ exchange_rate(p, "Deposit") > 0
  BY DEF collect
<1>2. /\ p \in MarginPoolType /\ p.accrued_until <= clock
      /\ p.deposit_tokens = pool.deposit_tokens /\ p.deposit_notes = pool.deposit_notes
      /\ p.loan_notes = pool.loan_notes /\ total_value(pool) <= total_value(p)
  BY <1>1, AccruedType DEF PoolInv
<1> HIDE DEF p
<1>3. fee_notes \in Nat /\ SumOver(deposits, Users) \in Nat
  <2> DEFINE f == deposits
  <2>1. IsFiniteSet(Users) /\ fee_notes \in Nat /\ \A x \in Users : f[x] \in Nat
    BY PoolAssumption DEF PoolInv, PoolTypeOK
  <2> HIDE DEF f
  <2>2. SumOver(f, Users) \in Nat
    BY <2>1, SumNat
  <2> QED BY <2>1, <2>2 DEF f
<1>4. CASE pool' = p /\ fee_notes' = fee_notes
  <2>1. PoolTypeOK'
    BY <1>1, <1>2, <1>4 DEF PoolInv, PoolTypeOK
  <2>2. LedgerMatchesTokens' /\ ~ Exchanges
    BY <1>1, <1>2, <1>4 DEF PoolInv, LedgerMatchesTokens, Exchanges
  <2>3. \A w \in Users : deposits'[w] <= deposits[w]
    BY <1>1 DEF PoolInv, PoolTypeOK
  <2>4. HasValue'
    BY <1>2, <1>4, <2>1, <2>2, <2>3, ValueKept
  <2> QED BY <2>1, <2>2, <2>4 DEF Kept, PoolInv
<1>5. CASE pool' = q /\ fee_notes' = fee_notes + n /\ exchange_rate(p, "Deposit") > 0
  <2> DEFINE r == deposit_note_exchange_rate(p)
  <2>1. r \in Nat \ {0}
    BY <1>2, <1>5, RatesType DEF exchange_rate
  <2> HIDE DEF r
  <2>2. /\ q \in MarginPoolType /\ q.accrued_until = p.accrued_until
        /\ n \in Nat
        /\ q.deposit_tokens = p.deposit_tokens
        /\ q.deposit_notes = p.deposit_notes + n
        /\ q.loan_notes = p.loan_notes /\ total_value(q) = total_value(p)
        /\ NotDiluted(p, q) /\ NotCharged(p, q)
    BY <1>2, <2>1, CollectKeeps DEF r
  <2> HIDE DEF q, n
  <2>3. PoolTypeOK'
    BY <1>1, <1>2, <1>5, <2>2 DEF PoolInv, PoolTypeOK
  <2>4. LedgerMatchesTokens'
    BY <1>1, <1>2, <1>3, <1>5, <2>2 DEF PoolInv, LedgerMatchesTokens
  <2>5. \A w \in Users : deposits'[w] <= deposits[w]
    BY <1>1 DEF PoolInv, PoolTypeOK
  <2>6. HasValue'
    BY <1>2, <1>5, <2>2, <2>3, <2>4, <2>5, ValueKept
  <2> QED BY <1>5, <2>2, <2>3, <2>4, <2>6 DEF Kept, PoolInv, p
<1> QED BY <1>1, <1>4, <1>5

\* Steps that leave the pool's amounts alone: it is enough that the ledger of
\* loans stays right.
LEMMA LoansKept ==
  ASSUME PoolInv, UNCHANGED <<pool, vault, deposits, fee_notes, clock>>,
         DOMAIN loans' \subseteq Users, loans' \in [DOMAIN loans' -> Nat],
         SumOver(loans', DOMAIN loans') = SumOver(loans, DOMAIN loans)
  PROVE  Kept
<1>1. PoolTypeOK'
  BY DEF PoolInv, PoolTypeOK
<1>2. LedgerMatchesTokens' /\ ~ Exchanges
  BY DEF PoolInv, LedgerMatchesTokens, Exchanges
<1>3. HasValue'
  BY DEF PoolInv, HasValue
<1> QED BY <1>1, <1>2, <1>3 DEF Kept, PoolInv

\* register_loan
LEMMA RegisterKept ==
  ASSUME PoolInv, NEW u \in Users, register_loan(u)
  PROVE  Kept
<1> DEFINE S == DOMAIN loans
           f == loans
           g == loans'
<1>1. IsFiniteSet(S) /\ S \subseteq Users /\ f \in [S -> Nat] /\ SumOver(f, S) \in Nat
  BY LoansType
<1>2. /\ u \notin S /\ g = [v \in S \cup {u} |-> IF v = u THEN 0 ELSE f[v]]
      /\ UNCHANGED <<pool, vault, deposits, fee_notes, clock>>
  BY DEF register_loan
<1> HIDE DEF S, f, g
<1>3. /\ DOMAIN g = S \cup {u} /\ g \in [S \cup {u} -> Nat] /\ g[u] = 0
      /\ \A v \in S : g[v] = f[v]
  BY <1>1, <1>2
<1>4. SumOver(g, S \cup {u}) = SumOver(g, S) + g[u]
  <2>1. \A v \in S \cup {u} : g[v] \in Int
    BY <1>3
  <2> QED BY <1>1, <1>2, <2>1, SumAdd
<1>5. SumOver(g, S) = SumOver(f, S)
  BY <1>1, <1>3, SumSame
<1>6. SumOver(g, DOMAIN g) = SumOver(f, S) /\ DOMAIN g \subseteq Users /\ g \in [DOMAIN g -> Nat]
  BY <1>1, <1>3, <1>4, <1>5
<1> QED BY <1>2, <1>6, LoansKept DEF S, f, g

\* close_loan
LEMMA CloseKept ==
  ASSUME PoolInv, NEW u \in Users, close_loan(u)
  PROVE  Kept
<1> DEFINE S == DOMAIN loans
           f == loans
           g == loans'
<1>1. IsFiniteSet(S) /\ S \subseteq Users /\ f \in [S -> Nat] /\ SumOver(f, S) \in Nat
  BY LoansType
<1>2. /\ u \in S /\ f[u] = 0 /\ g = [v \in S \ {u} |-> f[v]]
      /\ UNCHANGED <<pool, vault, deposits, fee_notes, clock>>
  BY DEF close_loan, Restrict
<1> HIDE DEF S, f, g
<1>3. /\ DOMAIN g = S \ {u} /\ g \in [S \ {u} -> Nat]
      /\ \A v \in S \ {u} : g[v] = f[v]
  BY <1>1, <1>2
<1>4. SumOver(f, S) = SumOver(f, S \ {u}) + f[u]
  <2>1. \A v \in S : f[v] \in Int
    BY <1>1
  <2> QED BY <1>1, <1>2, <2>1, SumRemove
<1>5. IsFiniteSet(S \ {u})
  BY <1>1, FS_Subset
<1>6. SumOver(g, S \ {u}) = SumOver(f, S \ {u})
  BY <1>3, <1>5, SumSame
<1>7. SumOver(f, S \ {u}) \in Nat
  <2>1. \A v \in S \ {u} : f[v] \in Nat
    BY <1>1
  <2> QED BY <1>5, <2>1, SumNat
<1>8. SumOver(g, DOMAIN g) = SumOver(f, S) /\ DOMAIN g \subseteq Users /\ g \in [DOMAIN g -> Nat]
  BY <1>1, <1>2, <1>3, <1>4, <1>6, <1>7
<1> QED BY <1>2, <1>8, LoansKept DEF S, f, g

\* admin_transfer_loan
LEMMA TransferKept ==
  ASSUME PoolInv, NEW u \in Users, NEW v \in Users, NEW notes \in Nat,
         admin_transfer_loan(u, v, notes)
  PROVE  Kept
<1> DEFINE S == DOMAIN loans
           f == loans
           g == loans'
           h == [w \in S |-> IF w = u THEN f[u] - notes ELSE f[w]]
<1>1. IsFiniteSet(S) /\ S \subseteq Users /\ f \in [S -> Nat] /\ SumOver(f, S) \in Nat
  BY LoansType
<1>2. /\ u \in S /\ v \in S /\ u # v /\ notes <= f[u]
      /\ g = [f EXCEPT ![u] = @ - notes, ![v] = @ + notes]
      /\ UNCHANGED <<pool, vault, deposits, fee_notes, clock>>
  BY DEF admin_transfer_loan
<1> HIDE DEF S, f, g
<1>3. f[u] - notes \in Nat /\ f[v] + notes \in Nat /\ f[u] \in Nat /\ f[v] \in Nat
  BY <1>1, <1>2
<1>4. h \in [S -> Nat] /\ h[u] = f[u] - notes /\ \A w \in S \ {u} : h[w] = f[w]
  BY <1>1, <1>2, <1>3
<1> HIDE DEF h
<1>5. DOMAIN g = S /\ g \in [S -> Nat] /\ g[v] = f[v] + notes /\ \A w \in S \ {v} : g[w] = h[w]
  BY <1>1, <1>2, <1>3, <1>4
<1>6. SumOver(h, S) = SumOver(f, S) + (h[u] - f[u])
  BY <1>1, <1>2, <1>4, SumExcept
<1>7. SumOver(h, S) \in Nat /\ SumOver(g, S) = SumOver(h, S) + (g[v] - h[v])
  <2>1. /\ IsFiniteSet(S) /\ h \in [S -> Nat] /\ v \in S /\ g \in [S -> Nat]
        /\ \A w \in S \ {v} : g[w] = h[w]
    BY <1>1, <1>2, <1>4, <1>5
  <2> QED BY <2>1, SumExcept
<1>8. h[v] = f[v]
  BY <1>2, <1>4
<1>9. SumOver(g, DOMAIN g) = SumOver(f, S) /\ DOMAIN g \subseteq Users /\ g \in [DOMAIN g -> Nat]
  BY <1>1, <1>3, <1>4, <1>5, <1>6, <1>7, <1>8
<1> QED BY <1>2, <1>9, LoansKept DEF S, f, g

\* configure
LEMMA ConfigureKept ==
  ASSUME PoolInv, NEW c \in Configs, configure(c)
  PROVE  Kept
<1>1. /\ pool \in MarginPoolType /\ c \in PoolConfigs /\ pool' = [pool EXCEPT !.config = c]
      /\ UNCHANGED <<vault, deposits, loans, fee_notes, clock>>
  BY PoolAssumption DEF PoolInv, PoolTypeOK, configure
<1>2. /\ pool' \in MarginPoolType /\ pool'.accrued_until = pool.accrued_until
      /\ pool'.deposit_tokens = pool.deposit_tokens /\ pool'.deposit_notes = pool.deposit_notes
      /\ pool'.loan_notes = pool.loan_notes /\ pool'.borrowed = pool.borrowed
  BY <1>1 DEF MarginPoolType
<1>3. PoolTypeOK'
  BY <1>1, <1>2 DEF PoolInv, PoolTypeOK
<1>4. LedgerMatchesTokens' /\ ~ Exchanges
  BY <1>1, <1>2 DEF PoolInv, LedgerMatchesTokens, Exchanges
<1>5. HasValue'
  BY <1>1, <1>2 DEF PoolInv, HasValue, total_value
<1> QED BY <1>3, <1>4, <1>5 DEF Kept, PoolInv

\* tick_pool
LEMMA TickKept ==
  ASSUME PoolInv, tick_pool
  PROVE  Kept
<1>1. PoolTypeOK'
  BY PoolAssumption, SMTT(40) DEF PoolInv, PoolTypeOK, tick_pool, MarginPoolType
<1>2. LedgerMatchesTokens' /\ ~ Exchanges
  BY DEF PoolInv, LedgerMatchesTokens, Exchanges, tick_pool
<1>3. HasValue'
  BY DEF PoolInv, HasValue, tick_pool
<1> QED BY <1>1, <1>2, <1>3 DEF Kept, PoolInv

\* A created pool has no notes and no tokens.
LEMMA PoolInvInit == InitPool => PoolInv
<1> SUFFICES ASSUME InitPool PROVE PoolInv
  OBVIOUS
<1> USE DEF InitPool, create_pool
<1>1. PoolTypeOK
  <2>1. pool \in MarginPoolType
    BY DEF MarginPoolType, PoolConfigs
  <2>2. DOMAIN loans = {} /\ loans \in [DOMAIN loans -> Nat]
    OBVIOUS
  <2> QED BY <2>1, <2>2 DEF PoolTypeOK
<1>2. SumOver(deposits, Users) = 0
  <2> DEFINE f == deposits
  <2>1. IsFiniteSet(Users) /\ \A u \in Users : f[u] = 0
    BY PoolAssumption
  <2> HIDE DEF f
  <2>2. SumOver(f, Users) = 0
    BY <2>1, SumZero
  <2> QED BY <2>2 DEF f
<1>3. SumOver(loans, DOMAIN loans) = 0
  <2>1. DOMAIN loans = {}
    OBVIOUS
  <2> QED BY <2>1, SumEmpty
<1>4. HasValue
  BY DEF HasValue
<1> QED BY <1>1, <1>2, <1>3, <1>4 DEF PoolInv, LedgerMatchesTokens

\* Every step keeps the invariant, and the worth of every note.
LEMMA PoolStep ==
  ASSUME PoolInv, [NextPool]_poolVars
  PROVE  PoolInv' /\ (Exchanges => NotDiluted(Accrued, pool') /\ NotCharged(Accrued, pool'))
<1> SUFFICES Kept
  BY DEF Kept
<1>0. \A c \in Changes : c[1] \in {"ShiftBy", "SetTo"} /\ c[2] \in Nat
  BY PoolAssumption
<1>1. CASE \E c \in Configs : configure(c)
  BY <1>1, ConfigureKept
<1>2. ASSUME NEW u \in Users, NEW c \in Changes, deposit(u, c[1], c[2]) PROVE Kept
  BY <1>0, <1>2, DepositKept
<1>3. ASSUME NEW u \in Users, NEW c \in Changes, withdraw(u, c[1], c[2]) PROVE Kept
  BY <1>0, <1>3, WithdrawKept
<1>4. ASSUME NEW u \in Users, NEW c \in Changes, margin_borrow(u, c[1], c[2]) PROVE Kept
  BY <1>0, <1>4, MarginBorrowKept
<1>5. ASSUME NEW u \in Users, NEW c \in Changes, margin_borrow_v2(u, c[2]) PROVE Kept
  BY <1>0, <1>5, MarginBorrowV2Kept
<1>6. ASSUME NEW u \in Users, NEW c \in Changes, repay(u, c[1], c[2]) PROVE Kept
  BY <1>0, <1>6, RepayKept
<1>7. ASSUME NEW u \in Users, NEW c \in Changes, NEW payer \in Users,
             margin_repay(payer, u, c[1], c[2]) PROVE Kept
  BY <1>0, <1>7, MarginRepayKept
<1>8. ASSUME NEW u \in Users, register_loan(u) \/ close_loan(u) PROVE Kept
  BY <1>8, RegisterKept, CloseKept
<1>9. ASSUME NEW u \in Users, NEW v \in Users, NEW c \in Changes,
             admin_transfer_loan(u, v, c[2]) PROVE Kept
  BY <1>0, <1>9, TransferKept
<1>10. CASE collect
  BY <1>10, CollectKept
<1>11. CASE tick_pool
  BY <1>11, TickKept
<1>12. CASE UNCHANGED poolVars
  <2>1. PoolTypeOK' /\ LedgerMatchesTokens' /\ HasValue' /\ ~ Exchanges
    BY <1>12 DEF PoolInv, PoolTypeOK, LedgerMatchesTokens, HasValue, Exchanges, poolVars
  <2> QED BY <2>1 DEF Kept, PoolInv
<1> QED BY <1>1, <1>2, <1>3, <1>4, <1>5, <1>6, <1>7, <1>8, <1>9, <1>10, <1>11, <1>12, Zenon DEF NextPool

-----------------------------------------------------------------------------
(* Theorems *)

\* The invariant holds in every reachable state, for any users, configurations,
\* precision of Number and changes asked for.
THEOREM PoolInvAlways == SpecPool => []PoolInv
<1>1. PoolInv /\ [NextPool]_poolVars => PoolInv'
  BY PoolStep
<1> QED BY <1>1, PoolInvInit, PTL DEF SpecPool

\* The pool's record is typed: no amount goes below zero, whatever the handlers
\* subtract, and interest never accrues past the clock.
THEOREM PoolTypeAlways == SpecPool => []PoolTypeOK
<1>1. PoolInv => PoolTypeOK
  BY DEF PoolInv
<1> QED BY <1>1, PoolInvAlways, PTL

\* What the handlers record in the pool's account is what they mint, burn and
\* transfer at the token program.
THEOREM LedgerAlwaysMatchesTokens == SpecPool => []LedgerMatchesTokens
<1>1. PoolInv => LedgerMatchesTokens
  BY DEF PoolInv
<1> QED BY <1>1, PoolInvAlways, PTL

\* No sequence of instructions locks the notes a user has: interest is never
\* accrued past the clock, and there is value to divide by.
THEOREM ArithmeticAlwaysDefined == SpecPool => []ArithmeticDefined
<1>1. PoolInv => ArithmeticDefined
  BY DEF PoolInv, PoolTypeOK, HasValue, ArithmeticDefined
<1> QED BY <1>1, PoolInvAlways, PTL

\* No instruction takes value from the depositors who keep their notes.
THEOREM DepositorsNeverDiluted == SpecPool => DepositorsNotDiluted
<1> DEFINE Step == LET rate == deposit_note_exchange_rate(Accrued)
                   IN  Exchanges /\ total_value(Accrued) >= ONE /\ pool'.deposit_notes > 0 =>
                         deposit_value(pool') + Larger(0, rate) \div ONE >= pool'.deposit_notes * rate
<1>1. PoolInv /\ [NextPool]_poolVars => [Step]_poolVars
  BY PoolStep DEF NotDiluted
<1>2. SpecPool => [][Step]_poolVars
  <2> HIDE DEF Step
  <2> QED BY <1>1, PoolInvAlways, PTL DEF SpecPool
<1> QED BY <1>2 DEF DepositorsNotDiluted

\* No instruction charges the borrowers who keep their loans.
THEOREM DebtorsNeverCharged == SpecPool => DebtorsNotCharged
<1> DEFINE Step == LET rate == loan_note_exchange_rate(Accrued)
                   IN  Exchanges =>
                         Unnoted(pool', rate) <= Larger(0, Unnoted(Accrued, rate)) + rate \div ONE
<1>1. PoolInv /\ [NextPool]_poolVars => [Step]_poolVars
  BY PoolStep DEF NotCharged
<1>2. SpecPool => [][Step]_poolVars
  <2> HIDE DEF Step
  <2> QED BY <1>1, PoolInvAlways, PTL DEF SpecPool
<1> QED BY <1>2 DEF DebtorsNotCharged
=============================================================================
