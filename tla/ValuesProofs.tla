----------------------------- MODULE ValuesProofs -----------------------------
(***************************************************************************)
(* Proofs about the conversions, for every value of the constants, every   *)
(* number that is counted up to and every text.                            *)
(***************************************************************************)
EXTENDS Values, TLAPS, WellFoundedInduction, SequenceTheorems, FiniteSetTheorems

Counted == number \in Nat

LEMMA NumberIsNat == Spec => []Counted
<1>1. Init => Counted
  BY DEF Init, Counted
<1>2. Counted /\ [Next]_vars => Counted'
  BY DEF Next, Extend, Count, vars, Counted
<1> QED
  BY <1>1, <1>2, PTL DEF Spec

-----------------------------------------------------------------------------
(* Powers of two and of ten.  TwoTo and TenTo are recursive functions:     *)
(* that there are such functions is shown from the least number that has   *)
(* none.                                                                   *)

LEMMA Least ==
  ASSUME NEW T, T \subseteq Nat, T # {}
  PROVE  \E n \in T : \A m \in T : n <= m
<1>1. IsWellFoundedOn(OpToRel(<, Nat), Nat)
  BY NatLessThanWellFounded
<1>2. PICK n \in T : \A m \in T : ~(<<m, n>> \in OpToRel(<, Nat))
  BY <1>1, WFMin
<1>3. \A m \in T : ~(m < n)
  BY <1>2 DEF OpToRel
<1> QED
  BY <1>3

LEMMA Product ==
  ASSUME NEW x \in Nat \ {0}, NEW y \in Nat \ {0}
  PROVE  x * y \in Nat \ {0}
OBVIOUS

(* The powers of b up to the n-th.                                         *)
Table(b, n) ==
  {h \in [0..n -> Nat \ {0}] : h[0] = 1 /\ \A i \in 1..n : h[i] = b * h[i - 1]}

LEMMA TableExists ==
  ASSUME NEW b \in Nat \ {0}
  PROVE  \A n \in Nat : Table(b, n) # {}
<1> DEFINE T == {n \in Nat : Table(b, n) = {}}
<1> SUFFICES ASSUME T # {} PROVE FALSE
  OBVIOUS
<1>1. PICK n \in T : \A m \in T : n <= m
  BY Least
<1>2. CASE n = 0
  <2> DEFINE h == [i \in 0..0 |-> 1]
  <2>1. h \in Table(b, 0)
    BY DEF Table
  <2> QED
    BY <1>1, <1>2, <2>1
<1>3. CASE n # 0
  <2>1. n \in Nat /\ n - 1 \in Nat /\ ~(n <= n - 1)
    BY <1>3
  <2>2. PICK h : h \in Table(b, n - 1)
    BY <1>1, <2>1
  <2>3. /\ h \in [0..n - 1 -> Nat \ {0}] /\ h[0] = 1
        /\ \A i \in 1..n - 1 : h[i] = b * h[i - 1]
    BY <2>2 DEF Table
  <2> DEFINE g == [i \in 0..n |-> IF i = n THEN b * h[n - 1] ELSE h[i]]
  <2>4. \A i \in 0..n : i # n => i \in 0..n - 1
    BY <2>1
  <2>5. b * h[n - 1] \in Nat \ {0}
    <3>1. h[n - 1] \in Nat \ {0}
      BY <2>1, <2>3
    <3> QED
      BY <3>1, Product
  <2>6. g \in [0..n -> Nat \ {0}]
    BY <2>3, <2>4, <2>5
  <2>7. g[0] = 1
    BY <1>3, <2>1, <2>3
  <2>8. ASSUME NEW i \in 1..n PROVE g[i] = b * g[i - 1]
    <3>1. i \in 0..n /\ i - 1 \in 0..n /\ i - 1 # n
      BY <2>1
    <3>2. g[i - 1] = h[i - 1]
      BY <3>1
    <3>3. i # n => i \in 1..n - 1
      BY <2>1
    <3> QED
      BY <2>3, <3>1, <3>2, <3>3
  <2> HIDE DEF g
  <2>9. g \in Table(b, n)
    BY <2>6, <2>7, <2>8 DEF Table
  <2> QED
    BY <2>9
<1> QED
  BY <1>2, <1>3

LEMMA TablesAgree ==
  ASSUME NEW b \in Nat \ {0}, NEW m \in Nat, NEW n \in Nat,
         NEW g \in Table(b, m), NEW h \in Table(b, n)
  PROVE  \A i \in Nat : i <= m /\ i <= n => g[i] = h[i]
<1> DEFINE T == {i \in Nat : i <= m /\ i <= n /\ g[i] # h[i]}
<1> SUFFICES ASSUME T # {} PROVE FALSE
  OBVIOUS
<1>1. PICK i \in T : \A j \in T : i <= j
  BY Least
<1>2. i # 0
  BY DEF Table
<1>3. i \in 1..m /\ i \in 1..n /\ i - 1 \in Nat /\ i - 1 <= m /\ i - 1 <= n /\ ~(i <= i - 1)
  BY <1>2
<1>4. g[i - 1] = h[i - 1]
  BY <1>1, <1>3
<1>5. g[i] = b * g[i - 1] /\ h[i] = b * h[i - 1]
  BY <1>3 DEF Table
<1> QED
  BY <1>4, <1>5

LEMMA PowersExist ==
  ASSUME NEW b \in Nat \ {0}
  PROVE  \E f : f = [n \in Nat |-> IF n = 0 THEN 1 ELSE b * f[n - 1]]
<1> DEFINE table(n) == CHOOSE h : h \in Table(b, n)
           f == [n \in Nat |-> table(n)[n]]
<1>1. \A n \in Nat : table(n) \in Table(b, n)
  BY TableExists
<1>2. \A n \in Nat : n = 0 => f[n] = 1
  BY <1>1 DEF Table
<1>3. ASSUME NEW n \in Nat \ {0} PROVE f[n] = b * f[n - 1]
  <2>1. n \in Nat /\ n - 1 \in Nat /\ n - 1 <= n /\ n \in 1..n
    OBVIOUS
  <2>2. table(n)[n] = b * table(n)[n - 1]
    BY <1>1, <2>1 DEF Table
  <2>3. table(n)[n - 1] = table(n - 1)[n - 1]
    BY <1>1, <2>1, TablesAgree
  <2> QED
    BY <2>1, <2>2, <2>3
<1>4. f = [n \in Nat |-> f[n]]
  OBVIOUS
<1> HIDE DEF f
<1>5. f = [n \in Nat |-> IF n = 0 THEN 1 ELSE b * f[n - 1]]
  BY <1>2, <1>3, <1>4
<1> QED
  BY <1>5

LEMMA PowersMultiply ==
  ASSUME NEW b \in Nat \ {0}, NEW f,
         f = [n \in Nat |-> IF n = 0 THEN 1 ELSE b * f[n - 1]]
  PROVE  /\ f \in [Nat -> Nat \ {0}] /\ f[0] = 1
         /\ \A n \in Nat \ {0} : f[n] = b * f[n - 1]
<1>1. f[0] = 1 /\ \A n \in Nat \ {0} : f[n] = b * f[n - 1]
  OBVIOUS
<1>2. f = [n \in Nat |-> f[n]]
  OBVIOUS
<1> DEFINE T == {n \in Nat : f[n] \notin Nat \ {0}}
<1>3. T = {}
  <2> SUFFICES ASSUME T # {} PROVE FALSE
    OBVIOUS
  <2>1. PICK n \in T : \A m \in T : n <= m
    BY Least
  <2>2. n # 0
    BY <1>1
  <2>3. n \in Nat \ {0} /\ n - 1 \in Nat /\ ~(n <= n - 1)
    BY <2>2
  <2>4. f[n - 1] \in Nat \ {0}
    BY <2>1, <2>3
  <2>5. b * f[n - 1] \in Nat \ {0}
    BY <2>4, Product
  <2> QED
    BY <1>1, <2>3, <2>5
<1>4. \A n \in Nat : f[n] \in Nat \ {0}
  BY <1>3
<1> QED
  BY <1>1, <1>2, <1>4

LEMMA TwoToDoubles ==
  /\ TwoTo \in [Nat -> Nat \ {0}] /\ TwoTo[0] = 1
  /\ \A n \in Nat \ {0} : TwoTo[n] = 2 * TwoTo[n - 1]
<1>1. 2 \in Nat \ {0}
  OBVIOUS
<1>2. \E f : f = [n \in Nat |-> IF n = 0 THEN 1 ELSE 2 * f[n - 1]]
  BY <1>1, PowersExist
<1>3. TwoTo = [n \in Nat |-> IF n = 0 THEN 1 ELSE 2 * TwoTo[n - 1]]
  BY <1>2 DEF TwoTo
<1> QED
  BY <1>1, <1>3, PowersMultiply

LEMMA TenToMultiplies ==
  /\ TenTo \in [Nat -> Nat \ {0}] /\ TenTo[0] = 1
  /\ \A n \in Nat \ {0} : TenTo[n] = 10 * TenTo[n - 1]
<1>1. 10 \in Nat \ {0}
  OBVIOUS
<1>2. \E f : f = [n \in Nat |-> IF n = 0 THEN 1 ELSE 10 * f[n - 1]]
  BY <1>1, PowersExist
<1>3. TenTo = [n \in Nat |-> IF n = 0 THEN 1 ELSE 10 * TenTo[n - 1]]
  BY <1>2 DEF TenTo
<1> QED
  BY <1>1, <1>3, PowersMultiply

LEMMA MaxIntIsNat == MaxInt \in Nat
<1>1. Bits - 1 \in Nat
  BY WidthIsPositive
<1>2. TwoTo[Bits - 1] \in Nat \ {0}
  BY <1>1, TwoToDoubles
<1> QED
  BY <1>2 DEF MaxInt

-----------------------------------------------------------------------------
(* Money.                                                                  *)

LEMMA MaxOfTwo ==
  ASSUME NEW x \in Int, NEW y \in Int
  PROVE  Max({x, y}) = IF x >= y THEN x ELSE y
<1>1. \E z \in {x, y} : \A v \in {x, y} : z >= v
  OBVIOUS
<1>2. Max({x, y}) \in {x, y} /\ \A v \in {x, y} : Max({x, y}) >= v
  BY <1>1 DEF Max
<1> QED
  BY <1>2

LEMMA Multiples ==
  ASSUME NEW k \in Int, NEW d \in Nat \ {0}
  PROVE  /\ k * d \in Int
         /\ k >= 1 => k * d >= d
         /\ k <= 0 - 1 => k * d <= 0 - d
         /\ k = 0 => k * d = 0
OBVIOUS

(* QuoRem leaves no rest just when there is an amount that makes n.        *)
LEMMA Divides ==
  ASSUME NEW n \in Int, NEW m \in Int, NEW d \in Nat \ {0}
  PROVE  m * d = n <=> n % d = 0 /\ m = n \div d
<1> DEFINE q == n \div d
           r == n % d
           k == m - q
<1>1. q \in Int /\ r \in Int /\ 0 <= r /\ r < d /\ n = d * q + r
  OBVIOUS
<1>2. k \in Int /\ k * d = m * d - d * q
  BY <1>1
<1> HIDE DEF q, r, k
<1>3. m * d \in Int /\ d * q \in Int
  BY <1>1
<1>4. m * d = n <=> k * d = r
  <2>1. \A x, y, z, t \in Int : y = x - z /\ t = z + r => (x = t <=> y = r)
    BY <1>1
  <2>2. k * d \in Int
    BY <1>2, <1>3
  <2> QED
    BY <1>1, <1>2, <1>3, <2>1, <2>2
<1>5. k * d = r <=> r = 0 /\ k = 0
  BY <1>1, <1>2, Multiples
<1>6. k = 0 <=> m = q
  BY <1>1 DEF k
<1> QED
  BY <1>4, <1>5, <1>6 DEF q, r

LEMMA TimesOne ==
  ASSUME NEW x \in Int
  PROVE  x * 1 = x
OBVIOUS

(* What is converted is the one amount that is the same in minor units.    *)
LEMMA NumericIsExact ==
  ASSUME NEW n \in Int, NEW exp \in Int
  PROVE  NumericToMoney([kind |-> "finite", int |-> n, exp |-> exp]) =
           {m \in -MaxInt-1..MaxInt :
              m * TenTo[Max({0, -exp - 2})] = n * TenTo[Max({0, exp + 2})]}
<1> DEFINE numeric == [kind |-> "finite", int |-> n, exp |-> exp]
           factor == TenTo[exp + 2]
           divisor == TenTo[-(exp + 2)]
           exact == IF exp + 2 >= 0 THEN {n * factor} ELSE Divide(n, divisor)
<1>1. \A m : m \in -MaxInt-1..MaxInt <=> m \in Int /\ IsInt(m)
  BY MaxIntIsNat DEF IsInt
<1>2. NumericToMoney(numeric) = {m \in exact : IsInt(m)}
  BY DEF NumericToMoney
<1>3. TenTo[0] = 1
  BY TenToMultiplies
<1> HIDE DEF numeric
<1>4. CASE exp + 2 >= 0
  <2>1. Max({0, -exp - 2}) = 0 /\ Max({0, exp + 2}) = exp + 2
    BY <1>4, MaxOfTwo
  <2>2. factor \in Nat \ {0}
    BY <1>4, TenToMultiplies
  <2>3. exact = {n * factor}
    BY <1>4
  <2> HIDE DEF factor, exact
  <2>4. n * factor \in Int
    BY <2>2
  <2>5. \A m \in Int : m * 1 = m
    BY TimesOne
  <2>6. NumericToMoney(numeric) = {m \in -MaxInt-1..MaxInt : m * 1 = n * factor}
    BY <1>1, <1>2, <2>3, <2>4, <2>5
  <2> QED
    BY <1>3, <2>1, <2>6 DEF factor, numeric
<1>5. CASE ~(exp + 2 >= 0)
  <2>1. Max({0, -exp - 2}) = -(exp + 2) /\ Max({0, exp + 2}) = 0
    <3>1. -exp - 2 = -(exp + 2) /\ -exp - 2 \in Int /\ -exp - 2 > 0
      BY <1>5
    <3> QED
      BY <1>5, <3>1, MaxOfTwo
  <2>2. divisor \in Nat \ {0}
    <3>1. -(exp + 2) \in Nat
      BY <1>5
    <3> QED
      BY <3>1, TenToMultiplies
  <2>3. exact = Divide(n, divisor)
    BY <1>5
  <2> HIDE DEF divisor, exact
  <2>4. n \div divisor \in Int
    BY <2>2
  <2>5. \A m \in Int : m * divisor = n <=> n % divisor = 0 /\ m = n \div divisor
    BY <2>2, Divides
  <2>6. NumericToMoney(numeric) = {m \in -MaxInt-1..MaxInt : m * divisor = n}
    BY <1>1, <1>2, <2>3, <2>4, <2>5 DEF Divide
  <2>7. n * 1 = n
    BY TimesOne
  <2> QED
    BY <1>3, <2>1, <2>6, <2>7 DEF divisor, numeric
<1> QED
  BY <1>4, <1>5

(* numericToMoney takes back what moneyToNumeric has given away, and turns *)
(* no finite numeric into another amount, whatever its exponent.           *)
THEOREM MoneyKept == Spec => []MoneyIsExact
<1>1. ASSUME NEW n \in Int, IsInt(n)
      PROVE  NumericToMoney(MoneyToNumeric(n)) = {n}
  <2>1. PICK exp \in Int : exp = -2
    OBVIOUS
  <2>2. n \in -MaxInt-1..MaxInt /\ \A m \in -MaxInt-1..MaxInt : m \in Int
    BY <1>1, MaxIntIsNat DEF IsInt
  <2>3. Max({0, -exp - 2}) = 0 /\ Max({0, exp + 2}) = 0
    BY <2>1, MaxOfTwo
  <2>4. NumericToMoney(MoneyToNumeric(n)) =
          {m \in -MaxInt-1..MaxInt :
             m * TenTo[Max({0, -exp - 2})] = n * TenTo[Max({0, exp + 2})]}
    BY <2>1, NumericIsExact DEF MoneyToNumeric
  <2>5. \A m \in Int : m * TenTo[0] = n * TenTo[0] <=> m = n
    BY TenToMultiplies, TimesOne
  <2> QED
    BY <2>2, <2>3, <2>4, <2>5
<1>2. Counted => MoneyIsExact
  <2> SUFFICES ASSUME number \in Nat, NEW n \in {number, -number}
               PROVE  /\ IsInt(n) => NumericToMoney(MoneyToNumeric(n)) = {n}
                      /\ \A exp \in Exponents :
                           NumericToMoney([kind |-> "finite", int |-> n, exp |-> exp]) =
                             {m \in -MaxInt-1..MaxInt :
                                m * TenTo[Max({0, -exp - 2})] = n * TenTo[Max({0, exp + 2})]}
    BY DEF MoneyIsExact, Counted
  <2>1. n \in Int
    OBVIOUS
  <2>2. \A exp \in Exponents : exp \in Int
    BY ExponentsOfNumeric
  <2>3. \A exp \in Exponents :
          NumericToMoney([kind |-> "finite", int |-> n, exp |-> exp]) =
            {m \in -MaxInt-1..MaxInt :
               m * TenTo[Max({0, -exp - 2})] = n * TenTo[Max({0, exp + 2})]}
    BY <2>1, <2>2, NumericIsExact, Zenon
  <2> QED
    BY <1>1, <2>1, <2>3, Zenon
<1> QED
  BY <1>2, NumberIsNat, PTL

-----------------------------------------------------------------------------
(* Pauses.                                                                 *)

LEMMA MinOfTwo ==
  ASSUME NEW x \in Int, NEW y \in Int
  PROVE  Min({x, y}) = IF x <= y THEN x ELSE y
<1>1. \E z \in {x, y} : \A v \in {x, y} : z <= v
  OBVIOUS
<1>2. Min({x, y}) \in {x, y} /\ \A v \in {x, y} : Min({x, y}) <= v
  BY <1>1 DEF Min
<1> QED
  BY <1>2

LEMMA Remainders ==
  ASSUME NEW n \in Nat, NEW d \in Nat \ {0}
  PROVE  /\ n < d => n % d = n
         /\ d <= n /\ n < 2 * d => n % d = n - d
OBVIOUS

(* A duration that fits stays what it is, and the first doubling too many  *)
(* makes it negative.                                                      *)
LEMMA Wrapped ==
  /\ TwoTo[Bits] = 2 * (MaxInt + 1)
  /\ \A n \in 0..MaxInt : Wrap(n) = n
  /\ \A n \in MaxInt + 1..2 * MaxInt + 1 : Wrap(n) < 0
<1> DEFINE d == 2 * (MaxInt + 1)
<1>1. MaxInt \in Nat
  BY MaxIntIsNat
<1>2. TwoTo[Bits] = d
  <2>1. TwoTo[Bits] = 2 * TwoTo[Bits - 1] /\ TwoTo[Bits - 1] \in Nat
    BY TwoToDoubles, WidthIsPositive
  <2> QED
    BY <2>1 DEF MaxInt
<1>3. d \in Nat \ {0}
  BY <1>1
<1>4. ASSUME NEW n \in 0..MaxInt PROVE Wrap(n) = n
  <2>1. n + MaxInt + 1 \in Nat /\ n + MaxInt + 1 < d
    BY <1>1
  <2>2. (n + MaxInt + 1) % d = n + MaxInt + 1
    <3> HIDE DEF d
    <3> QED
      BY <1>3, <2>1, Remainders
  <2>3. Wrap(n) = (n + MaxInt + 1) - MaxInt - 1
    BY <1>2, <2>2 DEF Wrap
  <2> QED
    BY <1>1, <2>3
<1>5. ASSUME NEW n \in MaxInt + 1..2 * MaxInt + 1 PROVE Wrap(n) < 0
  <2> DEFINE sum == n + MaxInt + 1
  <2>1. sum \in Nat /\ d <= sum /\ sum < 2 * d
    BY <1>1
  <2>2. sum % d = sum - d
    <3> HIDE DEF sum, d
    <3> QED
      BY <1>3, <2>1, Remainders
  <2>3. Wrap(n) = (sum - d) - MaxInt - 1
    <3> HIDE DEF d
    <3> QED
      BY <1>2, <2>2 DEF Wrap
  <2> QED
    BY <1>1, <2>3
<1> QED
  BY <1>2, <1>4, <1>5

LEMMA SecondsAreExact ==
  ASSUME NEW v \in Int, v * Second <= MaxInt
  PROVE  ParseRetryAfter([kind |-> "seconds", value |-> v], 0) = {s \in {v * Second} : s >= 0}
<1>1. Second \in Nat /\ Second >= 1 /\ MaxInt \in Nat
  BY WidthIsPositive, MaxIntIsNat
<1>2. CASE v >= 0
  <2>1. v * Second \in Nat /\ v <= v * Second
    <3>1. \A w, k \in Nat : k >= 1 => w * k \in Nat /\ w <= w * k
      OBVIOUS
    <3> QED
      BY <1>1, <1>2, <3>1
  <2>2. IsInt(v) /\ Wrap(v * Second) = v * Second
    BY <1>1, <1>2, <2>1, Wrapped DEF IsInt
  <2> QED
    BY <1>2, <2>1, <2>2 DEF ParseRetryAfter
<1>3. CASE ~(v >= 0)
  <2>1. v * Second \in Int /\ ~(v * Second >= 0)
    <3>1. \A w \in Int, k \in Nat : k >= 1 /\ w < 0 => w * k \in Int /\ w * k < 0
      OBVIOUS
    <3> QED
      BY <1>1, <1>3, <3>1
  <2> QED
    BY <1>3, <2>1 DEF ParseRetryAfter
<1> QED
  BY <1>2, <1>3

LEMMA DatesAreExact ==
  ASSUME NEW date \in Nat, NEW now \in Nat
  PROVE  \E d \in ParseRetryAfter([kind |-> "date", value |-> date], now) :
           d >= 0 /\ now + d = Max({now, date})
<1> DEFINE d == IF date < now THEN 0 ELSE date - now
<1>1. d \in ParseRetryAfter([kind |-> "date", value |-> date], now)
  BY DEF ParseRetryAfter
<1>2. d >= 0 /\ now + d = Max({now, date})
  BY MaxOfTwo
<1> QED
  BY <1>1, <1>2

LEMMA DoublingIsExact ==
  ASSUME NEW base \in 1..MaxInt, NEW max \in 1..MaxInt, NEW attempt \in 1..Bits,
         base * TwoTo[attempt - 1] < TwoTo[Bits]
  PROVE  Doubled(base, max, attempt) = Min({base * TwoTo[attempt - 1], max})
<1> DEFINE x == base * TwoTo[attempt - 1]
<1>1. MaxInt \in Nat /\ max \in Nat /\ max >= 1 /\ max <= MaxInt
  BY MaxIntIsNat
<1>2. x \in Nat \ {0}
  <2>1. base \in Nat \ {0} /\ TwoTo[attempt - 1] \in Nat \ {0}
    BY <1>1, WidthIsPositive, TwoToDoubles
  <2>2. \A m, n \in Nat \ {0} : m * n \in Nat \ {0}
    OBVIOUS
  <2> QED
    BY <2>1, <2>2
<1>3. x <= 2 * MaxInt + 1
  <2>1. x < 2 * (MaxInt + 1)
    BY Wrapped
  <2> HIDE DEF x
  <2> QED
    BY <1>1, <1>2, <2>1
<1>4. Doubled(base, max, attempt) = IF Wrap(x) > max \/ Wrap(x) <= 0 THEN max ELSE Wrap(x)
  BY DEF Doubled
<1> HIDE DEF x
<1>5. Doubled(base, max, attempt) = Min({x, max})
  <2>1. CASE x <= MaxInt
    <3>1. Wrap(x) = x
      BY <1>1, <1>2, <2>1, Wrapped
    <3> QED
      BY <1>1, <1>2, <1>4, <3>1, MinOfTwo
  <2>2. CASE x > MaxInt
    <3>1. Wrap(x) < 0
      <4>1. x \in MaxInt + 1..2 * MaxInt + 1
        BY <1>1, <1>2, <1>3, <2>2
      <4> QED
        BY <4>1, Wrapped
    <3>2. Wrap(x) <= 0
      <4>1. Wrap(x) \in Int
        <5>1. TwoTo[Bits] \in Nat \ {0} /\ x + MaxInt + 1 \in Nat
          BY <1>1, <1>2, TwoToDoubles, WidthIsPositive
        <5>2. (x + MaxInt + 1) % TwoTo[Bits] \in Int
          BY <5>1
        <5> QED
          BY <1>1, <5>2 DEF Wrap
      <4> QED
        BY <3>1, <4>1
    <3> QED
      BY <1>1, <1>2, <1>4, <2>2, <3>2, MinOfTwo
  <2> QED
    BY <1>1, <1>2, <2>1, <2>2
<1> QED
  BY <1>5 DEF x

(* A Retry-After that fits into a duration, a date and the backoff give    *)
(* the pause they should: the width of a duration cuts nothing off those.  *)
THEOREM PausesKept == Spec => []PausesAreExact
<1>1. Counted => PausesAreExact
  <2> SUFFICES ASSUME number \in Nat, text = <<>> PROVE PausesAreExact
    BY DEF PausesAreExact, Counted
  <2>1. ASSUME NEW header \in [kind : {"seconds"}, value : {number, -number}],
               header.value * Second <= MaxInt
        PROVE  ParseRetryAfter(header, 0) = {s \in {header.value * Second} : s >= 0}
    <3>1. header = [kind |-> "seconds", value |-> header.value] /\ header.value \in Int
      OBVIOUS
    <3> QED
      BY <2>1, <3>1, SecondsAreExact
  <2>2. ASSUME NEW now \in {0, number, 2 * number}
        PROVE  \E d \in ParseRetryAfter([kind |-> "date", value |-> number], now) :
                 d >= 0 /\ now + d = Max({now, number})
    <3>1. now \in Nat
      OBVIOUS
    <3> QED
      BY <3>1, DatesAreExact
  <2>3. ASSUME NEW base \in {number} \cap 1..MaxInt,
               NEW max \in {number, 2 * number, MaxInt} \cap 1..MaxInt,
               NEW attempt \in 1..Bits, base * TwoTo[attempt - 1] < TwoTo[Bits]
        PROVE  LET half == Min({base * TwoTo[attempt - 1], max}) \div 2
               IN Backoff(base, max, attempt) = half..2*half
    BY <2>3, DoublingIsExact DEF Backoff
  <2> QED
    BY <2>1, <2>2, <2>3 DEF PausesAreExact
<1> QED
  BY <1>1, NumberIsNat, PTL

-----------------------------------------------------------------------------
(* Induction, for sets: over the numbers up to n, and over sequences.      *)

LEMMA UpTo ==
  ASSUME NEW n \in Nat, NEW T, 0 \in T, \A k \in 1..n : k - 1 \in T => k \in T
  PROVE  \A k \in 0..n : k \in T
<1> DEFINE M == {k \in 0..n : k \notin T}
<1> SUFFICES ASSUME M # {} PROVE FALSE
  OBVIOUS
<1>1. PICK k \in M : \A m \in M : k <= m
  <2>1. M \subseteq Nat
    OBVIOUS
  <2> QED
    BY <2>1, Least
<1>2. k # 0 /\ k \in 1..n /\ k - 1 \in 0..n /\ ~(k <= k - 1)
  OBVIOUS
<1>3. k - 1 \in T
  BY <1>1, <1>2
<1> QED
  BY <1>2, <1>3

LEMMA Shorter ==
  ASSUME NEW C, NEW s \in Seq(C), Len(s) > 0
  PROVE  \E t \in Seq(C), c \in C :
           s = Append(t, c) /\ Len(t) = Len(s) - 1 /\ c = s[Len(s)]
<1> DEFINE t == SubSeq(s, 1, Len(s) - 1)
<1>1. Len(s) \in Nat /\ Len(s) \in 1..Len(s) /\ \A i \in 1..Len(s) : s[i] \in C
  OBVIOUS
<1>2. t \in Seq(C) /\ Len(t) = Len(s) - 1 /\ \A i \in 1..Len(t) : t[i] = s[i]
  <2>1. 1 \in Int /\ Len(s) - 1 \in Int /\ \A i \in 1..(Len(s) - 1) : s[i] \in C
    BY <1>1
  <2>2. /\ t \in Seq(C) /\ Len(t) = IF 1 <= Len(s) - 1 THEN (Len(s) - 1) - 1 + 1 ELSE 0
        /\ \A i \in 1..((Len(s) - 1) - 1 + 1) : t[i] = s[1 + i - 1]
    BY <2>1, SubSeqProperties
  <2> HIDE DEF t
  <2>3. Len(t) = Len(s) - 1
    <3>1. \A n \in Nat : n > 0 => (IF 1 <= n - 1 THEN (n - 1) - 1 + 1 ELSE 0) = n - 1
      OBVIOUS
    <3> QED
      BY <1>1, <2>2, <3>1
  <2>4. ASSUME NEW i \in 1..Len(t) PROVE t[i] = s[i]
    <3>1. i \in 1..((Len(s) - 1) - 1 + 1) /\ 1 + i - 1 = i
      BY <1>1, <2>3
    <3> QED
      BY <2>2, <3>1
  <2> QED
    BY <2>2, <2>3, <2>4
<1> HIDE DEF t
<1>3. s = Append(t, s[Len(s)])
  BY <1>1, <1>2
<1> QED
  BY <1>1, <1>2, <1>3

LEMMA OnSequences ==
  ASSUME NEW C, NEW T, <<>> \in T,
         \A s \in Seq(C), c \in C : s \in T => Append(s, c) \in T
  PROVE  Seq(C) \subseteq T
<1> DEFINE Lengths == {Len(s) : s \in Seq(C) \ T}
<1> SUFFICES ASSUME Seq(C) \ T # {} PROVE FALSE
  OBVIOUS
<1>1. PICK k \in Lengths : \A m \in Lengths : k <= m
  <2>1. \A s \in Seq(C) : Len(s) \in Nat
    BY LenProperties
  <2>2. Lengths \subseteq Nat /\ Lengths # {}
    BY <2>1
  <2> QED
    BY <2>2, Least
<1>2. PICK s \in Seq(C) \ T : k = Len(s)
  OBVIOUS
<1>3. Len(s) > 0
  <2>1. Len(s) = 0 => s = <<>>
    BY EmptySeq
  <2> QED
    BY <2>1
<1>4. PICK t \in Seq(C), c \in C : s = Append(t, c) /\ Len(t) = Len(s) - 1
  BY <1>3, Shorter
<1>5. t \in T
  BY <1>1, <1>2, <1>4
<1> QED
  BY <1>4, <1>5

-----------------------------------------------------------------------------
(* A fold is a recursive function on the subsets of the positions.  There  *)
(* is one for every step.                                                  *)

LEMMA MaxOfSet ==
  ASSUME NEW T, NEW m \in T, T \subseteq Int, \A k \in T : k <= m
  PROVE  Max(T) = m
<1>1. \E x \in T : \A y \in T : x >= y
  OBVIOUS
<1>2. Max(T) \in T /\ \A y \in T : Max(T) >= y
  BY <1>1 DEF Max
<1>3. Max(T) \in Int /\ m \in Int /\ Max(T) >= m /\ Max(T) <= m
  BY <1>2
<1> QED
  BY <1>3

LEMMA MaxUpTo ==
  ASSUME NEW n \in Nat, NEW T \in SUBSET (0..n), T # {}
  PROVE  Max(T) \in T /\ \A k \in T : k <= Max(T)
<1> DEFINE U == {u \in Nat : \A k \in T : u >= k}
<1>1. n \in U /\ U \subseteq Nat
  OBVIOUS
<1>2. PICK u \in U : \A v \in U : u <= v
  BY <1>1, Least
<1>3. u \in T
  <2>1. SUFFICES ASSUME u \notin T PROVE FALSE
    OBVIOUS
  <2>2. PICK k \in T : TRUE
    OBVIOUS
  <2>3. u - 1 \in Nat /\ \A j \in T : u - 1 >= j
    BY <2>1, <2>2
  <2> QED
    BY <1>2, <2>3
<1>4. T \subseteq Int /\ \A k \in T : k <= u
  BY <1>2
<1> QED
  BY <1>3, <1>4, MaxOfSet

LEMMA MaxIsIn ==
  ASSUME NEW n \in Nat, NEW T \in SUBSET (1..n), T # {}
  PROVE  Max(T) \in T /\ Max(T) \in 1..n /\ \A k \in T : k <= Max(T)
<1>1. T \in SUBSET (0..n)
  OBVIOUS
<1> QED
  BY <1>1, MaxUpTo

-----------------------------------------------------------------------------
(* The sheet.                                                              *)

LEMMA TwoToGrows ==
  ASSUME NEW m \in Nat, NEW n \in Nat, m <= n
  PROVE  TwoTo[m] <= TwoTo[n]
<1> DEFINE T == {k \in 0..n : k >= m => TwoTo[m] <= TwoTo[k]}
<1>1. 0 \in T
  BY TwoToDoubles
<1>2. ASSUME NEW k \in 1..n, k - 1 \in T PROVE k \in T
  <2>1. TwoTo[k] = 2 * TwoTo[k - 1] /\ TwoTo[k - 1] \in Nat /\ TwoTo[k] \in Nat /\ TwoTo[m] \in Nat
    BY TwoToDoubles
  <2>2. k >= m => k = m \/ k - 1 >= m
    OBVIOUS
  <2> QED
    BY <1>2, <2>1, <2>2
<1> HIDE DEF T
<1>3. n \in T
  BY <1>1, <1>2, UpTo
<1> QED
  BY <1>3 DEF T

LEMMA SevenBits == TwoTo[7] = 128
<1>1. TwoTo[1] = 2 /\ TwoTo[2] = 4 /\ TwoTo[3] = 8
  BY TwoToDoubles
<1>2. TwoTo[4] = 16 /\ TwoTo[5] = 32
  BY <1>1, TwoToDoubles
<1>3. TwoTo[6] = 64
  BY <1>2, TwoToDoubles
<1> QED
  BY <1>3, TwoToDoubles

(* The float64 of a price has seven bits or more behind its point.         *)
LEMMA ScaleIsFine ==
  ASSUME NEW minor \in 0..MaxPriceMinor
  PROVE  TwoTo[Scale(minor)] \in Nat /\ TwoTo[Scale(minor)] >= 128
<1> DEFINE room == 100 * TwoTo[Mantissa] - 1
           S == {k \in 0..Mantissa + 6 : minor <= room \div TwoTo[k]}
<1>1. Mantissa \in Nat /\ Mantissa >= 1 /\ MaxPriceMinor \in Nat
  BY WidthIsPositive, CeilingIsNat
<1>2. room \in Nat /\ minor * 128 <= room
  <2>1. TwoTo[Mantissa] \in Nat \ {0}
    BY <1>1, TwoToDoubles
  <2>2. MaxPriceMinor * 128 < 100 * TwoTo[Mantissa]
    BY CeilingFitsFloat, SevenBits
  <2> QED
    BY <1>1, <2>1, <2>2
<1> HIDE DEF room
<1>3. minor <= room \div 128
  BY <1>1, <1>2
<1>4. 7 \in S
  BY <1>1, <1>3, SevenBits
<1>5. S \in SUBSET (0..Mantissa + 6)
  OBVIOUS
<1>6. Scale(minor) = Max(S)
  BY DEF Scale, room
<1> HIDE DEF S
<1>7. Max(S) \in S /\ 7 <= Max(S)
  <2>1. Mantissa + 6 \in Nat /\ S # {}
    BY <1>1, <1>4
  <2>2. Max(S) \in S /\ \A k \in S : k <= Max(S)
    BY <1>5, <2>1, MaxUpTo, Zenon
  <2> QED
    BY <1>4, <2>2, Zenon
<1>8. Scale(minor) \in Nat /\ 7 <= Scale(minor)
  <2>1. \A k \in 0..Mantissa + 6 : k \in Nat
    BY <1>1
  <2>2. Max(S) \in 0..Mantissa + 6
    BY <1>5, <1>7, Zenon
  <2> QED
    BY <1>6, <1>7, <2>1, <2>2, Zenon
<1> QED
  BY <1>8, SevenBits, TwoToGrows, TwoToDoubles

LEMMA RoundedIsNear ==
  ASSUME NEW v \in Nat
  PROVE  /\ Rounded(v, 100) \in Nat
         /\ v - 50 <= 100 * Rounded(v, 100) /\ 100 * Rounded(v, 100) <= v + 50
<1> DEFINE q == v \div 100
           r == v % 100
           up == 2 * r > 100 \/ (2 * r = 100 /\ q % 2 = 1)
<1>1. q \in Nat /\ r \in Nat /\ r < 100 /\ v = 100 * q + r
  OBVIOUS
<1>2. Rounded(v, 100) = IF up THEN q + 1 ELSE q
  BY DEF Rounded
<1>3. (up => 2 * r >= 100) /\ (~up => 2 * r <= 100)
  BY <1>1
<1> HIDE DEF q, r, up
<1> QED
  BY <1>1, <1>2, <1>3

(* The binary fraction in the cell of a price is nearer to it than half a  *)
(* kopek.                                                                  *)
LEMMA PriceIsShown ==
  ASSUME NEW minor \in 0..MaxPriceMinor
  PROVE  Shows(InRubles(minor), minor)
<1> DEFINE unit == TwoTo[Scale(minor)]
           v == minor * unit
           digits == Rounded(v, 100)
<1>1. unit \in Nat /\ unit >= 128
  BY ScaleIsFine
<1>2. minor \in Nat
  BY CeilingIsNat
<1>3. InRubles(minor) = [digits |-> digits, unit |-> unit]
  BY DEF InRubles
<1> HIDE DEF unit
<1>4. v \in Nat
  BY <1>1, <1>2
<1>5. digits \in Nat /\ v - 50 <= 100 * digits /\ 100 * digits <= v + 50
  <2> HIDE DEF v
  <2> QED
    BY <1>4, RoundedIsNear
<1> HIDE DEF digits
<1>6. Shows(InRubles(minor), minor) <=>
        -unit < 2 * (100 * digits - v) /\ 2 * (100 * digits - v) < unit
  BY <1>3 DEF Shows
<1> HIDE DEF v
<1>7. -unit < 2 * (100 * digits - v) /\ 2 * (100 * digits - v) < unit
  BY <1>1, <1>4, <1>5
<1> QED
  BY <1>6, <1>7

ShowsHistory(rows) ==
  LET cells == Cells(rows)
      formats == Formats(rows)
  IN /\ DOMAIN formats = {c \in DOMAIN cells : c[2] > 1 /\ Headers[c[1]] \in {"price", "date"}}
     /\ \A i \in DOMAIN rows :
          /\ cells[<<1, i + 1>>] = rows[i].product
          /\ Shows(cells[<<2, i + 1>>], rows[i].price) /\ formats[<<2, i + 1>>] = "#,##0.00"
          /\ cells[<<3, i + 1>>] = rows[i].currency
          /\ cells[<<4, i + 1>>] = rows[i].date

(* A history of any length is shown row by row.                            *)
LEMMA HistoryIsShown ==
  ASSUME NEW rows, NEW size \in Nat, Len(rows) = size, DOMAIN rows = 1..size,
         rows = <<>> <=> size = 0,
         \A i \in 1..size : rows[i].price \in 0..MaxPriceMinor
  PROVE  ShowsHistory(rows)
<1> DEFINE cells == Cells(rows)
           formats == Formats(rows)
<1>1. DOMAIN cells = (1..4) \X (1..size + 1)
  BY DEF Cells
<1>2. ASSUME NEW c \in 1..4, NEW i \in 1..size
      PROVE  cells[<<c, i + 1>>] =
               IF c = 2 THEN InRubles(rows[i][Headers[2]]) ELSE rows[i][Headers[c]]
  <2>1. i + 1 \in 1..size + 1 /\ i + 1 # 1 /\ (i + 1) - 1 = i
    OBVIOUS
  <2>2. <<c, i + 1>> \in (1..4) \X (1..Len(rows) + 1)
    BY <2>1
  <2> QED
    BY <2>1, <2>2 DEF Cells
<1>3. \A i \in 1..4 : Headers[i] \in {"price", "date"} <=> i \in {2, 4}
  BY DEF Headers
<1>4. DOMAIN formats = IF size = 0 THEN {} ELSE {2, 4} \X (2..size + 1)
  BY DEF Formats, LastRow
<1>5. \A i \in 1..size : formats[<<2, i + 1>>] = "#,##0.00"
  <2> TAKE i \in 1..size
  <2>1. i + 1 \in 2..Len(rows) + 1 /\ rows # <<>>
    OBVIOUS
  <2> QED
    BY <2>1 DEF Formats, LastRow
<1> HIDE DEF cells, formats
<1>6. DOMAIN formats = {c \in DOMAIN cells : c[2] > 1 /\ Headers[c[1]] \in {"price", "date"}}
  <2>1. ASSUME NEW x, NEW y
        PROVE  <<x, y>> \in DOMAIN cells /\ y > 1 /\ Headers[x] \in {"price", "date"}
                 <=> size # 0 /\ x \in {2, 4} /\ y \in 2..size + 1
    <3>1. <<x, y>> \in DOMAIN cells <=> x \in 1..4 /\ y \in 1..size + 1
      BY <1>1
    <3>2. x \in {2, 4} => x \in 1..4
      OBVIOUS
    <3>3. size # 0 /\ y \in 2..size + 1 <=> y \in 1..size + 1 /\ y > 1
      OBVIOUS
    <3> QED
      BY <1>3, <3>1, <3>2, <3>3
  <2>2. CASE size = 0
    BY <1>1, <1>4, <2>1, <2>2
  <2>3. CASE size # 0
    BY <1>1, <1>4, <2>1, <2>3
  <2> QED
    BY <2>2, <2>3
<1>7. Headers[1] = "product" /\ Headers[2] = "price" /\ Headers[3] = "currency" /\ Headers[4] = "date"
  BY DEF Headers
<1>8. ASSUME NEW i \in 1..size
      PROVE  /\ cells[<<1, i + 1>>] = rows[i].product
             /\ Shows(cells[<<2, i + 1>>], rows[i].price)
             /\ cells[<<3, i + 1>>] = rows[i].currency
             /\ cells[<<4, i + 1>>] = rows[i].date
  <2>1. 1 \in 1..4 /\ 2 \in 1..4 /\ 3 \in 1..4 /\ 4 \in 1..4 /\ 1 # 2 /\ 3 # 2 /\ 4 # 2
    OBVIOUS
  <2>2. /\ cells[<<1, i + 1>>] = rows[i][Headers[1]] /\ cells[<<2, i + 1>>] = InRubles(rows[i][Headers[2]])
        /\ cells[<<3, i + 1>>] = rows[i][Headers[3]] /\ cells[<<4, i + 1>>] = rows[i][Headers[4]]
    BY <1>2, <2>1, Zenon
  <2>3. Shows(InRubles(rows[i].price), rows[i].price)
    BY PriceIsShown
  <2> QED
    BY <1>7, <2>2, <2>3, Zenon
<1> QED
  BY <1>5, <1>6, <1>8, Zenon DEF ShowsHistory, cells, formats

(* The workbook shows, in every column, what the rows of the history say,  *)
(* prices up to the ceiling to the kopek.                                  *)
THEOREM SheetHolds == Spec => []SheetIsTheHistory
<1>1. Counted => SheetIsTheHistory
  <2>1. ASSUME NEW price \in 0..MaxPriceMinor, NEW length \in 0..3
        PROVE  ShowsHistory([i \in 1..length |-> [product |-> i, price |-> price \div i,
                                     currency |-> "RUB", date |-> number + i]])
    <3> DEFINE rows == [i \in 1..length |-> [product |-> i, price |-> price \div i,
                                     currency |-> "RUB", date |-> number + i]]
    <3>1. length \in Nat /\ Len(rows) = length /\ DOMAIN rows = 1..length
      OBVIOUS
    <3>2. rows = <<>> <=> length = 0
      <4>1. length = 0 => 1..length = {}
        OBVIOUS
      <4>2. length = 0 => rows = <<>>
        BY <4>1
      <4>3. Len(<<>>) = 0
        OBVIOUS
      <4> QED
        BY <3>1, <4>2, <4>3
    <3>3. \A i \in 1..length : rows[i].price \in 0..MaxPriceMinor
      <4>1. ASSUME NEW i \in 1..length PROVE price \div i \in 0..MaxPriceMinor
        <5>1. price \in Nat /\ MaxPriceMinor \in Nat /\ (i = 1 \/ i = 2 \/ i = 3)
          BY CeilingIsNat
        <5>2. price \div 1 \in 0..price /\ price \div 2 \in 0..price /\ price \div 3 \in 0..price
          BY <5>1
        <5> QED
          BY <5>1, <5>2
      <4> QED
        BY <4>1
    <3> HIDE DEF rows
    <3>4. ShowsHistory(rows)
      BY <3>1, <3>2, <3>3, HistoryIsShown
    <3> QED
      BY <3>4 DEF rows
  <2> QED
    BY <2>1, Zenon DEF SheetIsTheHistory, ShowsHistory
<1> QED
  BY <1>1, NumberIsNat, PTL

-----------------------------------------------------------------------------
(* Folds.                                                                  *)

Folds(n, V, base, step) ==
  {h \in [SUBSET (1..n) -> V] : \A t \in SUBSET (1..n) :
     h[t] = IF t = {} THEN base ELSE step[<<Max(t), h[t \ {Max(t)}]>>]}

LEMMA FoldExists ==
  ASSUME NEW n \in Nat, NEW V, NEW base \in V, NEW step \in [(1..n) \X V -> V]
  PROVE  Folds(n, V, base, step) # {}
<1> DEFINE T == {k \in 0..n : Folds(k, V, base, step) # {}}
<1>1. 0 \in T
  <2> DEFINE h == [t \in SUBSET (1..0) |-> base]
  <2>1. h \in Folds(0, V, base, step)
    BY DEF Folds
  <2> QED
    BY <2>1
<1>2. ASSUME NEW k \in 1..n, k - 1 \in T PROVE k \in T
  <2>1. PICK g : g \in Folds(k - 1, V, base, step)
    BY <1>2
  <2> DEFINE Below == SUBSET (1..(k - 1))
  <2>2. /\ g \in [Below -> V]
        /\ \A t \in Below : g[t] = IF t = {} THEN base ELSE step[<<Max(t), g[t \ {Max(t)}]>>]
    BY <2>1 DEF Folds
  <2> DEFINE h == [t \in SUBSET (1..k) |-> IF k \in t THEN step[<<k, g[t \ {k}]>>] ELSE g[t]]
  <2>3. ASSUME NEW t \in SUBSET (1..k)
        PROVE  t \ {k} \in Below /\ (k \notin t => t \in Below)
    OBVIOUS
  <2>4. h \in [SUBSET (1..k) -> V]
    <3> SUFFICES ASSUME NEW t \in SUBSET (1..k)
                 PROVE  (IF k \in t THEN step[<<k, g[t \ {k}]>>] ELSE g[t]) \in V
      OBVIOUS
    <3>1. g[t \ {k}] \in V /\ (k \notin t => g[t] \in V)
      BY <2>2, <2>3
    <3>2. <<k, g[t \ {k}]>> \in (1..n) \X V
      BY <3>1
    <3> QED
      BY <3>1, <3>2
  <2>5. ASSUME NEW t \in SUBSET (1..k)
        PROVE  h[t] = IF t = {} THEN base ELSE step[<<Max(t), h[t \ {Max(t)}]>>]
    <3>1. CASE k \in t
      <4>1. Max(t) = k
        <5>1. t \subseteq Int /\ \A i \in t : i <= k
          OBVIOUS
        <5> QED
          BY <3>1, <5>1, MaxOfSet
      <4>2. h[t \ {k}] = g[t \ {k}]
        BY <2>3
      <4> QED
        BY <3>1, <4>1, <4>2
    <3>2. CASE k \notin t
      <4>1. t \in Below /\ h[t] = g[t]
        BY <2>3, <3>2
      <4>2. t \ {Max(t)} \in SUBSET (1..k) /\ k \notin t \ {Max(t)}
        BY <3>2
      <4>3. h[t \ {Max(t)}] = g[t \ {Max(t)}]
        BY <4>2
      <4> QED
        BY <2>2, <4>1, <4>3
    <3> QED
      BY <3>1, <3>2
  <2> HIDE DEF h
  <2>6. h \in Folds(k, V, base, step)
    BY <2>4, <2>5 DEF Folds
  <2> QED
    BY <2>6
<1> HIDE DEF T
<1>3. \A k \in 0..n : k \in T
  BY <1>1, <1>2, UpTo
<1> QED
  BY <1>3 DEF T

LEMMA FirstPositions ==
  ASSUME NEW n \in Nat, NEW k \in 1..n
  PROVE  /\ 1..k \in SUBSET (1..n) /\ 1..k # {} /\ Max(1..k) = k
         /\ (1..k) \ {Max(1..k)} = 1..(k - 1) /\ 1..0 = {}
<1>1. Max(1..k) = k
  <2>1. k \in 1..k /\ 1..k \subseteq Int /\ \A i \in 1..k : i <= k
    OBVIOUS
  <2> QED
    BY <2>1, MaxOfSet
<1> QED
  BY <1>1

-----------------------------------------------------------------------------
(* Keep.                                                                   *)

(* The texts kept of the first characters of s.                            *)
KeepTables(s, kept) ==
  {h \in [0..Len(s) -> Seq(kept)] :
     /\ h[0] = <<>>
     /\ \A k \in 1..Len(s) :
          h[k] = IF s[k] \in kept THEN Append(h[k - 1], s[k]) ELSE h[k - 1]}

LEMMA KeepIsTable ==
  ASSUME NEW C, NEW s \in Seq(C), NEW kept
  PROVE  \E h \in KeepTables(s, kept) : Keep(s, kept) = h[Len(s)]
<1> DEFINE n == Len(s)
           V == Seq(kept)
           step == [x \in (1..n) \X V |-> IF s[x[1]] \in kept THEN Append(x[2], s[x[1]]) ELSE x[2]]
           IsFold(iter) ==
             iter = [t \in SUBSET DOMAIN s |->
                       IF t = {} THEN <<>>
                       ELSE IF s[Max(t)] \in kept THEN Append(iter[t \ {Max(t)}], s[Max(t)])
                            ELSE iter[t \ {Max(t)}]]
           iter == CHOOSE i : IsFold(i)
<1>1. n \in Nat /\ DOMAIN s = 1..n
  OBVIOUS
<1>2. Keep(s, kept) = iter[1..n]
  BY <1>1 DEF Keep, FoldLeft, MapThenFoldSet
<1>3. \E i : IsFold(i)
  <2>1. step \in [(1..n) \X V -> V]
    <3> SUFFICES ASSUME NEW x \in (1..n) \X V
                 PROVE  (IF s[x[1]] \in kept THEN Append(x[2], s[x[1]]) ELSE x[2]) \in V
      OBVIOUS
    <3> QED
      OBVIOUS
  <2>2. <<>> \in V
    OBVIOUS
  <2> HIDE DEF V, step
  <2>3. PICK h : h \in Folds(n, V, <<>>, step)
    BY <1>1, <2>1, <2>2, FoldExists
  <2>4. h \in [SUBSET (1..n) -> V]
        /\ \A t \in SUBSET (1..n) :
             h[t] = IF t = {} THEN <<>> ELSE step[<<Max(t), h[t \ {Max(t)}]>>]
    BY <2>3 DEF Folds
  <2>5. ASSUME NEW t \in SUBSET (1..n), t # {}
        PROVE  h[t] = IF s[Max(t)] \in kept THEN Append(h[t \ {Max(t)}], s[Max(t)])
                      ELSE h[t \ {Max(t)}]
    <3>1. Max(t) \in 1..n
      BY <1>1, <2>5, MaxIsIn
    <3>2. h[t \ {Max(t)}] \in V
      BY <2>4
    <3>3. h[t] = step[<<Max(t), h[t \ {Max(t)}]>>]
      BY <2>4, <2>5
    <3> QED
      BY <3>1, <3>2, <3>3 DEF step
  <2>6. h = [t \in SUBSET DOMAIN s |-> h[t]]
    BY <1>1, <2>4
  <2>7. IsFold(h)
    BY <1>1, <2>4, <2>5, <2>6
  <2> QED
    BY <2>7
<1>4. IsFold(iter)
  BY <1>3
<1> HIDE DEF iter
<1>5. \A k \in 0..n : iter[1..k] = IF k = 0 THEN <<>>
                                  ELSE IF s[k] \in kept THEN Append(iter[1..(k - 1)], s[k])
                                       ELSE iter[1..(k - 1)]
  <2> TAKE k \in 0..n
  <2>1. ASSUME NEW t \in SUBSET DOMAIN s
        PROVE  iter[t] = IF t = {} THEN <<>>
                         ELSE IF s[Max(t)] \in kept THEN Append(iter[t \ {Max(t)}], s[Max(t)])
                              ELSE iter[t \ {Max(t)}]
    BY <1>4
  <2>2. CASE k = 0
    <3>1. 1..k = {} /\ 1..k \in SUBSET DOMAIN s
      BY <2>2
    <3> QED
      BY <2>1, <2>2, <3>1
  <2>3. CASE k # 0
    <3>1. 1..k \in SUBSET (1..n) /\ 1..k # {} /\ Max(1..k) = k
          /\ (1..k) \ {Max(1..k)} = 1..(k - 1)
      BY <1>1, <2>3, FirstPositions
    <3>2. iter[1..k] = IF s[Max(1..k)] \in kept
                       THEN Append(iter[(1..k) \ {Max(1..k)}], s[Max(1..k)])
                       ELSE iter[(1..k) \ {Max(1..k)}]
      BY <1>1, <2>1, <3>1
    <3> QED
      BY <2>3, <3>1, <3>2
  <2> QED
    BY <2>2, <2>3
<1> HIDE DEF IsFold
<1> DEFINE h == [k \in 0..n |-> iter[1..k]]
<1>6. /\ h[0] = <<>>
      /\ \A k \in 1..n : h[k] = IF s[k] \in kept THEN Append(h[k - 1], s[k]) ELSE h[k - 1]
  BY <1>1, <1>5
<1>7. h[n] = iter[1..n] /\ DOMAIN h = 0..n /\ h = [k \in 0..n |-> h[k]]
  BY <1>1
<1> HIDE DEF h
<1>8. \A k \in 0..n : h[k] \in V
  <2> DEFINE T == {k \in 0..n : h[k] \in V}
  <2>0. <<>> \in V /\ \A v \in V, c \in kept : Append(v, c) \in V
    OBVIOUS
  <2> HIDE DEF V, step
  <2>1. 0 \in T
    BY <1>1, <1>6, <2>0
  <2>2. \A k \in 1..n : k - 1 \in T => k \in T
    BY <1>1, <1>6, <2>0
  <2> HIDE DEF T
  <2>3. \A k \in 0..n : k \in T
    BY <1>1, <2>1, <2>2, UpTo
  <2> QED
    BY <2>3 DEF T
<1>9. h \in [0..n -> V]
  BY <1>7, <1>8
<1>10. h \in KeepTables(s, kept)
  BY <1>6, <1>9 DEF KeepTables
<1> QED
  BY <1>2, <1>7, <1>10

LEMMA KeepTablesAgree ==
  ASSUME NEW C, NEW s \in Seq(C), NEW kept, NEW h \in KeepTables(s, kept)
  PROVE  h[Len(s)] = Keep(s, kept)
<1>1. PICK g \in KeepTables(s, kept) : Keep(s, kept) = g[Len(s)]
  BY KeepIsTable
<1> DEFINE T == {k \in 0..Len(s) : g[k] = h[k]}
<1>2. Len(s) \in Nat
  OBVIOUS
<1>3. 0 \in T
  BY <1>2 DEF KeepTables
<1>4. \A k \in 1..Len(s) : k - 1 \in T => k \in T
  BY <1>2 DEF KeepTables
<1> HIDE DEF T
<1>5. \A k \in 0..Len(s) : k \in T
  BY <1>2, <1>3, <1>4, UpTo
<1> QED
  BY <1>1, <1>2, <1>5 DEF T

LEMMA KeepEmpty ==
  ASSUME NEW kept
  PROVE  Keep(<<>>, kept) = <<>>
<1>1. <<>> \in Seq({}) /\ Len(<<>>) = 0
  BY EmptySeq
<1>2. PICK h \in KeepTables(<<>>, kept) : Keep(<<>>, kept) = h[Len(<<>>)]
  BY <1>1, KeepIsTable
<1> QED
  BY <1>1, <1>2 DEF KeepTables

LEMMA AppendFacts ==
  ASSUME NEW C, NEW s \in Seq(C), NEW c \in C
  PROVE  /\ Append(s, c) \in Seq(C) /\ Len(Append(s, c)) = Len(s) + 1
         /\ Len(s) \in Nat
         /\ Append(s, c)[Len(s) + 1] = c
         /\ \A i \in 1..Len(s) : Append(s, c)[i] = s[i] /\ s[i] \in C
OBVIOUS

LEMMA KeepAppend ==
  ASSUME NEW C, NEW s \in Seq(C), NEW c \in C, NEW kept
  PROVE  Keep(Append(s, c), kept) =
           IF c \in kept THEN Append(Keep(s, kept), c) ELSE Keep(s, kept)
<1> DEFINE t == Append(s, c)
           n == Len(s)
<1>1. /\ t \in Seq(C) /\ Len(t) = n + 1 /\ n \in Nat /\ t[n + 1] = c
      /\ \A i \in 1..n : t[i] = s[i]
  BY AppendFacts
<1> HIDE DEF t
<1>2. PICK h \in KeepTables(t, kept) : Keep(t, kept) = h[Len(t)]
  BY <1>1, KeepIsTable
<1>3. /\ h \in [0..n + 1 -> Seq(kept)] /\ h[0] = <<>>
      /\ \A k \in 1..n + 1 : h[k] = IF t[k] \in kept THEN Append(h[k - 1], t[k]) ELSE h[k - 1]
  BY <1>1, <1>2 DEF KeepTables
<1> DEFINE g == [k \in 0..n |-> h[k]]
<1>4. g \in [0..n -> Seq(kept)] /\ g[0] = <<>>
  BY <1>1, <1>3
<1>5. ASSUME NEW k \in 1..n
      PROVE  g[k] = IF s[k] \in kept THEN Append(g[k - 1], s[k]) ELSE g[k - 1]
  <2>1. k \in 1..n + 1 /\ k \in 0..n /\ k - 1 \in 0..n /\ t[k] = s[k]
    BY <1>1
  <2>2. g[k] = h[k] /\ g[k - 1] = h[k - 1]
    BY <2>1
  <2> QED
    BY <1>3, <2>1, <2>2
<1>6. g[n] = h[n]
  BY <1>1
<1> HIDE DEF g
<1>7. g \in KeepTables(s, kept)
  BY <1>4, <1>5 DEF KeepTables
<1>8. Keep(s, kept) = h[n]
  BY <1>6, <1>7, KeepTablesAgree
<1>9. n + 1 \in 1..n + 1 /\ (n + 1) - 1 = n
  BY <1>1
<1>10. h[n + 1] = IF t[n + 1] \in kept THEN Append(h[n], t[n + 1]) ELSE h[n]
  BY <1>3, <1>9
<1> QED
  BY <1>1, <1>2, <1>8, <1>10 DEF t

LEMMA KeepType ==
  ASSUME NEW C, NEW s \in Seq(C), NEW kept
  PROVE  Keep(s, kept) \in Seq(C \cap kept)
<1> DEFINE T == {u \in Seq(C) : Keep(u, kept) \in Seq(C \cap kept)}
<1>1. <<>> \in T
  BY KeepEmpty, EmptySeq
<1>2. ASSUME NEW u \in Seq(C), NEW c \in C, u \in T PROVE Append(u, c) \in T
  <2>1. Keep(Append(u, c), kept) = IF c \in kept THEN Append(Keep(u, kept), c) ELSE Keep(u, kept)
    BY KeepAppend
  <2>2. \A v \in Seq(C \cap kept) : c \in kept => Append(v, c) \in Seq(C \cap kept)
    OBVIOUS
  <2>3. Append(u, c) \in Seq(C)
    OBVIOUS
  <2> QED
    BY <1>2, <2>1, <2>2, <2>3
<1> HIDE DEF T
<1>3. Seq(C) \subseteq T
  BY <1>1, <1>2, OnSequences
<1> QED
  BY <1>3 DEF T

LEMMA ConcatAppend ==
  ASSUME NEW C, NEW s \in Seq(C), NEW t \in Seq(C), NEW c \in C
  PROVE  /\ s \o Append(t, c) = Append(s \o t, c)
         /\ s \o t \in Seq(C) /\ s \o <<>> = s /\ <<>> \o s = s
<1>1. s \o t \in Seq(C) /\ s \o <<>> = s /\ <<>> \o s = s
  BY ConcatProperties, ConcatEmptySeq
<1>2. Append(t, c) = t \o <<c>> /\ Append(s \o t, c) = (s \o t) \o <<c>> /\ <<c>> \in Seq(C)
  BY <1>1
<1> QED
  BY <1>1, <1>2, ConcatAssociative

LEMMA KeepConcat ==
  ASSUME NEW C, NEW s \in Seq(C), NEW t \in Seq(C), NEW kept
  PROVE  Keep(s \o t, kept) = Keep(s, kept) \o Keep(t, kept)
<1> DEFINE T == {u \in Seq(C) : Keep(s \o u, kept) = Keep(s, kept) \o Keep(u, kept)}
<1>1. <<>> \in T
  <2>1. <<>> \in Seq(C) /\ s \o <<>> = s /\ Keep(s, kept) \o <<>> = Keep(s, kept)
    BY EmptySeq, ConcatEmptySeq, KeepType
  <2> QED
    BY <2>1, KeepEmpty
<1>2. ASSUME NEW u \in Seq(C), NEW c \in C, u \in T PROVE Append(u, c) \in T
  <2>1. /\ Append(u, c) \in Seq(C) /\ s \o Append(u, c) = Append(s \o u, c)
        /\ s \o u \in Seq(C)
    BY ConcatAppend, AppendFacts
  <2>2. Keep(Append(u, c), kept) = IF c \in kept THEN Append(Keep(u, kept), c) ELSE Keep(u, kept)
    BY KeepAppend
  <2>3. Keep(Append(s \o u, c), kept) =
          IF c \in kept THEN Append(Keep(s \o u, kept), c) ELSE Keep(s \o u, kept)
    BY <2>1, KeepAppend
  <2>4. Keep(s \o u, kept) = Keep(s, kept) \o Keep(u, kept)
    BY <1>2
  <2>5. c \in kept => Keep(s, kept) \o Append(Keep(u, kept), c) =
                        Append(Keep(s, kept) \o Keep(u, kept), c)
    <3>1. Keep(s, kept) \in Seq(C \cap kept) /\ Keep(u, kept) \in Seq(C \cap kept)
      BY KeepType
    <3>2. c \in kept => c \in C \cap kept
      OBVIOUS
    <3> QED
      BY <3>1, <3>2, ConcatAppend
  <2> QED
    BY <2>1, <2>2, <2>3, <2>4, <2>5
<1> HIDE DEF T
<1>3. Seq(C) \subseteq T
  BY <1>1, <1>2, OnSequences
<1> QED
  BY <1>3 DEF T

(* What is kept of s depends on the characters of s only.                  *)
LEMMA KeepSame ==
  ASSUME NEW C, NEW s \in Seq(C), NEW J, NEW K, C \cap J = C \cap K
  PROVE  Keep(s, J) = Keep(s, K)
<1> DEFINE T == {u \in Seq(C) : Keep(u, J) = Keep(u, K)}
<1>1. <<>> \in T
  BY KeepEmpty, EmptySeq
<1>2. ASSUME NEW u \in Seq(C), NEW c \in C, u \in T PROVE Append(u, c) \in T
  <2>1. Keep(Append(u, c), J) = IF c \in J THEN Append(Keep(u, J), c) ELSE Keep(u, J)
    BY KeepAppend
  <2>2. Keep(Append(u, c), K) = IF c \in K THEN Append(Keep(u, K), c) ELSE Keep(u, K)
    BY KeepAppend
  <2>3. Append(u, c) \in Seq(C) /\ (c \in J <=> c \in K)
    OBVIOUS
  <2> QED
    BY <1>2, <2>1, <2>2, <2>3
<1> HIDE DEF T
<1>3. Seq(C) \subseteq T
  BY <1>1, <1>2, OnSequences
<1> QED
  BY <1>3 DEF T

LEMMA KeepAll ==
  ASSUME NEW C, NEW s \in Seq(C), NEW K, C \subseteq K
  PROVE  Keep(s, K) = s
<1> DEFINE T == {u \in Seq(C) : Keep(u, K) = u}
<1>1. <<>> \in T
  BY KeepEmpty, EmptySeq
<1>2. ASSUME NEW u \in Seq(C), NEW c \in C, u \in T PROVE Append(u, c) \in T
  <2>1. Keep(Append(u, c), K) = IF c \in K THEN Append(Keep(u, K), c) ELSE Keep(u, K)
    BY KeepAppend
  <2>2. Append(u, c) \in Seq(C) /\ c \in K
    OBVIOUS
  <2> QED
    BY <1>2, <2>1, <2>2
<1> HIDE DEF T
<1>3. Seq(C) \subseteq T
  BY <1>1, <1>2, OnSequences
<1> QED
  BY <1>3 DEF T

LEMMA KeepNone ==
  ASSUME NEW C, NEW s \in Seq(C), NEW K, C \cap K = {}
  PROVE  Keep(s, K) = <<>>
<1>1. Keep(s, K) \in Seq({})
  BY KeepType
<1>2. \A u \in Seq({}) : u = <<>>
  <2> TAKE u \in Seq({})
  <2>1. Len(u) \in Nat \ {0} => u[1] \in {}
    BY ElementOfSeq
  <2> QED
    BY <2>1, EmptySeq
<1> QED
  BY <1>1, <1>2

LEMMA KeepKeep ==
  ASSUME NEW C, NEW s \in Seq(C), NEW J, NEW K
  PROVE  Keep(Keep(s, J), K) = Keep(s, J \cap K)
<1> DEFINE T == {u \in Seq(C) : Keep(Keep(u, J), K) = Keep(u, J \cap K)}
<1>1. <<>> \in T
  BY KeepEmpty, EmptySeq
<1>2. ASSUME NEW u \in Seq(C), NEW c \in C, u \in T PROVE Append(u, c) \in T
  <2>1. Keep(Append(u, c), J) = IF c \in J THEN Append(Keep(u, J), c) ELSE Keep(u, J)
    BY KeepAppend
  <2>2. Keep(Append(u, c), J \cap K) =
          IF c \in J \cap K THEN Append(Keep(u, J \cap K), c) ELSE Keep(u, J \cap K)
    BY KeepAppend
  <2>3. ASSUME c \in J
        PROVE  Keep(Append(Keep(u, J), c), K) =
                 IF c \in K THEN Append(Keep(Keep(u, J), K), c) ELSE Keep(Keep(u, J), K)
    <3> DEFINE v == Keep(u, J)
               D == C \cap J
    <3>1. v \in Seq(D) /\ c \in D
      BY <2>3, KeepType
    <3> HIDE DEF v, D
    <3>2. Keep(Append(v, c), K) = IF c \in K THEN Append(Keep(v, K), c) ELSE Keep(v, K)
      BY <3>1, KeepAppend
    <3> QED
      BY <3>2 DEF v
  <2>4. Append(u, c) \in Seq(C) /\ Keep(Keep(u, J), K) = Keep(u, J \cap K)
    BY <1>2
  <2>5. Keep(Keep(Append(u, c), J), K) = Keep(Append(u, c), J \cap K)
    <3>1. CASE c \in J /\ c \in K
      BY <2>1, <2>2, <2>3, <2>4, <3>1
    <3>2. CASE c \in J /\ c \notin K
      BY <2>1, <2>2, <2>3, <2>4, <3>2
    <3>3. CASE c \notin J
      BY <2>1, <2>2, <2>4, <3>3
    <3> QED
      BY <3>1, <3>2, <3>3
  <2> QED
    BY <2>4, <2>5
<1> HIDE DEF T
<1>3. Seq(C) \subseteq T
  BY <1>1, <1>2, OnSequences
<1> QED
  BY <1>3 DEF T

LEMMA KeepCounts ==
  ASSUME NEW C, NEW s \in Seq(C), NEW K
  PROVE  /\ IsFiniteSet({i \in 1..Len(s) : s[i] \in K})
         /\ Len(Keep(s, K)) = Cardinality({i \in 1..Len(s) : s[i] \in K})
<1> DEFINE At(u) == {i \in 1..Len(u) : u[i] \in K}
           T == {u \in Seq(C) : IsFiniteSet(At(u)) /\ Len(Keep(u, K)) = Cardinality(At(u))}
<1>1. <<>> \in T
  <2>1. <<>> \in Seq(C) /\ Len(<<>>) = 0 /\ At(<<>>) = {}
    BY EmptySeq
  <2> QED
    BY <2>1, KeepEmpty, FS_EmptySet
<1>2. ASSUME NEW u \in Seq(C), NEW c \in C, u \in T PROVE Append(u, c) \in T
  <2>1. Keep(Append(u, c), K) = IF c \in K THEN Append(Keep(u, K), c) ELSE Keep(u, K)
    BY KeepAppend
  <2>2. /\ Append(u, c) \in Seq(C) /\ Len(Append(u, c)) = Len(u) + 1 /\ Len(u) \in Nat
        /\ Append(u, c)[Len(u) + 1] = c
        /\ \A i \in 1..Len(u) : Append(u, c)[i] = u[i]
    BY AppendFacts
  <2>3. At(Append(u, c)) = IF c \in K THEN At(u) \cup {Len(u) + 1} ELSE At(u)
    <3> DEFINE v == Append(u, c)
    <3>1. \A i : i \in 1..Len(v) <=> i \in 1..Len(u) \/ i = Len(u) + 1
      BY <2>2
    <3> QED
      BY <2>2, <3>1
  <2>4. Len(u) + 1 \notin At(u)
    BY <2>2
  <2>5. IsFiniteSet(At(u)) /\ Len(Keep(u, K)) = Cardinality(At(u)) /\ Cardinality(At(u)) \in Nat
    BY <1>2, FS_CardinalityType
  <2>6. /\ IsFiniteSet(At(u) \cup {Len(u) + 1})
        /\ Cardinality(At(u) \cup {Len(u) + 1}) = Cardinality(At(u)) + 1
    BY <2>4, <2>5, FS_AddElement
  <2>7. c \in K => Len(Append(Keep(u, K), c)) = Len(Keep(u, K)) + 1
    <3>1. Keep(u, K) \in Seq(C \cap K) /\ (c \in K => c \in C \cap K)
      BY KeepType
    <3> QED
      BY <3>1, AppendFacts
  <2> QED
    BY <2>1, <2>2, <2>3, <2>5, <2>6, <2>7
<1> HIDE DEF T
<1>3. Seq(C) \subseteq T
  BY <1>1, <1>2, OnSequences
<1> QED
  BY <1>3 DEF T

-----------------------------------------------------------------------------
(* Number.                                                                 *)

LEMMA DigitValues ==
  /\ \A c : DigitValue(c) \in Int
  /\ \A i \in 0..9 : Digits[i + 1] \in DigitSet /\ DigitValue(Digits[i + 1]) = i
  /\ \A c \in DigitSet : DigitValue(c) \in 0..9
<1>1. Len(Digits) = 10 /\ DOMAIN Digits = 1..10
  BY DEF Digits
<1>2. \A i, j \in 1..10 : Digits[i] = Digits[j] => i = j
  BY DEF Digits
<1> DEFINE At(c) == {i \in 1..10 : Digits[i] = c}
<1>3. ASSUME NEW c
      PROVE  /\ DigitValue(c) = (IF At(c) # {} THEN Min(At(c)) ELSE 0) - 1
             /\ At(c) # {} => Min(At(c)) \in At(c)
  <2>1. DigitValue(c) = (IF At(c) # {} THEN Min(At(c)) ELSE 0) - 1
    BY <1>1 DEF DigitValue, SelectInSeq
  <2>2. ASSUME At(c) # {} PROVE Min(At(c)) \in At(c)
    <3>1. At(c) \subseteq Nat
      OBVIOUS
    <3>2. \E x \in At(c) : \A y \in At(c) : x <= y
      BY <2>2, <3>1, Least
    <3> QED
      BY <3>2 DEF Min
  <2> QED
    BY <2>1, <2>2
<1>4. \A c : DigitValue(c) \in Int
  <2> TAKE c
  <2>1. \A i \in At(c) : i \in Int
    OBVIOUS
  <2> HIDE DEF At
  <2>2. /\ DigitValue(c) = (IF At(c) # {} THEN Min(At(c)) ELSE 0) - 1
        /\ At(c) # {} => Min(At(c)) \in At(c)
    BY <1>3
  <2> QED
    BY <2>1, <2>2
<1>5. ASSUME NEW i \in 0..9
      PROVE  Digits[i + 1] \in DigitSet /\ DigitValue(Digits[i + 1]) = i
  <2>1. i + 1 \in At(Digits[i + 1]) /\ i + 1 \in DOMAIN Digits
    BY <1>1
  <2>2. Min(At(Digits[i + 1])) = i + 1
    <3>1. \A j \in At(Digits[i + 1]) : j = i + 1
      BY <1>2, <2>1
    <3> QED
      BY <1>3, <2>1, <3>1
  <2> QED
    BY <1>3, <2>1, <2>2 DEF DigitSet, ToSet
<1>6. ASSUME NEW c \in DigitSet PROVE DigitValue(c) \in 0..9
  <2>1. PICK i \in 1..10 : c = Digits[i]
    BY <1>1 DEF DigitSet, ToSet
  <2>2. i - 1 \in 0..9 /\ (i - 1) + 1 = i
    OBVIOUS
  <2> QED
    BY <1>5, <2>1, <2>2
<1> QED
  BY <1>4, <1>5, <1>6

NumberTables(s) ==
  {h \in [0..Len(s) -> Int] :
     h[0] = 0 /\ \A k \in 1..Len(s) : h[k] = 10 * h[k - 1] + DigitValue(s[k])}

LEMMA NumberIsTable ==
  ASSUME NEW C, NEW s \in Seq(C)
  PROVE  \E h \in NumberTables(s) : Number(s) = h[Len(s)]
<1> DEFINE n == Len(s)
           step == [x \in (1..n) \X Int |-> 10 * x[2] + DigitValue(s[x[1]])]
           IsFold(iter) ==
             iter = [t \in SUBSET DOMAIN s |->
                       IF t = {} THEN 0
                       ELSE 10 * iter[t \ {Max(t)}]
                              + DigitValue(s[Max(t)])]
           iter == CHOOSE i : IsFold(i)
<1>1. n \in Nat /\ DOMAIN s = 1..n
  OBVIOUS
<1>2. Number(s) = iter[1..n]
  BY <1>1 DEF Number, FoldLeft, MapThenFoldSet
<1>3. \E i : IsFold(i)
  <2> DEFINE V == Int
  <2>1. step \in [(1..n) \X V -> V] /\ 0 \in V
    <3>1. ASSUME NEW x \in (1..n) \X Int PROVE 10 * x[2] + DigitValue(s[x[1]]) \in Int
      <4>1. x[2] \in Int /\ DigitValue(s[x[1]]) \in Int
        BY DigitValues
      <4> QED
        BY <4>1
    <3> QED
      BY <3>1
  <2> HIDE DEF step, V
  <2>2. PICK h : h \in Folds(n, V, 0, step)
    BY <1>1, <2>1, FoldExists
  <2> USE DEF V
  <2>3. h \in [SUBSET (1..n) -> Int]
        /\ \A t \in SUBSET (1..n) :
             h[t] = IF t = {} THEN 0 ELSE step[<<Max(t), h[t \ {Max(t)}]>>]
    BY <2>2 DEF Folds
  <2>4. ASSUME NEW t \in SUBSET (1..n), t # {}
        PROVE  h[t] = 10 * h[t \ {Max(t)}]
                        + DigitValue(s[Max(t)])
    <3>1. Max(t) \in 1..n
      BY <1>1, <2>4, MaxIsIn
    <3>2. h[t \ {Max(t)}] \in Int
      BY <2>3
    <3>3. h[t] = step[<<Max(t), h[t \ {Max(t)}]>>]
      BY <2>3, <2>4
    <3> QED
      BY <3>1, <3>2, <3>3 DEF step
  <2>5. h = [t \in SUBSET DOMAIN s |-> h[t]]
    BY <1>1, <2>3
  <2>6. IsFold(h)
    BY <1>1, <2>3, <2>4, <2>5
  <2> QED
    BY <2>6
<1>4. IsFold(iter)
  BY <1>3
<1> HIDE DEF iter
<1>5. \A k \in 0..n : iter[1..k] = IF k = 0 THEN 0
                                  ELSE 10 * iter[1..(k - 1)]
                                         + DigitValue(s[k])
  <2> TAKE k \in 0..n
  <2>1. ASSUME NEW t \in SUBSET DOMAIN s
        PROVE  iter[t] = IF t = {} THEN 0
                         ELSE 10 * iter[t \ {Max(t)}]
                                + DigitValue(s[Max(t)])
    BY <1>4
  <2>2. CASE k = 0
    <3>1. 1..k = {} /\ 1..k \in SUBSET DOMAIN s
      BY <2>2
    <3> QED
      BY <2>1, <2>2, <3>1
  <2>3. CASE k # 0
    <3>1. 1..k \in SUBSET (1..n) /\ 1..k # {} /\ Max(1..k) = k
          /\ (1..k) \ {Max(1..k)} = 1..(k - 1)
      BY <1>1, <2>3, FirstPositions
    <3>2. iter[1..k] = 10 * iter[(1..k) \ {Max(1..k)}]
                         + DigitValue(s[Max(1..k)])
      BY <1>1, <2>1, <3>1
    <3> QED
      BY <2>3, <3>1, <3>2
  <2> QED
    BY <2>2, <2>3
<1> HIDE DEF IsFold
<1> DEFINE h == [k \in 0..n |-> iter[1..k]]
<1>6. /\ h[0] = 0
      /\ \A k \in 1..n : h[k] = 10 * h[k - 1] + DigitValue(s[k])
  BY <1>1, <1>5
<1>7. h[n] = iter[1..n] /\ DOMAIN h = 0..n /\ h = [k \in 0..n |-> h[k]]
  BY <1>1
<1> HIDE DEF h
<1>8. \A k \in 0..n : h[k] \in Int
  <2> DEFINE T == {k \in 0..n : h[k] \in Int}
  <2>1. 0 \in T
    BY <1>1, <1>6
  <2>2. ASSUME NEW k \in 1..n, k - 1 \in T PROVE k \in T
    <3>1. h[k - 1] \in Int /\ DigitValue(s[k]) \in Int
      BY <2>2, DigitValues
    <3>2. h[k] = 10 * h[k - 1] + DigitValue(s[k])
      BY <1>6
    <3>3. \A x, y \in Int : 10 * x + y \in Int
      OBVIOUS
    <3>4. h[k] \in Int
      BY <3>1, <3>2, <3>3, Zenon
    <3>5. k \in 0..n
      BY <1>1
    <3> QED
      BY <3>4, <3>5
  <2> HIDE DEF T
  <2>3. \A k \in 0..n : k \in T
    BY <1>1, <2>1, <2>2, UpTo
  <2> QED
    BY <2>3 DEF T
<1>9. h \in NumberTables(s)
  BY <1>6, <1>7, <1>8 DEF NumberTables
<1> QED
  BY <1>2, <1>7, <1>9

LEMMA NumberTablesAgree ==
  ASSUME NEW C, NEW s \in Seq(C), NEW h \in NumberTables(s)
  PROVE  h[Len(s)] = Number(s)
<1>1. PICK g \in NumberTables(s) : Number(s) = g[Len(s)]
  BY NumberIsTable
<1> DEFINE T == {k \in 0..Len(s) : g[k] = h[k]}
<1>2. Len(s) \in Nat
  OBVIOUS
<1>3. 0 \in T
  BY <1>2 DEF NumberTables
<1>4. \A k \in 1..Len(s) : k - 1 \in T => k \in T
  BY <1>2 DEF NumberTables
<1> HIDE DEF T
<1>5. \A k \in 0..Len(s) : k \in T
  BY <1>2, <1>3, <1>4, UpTo
<1> QED
  BY <1>1, <1>2, <1>5 DEF T

LEMMA NumberEmpty == Number(<<>>) = 0
<1>1. <<>> \in Seq({}) /\ Len(<<>>) = 0
  BY EmptySeq
<1>2. PICK h \in NumberTables(<<>>) : Number(<<>>) = h[Len(<<>>)]
  BY <1>1, NumberIsTable
<1> QED
  BY <1>1, <1>2 DEF NumberTables

LEMMA NumberAppend ==
  ASSUME NEW C, NEW s \in Seq(C), NEW c \in C
  PROVE  Number(Append(s, c)) = 10 * Number(s) + DigitValue(c)
<1> DEFINE t == Append(s, c)
           n == Len(s)
<1>1. /\ t \in Seq(C) /\ Len(t) = n + 1 /\ n \in Nat /\ t[n + 1] = c
      /\ \A i \in 1..n : t[i] = s[i]
  BY AppendFacts
<1> HIDE DEF t
<1>2. PICK h \in NumberTables(t) : Number(t) = h[Len(t)]
  BY <1>1, NumberIsTable
<1>3. /\ h \in [0..n + 1 -> Int] /\ h[0] = 0
      /\ \A k \in 1..n + 1 : h[k] = 10 * h[k - 1] + DigitValue(t[k])
  BY <1>1, <1>2 DEF NumberTables
<1> DEFINE g == [k \in 0..n |-> h[k]]
<1>4. g \in [0..n -> Int] /\ g[0] = 0
  BY <1>1, <1>3
<1>5. ASSUME NEW k \in 1..n PROVE g[k] = 10 * g[k - 1] + DigitValue(s[k])
  <2>1. k \in 1..n + 1 /\ k \in 0..n /\ k - 1 \in 0..n /\ t[k] = s[k]
    BY <1>1
  <2>2. g[k] = h[k] /\ g[k - 1] = h[k - 1]
    BY <2>1
  <2> QED
    BY <1>3, <2>1, <2>2
<1>6. g[n] = h[n]
  BY <1>1
<1> HIDE DEF g
<1>7. g \in NumberTables(s)
  BY <1>4, <1>5 DEF NumberTables
<1>8. Number(s) = h[n]
  BY <1>6, <1>7, NumberTablesAgree
<1>9. n + 1 \in 1..n + 1 /\ (n + 1) - 1 = n
  BY <1>1
<1>10. h[n + 1] = 10 * h[n] + DigitValue(t[n + 1])
  BY <1>3, <1>9
<1> QED
  BY <1>1, <1>2, <1>8, <1>10 DEF t

LEMMA NumberType ==
  ASSUME NEW s \in Seq(DigitSet)
  PROVE  Number(s) \in Nat
<1> DEFINE T == {u \in Seq(DigitSet) : Number(u) \in Nat}
<1>1. <<>> \in T
  BY NumberEmpty, EmptySeq
<1>2. ASSUME NEW u \in Seq(DigitSet), NEW c \in DigitSet, u \in T PROVE Append(u, c) \in T
  <2>1. Append(u, c) \in Seq(DigitSet) /\ Number(Append(u, c)) = 10 * Number(u) + DigitValue(c)
    BY NumberAppend, AppendFacts
  <2>2. DigitValue(c) \in 0..9
    BY DigitValues
  <2> QED
    BY <1>2, <2>1, <2>2
<1> HIDE DEF T
<1>3. Seq(DigitSet) \subseteq T
  BY <1>1, <1>2, OnSequences
<1> QED
  BY <1>3 DEF T

LEMMA TwoPlaces ==
  ASSUME NEW n \in Nat, NEW i \in 0..9, NEW j \in 0..9
  PROVE  10 * (10 * n + i) + j = 100 * n + (10 * i + j) /\ 10 * i + j \in 0..99
OBVIOUS

(* A fraction of one or two digits behind the digits d.                    *)
LEMMA NumberWithFraction ==
  ASSUME NEW d \in Seq(DigitSet), NEW f \in Seq(DigitSet)
  PROVE  /\ Len(f) = 1 => /\ Number(d \o f) = 10 * Number(d) + Number(f)
                          /\ Number(f) \in 0..9
         /\ Len(f) = 2 => /\ Number(d \o f) = 100 * Number(d) + Number(f)
                          /\ Number(f) \in 0..99
<1>1. ASSUME NEW u \in Seq(DigitSet), Len(u) = 1
      PROVE  /\ Number(d \o u) = 10 * Number(d) + Number(u)
             /\ Number(u) \in 0..9
  <2>1. PICK v \in Seq(DigitSet), c \in DigitSet : u = Append(v, c) /\ Len(v) = Len(u) - 1
    <3>1. Len(u) > 0
      BY <1>1
    <3> QED
      BY <3>1, Shorter
  <2>2. v = <<>>
    BY <1>1, <2>1, EmptySeq
  <2>3. d \o u = Append(d, c)
    BY <2>1, <2>2, ConcatAppend
  <2>4. Number(u) = 10 * Number(v) + DigitValue(c)
    BY <2>1, NumberAppend
  <2>5. Number(d \o u) = 10 * Number(d) + DigitValue(c)
    BY <2>3, NumberAppend
  <2>6. DigitValue(c) \in 0..9 /\ Number(v) = 0 /\ Number(d) \in Nat
    BY <2>2, DigitValues, NumberEmpty, NumberType
  <2> QED
    BY <2>4, <2>5, <2>6
<1>2. ASSUME Len(f) = 2
      PROVE  /\ Number(d \o f) = 100 * Number(d) + Number(f)
             /\ Number(f) \in 0..99
  <2>1. PICK u \in Seq(DigitSet), c \in DigitSet : f = Append(u, c) /\ Len(u) = Len(f) - 1
    <3>1. Len(f) > 0
      BY <1>2
    <3> QED
      BY <3>1, Shorter
  <2>2. /\ Number(d \o u) = 10 * Number(d) + Number(u)
        /\ Number(u) \in 0..9
    BY <1>1, <1>2, <2>1
  <2>3. d \o f = Append(d \o u, c) /\ d \o u \in Seq(DigitSet)
    BY <2>1, ConcatAppend
  <2>4. Number(f) = 10 * Number(u) + DigitValue(c)
    BY <2>1, NumberAppend
  <2>5. Number(d \o f) = 10 * Number(d \o u) + DigitValue(c)
    BY <2>3, NumberAppend
  <2>6. DigitValue(c) \in 0..9 /\ Number(d) \in Nat
    BY DigitValues, NumberType
  <2>8. Number(d \o f) = 10 * (10 * Number(d) + Number(u)) + DigitValue(c)
    BY <2>2, <2>5
  <2>9. Number(u) \in 0..9
    BY <2>2
  <2>10. /\ 10 * (10 * Number(d) + Number(u)) + DigitValue(c) =
              100 * Number(d) + (10 * Number(u) + DigitValue(c))
         /\ 10 * Number(u) + DigitValue(c) \in 0..99
    BY <2>6, <2>9, TwoPlaces
  <2> QED
    BY <2>4, <2>8, <2>10, Zenon
<1> QED
  BY <1>1, <1>2

-----------------------------------------------------------------------------
(* DigitsOf.                                                               *)

LastDigit(n) == Digits[(n % 10) + 1]

LEMMA LastDigitType ==
  ASSUME NEW n \in Nat
  PROVE  /\ LastDigit(n) \in DigitSet /\ DigitValue(LastDigit(n)) = n % 10
         /\ n % 10 \in 0..9 /\ n \div 10 \in Nat
         /\ n = 10 * (n \div 10) + (n % 10)
         /\ n < 10 => n % 10 = n
         /\ n >= 10 => n \div 10 < n
<1>1. /\ n % 10 \in 0..9 /\ n \div 10 \in Nat /\ n = 10 * (n \div 10) + (n % 10)
      /\ n < 10 => n % 10 = n
      /\ n >= 10 => n \div 10 < n
  OBVIOUS
<1> QED
  BY <1>1, DigitValues DEF LastDigit

(* The digits of the numbers up to n.                                      *)
DigitTables(n) ==
  {h \in [0..n -> Seq(DigitSet)] : \A i \in 0..n :
     h[i] = IF i < 10 THEN <<Digits[i + 1]>> ELSE Append(h[i \div 10], LastDigit(i))}

LEMMA DigitTableExists == \A n \in Nat : DigitTables(n) # {}
<1> DEFINE T == {n \in Nat : DigitTables(n) = {}}
<1> SUFFICES ASSUME T # {} PROVE FALSE
  OBVIOUS
<1>1. PICK n \in T : \A m \in T : n <= m
  <2>1. T \subseteq Nat
    OBVIOUS
  <2> QED
    BY <2>1, Least
<1> DEFINE Below == IF n = 0 THEN {} ELSE 0..(n - 1)
<1>2. PICK h : /\ h \in [Below -> Seq(DigitSet)]
               /\ \A i \in Below :
                    h[i] = IF i < 10 THEN <<Digits[i + 1]>> ELSE Append(h[i \div 10], LastDigit(i))
  <2>1. CASE n = 0
    <3> DEFINE e == [i \in {} |-> <<>>]
    <3>1. e \in [Below -> Seq(DigitSet)] /\ \A i \in Below : FALSE
      BY <2>1
    <3> QED
      BY <3>1
  <2>2. CASE n # 0
    <3>1. n - 1 \in Nat /\ n - 1 \notin T
      BY <1>1, <2>2
    <3>2. PICK h : h \in DigitTables(n - 1)
      BY <3>1
    <3> QED
      BY <2>2, <3>2 DEF DigitTables
  <2> QED
    BY <2>1, <2>2
<1>3. \A i \in 0..n : i = n \/ i \in Below
  BY <1>1
<1>4. \A i \in Below : i # n /\ i \in 0..n
  BY <1>1
<1> DEFINE v == IF n < 10 THEN <<Digits[n + 1]>> ELSE Append(h[n \div 10], LastDigit(n))
           g == [i \in 0..n |-> IF i = n THEN v ELSE h[i]]
<1>5. v \in Seq(DigitSet)
  <2>1. CASE n < 10
    <3>1. Digits[n + 1] \in DigitSet
      BY <1>1, <2>1, DigitValues
    <3> QED
      BY <2>1, <3>1
  <2>2. CASE ~(n < 10)
    <3>1. n \div 10 \in Below /\ LastDigit(n) \in DigitSet
      BY <1>1, <2>2, LastDigitType
    <3> QED
      BY <1>2, <2>2, <3>1
  <2> QED
    BY <2>1, <2>2
<1> HIDE DEF v, Below
<1>6. g \in [0..n -> Seq(DigitSet)]
  BY <1>2, <1>3, <1>5
<1>7. ASSUME NEW i \in 0..n
      PROVE  g[i] = IF i < 10 THEN <<Digits[i + 1]>> ELSE Append(g[i \div 10], LastDigit(i))
  <2>1. i >= 10 => i \div 10 \in 0..n /\ i \div 10 # n
    <3>1. i \in Nat /\ n \in Nat /\ i <= n
      BY <1>1
    <3> QED
      BY <3>1, LastDigitType
  <2>2. i >= 10 => g[i \div 10] = h[i \div 10]
    BY <2>1
  <2>3. CASE i = n
    BY <1>1, <2>2, <2>3 DEF v
  <2>4. CASE i # n
    <3>1. i \in Below /\ g[i] = h[i]
      BY <1>3, <2>4
    <3>2. h[i] = IF i < 10 THEN <<Digits[i + 1]>> ELSE Append(h[i \div 10], LastDigit(i))
      BY <1>2, <3>1
    <3>3. i < 10 \/ i >= 10
      BY <1>1
    <3> HIDE DEF g
    <3> QED
      BY <2>2, <3>1, <3>2, <3>3
  <2> QED
    BY <2>3, <2>4
<1> HIDE DEF g
<1>8. g \in DigitTables(n)
  BY <1>6, <1>7 DEF DigitTables
<1> QED
  BY <1>1, <1>8

LEMMA DigitTablesAgree ==
  ASSUME NEW m \in Nat, NEW n \in Nat, NEW g \in DigitTables(m), NEW h \in DigitTables(n)
  PROVE  \A i \in Nat : i <= m /\ i <= n => g[i] = h[i]
<1> DEFINE T == {i \in Nat : i <= m /\ i <= n /\ g[i] # h[i]}
<1> SUFFICES ASSUME T # {} PROVE FALSE
  OBVIOUS
<1>1. PICK i \in T : \A j \in T : i <= j
  <2>1. T \subseteq Nat
    OBVIOUS
  <2> QED
    BY <2>1, Least
<1>2. i \in 0..m /\ i \in 0..n
  OBVIOUS
<1>3. /\ g[i] = IF i < 10 THEN <<Digits[i + 1]>> ELSE Append(g[i \div 10], LastDigit(i))
      /\ h[i] = IF i < 10 THEN <<Digits[i + 1]>> ELSE Append(h[i \div 10], LastDigit(i))
  BY <1>2 DEF DigitTables
<1>4. i >= 10 /\ i \div 10 \in Nat /\ i \div 10 < i
  BY <1>3, LastDigitType
<1>5. g[i \div 10] = h[i \div 10]
  BY <1>1, <1>4
<1> QED
  BY <1>3, <1>4, <1>5

LEMMA DigitsOfEquation ==
  \A n \in Nat :
    /\ DigitsOf[n] \in Seq(DigitSet)
    /\ DigitsOf[n] = IF n < 10 THEN <<LastDigit(n)>>
                     ELSE Append(DigitsOf[n \div 10], LastDigit(n))
<1> DEFINE table(n) == CHOOSE h : h \in DigitTables(n)
           f == [n \in Nat |-> table(n)[n]]
<1>1. \A n \in Nat : table(n) \in DigitTables(n)
  BY DigitTableExists
<1>2. ASSUME NEW n \in Nat
      PROVE  f[n] = IF n < 10 THEN <<Digits[n + 1]>>
                    ELSE Append(f[n \div 10], Digits[(n % 10) + 1])
  <2>1. table(n) \in DigitTables(n) /\ n \in 0..n
    BY <1>1
  <2>2. table(n)[n] = IF n < 10 THEN <<Digits[n + 1]>>
                      ELSE Append(table(n)[n \div 10], LastDigit(n))
    <3> HIDE DEF table
    <3> QED
      BY <2>1 DEF DigitTables
  <2>3. n >= 10 => table(n)[n \div 10] = table(n \div 10)[n \div 10]
    <3>1. n \div 10 \in Nat /\ (n >= 10 => n \div 10 < n)
      BY LastDigitType
    <3>2. table(n \div 10) \in DigitTables(n \div 10)
      BY <1>1, <3>1
    <3> HIDE DEF table
    <3>3. n >= 10 => n \div 10 <= n /\ n \div 10 <= n \div 10
      BY <3>1
    <3> QED
      BY <2>1, <3>1, <3>2, <3>3, DigitTablesAgree
  <2>4. n \div 10 \in Nat
    BY LastDigitType
  <2>5. f[n] = table(n)[n] /\ f[n \div 10] = table(n \div 10)[n \div 10]
    BY <2>4
  <2> HIDE DEF table, f
  <2> QED
    BY <2>2, <2>3, <2>5 DEF LastDigit
<1> HIDE DEF table
<1>3. f = [n \in Nat |-> f[n]]
  OBVIOUS
<1> HIDE DEF f
<1>4. f = [n \in Nat |-> IF n < 10 THEN <<Digits[n + 1]>>
                         ELSE Append(f[n \div 10], Digits[(n % 10) + 1])]
  BY <1>2, <1>3
<1>5. DigitsOf = [n \in Nat |-> IF n < 10 THEN <<Digits[n + 1]>>
                                ELSE Append(DigitsOf[n \div 10], Digits[(n % 10) + 1])]
  BY <1>4 DEF DigitsOf
<1>6. ASSUME NEW n \in Nat
      PROVE  DigitsOf[n] = IF n < 10 THEN <<LastDigit(n)>>
                           ELSE Append(DigitsOf[n \div 10], LastDigit(n))
  <2>1. DigitsOf[n] = IF n < 10 THEN <<Digits[n + 1]>>
                      ELSE Append(DigitsOf[n \div 10], Digits[(n % 10) + 1])
    BY <1>5
  <2>2. n < 10 => n % 10 = n
    BY LastDigitType
  <2> QED
    BY <2>1, <2>2 DEF LastDigit
<1> DEFINE T == {n \in Nat : DigitsOf[n] \notin Seq(DigitSet)}
<1>7. T = {}
  <2> SUFFICES ASSUME T # {} PROVE FALSE
    OBVIOUS
  <2>1. PICK n \in T : \A m \in T : n <= m
    <3>1. T \subseteq Nat
      OBVIOUS
    <3> QED
      BY <3>1, Least
  <2>2. /\ n \div 10 \in Nat /\ (n >= 10 => n \div 10 < n) /\ LastDigit(n) \in DigitSet
    BY LastDigitType
  <2>3. n >= 10 => DigitsOf[n \div 10] \in Seq(DigitSet)
    BY <2>1, <2>2
  <2>4. DigitsOf[n] \in Seq(DigitSet)
    <3>1. n < 10 => DigitsOf[n] = <<LastDigit(n)>>
      BY <1>6
    <3>0. n < 10 \/ (n >= 10 /\ ~(n < 10))
      OBVIOUS
    <3>2. ~(n < 10) => DigitsOf[n] = Append(DigitsOf[n \div 10], LastDigit(n))
      BY <1>6
    <3>3. <<LastDigit(n)>> \in Seq(DigitSet)
          /\ \A u \in Seq(DigitSet) : Append(u, LastDigit(n)) \in Seq(DigitSet)
      BY <2>2
    <3> QED
      BY <2>3, <3>0, <3>1, <3>2, <3>3
  <2> QED
    BY <2>1, <2>4
<1> QED
  BY <1>6, <1>7

(* %d writes the number, and Number reads it back.                         *)
LEMMA DigitsAreRead ==
  ASSUME NEW n \in Nat
  PROVE  /\ DigitsOf[n] \in Seq(DigitSet) /\ Len(DigitsOf[n]) \in Nat \ {0}
         /\ Number(DigitsOf[n]) = n
         /\ n < 10 => Len(DigitsOf[n]) = 1
         /\ n >= 10 /\ n < 100 => Len(DigitsOf[n]) = 2
<1>1. ASSUME NEW k \in Nat
      PROVE  /\ k < 10 => DigitsOf[k] = Append(<<>>, LastDigit(k)) /\ Len(DigitsOf[k]) = 1
             /\ k >= 10 => /\ DigitsOf[k] = Append(DigitsOf[k \div 10], LastDigit(k))
                           /\ Len(DigitsOf[k]) = Len(DigitsOf[k \div 10]) + 1
             /\ Len(DigitsOf[k]) \in Nat \ {0}
  <2>1. /\ DigitsOf[k] \in Seq(DigitSet) /\ DigitsOf[k \div 10] \in Seq(DigitSet)
        /\ LastDigit(k) \in DigitSet
    BY DigitsOfEquation, LastDigitType
  <2>2. CASE k < 10
    <3>1. DigitsOf[k] = <<LastDigit(k)>>
      BY <2>2, DigitsOfEquation
    <3>2. <<LastDigit(k)>> = Append(<<>>, LastDigit(k)) /\ Len(<<LastDigit(k)>>) = 1
      OBVIOUS
    <3> QED
      BY <2>2, <3>1, <3>2
  <2>3. CASE k >= 10
    <3>0. ~(k < 10)
      BY <2>3
    <3>1. DigitsOf[k] = Append(DigitsOf[k \div 10], LastDigit(k))
      BY <3>0, DigitsOfEquation
    <3>2. /\ Len(Append(DigitsOf[k \div 10], LastDigit(k))) = Len(DigitsOf[k \div 10]) + 1
          /\ Len(DigitsOf[k \div 10]) \in Nat
      BY <2>1, AppendFacts
    <3> QED
      BY <2>3, <3>1, <3>2
  <2> QED
    BY <2>2, <2>3
<1>2. Number(DigitsOf[n]) = n
  <2> DEFINE T == {k \in Nat : Number(DigitsOf[k]) # k}
  <2> SUFFICES ASSUME T # {} PROVE FALSE
    OBVIOUS
  <2>1. PICK k \in T : \A m \in T : k <= m
    <3>1. T \subseteq Nat
      OBVIOUS
    <3> QED
      BY <3>1, Least
  <2>2. /\ k \div 10 \in Nat /\ (k >= 10 => k \div 10 < k) /\ LastDigit(k) \in DigitSet
        /\ DigitValue(LastDigit(k)) = k % 10 /\ k = 10 * (k \div 10) + (k % 10)
        /\ k % 10 \in 0..9 /\ (k < 10 => k % 10 = k)
    BY LastDigitType
  <2>3. CASE k < 10
    <3>1. Number(DigitsOf[k]) = 10 * Number(<<>>) + DigitValue(LastDigit(k))
      <4>1. <<>> \in Seq(DigitSet)
        BY EmptySeq
      <4> QED
        BY <1>1, <2>2, <2>3, <4>1, NumberAppend
    <3> QED
      BY <2>2, <2>3, <3>1, NumberEmpty
  <2>4. CASE k >= 10
    <3>1. Number(DigitsOf[k]) = 10 * Number(DigitsOf[k \div 10]) + DigitValue(LastDigit(k))
      <4>1. DigitsOf[k \div 10] \in Seq(DigitSet)
        BY <2>2, DigitsOfEquation
      <4>2. DigitsOf[k] = Append(DigitsOf[k \div 10], LastDigit(k))
        BY <1>1, <2>4
      <4>3. LastDigit(k) \in DigitSet
        BY <2>2
      <4>4. Number(Append(DigitsOf[k \div 10], LastDigit(k)))
              = 10 * Number(DigitsOf[k \div 10]) + DigitValue(LastDigit(k))
        BY <4>1, <4>3, NumberAppend
      <4> QED
        BY <4>2, <4>4, Zenon
    <3>2. Number(DigitsOf[k \div 10]) = k \div 10
      BY <2>1, <2>2, <2>4
    <3> QED
      BY <2>2, <3>1, <3>2
  <2> QED
    BY <2>3, <2>4
<1>3. n >= 10 /\ n < 100 => n \div 10 < 10 /\ n \div 10 \in Nat
  OBVIOUS
<1>4. DigitsOf[n] \in Seq(DigitSet)
  BY DigitsOfEquation
<1>5. n >= 10 /\ n < 100 => Len(DigitsOf[n]) = 2
  <2> SUFFICES ASSUME n >= 10, n < 100 PROVE Len(DigitsOf[n]) = 2
    OBVIOUS
  <2>1. Len(DigitsOf[n \div 10]) = 1
    BY <1>1, <1>3
  <2>2. Len(DigitsOf[n]) = Len(DigitsOf[n \div 10]) + 1
    BY <1>1
  <2> QED
    BY <2>1, <2>2
<1>6. Len(DigitsOf[n]) \in Nat \ {0} /\ (n < 10 => Len(DigitsOf[n]) = 1)
  BY <1>1
<1> QED
  BY <1>2, <1>4, <1>5, <1>6

-----------------------------------------------------------------------------
(* GroupThousands.                                                         *)

(* What FlattenSeq has joined after its first k sequences.                 *)
FlattenTables(q, n, V) ==
  {h \in [0..n -> V] :
     /\ h[0] = <<>> /\ FlattenSeq(q) = h[n]
     /\ \A k \in 1..n : h[k] = h[k - 1] \o q[k]}

LEMMA FlattenIsTable ==
  ASSUME NEW C, NEW n \in Nat \ {0}, NEW q \in [1..n -> Seq(C)]
  PROVE  FlattenTables(q, n, Seq(C)) # {}
<1> DEFINE V == Seq(C)
           step == [x \in (1..n) \X V |-> x[2] \o q[x[1]]]
           IsFlat(f) == f = [i \in 1..n |-> IF i = 1 THEN q[i] ELSE f[i - 1] \o q[i]]
           flat == CHOOSE f : IsFlat(f)
<1>0. \A u, v \in V : u \o v \in V /\ <<>> \o v = v
  BY ConcatProperties, ConcatEmptySeq
<1>1. Len(q) = n /\ Len(q) # 0
  OBVIOUS
<1>2. FlattenSeq(q) = flat[n]
  BY <1>1 DEF FlattenSeq
<1> HIDE DEF flat
<1>3. PICK g : g \in Folds(n, V, <<>>, step)
  <2>1. step \in [(1..n) \X V -> V]
    BY <1>0
  <2>2. <<>> \in V
    OBVIOUS
  <2> HIDE DEF V, step
  <2> QED
    BY <2>1, <2>2, FoldExists
<1> DEFINE h == [k \in 0..n |-> g[1..k]]
<1>4. h \in [0..n -> V] /\ h[0] = <<>>
  <2>0. {} \in SUBSET (1..n)
    OBVIOUS
  <2>1. g \in [SUBSET (1..n) -> V] /\ g[{}] = <<>> /\ 1..0 = {}
    <3>1. /\ g \in [SUBSET (1..n) -> V]
          /\ \A t \in SUBSET (1..n) :
               g[t] = IF t = {} THEN <<>> ELSE step[<<Max(t), g[t \ {Max(t)}]>>]
      BY <1>3 DEF Folds
    <3> HIDE DEF V, step
    <3>2. g[{}] = <<>>
      BY <2>0, <3>1
    <3> QED
      BY <3>1, <3>2
  <2>2. \A k \in 0..n : 1..k \in SUBSET (1..n)
    OBVIOUS
  <2> QED
    BY <2>1, <2>2
<1>5. ASSUME NEW k \in 1..n PROVE h[k] = h[k - 1] \o q[k]
  <2>1. /\ 1..k \in SUBSET (1..n) /\ 1..k # {} /\ Max(1..k) = k
        /\ (1..k) \ {Max(1..k)} = 1..(k - 1)
    BY FirstPositions
  <2>2. g[1..k] = step[<<k, g[1..(k - 1)]>>]
    BY <1>3, <2>1 DEF Folds
  <2>3. h[k] = g[1..k] /\ h[k - 1] = g[1..(k - 1)] /\ h[k - 1] \in V
    <3>1. k \in 0..n /\ k - 1 \in 0..n
      OBVIOUS
    <3> QED
      BY <1>4, <3>1
  <2> QED
    BY <2>2, <2>3
<1> HIDE DEF h
<1>14. 1 \in 1..n /\ 1 - 1 = 0 /\ <<>> \o q[1] = q[1]
  <2>1. 1 \in 1..n /\ 1 - 1 = 0
    OBVIOUS
  <2>2. q[1] \in V
    BY <2>1
  <2> QED
    BY <1>0, <2>1, <2>2
<1>6. IsFlat([i \in 1..n |-> h[i]])
  <2> DEFINE e == [i \in 1..n |-> h[i]]
  <2>1. ASSUME NEW i \in 1..n PROVE e[i] = IF i = 1 THEN q[i] ELSE e[i - 1] \o q[i]
    <3>1. CASE i = 1
      <4>1. h[1] = h[0] \o q[1] /\ <<>> \o q[1] = q[1]
        BY <1>14, <1>5
      <4> QED
        BY <1>4, <3>1, <4>1
    <3>2. CASE i # 1
      <4>1. i - 1 \in 1..n
        BY <3>2
      <4> QED
        BY <1>5, <3>2, <4>1
    <3> QED
      BY <3>1, <3>2
  <2>2. e = [i \in 1..n |-> e[i]]
    OBVIOUS
  <2> HIDE DEF e
  <2>3. IsFlat(e)
    BY <2>1, <2>2
  <2> QED
    BY <2>3 DEF e
<1>7. IsFlat(flat)
  BY <1>6 DEF flat
<1>8. ASSUME NEW i \in 1..n PROVE flat[i] = IF i = 1 THEN q[i] ELSE flat[i - 1] \o q[i]
  BY <1>7
<1> HIDE DEF IsFlat
<1> DEFINE T == {k \in 0..n : k = 0 \/ flat[k] = h[k]}
<1>9. 0 \in T
  OBVIOUS
<1>10. ASSUME NEW k \in 1..n, k - 1 \in T PROVE k \in T
  <2>1. CASE k = 1
    <3>1. h[1] = h[0] \o q[1] /\ <<>> \o q[1] = q[1] /\ flat[1] = q[1]
      BY <1>14, <1>5, <1>8
    <3> QED
      BY <1>4, <2>1, <3>1
  <2>2. CASE k # 1
    <3>1. flat[k - 1] = h[k - 1]
      BY <1>10, <2>2
    <3>2. flat[k] = flat[k - 1] \o q[k]
      BY <1>8, <2>2
    <3>3. k \in 0..n
      OBVIOUS
    <3> QED
      BY <1>5, <3>1, <3>2, <3>3
  <2> QED
    BY <2>1, <2>2
<1> HIDE DEF T
<1>11. \A k \in 0..n : k \in T
  BY <1>9, <1>10, UpTo
<1>12. flat[n] = h[n]
  BY <1>11 DEF T
<1>13. h \in FlattenTables(q, n, V)
  BY <1>2, <1>4, <1>5, <1>12 DEF FlattenTables
<1> QED
  BY <1>13

LEMMA FirstElements ==
  ASSUME NEW C, NEW s \in Seq(C)
  PROVE  /\ SubSeq(s, 1, 0) = <<>> /\ SubSeq(s, 1, Len(s)) = s
         /\ \A k \in 1..Len(s) :
              /\ SubSeq(s, 1, k) = Append(SubSeq(s, 1, k - 1), s[k])
              /\ SubSeq(s, 1, k - 1) \in Seq(C) /\ s[k] \in C
<1>1. SubSeq(s, 1, 0) = <<>> /\ SubSeq(s, 1, Len(s)) = s
  BY SubSeqEmpty, SubSeqFull
<1>2. ASSUME NEW k \in 1..Len(s)
      PROVE  /\ SubSeq(s, 1, k) = Append(SubSeq(s, 1, k - 1), s[k])
             /\ SubSeq(s, 1, k - 1) \in Seq(C) /\ s[k] \in C
  <2>1. 1 \in 1..Len(s) /\ k \in 1..Len(s) /\ Len(s) \in Nat /\ s[k] \in C
    OBVIOUS
  <2>2. SubSeq(s, 1, k - 1) \in Seq(C)
    <3>1. 1 \in Int /\ k - 1 \in Int /\ \A i \in 1..(k - 1) : s[i] \in C
      OBVIOUS
    <3> QED
      BY <3>1, SubSeqProperties
  <2>3. SubSeq(s, 1, k) = SubSeq(s, 1, k - 1) \o <<s[k]>>
    BY <2>1, SubSeqRecursiveSecond
  <2>4. Append(SubSeq(s, 1, k - 1), s[k]) = SubSeq(s, 1, k - 1) \o <<s[k]>>
    BY <2>1, <2>2, AppendIsConcat
  <2> QED
    BY <2>1, <2>2, <2>3, <2>4
<1> QED
  BY <1>1, <1>2

LEMMA DigitCharacters ==
  DigitSet \subseteq {"0", "1", "2", "3", "4", "5", "6", "7", "8", "9"}
<1>1. DOMAIN Digits = 1..10
  BY DEF Digits
<1>2. ASSUME NEW i \in 1..10
      PROVE  Digits[i] \in {"0", "1", "2", "3", "4", "5", "6", "7", "8", "9"}
  BY DEF Digits
<1> QED
  BY <1>1, <1>2 DEF DigitSet, ToSet

Space == " "
Comma == ","

(* A digit is put behind u, with or without a space.                       *)
LEMMA PutDigit ==
  ASSUME NEW C, NEW u \in Seq(C), NEW c \in C, c \in DigitSet
  PROVE  /\ <<c>> \in Seq(C) /\ u \o <<c>> = Append(u, c)
         /\ Keep(u \o <<c>>, DigitSet) = Append(Keep(u, DigitSet), c)
<1>1. <<c>> \in Seq(C) /\ u \o <<c>> = Append(u, c)
  BY AppendIsConcat
<1>2. Keep(Append(u, c), DigitSet) = Append(Keep(u, DigitSet), c)
  BY KeepAppend
<1> QED
  BY <1>1, <1>2

LEMMA PutTwo ==
  ASSUME NEW C, NEW b \in C, b \notin DigitSet, NEW u \in Seq(C), NEW c \in C, c \in DigitSet
  PROVE  /\ <<b, c>> \in Seq(C) /\ u \o <<b, c>> = Append(Append(u, b), c)
         /\ Keep(u \o <<b, c>>, DigitSet) = Append(Keep(u, DigitSet), c)
         /\ Append(u, b) \in Seq(C)
<1> DEFINE v == Append(u, b)
           w == <<b>>
<1>1. w \in Seq(C)
  OBVIOUS
<1>6. Append(w, c) = <<b, c>>
  <2> DEFINE x == Append(w, c)
             y == <<b, c>>
  <2>1. y \in Seq(C) /\ Len(y) = 2 /\ y[1] = b /\ y[2] = c
    OBVIOUS
  <2>2. Len(w) = 1 /\ w[1] = b
    OBVIOUS
  <2> HIDE DEF w, y
  <2>3. x \in Seq(C) /\ Len(x) = 2 /\ x[1] = b /\ x[2] = c
    <3>1. x \in Seq(C) /\ Len(x) = Len(w) + 1 /\ x[Len(w) + 1] = c
          /\ \A i \in 1..Len(w) : x[i] = w[i]
      BY <1>1, AppendFacts
    <3>2. 1 + 1 = 2 /\ 1 \in 1..1
      OBVIOUS
    <3> QED
      BY <2>2, <3>1, <3>2, Zenon
  <2> HIDE DEF x
  <2>4. \A i \in 1..2 : x[i] = y[i]
    <3>1. \A i \in 1..2 : i = 1 \/ i = 2
      OBVIOUS
    <3> QED
      BY <2>1, <2>3, <3>1, Zenon
  <2>5. x = y
    BY <2>1, <2>3, <2>4, SeqEqual
  <2> QED
    BY <2>5 DEF x, y
<1>2. v \in Seq(C) /\ u \o w = v
  BY AppendIsConcat, AppendFacts
<1>3. Keep(v, DigitSet) = Keep(u, DigitSet)
  BY KeepAppend
<1> HIDE DEF v, w
<1>4. u \o Append(w, c) = Append(u \o w, c) /\ Append(w, c) \in Seq(C)
  BY <1>1, ConcatAppend, AppendFacts
<1>5. Keep(Append(v, c), DigitSet) = Append(Keep(v, DigitSet), c)
  BY <1>2, KeepAppend
<1> QED
  BY <1>1, <1>2, <1>3, <1>4, <1>5, <1>6, Zenon DEF v

(* Grouping only puts spaces between the digits.                           *)
LEMMA GroupingKeepsDigits ==
  ASSUME NEW n \in Nat
  PROVE  /\ Keep(GroupThousands(n), DigitSet) = DigitsOf[n]
         /\ \E u \in Seq(DigitSet \cup {Space}), c \in DigitSet : GroupThousands(n) = Append(u, c)
<1> DEFINE C == DigitSet \cup {Space}
           d == DigitsOf[n]
           m == Len(d)
           q == [i \in DOMAIN d |-> IF i > 1 /\ (m - i + 1) % 3 = 0
                                    THEN <<" ", d[i]>> ELSE <<d[i]>>]
<1>1. d \in Seq(DigitSet) /\ m \in Nat \ {0} /\ DOMAIN d = 1..m
  BY DigitsAreRead
<1>2. GroupThousands(n) = FlattenSeq(q)
  BY DEF GroupThousands
<1> HIDE DEF d
<1>12. \A i \in 1..m : d[i] \in DigitSet /\ d[i] \in C
  BY <1>1, ElementOfSeq
<1>13. Space \in C /\ <<>> \in Seq(C)
  OBVIOUS
<1>14. q = [i \in 1..m |-> q[i]] /\ \A i \in 1..m : q[i] = <<d[i]>> \/ q[i] = <<Space, d[i]>>
  BY <1>1 DEF Space
<1>15. SubSeq(d, 1, 0) = <<>> /\ SubSeq(d, 1, m) = d
       /\ \A k \in 1..m : SubSeq(d, 1, k) = Append(SubSeq(d, 1, k - 1), d[k])
  BY <1>1, FirstElements
<1> HIDE DEF C, q, m
<1>3. ASSUME NEW i \in 1..m, NEW u \in Seq(C)
      PROVE  /\ q[i] \in Seq(C)
             /\ Keep(u \o q[i], DigitSet) = Append(Keep(u, DigitSet), d[i])
             /\ \E v \in Seq(C) : u \o q[i] = Append(v, d[i])
  <2> DEFINE c == d[i]
  <2>1. c \in DigitSet /\ c \in C
    BY <1>12
  <2>2. q[i] = <<c>> \/ q[i] = <<Space, c>>
    BY <1>14
  <2> HIDE DEF c
  <2>3. /\ <<c>> \in Seq(C) /\ u \o <<c>> = Append(u, c)
        /\ Keep(u \o <<c>>, DigitSet) = Append(Keep(u, DigitSet), c)
    BY <2>1, PutDigit
  <2>4. /\ <<Space, c>> \in Seq(C) /\ u \o <<Space, c>> = Append(Append(u, Space), c)
        /\ Keep(u \o <<Space, c>>, DigitSet) = Append(Keep(u, DigitSet), c)
        /\ Append(u, Space) \in Seq(C)
    <3> DEFINE b == Space
    <3>1. b \in C /\ b \notin DigitSet
      BY <1>13, DigitCharacters, Zenon DEF Space
    <3> HIDE DEF b
    <3>2. /\ <<b, c>> \in Seq(C) /\ u \o <<b, c>> = Append(Append(u, b), c)
          /\ Keep(u \o <<b, c>>, DigitSet) = Append(Keep(u, DigitSet), c)
          /\ Append(u, b) \in Seq(C)
      BY <2>1, <3>1, PutTwo
    <3> QED
      BY <3>2, Zenon DEF b
  <2>5. q[i] \in Seq(C) /\ Keep(u \o q[i], DigitSet) = Append(Keep(u, DigitSet), c)
    BY <2>2, <2>3, <2>4, Zenon
  <2>6. \E v \in Seq(C) : u \o q[i] = Append(v, c)
    BY <2>2, <2>3, <2>4, Zenon
  <2> QED
    BY <2>5, <2>6, Zenon DEF c
<1>4. q \in [1..m -> Seq(C)]
  BY <1>3, <1>13, <1>14
<1>5. PICK h \in [0..m -> Seq(C)] :
        /\ h[0] = <<>> /\ FlattenSeq(q) = h[m]
        /\ \A k \in 1..m : h[k] = h[k - 1] \o q[k]
  <2>1. m \in Nat \ {0}
    BY <1>1
  <2>2. FlattenTables(q, m, Seq(C)) # {}
    BY <1>4, <2>1, FlattenIsTable
  <2> QED
    BY <2>2 DEF FlattenTables
<1> DEFINE T == {k \in 0..m : Keep(h[k], DigitSet) = SubSeq(d, 1, k)}
<1>6. 0 \in T
  BY <1>1, <1>5, <1>15, KeepEmpty
<1>7. ASSUME NEW k \in 1..m, k - 1 \in T PROVE k \in T
  <2>0. k \in 0..m /\ k - 1 \in 0..m
    BY <1>1
  <2>1. h[k - 1] \in Seq(C) /\ h[k] = h[k - 1] \o q[k]
    BY <1>5, <2>0
  <2>2. Keep(h[k], DigitSet) = Append(Keep(h[k - 1], DigitSet), d[k])
    BY <1>3, <2>1
  <2>3. SubSeq(d, 1, k) = Append(SubSeq(d, 1, k - 1), d[k])
    BY <1>15
  <2> QED
    BY <1>7, <2>0, <2>1, <2>2, <2>3
<1> HIDE DEF T
<1>8. \A k \in 0..m : k \in T
  BY <1>1, <1>6, <1>7, UpTo
<1>9. Keep(h[m], DigitSet) = d
  <2>1. m \in T
    BY <1>1, <1>8
  <2> QED
    BY <1>15, <2>1 DEF T
<1>10. \E u \in Seq(C), c \in DigitSet : h[m] = Append(u, c)
  <2>1. m \in 1..m /\ m - 1 \in 0..m
    BY <1>1
  <2>2. h[m] = h[m - 1] \o q[m] /\ h[m - 1] \in Seq(C) /\ d[m] \in DigitSet
    BY <1>5, <1>12, <2>1
  <2>3. \E v \in Seq(C) : h[m - 1] \o q[m] = Append(v, d[m])
    BY <1>3, <2>1, <2>2
  <2> QED
    BY <2>2, <2>3, Zenon
<1> QED
  BY <1>2, <1>5, <1>9, <1>10 DEF d, C

-----------------------------------------------------------------------------
(* A sequence is split at its last element of a set.                       *)

Splits(C, s, K) ==
  \/ s \in Seq(C \ K)
  \/ \E A \in Seq(C), c \in C \cap K, B \in Seq(C \ K) : s = Append(A, c) \o B

LEMMA LastOf ==
  ASSUME NEW C, NEW s \in Seq(C), NEW K
  PROVE  Splits(C, s, K)
<1> DEFINE D == C \ K
           Split(u) == \E A \in Seq(C), c \in C \cap K, B \in Seq(D) : u = Append(A, c) \o B
           T == {u \in Seq(C) : u \in Seq(D) \/ Split(u)}
<1>0. D \subseteq C /\ Seq(D) \subseteq Seq(C)
  OBVIOUS
<1>1. <<>> \in T
  OBVIOUS
<1>2. ASSUME NEW u \in Seq(C), NEW x \in C, u \in T PROVE Append(u, x) \in T
  <2>1. Append(u, x) \in Seq(C)
    BY AppendFacts
  <2>2. CASE x \in K
    <3>1. Append(u, x) = Append(u, x) \o <<>> /\ <<>> \in Seq(D) /\ x \in C \cap K
      BY <2>1, <2>2, ConcatEmptySeq
    <3>2. Split(Append(u, x))
      BY <3>1
    <3> QED
      BY <2>1, <3>2
  <2>3. CASE x \notin K /\ u \in Seq(D)
    <3>1. Append(u, x) \in Seq(D)
      BY <2>3, AppendFacts
    <3> QED
      BY <2>1, <3>1
  <2>4. CASE x \notin K /\ Split(u)
    <3>1. PICK A \in Seq(C), c \in C \cap K, B \in Seq(D) : u = Append(A, c) \o B
      BY <2>4
    <3>2. x \in D
      BY <2>4
    <3> HIDE DEF D
    <3>3. Append(B, x) \in Seq(D) /\ Append(A, c) \in Seq(C) /\ B \in Seq(C)
      BY <1>0, <3>2, AppendFacts
    <3>4. Append(A, c) \o Append(B, x) = Append(Append(A, c) \o B, x)
      BY <3>3, ConcatAppend
    <3>5. Split(Append(u, x))
      BY <3>1, <3>3, <3>4
    <3> QED
      BY <2>1, <3>5
  <2> QED
    BY <1>2, <2>2, <2>3, <2>4
<1> HIDE DEF T
<1>3. Seq(C) \subseteq T
  BY <1>1, <1>2, OnSequences
<1> QED
  BY <1>3 DEF T, Splits

(* The elements and the pieces of a sequence that is put together.         *)
LEMMA Pieces ==
  ASSUME NEW C, NEW X \in Seq(C), NEW Y \in Seq(C)
  PROVE  /\ X \o Y \in Seq(C) /\ Len(X \o Y) = Len(X) + Len(Y)
         /\ Len(X) \in Nat /\ Len(Y) \in Nat
         /\ \A i \in 1..Len(X) : (X \o Y)[i] = X[i]
         /\ \A i \in 1..Len(Y) : (X \o Y)[Len(X) + i] = Y[i]
         /\ SubSeq(X \o Y, 1, Len(X)) = X
         /\ SubSeq(X \o Y, Len(X) + 1, Len(X) + Len(Y)) = Y
<1> DEFINE s == X \o Y
           m == Len(X)
           n == Len(Y)
<1>1. /\ s \in Seq(C) /\ Len(s) = m + n /\ m \in Nat /\ n \in Nat
      /\ \A i \in 1..m + n : s[i] = IF i <= m THEN X[i] ELSE Y[i - m]
  BY ConcatProperties, LenProperties
<1> HIDE DEF s
<1>2. \A i \in 1..m : s[i] = X[i]
  BY <1>1
<1>3. ASSUME NEW i \in 1..n PROVE s[m + i] = Y[i]
  <2>1. m + i \in 1..m + n /\ ~(m + i <= m) /\ (m + i) - m = i
    BY <1>1
  <2>2. s[m + i] = IF m + i <= m THEN X[m + i] ELSE Y[(m + i) - m]
    BY <1>1, <2>1
  <2> QED
    BY <2>1, <2>2
<1>4. ASSUME NEW i \in 1..m + n PROVE s[i] \in C
  BY <1>1, ElementOfSeq
<1>5. SubSeq(s, 1, m) = X
  <2> DEFINE t == SubSeq(s, 1, m)
  <2>1. 1 \in Int /\ m \in Int /\ \A i \in 1..m : s[i] \in C
    BY <1>1, <1>4
  <2>2. /\ t \in Seq(C) /\ Len(t) = IF 1 <= m THEN m - 1 + 1 ELSE 0
        /\ \A i \in 1..(m - 1 + 1) : t[i] = s[1 + i - 1]
    BY <2>1, SubSeqProperties
  <2> HIDE DEF t
  <2>3. Len(t) = m
    BY <1>1, <2>2
  <2>4. ASSUME NEW i \in 1..Len(t) PROVE t[i] = X[i]
    <3>1. i \in 1..(m - 1 + 1) /\ 1 + i - 1 = i /\ i \in 1..m
      BY <1>1, <2>3
    <3> QED
      BY <1>2, <2>2, <3>1
  <2> QED
    BY <2>2, <2>3, <2>4, SeqEqual DEF t
<1>6. SubSeq(s, m + 1, m + n) = Y
  <2> DEFINE t == SubSeq(s, m + 1, m + n)
  <2>1. m + 1 \in Int /\ m + n \in Int /\ \A i \in m + 1..m + n : s[i] \in C
    BY <1>1, <1>4
  <2>2. /\ t \in Seq(C) /\ Len(t) = IF m + 1 <= m + n THEN m + n - (m + 1) + 1 ELSE 0
        /\ \A i \in 1..(m + n - (m + 1) + 1) : t[i] = s[(m + 1) + i - 1]
    BY <2>1, SubSeqProperties
  <2> HIDE DEF t
  <2>3. Len(t) = n
    BY <1>1, <2>2
  <2>4. ASSUME NEW i \in 1..Len(t) PROVE t[i] = Y[i]
    <3>1. i \in 1..(m + n - (m + 1) + 1) /\ (m + 1) + i - 1 = m + i /\ i \in 1..n
      BY <1>1, <2>3
    <3>2. t[i] = s[m + i]
      BY <2>2, <3>1
    <3> QED
      BY <1>3, <3>1, <3>2
  <2> QED
    BY <2>2, <2>3, <2>4, SeqEqual DEF t
<1> QED
  BY <1>1, <1>2, <1>3, <1>5, <1>6 DEF s

Positions(s, K) == {i \in 1..Len(s) : s[i] \in K}

LEMMA LastPosition ==
  ASSUME NEW C, NEW K, NEW A \in Seq(C), NEW c \in C, c \in K, NEW B \in Seq(C \ K)
  PROVE  /\ Positions(Append(A, c) \o B, K) # {}
         /\ Max(Positions(Append(A, c) \o B, K)) = Len(A) + 1
<1> DEFINE X == Append(A, c)
           s == X \o B
           At == Positions(s, K)
           m == Len(A) + 1
<1>1. X \in Seq(C) /\ B \in Seq(C) /\ Len(X) = m /\ m \in Nat /\ X[m] = c /\ m \in 1..Len(X)
  BY AppendFacts
<1> HIDE DEF X
<1>2. /\ Len(s) = m + Len(B) /\ Len(B) \in Nat
      /\ \A i \in 1..m : s[i] = X[i]
      /\ \A i \in 1..Len(B) : s[m + i] = B[i]
  <2>1. /\ Len(s) = Len(X) + Len(B) /\ Len(B) \in Nat
        /\ \A i \in 1..Len(X) : s[i] = X[i]
        /\ \A i \in 1..Len(B) : s[Len(X) + i] = B[i]
    <3> HIDE DEF At, m
    <3>1. X \in Seq(C) /\ B \in Seq(C)
      BY <1>1
    <3> QED
      BY <3>1, Pieces
  <2> QED
    BY <1>1, <2>1
<1>3. \A i \in 1..Len(B) : B[i] \notin K
  BY ElementOfSeq
<1> HIDE DEF s
<1> USE DEF Positions
<1>4. m \in At
  <2>1. m \in 1..m /\ m \in 1..Len(s)
    BY <1>1, <1>2
  <2> QED
    BY <1>1, <1>2, <2>1
<1>5. ASSUME NEW i \in At PROVE i <= m
  <2> SUFFICES ASSUME ~(i <= m) PROVE FALSE
    OBVIOUS
  <2>1. i - m \in 1..Len(B) /\ m + (i - m) = i
    BY <1>1, <1>2
  <2>2. s[m + (i - m)] = B[i - m]
    BY <1>2, <2>1
  <2> QED
    BY <1>3, <2>1, <2>2
<1>6. At \subseteq Int
  OBVIOUS
<1> HIDE DEF At
<1>7. Max(At) = m
  BY <1>4, <1>5, <1>6, MaxOfSet
<1> QED
  BY <1>4, <1>7 DEF At, s, X

-----------------------------------------------------------------------------
(* The steps of ParseAmount.                                               *)

Signs == {"-", "minus"}

LEMMA CharacterKinds ==
  /\ DigitSet \cap Separators = {}
  /\ DigitSet \cap Signs = {} /\ Separators \cap Signs = {}
BY DigitCharacters DEF Separators, Signs

LEMMA Trimmed ==
  ASSUME NEW C, NEW A \in Seq(C), NEW c \in C, c \notin Separators, NEW B \in Seq(Separators)
  PROVE  TrimRight(Append(A, c) \o B) = Append(A, c)
<1> DEFINE D == C \cup Separators
           K == D \ Separators
           X == Append(A, c)
           s == X \o B
           At == Positions(s, K)
<1>1. A \in Seq(D) /\ c \in D /\ c \in K /\ B \in Seq(D) /\ D \ K = Separators
  OBVIOUS
<1>2. X \in Seq(D) /\ Len(X) = Len(A) + 1
  <2> HIDE DEF D
  <2> QED
    BY <1>1, AppendFacts
<1>3. s \in Seq(D) /\ SubSeq(s, 1, Len(X)) = X
  <2> HIDE DEF D, X
  <2> QED
    BY <1>1, <1>2, Pieces
<1>4. At # {} /\ Max(At) = Len(A) + 1
  <2> HIDE DEF D, K
  <2>1. B \in Seq(D \ K)
    BY <1>1
  <2> QED
    BY <1>1, <2>1, LastPosition
<1> USE DEF Positions
<1>5. At = {i \in 1..Len(s) : ~IsSeparator(s[i])}
  <2>1. \A i \in 1..Len(s) : s[i] \in D
    <3> HIDE DEF D, s
    <3> QED
      BY <1>3, ElementOfSeq
  <2> HIDE DEF s
  <2> QED
    BY <2>1 DEF IsSeparator
<1> HIDE DEF At, s
<1>6. SelectLastInSeq(s, LAMBDA x : ~IsSeparator(x)) = Len(X)
  BY <1>2, <1>4, <1>5 DEF SelectLastInSeq
<1>7. TrimRight(s) = SubSeq(s, 1, Len(X))
  BY <1>6 DEF TrimRight
<1> QED
  BY <1>3, <1>7 DEF s

LEMMA StripIsDigits ==
  ASSUME NEW W \in Seq(DigitSet \cup Separators)
  PROVE  StripSeparators(W) = Keep(W, DigitSet)
<1> DEFINE C == ToSet(W)
           J == C \ Separators
<1>1. \A i \in 1..Len(W) : W[i] \in DigitSet \cup Separators
  <2> DEFINE D == DigitSet \cup Separators
  <2> HIDE DEF D
  <2>1. \A i \in 1..Len(W) : W[i] \in D
    BY ElementOfSeq DEF D
  <2> QED
    BY <2>1 DEF D
<1>2. DOMAIN W = 1..Len(W) /\ Len(W) \in Nat
  BY LenProperties
<1>3. C \subseteq DigitSet \cup Separators
  BY <1>1, <1>2 DEF ToSet
<1>4. W \in Seq(C)
  <2>1. \A i \in 1..Len(W) : W[i] \in C
    BY <1>2 DEF ToSet
  <2>2. W = [i \in 1..Len(W) |-> W[i]]
    BY <1>2
  <2> HIDE DEF C
  <2> QED
    BY <1>2, <2>1, <2>2
<1>5. C \cap J = C \cap DigitSet
  BY <1>3, CharacterKinds
<1>6. StripSeparators(W) = Keep(W, J)
  BY DEF StripSeparators
<1> HIDE DEF C, J
<1> QED
  BY <1>4, <1>5, <1>6, KeepSame

LEMMA SplitWhole ==
  ASSUME NEW s \in Seq(DigitSet), s # <<>>
  PROVE  SplitDecimal(s) = {[whole |-> s, frac |-> 0]}
<1>1. {i \in 1..Len(s) : IsSeparator(s[i])} = {}
  <2>1. \A i \in 1..Len(s) : s[i] \in DigitSet
    BY ElementOfSeq
  <2> QED
    BY <2>1, CharacterKinds DEF IsSeparator
<1>2. SelectLastInSeq(s, IsSeparator) = 0
  BY <1>1 DEF SelectLastInSeq
<1> QED
  BY <1>2 DEF SplitDecimal

(* What SplitDecimal makes of the digits d and F around the separator.     *)
FractionSplit(split, d, F) ==
  /\ Len(F) = 1 => split = IF d = <<>> THEN {} ELSE {[whole |-> d, frac |-> 10 * Number(F)]}
  /\ Len(F) = 2 => split = IF d = <<>> THEN {} ELSE {[whole |-> d, frac |-> Number(F)]}
  /\ Len(F) = 3 => split = {[whole |-> d \o F, frac |-> 0]}
  /\ Len(F) \notin {1, 2, 3} => split = {}

LEMMA SplitAtPoint ==
  ASSUME NEW W \in Seq(DigitSet \cup Separators), NEW p \in Separators, NEW F \in Seq(DigitSet)
  PROVE  FractionSplit(SplitDecimal(Append(W, p) \o F), Keep(W, DigitSet), F)
<1> DEFINE D == DigitSet \cup Separators
           X == Append(W, p)
           s == X \o F
           d == Keep(W, DigitSet)
           last == Len(W) + 1
           after == SubSeq(s, last + 1, Len(s))
           before == StripSeparators(SubSeq(s, 1, last - 1))
<1>1. p \in D /\ F \in Seq(D) /\ D \ Separators = DigitSet /\ DigitSet \subseteq D
  BY CharacterKinds
<1>2. X \in Seq(D) /\ Len(X) = last /\ last - 1 = Len(W) /\ last \in Nat /\ last > 0
      /\ W \in Seq(D)
  <2>1. X \in Seq(D) /\ Len(X) = last /\ Len(W) \in Nat /\ W \in Seq(D)
    <3>1. W \in Seq(D)
      OBVIOUS
    <3> HIDE DEF D
    <3> QED
      BY <1>1, <3>1, AppendFacts
  <2> QED
    BY <2>1
<1>3. /\ s \in Seq(D) /\ Len(s) = last + Len(F) /\ SubSeq(s, last + 1, last + Len(F)) = F
  <2>1. X \in Seq(D) /\ F \in Seq(D)
    BY <1>1, <1>2
  <2> HIDE DEF D, X, d, after, before
  <2>2. /\ s \in Seq(D) /\ Len(s) = Len(X) + Len(F)
        /\ SubSeq(s, Len(X) + 1, Len(X) + Len(F)) = F
    BY <2>1, Pieces
  <2> HIDE DEF s
  <2> QED
    BY <1>2, <2>2
<1>4. SelectLastInSeq(s, IsSeparator) = last
  <2> DEFINE At == Positions(s, Separators)
  <2>1. At # {} /\ Max(At) = last
    <3>1. F \in Seq(D \ Separators) /\ W \in Seq(D) /\ p \in D
      BY <1>1, <1>2
    <3> HIDE DEF D
    <3> QED
      BY <3>1, LastPosition
  <2>2. At = {i \in 1..Len(s) : IsSeparator(s[i])}
    BY DEF IsSeparator, Positions
  <2> HIDE DEF At, s
  <2> QED
    BY <2>1, <2>2 DEF SelectLastInSeq
<1>5. SubSeq(s, 1, last - 1) = W
  <2> DEFINE Z == <<p>> \o F
  <2>1. <<p>> \in Seq(D)
    BY <1>1
  <2>2. X = W \o <<p>>
    <3> HIDE DEF D
    <3> QED
      BY <1>1, <1>2, AppendIsConcat
  <2> DEFINE P == <<p>>
  <2> HIDE DEF D, P
  <2>3. s = W \o Z /\ Z \in Seq(D)
    BY <1>1, <1>2, <2>1, <2>2, ConcatAssociative, ConcatProperties DEF P
  <2> HIDE DEF Z, s
  <2>4. SubSeq(W \o Z, 1, Len(W)) = W
    BY <1>2, <2>3, Pieces
  <2> QED
    BY <1>2, <2>3, <2>4
<1>6. before = d /\ after = F
  BY <1>3, <1>5, StripIsDigits
<1>7. StripSeparators(s) = d \o F
  <2>1. StripSeparators(s) = Keep(s, DigitSet)
    BY <1>3, StripIsDigits
  <2>2. Keep(s, DigitSet) = Keep(X, DigitSet) \o Keep(F, DigitSet)
    <3> HIDE DEF D, X
    <3> QED
      BY <1>1, <1>2, KeepConcat
  <2>3. Keep(F, DigitSet) = F
    BY KeepAll
  <2>4. Keep(X, DigitSet) = d
    <3>1. p \notin DigitSet
      BY CharacterKinds
    <3> HIDE DEF D
    <3> QED
      BY <1>1, <1>2, <3>1, KeepAppend
  <2> QED
    BY <2>1, <2>2, <2>3, <2>4
<1>8. Len(F) = 3 => d \o F # <<>>
  <2>1. d \in Seq(D)
    <3>1. W \in Seq(D)
      BY <1>2
    <3>2. d \in Seq(D \cap DigitSet)
      <4> HIDE DEF D
      <4> QED
        BY <3>1, KeepType
    <3> QED
      BY <3>2
  <2>2. d \o F = <<>> => F = <<>>
    <3> HIDE DEF D, d
    <3> QED
      BY <1>1, <2>1, ConcatEqualIffEmpty
  <2>3. Len(F) = 3 => F # <<>>
    BY EmptySeq
  <2> QED
    BY <2>2, <2>3, Zenon
<1> HIDE DEF s, last, d, before, after
<1> DEFINE result ==
             CASE last = 0 -> [whole |-> s, frac |-> 0]
               [] last > 0 /\ Len(after) = 1 -> [whole |-> before, frac |-> 10 * Number(after)]
               [] last > 0 /\ Len(after) = 2 -> [whole |-> before, frac |-> Number(after)]
               [] last > 0 /\ Len(after) = 3 -> [whole |-> StripSeparators(s), frac |-> 0]
               [] OTHER -> [whole |-> <<>>, frac |-> 0]
<1>9. SplitDecimal(s) = IF result.whole = <<>> THEN {} ELSE {result}
  BY <1>4 DEF SplitDecimal, before, after
<1>10. /\ Len(F) = 1 => result = [whole |-> d, frac |-> 10 * Number(F)]
       /\ Len(F) = 2 => result = [whole |-> d, frac |-> Number(F)]
       /\ Len(F) = 3 => result = [whole |-> d \o F, frac |-> 0]
       /\ Len(F) \notin {1, 2, 3} => result = [whole |-> <<>>, frac |-> 0]
  <2>1. last > 0 /\ last # 0
    BY <1>2
  <2> HIDE DEF X, D
  <2>2. Len(F) = 1 => result = [whole |-> d, frac |-> 10 * Number(F)]
    BY <1>6, <2>1
  <2>3. Len(F) = 2 => result = [whole |-> d, frac |-> Number(F)]
    BY <1>6, <2>1
  <2>4. Len(F) = 3 => result = [whole |-> d \o F, frac |-> 0]
    BY <1>6, <1>7, <2>1
  <2>5. Len(F) \notin {1, 2, 3} => result = [whole |-> <<>>, frac |-> 0]
    BY <1>6, <2>1
  <2> QED
    BY <2>2, <2>3, <2>4, <2>5
<1> HIDE DEF result, X, D
<1>11. FractionSplit(SplitDecimal(s), d, F)
  <2>1. \A whole, frac : [whole |-> whole, frac |-> frac].whole = whole
    OBVIOUS
  <2>2. Len(F) = 1 => SplitDecimal(s) = IF d = <<>> THEN {}
                                        ELSE {[whole |-> d, frac |-> 10 * Number(F)]}
    BY <1>9, <1>10, <2>1, Zenon
  <2>3. Len(F) = 2 => SplitDecimal(s) = IF d = <<>> THEN {}
                                        ELSE {[whole |-> d, frac |-> Number(F)]}
    BY <1>9, <1>10, <2>1, Zenon
  <2>4. Len(F) = 3 => SplitDecimal(s) = {[whole |-> d \o F, frac |-> 0]}
    BY <1>8, <1>9, <1>10, <2>1, Zenon
  <2>5. Len(F) \notin {1, 2, 3} => SplitDecimal(s) = {}
    BY <1>9, <1>10, <2>1, Zenon
  <2> QED
    BY <2>2, <2>3, <2>4, <2>5, Zenon DEF FractionSplit
<1> QED
  BY <1>11, Zenon DEF s, d, X

LEMMA CeilingIsExact ==
  ASSUME NEW whole \in Nat, NEW frac \in 0..99
  PROVE  Exceeds(whole, frac) <=> ~(100 * whole + frac <= MaxPriceMinor)
<1>1. \A x \in Int : whole > x \div 100 <=> 100 * whole > x
  OBVIOUS
<1>2. MaxPriceMinor - frac \in Int /\ MaxPriceMinor \in Nat
  BY CeilingIsNat
<1>3. Exceeds(whole, frac) <=> 100 * whole > MaxPriceMinor - frac
  BY <1>1, <1>2 DEF Exceeds
<1>4. 100 * whole > MaxPriceMinor - frac <=> ~(100 * whole + frac <= MaxPriceMinor)
  BY <1>2
<1> QED
  BY <1>3, <1>4

(* What ParseAmount makes of whole and frac.                               *)
Priced(whole, frac) ==
  IF 100 * whole + frac <= MaxPriceMinor THEN {100 * whole + frac} ELSE {}

Kept == DigitSet \cup Separators \cup {"-"}
Cleaned(raw) == TrimRight(Keep(ReplaceAll(raw, "minus", "-"), Kept))

LEMMA Unsigned ==
  ASSUME NEW raw, NEW s \in Seq(DigitSet \cup Separators), Cleaned(raw) = s,
         NEW i \in 1..Len(s), s[i] \in DigitSet
  PROVE  /\ SplitDecimal(s) = {} => ParseAmount(raw) = {}
         /\ \A whole \in Seq(DigitSet), frac \in 0..99 :
              SplitDecimal(s) = {[whole |-> whole, frac |-> frac]} =>
                ParseAmount(raw) = Priced(Number(whole), frac)
<1>1. \A j \in 1..Len(s) : s[j] \in DigitSet \cup Separators
  <2> DEFINE D == DigitSet \cup Separators
  <2> HIDE DEF D
  <2>1. \A j \in 1..Len(s) : s[j] \in D
    BY ElementOfSeq DEF D
  <2> QED
    BY <2>1 DEF D
<1>2. ~Contains(s, "-")
  <2>1. "-" \notin DigitSet \cup Separators
    BY CharacterKinds DEF Signs
  <2> QED
    BY <1>1, <2>1, Zenon DEF Contains
<1>3. \E c \in ToSet(s) : IsDigit(c)
  <2>1. DOMAIN s = 1..Len(s)
    BY LenProperties
  <2>2. s[i] \in ToSet(s)
    BY <2>1 DEF ToSet
  <2> QED
    BY <2>2, Zenon DEF IsDigit
<1>4. ParseAmount(raw) = {100 * Number(p.whole) + p.frac :
                            p \in {q \in SplitDecimal(s) : ~Exceeds(Number(q.whole), q.frac)}}
  <2>1. s = TrimRight(Keep(ReplaceAll(raw, "minus", "-"), DigitSet \cup Separators \cup {"-"}))
    BY DEF Cleaned, Kept
  <2> QED
    BY <1>2, <1>3, <2>1, Zenon DEF ParseAmount
<1>5. ASSUME NEW whole \in Seq(DigitSet), NEW frac \in 0..99,
             SplitDecimal(s) = {[whole |-> whole, frac |-> frac]}
      PROVE  ParseAmount(raw) = Priced(Number(whole), frac)
  <2> DEFINE w == Number(whole)
             q == [whole |-> whole, frac |-> frac]
  <2>1. w \in Nat
    BY NumberType
  <2>2. Exceeds(w, frac) <=> ~(100 * w + frac <= MaxPriceMinor)
    <3> HIDE DEF w
    <3> QED
      BY <2>1, CeilingIsExact
  <2>3. q.whole = whole /\ q.frac = frac
    OBVIOUS
  <2>6. SplitDecimal(s) = {q}
    BY <1>5
  <2> HIDE DEF q
  <2> DEFINE Q == {x \in SplitDecimal(s) : ~Exceeds(Number(x.whole), x.frac)}
  <2>7. Q = IF Exceeds(w, frac) THEN {} ELSE {q}
    BY <2>3, <2>6
  <2>8. ParseAmount(raw) = {100 * Number(x.whole) + x.frac : x \in Q}
    BY <1>4
  <2> HIDE DEF Q
  <2>4. ParseAmount(raw) = IF Exceeds(w, frac) THEN {} ELSE {100 * w + frac}
    BY <2>3, <2>7, <2>8
  <2> HIDE DEF w
  <2>5. ParseAmount(raw) = Priced(w, frac)
    BY <2>2, <2>4, Zenon DEF Priced
  <2> QED
    BY <2>5 DEF w
<1> QED
  BY <1>4, <1>5

LEMMA NoSign ==
  ASSUME NEW C, C \cap Signs = {}, NEW s \in Seq(C)
  PROVE  ReplaceAll(s, "minus", "-") = s
<1>1. \A i \in 1..Len(s) : s[i] # "minus"
  BY ElementOfSeq DEF Signs
<1>2. s = [i \in 1..Len(s) |-> s[i]]
  BY LenProperties
<1> QED
  BY <1>1, <1>2, Zenon DEF ReplaceAll

(* Everything behind the last digit is cut off.                            *)
LEMMA Cleaning ==
  ASSUME NEW C, C \cap Signs = {}, NEW X \in Seq(C), NEW c \in C, c \in DigitSet,
         NEW T \in Seq(C \ DigitSet)
  PROVE  Cleaned(Append(X, c) \o T) = Append(Keep(X, DigitSet \cup Separators), c)
<1> DEFINE D == DigitSet \cup Separators
           Y == Append(X, c)
           raw == Y \o T
           E == C \ DigitSet
           CD == C \cap D
           ED == E \cap D
<1>1. Y \in Seq(C) /\ T \in Seq(C) /\ T \in Seq(E) /\ c \in CD
  <2>1. Y \in Seq(C) /\ T \in Seq(E)
    BY AppendFacts
  <2>2. T \in Seq(C) /\ c \in CD
    OBVIOUS
  <2> QED
    BY <2>1, <2>2
<1>2. ED \subseteq Separators /\ C \cap Kept = C \cap D /\ c \in D
  BY DEF Kept, Signs
<1> HIDE DEF E, ED, CD
<1>3. Keep(Y, D) = Append(Keep(X, D), c)
  <2> HIDE DEF D
  <2> QED
    BY <1>2, KeepAppend
<1> HIDE DEF D, Y
<1>4. raw \in Seq(C) /\ Keep(raw, D) = Keep(Y, D) \o Keep(T, D)
  BY <1>1, KeepConcat, ConcatProperties
<1> HIDE DEF raw
<1>5. ReplaceAll(raw, "minus", "-") = raw
  BY <1>4, NoSign
<1>6. Keep(raw, Kept) = Keep(raw, D)
  <2>1. raw \in Seq(C)
    BY <1>4
  <2> DEFINE K == Kept
  <2>2. C \cap K = C \cap D
    BY <1>2
  <2> HIDE DEF K
  <2>3. Keep(raw, K) = Keep(raw, D)
    BY <2>1, <2>2, KeepSame
  <2> QED
    BY <2>3 DEF K
<1>7. Keep(T, D) \in Seq(Separators)
  <2>1. Keep(T, D) \in Seq(ED)
    BY <1>1, KeepType DEF ED
  <2> QED
    BY <1>2, <2>1
<1>8. Keep(X, D) \in Seq(CD)
  BY KeepType DEF CD
<1>9. c \notin Separators
  BY CharacterKinds
<1> DEFINE U == Keep(X, D)
           V == Keep(T, D)
<1>10. TrimRight(Append(U, c) \o V) = Append(U, c)
  <2>1. U \in Seq(CD) /\ V \in Seq(Separators) /\ c \in CD
    BY <1>1, <1>7, <1>8
  <2> HIDE DEF U, V
  <2> QED
    BY <1>9, <2>1, Trimmed
<1>11. Cleaned(raw) = Append(U, c)
  BY <1>3, <1>4, <1>5, <1>6, <1>10 DEF Cleaned
<1> QED
  BY <1>11 DEF raw, Y, D

LEMMA LastKept ==
  ASSUME NEW C, NEW U \in Seq(C), NEW c \in C, c \in DigitSet
  PROVE  /\ Keep(Append(U, c), DigitSet) = Append(Keep(U, DigitSet), c)
         /\ Keep(U, DigitSet) \in Seq(DigitSet)
         /\ Keep(Append(U, c), DigitSet) \in Seq(DigitSet)
         /\ Len(Keep(U, DigitSet)) \in Nat
         /\ Len(Keep(Append(U, c), DigitSet)) = Len(Keep(U, DigitSet)) + 1
         /\ Keep(Append(U, c), DigitSet)[Len(Keep(U, DigitSet)) + 1] = c
         /\ Keep(Append(U, c), DigitSet) # <<>>
<1> DEFINE K == Keep(U, DigitSet)
           B == Keep(Append(U, c), DigitSet)
<1>1. B = Append(K, c)
  BY KeepAppend
<1>2. K \in Seq(DigitSet)
  <2>1. K \in Seq(C \cap DigitSet)
    BY KeepType
  <2> QED
    BY <2>1
<1> HIDE DEF K, B
<1>3. /\ B \in Seq(DigitSet) /\ Len(B) = Len(K) + 1 /\ Len(K) \in Nat
      /\ B[Len(K) + 1] = c
  BY <1>1, <1>2, AppendFacts
<1>4. B # <<>>
  <2>1. Len(B) # 0
    BY <1>3
  <2> QED
    BY <2>1, EmptySeq
<1> QED
  BY <1>1, <1>2, <1>3, <1>4 DEF K, B

(* A text whose digits have no separator among them.                       *)
LEMMA ReadWhole ==
  ASSUME NEW C, C \cap Signs = {}, NEW U \in Seq(C \ Separators), NEW c \in C, c \in DigitSet,
         NEW T \in Seq(C \ DigitSet)
  PROVE  ParseAmount(Append(U, c) \o T) = Priced(Number(Keep(Append(U, c), DigitSet)), 0)
<1> DEFINE D == DigitSet \cup Separators
           E == C \ Separators
           raw == Append(U, c) \o T
           s == Keep(Append(U, c), DigitSet)
<1>1. U \in Seq(C) /\ U \in Seq(E) /\ c \in E /\ E \cap D = E \cap DigitSet
  BY CharacterKinds
<1>2. Keep(U, D) = Keep(U, DigitSet)
  <2> HIDE DEF E, D
  <2> QED
    BY <1>1, KeepSame
<1>3. Cleaned(raw) = Append(Keep(U, D), c)
  BY <1>1, Cleaning
<1>4. /\ s = Append(Keep(U, DigitSet), c) /\ s \in Seq(DigitSet) /\ s # <<>>
      /\ Len(Keep(U, DigitSet)) \in Nat
      /\ Len(s) = Len(Keep(U, DigitSet)) + 1
      /\ s[Len(Keep(U, DigitSet)) + 1] = c
  BY <1>1, LastKept
<1> HIDE DEF s, raw
<1> DEFINE k == Len(Keep(U, DigitSet)) + 1
<1>5. k \in 1..Len(s) /\ s[k] \in DigitSet
  BY <1>4
<1>6. s \in Seq(DigitSet \cup Separators) /\ Cleaned(raw) = s
  <2>1. DigitSet \subseteq DigitSet \cup Separators
    OBVIOUS
  <2>2. s \in Seq(DigitSet \cup Separators)
    BY <1>4, <2>1
  <2> QED
    BY <1>2, <1>3, <1>4, <2>2, Zenon
<1> HIDE DEF k, D
<1>7. SplitDecimal(s) = {[whole |-> s, frac |-> 0]}
  BY <1>4, SplitWhole
<1>8. ParseAmount(raw) = Priced(Number(s), 0)
  <2>1. 0 \in 0..99 /\ s \in Seq(DigitSet)
    BY <1>4
  <2>2. \A whole \in Seq(DigitSet), frac \in 0..99 :
          SplitDecimal(s) = {[whole |-> whole, frac |-> frac]} =>
            ParseAmount(raw) = Priced(Number(whole), frac)
    BY <1>5, <1>6, Unsigned
  <2> QED
    BY <1>7, <2>1, <2>2, Zenon
<1> QED
  BY <1>8 DEF raw, s

(* The amount read from the digits d and the digits F behind the point.    *)
FractionRead(amount, d, F) ==
  /\ Len(F) = 1 => amount = IF d = <<>> THEN {} ELSE Priced(Number(d), 10 * Number(F))
  /\ Len(F) = 2 => amount = IF d = <<>> THEN {} ELSE Priced(Number(d), Number(F))
  /\ Len(F) = 3 => amount = Priced(Number(d \o F), 0)
  /\ Len(F) \notin {1, 2, 3} => amount = {}

(* A text with a separator p before its last digits.                       *)
LEMMA ReadFraction ==
  ASSUME NEW C, C \cap Signs = {}, NEW A \in Seq(C), NEW p \in C, p \in Separators,
         NEW U \in Seq(C \ Separators), NEW c \in C, c \in DigitSet,
         NEW T \in Seq(C \ DigitSet)
  PROVE  FractionRead(ParseAmount((Append(A, p) \o Append(U, c)) \o T),
                      Keep(A, DigitSet), Keep(Append(U, c), DigitSet))
<1> DEFINE D == DigitSet \cup Separators
           E == C \ Separators
           X == Append(A, p) \o U
           raw == (Append(A, p) \o Append(U, c)) \o T
           d == Keep(A, DigitSet)
           F == Keep(Append(U, c), DigitSet)
           W == Keep(A, D)
           s == Append(W, p) \o F
<1>1. U \in Seq(C) /\ U \in Seq(E) /\ c \in E /\ E \cap D = E \cap DigitSet /\ p \in D
  BY CharacterKinds
<1>2. Append(A, p) \in Seq(C) /\ X \in Seq(C) /\ Append(A, p) \o Append(U, c) = Append(X, c)
  <2>1. Append(A, p) \in Seq(C)
    BY AppendFacts
  <2> QED
    BY <1>1, <2>1, ConcatAppend
<1>3. Cleaned(raw) = Append(Keep(X, D), c)
  <2> HIDE DEF X
  <2>1. Cleaned(Append(X, c) \o T) = Append(Keep(X, D), c)
    BY <1>2, Cleaning
  <2> QED
    BY <1>2, <2>1, Zenon
<1>4. Keep(X, D) = Append(W, p) \o Keep(U, DigitSet)
  <2> HIDE DEF D, E
  <2>1. Keep(X, D) = Keep(Append(A, p), D) \o Keep(U, D)
    <3> DEFINE P == Append(A, p)
    <3>1. P \in Seq(C) /\ U \in Seq(C)
      BY <1>1, <1>2
    <3> HIDE DEF P
    <3>2. Keep(P \o U, D) = Keep(P, D) \o Keep(U, D)
      BY <3>1, KeepConcat
    <3> QED
      BY <3>2 DEF P
  <2>2. Keep(Append(A, p), D) = Append(W, p)
    BY <1>1, KeepAppend
  <2>3. Keep(U, D) = Keep(U, DigitSet)
    BY <1>1, KeepSame
  <2> QED
    BY <2>1, <2>2, <2>3, Zenon
<1>5. /\ F = Append(Keep(U, DigitSet), c) /\ F \in Seq(DigitSet) /\ F # <<>>
      /\ Keep(U, DigitSet) \in Seq(DigitSet) /\ Len(F) = Len(Keep(U, DigitSet)) + 1
      /\ Len(Keep(U, DigitSet)) \in Nat /\ F[Len(Keep(U, DigitSet)) + 1] = c
  BY <1>1, LastKept
<1>6. W \in Seq(D) /\ Append(W, p) \in Seq(D) /\ d \in Seq(DigitSet)
  <2>1. W \in Seq(C \cap D)
    <3> HIDE DEF D
    <3> QED
      BY KeepType
  <2>2. d \in Seq(C \cap DigitSet)
    BY KeepType
  <2>3. W \in Seq(D) /\ d \in Seq(DigitSet)
    BY <2>1, <2>2
  <2> HIDE DEF D, W
  <2> QED
    BY <1>1, <2>3, AppendFacts
<1>7. Keep(W, DigitSet) = d
  <2>1. D \cap DigitSet = DigitSet
    OBVIOUS
  <2>2. Keep(Keep(A, D), DigitSet) = Keep(A, D \cap DigitSet)
    <3> HIDE DEF D
    <3> QED
      BY KeepKeep
  <2> QED
    BY <2>1, <2>2, Zenon
<1> HIDE DEF F, W, d, X, raw
<1>8. Cleaned(raw) = s
  <2> DEFINE G == Keep(U, DigitSet)
             Z == Append(W, p)
  <2>1. G \in Seq(D) /\ Z \in Seq(D) /\ c \in D
    BY <1>5, <1>6
  <2> HIDE DEF G, Z, D
  <2>2. Z \o Append(G, c) = Append(Z \o G, c)
    BY <2>1, ConcatAppend
  <2>3. F = Append(G, c) /\ Keep(X, D) = Z \o G
    BY <1>4, <1>5 DEF G, Z
  <2> QED
    BY <1>3, <2>2, <2>3, Zenon DEF Z
<1> DEFINE k == Len(W) + 1 + Len(F)
<1>9. s \in Seq(D) /\ k \in 1..Len(s) /\ s[k] \in DigitSet
  <2> DEFINE Z == Append(W, p)
  <2>1. Z \in Seq(D) /\ F \in Seq(D) /\ Len(F) \in 1..Len(F) /\ F[Len(F)] = c
    BY <1>5, <1>6
  <2>2. Len(Z) = Len(W) + 1 /\ Len(W) \in Nat
    <3> HIDE DEF D
    <3> QED
      BY <1>1, <1>6, AppendFacts
  <2> HIDE DEF Z, D
  <2>3. /\ Z \o F \in Seq(D) /\ Len(Z \o F) = Len(Z) + Len(F) /\ Len(F) \in Nat
        /\ (Z \o F)[Len(Z) + Len(F)] = F[Len(F)]
    BY <2>1, Pieces
  <2>4. k \in 1..(Len(Z) + Len(F))
    BY <2>2, <2>3
  <2> QED
    BY <2>1, <2>2, <2>3, <2>4, Zenon DEF Z
<1> HIDE DEF s, k
<1>10. /\ SplitDecimal(s) = {} => ParseAmount(raw) = {}
       /\ \A whole \in Seq(DigitSet), frac \in 0..99 :
            SplitDecimal(s) = {[whole |-> whole, frac |-> frac]} =>
              ParseAmount(raw) = Priced(Number(whole), frac)
  BY <1>8, <1>9, Unsigned
<1>11. FractionSplit(SplitDecimal(s), d, F)
  <2>1. W \in Seq(DigitSet \cup Separators)
    BY <1>6
  <2>2. FractionSplit(SplitDecimal(s), Keep(W, DigitSet), F)
    BY <1>5, <2>1, SplitAtPoint DEF s
  <2> QED
    BY <1>7, <2>2, Zenon
<1> HIDE DEF D
<1>12. /\ Len(F) = 1 => 10 * Number(F) \in 0..99
       /\ Len(F) = 2 => Number(F) \in 0..99
       /\ 0 \in 0..99 /\ d \o F \in Seq(DigitSet)
  <2>1. Len(F) = 1 => Number(F) \in 0..9
    BY <1>5, <1>6, NumberWithFraction
  <2>2. Len(F) = 2 => Number(F) \in 0..99
    BY <1>5, <1>6, NumberWithFraction
  <2>3. d \o F \in Seq(DigitSet)
    BY <1>5, <1>6, ConcatProperties
  <2>4. \A n \in 0..9 : 10 * n \in 0..99
    OBVIOUS
  <2>5. 0 \in 0..99
    OBVIOUS
  <2> QED
    BY <2>1, <2>2, <2>3, <2>4, <2>5, Zenon
<1>13. /\ Len(F) = 1 => ParseAmount(raw) = IF d = <<>> THEN {} ELSE Priced(Number(d), 10 * Number(F))
       /\ Len(F) = 2 => ParseAmount(raw) = IF d = <<>> THEN {} ELSE Priced(Number(d), Number(F))
       /\ Len(F) = 3 => ParseAmount(raw) = Priced(Number(d \o F), 0)
       /\ Len(F) \notin {1, 2, 3} => ParseAmount(raw) = {}
  <2>1. d \in Seq(DigitSet)
    BY <1>6
  <2> QED
    BY <1>10, <1>11, <1>12, <2>1, Zenon DEF FractionSplit
<1> QED
  BY <1>13, Zenon DEF raw, d, F, FractionRead

Trims(C, s) ==
  \/ s \in Seq(Separators) /\ TrimRight(s) = <<>>
  \/ \E A \in Seq(C), c \in C, B \in Seq(Separators) :
       s = Append(A, c) \o B /\ TrimRight(s) = Append(A, c)

LEMMA TrimSplit ==
  ASSUME NEW C, NEW s \in Seq(C)
  PROVE  Trims(C, s)
<1> DEFINE K == C \ Separators
           E == C \ K
<1>1. \/ s \in Seq(E)
      \/ \E A \in Seq(C), c \in C \cap K, B \in Seq(E) : s = Append(A, c) \o B
  <2> HIDE DEF K
  <2>1. Splits(C, s, K)
    BY LastOf
  <2> QED
    BY <2>1, Zenon DEF Splits
<1>2. E \subseteq Separators /\ \A c \in C \cap K : c \notin Separators
  OBVIOUS
<1> HIDE DEF E, K
<1>3. Seq(E) \subseteq Seq(Separators)
  BY <1>2
<1>4. CASE s \in Seq(E)
  <2>1. \A i \in 1..Len(s) : s[i] \in Separators
    BY <1>2, <1>4, ElementOfSeq
  <2>2. {i \in 1..Len(s) : ~IsSeparator(s[i])} = {}
    BY <2>1 DEF IsSeparator
  <2>3. SelectLastInSeq(s, LAMBDA x : ~IsSeparator(x)) = 0
    BY <2>2 DEF SelectLastInSeq
  <2>4. TrimRight(s) = SubSeq(s, 1, 0)
    BY <2>3 DEF TrimRight
  <2>5. SubSeq(s, 1, 0) = <<>>
    BY SubSeqEmpty
  <2> QED
    BY <1>3, <1>4, <2>4, <2>5 DEF Trims
<1>5. CASE \E A \in Seq(C), c \in C \cap K, B \in Seq(E) : s = Append(A, c) \o B
  <2>1. PICK A \in Seq(C), c \in C \cap K, B \in Seq(E) : s = Append(A, c) \o B
    BY <1>5
  <2>2. B \in Seq(Separators) /\ c \notin Separators /\ c \in C
    BY <1>2, <1>3
  <2>3. TrimRight(Append(A, c) \o B) = Append(A, c)
    BY <2>2, Trimmed
  <2> QED
    BY <2>1, <2>2, <2>3 DEF Trims
<1> QED
  BY <1>1, <1>4, <1>5

LEMMA DigitlessRefused ==
  ASSUME NEW C, C \cap DigitSet = {}, NEW raw \in Seq(C)
  PROVE  ParseAmount(raw) = {}
<1> DEFINE R == ReplaceAll(raw, "minus", "-")
           CM == C \cup {"-"}
           E == CM \cap Kept
           s == Cleaned(raw)
<1>1. R \in Seq(CM)
  <2>1. \A i \in 1..Len(raw) : (IF raw[i] = "minus" THEN "-" ELSE raw[i]) \in CM
    BY ElementOfSeq
  <2>2. Len(raw) \in Nat
    BY LenProperties
  <2>3. R = [i \in 1..Len(raw) |-> IF raw[i] = "minus" THEN "-" ELSE raw[i]]
    BY DEF ReplaceAll
  <2> HIDE DEF CM, R
  <2> QED
    BY <2>1, <2>2, <2>3
<1>2. E \cap DigitSet = {}
  BY CharacterKinds DEF Signs
<1> HIDE DEF CM, R
<1>3. Keep(R, Kept) \in Seq(E)
  BY <1>1, KeepType
<1>4. s = TrimRight(Keep(R, Kept))
  BY DEF Cleaned, R
<1> HIDE DEF E, s
<1>5. s \in Seq(E)
  <2> DEFINE k == Keep(R, Kept)
  <2>1. k \in Seq(E)
    BY <1>3
  <2> HIDE DEF k
  <2>2. \/ k \in Seq(Separators) /\ TrimRight(k) = <<>>
        \/ \E A \in Seq(E), c \in E, B \in Seq(Separators) :
             k = Append(A, c) \o B /\ TrimRight(k) = Append(A, c)
    <3>1. Trims(E, k)
      BY <2>1, TrimSplit
    <3> QED
      BY <3>1 DEF Trims
  <2>4. <<>> \in Seq(E) /\ \A A \in Seq(E), c \in E : Append(A, c) \in Seq(E)
    BY EmptySeq, AppendFacts
  <2>3. TrimRight(k) \in Seq(E)
    BY <2>2, <2>4, Zenon
  <2> QED
    BY <1>4, <2>3 DEF k
<1>6. ~\E c \in ToSet(s) : IsDigit(c)
  <2>1. DOMAIN s = 1..Len(s) /\ \A i \in 1..Len(s) : s[i] \in E
    BY <1>5, LenProperties, ElementOfSeq
  <2> QED
    BY <1>2, <2>1 DEF ToSet, IsDigit
<1> QED
  BY <1>6, Zenon DEF ParseAmount, s, Cleaned, Kept

LEMMA ContainsInConcat ==
  ASSUME NEW C, NEW X \in Seq(C), NEW Y \in Seq(C), NEW x
  PROVE  Contains(X \o Y, x) <=> Contains(X, x) \/ Contains(Y, x)
<1> DEFINE s == X \o Y
           m == Len(X)
           n == Len(Y)
<1>1. /\ Len(s) = m + n /\ m \in Nat /\ n \in Nat
      /\ \A i \in 1..m : s[i] = X[i]
      /\ \A i \in 1..n : s[m + i] = Y[i]
  BY Pieces
<1> HIDE DEF s, m, n
<1>2. ASSUME NEW i \in 1..m + n
      PROVE  i \in 1..m \/ (i - m \in 1..n /\ m + (i - m) = i)
  BY <1>1
<1>3. (\A i \in 1..m : i \in 1..m + n) /\ (\A i \in 1..n : m + i \in 1..m + n)
  BY <1>1
<1>4. (\E i \in 1..m + n : s[i] = x) <=> (\E i \in 1..m : X[i] = x) \/ \E i \in 1..n : Y[i] = x
  <2>1. ASSUME NEW i \in 1..m + n, s[i] = x
        PROVE  (\E j \in 1..m : X[j] = x) \/ \E j \in 1..n : Y[j] = x
    <3>1. CASE i \in 1..m
      BY <1>1, <2>1, <3>1
    <3>2. CASE i - m \in 1..n /\ m + (i - m) = i
      BY <1>1, <2>1, <3>2
    <3> QED
      BY <1>2, <3>1, <3>2
  <2>2. ASSUME NEW i \in 1..m, X[i] = x PROVE \E j \in 1..m + n : s[j] = x
    BY <1>1, <1>3, <2>2
  <2>3. ASSUME NEW i \in 1..n, Y[i] = x PROVE \E j \in 1..m + n : s[j] = x
    BY <1>1, <1>3, <2>3
  <2> QED
    BY <2>1, <2>2, <2>3, Zenon
<1> QED
  BY <1>1, <1>4, Zenon DEF Contains, s, m, n

LEMMA ContainsLast ==
  ASSUME NEW C, NEW A \in Seq(C), NEW c \in C, NEW x
  PROVE  Contains(Append(A, c), x) <=> Contains(A, x) \/ c = x
<1>1. <<c>> \in Seq(C) /\ (Contains(<<c>>, x) <=> c = x)
  BY DEF Contains
<1>2. Append(A, c) = A \o <<c>>
  BY AppendIsConcat
<1> DEFINE B == <<c>>
<1> HIDE DEF B
<1>3. Contains(A \o B, x) <=> Contains(A, x) \/ Contains(B, x)
  BY <1>1, ContainsInConcat DEF B
<1> QED
  BY <1>1, <1>2, <1>3, Zenon DEF B

LEMMA KeepContains ==
  ASSUME NEW C, NEW s \in Seq(C), NEW K, NEW x \in K
  PROVE  Contains(s, x) => Contains(Keep(s, K), x)
<1> DEFINE T == {u \in Seq(C) : Contains(u, x) => Contains(Keep(u, K), x)}
<1>1. <<>> \in T
  BY EmptySeq DEF Contains
<1>2. ASSUME NEW u \in Seq(C), NEW c \in C, u \in T PROVE Append(u, c) \in T
  <2>1. Keep(Append(u, c), K) = IF c \in K THEN Append(Keep(u, K), c) ELSE Keep(u, K)
    BY KeepAppend
  <2>2. Contains(Append(u, c), x) <=> Contains(u, x) \/ c = x
    BY ContainsLast
  <2>3. c \in K => (Contains(Append(Keep(u, K), c), x) <=> Contains(Keep(u, K), x) \/ c = x)
    <3> DEFINE k == Keep(u, K)
               E == C \cap K
    <3>1. k \in Seq(E) /\ (c \in K => c \in E)
      BY KeepType
    <3> HIDE DEF k, E
    <3>2. c \in K => (Contains(Append(k, c), x) <=> Contains(k, x) \/ c = x)
      BY <3>1, ContainsLast
    <3> QED
      BY <3>2 DEF k
  <2>4. Append(u, c) \in Seq(C)
    BY AppendFacts
  <2> QED
    BY <1>2, <2>1, <2>2, <2>3, <2>4, Zenon
<1> HIDE DEF T
<1>3. Seq(C) \subseteq T
  BY <1>1, <1>2, OnSequences
<1> QED
  BY <1>3 DEF T

LEMMA SignRefused ==
  ASSUME NEW C, NEW raw \in Seq(C), NEW x \in Signs, Contains(raw, x)
  PROVE  ParseAmount(raw) = {}
<1> DEFINE R == ReplaceAll(raw, "minus", "-")
           CM == C \cup {"-"}
           minus == "-"
           k == Keep(R, Kept)
<1>1. R \in Seq(CM) /\ Contains(R, minus)
  <2>1. \A i \in 1..Len(raw) : (IF raw[i] = "minus" THEN "-" ELSE raw[i]) \in CM
    BY ElementOfSeq
  <2>2. Len(raw) \in Nat
    BY LenProperties
  <2>3. R = [i \in 1..Len(raw) |-> IF raw[i] = "minus" THEN "-" ELSE raw[i]]
    BY DEF ReplaceAll
  <2>4. PICK i \in 1..Len(raw) : raw[i] = x
    BY DEF Contains
  <2>5. R[i] = minus
    BY <2>3, <2>4 DEF Signs
  <2> HIDE DEF CM, R, minus
  <2>6. R \in Seq(CM) /\ Len(R) = Len(raw)
    BY <2>1, <2>2, <2>3
  <2> QED
    BY <2>5, <2>6 DEF Contains
<1>2. minus \in Kept /\ minus \notin Separators
  BY CharacterKinds DEF Kept, Signs
<1> HIDE DEF CM, R, minus
<1>3. k \in Seq(CM \cap Kept) /\ Contains(k, minus)
  BY <1>1, <1>2, KeepType, KeepContains
<1>4. Cleaned(raw) = TrimRight(k)
  BY DEF Cleaned, R
<1> DEFINE E == CM \cap Kept
<1> HIDE DEF k, E
<1>5. Contains(TrimRight(k), minus)
  <2>1. \A B \in Seq(Separators) : ~Contains(B, minus)
    BY <1>2, ElementOfSeq DEF Contains
  <2>2. k \in Seq(E)
    BY <1>3 DEF E
  <2>3. PICK A \in Seq(E), c \in E, B \in Seq(Separators) :
          k = Append(A, c) \o B /\ TrimRight(k) = Append(A, c)
    BY <1>3, <2>1, <2>2, TrimSplit DEF Trims
  <2> DEFINE D == E \cup Separators
             X == Append(A, c)
  <2>4. X \in Seq(D) /\ B \in Seq(D)
    <3>1. X \in Seq(E)
      BY AppendFacts
    <3> HIDE DEF X
    <3> QED
      BY <3>1
  <2> HIDE DEF D, X
  <2>5. Contains(X \o B, minus) <=> Contains(X, minus) \/ Contains(B, minus)
    BY <2>4, ContainsInConcat
  <2> QED
    BY <1>3, <2>1, <2>3, <2>5, Zenon DEF X
<1> QED
  BY <1>4, <1>5, Zenon DEF ParseAmount, Cleaned, Kept, minus

-----------------------------------------------------------------------------
(* A price is read back.                                                   *)

LEMMA TwoDigitsAreRead ==
  ASSUME NEW n \in 1..99
  PROVE  /\ TwoDigits(n) \in Seq(DigitSet) /\ Len(TwoDigits(n)) = 2
         /\ Number(TwoDigits(n)) = n
         /\ \E U \in Seq(DigitSet), c \in DigitSet : TwoDigits(n) = Append(U, c)
<1> DEFINE t == TwoDigits(n)
           d == DigitsOf[n]
           zero == DigitsOf[0]
<1>1. n \in Nat /\ 0 \in Nat
  OBVIOUS
<1>2. /\ d \in Seq(DigitSet) /\ Number(d) = n
      /\ n < 10 => Len(d) = 1
      /\ n >= 10 /\ n < 100 => Len(d) = 2
  BY <1>1, DigitsAreRead
<1>3. zero \in Seq(DigitSet) /\ Number(zero) = 0 /\ Len(zero) = 1
  <2>1. 0 < 10
    OBVIOUS
  <2> QED
    BY <1>1, <2>1, DigitsAreRead
<1>4. zero = <<"0">>
  <2>1. 0 < 10 /\ 0 % 10 = 0 /\ 0 + 1 = 1
    OBVIOUS
  <2>2. DigitsOf[0] = <<LastDigit(0)>>
    BY <1>1, <2>1, DigitsOfEquation
  <2>3. LastDigit(0) = Digits[1]
    BY <2>1 DEF LastDigit
  <2>4. Digits[1] = "0"
    BY DEF Digits
  <2> QED
    BY <2>2, <2>3, <2>4, Zenon
<1>5. t = IF n < 10 THEN zero \o d ELSE d
  BY <1>4, Zenon DEF TwoDigits
<1> HIDE DEF t, d, zero
<1>6. t \in Seq(DigitSet) /\ Len(t) = 2 /\ Number(t) = n
  <2>1. CASE n < 10
    <3>1. /\ zero \o d \in Seq(DigitSet) /\ Len(zero \o d) = Len(zero) + Len(d)
      BY <1>2, <1>3, ConcatProperties
    <3>2. Len(d) = 1 => Number(zero \o d) = 10 * Number(zero) + Number(d)
      BY <1>2, <1>3, NumberWithFraction
    <3>3. Len(d) = 1 /\ t = zero \o d /\ 1 + 1 = 2 /\ 10 * 0 + n = n
      BY <1>2, <1>5, <2>1
    <3> QED
      BY <1>2, <1>3, <3>1, <3>2, <3>3, Zenon
  <2>2. CASE ~(n < 10)
    <3>1. n >= 10 /\ n < 100 /\ t = d
      BY <1>5, <2>2
    <3> QED
      BY <1>2, <3>1, Zenon
  <2> QED
    BY <2>1, <2>2
<1>7. \E U \in Seq(DigitSet), c \in DigitSet : t = Append(U, c)
  <2>1. Len(t) > 0
    BY <1>6
  <2>2. t \in Seq(DigitSet)
    BY <1>6
  <2>3. \E U \in Seq(DigitSet), c \in DigitSet :
          t = Append(U, c) /\ Len(U) = Len(t) - 1 /\ c = t[Len(t)]
    BY <2>1, <2>2, Shorter
  <2> QED
    BY <2>3
<1> QED
  BY <1>6, <1>7 DEF t

LEMMA WrittenWhole ==
  ASSUME NEW C, DigitSet \cup {Space} \subseteq C, C \cap Signs = {},
         NEW w \in Nat, NEW T \in Seq(C \ DigitSet)
  PROVE  ParseAmount(GroupThousands(w) \o T) = Priced(w, 0)
<1> DEFINE G == GroupThousands(w)
           E == C \ Separators
           DS == DigitSet \cup {Space}
<1>1. Keep(G, DigitSet) = DigitsOf[w] /\ \E u \in Seq(DS), c \in DigitSet : G = Append(u, c)
  BY GroupingKeepsDigits
<1>2. DS \subseteq E
  <2>1. Space \notin Separators
    BY Zenon DEF Separators, Space
  <2> QED
    BY <2>1, CharacterKinds
<1> HIDE DEF DS
<1>3. PICK u \in Seq(DS), c \in DigitSet : G = Append(u, c)
  BY <1>1
<1>4. u \in Seq(E) /\ c \in C
  <2>1. Seq(DS) \subseteq Seq(E)
    <3> HIDE DEF E
    <3> QED
      BY <1>2
  <2> QED
    BY <2>1
<1>5. ParseAmount(Append(u, c) \o T) = Priced(Number(Keep(Append(u, c), DigitSet)), 0)
  BY <1>4, ReadWhole
<1>6. Number(DigitsOf[w]) = w
  BY DigitsAreRead
<1> QED
  BY <1>1, <1>3, <1>5, <1>6, Zenon

LEMMA WrittenFraction ==
  ASSUME NEW C, DigitSet \cup {Space, Comma} \subseteq C, C \cap Signs = {},
         NEW w \in Nat, NEW f \in 1..99, NEW T \in Seq(C \ DigitSet)
  PROVE  ParseAmount((Append(GroupThousands(w), Comma) \o TwoDigits(f)) \o T) = Priced(w, f)
<1> DEFINE G == GroupThousands(w)
           B == TwoDigits(f)
           E == C \ Separators
           DS == DigitSet \cup {Space}
           p == Comma
<1>1. Keep(G, DigitSet) = DigitsOf[w] /\ \E u \in Seq(DS), c \in DigitSet : G = Append(u, c)
  BY GroupingKeepsDigits
<1>2. DS \subseteq C /\ DigitSet \subseteq C /\ DigitSet \subseteq E /\ p \in C /\ p \in Separators
  <2>1. Comma \in Separators
    BY Zenon DEF Separators, Comma
  <2> QED
    BY <2>1, CharacterKinds
<1> HIDE DEF DS, p
<1>3. G \in Seq(C)
  <2>1. PICK u \in Seq(DS), c \in DigitSet : G = Append(u, c)
    BY <1>1
  <2>2. u \in Seq(C) /\ c \in C
    BY <1>2
  <2> QED
    BY <2>1, <2>2, AppendFacts
<1>4. /\ B \in Seq(DigitSet) /\ Len(B) = 2 /\ Number(B) = f
      /\ \E U \in Seq(DigitSet), c \in DigitSet : B = Append(U, c)
  BY TwoDigitsAreRead
<1>5. PICK U \in Seq(DigitSet), c \in DigitSet : B = Append(U, c)
  BY <1>4
<1>6. U \in Seq(E) /\ c \in C
  <2>1. Seq(DigitSet) \subseteq Seq(E)
    <3> HIDE DEF E
    <3> QED
      BY <1>2
  <2> QED
    BY <1>2, <2>1
<1>7. Keep(B, DigitSet) = B
  BY <1>4, KeepAll
<1> DEFINE raw == (Append(G, p) \o Append(U, c)) \o T
           F == Keep(Append(U, c), DigitSet)
           d == Keep(G, DigitSet)
<1> HIDE DEF G, B
<1>8. Len(F) = 2 => ParseAmount(raw) = IF d = <<>> THEN {} ELSE Priced(Number(d), Number(F))
  <2>1. G \in Seq(C) /\ U \in Seq(C \ Separators) /\ c \in C /\ p \in C /\ p \in Separators
    BY <1>2, <1>3, <1>6
  <2>2. FractionRead(ParseAmount(raw), d, F)
    BY <2>1, ReadFraction
  <2> QED
    BY <2>2, Zenon DEF FractionRead
<1>9. F = B
  BY <1>5, <1>7, Zenon
<1>10. Number(d) = w /\ d # <<>>
  <2>1. Number(DigitsOf[w]) = w /\ Len(DigitsOf[w]) # 0 /\ DigitsOf[w] \in Seq(DigitSet)
    BY DigitsAreRead
  <2>2. Len(<<>>) = 0
    BY EmptySeq
  <2> QED
    BY <1>1, <2>1, <2>2, Zenon
<1>11. ParseAmount(raw) = Priced(w, f)
  BY <1>4, <1>8, <1>9, <1>10, Zenon
<1>12. ParseAmount((Append(G, p) \o B) \o T) = Priced(w, f)
  BY <1>5, <1>11, Zenon
<1> QED
  BY <1>12, Zenon DEF G, B, p

(* One marker in the text decides its currency.                            *)
LEMMA OneMarker ==
  ASSUME NEW C, NEW raw \in Seq(C), NEW k \in 1..4,
         C \cap ToSet(CurrencyMarkers) = {CurrencyMarkers[k]}, Contains(raw, CurrencyMarkers[k])
  PROVE  DetectCurrency(raw) = CurrencyMarkers[k]
<1> DEFINE I == {i \in 1..4 : Contains(raw, CurrencyMarkers[i])}
<1>1. Len(CurrencyMarkers) = 4 /\ DOMAIN CurrencyMarkers = 1..4
  BY DEF CurrencyMarkers
<1>2. \A i, j \in 1..4 : CurrencyMarkers[i] = CurrencyMarkers[j] => i = j
  BY DEF CurrencyMarkers
<1>3. ASSUME NEW i \in I PROVE i = k
  <2>1. CurrencyMarkers[i] \in ToSet(CurrencyMarkers)
    BY <1>1 DEF ToSet
  <2>2. CurrencyMarkers[i] \in C
    BY ElementOfSeq DEF Contains
  <2>3. CurrencyMarkers[i] = CurrencyMarkers[k]
    BY <2>1, <2>2
  <2> QED
    BY <1>2, <2>3
<1>4. I = {k}
  BY <1>3
<1>5. Min(I) = k
  <2>1. \A x \in I : x <= x
    OBVIOUS
  <2> HIDE DEF I
  <2> QED
    BY <1>4, <2>1 DEF Min
<1> DEFINE n == SelectInSeq(CurrencyMarkers, LAMBDA m : Contains(raw, m))
<1>6. n = k
  BY <1>1, <1>4, <1>5 DEF SelectInSeq
<1>7. k # 0
  OBVIOUS
<1>8. DetectCurrency(raw) = IF n = 0 THEN DefaultCurrency ELSE CurrencyMarkers[n]
  BY DEF DetectCurrency
<1> HIDE DEF n
<1> QED
  BY <1>6, <1>7, <1>8, Zenon

LEMMA MarkerKinds ==
  /\ ToSet(CurrencyMarkers) \cap (DigitSet \cup Separators \cup Signs \cup {Space, Comma}) = {}
  /\ Space \notin DigitSet \cup Separators \cup Signs /\ Comma \notin DigitSet \cup Signs
  /\ ToSet(CurrencyMarkers) = {CurrencyMarkers[k] : k \in 1..4}
<1>1. ToSet(CurrencyMarkers) = {CurrencyMarkers[k] : k \in 1..4}
  BY DEF ToSet, CurrencyMarkers
<1>2. \A k \in 1..4 : CurrencyMarkers[k] \in {"RUB", "USD", "EUR", "GBP"}
  BY DEF CurrencyMarkers
<1>3. ToSet(CurrencyMarkers) \subseteq {"RUB", "USD", "EUR", "GBP"}
  BY <1>1, <1>2
<1>4. ToSet(CurrencyMarkers) \cap (DigitSet \cup Separators \cup Signs \cup {Space, Comma}) = {}
  BY <1>3, DigitCharacters, Zenon DEF Separators, Signs, Space, Comma
<1>5. Space \notin DigitSet \cup Separators \cup Signs /\ Comma \notin DigitSet \cup Signs
  BY DigitCharacters, Zenon DEF Separators, Signs, Space, Comma
<1> QED
  BY <1>1, <1>4, <1>5, Zenon

LEMMA WrittenType ==
  ASSUME NEW C, DigitSet \cup {Space, Comma} \subseteq C, NEW w \in Nat, NEW f \in 1..99
  PROVE  /\ GroupThousands(w) \in Seq(C) /\ TwoDigits(f) \in Seq(C)
         /\ <<Comma>> \o TwoDigits(f) \in Seq(C)
         /\ GroupThousands(w) \o (<<Comma>> \o TwoDigits(f)) =
              Append(GroupThousands(w), Comma) \o TwoDigits(f)
         /\ Append(GroupThousands(w), Comma) \o TwoDigits(f) \in Seq(C)
<1> DEFINE G == GroupThousands(w)
           B == TwoDigits(f)
           DS == DigitSet \cup {Space}
           P == <<Comma>>
<1>1. \E u \in Seq(DS), c \in DigitSet : G = Append(u, c)
  BY GroupingKeepsDigits
<1>2. DS \subseteq C /\ DigitSet \subseteq C /\ Comma \in C
  OBVIOUS
<1> HIDE DEF DS
<1>3. G \in Seq(C)
  <2>1. PICK u \in Seq(DS), c \in DigitSet : G = Append(u, c)
    BY <1>1
  <2>2. u \in Seq(C) /\ c \in C
    BY <1>2
  <2> QED
    BY <2>1, <2>2, AppendFacts
<1>4. B \in Seq(C)
  <2>1. B \in Seq(DigitSet)
    BY TwoDigitsAreRead
  <2> QED
    BY <1>2, <2>1
<1> HIDE DEF G, B
<1>5. P \in Seq(C) /\ Append(G, Comma) = G \o P
  BY <1>2, <1>3, AppendIsConcat
<1> HIDE DEF P
<1>6. P \o B \in Seq(C) /\ (G \o P) \o B = G \o (P \o B) /\ G \o P \in Seq(C)
  BY <1>3, <1>4, <1>5, ConcatProperties, ConcatAssociative
<1> DEFINE GP == G \o P
<1> HIDE DEF GP
<1>7. GP \o B \in Seq(C)
  BY <1>4, <1>6, ConcatProperties DEF GP
<1> QED
  BY <1>3, <1>4, <1>5, <1>6, <1>7, Zenon DEF G, B, P, GP

LEMMA FormatShape ==
  ASSUME NEW m \in Int, NEW currency
  PROVE  LET T == <<Space, currency>>
             G == GroupThousands(m \div 100)
             f == m % 100
         IN /\ m >= 0 /\ f = 0 => Format(m, currency) = G \o T
            /\ m >= 0 /\ f # 0 =>
                 Format(m, currency) = (Append(G, Comma) \o TwoDigits(f)) \o T
<1> DEFINE T == <<Space, currency>>
           G == GroupThousands(m \div 100)
           f == m % 100
           C == DigitSet \cup {Space, Comma}
           X == IF f # 0 THEN <<Comma>> \o TwoDigits(f) ELSE <<>>
<1> SUFFICES ASSUME m >= 0
             PROVE  /\ f = 0 => Format(m, currency) = G \o T
                    /\ f # 0 => Format(m, currency) = (Append(G, Comma) \o TwoDigits(f)) \o T
  BY Zenon
<1>1. ~(m < 0) /\ m \div 100 \in Nat /\ (f = 0 \/ f \in 1..99)
  OBVIOUS
<1>2. Format(m, currency) = ((<<>> \o G) \o X) \o T
  BY <1>1, Zenon DEF Format, MoneyString, Space, Comma
<1> HIDE DEF f, T
<1>3. G \in Seq(C) /\ <<>> \o G = G /\ G \o <<>> = G
  <2>1. 1 \in 1..99
    OBVIOUS
  <2>2. DigitSet \cup {Space, Comma} \subseteq C
    OBVIOUS
  <2> HIDE DEF C
  <2>3. G \in Seq(C)
    BY <1>1, <2>1, <2>2, WrittenType
  <2> HIDE DEF G
  <2> QED
    BY <2>3, ConcatEmptySeq
<1>4. f # 0 => G \o (<<Comma>> \o TwoDigits(f)) = Append(G, Comma) \o TwoDigits(f)
  BY <1>1, WrittenType
<1> QED
  BY <1>2, <1>3, <1>4, Zenon DEF T, f

LEMMA NegativeRefused ==
  ASSUME NEW m \in Int, m < 0, NEW currency
  PROVE  ParseAmount(Format(m, currency)) = {}
<1> DEFINE T == <<Space, currency>>
           abs == -m
           f == abs % 100
           G == GroupThousands(abs \div 100)
           X == IF f # 0 THEN <<Comma>> \o TwoDigits(f) ELSE <<>>
           minus == "-"
           C == DigitSet \cup {Space, Comma} \cup {currency, minus}
           M == <<minus>>
<1>1. abs \div 100 \in Nat /\ (f = 0 \/ f \in 1..99)
  <2>1. abs \in Nat
    OBVIOUS
  <2> HIDE DEF abs
  <2> QED
    BY <2>1
<1>2. Format(m, currency) = ((M \o G) \o X) \o T
  BY Zenon DEF Format, MoneyString, Space, Comma
<1>3. minus \in Signs
  BY DEF Signs
<1> HIDE DEF minus, f
<1>4. M \in Seq(C) /\ Contains(M, minus) /\ T \in Seq(C)
  BY DEF Contains
<1>5. G \in Seq(C) /\ X \in Seq(C)
  <2>1. 1 \in 1..99
    OBVIOUS
  <2>2. DigitSet \cup {Space, Comma} \subseteq C /\ <<>> \in Seq(C)
    OBVIOUS
  <2> HIDE DEF C
  <2>3. G \in Seq(C)
    BY <1>1, <2>1, <2>2, WrittenType
  <2>4. f \in 1..99 => <<Comma>> \o TwoDigits(f) \in Seq(C)
    BY <1>1, <2>2, WrittenType
  <2> QED
    BY <1>1, <2>2, <2>3, <2>4, Zenon
<1> HIDE DEF C, M, T, G, X
<1>6. M \o G \in Seq(C) /\ Contains(M \o G, minus)
  BY <1>4, <1>5, ContainsInConcat, ConcatProperties
<1> DEFINE MG == M \o G
<1> HIDE DEF MG
<1>7. MG \o X \in Seq(C) /\ Contains(MG \o X, minus)
  BY <1>5, <1>6, ContainsInConcat, ConcatProperties DEF MG
<1> DEFINE MX == MG \o X
<1> HIDE DEF MX
<1>8. MX \o T \in Seq(C) /\ Contains(MX \o T, minus)
  BY <1>4, <1>7, ContainsInConcat, ConcatProperties DEF MX
<1> DEFINE raw == MX \o T
<1> HIDE DEF raw
<1>9. ParseAmount(raw) = {}
  BY <1>3, <1>8, SignRefused DEF raw
<1> QED
  BY <1>2, <1>9, Zenon DEF raw, MX, MG

LEMMA WrittenIsRead ==
  ASSUME NEW m \in Nat, NEW k \in 1..4
  PROVE  /\ ParseAmount(Format(m, CurrencyMarkers[k])) = IF m <= MaxPriceMinor THEN {m} ELSE {}
         /\ DetectCurrency(Format(m, CurrencyMarkers[k])) = CurrencyMarkers[k]
<1> DEFINE currency == CurrencyMarkers[k]
           T == <<Space, currency>>
           w == m \div 100
           f == m % 100
           G == GroupThousands(w)
           C == DigitSet \cup {Space, Comma} \cup {currency}
           X == IF f = 0 THEN G ELSE Append(G, Comma) \o TwoDigits(f)
           raw == X \o T
<1>1. m \in Int /\ m >= 0 /\ w \in Nat /\ (f = 0 \/ f \in 1..99) /\ 100 * w + f = m
  OBVIOUS
<1>2. Format(m, currency) = raw
  <2> HIDE DEF currency
  <2> QED
    BY <1>1, FormatShape, Zenon
<1>3. /\ C \cap Signs = {} /\ C \cap ToSet(CurrencyMarkers) = {currency}
      /\ DigitSet \cup {Space, Comma} \subseteq C /\ DigitSet \cup {Space} \subseteq C
      /\ Space \in C \ DigitSet /\ currency \in C \ DigitSet
  BY MarkerKinds, CharacterKinds
<1> HIDE DEF C, w, f
<1>4. T \in Seq(C \ DigitSet) /\ T \in Seq(C) /\ Contains(T, currency)
  <2> HIDE DEF currency
  <2>1. T \in Seq(C \ DigitSet)
    BY <1>3
  <2>2. Contains(T, currency)
    BY DEF Contains
  <2> HIDE DEF T
  <2> QED
    BY <2>1, <2>2
<1>5. X \in Seq(C)
  <2>1. 1 \in 1..99
    OBVIOUS
  <2>2. G \in Seq(C)
    BY <1>1, <1>3, <2>1, WrittenType
  <2>3. f \in 1..99 => Append(G, Comma) \o TwoDigits(f) \in Seq(C)
    BY <1>1, <1>3, WrittenType
  <2> QED
    BY <1>1, <2>2, <2>3, Zenon
<1>6. ParseAmount(raw) = Priced(w, f)
  <2> HIDE DEF T, currency
  <2>1. CASE f = 0
    <3>1. ParseAmount(G \o T) = Priced(w, 0)
      BY <1>1, <1>3, <1>4, WrittenWhole
    <3> QED
      BY <2>1, <3>1, Zenon
  <2>2. CASE f # 0
    <3>1. ParseAmount((Append(G, Comma) \o TwoDigits(f)) \o T) = Priced(w, f)
      <4>1. f \in 1..99 /\ w \in Nat
        BY <1>1, <2>2, Zenon
      <4> QED
        BY <1>3, <1>4, <4>1, WrittenFraction
    <3>2. X = Append(G, Comma) \o TwoDigits(f)
      BY <2>2, Zenon
    <3> QED
      BY <3>1, <3>2, Zenon
  <2> QED
    BY <2>1, <2>2
<1>7. Priced(w, f) = IF m <= MaxPriceMinor THEN {m} ELSE {}
  BY <1>1, Zenon DEF Priced
<1> HIDE DEF X, T, currency
<1>8. raw \in Seq(C) /\ Contains(raw, currency)
  BY <1>4, <1>5, ContainsInConcat, ConcatProperties
<1> HIDE DEF raw
<1>9. DetectCurrency(raw) = currency
  BY <1>3, <1>8, OneMarker DEF currency
<1> QED
  BY <1>2, <1>6, <1>7, <1>9, Zenon DEF currency

(* Money.String and ParsePrice agree: what a message says a price is, is   *)
(* the price (money.go:38-70, price.go:62-112).                            *)
THEOREM WrittenReadBack == Spec => []FormatIsReadBack
<1>1. Counted => FormatIsReadBack
  <2> SUFFICES ASSUME number \in Nat,
                      NEW m \in Amounts, NEW currency \in ToSet(CurrencyMarkers)
               PROVE  ParsePrice(Format(m, currency)) =
                        IF 0 <= m /\ m <= MaxPriceMinor
                        THEN {[price |-> m, currency |-> currency]} ELSE {}
    BY DEF FormatIsReadBack, Counted
  <2>1. m \in Int
    <3>1. MaxPriceMinor \in Nat
      BY CeilingIsNat
    <3> QED
      BY <3>1 DEF Amounts
  <2>2. PICK k \in 1..4 : currency = CurrencyMarkers[k]
    BY MarkerKinds
  <2> DEFINE raw == Format(m, currency)
  <2>3. ParsePrice(raw) = {[price |-> x, currency |-> DetectCurrency(raw)] : x \in ParseAmount(raw)}
    BY DEF ParsePrice
  <2>4. CASE m < 0
    <3>1. ParseAmount(raw) = {} /\ ~(0 <= m)
      BY <2>1, <2>4, NegativeRefused
    <3> HIDE DEF raw
    <3>2. ParsePrice(raw) = {}
      BY <2>3, <3>1, Zenon
    <3> QED
      BY <3>1, <3>2, Zenon DEF raw
  <2>5. CASE m >= 0
    <3>1. m \in Nat /\ 0 <= m
      BY <2>1, <2>5
    <3>2. /\ ParseAmount(raw) = (IF m <= MaxPriceMinor THEN {m} ELSE {})
          /\ DetectCurrency(raw) = currency
      BY <2>2, <3>1, WrittenIsRead
    <3> HIDE DEF raw
    <3>3. ParsePrice(raw) = {[price |-> x, currency |-> currency] :
                               x \in IF m <= MaxPriceMinor THEN {m} ELSE {}}
      BY <2>3, <3>2, Zenon
    <3>4. ParsePrice(raw) = IF m <= MaxPriceMinor THEN {[price |-> m, currency |-> currency]} ELSE {}
      BY <3>3
    <3> QED
      BY <3>1, <3>4, Zenon DEF raw
  <2> QED
    BY <2>1, <2>4, <2>5
<1> QED
  BY <1>1, NumberIsNat, PTL

-----------------------------------------------------------------------------
(* What a text shows.                                                      *)

DigitsWithin(t, positions) == {i \in positions \cap DOMAIN t : IsDigit(t[i])}

PointOf(t) == Max({0} \cup {i \in DOMAIN t : IsSeparator(t[i])
                                             /\ DigitsWithin(t, i..Len(t)) # {}})

DecimalsOf(t) ==
  IF PointOf(t) = 0 THEN 0 ELSE Cardinality(DigitsWithin(t, PointOf(t)..Len(t)))

MinorOf(t) ==
  Number(Keep(t, DigitSet)) * (IF DecimalsOf(t) = 3 THEN 100 ELSE 10^(2 - DecimalsOf(t)))

ShowsPrice(t) ==
  /\ Keep(t, DigitSet) # <<>> /\ Signs \cap ToSet(t) = {}
  /\ DecimalsOf(t) \in {0, 3} \/ (DecimalsOf(t) < 3 /\ DigitsWithin(t, 1..PointOf(t)) # {})
  /\ MinorOf(t) <= MaxPriceMinor

LEMMA NoPoint ==
  ASSUME NEW C, NEW U \in Seq(C \ Separators), NEW c \in C, c \in DigitSet,
         NEW T \in Seq(C \ DigitSet)
  PROVE  PointOf(Append(U, c) \o T) = 0
<1> DEFINE B == Append(U, c)
           t == B \o T
           b == Len(B)
           n == Len(T)
           S == {i \in DOMAIN t : IsSeparator(t[i]) /\ DigitsWithin(t, i..Len(t)) # {}}
<1>1. B \in Seq(C \ Separators) /\ B \in Seq(C) /\ T \in Seq(C)
  <2> DEFINE E == C \ Separators
  <2>1. U \in Seq(E) /\ c \in E /\ E \subseteq C
    BY CharacterKinds
  <2> HIDE DEF E
  <2>2. B \in Seq(E)
    BY <2>1, AppendFacts
  <2> HIDE DEF B
  <2>3. B \in Seq(C)
    BY <2>1, <2>2
  <2> QED
    BY <2>2, <2>3 DEF E
<1> HIDE DEF B
<1>2. /\ Len(t) = b + n /\ b \in Nat /\ n \in Nat /\ t \in Seq(C)
      /\ \A i \in 1..b : t[i] = B[i]
      /\ \A i \in 1..n : t[b + i] = T[i]
  BY <1>1, Pieces
<1>3. (\A i \in 1..b : B[i] \notin Separators) /\ (\A i \in 1..n : T[i] \notin DigitSet)
  BY <1>1, ElementOfSeq
<1>4. DOMAIN t = 1..b + n
  BY <1>2, LenProperties
<1> HIDE DEF t, b, n
<1>5. S = {}
  <2> SUFFICES ASSUME NEW i \in S PROVE FALSE
    OBVIOUS
  <2>1. PICK j \in DigitsWithin(t, i..Len(t)) : TRUE
    OBVIOUS
  <2>2. i \in 1..b + n /\ t[i] \in Separators /\ j \in 1..b + n /\ i <= j /\ t[j] \in DigitSet
    BY <1>2, <1>4, <2>1 DEF DigitsWithin, IsDigit, IsSeparator
  <2>3. j <= b
    <3> SUFFICES ASSUME ~(j <= b) PROVE FALSE
      OBVIOUS
    <3>1. j - b \in 1..n /\ b + (j - b) = j
      BY <1>2, <2>2
    <3>2. t[b + (j - b)] = T[j - b]
      BY <1>2, <3>1
    <3> QED
      BY <1>3, <2>2, <3>1, <3>2
  <2>4. i \in 1..b
    BY <1>2, <2>2, <2>3
  <2> QED
    BY <1>2, <1>3, <2>2, <2>4
<1>6. Max({0}) = 0
  <2>1. {0} \subseteq Int /\ 0 \in {0} /\ \A k \in {0} : k <= 0
    OBVIOUS
  <2> QED
    BY <2>1, MaxOfSet
<1>7. PointOf(t) = Max({0} \cup S)
  BY DEF PointOf
<1> HIDE DEF S
<1>8. {0} \cup S = {0}
  BY <1>5
<1> QED
  BY <1>6, <1>7, <1>8, Zenon DEF t, B

LEMMA Behind ==
  ASSUME NEW x \in Nat, NEW y \in Nat, NEW k \in 1..x + y, ~(k <= x)
  PROVE  k - x \in 1..y /\ x + (k - x) = k
OBVIOUS

(* The digits d before and F behind the last separator of t.               *)
PointParts(t, d, F) ==
  /\ Keep(t, DigitSet) = d \o F
  /\ DecimalsOf(t) = Len(F)
  /\ DigitsWithin(t, 1..PointOf(t)) # {} <=> d # <<>>

LEMMA PointFound ==
  ASSUME NEW C, NEW A \in Seq(C), NEW p \in C, p \in Separators,
         NEW U \in Seq(C \ Separators), NEW c \in C, c \in DigitSet,
         NEW T \in Seq(C \ DigitSet)
  PROVE  PointParts((Append(A, p) \o Append(U, c)) \o T,
                    Keep(A, DigitSet), Keep(Append(U, c), DigitSet))
<1> DEFINE Y == Append(A, p)
           B == Append(U, c)
           X == Y \o B
           t == X \o T
           a == Len(A) + 1
           b == Len(B)
           n == Len(T)
           S == {i \in DOMAIN t : IsSeparator(t[i]) /\ DigitsWithin(t, i..Len(t)) # {}}
<1>1. /\ B \in Seq(C \ Separators) /\ B \in Seq(C) /\ T \in Seq(C)
      /\ b \in Nat /\ b > 0 /\ B[b] = c
  <2> DEFINE E == C \ Separators
  <2>1. U \in Seq(E) /\ c \in E /\ E \subseteq C
    BY CharacterKinds
  <2> HIDE DEF E
  <2>2. B \in Seq(E) /\ Len(B) = Len(U) + 1 /\ Len(U) \in Nat /\ B[Len(U) + 1] = c
    BY <2>1, AppendFacts
  <2> HIDE DEF B
  <2>3. B \in Seq(C) /\ T \in Seq(C)
    BY <2>1, <2>2
  <2>4. b \in Nat /\ b > 0 /\ B[b] = c
    BY <2>2
  <2> QED
    BY <2>2, <2>3, <2>4 DEF E
<1>2. Y \in Seq(C) /\ Len(Y) = a /\ a \in Nat /\ a > 0 /\ Y[a] = p /\ Len(A) \in Nat
  BY AppendFacts
<1> DEFINE d == Keep(A, DigitSet)
           F == Keep(B, DigitSet)
<1>3. Keep(Y, DigitSet) = d
  <2>1. p \notin DigitSet
    BY CharacterKinds
  <2> QED
    BY <2>1, KeepAppend
<1> HIDE DEF Y, B, a
<1>4. /\ X \in Seq(C) /\ Len(X) = a + b
      /\ \A i \in 1..a : X[i] = Y[i]
      /\ \A i \in 1..b : X[a + i] = B[i]
  <2> HIDE DEF S, t, d, F
  <2>1. Y \in Seq(C) /\ B \in Seq(C)
    BY <1>1, <1>2
  <2>2. /\ X \in Seq(C) /\ Len(X) = Len(Y) + b
        /\ \A i \in 1..Len(Y) : X[i] = Y[i]
        /\ \A i \in 1..b : X[Len(Y) + i] = B[i]
    BY <2>1, Pieces
  <2> HIDE DEF X
  <2> QED
    BY <1>2, <2>2
<1>5. Keep(X, DigitSet) = d \o F
  <2> HIDE DEF S, t, d
  <2>1. Y \in Seq(C) /\ B \in Seq(C)
    BY <1>1, <1>2
  <2>2. Keep(X, DigitSet) = Keep(Y, DigitSet) \o Keep(B, DigitSet)
    BY <2>1, KeepConcat
  <2> HIDE DEF X
  <2> QED
    BY <1>3, <2>2
<1> HIDE DEF X
<1>6. /\ t \in Seq(C) /\ Len(t) = (a + b) + n /\ n \in Nat
      /\ \A i \in 1..a + b : t[i] = X[i]
      /\ \A i \in 1..n : t[(a + b) + i] = T[i]
  <2> HIDE DEF S, d, F
  <2>1. X \in Seq(C) /\ T \in Seq(C)
    BY <1>1, <1>4
  <2>2. /\ t \in Seq(C) /\ Len(t) = Len(X) + n /\ n \in Nat
        /\ \A i \in 1..Len(X) : t[i] = X[i]
        /\ \A i \in 1..n : t[Len(X) + i] = T[i]
    BY <2>1, Pieces
  <2> HIDE DEF t
  <2> QED
    BY <1>4, <2>2
<1>7. Keep(t, DigitSet) = d \o F
  <2>1. Keep(t, DigitSet) = Keep(X, DigitSet) \o Keep(T, DigitSet)
    <3> HIDE DEF S, d, F
    <3>1. X \in Seq(C) /\ T \in Seq(C)
      BY <1>1, <1>4
    <3> QED
      BY <3>1, KeepConcat
  <2>2. Keep(T, DigitSet) = <<>>
    <3> DEFINE E == C \ DigitSet
    <3>1. T \in Seq(E) /\ E \cap DigitSet = {}
      OBVIOUS
    <3> HIDE DEF E
    <3> QED
      BY <3>1, KeepNone
  <2>3. Keep(X, DigitSet) \o <<>> = Keep(X, DigitSet)
    BY <1>4, KeepType, ConcatEmptySeq
  <2> QED
    BY <1>5, <2>1, <2>2, <2>3, Zenon
<1> HIDE DEF t
<1>8. /\ \A i \in 1..a : t[i] = Y[i]
      /\ \A i \in 1..b : t[a + i] = B[i]
      /\ DOMAIN t = 1..(a + b) + n
  <2>1. \A i \in 1..a : i \in 1..a + b
    BY <1>1, <1>2
  <2>2. \A i \in 1..b : a + i \in 1..a + b
    BY <1>1, <1>2
  <2>3. DOMAIN t = 1..(a + b) + n
    BY <1>6, LenProperties
  <2> QED
    BY <1>4, <1>6, <2>1, <2>2, <2>3
<1>9. /\ \A i \in 1..b : B[i] \notin Separators
      /\ \A i \in 1..n : T[i] \notin DigitSet
  BY <1>1, ElementOfSeq
<1> HIDE DEF b, n
<1>10. ASSUME NEW j \in 1..(a + b) + n, t[j] \in DigitSet PROVE j <= a + b
  <2> SUFFICES ASSUME ~(j <= a + b) PROVE FALSE
    OBVIOUS
  <2>1. j - (a + b) \in 1..n /\ (a + b) + (j - (a + b)) = j
    <3>1. a + b \in Nat /\ n \in Nat
      BY <1>1, <1>2, <1>6
    <3> QED
      BY <3>1, Behind
  <2>2. t[(a + b) + (j - (a + b))] = T[j - (a + b)]
    BY <1>6, <2>1
  <2> QED
    BY <1>9, <1>10, <2>1, <2>2
<1>11. t[a] = p /\ t[a + b] = c /\ a \in 1..(a + b) + n /\ a + b \in a..(a + b) + n
       /\ a + b \in 1..(a + b) + n
  <2>1. a \in 1..a /\ b \in 1..b
    BY <1>1, <1>2
  <2>2. t[a] = p /\ t[a + b] = c
    BY <1>1, <1>2, <1>8, <2>1
  <2> QED
    BY <1>1, <1>2, <1>6, <2>2
<1>12. a \in S
  <2>1. a + b \in DigitsWithin(t, a..Len(t))
    BY <1>6, <1>8, <1>11 DEF DigitsWithin, IsDigit
  <2> QED
    BY <1>8, <1>11, <2>1 DEF IsSeparator
<1>13. ASSUME NEW i \in S PROVE i <= a /\ i \in Int
  <2>1. PICK j \in DigitsWithin(t, i..Len(t)) : TRUE
    OBVIOUS
  <2>2. /\ i \in 1..(a + b) + n /\ t[i] \in Separators
        /\ j \in 1..(a + b) + n /\ i <= j /\ t[j] \in DigitSet
    BY <1>6, <1>8, <2>1 DEF DigitsWithin, IsDigit, IsSeparator
  <2>3. j <= a + b
    BY <1>10, <2>2
  <2>4. ~(i <= a) => i - a \in 1..b /\ a + (i - a) = i
    BY <1>1, <1>2, <1>6, <2>2, <2>3
  <2>5. ~(i <= a) => t[a + (i - a)] = B[i - a]
    BY <1>8, <2>4
  <2>6. ~(i <= a) => FALSE
    BY <1>9, <2>2, <2>4, <2>5
  <2> QED
    BY <2>2, <2>6
<1>14. PointOf(t) = a
  <2>1. PointOf(t) = Max({0} \cup S)
    BY DEF PointOf
  <2>2. {0} \cup S \subseteq Int /\ a \in {0} \cup S /\ \A k \in {0} \cup S : k <= a
    BY <1>2, <1>12, <1>13
  <2> DEFINE R == {0} \cup S
  <2> HIDE DEF R
  <2>3. Max(R) = a
    BY <2>2, MaxOfSet DEF R
  <2> QED
    BY <2>1, <2>3 DEF R
<1> HIDE DEF S
<1> DEFINE P == Positions(Y, DigitSet)
           Q == DigitsWithin(t, a..Len(t))
           R == Positions(t, DigitSet)
<1>15. IsFiniteSet(P) /\ Cardinality(P) = Len(d)
  BY <1>2, <1>3, KeepCounts DEF Positions
<1>16. IsFiniteSet(R) /\ Cardinality(R) = Len(d \o F)
  BY <1>6, <1>7, KeepCounts DEF Positions
<1>17. d \in Seq(DigitSet) /\ F \in Seq(DigitSet)
  <2>1. d \in Seq(C \cap DigitSet) /\ F \in Seq(C \cap DigitSet)
    BY <1>1, KeepType
  <2> QED
    BY <2>1
<1> HIDE DEF d, F
<1>18. Len(d \o F) = Len(d) + Len(F) /\ Len(d) \in Nat /\ Len(F) \in Nat
  BY <1>17, ConcatProperties, LenProperties
<1>19. p \notin DigitSet
  BY CharacterKinds
<1>20. P = DigitsWithin(t, 1..a)
  <2>1. \A i : i \in P <=> i \in 1..a /\ Y[i] \in DigitSet
    BY <1>2 DEF Positions
  <2>2. \A i \in 1..a : i \in 1..(a + b) + n
    BY <1>1, <1>2, <1>6
  <2>3. \A i : i \in DigitsWithin(t, 1..a) <=> i \in 1..a /\ t[i] \in DigitSet
    BY <1>8, <2>2 DEF DigitsWithin, IsDigit
  <2> HIDE DEF P
  <2> QED
    BY <1>8, <2>1, <2>3
<1>21. R = P \cup Q /\ P \cap Q = {}
  <2>1. \A i : i \in R <=> i \in 1..(a + b) + n /\ t[i] \in DigitSet
    BY <1>6 DEF Positions
  <2>2. \A i : i \in P <=> i \in 1..a /\ i \in 1..(a + b) + n /\ t[i] \in DigitSet
    BY <1>8, <1>20 DEF DigitsWithin, IsDigit
  <2>3. \A i : i \in Q <=> i \in a..(a + b) + n /\ i \in 1..(a + b) + n /\ t[i] \in DigitSet
    BY <1>6, <1>8 DEF DigitsWithin, IsDigit
  <2>4. \A i \in 1..(a + b) + n : i \in 1..a \/ i \in a..(a + b) + n
    BY <1>1, <1>2, <1>6
  <2>5. \A i : i \in 1..a /\ i \in a..(a + b) + n => i = a
    BY <1>1, <1>2, <1>6
  <2> HIDE DEF P, Q, R
  <2>6. R = P \cup Q
    BY <2>1, <2>2, <2>3, <2>4
  <2>7. P \cap Q = {}
    BY <1>11, <1>19, <2>2, <2>3, <2>5
  <2> QED
    BY <2>6, <2>7
<1> HIDE DEF P, Q, R
<1>22. Cardinality(Q) = Len(F)
  <2>1. IsFiniteSet(Q)
    BY <1>16, <1>21, FS_Subset
  <2>2. Cardinality(P \cup Q) = Cardinality(P) + Cardinality(Q) - Cardinality(P \cap Q)
    BY <1>15, <2>1, FS_Union
  <2>3. Cardinality(P \cap Q) = 0 /\ Cardinality(Q) \in Nat
    BY <1>21, <2>1, FS_EmptySet, FS_CardinalityType
  <2>4. \A x, y, z \in Nat : x + y = x + z - 0 => z = y
    OBVIOUS
  <2> QED
    BY <1>15, <1>16, <1>18, <1>21, <2>2, <2>3, <2>4
<1>23. P # {} <=> d # <<>>
  <2>1. Cardinality(P) = 0 <=> P = {}
    BY <1>15, FS_EmptySet
  <2>2. Len(d) = 0 <=> d = <<>>
    BY <1>17, EmptySeq
  <2> QED
    BY <1>15, <2>1, <2>2
<1>24. DecimalsOf(t) = Len(F)
  <2>1. a # 0
    BY <1>2
  <2> QED
    BY <1>14, <1>22, <2>1 DEF DecimalsOf, Q
<1>25. DigitsWithin(t, 1..PointOf(t)) # {} <=> d # <<>>
  BY <1>14, <1>20, <1>23, Zenon
<1> QED
  BY <1>7, <1>24, <1>25, Zenon DEF t, X, Y, B, d, F, PointParts

LEMMA SmallPowers == 10^0 = 1 /\ 10^1 = 10 /\ 10^2 = 100 /\ 10^3 = 1000
OBVIOUS

LEMMA Hundredfold ==
  /\ 10^(2 - 0) = 100 /\ 10^(2 - 1) = 10 /\ 10^(2 - 2) = 1
<1>1. \A k : (k = 0 => 10^k = 1) /\ (k = 1 => 10^k = 10) /\ (k = 2 => 10^k = 100)
  BY SmallPowers
<1>2. 2 - 0 = 2 /\ 2 - 1 = 1 /\ 2 - 2 = 0
  OBVIOUS
<1> QED
  BY <1>1, <1>2, Zenon

LEMMA ShownInWhole ==
  ASSUME NEW t, PointOf(t) = 0, NEW s \in Seq(DigitSet), Keep(t, DigitSet) = s, s # <<>>,
         Signs \cap ToSet(t) = {}, ParseAmount(t) = Priced(Number(s), 0)
  PROVE  ParseAmount(t) = IF ShowsPrice(t) THEN {MinorOf(t)} ELSE {}
<1>1. DecimalsOf(t) = 0 /\ 0 # 3 /\ 0 \in {0, 3}
  <2>1. DecimalsOf(t) = 0
    BY Zenon DEF DecimalsOf
  <2>2. 0 # 3 /\ 0 \in {0, 3}
    OBVIOUS
  <2> QED
    BY <2>1, <2>2, Zenon
<1>2. MinorOf(t) = Number(s) * 100
  BY <1>1, Hundredfold, Zenon DEF MinorOf
<1>3. Number(s) \in Nat
  BY NumberType
<1>4. Number(s) * 100 = 100 * Number(s) + 0
  BY <1>3
<1>5. ShowsPrice(t) <=> 100 * Number(s) + 0 <= MaxPriceMinor
  BY <1>1, <1>2, <1>4, Zenon DEF ShowsPrice
<1> QED
  BY <1>2, <1>4, <1>5, Zenon DEF Priced

LEMMA ShownInFraction ==
  ASSUME NEW t, NEW d \in Seq(DigitSet), NEW F \in Seq(DigitSet), F # <<>>,
         Keep(t, DigitSet) = d \o F, DecimalsOf(t) = Len(F),
         DigitsWithin(t, 1..PointOf(t)) # {} <=> d # <<>>,
         Signs \cap ToSet(t) = {},
         Len(F) = 1 => ParseAmount(t) = IF d = <<>> THEN {} ELSE Priced(Number(d), 10 * Number(F)),
         Len(F) = 2 => ParseAmount(t) = IF d = <<>> THEN {} ELSE Priced(Number(d), Number(F)),
         Len(F) = 3 => ParseAmount(t) = Priced(Number(d \o F), 0),
         Len(F) \notin {1, 2, 3} => ParseAmount(t) = {}
  PROVE  ParseAmount(t) = IF ShowsPrice(t) THEN {MinorOf(t)} ELSE {}
<1> DEFINE n == Len(F)
           s == d \o F
<1>1. n \in Nat /\ n # 0
  BY EmptySeq
<1>2. s \in Seq(DigitSet) /\ s # <<>>
  BY ConcatProperties, ConcatEqualIffEmpty
<1>3. Number(d) \in Nat /\ Number(F) \in Nat /\ Number(s) \in Nat
  BY <1>2, NumberType
<1>4. /\ n = 1 => Number(s) = 10 * Number(d) + Number(F)
      /\ n = 2 => Number(s) = 100 * Number(d) + Number(F)
  BY NumberWithFraction
<1> HIDE DEF n, s
<1>5. ShowsPrice(t) <=> /\ n \in {0, 3} \/ (n < 3 /\ d # <<>>)
                        /\ MinorOf(t) <= MaxPriceMinor
  BY <1>2, Zenon DEF ShowsPrice, n, s
<1>6. MinorOf(t) = Number(s) * (IF n = 3 THEN 100 ELSE 10^(2 - n))
  BY Zenon DEF MinorOf, n, s
<1>7. CASE n = 1
  <2>1. 1 \notin {0, 3} /\ 1 < 3 /\ 1 # 3
    OBVIOUS
  <2>2. MinorOf(t) = Number(s) * 10
    BY <1>6, <1>7, <2>1, Hundredfold, Zenon
  <2>3. \A x, y \in Nat : (10 * x + y) * 10 = 100 * x + 10 * y
    OBVIOUS
  <2>4. MinorOf(t) = 100 * Number(d) + 10 * Number(F)
    <3>1. Number(s) = 10 * Number(d) + Number(F)
      BY <1>4, <1>7
    <3>2. (10 * Number(d) + Number(F)) * 10 = 100 * Number(d) + 10 * Number(F)
      BY <1>3, <2>3, Zenon
    <3> QED
      BY <2>2, <3>1, <3>2, Zenon
  <2>5. ParseAmount(t) = IF d = <<>> THEN {} ELSE Priced(Number(d), 10 * Number(F))
    BY <1>7 DEF n
  <2> QED
    BY <1>5, <1>7, <2>1, <2>4, <2>5, Zenon DEF Priced
<1>8. CASE n = 2
  <2>1. 2 \notin {0, 3} /\ 2 < 3 /\ 2 # 3
    OBVIOUS
  <2>2. MinorOf(t) = Number(s) * 1
    BY <1>6, <1>8, <2>1, Hundredfold, Zenon
  <2>3. \A x, y \in Nat : (100 * x + y) * 1 = 100 * x + y
    OBVIOUS
  <2>4. MinorOf(t) = 100 * Number(d) + Number(F)
    <3>1. Number(s) = 100 * Number(d) + Number(F)
      BY <1>4, <1>8
    <3>2. (100 * Number(d) + Number(F)) * 1 = 100 * Number(d) + Number(F)
      BY <1>3, <2>3, Zenon
    <3> QED
      BY <2>2, <3>1, <3>2, Zenon
  <2>5. ParseAmount(t) = IF d = <<>> THEN {} ELSE Priced(Number(d), Number(F))
    BY <1>8 DEF n
  <2> QED
    BY <1>5, <1>8, <2>1, <2>4, <2>5, Zenon DEF Priced
<1>9. CASE n = 3
  <2>1. MinorOf(t) = Number(s) * 100 /\ 3 \in {0, 3}
    BY <1>6, <1>9, Zenon
  <2>2. \A x \in Nat : x * 100 = 100 * x + 0
    OBVIOUS
  <2>3. MinorOf(t) = 100 * Number(s) + 0
    BY <1>3, <2>1, <2>2, Zenon
  <2>4. ParseAmount(t) = Priced(Number(s), 0)
    BY <1>9 DEF n, s
  <2>5. ShowsPrice(t) <=> MinorOf(t) <= MaxPriceMinor
    <3>1. n \in {0, 3}
      BY <1>9, <2>1, Zenon
    <3> QED
      BY <1>5, <3>1, Zenon
  <2>6. Priced(Number(s), 0) = IF MinorOf(t) <= MaxPriceMinor THEN {MinorOf(t)} ELSE {}
    BY <2>3, Zenon DEF Priced
  <2> QED
    BY <2>4, <2>5, <2>6, Zenon
<1>10. CASE n \notin {1, 2, 3}
  <2>1. n \notin {0, 3} /\ ~(n < 3)
    BY <1>1, <1>10
  <2>2. ParseAmount(t) = {}
    BY <1>10 DEF n
  <2> QED
    BY <1>5, <2>1, <2>2, Zenon
<1> QED
  BY <1>7, <1>8, <1>9, <1>10

(* The text of a price with a separator p before its last digits.          *)
LEMMA FractionShown ==
  ASSUME NEW D, D \cap Signs = {}, NEW A \in Seq(D), NEW p \in D, p \in Separators,
         NEW U \in Seq(D \ Separators), NEW c \in D, c \in DigitSet,
         NEW T \in Seq(D \ DigitSet),
         NEW t, t = (Append(A, p) \o Append(U, c)) \o T, Signs \cap ToSet(t) = {}
  PROVE  ParseAmount(t) = IF ShowsPrice(t) THEN {MinorOf(t)} ELSE {}
<1> DEFINE d == Keep(A, DigitSet)
           F == Keep(Append(U, c), DigitSet)
           v == (Append(A, p) \o Append(U, c)) \o T
<1>1. PointParts(v, d, F)
  BY PointFound
<1>2. FractionRead(ParseAmount(v), d, F)
  BY ReadFraction
<1>3. d \in Seq(DigitSet) /\ F \in Seq(DigitSet) /\ F # <<>>
  <2>1. U \in Seq(D)
    OBVIOUS
  <2>2. F \in Seq(DigitSet) /\ F # <<>>
    BY <2>1, LastKept
  <2>3. d \in Seq(D \cap DigitSet)
    BY KeepType
  <2>4. d \in Seq(DigitSet)
    BY <2>3
  <2> QED
    BY <2>2, <2>4, Zenon
<1>4. v = t
  OBVIOUS
<1> HIDE DEF v, d, F
<1>5. PointParts(t, d, F) /\ FractionRead(ParseAmount(t), d, F)
  BY <1>1, <1>2, <1>4, Zenon
<1> QED
  BY <1>3, <1>5, ShownInFraction DEF PointParts, FractionRead

LEMMA AmountShown ==
  ASSUME NEW C, NEW t \in Seq(C)
  PROVE  ParseAmount(t) = IF ShowsPrice(t) THEN {MinorOf(t)} ELSE {}
<1>1. DOMAIN t = 1..Len(t) /\ Len(t) \in Nat /\ \A i \in 1..Len(t) : t[i] \in C
  BY LenProperties, ElementOfSeq
<1>2. CASE Signs \cap ToSet(t) # {}
  <2>1. PICK x \in Signs : x \in ToSet(t)
    BY <1>2
  <2>2. Contains(t, x)
    BY <1>1, <2>1 DEF ToSet, Contains
  <2>3. ParseAmount(t) = {}
    BY <2>2, SignRefused
  <2> QED
    BY <1>2, <2>3, Zenon DEF ShowsPrice
<1>3. CASE Signs \cap ToSet(t) = {}
  <2> DEFINE D == C \ Signs
  <2>1. t \in Seq(D)
    <3>1. \A i \in 1..Len(t) : t[i] \in D
      BY <1>1, <1>3 DEF ToSet
    <3>2. t = [i \in 1..Len(t) |-> t[i]]
      BY <1>1
    <3> HIDE DEF D
    <3> QED
      BY <1>1, <3>1, <3>2
  <2>2. D \cap Signs = {}
    OBVIOUS
  <2> HIDE DEF D
  <2>3. Splits(D, t, DigitSet)
    BY <2>1, LastOf
  <2>4. CASE t \in Seq(D \ DigitSet)
    <3> DEFINE E == D \ DigitSet
    <3>1. E \cap DigitSet = {} /\ t \in Seq(E)
      BY <2>4
    <3> HIDE DEF E
    <3>2. ParseAmount(t) = {} /\ Keep(t, DigitSet) = <<>>
      BY <3>1, DigitlessRefused, KeepNone
    <3> QED
      BY <3>2, Zenon DEF ShowsPrice
  <2>5. ASSUME NEW X \in Seq(D), NEW c \in D, c \in DigitSet, NEW T \in Seq(D \ DigitSet),
               t = Append(X, c) \o T
        PROVE  ParseAmount(t) = IF ShowsPrice(t) THEN {MinorOf(t)} ELSE {}
    <3>1. Splits(D, X, Separators)
      BY LastOf
    <3>2. CASE X \in Seq(D \ Separators)
      <4> DEFINE s == Keep(Append(X, c), DigitSet)
      <4>1. PointOf(t) = 0
        BY <2>5, <3>2, NoPoint
      <4>2. ParseAmount(t) = Priced(Number(s), 0)
        BY <2>2, <2>5, <3>2, ReadWhole
      <4>3. s \in Seq(DigitSet) /\ s # <<>>
        BY <2>5, LastKept
      <4>4. Keep(t, DigitSet) = s
        <5> DEFINE E == D \ DigitSet
                   B == Append(X, c)
        <5>1. B \in Seq(D) /\ T \in Seq(D) /\ T \in Seq(E) /\ E \cap DigitSet = {}
          <6>1. B \in Seq(D)
            BY AppendFacts
          <6> HIDE DEF B
          <6> QED
            BY <6>1
        <5> HIDE DEF E, B, s
        <5>2. Keep(B \o T, DigitSet) = Keep(B, DigitSet) \o Keep(T, DigitSet)
          BY <5>1, KeepConcat
        <5>3. Keep(T, DigitSet) = <<>>
          BY <5>1, KeepNone
        <5>4. s \o <<>> = s
          BY <4>3, ConcatEmptySeq
        <5> QED
          BY <2>5, <5>2, <5>3, <5>4, Zenon DEF B, s
      <4> HIDE DEF s
      <4> QED
        BY <1>3, <4>1, <4>2, <4>3, <4>4, ShownInWhole
    <3>3. CASE \E A \in Seq(D), p \in D \cap Separators, U \in Seq(D \ Separators) :
                 X = Append(A, p) \o U
      <4>1. PICK A \in Seq(D), p \in D \cap Separators, U \in Seq(D \ Separators) :
              X = Append(A, p) \o U
        BY <3>3
      <4>2. p \in D /\ p \in Separators /\ U \in Seq(D)
        OBVIOUS
      <4>3. Append(X, c) = Append(A, p) \o Append(U, c)
        <5> DEFINE Y == Append(A, p)
        <5>1. Y \in Seq(D)
          BY <4>2, AppendFacts
        <5> HIDE DEF Y
        <5>2. Y \o Append(U, c) = Append(Y \o U, c)
          BY <4>2, <5>1, ConcatAppend
        <5> QED
          BY <4>1, <5>2, Zenon DEF Y
      <4>4. t = (Append(A, p) \o Append(U, c)) \o T
        BY <2>5, <4>3, Zenon
      <4> QED
        BY <1>3, <2>2, <2>5, <4>2, <4>4, FractionShown
    <3> QED
      BY <3>1, <3>2, <3>3 DEF Splits
  <2>6. CASE \E X \in Seq(D), c \in D \cap DigitSet, T \in Seq(D \ DigitSet) :
               t = Append(X, c) \o T
    <3>1. PICK X \in Seq(D), c \in D \cap DigitSet, T \in Seq(D \ DigitSet) :
            t = Append(X, c) \o T
      BY <2>6
    <3>2. c \in D /\ c \in DigitSet
      OBVIOUS
    <3> QED
      BY <2>5, <3>1, <3>2
  <2> QED
    BY <2>3, <2>4, <2>6 DEF Splits
<1> QED
  BY <1>2, <1>3

Texts == text \in Seq(Characters)

LEMMA TextIsSequence == Spec => []Texts
<1>1. Init => Texts
  BY DEF Init, Texts
<1>2. Texts /\ [Next]_vars => Texts'
  <2> SUFFICES ASSUME Texts, [Next]_vars PROVE Texts'
    OBVIOUS
  <2>1. ASSUME NEW c \in Characters, Extend(c) PROVE Texts'
    BY <2>1, AppendFacts DEF Extend, Texts
  <2>2. CASE Count \/ UNCHANGED vars
    BY <2>2 DEF Count, vars, Texts
  <2> QED
    BY <2>1, <2>2 DEF Next
<1> QED
  BY <1>1, <1>2, PTL DEF Spec

(* ParsePrice takes from a text of any length the amount its own rule      *)
(* gives, the digits with the fraction the last separator makes, or        *)
(* nothing where that rule refuses the text (price.go:62-137).             *)
THEOREM ShownIsRead == Spec => []ReadsWhatIsShown
<1>1. Texts => ReadsWhatIsShown
  <2> SUFFICES ASSUME text \in Seq(Characters) PROVE ReadsWhatIsShown
    BY DEF Texts
  <2>1. ParseAmount(text) = IF ShowsPrice(text) THEN {MinorOf(text)} ELSE {}
    BY AmountShown
  <2> DEFINE currency == DetectCurrency(text)
  <2>2. ExtractPrice(<<text, <<"5">>>>) = ParsePrice(text)
    <3>1. <<text, <<"5">>>> # <<>> /\ Head(<<text, <<"5">>>>) = text
      OBVIOUS
    <3> QED
      BY <3>1, Zenon DEF ExtractPrice
  <2>3. ParsePrice(text) = IF ShowsPrice(text) THEN {[price |-> MinorOf(text), currency |-> currency]}
                           ELSE {}
    <3>1. ParsePrice(text) = {[price |-> m, currency |-> currency] : m \in ParseAmount(text)}
      BY DEF ParsePrice
    <3> HIDE DEF currency
    <3> QED
      BY <2>1, <3>1
  <2>4. ExtractPrice(<<text, <<"5">>>>) =
          IF ShowsPrice(text) THEN {[price |-> MinorOf(text), currency |-> currency]} ELSE {}
    BY <2>2, <2>3, Zenon
  <2> QED
    BY <2>4, Zenon DEF ReadsWhatIsShown, ShowsPrice, MinorOf, DecimalsOf, PointOf, DigitsWithin, Signs
<1> QED
  BY <1>1, TextIsSequence, PTL
=============================================================================
