----------------------------- MODULE FiguresProofs -----------------------------
(***************************************************************************)
(* Theorems about Figures and Judgements, as the platform asks them, for   *)
(* every value of the bounds that the run gives one of.                    *)
(***************************************************************************)
EXTENDS MCPlatform, Sequences, FiniteSetTheorems, WellFoundedInduction, TLAPS

-----------------------------------------------------------------------------
(* Induction, and what runs over a sequence. *)

\* A set of numbers has a first one.
LEMMA FirstNumber ==
  ASSUME NEW set, set \subseteq Nat, set # {}
  PROVE  \E m \in set : \A k \in set : m <= k
<1> DEFINE Less == {p \in Nat \X Nat : p[1] < p[2]}
<1>1. IsWellFoundedOn(Less, Nat)
  BY NatLessThanWellFounded DEF OpToRel
<1>2. PICK m \in set : \A k \in set : ~(<<k, m>> \in Less)
  BY <1>1, WFMin
<1>3. ASSUME NEW k \in set PROVE m <= k
  <2>1. <<k, m>> \in Nat \X Nat /\ <<k, m>>[1] = k /\ <<k, m>>[2] = m /\ k \in Nat /\ m \in Nat
    OBVIOUS
  <2>2. ~(k < m)
    BY <1>2, <2>1
  <2> QED BY <2>1, <2>2
<1> QED BY <1>3

\* Every number is in a set that has 0 and with each number the next.
LEMMA EveryNumber ==
  ASSUME NEW Good, 0 \in Good, \A n \in Nat : n \in Good => n + 1 \in Good
  PROVE  Nat \subseteq Good
<1> DEFINE Bad == Nat \ Good
<1> SUFFICES ASSUME Bad # {} PROVE FALSE
  OBVIOUS
<1>1. PICK m \in Bad : \A k \in Bad : m <= k
  BY FirstNumber
<1>2. m \in Nat /\ m # 0 /\ m - 1 \in Nat /\ (m - 1) + 1 = m /\ ~(m <= m - 1)
  OBVIOUS
<1>3. m - 1 \in Good
  BY <1>1, <1>2
<1>4. m \in Good
  BY <1>2, <1>3
<1> QED BY <1>4

\* What moves once for each number from 1 to n exists, and stays where its
\* moves stay.
Moving(n, States, a, move) == n \in Nat /\ a \in States /\ move \in [1..n -> [States -> States]]

Moved(n, States, a, move, r) ==
  r \in [0..n -> States] /\ r[0] = a /\ \A i \in 1..n : r[i] = move[i][r[i - 1]]

LEMMA Stepping ==
  ASSUME NEW n, NEW States, NEW a, NEW move, Moving(n, States, a, move)
  PROVE  \E r : Moved(n, States, a, move, r)
<1>0. n \in Nat /\ a \in States /\ move \in [1..n -> [States -> States]]
  BY DEF Moving
<1> DEFINE Moves(m, r) == r[0] = a /\ \A i \in 1..m : r[i] = move[i][r[i - 1]]
           Good == {m \in Nat : m <= n => \E r \in [0..m -> States] : Moves(m, r)}
<1>1. 0 \in Good
  <2> DEFINE r == [i \in 0..0 |-> a]
  <2>1. r \in [0..0 -> States] /\ Moves(0, r)
    BY <1>0
  <2> QED BY <2>1
<1>2. ASSUME NEW m \in Nat, m \in Good PROVE m + 1 \in Good
  <2> SUFFICES ASSUME m + 1 <= n PROVE \E r \in [0..m + 1 -> States] : Moves(m + 1, r)
    OBVIOUS
  <2>0. m <= n
    BY <1>0
  <2>1. PICK q \in [0..m -> States] : Moves(m, q)
    BY <1>2, <2>0
  <2>2. q[m] \in States /\ move[m + 1] \in [States -> States]
    BY <1>0
  <2>3. move[m + 1][q[m]] \in States
    BY <2>2
  <2> DEFINE r == [i \in 0..m + 1 |-> IF i = m + 1 THEN move[m + 1][q[m]] ELSE q[i]]
  <2>4. r \in [0..m + 1 -> States]
    BY <2>3
  <2>5. r[0] = a
    BY <2>1
  <2>6. ASSUME NEW i \in 1..m + 1 PROVE r[i] = move[i][r[i - 1]]
    <3>1. CASE i = m + 1
      BY <3>1
    <3>2. CASE i # m + 1
      <4>1. i \in 1..m /\ i - 1 \in 0..m /\ i - 1 # m + 1 /\ i \in 0..m + 1 /\ i - 1 \in 0..m + 1
        BY <1>0, <3>2
      <4> QED BY <2>1, <3>2, <4>1
    <3> QED BY <3>1, <3>2
  <2> HIDE DEF r
  <2> QED BY <2>4, <2>5, <2>6
<1> HIDE DEF Good
<1>3. n \in Good
  BY <1>0, <1>1, <1>2, EveryNumber
<1>4. PICK r \in [0..n -> States] : Moves(n, r)
  BY <1>0, <1>3 DEF Good
<1> QED BY <1>4 DEF Moved

\* The sums of the first, the first two, and so on.
Running(v, n, p) == p \in [0..n -> Int] /\ p[0] = 0 /\ \A i \in 1..n : p[i] = p[i - 1] + v[i]

LEMMA SumIs ==
  ASSUME NEW v, NEW n \in Nat, Len(v) = n, \A i \in 1..n : v[i] \in Int
  PROVE  \E p : Running(v, n, p) /\ J!Sum(v) = p[n]
<1> DEFINE Is(s) == s = [i \in 0..n |-> IF i = 0 THEN 0 ELSE s[i - 1] + v[i]]
<1>1. \E s : Is(s)
  <2> DEFINE move == [i \in 1..n |-> [x \in Int |-> x + v[i]]]
  <2>1. Moving(n, Int, 0, move)
    BY DEF Moving
  <2>2. \A i \in 1..n, x \in Int : move[i][x] = x + v[i]
    OBVIOUS
  <2> HIDE DEF move
  <2>3. PICK r : Moved(n, Int, 0, move, r)
    BY <2>1, Stepping
  <2> USE <2>3 DEF Moved
  <2>4. ASSUME NEW i \in 1..n PROVE r[i] = r[i - 1] + v[i]
    <3>1. i - 1 \in 0..n
      OBVIOUS
    <3>2. r[i - 1] \in Int
      BY <3>1
    <3> QED BY <2>2, <3>2
  <2>5. r = [i \in 0..n |-> IF i = 0 THEN 0 ELSE r[i - 1] + v[i]]
    <3>1. \A i \in 0..n : r[i] = IF i = 0 THEN 0 ELSE r[i - 1] + v[i]
      BY <2>4
    <3> QED BY <3>1
  <2> QED BY <2>5
<1> DEFINE p == CHOOSE s : Is(s)
<1>2. Is(p)
  BY <1>1
<1>3. J!Sum(v) = p[n]
  BY DEF J!Sum
<1> HIDE DEF p
<1>4. DOMAIN p = 0..n /\ p[0] = 0 /\ \A i \in 1..n : p[i] = p[i - 1] + v[i]
  BY <1>2
<1> DEFINE Good == {i \in Nat : i <= n => p[i] \in Int}
<1>5. 0 \in Good
  BY <1>4
<1>6. ASSUME NEW i \in Nat, i \in Good PROVE i + 1 \in Good
  <2> SUFFICES ASSUME i + 1 <= n PROVE p[i + 1] \in Int
    OBVIOUS
  <2>1. p[i] \in Int /\ i + 1 \in 1..n /\ (i + 1) - 1 = i
    BY <1>6
  <2> QED BY <1>4, <2>1
<1> HIDE DEF Good
<1>7. Nat \subseteq Good
  BY <1>5, <1>6, EveryNumber
<1>8. p \in [0..n -> Int]
  <2>1. \A i \in 0..n : p[i] \in Int
    BY <1>7 DEF Good
  <2>2. p = [i \in 0..n |-> p[i]]
    BY <1>2
  <2> QED BY <2>1, <2>2
<1> QED BY <1>3, <1>4, <1>8 DEF Running

\* A sum is determined by its terms.
LEMMA RunningOnce ==
  ASSUME NEW v, NEW n \in Nat, NEW p, NEW q, Running(v, n, p), Running(v, n, q)
  PROVE  p[n] = q[n]
<1> DEFINE Good == {i \in Nat : i <= n => p[i] = q[i]}
<1>1. 0 \in Good
  BY DEF Running
<1>2. ASSUME NEW i \in Nat, i \in Good PROVE i + 1 \in Good
  <2> SUFFICES ASSUME i + 1 <= n PROVE p[i + 1] = q[i + 1]
    OBVIOUS
  <2>1. p[i] = q[i] /\ i + 1 \in 1..n /\ (i + 1) - 1 = i
    BY <1>2
  <2> QED BY <2>1 DEF Running
<1> HIDE DEF Good
<1>3. n \in Good
  BY <1>1, <1>2, EveryNumber
<1> QED BY <1>3 DEF Good

LEMMA SumOf ==
  ASSUME NEW v, NEW n \in Nat, Len(v) = n, \A i \in 1..n : v[i] \in Int, NEW q, Running(v, n, q)
  PROVE  J!Sum(v) = q[n]
<1>1. PICK p : Running(v, n, p) /\ J!Sum(v) = p[n]
  BY SumIs
<1> QED BY <1>1, RunningOnce

-----------------------------------------------------------------------------
(* How two series vary together. *)

Products(x, y, n) == [i \in 1..n |-> x[i] * y[i]]

\* Two series with the sums of either and of their products.
Series(n, x, y, sx, sy, sxy) ==
  /\ n \in Nat /\ x \in [1..n -> Int] /\ y \in [1..n -> Int]
  /\ Running(x, n, sx) /\ Running(y, n, sy) /\ Running(Products(x, y, n), n, sxy)

LEMMA SpreadIs ==
  ASSUME NEW n \in Nat, NEW x \in [1..n -> Int], NEW y \in [1..n -> Int]
  PROVE  \E sx, sy, sxy : /\ Series(n, x, y, sx, sy, sxy)
                          /\ J!Spread(x, y) = n * sxy[n] - sx[n] * sy[n]
<1>1. Len(x) = n /\ Len(y) = n
  OBVIOUS
<1>2. \A i \in 1..n : x[i] \in Int /\ y[i] \in Int
  OBVIOUS
<1>3. Len(Products(x, y, n)) = n /\ \A i \in 1..n : Products(x, y, n)[i] \in Int
  BY <1>2 DEF Products
<1>4. PICK sx : Running(x, n, sx) /\ J!Sum(x) = sx[n]
  BY <1>1, <1>2, SumIs
<1>5. PICK sy : Running(y, n, sy) /\ J!Sum(y) = sy[n]
  BY <1>1, <1>2, SumIs
<1>6. PICK sxy : Running(Products(x, y, n), n, sxy) /\ J!Sum(Products(x, y, n)) = sxy[n]
  BY <1>3, SumIs
<1>7. J!Spread(x, y) = n * sxy[n] - sx[n] * sy[n]
  BY <1>1, <1>4, <1>5, <1>6 DEF J!Spread, Products
<1> QED BY <1>4, <1>5, <1>6, <1>7 DEF Series

\* The same, the other way round: from sums to the spread.
LEMMA SpreadOf ==
  ASSUME NEW n, NEW x, NEW y, NEW sx, NEW sy, NEW sxy, Series(n, x, y, sx, sy, sxy)
  PROVE  J!Spread(x, y) = n * sxy[n] - sx[n] * sy[n]
<1>1. n \in Nat /\ x \in [1..n -> Int] /\ y \in [1..n -> Int]
  BY DEF Series
<1>2. PICK px, py, pxy : /\ Series(n, x, y, px, py, pxy)
                        /\ J!Spread(x, y) = n * pxy[n] - px[n] * py[n]
  BY <1>1, SpreadIs
<1>3. px[n] = sx[n] /\ py[n] = sy[n] /\ pxy[n] = sxy[n]
  BY <1>1, <1>2, RunningOnce DEF Series
<1> QED BY <1>2, <1>3

\* How far a pair (a, b) lies from the first k of two series, both ways.
Beside(k, a, b, sx, sy, sxy) == sxy[k] + k * a * b - b * sx[k] - a * sy[k]

LEMMA SeriesTyped ==
  ASSUME NEW n, NEW x, NEW y, NEW sx, NEW sy, NEW sxy, Series(n, x, y, sx, sy, sxy), NEW k \in 0..n
  PROVE  /\ sx[k] \in Int /\ sy[k] \in Int /\ sxy[k] \in Int /\ k \in Nat
         /\ k > 0 => x[k] \in Int /\ y[k] \in Int
         /\ k = 0 => sx[k] = 0 /\ sy[k] = 0 /\ sxy[k] = 0
<1>1. n \in Nat /\ x \in [1..n -> Int] /\ y \in [1..n -> Int]
  BY DEF Series
<1>2. Running(x, n, sx) /\ Running(y, n, sy) /\ Running(Products(x, y, n), n, sxy)
  BY DEF Series
<1>3. /\ sx \in [0..n -> Int] /\ sy \in [0..n -> Int] /\ sxy \in [0..n -> Int]
      /\ sx[0] = 0 /\ sy[0] = 0 /\ sxy[0] = 0
  BY <1>2 DEF Running
<1>4. k \in Nat /\ (k > 0 => k \in 1..n)
  BY <1>1
<1> QED BY <1>1, <1>3, <1>4

LEMMA SeriesStep ==
  ASSUME NEW n, NEW x, NEW y, NEW sx, NEW sy, NEW sxy, Series(n, x, y, sx, sy, sxy), NEW k \in 1..n
  PROVE  /\ k - 1 \in 0..n /\ k \in 0..n
         /\ sx[k] = sx[k - 1] + x[k] /\ sy[k] = sy[k - 1] + y[k]
         /\ sxy[k] = sxy[k - 1] + x[k] * y[k]
<1>1. n \in Nat /\ k - 1 \in 0..n /\ k \in 0..n
  BY DEF Series
<1>2. Products(x, y, n)[k] = x[k] * y[k]
  BY DEF Products
<1> QED BY <1>1, <1>2 DEF Series, Running

\* A pair on the same side of all of them, in both, counts for the sign.
LEMMA BesideGrows ==
  ASSUME NEW n, NEW x, NEW y, NEW sx, NEW sy, NEW sxy, Series(n, x, y, sx, sy, sxy),
         NEW a \in Int, NEW b \in Int, NEW k \in 1..n
  PROVE  /\ Beside(0, a, b, sx, sy, sxy) = 0
         /\ (a - x[k]) * (b - y[k]) \in Int
         /\ Beside(k - 1, a, b, sx, sy, sxy) \in Int
         /\ Beside(k, a, b, sx, sy, sxy) = Beside(k - 1, a, b, sx, sy, sxy) + (a - x[k]) * (b - y[k])
<1>1. /\ k - 1 \in 0..n /\ k \in 0..n
      /\ sx[k] = sx[k - 1] + x[k] /\ sy[k] = sy[k - 1] + y[k]
      /\ sxy[k] = sxy[k - 1] + x[k] * y[k]
  BY SeriesStep
<1>2. /\ sx[k - 1] \in Int /\ sy[k - 1] \in Int /\ sxy[k - 1] \in Int /\ k - 1 \in Nat /\ k \in Nat
      /\ x[k] \in Int /\ y[k] \in Int
  BY <1>1, SeriesTyped
<1>3. sx[0] = 0 /\ sy[0] = 0 /\ sxy[0] = 0
  BY DEF Series, Running
<1>4. ASSUME NEW p \in Int, NEW q \in Int, NEW r \in Int, NEW u \in Int, NEW v \in Int
      PROVE  (r + u * v) + k * a * b - b * (p + u) - a * (q + v)
               = (r + (k - 1) * a * b - b * p - a * q) + (a - u) * (b - v)
  BY <1>2
<1>5. Beside(0, a, b, sx, sy, sxy) = 0
  BY <1>3 DEF Beside
<1>6. (a - x[k]) * (b - y[k]) \in Int
  BY <1>2
<1>7. Beside(k - 1, a, b, sx, sy, sxy) \in Int
  BY <1>2 DEF Beside
<1>8. Beside(k, a, b, sx, sy, sxy) = Beside(k - 1, a, b, sx, sy, sxy) + (a - x[k]) * (b - y[k])
  BY <1>1, <1>2, <1>4 DEF Beside
<1> QED BY <1>5, <1>6, <1>7, <1>8

LEMMA BesideSign ==
  ASSUME NEW n, NEW x, NEW y, NEW sx, NEW sy, NEW sxy, Series(n, x, y, sx, sy, sxy),
         NEW a \in Int, NEW b \in Int, NEW k \in 0..n,
         \A i \in 1..k : (a - x[i]) * (b - y[i]) >= 0
  PROVE  /\ Beside(k, a, b, sx, sy, sxy) \in Nat
         /\ (\E i \in 1..k : (a - x[i]) * (b - y[i]) > 0) => Beside(k, a, b, sx, sy, sxy) > 0
<1> DEFINE far(m) == Beside(m, a, b, sx, sy, sxy)
           term(m) == (a - x[m]) * (b - y[m])
           Fine(m) == far(m) \in Nat /\ ((\E i \in 1..m : term(i) > 0) => far(m) > 0)
           Good == {m \in Nat : m <= k => Fine(m)}
<1>0. n \in Nat /\ k \in Nat /\ k <= n
  BY DEF Series
<1>1. \A m \in 1..k : /\ far(0) = 0 /\ term(m) \in Nat /\ far(m - 1) \in Int
                      /\ far(m) = far(m - 1) + term(m)
  <2> TAKE m \in 1..k
  <2>1. m \in 1..n
    BY <1>0
  <2> QED BY <2>1, BesideGrows
<1>2. far(0) = 0
  BY DEF Series, Running, Beside
<1> HIDE DEF far, term
<1>3. 0 \in Good
  BY <1>2
<1>4. ASSUME NEW m \in Nat, m \in Good PROVE m + 1 \in Good
  <2> SUFFICES ASSUME m + 1 <= k
               PROVE  /\ far(m + 1) \in Nat
                      /\ (\E i \in 1..m + 1 : term(i) > 0) => far(m + 1) > 0
    OBVIOUS
  <2>1. far(m) \in Nat /\ ((\E i \in 1..m : term(i) > 0) => far(m) > 0)
    BY <1>0, <1>4
  <2>2. m + 1 \in 1..k /\ (m + 1) - 1 = m
    BY <1>0
  <2>3. far(m + 1) = far(m) + term(m + 1) /\ term(m + 1) \in Nat
    BY <1>1, <2>2
  <2>4. ASSUME NEW i \in 1..m + 1, term(i) > 0 PROVE far(m) > 0 \/ term(m + 1) > 0
    BY <2>1, <2>4
  <2> QED BY <2>1, <2>3, <2>4
<1> HIDE DEF Good
<1>5. k \in Good
  BY <1>0, <1>3, <1>4, EveryNumber
<1> QED BY <1>0, <1>5 DEF Good, far, term

\* What the first k of two series spread.
SpreadTo(k, sx, sy, sxy) == k * sxy[k] - sx[k] * sy[k]

LEMMA SpreadGrows ==
  ASSUME NEW n, NEW x, NEW y, NEW sx, NEW sy, NEW sxy, Series(n, x, y, sx, sy, sxy), NEW k \in 1..n
  PROVE  /\ SpreadTo(k - 1, sx, sy, sxy) \in Int
         /\ SpreadTo(k, sx, sy, sxy)
              = SpreadTo(k - 1, sx, sy, sxy) + Beside(k - 1, x[k], y[k], sx, sy, sxy)
<1>1. /\ k - 1 \in 0..n /\ k \in 0..n
      /\ sx[k] = sx[k - 1] + x[k] /\ sy[k] = sy[k - 1] + y[k]
      /\ sxy[k] = sxy[k - 1] + x[k] * y[k]
  BY SeriesStep
<1>2. /\ sx[k - 1] \in Int /\ sy[k - 1] \in Int /\ sxy[k - 1] \in Int /\ k - 1 \in Nat /\ k \in Nat
      /\ x[k] \in Int /\ y[k] \in Int
  BY <1>1, SeriesTyped
<1>3. ASSUME NEW p \in Int, NEW q \in Int, NEW r \in Int, NEW u \in Int, NEW v \in Int
      PROVE  k * (r + u * v) - (p + u) * (q + v)
               = ((k - 1) * r - p * q) + (r + (k - 1) * u * v - v * p - u * q)
  BY <1>2
<1> QED BY <1>1, <1>2, <1>3 DEF SpreadTo, Beside

\* Series that rise and fall together have a spread that is not negative.
LEMMA SpreadSign ==
  ASSUME NEW n, NEW x, NEW y, NEW sx, NEW sy, NEW sxy, Series(n, x, y, sx, sy, sxy),
         \A i, j \in 1..n : i < j => (x[j] - x[i]) * (y[j] - y[i]) >= 0, NEW m \in 0..n
  PROVE  /\ SpreadTo(m, sx, sy, sxy) \in Nat
         /\ (\E i, j \in 1..m : i < j /\ (x[j] - x[i]) * (y[j] - y[i]) > 0)
              => SpreadTo(m, sx, sy, sxy) > 0
<1> DEFINE spread(k) == SpreadTo(k, sx, sy, sxy)
           far(k) == Beside(k - 1, x[k], y[k], sx, sy, sxy)
           pair(i, j) == (x[j] - x[i]) * (y[j] - y[i])
           Fine(k) == /\ spread(k) \in Nat
                      /\ (\E i, j \in 1..k : i < j /\ pair(i, j) > 0) => spread(k) > 0
           Good == {k \in Nat : k <= n => Fine(k)}
<1>0. n \in Nat
  BY DEF Series
<1>1. ASSUME NEW k \in 1..n
      PROVE  /\ spread(k) = spread(k - 1) + far(k) /\ far(k) \in Nat
             /\ (\E i \in 1..k - 1 : pair(i, k) > 0) => far(k) > 0
  <2>1. k - 1 \in 0..n /\ k \in 0..n /\ x[k] \in Int /\ y[k] \in Int
    BY SeriesStep, SeriesTyped DEF Series
  <2>2. \A i \in 1..k - 1 : i \in 1..n /\ i < k
    BY <1>0
  <2>3. \A i \in 1..k - 1 : pair(i, k) >= 0
    BY <2>2
  <2>4. /\ far(k) \in Nat
        /\ (\E i \in 1..k - 1 : pair(i, k) > 0) => far(k) > 0
    BY <2>1, <2>3, BesideSign
  <2> QED BY <2>4, SpreadGrows
<1>2. spread(0) = 0
  BY DEF Series, Running, SpreadTo
<1> HIDE DEF spread, far, pair
<1>3. 0 \in Good
  BY <1>2
<1>4. ASSUME NEW k \in Nat, k \in Good PROVE k + 1 \in Good
  <2> SUFFICES ASSUME k + 1 <= n
               PROVE  /\ spread(k + 1) \in Nat
                      /\ (\E i, j \in 1..k + 1 : i < j /\ pair(i, j) > 0) => spread(k + 1) > 0
    OBVIOUS
  <2>1. spread(k) \in Nat /\ ((\E i, j \in 1..k : i < j /\ pair(i, j) > 0) => spread(k) > 0)
    BY <1>0, <1>4
  <2>2. k + 1 \in 1..n /\ (k + 1) - 1 = k
    BY <1>0
  <2>3. /\ spread(k + 1) = spread(k) + far(k + 1) /\ far(k + 1) \in Nat
        /\ (\E i \in 1..k : pair(i, k + 1) > 0) => far(k + 1) > 0
    BY <1>1, <2>2
  <2>4. ASSUME NEW i \in 1..k + 1, NEW j \in 1..k + 1, i < j, pair(i, j) > 0
        PROVE  spread(k) > 0 \/ far(k + 1) > 0
    <3>1. i \in 1..k
      BY <2>4
    <3>2. CASE j = k + 1
      BY <2>3, <2>4, <3>1, <3>2
    <3>3. CASE j # k + 1
      BY <2>1, <2>4, <3>1, <3>3
    <3> QED BY <3>2, <3>3
  <2> QED BY <2>1, <2>3, <2>4
<1> HIDE DEF Good
<1>5. m \in Good /\ m <= n
  BY <1>0, <1>3, <1>4, EveryNumber
<1> QED BY <1>5 DEF Good, spread, pair

-----------------------------------------------------------------------------
(* Figures and judgements that do not recur over what they are given. *)

\* Rounding half up is off by at most a half, above zero and below.
LEMMA HalfUpIs ==
  ASSUME NEW x \in Int, NEW d \in Nat \ {0}
  PROVE  /\ F!HalfUp(x, d) \in Int
         /\ 2 * d * F!HalfUp(x, d) <= 2 * x + d
         /\ 2 * x <= 2 * d * F!HalfUp(x, d) + d
<1> DEFINE n == IF x < 0 THEN d - 2 * x ELSE 2 * x + d  e == 2 * d
<1>1. n \in Nat /\ e \in Nat /\ 0 < e /\ n = IF x < 0 THEN d - 2 * x ELSE 2 * x + d
  OBVIOUS
<1>3. F!HalfUp(x, d) = IF x < 0 THEN -(n \div e) ELSE n \div e
  BY DEF F!HalfUp
<1> HIDE DEF n
<1>4. e = 2 * d
  OBVIOUS
<1> HIDE DEF e
<1>2. n \div e \in Nat /\ e * (n \div e) <= n /\ n < e * (n \div e) + e
  BY <1>1
<1> DEFINE q == n \div e  h == F!HalfUp(x, d)
<1> HIDE DEF q, h
<1>5. q \in Nat /\ e * q <= n /\ n < e * q + e /\ h = IF x < 0 THEN -q ELSE q
  BY <1>2, <1>3 DEF q, h
<1>6. CASE x < 0
  <2>1. h = -q /\ n = d - 2 * x
    BY <1>1, <1>5, <1>6
  <2>2. 2 * d * h = -(e * q)
    BY <1>4, <1>5, <2>1
  <2>3. e * q \in Int
    BY <1>1, <1>5
  <2> DEFINE m == e * q
  <2> HIDE DEF m
  <2>4. m \in Int /\ m <= d - 2 * x /\ d - 2 * x < m + 2 * d /\ 2 * d * h = -m
    BY <1>4, <1>5, <2>1, <2>2, <2>3 DEF m
  <2> QED BY <1>5, <2>1, <2>4 DEF h
<1>7. CASE ~(x < 0)
  <2>1. h = q /\ n = 2 * x + d
    BY <1>1, <1>5, <1>7
  <2>3. e * q \in Int
    BY <1>1, <1>5
  <2> DEFINE m == e * q
  <2> HIDE DEF m
  <2>4. m \in Int /\ m <= 2 * x + d /\ 2 * x + d < m + 2 * d /\ 2 * d * h = m
    BY <1>4, <1>5, <2>1, <2>3 DEF m
  <2> QED BY <1>5, <2>1, <2>4 DEF h
<1> QED BY <1>6, <1>7

LEMMA FiguresBounds ==
  /\ Money \subseteq Int /\ Taxes \subseteq Int /\ Years \subseteq Nat
  /\ HoursPerDay \in Nat \ {0} /\ DaysPerMonth \in Nat \ {0} /\ TRAILING_LOOKBACK_DAYS \in Nat
BY PlatformAssumption, SMT DEF F!FiguresAssumption

LEMMA WhichFigure ==
  ASSUME F!Next
  PROVE  /\ asked'.of = "gst" => F!SplitGst
         /\ asked'.of = "voucher" => F!BuildVoucher
         /\ asked'.of = "items" => F!ComputeLineItems
         /\ asked'.of = "date" => F!LabelDate
         /\ asked'.of = "numbers" => F!ComputeBillingNumbers
         /\ asked'.of = "words" => F!SayAmount
         /\ asked'.of = "groups" => F!GroupAmount
<1>1. F!ComputeBillingNumbers => asked'.of = "numbers"
  BY DEF F!Figure, F!ComputeBillingNumbers
<1>2. F!ComputeLineItems => asked'.of = "items"
  BY DEF F!Figure, F!ComputeLineItems
<1>3. F!SplitGst => asked'.of = "gst"
  BY DEF F!Figure, F!SplitGst
<1>4. F!BuildVoucher => asked'.of = "voucher"
  BY DEF F!Figure, F!BuildVoucher
<1>5. F!SayAmount => asked'.of = "words"
  BY DEF F!Figure, F!SayAmount
<1>6. F!GroupAmount => asked'.of = "groups"
  BY DEF F!Figure, F!GroupAmount
<1>7. F!LabelDate => asked'.of = "date"
  BY DEF F!Figure, F!LabelDate
<1> QED BY <1>1, <1>2, <1>3, <1>4, <1>5, <1>6, <1>7 DEF F!Next

LEMMA TaxStep == ASSUME F!Next PROVE F!TaxAddsUp'
<1> SUFFICES ASSUME asked'.of = "gst" PROVE F!TaxAddsUp'
  BY DEF F!TaxAddsUp, F!Asked
<1>1. PICK taxable \in Money, rate \in Taxes, sameState \in BOOLEAN :
        /\ asked' = [of |-> "gst", taxable |-> taxable, rate |-> rate]
        /\ answer' = F!GstSplit(taxable, rate, sameState)
  BY WhichFigure DEF F!SplitGst, F!Figure
<1>2. taxable \in Int /\ rate \in Int
  BY FiguresBounds
<1> DEFINE x == taxable * rate  gst == F!HalfUp(x, 100)  half == F!HalfUp(gst, 2)
<1>3. x \in Int /\ 2 * taxable * rate = 2 * x
  BY <1>2
<1> HIDE DEF x
<1>4. gst \in Int /\ 200 * gst - 2 * x \in -100..100
  <2>1. gst \in Int /\ 2 * 100 * gst <= 2 * x + 100 /\ 2 * x <= 2 * 100 * gst + 100
    BY <1>3, HalfUpIs, 100 \in Nat \ {0}, ZenonT(30)
  <2> HIDE DEF gst
  <2> QED BY <1>3, <2>1
<1> HIDE DEF gst
<1>5. half \in Int /\ half - (gst - half) \in -1..1
  <2>1. half \in Int /\ 2 * 2 * half <= 2 * gst + 2 /\ 2 * gst <= 2 * 2 * half + 2
    BY <1>4, HalfUpIs, 2 \in Nat \ {0}
  <2> HIDE DEF half
  <2> QED BY <1>4, <2>1
<1>7. answer' = IF sameState THEN [cgst |-> half, sgst |-> gst - half, igst |-> 0, total |-> taxable + gst]
                ELSE [cgst |-> 0, sgst |-> 0, igst |-> gst, total |-> taxable + gst]
  BY <1>1 DEF F!GstSplit, gst, x
<1> HIDE DEF half
<1>8. answer'.total = taxable + answer'.cgst + answer'.sgst + answer'.igst
  BY <1>2, <1>4, <1>5, <1>7
<1>9. answer'.cgst - answer'.sgst \in -1..1
  BY <1>5, <1>7
<1>10. 200 * (answer'.total - taxable) - 2 * taxable * rate \in -100..100
  <2>1. answer'.total - taxable = gst
    BY <1>2, <1>4, <1>7
  <2> QED BY <2>1, <1>3, <1>4
<1> QED BY <1>1, <1>8, <1>9, <1>10 DEF F!TaxAddsUp

\* The sum of at most three entries.
LEMMA SumOfEntries ==
  ASSUME NEW d, NEW n \in 1..3, \A i \in 1..n : d[i] \in Int
  PROVE  LET sum[i \in 0..n] == IF i = 0 THEN 0 ELSE sum[i - 1] + d[i]
         IN sum[n] = d[1] + (IF n > 1 THEN d[2] ELSE 0) + (IF n > 2 THEN d[3] ELSE 0)
<1> DEFINE Is(s) == s = [i \in 0..n |-> IF i = 0 THEN 0 ELSE s[i - 1] + d[i]]
<1>1. \E s : Is(s)
  <2> DEFINE s == [i \in 0..n |-> IF i = 0 THEN 0 ELSE IF i = 1 THEN d[1]
                     ELSE IF i = 2 THEN d[1] + d[2] ELSE d[1] + d[2] + d[3]]
  <2>1. ASSUME NEW i \in 0..n PROVE s[i] = IF i = 0 THEN 0 ELSE s[i - 1] + d[i]
    <3>1. CASE i = 0
      BY <3>1
    <3>2. CASE i = 1
      BY <3>2
    <3>3. CASE i = 2
      BY <3>3
    <3>4. CASE i = 3
      BY <3>4
    <3> QED BY <3>1, <3>2, <3>3, <3>4
  <2>2. Is(s)
    BY <2>1
  <2> QED BY <2>2
<1> DEFINE sum == CHOOSE s : Is(s)
<1>2. Is(sum)
  BY <1>1
<1> HIDE DEF sum
<1>3. \A i \in 0..n : sum[i] = IF i = 0 THEN 0 ELSE sum[i - 1] + d[i]
  BY <1>2
<1>4. sum[0] = 0 /\ sum[1] = sum[0] + d[1] /\ (n > 1 => sum[2] = sum[1] + d[2])
        /\ (n > 2 => sum[3] = sum[2] + d[3])
  BY <1>3
<1>5. sum[n] = d[1] + (IF n > 1 THEN d[2] ELSE 0) + (IF n > 2 THEN d[3] ELSE 0)
  BY <1>4
<1> QED BY <1>5 DEF sum

LEMMA VoucherStep == ASSUME F!Next PROVE F!VoucherFollowsInvoice'
<1> SUFFICES ASSUME asked'.of = "voucher" PROVE F!VoucherFollowsInvoice'
  BY DEF F!VoucherFollowsInvoice, F!Asked
<1>1. PICK i \in F!Invoices, o \in F!Orders, sameState \in BOOLEAN :
        /\ F!Matches(i, o)
        /\ \E half \in {i.gst \div 2, (i.gst + 1) \div 2} :
             F!Figure([of |-> "voucher", invoice |-> i, order |-> o],
                      [credit |-> F!Credit(i), debits |-> F!Entries(i, sameState, half)])
  BY WhichFigure DEF F!BuildVoucher
<1>2. PICK half \in {i.gst \div 2, (i.gst + 1) \div 2} :
        /\ asked' = [of |-> "voucher", invoice |-> i, order |-> o]
        /\ answer' = [credit |-> F!Credit(i), debits |-> F!Entries(i, sameState, half)]
  BY <1>1 DEF F!Figure
<1> DEFINE taxable == i.taxable  gst == i.gst  total == i.total
           oTaxable == o.taxable  oGst == o.gst
<1>3. taxable \in Int /\ gst \in Int /\ total \in Int /\ oTaxable \in Int /\ oGst \in Int
  <2>1. taxable \in Money /\ gst \in Money /\ total \in Money /\ oTaxable \in Money /\ oGst \in Money
    BY DEF F!Invoices, F!Orders
  <2> HIDE DEF taxable, gst, total, oTaxable, oGst
  <2> QED BY <2>1, FiguresBounds
<1>4. half \in Int /\ gst - 2 * half \in -1..1 /\ (gst - 2 * half # 0 => gst % 2 = 1)
  BY <1>2, <1>3
<1> DEFINE d == F!Entries(i, sameState, half)  n == Len(d)
           own == IF total = 0 THEN 0 ELSE total - taxable - gst
           unposted == IF gst < 0 THEN gst ELSE 0
\* The debits are the invoice's parts, but for a tax below zero and for what
\* its two halves lack.
<1>5. /\ n \in 1..3 /\ \A k \in 1..n : d[k] \in Int
      /\ LET posted == d[1] + (IF n > 1 THEN d[2] ELSE 0) + (IF n > 2 THEN d[3] ELSE 0) IN
           \/ posted = taxable + gst - unposted
           \/ n = 3 /\ posted = taxable + 2 * half /\ unposted = 0
  <2>1. CASE gst <= 0
    <3>1. d = <<taxable>> /\ n = 1
      BY <2>1 DEF F!Entries
    <3>2. taxable = taxable + gst - unposted
      BY <1>3, <2>1
    <3> QED BY <1>3, <3>1, <3>2
  <2>2. CASE ~(gst <= 0) /\ sameState
    <3>1. d = <<taxable, half, half>> /\ n = 3
      BY <2>2 DEF F!Entries
    <3>2. unposted = 0
      BY <1>3, <2>2
    <3> QED BY <1>3, <1>4, <3>1, <3>2
  <2>3. CASE ~(gst <= 0) /\ ~sameState
    <3>1. d = <<taxable, gst>> /\ n = 2
      BY <2>3 DEF F!Entries
    <3>2. unposted = 0
      BY <1>3, <2>3
    <3> QED BY <1>3, <3>1, <3>2
  <2> QED BY <2>1, <2>2, <2>3
<1>6. F!Credit(i) = taxable + gst + own /\ own \in Int /\ unposted \in Int
  BY <1>3 DEF F!Credit
\* The match bounds by how much the total may differ from its parts.
<1>7. 100 * F!Distance(own, 0)
        <= 2 * (F!Distance(oTaxable, 0) + F!Distance(oGst, 0) + F!Distance(oTaxable + oGst, 0))
  <2>1. /\ F!WithinTolerance(taxable, oTaxable) /\ F!WithinTolerance(gst, oGst)
        /\ F!WithinTolerance(total, oTaxable + oGst)
    BY <1>1 DEF F!Matches
  <2>2. own = 0 \/ own = total - taxable - gst
    OBVIOUS
  <2> HIDE DEF taxable, gst, total, oTaxable, oGst, own
  <2> QED BY <1>3, <1>6, <2>1, <2>2 DEF F!WithinTolerance, F!Distance
<1>8. /\ answer'.credit = F!Credit(i) /\ answer'.debits = d
      /\ asked'.invoice = i /\ asked'.order = o
  BY <1>2
<1> DEFINE sum == CHOOSE s : s = [k \in 0..n |-> IF k = 0 THEN 0 ELSE s[k - 1] + d[k]]
           odd == answer'.credit - sum[n] - own - unposted
<1> HIDE DEF d
<1>9. sum[n] = d[1] + (IF n > 1 THEN d[2] ELSE 0) + (IF n > 2 THEN d[3] ELSE 0)
  BY <1>5, SumOfEntries
<1> HIDE DEF sum
<1>10. odd \in -1..1 /\ (odd # 0 => gst % 2 = 1 /\ n = 3)
  <2>1. sum[n] = taxable + gst - unposted \/ (n = 3 /\ sum[n] = taxable + 2 * half /\ unposted = 0)
    BY <1>5, <1>9
  <2>2. answer'.credit = taxable + gst + own
    BY <1>6, <1>8
  <2> HIDE DEF taxable, gst, total, own, unposted, n
  <2> QED BY <1>3, <1>4, <1>6, <2>1, <2>2
<1> QED BY <1>7, <1>8, <1>10 DEF F!VoucherFollowsInvoice, sum

\* A month has a number of hours.
LEMMA HoursOfMonth == IsFiniteSet(F!Month) /\ \E n \in Nat \ {0} : F!Cardinality(F!Month) = n
<1> DEFINE n == DaysPerMonth * HoursPerDay
<1>1. n \in Nat \ {0}
  <2>1. DaysPerMonth \in Nat \ {0} /\ HoursPerDay \in Nat \ {0}
    BY FiguresBounds
  <2> QED BY <2>1
<1>2. F!Month = 0..n - 1
  BY DEF F!Month
<1> HIDE DEF n
<1>3. 0 \in Int /\ n - 1 \in Int /\ 0 <= n - 1 /\ (n - 1) - 0 + 1 = n
  BY <1>1
<1>4. IsFiniteSet(0..n - 1) /\ Cardinality(0..n - 1) = n
  BY <1>3, FS_Interval
<1>5. F!Cardinality(F!Month) = Cardinality(F!Month)
  BY DEF F!Cardinality, Cardinality
<1> QED BY <1>1, <1>2, <1>4, <1>5

LEMMA ItemsStep == ASSUME F!Next PROVE F!MorePerformanceNeverCostsLess'
<1> SUFFICES ASSUME asked'.of = "items" PROVE F!MorePerformanceNeverCostsLess'
  BY DEF F!MorePerformanceNeverCostsLess, F!Asked
<1>1. PICK more \in 0..2, better \in F!Uptimes, c \in Terms :
        /\ asked' = [of |-> "items", so2_kg |-> more, uptime |-> better, contract |-> c]
        /\ answer' = [total |-> F!LineItems(more, better, c)]
  BY WhichFigure DEF F!ComputeLineItems, F!Figure
<1>2. c \in [base_fee : Nat, usage_rate : Nat, bonus_at : Nat \cup {Null},
             bonus : Nat, penalty_at : Nat \cup {Null}, penalty : Nat]
  BY PlatformAssumption DEF F!FiguresAssumption
<1>3. F!Uptimes \subseteq Int
  <2>1. PICK n \in Nat \ {0} : F!Cardinality(F!Month) = n
    BY HoursOfMonth
  <2>2. ASSUME NEW good \in 0..n PROVE F!HalfUp(10000 * good, n) \in Int
    <3>1. 10000 * good \in Nat
      OBVIOUS
    <3> QED BY <3>1, HalfUpIs
  <2>3. F!Uptimes = {F!HalfUp(10000 * good, n) : good \in 0..n}
    BY <2>1 DEF F!Uptimes
  <2> QED BY <2>2, <2>3
<1>4. ASSUME NEW so2 \in 0..more, NEW up \in F!Uptimes, up <= better
      PROVE  F!LineItems(so2, up, c) <= F!LineItems(more, better, c)
  <2> DEFINE Adjustment(u) == IF c.bonus_at # Null /\ u >= c.bonus_at THEN c.bonus
                              ELSE IF c.penalty_at # Null /\ u < c.penalty_at THEN -c.penalty
                              ELSE 0
  <2>1. Adjustment(up) \in Int /\ Adjustment(better) \in Int
    BY <1>2
  <2>2. Adjustment(up) <= Adjustment(better)
    <3> DEFINE b == c.bonus_at p == c.penalty_at
    <3>1. /\ b = Null \/ b \in Nat
          /\ p = Null \/ p \in Nat
          /\ c.bonus \in Nat /\ c.penalty \in Nat /\ up \in Int /\ better \in Int
      BY <1>2, <1>3
    <3>2. CASE b # Null /\ up >= b
      BY <1>4, <3>1, <3>2
    <3>3. CASE ~(b # Null /\ up >= b) /\ p # Null /\ up < p
      BY <1>4, <3>1, <3>3
    <3>4. CASE ~(b # Null /\ up >= b) /\ ~(p # Null /\ up < p)
      BY <1>4, <3>1, <3>4
    <3> QED BY <3>2, <3>3, <3>4
  <2>3. so2 * c.usage_rate <= more * c.usage_rate /\ so2 * c.usage_rate \in Nat /\ more * c.usage_rate \in Nat
    BY <1>2
  <2>4. F!LineItems(so2, up, c) = c.base_fee + so2 * c.usage_rate + Adjustment(up)
    BY DEF F!LineItems
  <2>5. F!LineItems(more, better, c) = c.base_fee + more * c.usage_rate + Adjustment(better)
    BY DEF F!LineItems
  <2> HIDE DEF Adjustment
  <2> QED BY <1>2, <2>1, <2>2, <2>3, <2>4, <2>5
<1> QED BY <1>1, <1>4 DEF F!MorePerformanceNeverCostsLess

LEMMA DateStep == ASSUME F!Next PROVE F!MonthsFollowEachOther'
<1> SUFFICES ASSUME asked'.of = "date" PROVE F!MonthsFollowEachOther'
  BY DEF F!MonthsFollowEachOther, F!Asked
<1>1. PICK d \in F!Dates :
        /\ asked' = [of |-> "date", date |-> d]
        /\ answer' = [label |-> F!FiscalYearLabel(d), previous |-> F!MonthBounds(F!PreviousMonth(d))]
  BY WhichFigure DEF F!LabelDate, F!Figure
<1>2. d \in [year : Nat, month : 1..12]
  <2>1. Years \subseteq Nat
    BY FiguresBounds
  <2>2. d \in [year : Years, month : 1..12]
    BY DEF F!Dates
  <2>3. d.year \in Years /\ d.month \in 1..12 /\ d = [year |-> d.year, month |-> d.month]
    BY <2>2
  <2>4. d.year \in Nat
    BY <2>1, <2>3, Zenon
  <2> QED BY <2>3, <2>4
<1> DEFINE index == 12 * d.year + d.month - 1
<1>3. F!FiscalYearLabel(d) = <<((index - 3) \div 12) % 100, ((index + 9) \div 12) % 100>>
  <2> DEFINE y == d.year  m == d.month  start == IF m >= 4 THEN y ELSE y - 1
  <2>1. y \in Nat /\ m \in 1..12
    BY <1>2
  <2>2. F!FiscalYearLabel(d) = <<start % 100, (start + 1) % 100>>
    BY DEF F!FiscalYearLabel
  <2>3. index = 12 * y + m - 1
    OBVIOUS
  <2> HIDE DEF y, m, index
  <2>4. (index - 3) \div 12 = start
    BY <2>1, <2>3
  <2>5. (index + 9) \div 12 = start + 1
    BY <2>1, <2>3
  <2> HIDE DEF start
  <2> QED BY <2>2, <2>4, <2>5
<1>4. F!MonthBounds(F!PreviousMonth(d))[2] = d
  <2>1. CASE d.month = 1
    <3>1. F!PreviousMonth(d) = [year |-> d.year - 1, month |-> 12]
      BY <2>1 DEF F!PreviousMonth
    <3> QED BY <1>2, <2>1, <3>1 DEF F!MonthBounds
  <2>2. CASE d.month # 1
    <3>1. F!PreviousMonth(d) = [year |-> d.year, month |-> d.month - 1]
      BY <1>2, <2>2 DEF F!PreviousMonth
    <3> QED BY <1>2, <2>2, <3>1 DEF F!MonthBounds
  <2> QED BY <2>1, <2>2
<1> QED BY <1>1, <1>3, <1>4 DEF F!MonthsFollowEachOther

LEMMA WhichJudgement ==
  ASSUME J!Next
  PROVE  /\ question'.of = "kpi" => J!ComputeForPlant
         /\ question'.of = "risk" => J!ScoreRisk
         /\ question'.of = "colour" => J!ColourPlant
         /\ question'.of = "frozen" => J!EvalPersistence
         /\ question'.of = "threshold" => J!EvalThresholds
         /\ question'.of = "z" => J!EvalRollingZ
         /\ question'.of = "rate" => J!EvalRateOfChange
         /\ question'.of = "tank" => J!GetBurnRate
         /\ question'.of = "metric" => J!GetMetrics
<1>1. J!ComputeForPlant => question'.of = "kpi"
  BY DEF J!Conclude, J!ComputeForPlant
<1>2. J!EvalPersistence => question'.of = "frozen"
  BY DEF J!Conclude, J!EvalPersistence
<1>3. J!EvalThresholds => question'.of = "threshold"
  BY DEF J!Conclude, J!EvalThresholds
<1>4. J!EvalRollingZ => question'.of = "z"
  BY DEF J!Conclude, J!EvalRollingZ
<1>5. J!EvalRateOfChange => question'.of = "rate"
  BY DEF J!Conclude, J!EvalRateOfChange
<1>6. J!ScoreRisk => question'.of = "risk"
  BY DEF J!Conclude, J!ScoreRisk
<1>7. J!ColourPlant => question'.of = "colour"
  BY DEF J!Conclude, J!ColourPlant
<1>8. J!GetBurnRate => question'.of = "tank"
  BY DEF J!Conclude, J!GetBurnRate
<1>9. J!GetMetrics => question'.of = "metric"
  BY DEF J!Conclude, J!GetMetrics
<1> QED BY <1>1, <1>2, <1>3, <1>4, <1>5, <1>6, <1>7, <1>8, <1>9 DEF J!Next

LEMMA WorstOfTwo ==
  ASSUME NEW f \in Int, NEW g \in Int
  PROVE  J!WorstFlag(f, g) >= f /\ J!WorstFlag(f, g) >= g
<1> DEFINE w == IF f >= g THEN f ELSE g
<1>1. w \in {f, g} /\ \A y \in {f, g} : w >= y
  OBVIOUS
<1>2. J!Max({f, g}) \in {f, g} /\ \A y \in {f, g} : J!Max({f, g}) >= y
  BY <1>1 DEF J!Max
<1> QED BY <1>2 DEF J!WorstFlag

LEMMA KpiStep == ASSUME J!Next PROVE J!KpisAreBacked'
<1> SUFFICES ASSUME question'.of = "kpi" PROVE J!KpisAreBacked'
  BY DEF J!KpisAreBacked, J!Asked
<1> DEFINE K(r) == J!LatestReading(r)
<1>1. PICK in \in J!Newest, out \in J!Newest, koh \in J!Newest, k2so3 \in J!Newest :
        /\ question' = [of |-> "kpi", in |-> in, out |-> out, koh |-> koh, k2so3 |-> k2so3]
        /\ conclusion' = IF J!Raises(K(in), K(out)) THEN [efficiency |-> J!NoKpi, closure |-> J!NoKpi]
             ELSE [efficiency |-> J!Efficiency(K(in), K(out)), closure |-> J!Closure(K(koh), K(k2so3))]
  BY WhichJudgement DEF J!ComputeForPlant, J!Conclude, J!Newest
<1>2. \A r \in J!Newest : r.age \in Int /\ r.flag \in Int
  <2>1. Ages \subseteq Nat
    BY PlatformAssumption DEF J!JudgementsAssumption
  <2>2. J!NoReading.age \in Int /\ J!NoReading.flag \in Int
    BY DEF J!NoReading
  <2>3. ASSUME NEW r \in [value : Values \cup {Null}, flag : {0, 2, 4}, age : Ages]
        PROVE  r.age \in Int /\ r.flag \in Int
    <3>1. r.age \in Ages /\ r.flag \in {0, 2, 4}
      OBVIOUS
    <3>2. r.age \in Nat
      BY <2>1, <3>1, Zenon
    <3>3. r.flag \in Int
      BY <3>1
    <3> QED BY <3>2, <3>3
  <2> QED BY <2>2, <2>3 DEF J!Newest
<1>3. FRESHNESS_WINDOW_S \in Nat
  BY PlatformAssumption DEF J!JudgementsAssumption
<1>4. ASSUME NEW r \in J!Newest, K(r) # J!NoReading
      PROVE  K(r) = r /\ J!Fresh(r)
  BY <1>2, <1>3, <1>4 DEF J!LatestReading, J!Fresh
<1>5. ASSUME NEW r \in J!Newest, J!Fresh(r)
      PROVE  K(r) = r
  BY <1>2, <1>3, <1>5 DEF J!LatestReading, J!Fresh
<1>6. ASSUME NEW r \in J!Newest, K(r).value # Null
      PROVE  K(r) # J!NoReading
  BY <1>6 DEF J!NoReading
<1>7. ASSUME conclusion'.efficiency # J!NoKpi
      PROVE  /\ J!Fresh(in) /\ J!Fresh(out)
             /\ conclusion'.efficiency.flag >= in.flag /\ conclusion'.efficiency.flag >= out.flag
  <2>1. ~J!Raises(K(in), K(out)) /\ conclusion'.efficiency = J!Efficiency(K(in), K(out))
    BY <1>1, <1>7
  <2>2. K(in) # J!NoReading /\ K(out) # J!NoReading
         /\ conclusion'.efficiency.flag = J!WorstFlag(K(in).flag, K(out).flag)
    BY <1>7, <2>1 DEF J!Efficiency
  <2> QED BY <1>2, <1>4, <2>2, WorstOfTwo
<1>8. ASSUME conclusion'.closure # J!NoKpi
      PROVE  /\ J!Fresh(koh) /\ J!Fresh(k2so3)
             /\ conclusion'.closure.flag >= koh.flag /\ conclusion'.closure.flag >= k2so3.flag
  <2>1. conclusion'.closure = J!Closure(K(koh), K(k2so3))
    BY <1>1, <1>8
  <2>2. K(koh).value # Null /\ K(k2so3).value # Null
         /\ conclusion'.closure.flag = J!WorstFlag(K(koh).flag, K(k2so3).flag)
    BY <1>8, <2>1 DEF J!Closure
  <2> QED BY <1>2, <1>4, <1>6, <2>2, WorstOfTwo
<1>9. ASSUME \A r \in {koh, k2so3} : J!Fresh(r) /\ r.value # Null, conclusion'.closure = J!NoKpi
      PROVE  J!Fresh(out) /\ out.value = Null
  <2>1. J!Closure(K(koh), K(k2so3)) # J!NoKpi
    <3>1. K(koh) = koh /\ K(k2so3) = k2so3
      BY <1>5, <1>9
    <3>2. J!Closure(K(koh), K(k2so3)).den = 1
      BY <1>9, <3>1 DEF J!Closure
    <3> QED BY <3>2 DEF J!NoKpi
  <2>2. J!Raises(K(in), K(out))
    BY <1>1, <1>9, <2>1
  <2> QED BY <1>4, <2>2 DEF J!Raises
<1> QED BY <1>1, <1>7, <1>8, <1>9 DEF J!KpisAreBacked

\* Rounding half up keeps the order.
LEMMA HalfUpGrows ==
  ASSUME NEW x \in Nat, NEW y \in Nat, NEW d \in Nat \ {0}, x <= y
  PROVE  /\ J!HalfUp(x, d) \in Nat /\ J!HalfUp(y, d) \in Nat
         /\ J!HalfUp(x, d) <= J!HalfUp(y, d)
<1> DEFINE m == 2 * x + d  n == 2 * y + d  e == 2 * d
<1>1. m \in Nat /\ n \in Nat /\ e \in Nat /\ 0 < e /\ m <= n
  OBVIOUS
<1>2. J!HalfUp(x, d) = m \div e /\ J!HalfUp(y, d) = n \div e
  BY DEF J!HalfUp
<1> HIDE DEF m, n, e
<1>3. m \div e \in Nat /\ n \div e \in Nat /\ m \div e <= n \div e
  <2> DEFINE p == m \div e  q == n \div e
  <2>1. p \in Nat /\ q \in Nat
    BY <1>1
  <2>2. p <= q
    BY <1>1, <2>1
  <2> QED BY <2>1, <2>2
<1> QED BY <1>2, <1>3

LEMMA HalfUpOfAll ==
  ASSUME NEW c \in Nat, NEW d \in Nat \ {0}
  PROVE  J!HalfUp(c * d, d) = c
<1> DEFINE e == 2 * d
<1>1. 2 * (c * d) + d = c * e + d /\ d < e /\ e \in Nat /\ 0 < e
  OBVIOUS
<1> HIDE DEF e
<1>2. (c * e + d) \div e = c
  BY <1>1
<1> QED BY <1>1, <1>2 DEF J!HalfUp, e

\* A share of a total, in hundredths of a per cent.
LEMMA PercentGrows ==
  ASSUME NEW total \in Nat, NEW n \in 0..total, NEW m \in 0..total, n <= m
  PROVE  /\ J!Percent(n, total) \in Nat /\ J!Percent(m, total) \in Nat
         /\ J!Percent(n, total) <= J!Percent(m, total) /\ J!Percent(m, total) <= 10000
<1>1. CASE total = 0
  BY <1>1 DEF J!Percent
<1>2. CASE total # 0
  <2>1. 10000 * n \in Nat /\ 10000 * m \in Nat /\ 10000 * total \in Nat
    OBVIOUS
  <2>2. 10000 * n <= 10000 * m /\ 10000 * m <= 10000 * total /\ total \in Nat \ {0}
    BY <1>2
  <2>3. J!HalfUp(10000 * total, total) = 10000
    BY <2>2, HalfUpOfAll, 10000 \in Nat
  <2>4. /\ J!HalfUp(10000 * n, total) \in Nat /\ J!HalfUp(10000 * m, total) \in Nat
        /\ J!HalfUp(10000 * n, total) <= J!HalfUp(10000 * m, total)
    BY <2>1, <2>2, HalfUpGrows
  <2>5. J!HalfUp(10000 * m, total) <= J!HalfUp(10000 * total, total)
    BY <2>1, <2>2, HalfUpGrows
  <2>6. J!Percent(n, total) = J!HalfUp(10000 * n, total) /\ J!Percent(m, total) = J!HalfUp(10000 * m, total)
    BY <1>2 DEF J!Percent
  <2> QED BY <2>3, <2>4, <2>5, <2>6
<1> QED BY <1>1, <1>2

LEMMA AtMostAll ==
  ASSUME NEW x \in Nat, NEW y \in Nat, x <= y
  PROVE  /\ J!Min({10000, x}) \in Nat /\ J!Min({10000, y}) \in Nat
         /\ J!Min({10000, x}) <= J!Min({10000, y}) /\ J!Min({10000, y}) <= 10000
<1>1. ASSUME NEW z \in Nat
      PROVE  J!Min({10000, z}) = IF z <= 10000 THEN z ELSE 10000
  <2> DEFINE w == IF z <= 10000 THEN z ELSE 10000
  <2>1. w \in {10000, z} /\ \A v \in {10000, z} : w <= v
    OBVIOUS
  <2>2. J!Min({10000, z}) \in {10000, z} /\ \A v \in {10000, z} : J!Min({10000, z}) <= v
    BY <2>1 DEF J!Min
  <2> QED BY <2>2
<1>2. J!Min({10000, x}) = IF x <= 10000 THEN x ELSE 10000
  BY <1>1
<1>3. J!Min({10000, y}) = IF y <= 10000 THEN y ELSE 10000
  BY <1>1
<1> QED BY <1>2, <1>3

LEMMA CountsOfRows ==
  ASSUME NEW q \in J!Rows
  PROVE  q.total \in Nat /\ q.non_good \in 0..q.total /\ q.spikes \in 0..q.total
<1>1. Counts \subseteq Nat
  BY PlatformAssumption DEF J!JudgementsAssumption
<1>2. /\ q.total \in Counts /\ q.non_good \in Counts /\ q.spikes \in Counts
      /\ q.spikes <= q.non_good /\ q.non_good <= q.total
  BY DEF J!Rows
<1>3. q.total \in Nat /\ q.non_good \in Nat /\ q.spikes \in Nat
  BY <1>1, <1>2
<1> QED BY <1>2, <1>3

\* At r there is no less wrong than at q, and no more is done about it.
NoBetter(r, late, fewer, q, ack, events) ==
  /\ r.total = q.total /\ r.non_good >= q.non_good /\ r.spikes >= q.spikes
  /\ ack = Null \/ (late # Null /\ late >= ack)
  /\ fewer <= events

LEMMA RiskGrows ==
  ASSUME NEW q \in J!Rows, NEW r \in J!Rows, NEW ack \in J!Latencies, NEW late \in J!Latencies,
         NEW events \in Nat, NEW fewer \in Nat, NEW days \in {1, 30, 90},
         NoBetter(r, late, fewer, q, ack, events)
  PROVE  /\ J!RiskScore(q, ack, events, days) \in Nat
         /\ J!RiskScore(r, late, fewer, days) \in Nat
         /\ J!RiskScore(q, ack, events, days) <= J!RiskScore(r, late, fewer, days)
         /\ J!RiskScore(r, late, fewer, days) <= 10000
<1> USE DEF NoBetter
<1> DEFINE quality(x) == J!Percent(x.non_good, x.total)
           spikes(x) == J!Percent(x.spikes, x.total)
           latency(a) == IF a = Null THEN 0 ELSE J!Min({10000, J!HalfUp(10000 * a, 60)})
           upkeep(n) == J!Min({10000, J!HalfUp(10000 * 30 * n, days)})
           weighed(x, a, n) == 30 * quality(x) + 20 * latency(a) + 20 * (10000 - upkeep(n))
                                 + 15 * quality(x) + 15 * spikes(x)
<1>1. /\ q.total \in Nat /\ q.non_good \in 0..q.total /\ q.spikes \in 0..q.total
      /\ r.non_good \in 0..q.total /\ r.spikes \in 0..q.total
  BY CountsOfRows
<1>2. quality(q) \in Nat /\ quality(r) \in Nat /\ quality(q) <= quality(r) /\ quality(r) <= 10000
  BY <1>1, PercentGrows
<1>3. spikes(q) \in Nat /\ spikes(r) \in Nat /\ spikes(q) <= spikes(r) /\ spikes(r) <= 10000
  BY <1>1, PercentGrows
<1>4. latency(ack) \in Nat /\ latency(late) \in Nat /\ latency(ack) <= latency(late) /\ latency(late) <= 10000
  <2>1. ASSUME NEW a \in Nat, NEW b \in Nat, a <= b
        PROVE  LET x == J!Min({10000, J!HalfUp(10000 * a, 60)})
                   y == J!Min({10000, J!HalfUp(10000 * b, 60)})
               IN x \in Nat /\ y \in Nat /\ x <= y /\ y <= 10000
    <3>1. 10000 * a \in Nat /\ 10000 * b \in Nat /\ 10000 * a <= 10000 * b /\ 60 \in Nat \ {0}
      BY <2>1
    <3>2. /\ J!HalfUp(10000 * a, 60) \in Nat /\ J!HalfUp(10000 * b, 60) \in Nat
          /\ J!HalfUp(10000 * a, 60) <= J!HalfUp(10000 * b, 60)
      BY <3>1, HalfUpGrows
    <3> QED BY <3>2, AtMostAll
  <2>2. \A a \in J!Latencies : a # Null => a \in Nat
    BY DEF J!Latencies
  <2>3. CASE ack = Null /\ late = Null
    BY <2>3
  <2>4. CASE ack = Null /\ late # Null
    BY <2>1, <2>2, <2>4
  <2>5. CASE ack # Null
    BY <2>1, <2>2, <2>5
  <2> QED BY <2>3, <2>4, <2>5
<1>5. upkeep(events) \in Nat /\ upkeep(fewer) \in Nat /\ upkeep(fewer) <= upkeep(events) /\ upkeep(events) <= 10000
  <2>1. 10000 * 30 * fewer \in Nat /\ 10000 * 30 * events \in Nat
          /\ 10000 * 30 * fewer <= 10000 * 30 * events /\ days \in Nat \ {0}
    OBVIOUS
  <2> DEFINE x == J!HalfUp(10000 * 30 * fewer, days)  y == J!HalfUp(10000 * 30 * events, days)
  <2>2. x \in Nat /\ y \in Nat /\ x <= y
    BY <2>1, HalfUpGrows
  <2> HIDE DEF x, y
  <2>3. J!Min({10000, x}) \in Nat /\ J!Min({10000, y}) \in Nat
          /\ J!Min({10000, x}) <= J!Min({10000, y}) /\ J!Min({10000, y}) <= 10000
    BY <2>2, AtMostAll
  <2> QED BY <2>3 DEF x, y
<1> HIDE DEF quality, spikes, latency, upkeep
<1>6. /\ weighed(q, ack, events) \in Nat /\ weighed(r, late, fewer) \in Nat
      /\ weighed(q, ack, events) <= weighed(r, late, fewer) /\ weighed(r, late, fewer) <= 10000 * 100
  BY <1>2, <1>3, <1>4, <1>5
<1>7. /\ J!RiskScore(q, ack, events, days) = J!HalfUp(weighed(q, ack, events), 100)
      /\ J!RiskScore(r, late, fewer, days) = J!HalfUp(weighed(r, late, fewer), 100)
  BY DEF J!RiskScore, quality, spikes, latency, upkeep
<1> HIDE DEF weighed
<1>8. 100 \in Nat \ {0} /\ 10000 \in Nat /\ 10000 * 100 \in Nat
  OBVIOUS
<1>9. J!HalfUp(10000 * 100, 100) = 10000
  BY <1>8, HalfUpOfAll
<1>10. /\ J!HalfUp(weighed(q, ack, events), 100) \in Nat /\ J!HalfUp(weighed(r, late, fewer), 100) \in Nat
       /\ J!HalfUp(weighed(q, ack, events), 100) <= J!HalfUp(weighed(r, late, fewer), 100)
  BY <1>6, <1>8, HalfUpGrows
<1>11. J!HalfUp(weighed(r, late, fewer), 100) <= J!HalfUp(10000 * 100, 100)
  BY <1>6, <1>8, HalfUpGrows
<1> QED BY <1>7, <1>9, <1>10, <1>11

LEMMA ScoreStep == ASSUME J!Next PROVE J!RiskFollows'
<1> SUFFICES ASSUME question'.of = "risk" PROVE J!RiskFollows'
  BY DEF J!RiskFollows, J!Asked
<1>1. PICK q \in J!Rows, ack \in J!Latencies, events \in Counts, days \in {1, 30, 90} :
        /\ question' = [of |-> "risk", q |-> q, ack |-> ack, events |-> events, days |-> days]
        /\ conclusion' = [score |-> J!RiskScore(q, ack, events, days)]
  BY WhichJudgement DEF J!ScoreRisk, J!Conclude
<1>2. Counts \subseteq Nat
  BY PlatformAssumption DEF J!JudgementsAssumption
<1>3. conclusion'.score \in Nat /\ conclusion'.score <= 10000
  <2>1. NoBetter(q, ack, events, q, ack, events) /\ events \in Nat
    BY <1>2, CountsOfRows DEF NoBetter, J!Latencies
  <2> QED BY <1>1, <2>1, RiskGrows
<1>4. ASSUME NEW r \in J!Rows, NEW late \in J!Latencies, NEW fewer \in Counts, late # Null,
             r.total = q.total, r.non_good >= q.non_good, r.spikes >= q.spikes,
             ack = Null \/ late >= ack, fewer <= events
      PROVE  J!RiskScore(r, late, fewer, days) >= J!RiskScore(q, ack, events, days)
  <2>1. NoBetter(r, late, fewer, q, ack, events) /\ events \in Nat /\ fewer \in Nat
    BY <1>2, <1>4 DEF NoBetter
  <2> DEFINE s == J!RiskScore(q, ack, events, days)  t == J!RiskScore(r, late, fewer, days)
  <2>2. s \in Nat /\ t \in Nat /\ s <= t
    BY <2>1, RiskGrows
  <2> QED BY <2>2
<1> QED BY <1>1, <1>3, <1>4 DEF J!RiskFollows, J!Asked

\* One more alarm, or more readings that are flagged, is no better a colour.
LEMMA ColourStep == ASSUME J!Next PROVE J!ColourFollows'
<1> SUFFICES ASSUME question'.of = "colour" PROVE J!ColourFollows'
  BY DEF J!ColourFollows, J!Asked
<1>1. PICK silence \in Ages \cup {Null}, alarms \in SUBSET J!Alarms, q \in J!Rows :
        /\ question' = [of |-> "colour", silence |-> silence, alarms |-> alarms, q |-> q]
        /\ conclusion' = [colour |-> J!Colour(silence, alarms, q)]
  BY WhichJudgement DEF J!ColourPlant, J!Conclude
<1>2. ASSUME NEW a \in J!Alarms, NEW r \in J!Rows, r.total = q.total, r.non_good >= q.non_good,
             J!Colour(silence, alarms, q) # "gray"
      PROVE  J!Rank(J!Colour(silence, alarms \cup {a}, r)) >= J!Rank(J!Colour(silence, alarms, q))
  <2>1. silence # Null
    BY <1>2 DEF J!Colour
  <2>2. \A s : J!Raised(alarms, s) => J!Raised(alarms \cup {a}, s)
    BY DEF J!Raised
  <2>3. /\ J!Percent(q.non_good, q.total) \in Nat /\ J!Percent(r.non_good, r.total) \in Nat
        /\ J!Percent(q.non_good, q.total) <= J!Percent(r.non_good, r.total)
    <3>2. q.total \in Nat /\ q.non_good \in 0..q.total /\ r.non_good \in 0..q.total
      BY <1>2, CountsOfRows
    <3> QED BY <1>2, <3>2, PercentGrows
  <2> DEFINE bad(as) == J!Raised(as, {"critical"}) \/ silence > FRESHNESS_WINDOW_S
             poor(as, x) == J!Raised(as, {"warning", "info"}) \/ J!Percent(x.non_good, x.total) > 2000
  <2>4. \A as, x : J!Colour(silence, as, x) = IF bad(as) THEN "red" ELSE IF poor(as, x) THEN "yellow" ELSE "green"
    BY <2>1 DEF J!Colour
  <2>5. (bad(alarms) => bad(alarms \cup {a})) /\ (poor(alarms, q) => poor(alarms \cup {a}, r))
    BY <2>2, <2>3, SMTT(30)
  <2>6. J!Rank("green") = 0 /\ J!Rank("yellow") = 1 /\ J!Rank("red") = 2
    BY DEF J!Rank
  <2> HIDE DEF bad, poor
  <2> QED BY <2>4, <2>5, <2>6
<1> QED BY <1>1, <1>2 DEF J!ColourFollows, J!Asked

-----------------------------------------------------------------------------
(* The newest value against the window it belongs to. *)

LEMMA JudgementsBounds ==
  /\ Values \subseteq Int /\ Thresholds \subseteq Nat /\ Windows \subseteq Nat
  /\ SNAPSHOT_ROWS_PER_SENSOR \in Nat \ {0} /\ LOOKBACK_SLACK \in Nat
  /\ MaxReadings \in Nat /\ MaxSamples \in Nat /\ MaxTimestamp \in Nat
  /\ Null \notin Int
BY PlatformAssumption, SMT DEF J!JudgementsAssumption

LEMMA MaxOfTwo ==
  ASSUME NEW a \in Int, NEW b \in Int
  PROVE  J!Max({a, b}) = IF a >= b THEN a ELSE b
<1> DEFINE w == IF a >= b THEN a ELSE b
<1>1. w \in {a, b} /\ \A y \in {a, b} : w >= y
  OBVIOUS
<1>2. J!Max({a, b}) \in {a, b} /\ \A y \in {a, b} : J!Max({a, b}) >= y
  BY <1>1 DEF J!Max
<1> QED BY <1>2

LEMMA SubSeqIs ==
  ASSUME NEW r, NEW m \in Int, NEW n \in Int
  PROVE  SubSeq(r, m, n) = [i \in 1..n - m + 1 |-> r[m + i - 1]]
OBVIOUS

\* The last k of a sequence, or all of it.
LEMMA LastOfIs ==
  ASSUME NEW n \in Nat, NEW r, Len(r) = n, NEW k \in Nat
  PROVE  LET m == IF k <= n THEN n - k ELSE 0
         IN J!LastOf(r, k) = [i \in 1..n - m |-> r[m + i]]
<1> DEFINE m == IF k <= n THEN n - k ELSE 0
<1>1. J!Max({1, n - k + 1}) = m + 1
  <2>1. J!Max({1, n - k + 1}) = IF 1 >= n - k + 1 THEN 1 ELSE n - k + 1
    BY MaxOfTwo
  <2> QED BY <2>1
<1>2. J!LastOf(r, k) = SubSeq(r, m + 1, n)
  BY <1>1 DEF J!LastOf
<1>3. m \in 0..n
  OBVIOUS
<1> HIDE DEF m
<1>4. SubSeq(r, m + 1, n) = [i \in 1..n - (m + 1) + 1 |-> r[(m + 1) + i - 1]]
  BY <1>3, SubSeqIs
<1>5. /\ n - (m + 1) + 1 = n - m
      /\ \A i \in 1..n - m : (m + 1) + i - 1 = m + i
  BY <1>3
<1>6. [i \in 1..n - (m + 1) + 1 |-> r[(m + 1) + i - 1]] = [i \in 1..n - m |-> r[m + i]]
  BY <1>5
<1> QED BY <1>2, <1>4, <1>6 DEF m

\* The deviation of the last value from the mean, squared, is at most n - 1
\* times the variance, and that much when the others are all the same.
LEMMA DeviationOfLast ==
  ASSUME NEW n \in Nat, n >= 2, NEW v \in [1..n -> Int]
  PROVE  LET off == n * v[n] - J!Sum(v)  spread == J!Spread(v, v)
         IN /\ off \in Int /\ spread \in Nat
            /\ off * off <= (n - 1) * spread
            /\ (\A i, j \in 1..n - 1 : v[i] = v[j])
                 => off * off = (n - 1) * spread /\ (spread = 0 <=> v[n] = v[1])
<1> DEFINE m == n - 1  a == v[n]
<1>1. PICK sx, sy, sxy : /\ Series(n, v, v, sx, sy, sxy)
                         /\ J!Spread(v, v) = n * sxy[n] - sx[n] * sy[n]
  BY SpreadIs
<1>2. sx[m] = sy[m] /\ sx[n] = sy[n] /\ J!Sum(v) = sx[n]
  <2>1. Running(v, n, sx) /\ Running(v, n, sy)
    BY <1>1 DEF Series
  <2>2. Len(v) = n /\ \A i \in 1..n : v[i] \in Int
    OBVIOUS
  <2>3. J!Sum(v) = sx[n] /\ J!Sum(v) = sy[n]
    BY <2>1, <2>2, SumOf
  <2>4. sx[n] = sx[m] + v[n] /\ sy[n] = sy[m] + v[n]
    <3>1. n \in 1..n
      OBVIOUS
    <3> QED BY <2>1, <3>1 DEF Running
  <2>5. sx[m] \in Int /\ sy[m] \in Int /\ v[n] \in Int
    <3>1. m \in 0..n /\ n \in 1..n
      OBVIOUS
    <3> QED BY <2>1, <3>1 DEF Running
  <2>6. \A i, j, k \in Int : i + k = j + k => i = j
    OBVIOUS
  <2>7. sx[m] + v[n] = sy[m] + v[n]
    BY <2>3, <2>4, Zenon
  <2>8. sx[m] = sy[m]
    BY <2>5, <2>6, <2>7, Zenon
  <2> QED BY <2>3, <2>8, Zenon
<1> DEFINE p == sx[m]  q == sxy[m]
<1>3. m \in Nat /\ m \in 0..n /\ a \in Int /\ p \in Int /\ q \in Int
  BY <1>1, SeriesTyped
<1>4. sx[n] = p + a /\ sxy[n] = q + a * a
  <2>1. n \in 1..n
    OBVIOUS
  <2> QED BY <1>1, <2>1, SeriesStep
<1>5. m * q - p * p \in Nat
  <2>1. \A i, j \in 1..n : i < j => (v[j] - v[i]) * (v[j] - v[i]) >= 0
    <3>1. \A k \in Int : k * k >= 0
      OBVIOUS
    <3> QED BY <3>1
  <2>2. SpreadTo(m, sx, sy, sxy) \in Nat
    BY <1>1, <1>3, <2>1, SpreadSign
  <2> QED BY <1>2, <2>2 DEF SpreadTo
<1>6. J!Spread(v, v) \in Nat
  <2>1. \A i, j \in 1..n : i < j => (v[j] - v[i]) * (v[j] - v[i]) >= 0
    <3>1. \A k \in Int : k * k >= 0
      OBVIOUS
    <3> QED BY <3>1
  <2>2. SpreadTo(n, sx, sy, sxy) \in Nat
    BY <1>1, <2>1, SpreadSign
  <2> QED BY <1>1, <2>2 DEF SpreadTo
<1> DEFINE off == n * a - J!Sum(v)  spread == J!Spread(v, v)
<1>7. off = m * a - p
  BY <1>2, <1>3, <1>4
<1>8. spread = n * (q + a * a) - (p + a) * (p + a)
  BY <1>1, <1>2, <1>4
<1> HIDE DEF p, q, a, off, spread
<1>9. m * spread - off * off = n * (m * q - p * p)
  BY <1>3, <1>7, <1>8
<1>10. off \in Int /\ spread \in Int
  BY <1>3, <1>6, <1>7, <1>8
<1>13. \A k \in 1..n : sx[k] = sx[k - 1] + v[k] /\ sxy[k] = sxy[k - 1] + v[k] * v[k]
  <2> TAKE k \in 1..n
  <2> QED BY <1>1 DEF Series, Running, Products
<1>11. off * off <= m * spread
  <2> DEFINE d == m * q - p * p
  <2>1. n * d >= 0
    BY <1>5
  <2> QED BY <1>3, <1>9, <1>10, <2>1
<1>12. ASSUME \A i, j \in 1..n - 1 : v[i] = v[j]
       PROVE  off * off = m * spread /\ (spread = 0 <=> a = v[1])
  <2> DEFINE c == v[1]
             Good == {k \in Nat : k <= m => sx[k] = k * c /\ sxy[k] = k * c * c}
  <2>1. c \in Int /\ \A i \in 1..m : v[i] = c
    BY <1>12
  <2>2. 0 \in Good
    <3>1. sx[0] = 0 /\ sxy[0] = 0
      BY <1>1 DEF Series, Running
    <3> HIDE DEF c
    <3> QED BY <2>1, <3>1
  <2>3. ASSUME NEW k \in Nat, k \in Good PROVE k + 1 \in Good
    <3> SUFFICES ASSUME k + 1 <= m PROVE sx[k + 1] = (k + 1) * c /\ sxy[k + 1] = (k + 1) * c * c
      OBVIOUS
    <3>1. k + 1 \in 1..n /\ k + 1 \in 1..m /\ (k + 1) - 1 = k
      BY <1>3
    <3>2. sx[k + 1] = sx[k] + v[k + 1] /\ sxy[k + 1] = sxy[k] + v[k + 1] * v[k + 1]
      BY <1>13, <3>1
    <3>3. sx[k] = k * c /\ sxy[k] = k * c * c /\ v[k + 1] = c
      BY <2>1, <2>3, <3>1
    <3> HIDE DEF c
    <3> QED BY <2>1, <3>2, <3>3
  <2> HIDE DEF Good
  <2>4. m \in Good
    BY <1>3, <2>2, <2>3, EveryNumber
  <2>5. p = m * c /\ q = m * c * c
    BY <1>3, <2>4 DEF Good, p, q
  <2> HIDE DEF c
  <2>6. m * q - p * p = 0
    BY <1>3, <2>1, <2>5
  <2>7. off = m * (a - c)
    BY <1>3, <1>7, <2>1, <2>5
  <2>8. spread = m * ((a - c) * (a - c))
    <3>1. ASSUME NEW m_ \in Int
          PROVE  (m_ + 1) * (m_ * c * c + a * a) - (m_ * c + a) * (m_ * c + a) = m_ * ((a - c) * (a - c))
      BY <1>3, <2>1
    <3> QED BY <1>3, <1>8, <2>5, <3>1
  <2>9. off * off = m * spread
    <3>1. n * 0 = 0
      OBVIOUS
    <3>2. m * spread - off * off = 0
      BY <1>9, <2>6, <3>1
    <3> DEFINE x == m * spread  y == off * off
    <3>3. x \in Int /\ y \in Int
      BY <1>3, <1>10
    <3> HIDE DEF x, y
    <3>4. x - y = 0 => y = x
      BY <3>3
    <3> QED BY <3>2, <3>4 DEF x, y
  <2>10. spread = 0 <=> a = c
    <3> DEFINE d == a - c
    <3>1. d \in Int /\ (d = 0 <=> a = c) /\ m >= 1
      BY <1>3, <2>1
    <3> HIDE DEF d
    <3>2. m * (d * d) = 0 <=> d = 0
      BY <1>3, <3>1
    <3> QED BY <2>8, <3>1, <3>2 DEF d
  <2> QED BY <2>9, <2>10 DEF c
<1> QED BY <1>6, <1>10, <1>11, <1>12 DEF off, spread, a

LEMMA DeviationStep == ASSUME J!Next PROVE J!DeviationIsBounded'
<1> SUFFICES ASSUME question'.of = "z" PROVE J!DeviationIsBounded'
  BY DEF J!DeviationIsBounded, J!Asked
<1>9. PICK n \in Windows, z \in Thresholds : \E v \in [1..n -> Values] :
        LET r == [i \in 1..n |-> [ts |-> i, value |-> v[i], frozen |-> FALSE]] IN
        /\ question' = [of |-> "z", values |-> v, window |-> n, z |-> z]
        /\ conclusion' = [fired |-> J!Deviates(r, n, z)]
  BY WhichJudgement DEF J!EvalRollingZ, J!Conclude
<1>1. PICK v \in [1..n -> Values] :
        LET r == [i \in 1..n |-> [ts |-> i, value |-> v[i], frozen |-> FALSE]] IN
        /\ question' = [of |-> "z", values |-> v, window |-> n, z |-> z]
        /\ conclusion' = [fired |-> J!Deviates(r, n, z)]
  BY <1>9
<1>2. n \in Nat /\ z \in Nat /\ v \in [1..n -> Int]
  BY JudgementsBounds
<1> DEFINE r == [i \in 1..n |-> [ts |-> i, value |-> v[i], frozen |-> FALSE]]
           off == n * v[n] - J!Sum(v)
           spread == J!Spread(v, v)
<1>3. ASSUME n >= 2
      PROVE  J!Deviates(r, n, z) <=> spread # 0 /\ off * off > z * z * spread
  <2>1. Len(r) = n /\ \A i \in 1..n : r[i].value = v[i]
    BY <1>2
  <2> HIDE DEF r
  <2>2. J!LastOf(r, n) = [i \in 1..n |-> r[i]]
    <3>1. J!LastOf(r, n) = [i \in 1..n - 0 |-> r[0 + i]]
      BY <1>2, <2>1, LastOfIs
    <3>2. n - 0 = n /\ \A i \in 1..n : 0 + i = i
      BY <1>2
    <3> QED BY <3>1, <3>2
  <2>3. Len(J!LastOf(r, n)) = n
    BY <1>2, <2>2
  <2>4. [i \in 1..Len(J!LastOf(r, n)) |-> J!LastOf(r, n)[i].value] = v
    BY <1>2, <2>1, <2>2, <2>3
  <2>5. Len(v) = n /\ Null \notin J!ToSet(v)
    BY <1>2, JudgementsBounds DEF J!ToSet
  <2>6. J!Last(v) = v[n] /\ J!Compared(v) = v
    BY <2>5 DEF J!Last, J!Compared
  <2> QED BY <1>3, <2>4, <2>5, <2>6 DEF J!Deviates
<1>4. ASSUME n < 2 PROVE ~J!Deviates(r, n, z)
  BY <1>2, <1>4 DEF J!Deviates
<1> HIDE DEF r
<1>5. ASSUME n >= 2
      PROVE  /\ off \in Int /\ spread \in Nat /\ off * off <= (n - 1) * spread
             /\ (\A i, j \in 1..n - 1 : v[i] = v[j])
                 => off * off = (n - 1) * spread /\ (spread = 0 <=> v[n] = v[1])
  BY <1>2, <1>5, DeviationOfLast
<1> HIDE DEF off, spread
<1>6. ASSUME J!Deviates(r, n, z)
      PROVE  z * z < n - 1
  <2>1. n >= 2
    BY <1>2, <1>4, <1>6
  <2>2. /\ off \in Int /\ spread \in Nat /\ off * off <= (n - 1) * spread
        /\ spread # 0 /\ off * off > z * z * spread
    BY <1>3, <1>5, <1>6, <2>1
  <2> SUFFICES ASSUME z * z >= n - 1 PROVE FALSE
    BY <1>2
  <2>3. z * z * spread >= (n - 1) * spread
    BY <1>2, <2>2
  <2> QED BY <1>2, <2>2, <2>3
<1>7. ASSUME n > 2, \A i, j \in 1..n - 1 : v[i] = v[j]
      PROVE  J!Deviates(r, n, z) <=> z * z < n - 1 /\ v[n] # v[1]
  <2>1. n >= 2
    BY <1>2, <1>7
  <2>2. /\ off \in Int /\ spread \in Nat /\ off * off = (n - 1) * spread
        /\ (spread = 0 <=> v[n] = v[1])
        /\ J!Deviates(r, n, z) <=> spread # 0 /\ off * off > z * z * spread
    BY <1>3, <1>5, <1>7, <2>1
  <2>3. ASSUME spread # 0
        PROVE  (n - 1) * spread > z * z * spread <=> z * z < n - 1
    BY <1>2, <2>2, <2>3
  <2> QED BY <2>2, <2>3
<1>8. question'.window = n /\ question'.values = v /\ question'.z = z /\ conclusion'.fired = J!Deviates(r, n, z)
  BY <1>1 DEF r
<1> QED BY <1>6, <1>7, <1>8 DEF J!DeviationIsBounded

-----------------------------------------------------------------------------
(* What is kept of a sequence. *)

Keeping(s, n, places, Rs, kept) ==
  /\ n \in Nat /\ s \in [1..n -> Rs] /\ kept \in [0..n -> Seq(Rs)] /\ kept[0] = <<>>
  /\ \A i \in 1..n : kept[i] = IF i \in places THEN Append(kept[i - 1], s[i]) ELSE kept[i - 1]

LEMMA KeptIs ==
  ASSUME NEW n \in Nat, NEW Rs, NEW s \in [1..n -> Rs], NEW places
  PROVE  \E kept : Keeping(s, n, places, Rs, kept) /\ J!Kept(s, places) = kept[n]
<1> DEFINE More(i, x) == IF i \in places THEN Append(x, s[i]) ELSE x
           Is(t) == t = [i \in 0..n |-> IF i = 0 THEN <<>> ELSE More(i, t[i - 1])]
           kept == CHOOSE t : Is(t)
<1>1. J!Kept(s, places) = kept[n]
  <2>1. Len(s) = n
    OBVIOUS
  <2> QED BY <2>1 DEF J!Kept
<1>2. \A i \in 1..n, x \in Seq(Rs) : More(i, x) \in Seq(Rs)
  <2> TAKE i \in 1..n, x \in Seq(Rs)
  <2>1. s[i] \in Rs
    OBVIOUS
  <2>2. Append(x, s[i]) \in Seq(Rs)
    BY <2>1
  <2> QED BY <2>2
<1>3. <<>> \in Seq(Rs)
  OBVIOUS
<1>4. \A t : Keeping(s, n, places, Rs, t) <=>
               t \in [0..n -> Seq(Rs)] /\ t[0] = <<>> /\ \A i \in 1..n : t[i] = More(i, t[i - 1])
  BY DEF Keeping
<1> HIDE DEF More
<1>5. \E t : Is(t)
  <2> DEFINE move == [i \in 1..n |-> [x \in Seq(Rs) |-> More(i, x)]]
  <2>1. Moving(n, Seq(Rs), <<>>, move)
    BY <1>2, <1>3 DEF Moving
  <2>2. \A i \in 1..n, x \in Seq(Rs) : move[i][x] = More(i, x)
    OBVIOUS
  <2> HIDE DEF move
  <2>3. PICK r : Moved(n, Seq(Rs), <<>>, move, r)
    BY <2>1, Stepping
  <2>4. ASSUME NEW i \in 1..n PROVE r[i] = More(i, r[i - 1])
    <3>1. i - 1 \in 0..n
      OBVIOUS
    <3>2. r[i - 1] \in Seq(Rs) /\ r[i] = move[i][r[i - 1]]
      BY <2>3, <3>1 DEF Moved
    <3> QED BY <2>2, <3>2
  <2>5. ASSUME NEW i \in 0..n PROVE r[i] = IF i = 0 THEN <<>> ELSE More(i, r[i - 1])
    <3>1. CASE i = 0
      BY <2>3, <3>1 DEF Moved
    <3>2. CASE i # 0
      BY <2>4, <3>2
    <3> QED BY <3>1, <3>2
  <2>6. r = [i \in 0..n |-> r[i]]
    BY <2>3 DEF Moved
  <2> QED BY <2>5, <2>6
<1>6. Is(kept)
  BY <1>5
<1> HIDE DEF kept
<1>7. DOMAIN kept = 0..n /\ \A i \in 0..n : kept[i] = IF i = 0 THEN <<>> ELSE More(i, kept[i - 1])
  BY <1>6
<1>8. kept[0] = <<>> /\ \A i \in 1..n : kept[i] = More(i, kept[i - 1])
  BY <1>7
<1> DEFINE Good == {i \in Nat : i <= n => kept[i] \in Seq(Rs)}
<1>9. 0 \in Good
  BY <1>3, <1>8
<1>10. ASSUME NEW i \in Nat, i \in Good PROVE i + 1 \in Good
  <2> SUFFICES ASSUME i + 1 <= n PROVE kept[i + 1] \in Seq(Rs)
    OBVIOUS
  <2>1. kept[i] \in Seq(Rs) /\ i + 1 \in 1..n /\ (i + 1) - 1 = i
    BY <1>10
  <2> QED BY <1>2, <1>8, <2>1
<1> HIDE DEF Good
<1>11. Nat \subseteq Good
  BY <1>9, <1>10, EveryNumber
<1>12. kept \in [0..n -> Seq(Rs)]
  <2>1. \A i \in 0..n : kept[i] \in Seq(Rs)
    BY <1>11 DEF Good
  <2>2. kept = [i \in 0..n |-> kept[i]]
    BY <1>6
  <2> QED BY <2>1, <2>2
<1> QED BY <1>1, <1>4, <1>8, <1>12

\* Of places from m on, the rest of the sequence from m on.
PlacesFrom(n, Rs, s, places, m) ==
  n \in Nat /\ s \in [1..n -> Rs] /\ m \in 1..n + 1 /\ \A i \in 1..n : i \in places <=> m <= i

LEMMA KeptFrom ==
  ASSUME NEW n, NEW Rs, NEW s, NEW places, NEW m, PlacesFrom(n, Rs, s, places, m)
  PROVE  J!Kept(s, places) = [k \in 1..n - m + 1 |-> s[m - 1 + k]]
<1>0. n \in Nat
  BY DEF PlacesFrom
<1> USE DEF PlacesFrom
<1>1. PICK kept : Keeping(s, n, places, Rs, kept) /\ J!Kept(s, places) = kept[n]
  BY KeptIs
<1> DEFINE size(i) == IF i < m THEN 0 ELSE i - m + 1
           part(i) == [k \in 1..size(i) |-> s[m - 1 + k]]
           Good == {i \in Nat : i <= n => kept[i] = part(i)}
<1>2. 0 \in Good
  <2>1. size(0) = 0
    OBVIOUS
  <2>2. part(0) = <<>>
    BY <2>1
  <2> QED BY <1>1, <2>2 DEF Keeping
<1>3. ASSUME NEW i \in Nat, i \in Good PROVE i + 1 \in Good
  <2> HIDE DEF part, size, PlacesFrom
  <2> SUFFICES ASSUME i + 1 <= n PROVE kept[i + 1] = part(i + 1)
    OBVIOUS
  <2>0. kept[i] = part(i)
    BY <1>0, <1>3
  <2> USE DEF part, size, PlacesFrom
  <2>1. kept[i] = part(i) /\ i + 1 \in 1..n /\ (i + 1) - 1 = i
    BY <1>0, <2>0
  <2>2. kept[i + 1] = IF i + 1 \in places THEN Append(kept[i], s[i + 1]) ELSE kept[i]
    BY <1>1, <2>1 DEF Keeping
  <2>3. CASE i + 1 < m
    <3>1. size(i) = 0 /\ size(i + 1) = 0 /\ i + 1 \notin places
      BY <2>1, <2>3
    <3> QED BY <2>1, <2>2, <3>1
  <2>4. CASE ~(i + 1 < m)
    <3>1. size(i) = i + 1 - m /\ size(i + 1) = size(i) + 1 /\ i + 1 \in places /\ size(i) \in Nat
      BY <2>1, <2>4
    <3>2. m - 1 + size(i + 1) = i + 1
      BY <3>1
    <3> HIDE DEF size
    <3>3. \A k \in 1..size(i) : m - 1 + k \in 1..n
      BY <3>1
    <3>4. part(i) \in Seq(Rs) /\ Len(part(i)) = size(i)
      BY <3>1, <3>3
    <3>5. Append(part(i), s[i + 1]) = [k \in 1..size(i) + 1 |-> IF k <= size(i) THEN part(i)[k] ELSE s[i + 1]]
      BY <3>1, <3>4
    <3>6. \A k \in 1..size(i) + 1 : (IF k <= size(i) THEN part(i)[k] ELSE s[i + 1]) = s[m - 1 + k]
      BY <3>1, <3>2
    <3> QED BY <2>1, <2>2, <3>1, <3>5, <3>6
  <2> QED BY <2>3, <2>4
<1> HIDE DEF Good
<1>4. n \in Good
  BY <1>2, <1>3, EveryNumber
<1>5. kept[n] = part(n) /\ size(n) = n - m + 1
  BY <1>4 DEF Good
<1> QED BY <1>1, <1>5

\* What is kept is of the places, in their order, e being where.
Chosen(kept, i, s, places, e) ==
  /\ Len(kept) <= i
  /\ e \in [1..Len(kept) -> 1..i]
  /\ \A j, k \in 1..Len(kept) : j < k => e[j] < e[k]
  /\ \A k \in 1..Len(kept) : e[k] \in places /\ kept[k] = s[e[k]]

LEMMA ChosenMore ==
  ASSUME NEW Rs, NEW kept \in Seq(Rs), NEW i \in Nat, NEW s, NEW places, NEW e,
         Chosen(kept, i, s, places, e), s[i + 1] \in Rs
  PROVE  /\ Chosen(kept, i + 1, s, places, e)
         /\ i + 1 \in places => \E f : Chosen(Append(kept, s[i + 1]), i + 1, s, places, f)
<1> DEFINE n == Len(kept)  more == Append(kept, s[i + 1])
           f == [k \in 1..n + 1 |-> IF k = n + 1 THEN i + 1 ELSE e[k]]
<1>1. /\ n \in Nat /\ n <= i /\ e \in [1..n -> 1..i]
      /\ \A j, k \in 1..n : j < k => e[j] < e[k]
      /\ \A k \in 1..n : e[k] \in places /\ kept[k] = s[e[k]]
  BY DEF Chosen
<1>2. Len(more) = n + 1 /\ more[n + 1] = s[i + 1] /\ \A k \in 1..n : more[k] = kept[k]
  OBVIOUS
<1> HIDE DEF n, more
<1>3. \A k \in 1..n : e[k] \in 1..i + 1
  BY <1>1
<1>4. e \in [1..n -> 1..i + 1]
  BY <1>1, <1>3
<1>5. Chosen(kept, i + 1, s, places, e)
  BY <1>1, <1>4 DEF Chosen, n
<1>6. f \in [1..n + 1 -> 1..i + 1]
  BY <1>1, <1>3
<1>7. /\ f[n + 1] = i + 1 /\ \A k \in 1..n : f[k] = e[k]
      /\ \A k \in 1..n + 1 : k = n + 1 \/ k \in 1..n
  BY <1>1
<1> HIDE DEF f
<1>8. ASSUME NEW j \in 1..n + 1, NEW k \in 1..n + 1, j < k PROVE f[j] < f[k]
  <2>1. j \in 1..n /\ e[j] \in 1..i
    BY <1>1, <1>8
  <2>2. CASE k = n + 1
    BY <1>7, <2>1, <2>2
  <2>3. CASE k # n + 1
    BY <1>1, <1>7, <1>8, <2>1, <2>3
  <2> QED BY <2>2, <2>3
<1>9. ASSUME i + 1 \in places, NEW k \in 1..n + 1 PROVE f[k] \in places /\ more[k] = s[f[k]]
  BY <1>1, <1>2, <1>7, <1>9
<1>10. n + 1 <= i + 1
  BY <1>1
<1> QED BY <1>2, <1>5, <1>6, <1>8, <1>9, <1>10 DEF Chosen, more

LEMMA KeptPlaces ==
  ASSUME NEW n \in Nat, NEW Rs, NEW s \in [1..n -> Rs], NEW places
  PROVE  /\ J!Kept(s, places) \in Seq(Rs)
         /\ \E e : Chosen(J!Kept(s, places), n, s, places, e)
<1>1. PICK kept : Keeping(s, n, places, Rs, kept) /\ J!Kept(s, places) = kept[n]
  BY KeptIs
<1> DEFINE Good == {i \in Nat : i <= n => \E e : Chosen(kept[i], i, s, places, e)}
<1>2. 0 \in Good
  <2>1. Len(<<>>) = 0 /\ 1..0 = {}
    OBVIOUS
  <2> DEFINE e == [k \in {} |-> k]
  <2>2. e \in [1..0 -> 1..0]
    BY <2>1
  <2>3. Chosen(<<>>, 0, s, places, e)
    BY <2>1, <2>2 DEF Chosen
  <2> QED BY <1>1, <2>3 DEF Keeping
<1>3. ASSUME NEW i \in Nat, i \in Good PROVE i + 1 \in Good
  <2> SUFFICES ASSUME i + 1 <= n PROVE \E e : Chosen(kept[i + 1], i + 1, s, places, e)
    OBVIOUS
  <2>1. i \in 0..n /\ i + 1 \in 1..n /\ (i + 1) - 1 = i
    OBVIOUS
  <2>2. kept[i] \in Seq(Rs) /\ s[i + 1] \in Rs
    BY <1>1, <2>1 DEF Keeping
  <2>3. PICK e : Chosen(kept[i], i, s, places, e)
    BY <1>3, <2>1
  <2>4. kept[i + 1] = IF i + 1 \in places THEN Append(kept[i], s[i + 1]) ELSE kept[i]
    BY <1>1, <2>1 DEF Keeping
  <2>5. /\ Chosen(kept[i], i + 1, s, places, e)
        /\ i + 1 \in places => \E f : Chosen(Append(kept[i], s[i + 1]), i + 1, s, places, f)
    BY <2>2, <2>3, ChosenMore
  <2> QED BY <2>4, <2>5
<1> HIDE DEF Good
<1>4. n \in Good
  BY <1>2, <1>3, EveryNumber
<1>5. kept[n] \in Seq(Rs)
  BY <1>1 DEF Keeping
<1> QED BY <1>1, <1>4, <1>5 DEF Good

-----------------------------------------------------------------------------
(* Readings of a sensor. *)

\* What never falls from one to the next never falls.
LEMMA NeverBelow ==
  ASSUME NEW n \in Nat, NEW f \in [1..n -> Int], \A i \in 1..n - 1 : f[i] <= f[i + 1]
  PROVE  \A i, j \in 1..n : i <= j => f[i] <= f[j]
<1> DEFINE Fine(k) == \A i \in 1..k : f[i] <= f[k]
           Good == {k \in Nat : k \in 1..n => Fine(k)}
<1>1. 0 \in Good
  OBVIOUS
<1>2. ASSUME NEW k \in Nat, k \in Good PROVE k + 1 \in Good
  <2> SUFFICES ASSUME k + 1 \in 1..n PROVE Fine(k + 1)
    OBVIOUS
  <2>1. CASE k = 0
    BY <2>1
  <2>2. CASE k # 0
    <3>1. k \in 1..n /\ k \in 1..n - 1 /\ Fine(k)
      BY <1>2, <2>2
    <3>2. ASSUME NEW i \in 1..k PROVE f[i] <= f[k + 1]
      <4>1. f[k] \in Int /\ f[k + 1] \in Int /\ f[i] \in Int
        BY <3>1
      <4>2. f[i] <= f[k] /\ f[k] <= f[k + 1]
        BY <3>1
      <4> HIDE DEF Fine
      <4> QED BY <4>1, <4>2
    <3>3. f[k + 1] \in Int /\ \A i \in 1..k + 1 : i = k + 1 \/ i \in 1..k
      OBVIOUS
    <3> QED BY <3>2, <3>3
  <2> QED BY <2>1, <2>2
<1> HIDE DEF Good
<1>3. Nat \subseteq Good
  BY <1>1, <1>2, EveryNumber
<1> QED BY <1>3 DEF Good

LEMMA AlwaysAbove ==
  ASSUME NEW n \in Nat, NEW f \in [1..n -> Int], \A i \in 1..n - 1 : f[i] < f[i + 1]
  PROVE  \A i, j \in 1..n : i < j => f[i] < f[j]
<1>1. \A i \in 1..n - 1 : f[i] <= f[i + 1]
  OBVIOUS
<1>2. \A i, j \in 1..n : i <= j => f[i] <= f[j]
  BY <1>1, NeverBelow
<1>3. ASSUME NEW i \in 1..n, NEW j \in 1..n, i < j PROVE f[i] < f[j]
  <2>1. i \in 1..n - 1 /\ i + 1 \in 1..n /\ i + 1 <= j
    BY <1>3
  <2>2. f[i] < f[i + 1] /\ f[i + 1] <= f[j]
    BY <1>2, <2>1
  <2> QED BY <2>1, <2>2
<1> QED BY <1>3

\* Each later than the one before, so than all before.
Rising(n, r) == \A i, j \in 1..n : i < j => r[i].ts < r[j].ts

AreRows(n, said, flags, r) ==
  n \in Nat /\ r \in [1..n -> [ts : Nat, value : said, frozen : flags]] /\ Rising(n, r)

LEMMA RowsAre ==
  ASSUME NEW said, NEW flags, NEW r \in J!Series(said, flags)
  PROVE  \E n \in Nat : AreRows(n, said, flags, r)
<1>1. PICK n \in 0..MaxReadings : \E ts \in J!Ascending(n), data_ \in [1..n -> [value : said, frozen : flags]] :
        r = [i \in 1..n |-> J!Row(ts[i], data_[i])]
  BY DEF J!Series
<1>2. PICK ts \in J!Ascending(n), data_ \in [1..n -> [value : said, frozen : flags]] :
        r = [i \in 1..n |-> J!Row(ts[i], data_[i])]
  BY <1>1
<1>3. n \in Nat /\ MaxTimestamp \in Nat
  BY JudgementsBounds
<1>4. ts \in [1..n -> 0..MaxTimestamp] /\ \A i \in 1..n - 1 : ts[i] < ts[i + 1]
  BY DEF J!Ascending
<1>5. ts \in [1..n -> Int] /\ ts \in [1..n -> Nat]
  BY <1>3, <1>4
<1>6. \A i, j \in 1..n : i < j => ts[i] < ts[j]
  BY <1>3, <1>4, <1>5, AlwaysAbove
<1>7. \A i \in 1..n : r[i] \in [ts : Nat, value : said, frozen : flags] /\ r[i].ts = ts[i]
  BY <1>2, <1>5 DEF J!Row
<1>8. r \in [1..n -> [ts : Nat, value : said, frozen : flags]]
  BY <1>2, <1>7
<1> QED BY <1>3, <1>6, <1>7, <1>8 DEF Rising, AreRows

\* The last of such rows are such rows.
LEMMA RowsFrom ==
  ASSUME NEW n, NEW said, NEW flags, NEW r, AreRows(n, said, flags, r), NEW m \in 0..n
  PROVE  AreRows(n - m, said, flags, [i \in 1..n - m |-> r[m + i]])
<1> DEFINE s == [i \in 1..n - m |-> r[m + i]]
<1>1. n \in Nat /\ m \in Nat /\ n - m \in Nat /\ \A i \in 1..n - m : m + i \in 1..n
  BY DEF AreRows
<1>2. s \in [1..n - m -> [ts : Nat, value : said, frozen : flags]]
  BY <1>1 DEF AreRows
<1>3. ASSUME NEW i \in 1..n - m, NEW j \in 1..n - m, i < j PROVE s[i].ts < s[j].ts
  <2>1. m + i \in 1..n /\ m + j \in 1..n /\ m + i < m + j
    BY <1>1, <1>3
  <2>2. s[i] = r[m + i] /\ s[j] = r[m + j]
    OBVIOUS
  <2> QED BY <2>1, <2>2 DEF AreRows, Rising
<1> HIDE DEF s
<1> QED BY <1>1, <1>2, <1>3 DEF AreRows, Rising, s

LEMMA LastRows ==
  ASSUME NEW n, NEW said, NEW flags, NEW r, AreRows(n, said, flags, r), NEW k \in Nat
  PROVE  LET m == IF k <= n THEN n - k ELSE 0
         IN /\ m \in 0..n
            /\ J!LastOf(r, k) = [i \in 1..n - m |-> r[m + i]]
            /\ AreRows(n - m, said, flags, J!LastOf(r, k))
<1> DEFINE m == IF k <= n THEN n - k ELSE 0
<1>1. n \in Nat /\ Len(r) = n
  BY DEF AreRows
<1>2. m \in 0..n
  BY <1>1
<1>3. J!LastOf(r, k) = [i \in 1..n - m |-> r[m + i]]
  BY <1>1, LastOfIs, ZenonT(30)
<1> HIDE DEF m
<1> QED BY <1>2, <1>3, RowsFrom DEF m

LEMMA LastIs ==
  ASSUME NEW n, NEW said, NEW flags, NEW r, AreRows(n, said, flags, r)
  PROVE  /\ n \in Nat /\ Len(r) = n /\ (r = <<>> <=> n = 0)
         /\ J!Last(r) = r[n]
         /\ n > 0 => r[n].value \in said /\ r[n].ts \in Nat /\ r[n].frozen \in flags
<1>1. n \in Nat /\ Len(r) = n /\ (r = <<>> <=> n = 0)
  BY DEF AreRows
<1>2. J!Last(r) = r[n]
  BY <1>1 DEF J!Last
<1>3. n > 0 => r[n] \in [ts : Nat, value : said, frozen : flags]
  BY <1>1 DEF AreRows
<1> QED BY <1>1, <1>2, <1>3

LEMMA WiderStep == ASSUME J!Next PROVE J!WiderNeverFires'
<1> DEFINE Said_ == Values \cup {Null}
<1>0. ASSUME NEW r \in J!Readings
      PROVE  \E n : AreRows(n, Said_, {FALSE}, J!Snapshot(r))
  <2>1. PICK n \in Nat : AreRows(n, Said_, {FALSE}, r)
    BY RowsAre DEF J!Readings
  <2>2. SNAPSHOT_ROWS_PER_SENSOR \in Nat
    BY JudgementsBounds
  <2> QED BY <2>1, <2>2, LastRows DEF J!Snapshot
<1>1. ASSUME question'.of = "threshold"
      PROVE  \A lo, hi \in Values :
               (/\ question'.lo # Null /\ question'.hi # Null
                /\ lo <= question'.lo /\ hi >= question'.hi /\ ~conclusion'.fired)
               => ~J!Crosses(J!Snapshot(question'.rows), lo, hi)
  <2>1. PICK r \in J!Readings, low \in Said_, high \in Said_ :
          /\ question' = [of |-> "threshold", rows |-> r, lo |-> low, hi |-> high]
          /\ conclusion' = [fired |-> J!Crosses(J!Snapshot(r), low, high)]
    BY <1>1, WhichJudgement DEF J!EvalThresholds, J!Conclude
  <2>2. PICK n : AreRows(n, Said_, {FALSE}, J!Snapshot(r))
    BY <1>0
  <2> DEFINE v == J!Last(J!Snapshot(r)).value
  <2>3. J!Snapshot(r) # <<>> => v \in Said_
    BY <2>2, LastIs
  <2>4. ASSUME NEW lo \in Values, NEW hi \in Values, low # Null, high # Null,
               lo <= low, hi >= high, J!Crosses(J!Snapshot(r), lo, hi)
        PROVE  J!Crosses(J!Snapshot(r), low, high)
    <3>1. J!Snapshot(r) # <<>> /\ v # Null /\ (v < lo \/ v > hi)
      BY <2>4 DEF J!Crosses
    <3> HIDE DEF v
    <3>2. v \in Int /\ lo \in Int /\ hi \in Int /\ low \in Int /\ high \in Int
      BY <2>3, <2>4, <3>1, JudgementsBounds
    <3>3. v < low \/ v > high
      BY <2>4, <3>1, <3>2
    <3> QED BY <2>4, <3>1, <3>3 DEF J!Crosses, v
  <2> QED BY <2>1, <2>4
<1>2. ASSUME question'.of = "rate"
      PROVE  \A rate \in Thresholds :
               (rate >= question'.rate /\ ~conclusion'.fired) => ~J!Jumps(J!Snapshot(question'.rows), rate)
  <2>1. PICK r \in J!Readings, least \in Thresholds :
          /\ question' = [of |-> "rate", rows |-> r, rate |-> least]
          /\ conclusion' = [fired |-> J!Jumps(J!Snapshot(r), least)]
    BY <1>2, WhichJudgement DEF J!EvalRateOfChange, J!Conclude
  <2>2. PICK n : AreRows(n, Said_, {FALSE}, J!Snapshot(r))
    BY <1>0
  <2> DEFINE two == J!LastOf(J!Snapshot(r), 2)
  <2>3. PICK m : AreRows(m, Said_, {FALSE}, two)
    <3>1. 2 \in Nat
      OBVIOUS
    <3> QED BY <2>2, <3>1, LastRows
  <2>4. ASSUME NEW rate \in Thresholds, rate >= least, J!Jumps(J!Snapshot(r), rate)
        PROVE  J!Jumps(J!Snapshot(r), least)
    <3>1. /\ Len(two) = 2 /\ two[1].value # Null /\ two[2].value # Null
          /\ J!Abs(two[2].value - two[1].value) > rate * (two[2].ts - two[1].ts)
      BY <2>4 DEF J!Jumps
    <3> HIDE DEF two
    <3>2. /\ two[1] \in [ts : Nat, value : Said_, frozen : {FALSE}]
          /\ two[2] \in [ts : Nat, value : Said_, frozen : {FALSE}]
          /\ two[1].ts < two[2].ts
      <4>1. m = 2
        BY <2>3, <3>1, LastIs
      <4>2. 1 \in 1..m /\ 2 \in 1..m /\ 1 < 2
        BY <4>1
      <4>3. /\ \A i \in 1..m : two[i] \in [ts : Nat, value : Said_, frozen : {FALSE}]
            /\ \A i, j \in 1..m : i < j => two[i].ts < two[j].ts
        BY <2>3 DEF AreRows, Rising
      <4> QED BY <4>2, <4>3
    <3> DEFINE a == two[2].value - two[1].value  t == two[2].ts - two[1].ts
    <3>3. a \in Int /\ t \in Nat
      <4>1. two[1].value \in Said_ /\ two[2].value \in Said_
        BY <3>2
      <4>2. two[1].value \in Int /\ two[2].value \in Int
        BY <3>1, <4>1, JudgementsBounds
      <4>3. two[1].ts \in Nat /\ two[2].ts \in Nat /\ two[1].ts < two[2].ts
        BY <3>2
      <4> QED BY <4>2, <4>3
    <3>4. J!Abs(a) \in Int /\ rate \in Nat /\ least \in Nat
      BY <3>3, JudgementsBounds DEF J!Abs
    <3> HIDE DEF a, t
    <3>5. J!Abs(a) > rate * t
      BY <3>1 DEF a, t
    <3>6. rate * t >= least * t /\ rate * t \in Nat /\ least * t \in Nat
      BY <2>4, <3>3, <3>4
    <3>7. J!Abs(a) > least * t
      <4> DEFINE x == rate * t  y == least * t  z == J!Abs(a)
      <4>1. x \in Nat /\ y \in Nat /\ z \in Int /\ z > x /\ x >= y
        BY <3>4, <3>5, <3>6
      <4> HIDE DEF x, y, z
      <4>2. z > y
        BY <4>1
      <4> QED BY <4>2 DEF x, y, z
    <3> QED BY <3>1, <3>7 DEF J!Jumps, two, a, t
  <2> QED BY <2>1, <2>4
<1> QED BY <1>1, <1>2 DEF J!WiderNeverFires, J!Asked

-----------------------------------------------------------------------------
(* Tanks: the line through the points. *)

\* A spread changes its sign with either series, does not change when a series
\* is shifted, nor when the two are swapped.
LEMMA SpreadTurns ==
  ASSUME NEW n \in Nat, NEW x \in [1..n -> Int], NEW y \in [1..n -> Int]
  PROVE  J!Spread(x, [i \in 1..n |-> -y[i]]) = -J!Spread(x, y) /\ J!Spread(x, y) \in Int
<1>1. PICK sx, sy, sxy : Series(n, x, y, sx, sy, sxy) /\ J!Spread(x, y) = n * sxy[n] - sx[n] * sy[n]
  BY SpreadIs
<1> DEFINE z == [i \in 1..n |-> -y[i]]
           sz == [i \in 0..n |-> -sy[i]]
           sxz == [i \in 0..n |-> -sxy[i]]
<1>2. /\ sx \in [0..n -> Int] /\ sy \in [0..n -> Int] /\ sxy \in [0..n -> Int]
      /\ sy[0] = 0 /\ sxy[0] = 0
      /\ \A i \in 1..n : sy[i] = sy[i - 1] + y[i] /\ sxy[i] = sxy[i - 1] + x[i] * y[i]
  BY <1>1 DEF Series, Running, Products
<1>3. z \in [1..n -> Int] /\ sz \in [0..n -> Int] /\ sxz \in [0..n -> Int] /\ sz[0] = 0 /\ sxz[0] = 0
  <2>1. \A i \in 0..n : -sy[i] \in Int /\ -sxy[i] \in Int
    BY <1>2
  <2>2. \A i \in 1..n : -y[i] \in Int
    OBVIOUS
  <2>3. sz \in [0..n -> Int]
    BY <2>1
  <2>4. sxz \in [0..n -> Int]
    BY <2>1
  <2>5. z \in [1..n -> Int]
    BY <2>2
  <2>6. 0 \in 0..n /\ \A a \in Int : a = 0 => -a = 0
    OBVIOUS
  <2>7. sz[0] = -sy[0] /\ sxz[0] = -sxy[0]
    BY <2>6
  <2>8. sz[0] = 0 /\ sxz[0] = 0
    <3> HIDE DEF sz, sxz
    <3>1. sy[0] = 0 /\ sxy[0] = 0 /\ sy[0] \in Int /\ sxy[0] \in Int
      BY <1>2
    <3>2. -sy[0] = 0 /\ -sxy[0] = 0
      BY <2>6, <3>1
    <3> QED BY <2>7, <3>2
  <2> QED BY <2>3, <2>4, <2>5, <2>8
<1>4. ASSUME NEW i \in 1..n
      PROVE  sz[i] = sz[i - 1] + z[i] /\ sxz[i] = sxz[i - 1] + x[i] * z[i]
  <2>1. i - 1 \in 0..n /\ i \in 0..n
    OBVIOUS
  <2>2. /\ sy[i - 1] \in Int /\ sxy[i - 1] \in Int /\ x[i] \in Int /\ y[i] \in Int
        /\ sz[i] = -sy[i] /\ sz[i - 1] = -sy[i - 1] /\ z[i] = -y[i]
        /\ sxz[i] = -sxy[i] /\ sxz[i - 1] = -sxy[i - 1]
        /\ sy[i] = sy[i - 1] + y[i] /\ sxy[i] = sxy[i - 1] + x[i] * y[i]
    BY <1>2, <2>1
  <2> HIDE DEF z, sz, sxz
  <2>3. \A a, b \in Int : a * (-b) = -(a * b)
    OBVIOUS
  <2>4. \A a, b \in Int : -(a + b) = -a + -b
    OBVIOUS
  <2>5. sz[i] = sz[i - 1] + z[i]
    BY <2>2, <2>4
  <2>6. x[i] * y[i] \in Int
    BY <2>2
  <2>7. sxz[i] = sxz[i - 1] + -(x[i] * y[i])
    BY <2>2, <2>4, <2>6
  <2>8. x[i] * z[i] = -(x[i] * y[i])
    BY <2>2, <2>3
  <2> QED BY <2>5, <2>7, <2>8
<1> HIDE DEF z, sz, sxz
<1>5. Series(n, x, z, sx, sz, sxz)
  BY <1>1, <1>3, <1>4 DEF Series, Running, Products
<1>6. J!Spread(x, z) = n * sxz[n] - sx[n] * sz[n]
  BY <1>5, SpreadOf
<1>7. sxz[n] = -sxy[n] /\ sz[n] = -sy[n] /\ sx[n] \in Int /\ sy[n] \in Int /\ sxy[n] \in Int
  BY <1>2 DEF sz, sxz
<1>8. \A a, b, c \in Int : n * (-a) - b * (-c) = -(n * a - b * c) /\ n * a - b * c \in Int
  OBVIOUS
<1> QED BY <1>1, <1>6, <1>7, <1>8 DEF z

LEMMA SpreadSwaps ==
  ASSUME NEW n \in Nat, NEW x \in [1..n -> Int], NEW y \in [1..n -> Int]
  PROVE  J!Spread(x, y) = J!Spread(y, x)
<1>1. PICK sx, sy, sxy : Series(n, x, y, sx, sy, sxy) /\ J!Spread(x, y) = n * sxy[n] - sx[n] * sy[n]
  BY SpreadIs
<1>2. Products(x, y, n) = Products(y, x, n)
  BY DEF Products
<1>3. Series(n, y, x, sy, sx, sxy)
  BY <1>1, <1>2 DEF Series
<1>4. J!Spread(y, x) = n * sxy[n] - sy[n] * sx[n]
  BY <1>3, SpreadOf
<1>5. sx[n] \in Int /\ sy[n] \in Int
  BY <1>1 DEF Series, Running
<1> QED BY <1>1, <1>4, <1>5

LEMMA SpreadShifts ==
  ASSUME NEW n \in Nat, NEW x \in [1..n -> Int], NEW y \in [1..n -> Int], NEW c \in Int
  PROVE  J!Spread([i \in 1..n |-> x[i] + c], y) = J!Spread(x, y)
<1>1. PICK sx, sy, sxy : Series(n, x, y, sx, sy, sxy) /\ J!Spread(x, y) = n * sxy[n] - sx[n] * sy[n]
  BY SpreadIs
<1> DEFINE z == [i \in 1..n |-> x[i] + c]
           sz == [i \in 0..n |-> sx[i] + i * c]
           szy == [i \in 0..n |-> sxy[i] + c * sy[i]]
<1>2. /\ sx \in [0..n -> Int] /\ sy \in [0..n -> Int] /\ sxy \in [0..n -> Int]
      /\ sx[0] = 0 /\ sy[0] = 0 /\ sxy[0] = 0
      /\ \A i \in 1..n : sx[i] = sx[i - 1] + x[i] /\ sy[i] = sy[i - 1] + y[i] /\ sxy[i] = sxy[i - 1] + x[i] * y[i]
  BY <1>1 DEF Series, Running, Products
<1>3. z \in [1..n -> Int] /\ sz \in [0..n -> Int] /\ szy \in [0..n -> Int] /\ sz[0] = 0 /\ szy[0] = 0
  <2>1. \A i \in 0..n : sx[i] + i * c \in Int /\ sxy[i] + c * sy[i] \in Int
    BY <1>2
  <2>2. sz \in [0..n -> Int] /\ szy \in [0..n -> Int] /\ z \in [1..n -> Int]
    <3>1. sz \in [0..n -> Int]
      BY <2>1
    <3>2. szy \in [0..n -> Int]
      BY <2>1
    <3>3. \A i \in 1..n : x[i] + c \in Int
      OBVIOUS
    <3>4. z \in [1..n -> Int]
      BY <3>3
    <3> QED BY <3>1, <3>2, <3>4
  <2>3. sx[0] + 0 * c = 0 /\ sxy[0] + c * sy[0] = 0
    BY <1>2
  <2>4. 0 \in 0..n
    OBVIOUS
  <2> QED BY <2>2, <2>3, <2>4
<1>4. ASSUME NEW i \in 1..n
      PROVE  sz[i] = sz[i - 1] + z[i] /\ szy[i] = szy[i - 1] + z[i] * y[i]
  <2>1. i - 1 \in 0..n /\ i \in 0..n /\ i \in Int
    OBVIOUS
  <2>2. /\ sx[i - 1] \in Int /\ sy[i - 1] \in Int /\ sxy[i - 1] \in Int /\ x[i] \in Int /\ y[i] \in Int
        /\ sz[i] = sx[i] + i * c /\ sz[i - 1] = sx[i - 1] + (i - 1) * c /\ z[i] = x[i] + c
        /\ szy[i] = sxy[i] + c * sy[i] /\ szy[i - 1] = sxy[i - 1] + c * sy[i - 1]
        /\ sx[i] = sx[i - 1] + x[i] /\ sy[i] = sy[i - 1] + y[i] /\ sxy[i] = sxy[i - 1] + x[i] * y[i]
    BY <1>2, <2>1
  <2> HIDE DEF z, sz, szy
  <2>3. ASSUME NEW a \in Int, NEW b \in Int
        PROVE  (a + b) + i * c = (a + (i - 1) * c) + (b + c)
    BY <2>1
  <2>5. (sx[i - 1] + x[i]) + i * c = (sx[i - 1] + (i - 1) * c) + (x[i] + c)
    BY <2>2, <2>3, Zenon
  <2>6. (sxy[i - 1] + x[i] * y[i]) + c * (sy[i - 1] + y[i])
          = (sxy[i - 1] + c * sy[i - 1]) + (x[i] + c) * y[i]
    <3> DEFINE a == sxy[i - 1]  b == sy[i - 1]  d == x[i]  e == y[i]
    <3>1. a \in Int /\ b \in Int /\ d \in Int /\ e \in Int
      BY <2>2
    <3> HIDE DEF a, b, d, e
    <3>2. (a + d * e) + c * (b + e) = (a + c * b) + (d + c) * e
      BY <3>1
    <3> QED BY <3>2 DEF a, b, d, e
  <2> QED BY <2>2, <2>5, <2>6, Zenon
<1> HIDE DEF z, sz, szy
<1>5. Series(n, z, y, sz, sy, szy)
  BY <1>1, <1>3, <1>4 DEF Series, Running, Products
<1>6. J!Spread(z, y) = n * szy[n] - sz[n] * sy[n]
  BY <1>5, SpreadOf
<1>7. /\ szy[n] = sxy[n] + c * sy[n] /\ sz[n] = sx[n] + n * c
      /\ sx[n] \in Int /\ sy[n] \in Int /\ sxy[n] \in Int
  BY <1>2 DEF sz, szy
<1>8. \A a, b, d \in Int : n * (a + c * b) - (d + n * c) * b = n * a - d * b
  OBVIOUS
<1>9. n * (sxy[n] + c * sy[n]) - (sx[n] + n * c) * sy[n] = n * sxy[n] - sx[n] * sy[n]
  BY <1>7, <1>8, Zenon
<1> QED BY <1>1, <1>6, <1>7, <1>9, Zenon DEF z

\* Readings that say something, each later than the one before.
ArePoints(n, p) == n \in Nat /\ p \in [1..n -> [ts : Int, value : Int, frozen : {FALSE}]] /\ Rising(n, p)

LEMMA PointsAre ==
  ASSUME NEW r \in J!Readings
  PROVE  \E n : ArePoints(n, J!Points(r))
<1> DEFINE Said_ == Values \cup {Null}
           Rs == [ts : Nat, value : Said_, frozen : {FALSE}]
           places == {i \in DOMAIN r : r[i].value # Null}
           p == J!Points(r)  n == Len(p)
<1>1. PICK m \in Nat : AreRows(m, Said_, {FALSE}, r)
  BY RowsAre DEF J!Readings
<1>2. m \in Nat /\ r \in [1..m -> Rs] /\ Rising(m, r)
  BY <1>1 DEF AreRows
<1>3. p = J!Kept(r, places)
  BY DEF J!Points
<1> HIDE DEF places, p
<1>4. p \in Seq(Rs) /\ \E e : Chosen(p, m, r, places, e)
  BY <1>2, <1>3, KeptPlaces
<1>5. PICK e : Chosen(p, m, r, places, e)
  BY <1>4
<1>6. /\ e \in [1..n -> 1..m] /\ \A j, k \in 1..n : j < k => e[j] < e[k]
      /\ \A k \in 1..n : e[k] \in places /\ p[k] = r[e[k]]
  BY <1>5 DEF Chosen
<1>7. n \in Nat /\ p = [k \in 1..n |-> p[k]]
  BY <1>4
<1> HIDE DEF n
<1>8. ASSUME NEW k \in 1..n PROVE p[k] \in [ts : Int, value : Int, frozen : {FALSE}]
  <2>1. e[k] \in 1..m /\ e[k] \in places /\ p[k] = r[e[k]]
    BY <1>6
  <2>2. r[e[k]] \in Rs /\ r[e[k]].value # Null
    BY <1>2, <2>1 DEF places
  <2> DEFINE q == r[e[k]]
  <2>3. q \in [ts : Nat, value : Said_, frozen : {FALSE}] /\ q.value # Null
    BY <2>2
  <2> HIDE DEF q
  <2>4. q.value \in Int
    BY <2>3, JudgementsBounds
  <2> DEFINE Flags == {FALSE}
  <2>5. q \in [ts : Nat, value : Said_, frozen : Flags]
    BY <2>3
  <2>6. q \in [ts : Int, value : Int, frozen : Flags]
    <3> HIDE DEF Flags
    <3> QED BY <2>4, <2>5
  <2> QED BY <2>1, <2>6 DEF q
<1>9. Rising(n, p)
  <2>1. ASSUME NEW j \in 1..n, NEW k \in 1..n, j < k PROVE p[j].ts < p[k].ts
    <3>1. e[j] \in 1..m /\ e[k] \in 1..m /\ e[j] < e[k] /\ p[j] = r[e[j]] /\ p[k] = r[e[k]]
      BY <1>6, <2>1
    <3> QED BY <1>2, <3>1 DEF Rising
  <2> QED BY <2>1 DEF Rising
<1>10. p \in [1..n -> [ts : Int, value : Int, frozen : {FALSE}]]
  BY <1>7, <1>8
<1> QED BY <1>7, <1>9, <1>10 DEF ArePoints, p

LEMMA PointsStay ==
  ASSUME NEW n, NEW p, ArePoints(n, p)
  PROVE  J!Points(p) = p
<1> DEFINE Rs == [ts : Int, value : Int, frozen : {FALSE}]
           places == {i \in DOMAIN p : p[i].value # Null}
<1>1. n \in Nat /\ p \in [1..n -> Rs]
  BY DEF ArePoints
<1>2. \A i \in 1..n : i \in places <=> 1 <= i
  <2> TAKE i \in 1..n
  <2>1. p[i] \in Rs
    BY <1>1
  <2>2. p[i].value \in Int
    BY <2>1
  <2>3. p[i].value # Null
    BY <2>2, JudgementsBounds
  <2> QED BY <1>1, <2>3
<1>3. J!Points(p) = J!Kept(p, places)
  BY DEF J!Points
<1> HIDE DEF places, Rs
<1>8. 1 \in 1..n + 1
  BY <1>1
<1>4. J!Kept(p, places) = [k \in 1..n - 1 + 1 |-> p[1 - 1 + k]]
  <2>1. PlacesFrom(n, Rs, p, places, 1)
    BY <1>1, <1>2, <1>8 DEF PlacesFrom
  <2> QED BY <2>1, KeptFrom
<1>5. n - 1 + 1 = n /\ \A k \in 1..n : 1 - 1 + k = k
  BY <1>1
<1>6. [k \in 1..n - 1 + 1 |-> p[1 - 1 + k]] = [k \in 1..n |-> p[k]]
  BY <1>5
<1>7. p = [k \in 1..n |-> p[k]]
  BY <1>1
<1> QED BY <1>3, <1>4, <1>6, <1>7

Times(n, p) == [i \in 1..n |-> p[i].ts]
Levels(n, p) == [i \in 1..n |-> p[i].value]

LEMMA SlopeIs ==
  ASSUME NEW n, NEW p, ArePoints(n, p)
  PROVE  /\ n \in Nat /\ Len(p) = n
         /\ Times(n, p) \in [1..n -> Int] /\ Levels(n, p) \in [1..n -> Int]
         /\ \A i, j \in 1..n : i < j => Times(n, p)[i] < Times(n, p)[j]
         /\ J!Slope(p) = [num |-> J!Spread(Times(n, p), Levels(n, p)),
                          den |-> J!Spread(Times(n, p), Times(n, p))]
<1> DEFINE Rs == [ts : Int, value : Int, frozen : {FALSE}]
<1>5. n \in Nat /\ p \in [1..n -> Rs]
  BY DEF ArePoints
<1>1. n \in Nat /\ Len(p) = n /\ \A i \in 1..n : p[i] \in Rs
  <2> HIDE DEF Rs
  <2> QED BY <1>5
<1>2. \A i \in 1..n : p[i].ts \in Int /\ p[i].value \in Int
  BY <1>1
<1>3. Times(n, p) \in [1..n -> Int] /\ Levels(n, p) \in [1..n -> Int]
  BY <1>2 DEF Times, Levels
<1>4. \A i, j \in 1..n : i < j => Times(n, p)[i] < Times(n, p)[j]
  BY DEF Times, ArePoints, Rising
<1> QED BY <1>1, <1>3, <1>4 DEF J!Slope, Times, Levels

\* What rises with time has a slope that is not negative, what falls one that is.
LEMMA SlopeSign ==
  ASSUME NEW n, NEW p, ArePoints(n, p), n >= 2
  PROVE  /\ J!Slope(p).den > 0 /\ J!Slope(p).den \in Nat /\ J!Slope(p).num \in Int
         /\ (\A i \in 1..n - 1 : p[i].value <= p[i + 1].value) => J!Slope(p).num >= 0
         /\ (/\ \A i \in 1..n - 1 : p[i].value >= p[i + 1].value
             /\ ~\A i \in 1..n - 1 : p[i].value <= p[i + 1].value)
              => J!Slope(p).num < 0
<1> DEFINE x == Times(n, p)  y == Levels(n, p)  z == [i \in 1..n |-> -y[i]]
<1>1. /\ n \in Nat /\ x \in [1..n -> Int] /\ y \in [1..n -> Int]
      /\ \A i, j \in 1..n : i < j => x[i] < x[j]
      /\ J!Slope(p).num = J!Spread(x, y) /\ J!Slope(p).den = J!Spread(x, x)
  BY SlopeIs
<1>2. \A i \in 1..n : y[i] = p[i].value
  BY DEF Levels
<1> HIDE DEF x, y
<1>3. z \in [1..n -> Int] /\ \A i \in 1..n : z[i] = -y[i] /\ z[i] \in Int /\ y[i] \in Int /\ x[i] \in Int
  BY <1>1
<1>4. J!Spread(x, z) = -J!Spread(x, y) /\ J!Spread(x, y) \in Int
  BY <1>1, SpreadTurns
<1> HIDE DEF z
<1>5. ASSUME NEW w \in [1..n -> Int], \A i, j \in 1..n : i <= j => w[i] <= w[j]
      PROVE  /\ J!Spread(x, w) \in Nat
             /\ (\E i, j \in 1..n : i < j /\ w[i] < w[j]) => J!Spread(x, w) > 0
  <2>1. PICK sx, sw, sxw : Series(n, x, w, sx, sw, sxw) /\ J!Spread(x, w) = n * sxw[n] - sx[n] * sw[n]
    BY <1>1, SpreadIs
  <2>2. ASSUME NEW i \in 1..n, NEW j \in 1..n, i < j
        PROVE  /\ (x[j] - x[i]) * (w[j] - w[i]) >= 0
               /\ w[i] < w[j] => (x[j] - x[i]) * (w[j] - w[i]) > 0
    <3> DEFINE a == x[j] - x[i]  b == w[j] - w[i]
    <3>1. x[i] < x[j] /\ x[i] \in Int /\ x[j] \in Int
      BY <1>1, <1>3, <2>2
    <3>2. w[i] <= w[j] /\ w[i] \in Int /\ w[j] \in Int
      BY <1>5, <2>2
    <3>3. a \in Int /\ b \in Int /\ a > 0 /\ b >= 0 /\ (w[i] < w[j] => b > 0)
      BY <3>1, <3>2
    <3> HIDE DEF a, b
    <3>4. a * b >= 0 /\ (b > 0 => a * b > 0)
      BY <3>3
    <3> QED BY <3>3, <3>4 DEF a, b
  <2>3. n \in 0..n
    BY <1>1
  <2>4. /\ SpreadTo(n, sx, sw, sxw) \in Nat
        /\ (\E i, j \in 1..n : i < j /\ (x[j] - x[i]) * (w[j] - w[i]) > 0)
             => SpreadTo(n, sx, sw, sxw) > 0
    BY <2>1, <2>2, <2>3, SpreadSign
  <2> QED BY <2>1, <2>2, <2>4 DEF SpreadTo
<1>6. J!Spread(x, x) \in Nat /\ J!Spread(x, x) > 0
  <2>1. \A i, j \in 1..n : i <= j => x[i] <= x[j]
    <3> TAKE i, j \in 1..n
    <3>1. x[i] \in Int /\ x[j] \in Int
      BY <1>3
    <3>2. CASE i = j
      BY <3>1, <3>2
    <3>3. CASE i # j
      BY <1>1, <3>1, <3>3
    <3> QED BY <3>2, <3>3
  <2>2. 1 \in 1..n /\ 2 \in 1..n /\ 1 < 2
    BY <1>1
  <2>3. \E i, j \in 1..n : i < j /\ x[i] < x[j]
    BY <1>1, <2>2
  <2> QED BY <1>1, <1>5, <2>1, <2>3
<1>7. ASSUME \A i \in 1..n - 1 : p[i].value <= p[i + 1].value
      PROVE  J!Spread(x, y) >= 0
  <2>1. \A i \in 1..n - 1 : i \in 1..n /\ i + 1 \in 1..n
    BY <1>1
  <2>2. \A i \in 1..n - 1 : y[i] <= y[i + 1]
    BY <1>2, <1>7, <2>1
  <2>3. \A i, j \in 1..n : i <= j => y[i] <= y[j]
    BY <1>1, <2>2, NeverBelow
  <2>4. J!Spread(x, y) \in Nat
    BY <1>1, <1>5, <2>3
  <2> QED BY <2>4
<1>8. ASSUME \A i \in 1..n - 1 : p[i].value >= p[i + 1].value,
             ~\A i \in 1..n - 1 : p[i].value <= p[i + 1].value
      PROVE  J!Spread(x, y) < 0
  <2>1. \A i \in 1..n - 1 : i \in 1..n /\ i + 1 \in 1..n /\ i < i + 1
    BY <1>1
  <2>2. \A i \in 1..n - 1 : z[i] <= z[i + 1]
    <3> TAKE i \in 1..n - 1
    <3>1. y[i] >= y[i + 1]
      BY <1>2, <1>8, <2>1
    <3> QED BY <1>3, <2>1, <3>1
  <2>3. \A i, j \in 1..n : i <= j => z[i] <= z[j]
    BY <1>1, <1>3, <2>2, NeverBelow
  <2>4. \E i, j \in 1..n : i < j /\ z[i] < z[j]
    <3>1. PICK i \in 1..n - 1 : ~(p[i].value <= p[i + 1].value)
      BY <1>8
    <3>2. ~(y[i] <= y[i + 1])
      BY <1>2, <2>1, <3>1
    <3>3. z[i] < z[i + 1]
      BY <1>3, <2>1, <3>2
    <3> QED BY <2>1, <3>3
  <2>5. J!Spread(x, z) > 0
    BY <1>3, <1>5, <2>3, <2>4
  <2> QED BY <1>4, <2>5
<1> QED BY <1>1, <1>4, <1>6, <1>7, <1>8

\* What is concluded from the points.
Burning(p) ==
  IF Len(p) < 3 THEN [reason |-> "insufficient_data"]
  ELSE IF J!Slope(p).den = 0 THEN [reason |-> "insufficient_data"]
  ELSE IF J!Slope(p).num >= 0 THEN [reason |-> "not_draining"]
  ELSE [reason |-> Null, num |-> J!Last(p).value * J!Slope(p).den, den |-> -J!Slope(p).num]

\* It does not depend on what times are counted from.
LEMMA BurningShifts ==
  ASSUME NEW n, NEW p, ArePoints(n, p), n >= 3, NEW c \in Int
  PROVE  J!BurnRate([i \in 1..n |-> [p[i] EXCEPT !.ts = @ + c]]) = Burning(p)
<1> DEFINE Flags == {FALSE}
           q == [i \in 1..n |-> [p[i] EXCEPT !.ts = @ + c]]
           x == Times(n, p)  y == Levels(n, p)  z == [i \in 1..n |-> x[i] + c]
<1>1. n \in Nat /\ p \in [1..n -> [ts : Int, value : Int, frozen : Flags]] /\ Rising(n, p)
  BY DEF ArePoints
<1> HIDE DEF Flags
<1>2. ASSUME NEW i \in 1..n
      PROVE  /\ q[i] \in [ts : Int, value : Int, frozen : Flags]
             /\ q[i].ts = p[i].ts + c /\ q[i].value = p[i].value /\ p[i].ts \in Int
  <2> DEFINE a == p[i]
  <2>1. a \in [ts : Int, value : Int, frozen : Flags] /\ q[i] = [a EXCEPT !.ts = @ + c]
    BY <1>1
  <2> HIDE DEF a
  <2>2. a.ts \in Int /\ a.ts + c \in Int
    BY <2>1
  <2>3. [a EXCEPT !.ts = @ + c] = [ts |-> a.ts + c, value |-> a.value, frozen |-> a.frozen]
    BY <2>1
  <2> QED BY <2>1, <2>2, <2>3 DEF a
<1>3. q \in [1..n -> [ts : Int, value : Int, frozen : Flags]]
  BY <1>2
<1> HIDE DEF q
<1>4. ASSUME NEW i \in 1..n, NEW j \in 1..n, i < j PROVE q[i].ts < q[j].ts
  <2>1. p[i].ts < p[j].ts
    BY <1>1, <1>4 DEF Rising
  <2> QED BY <1>2, <2>1
<1>5. ArePoints(n, q)
  BY <1>1, <1>3, <1>4 DEF ArePoints, Rising, Flags
<1>6. J!BurnRate(q) = Burning(q)
  BY <1>5, PointsStay DEF J!BurnRate, Burning
<1>7. Times(n, q) = z /\ Levels(n, q) = y
  BY <1>2 DEF Times, Levels
<1>8. /\ x \in [1..n -> Int] /\ y \in [1..n -> Int] /\ Len(p) = n
      /\ J!Slope(p) = [num |-> J!Spread(x, y), den |-> J!Spread(x, x)]
  BY SlopeIs
<1>9. Len(q) = n /\ J!Slope(q) = [num |-> J!Spread(z, y), den |-> J!Spread(z, z)]
  BY <1>5, <1>7, SlopeIs
<1> HIDE DEF x, y
<1>10. z \in [1..n -> Int]
  BY <1>8
<1>11. J!Spread(z, y) = J!Spread(x, y) /\ J!Spread(z, x) = J!Spread(x, x)
  BY <1>1, <1>8, SpreadShifts
<1>12. J!Spread(z, z) = J!Spread(x, z)
  BY <1>1, <1>8, <1>10, SpreadShifts
<1> HIDE DEF z
<1>13. J!Spread(x, z) = J!Spread(z, x)
  BY <1>1, <1>8, <1>10, SpreadSwaps
<1>14. J!Slope(q) = J!Slope(p)
  BY <1>8, <1>9, <1>11, <1>12, <1>13
<1>15. J!Last(q).value = J!Last(p).value
  BY <1>1, <1>2, <1>8, <1>9 DEF J!Last
<1> QED BY <1>6, <1>8, <1>9, <1>14, <1>15 DEF Burning, q

LEMMA DrainStep == ASSUME J!Next PROVE J!DrainingIsSeen'
<1> SUFFICES ASSUME question'.of = "tank" PROVE J!DrainingIsSeen'
  BY DEF J!DrainingIsSeen, J!Asked
<1>1. PICK r \in J!Readings :
        /\ question' = [of |-> "tank", rows |-> r]
        /\ conclusion' = J!BurnRate(r)
  BY WhichJudgement DEF J!GetBurnRate, J!Conclude
<1> DEFINE p == J!Points(r)  n == Len(p)
           NeverFalls == \A i \in 1..n - 1 : p[i].value <= p[i + 1].value
           NeverRises == \A i \in 1..n - 1 : p[i].value >= p[i + 1].value
<1>2. PICK m : ArePoints(m, p)
  BY PointsAre
<1>3. conclusion' = Burning(p)
  BY <1>1 DEF J!BurnRate, Burning
<1> HIDE DEF p
<1>4. n \in Nat /\ ArePoints(n, p)
  <2>1. m \in Nat /\ Len(p) = m
    BY <1>2, SlopeIs
  <2> QED BY <1>2, <2>1
<1>5. ASSUME n >= 3
      PROVE  /\ NeverFalls => conclusion'.reason = "not_draining"
             /\ (NeverRises /\ ~NeverFalls) =>
                  conclusion'.reason = Null /\ (p[n].value >= 0 => conclusion'.num >= 0)
             /\ J!BurnRate([i \in 1..n |-> [p[i] EXCEPT !.ts = @ + 7]]) = conclusion'
  <2> DEFINE num == J!Slope(p).num  den == J!Slope(p).den
  <2>1. /\ den > 0 /\ den \in Nat /\ num \in Int
        /\ NeverFalls => num >= 0
        /\ NeverRises /\ ~NeverFalls => num < 0
    <3>1. n >= 2
      BY <1>4, <1>5
    <3> HIDE DEF n
    <3> QED BY <1>4, <3>1, SlopeSign
  <2> DEFINE level == p[n].value
  <2>2. level \in Int
    <3>1. n \in 1..n
      BY <1>4, <1>5
    <3>2. p[n] \in [ts : Int, value : Int, frozen : {FALSE}]
      BY <1>4, <3>1 DEF ArePoints
    <3> QED BY <3>2
  <2>3. J!Last(p).value = level
    BY DEF J!Last
  <2>4. conclusion' = IF num >= 0 THEN [reason |-> "not_draining"]
                      ELSE [reason |-> Null, num |-> level * den, den |-> -num]
    <3>1. ~(n < 3) /\ ~(den = 0)
      BY <1>4, <1>5, <2>1
    <3> QED BY <1>3, <2>3, <3>1 DEF Burning
  <2>5. J!BurnRate([i \in 1..n |-> [p[i] EXCEPT !.ts = @ + 7]]) = conclusion'
    BY <1>3, <1>4, <1>5, BurningShifts, 7 \in Int
  <2> HIDE DEF num, den, level, NeverFalls, NeverRises
  <2>6. NeverFalls => conclusion'.reason = "not_draining"
    BY <2>1, <2>4
  <2>7. ASSUME NeverRises, ~NeverFalls
        PROVE  conclusion'.reason = Null /\ (level >= 0 => conclusion'.num >= 0)
    <3>1. conclusion' = [reason |-> Null, num |-> level * den, den |-> -num]
      BY <2>1, <2>4, <2>7
    <3>2. level >= 0 => level * den >= 0
      BY <2>1, <2>2
    <3> QED BY <3>1, <3>2
  <2> QED BY <2>5, <2>6, <2>7 DEF level
<1>6. question'.rows = r
  BY <1>1
<1> QED BY <1>5, <1>6 DEF J!DrainingIsSeen, p

-----------------------------------------------------------------------------
(* Metrics. *)

\* Numbers have a least and a greatest.
LEMMA Extremes ==
  ASSUME NEW n \in Nat, n >= 1, NEW v \in [1..n -> Int]
  PROVE  \E i, j \in 1..n : \A k \in 1..n : v[i] <= v[k] /\ v[k] <= v[j]
<1> DEFINE Between(m, i, j) == \A k \in 1..m : v[i] <= v[k] /\ v[k] <= v[j]
           Good == {m \in Nat : m \in 1..n => \E i, j \in 1..m : Between(m, i, j)}
<1>1. 0 \in Good
  OBVIOUS
<1>2. ASSUME NEW m \in Nat, m \in Good PROVE m + 1 \in Good
  <2> SUFFICES ASSUME m + 1 \in 1..n PROVE \E i, j \in 1..m + 1 : Between(m + 1, i, j)
    OBVIOUS
  <2>1. CASE m = 0
    <3>1. \A k \in 1..m + 1 : k = 1
      BY <2>1
    <3>2. 1 \in 1..n /\ 1 \in 1..m + 1
      BY <2>1
    <3>3. v[1] \in Int
      BY <3>2
    <3>4. Between(m + 1, 1, 1)
      BY <3>1, <3>3
    <3> HIDE DEF Between
    <3> QED BY <3>2, <3>4
  <2>2. CASE m # 0
    <3>1. PICK i \in 1..m, j \in 1..m : Between(m, i, j)
      BY <1>2, <2>2
    <3>2. \A k \in 1..m + 1 : k = m + 1 \/ k \in 1..m
      OBVIOUS
    <3>3. i \in 1..n /\ j \in 1..n /\ i \in 1..m + 1 /\ j \in 1..m + 1 /\ m + 1 \in 1..m + 1
      OBVIOUS
    <3> DEFINE a == IF v[m + 1] <= v[i] THEN m + 1 ELSE i
               b == IF v[m + 1] >= v[j] THEN m + 1 ELSE j
    <3>4. a \in 1..m + 1 /\ b \in 1..m + 1
      BY <3>3
    <3>5. /\ v[a] <= v[m + 1] /\ v[m + 1] <= v[b] /\ v[a] <= v[i] /\ v[j] <= v[b]
          /\ v[a] \in Int /\ v[b] \in Int /\ v[i] \in Int /\ v[j] \in Int
      <4>1. v[i] \in Int /\ v[j] \in Int /\ v[m + 1] \in Int
        BY <3>3
      <4> QED BY <4>1
    <3> HIDE DEF a, b
    <3>6. Between(m + 1, a, b)
      <4>1. ASSUME NEW k \in 1..m PROVE v[a] <= v[k] /\ v[k] <= v[b]
        <5>1. v[k] \in Int /\ v[i] <= v[k] /\ v[k] <= v[j]
          BY <3>1
        <5>2. \A p, q, t \in Int : p <= q /\ q <= t => p <= t
          OBVIOUS
        <5>3. v[a] <= v[k]
          BY <3>5, <5>1, <5>2
        <5>4. v[k] <= v[b]
          BY <3>5, <5>1, <5>2
        <5> QED BY <5>3, <5>4
      <4> QED BY <3>2, <3>5, <4>1
    <3> HIDE DEF Between
    <3> QED BY <3>4, <3>6
  <2> QED BY <2>1, <2>2
<1> HIDE DEF Good
<1>3. n \in Good
  BY <1>1, <1>2, EveryNumber
<1> QED BY <1>3 DEF Good

\* A sum of n terms lies between n times bounds of them.
LEMMA SumBetween ==
  ASSUME NEW n \in Nat, NEW v \in [1..n -> Int], NEW lo \in Int, NEW hi \in Int,
         \A k \in 1..n : lo <= v[k] /\ v[k] <= hi
  PROVE  lo * n <= J!Sum(v) /\ J!Sum(v) <= hi * n
<1>1. PICK p : Running(v, n, p) /\ J!Sum(v) = p[n]
  <2>1. Len(v) = n /\ \A i \in 1..n : v[i] \in Int
    OBVIOUS
  <2> QED BY <2>1, SumIs
<1> DEFINE Fine(k) == lo * k <= p[k] /\ p[k] <= hi * k
           Good == {k \in Nat : k <= n => Fine(k)}
<1>2. 0 \in Good
  BY <1>1 DEF Running
<1>3. ASSUME NEW k \in Nat, k \in Good PROVE k + 1 \in Good
  <2> SUFFICES ASSUME k + 1 <= n PROVE Fine(k + 1)
    OBVIOUS
  <2>1. Fine(k) /\ k \in 0..n /\ k + 1 \in 1..n /\ (k + 1) - 1 = k
    BY <1>3
  <2>2. p[k] \in Int /\ v[k + 1] \in Int /\ p[k + 1] = p[k] + v[k + 1] /\ lo <= v[k + 1] /\ v[k + 1] <= hi
    BY <1>1, <2>1 DEF Running
  <2>3. lo * (k + 1) = lo * k + lo /\ hi * (k + 1) = hi * k + hi /\ lo * k \in Int /\ hi * k \in Int
    OBVIOUS
  <2> DEFINE a == lo * k  b == hi * k
  <2>4. a <= p[k] /\ p[k] <= b /\ a \in Int /\ b \in Int
    BY <2>1, <2>3
  <2> HIDE DEF a, b, Fine
  <2>5. a + lo <= p[k] + v[k + 1] /\ p[k] + v[k + 1] <= b + hi
    BY <2>2, <2>4
  <2> QED BY <2>2, <2>3, <2>5 DEF a, b, Fine
<1> HIDE DEF Good
<1>4. n \in Good
  BY <1>2, <1>3, EveryNumber
<1> QED BY <1>1, <1>4 DEF Good

LEMMA AggregateIs ==
  ASSUME NEW rows_ \in J!Samples, J!Aggregate(rows_).min # Null
  PROVE  LET a == J!Aggregate(rows_)
         IN a.min * a.valued <= a.sum /\ a.sum <= a.max * a.valued /\ a.valued <= a.sample_count
<1> DEFINE Said_ == Values \cup {Null}
           places == {i \in DOMAIN rows_ : rows_[i] # Null}
           v == J!Kept(rows_, places)  k == Len(v)
           a == J!Aggregate(rows_)
<1>1. PICK n \in Nat : rows_ \in [1..n -> Said_]
  BY JudgementsBounds DEF J!Samples
<1>2. v \in Seq(Said_) /\ \E e : Chosen(v, n, rows_, places, e)
  BY <1>1, KeptPlaces
<1>3. PICK e : Chosen(v, n, rows_, places, e)
  BY <1>2
<1>4. /\ a.sum = J!Sum(v) /\ a.valued = k /\ a.sample_count = Len(rows_) /\ v # <<>>
      /\ a.min = J!Min(J!ToSet(v)) /\ a.max = J!Max(J!ToSet(v))
  BY DEF J!Aggregate
<1> HIDE DEF v, a
<1>5. k \in Nat /\ k <= n /\ Len(rows_) = n /\ k >= 1
  BY <1>1, <1>2, <1>3, <1>4 DEF Chosen
<1>6. ASSUME NEW i \in 1..k PROVE v[i] \in Int
  <2>1. e[i] \in places /\ v[i] = rows_[e[i]] /\ e[i] \in 1..n
    BY <1>3 DEF Chosen
  <2>2. v[i] # Null /\ v[i] \in Said_
    BY <1>1, <2>1
  <2> QED BY <2>2, JudgementsBounds
<1>7. v \in [1..k -> Int]
  <2>1. v = [i \in 1..k |-> v[i]]
    BY <1>2
  <2> QED BY <1>6, <2>1
<1>8. J!ToSet(v) = {v[i] : i \in 1..k}
  BY <1>7 DEF J!ToSet
<1> HIDE DEF k
<1>9. PICK i \in 1..k, j \in 1..k : \A m \in 1..k : v[i] <= v[m] /\ v[m] <= v[j]
  BY <1>5, <1>7, Extremes
<1> DEFINE lo == J!Min(J!ToSet(v))  hi == J!Max(J!ToSet(v))
<1>10. lo \in J!ToSet(v) /\ \A y \in J!ToSet(v) : lo <= y
  <2>1. v[i] \in J!ToSet(v) /\ \A y \in J!ToSet(v) : v[i] <= y
    BY <1>8, <1>9
  <2> QED BY <2>1 DEF J!Min
<1>11. hi \in J!ToSet(v) /\ \A y \in J!ToSet(v) : hi >= y
  <2>1. v[j] \in J!ToSet(v) /\ \A y \in J!ToSet(v) : v[j] >= y
    BY <1>6, <1>8, <1>9
  <2> QED BY <2>1 DEF J!Max
<1> HIDE DEF lo, hi
<1>12. lo \in Int /\ hi \in Int /\ \A m \in 1..k : lo <= v[m] /\ v[m] <= hi
  BY <1>6, <1>8, <1>10, <1>11
<1>13. lo * k <= J!Sum(v) /\ J!Sum(v) <= hi * k
  BY <1>5, <1>7, <1>12, SumBetween
<1> QED BY <1>4, <1>5, <1>13 DEF lo, hi, a

LEMMA MetricStep == ASSUME J!Next PROVE J!MetricsAreOfRows'
<1> SUFFICES ASSUME question'.of = "metric" PROVE J!MetricsAreOfRows'
  BY DEF J!MetricsAreOfRows, J!Asked
<1>1. PICK kpis \in [J!Metered -> J!Samples], readings \in [J!Metered -> J!Samples],
           from \in {"kpi", "reading", "auto"} :
        /\ question' = [of |-> "metric", kpis |-> kpis, readings |-> readings, source |-> from]
        /\ conclusion' = [results |-> J!Metrics(kpis, readings, from)]
  BY WhichJudgement DEF J!GetMetrics, J!Conclude
<1> DEFINE results == J!Metrics(kpis, readings, from)
<1>2. ASSUME NEW plant \in DOMAIN results, results[plant].min # Null
      PROVE  LET a == results[plant]
             IN a.min * a.valued <= a.sum /\ a.sum <= a.max * a.valued /\ a.valued <= a.sample_count
  <2>1. PICK rows_ \in J!Samples : results[plant] = J!Aggregate(rows_)
    BY DEF J!Metrics, J!Grouped
  <2> HIDE DEF results
  <2> QED BY <1>2, <2>1, AggregateIs
<1>3. ASSUME from = "auto", DOMAIN results = {}
      PROVE  \A plant \in J!Metered : readings[plant] = <<>>
  <2>1. \A table : DOMAIN J!Grouped(table) = {p \in J!Metered : table[p] # <<>>}
    BY DEF J!Grouped
  <2>2. CASE \E p \in J!Metered : kpis[p] # <<>>
    BY <1>3, <2>1, <2>2 DEF J!Metrics
  <2>3. CASE ~\E p \in J!Metered : kpis[p] # <<>>
    BY <1>3, <2>1, <2>3 DEF J!Metrics
  <2> QED BY <2>2, <2>3
<1>4. question'.source = from /\ question'.readings = readings /\ conclusion'.results = results
  BY <1>1
<1> HIDE DEF results
<1> QED BY <1>2, <1>3, <1>4 DEF J!MetricsAreOfRows

-----------------------------------------------------------------------------
(* A sensor that says the same. *)

\* What is not older than this is the end of the readings.
LEMMA SinceIs ==
  ASSUME NEW n, NEW said, NEW flags, NEW r, AreRows(n, said, flags, r), NEW cut \in Int
  PROVE  \E c \in 0..n :
           /\ J!Kept(r, {i \in DOMAIN r : r[i].ts >= cut}) = [k \in 1..n - c |-> r[c + k]]
           /\ \A i \in 1..n : i > c <=> r[i].ts >= cut
<1> DEFINE Rs == [ts : Nat, value : said, frozen : flags]
           places == {i \in DOMAIN r : r[i].ts >= cut}
           Late(i) == r[i].ts >= cut
           late == {i \in 1..n : Late(i)}
<1>1. n \in Nat /\ r \in [1..n -> Rs] /\ DOMAIN r = 1..n
  BY DEF AreRows
<1>2. \A i \in 1..n : r[i].ts \in Int
  BY <1>1
<1>3. \A i, j \in 1..n : i < j => r[i].ts < r[j].ts
  BY DEF AreRows, Rising
<1>4. PICK c \in 0..n : \A i \in 1..n : i > c <=> Late(i)
  <2>1. CASE late = {}
    <3>1. n \in 0..n /\ \A i \in 1..n : ~(i > n) /\ ~Late(i)
      BY <1>1, <2>1
    <3> HIDE DEF Late
    <3> QED BY <3>1
  <2>2. CASE late # {}
    <3>1. late \subseteq Nat
      OBVIOUS
    <3>2. PICK m \in late : \A k \in late : m <= k
      BY <2>2, <3>1, FirstNumber
    <3>3. m - 1 \in 0..n /\ m \in 1..n /\ Late(m)
      BY <1>1
    <3>4. ASSUME NEW i \in 1..n PROVE i > m - 1 <=> Late(i)
      <4>1. CASE i < m
        BY <3>2, <3>3, <4>1
      <4>2. CASE i = m
        BY <3>3, <4>2
      <4>3. CASE i > m
        <5>1. r[m].ts < r[i].ts /\ r[m].ts \in Int /\ r[i].ts \in Int
          BY <1>2, <1>3, <3>3, <4>3
        <5> QED BY <3>3, <4>3, <5>1
      <4> QED BY <3>3, <4>1, <4>2, <4>3
    <3> QED BY <3>3, <3>4
  <2> QED BY <2>1, <2>2
<1>5. \A i \in 1..n : i \in places <=> c + 1 <= i
  BY <1>1, <1>4
<1>6. c + 1 \in 1..n + 1
  BY <1>1
<1> HIDE DEF places, Rs
<1>7. J!Kept(r, places) = [k \in 1..n - (c + 1) + 1 |-> r[(c + 1) - 1 + k]]
  <2>1. PlacesFrom(n, Rs, r, places, c + 1)
    BY <1>1, <1>5, <1>6 DEF PlacesFrom
  <2> QED BY <2>1, KeptFrom
<1>8. n - (c + 1) + 1 = n - c /\ \A k \in 1..n - c : (c + 1) - 1 + k = c + k
  BY <1>1
<1>9. [k \in 1..n - (c + 1) + 1 |-> r[(c + 1) - 1 + k]] = [k \in 1..n - c |-> r[c + k]]
  BY <1>8
<1> QED BY <1>4, <1>7, <1>9 DEF places

\* As the last one, and flagged.
Same(n, r, j) == r[j].frozen /\ r[j].value = r[n].value

LEMMA FrozenFromIs ==
  ASSUME NEW n \in Nat \ {0}, NEW r, Len(r) = n, Same(n, r, n)
  PROVE  /\ J!FrozenFrom(r) \in 1..n
         /\ \A j \in J!FrozenFrom(r)..n : Same(n, r, j)
         /\ J!FrozenFrom(r) = 1 \/ ~Same(n, r, J!FrozenFrom(r) - 1)
<1> DEFINE Held(i) == \A j \in i..n : Same(n, r, j)
           held == {i \in 1..n : Held(i)}
           From(i) == Held(i) /\ (i = 1 \/ ~Same(n, r, i - 1))
<1>1. J!FrozenFrom(r) = CHOOSE i \in 1..n : From(i)
  BY DEF J!FrozenFrom, Same
<1>2. n \in held
  OBVIOUS
<1>3. held \subseteq Nat
  OBVIOUS
<1>4. PICK f \in held : \A k \in held : f <= k
  BY <1>2, <1>3, FirstNumber
<1>5. f \in 1..n /\ Held(f)
  BY <1>4
<1>6. ASSUME f # 1 PROVE ~Same(n, r, f - 1)
  <2>1. f - 1 \in 1..n /\ ~(f <= f - 1)
    BY <1>5, <1>6
  <2>2. ~Held(f - 1)
    BY <1>4, <2>1
  <2>3. PICK j \in f - 1..n : ~Same(n, r, j)
    BY <2>2
  <2>4. j = f - 1 \/ j \in f..n
    BY <2>1
  <2> QED BY <1>5, <2>3, <2>4
<1>7. \E i \in 1..n : From(i)
  BY <1>5, <1>6
<1> HIDE DEF From
<1>8. J!FrozenFrom(r) \in 1..n /\ From(J!FrozenFrom(r))
  BY <1>1, <1>7
<1> QED BY <1>8 DEF From

\* What FrozenIsNoticed says of a question and its answer.
Noticed(r, n, now_, d, fired) ==
  LET stuck == \E i \in J!Max({1, n - SNAPSHOT_ROWS_PER_SENSOR + 1})..n :
                 (\A j \in i..n : Same(n, r, j)) /\ r[n].ts - r[i].ts >= d
  IN /\ fired => stuck
     /\ (stuck /\ \A i \in 1..n - 1 : (now_ - r[n].ts) + r[i + 1].ts - r[i].ts <= 2 * d + LOOKBACK_SLACK)
          => fired

LEMMA FrozenStep == ASSUME J!Next PROVE J!FrozenIsNoticed'
<1> SUFFICES ASSUME question'.of = "frozen" PROVE J!FrozenIsNoticed'
  BY DEF J!FrozenIsNoticed, J!Asked
<1>1. PICK said \in Values, later \in 0..MaxTimestamp, d \in 1..2 :
        \E r \in J!Series({said, Null}, BOOLEAN) :
          /\ r # <<>>
          /\ question' = [of |-> "frozen", rows |-> r, duration |-> d, now |-> J!Last(r).ts + later]
          /\ conclusion' = [fired |-> J!Persists(J!Snapshot(r), J!Last(r).ts + later, d)]
  BY WhichJudgement DEF J!EvalPersistence, J!Conclude
<1> DEFINE Flags == BOOLEAN  Said_ == {said, Null}
<1>2. PICK r \in J!Series(Said_, Flags) :
        /\ r # <<>>
        /\ question' = [of |-> "frozen", rows |-> r, duration |-> d, now |-> J!Last(r).ts + later]
        /\ conclusion' = [fired |-> J!Persists(J!Snapshot(r), J!Last(r).ts + later, d)]
  BY <1>1
<1> HIDE DEF Flags, Said_
<1>3. PICK n \in Nat : AreRows(n, Said_, Flags, r)
  BY RowsAre
<1>4. n \in Nat /\ n >= 1 /\ Len(r) = n /\ J!Last(r) = r[n]
  BY <1>2, <1>3, LastIs
<1>5. /\ \A i \in 1..n : r[i].ts \in Int
      /\ \A i, j \in 1..n : i < j => r[i].ts < r[j].ts
  BY <1>3 DEF AreRows, Rising
<1>6. SNAPSHOT_ROWS_PER_SENSOR \in Nat \ {0} /\ LOOKBACK_SLACK \in Nat /\ later \in Nat /\ d \in Nat \ {0}
  BY JudgementsBounds
<1> DEFINE m == IF SNAPSHOT_ROWS_PER_SENSOR <= n THEN n - SNAPSHOT_ROWS_PER_SENSOR ELSE 0
           s == J!Snapshot(r)
           now_ == r[n].ts + later
           cut == now_ - (3 * d + LOOKBACK_SLACK)
           places == {i \in DOMAIN s : s[i].ts >= cut}
           last_ == J!Kept(s, places)
<1>7. m \in 0..n - 1 /\ J!Max({1, n - SNAPSHOT_ROWS_PER_SENSOR + 1}) = m + 1
  <2>1. J!Max({1, n - SNAPSHOT_ROWS_PER_SENSOR + 1})
          = IF 1 >= n - SNAPSHOT_ROWS_PER_SENSOR + 1 THEN 1 ELSE n - SNAPSHOT_ROWS_PER_SENSOR + 1
    BY <1>4, <1>6, MaxOfTwo
  <2> QED BY <1>4, <1>6, <2>1
<1>8. s = [i \in 1..n - m |-> r[m + i]] /\ AreRows(n - m, Said_, Flags, s)
  <2>1. SNAPSHOT_ROWS_PER_SENSOR \in Nat
    BY <1>6
  <2>2. /\ m \in 0..n
        /\ J!LastOf(r, SNAPSHOT_ROWS_PER_SENSOR) = [i \in 1..n - m |-> r[m + i]]
        /\ AreRows(n - m, Said_, Flags, J!LastOf(r, SNAPSHOT_ROWS_PER_SENSOR))
    BY <1>3, <2>1, LastRows, Zenon
  <2>3. s = J!LastOf(r, SNAPSHOT_ROWS_PER_SENSOR)
    BY DEF J!Snapshot
  <2> HIDE DEF m, s
  <2> QED BY <2>2, <2>3
<1>9. cut \in Int
  BY <1>4, <1>5, <1>6
<1>19. cut = r[n].ts + later - 3 * d - LOOKBACK_SLACK
  BY <1>4, <1>5, <1>6
<1>10. conclusion'.fired <=> /\ last_ # <<>> /\ J!Last(last_).frozen
                             /\ J!Last(last_).ts - last_[J!FrozenFrom(last_)].ts >= d
  BY <1>2, <1>4 DEF J!Persists
<1> HIDE DEF m, s, cut
<1>11. PICK b \in 0..n - m :
         /\ last_ = [k \in 1..(n - m) - b |-> s[b + k]]
         /\ \A i \in 1..n - m : i > b <=> s[i].ts >= cut
  <2>1. AreRows(n - m, Said_, Flags, s)
    BY <1>8
  <2> QED BY <1>9, <2>1, SinceIs, Zenon
<1> HIDE DEF places, last_
<1> DEFINE c == m + b
<1>12. /\ c \in m..n
       /\ last_ = [k \in 1..n - c |-> r[c + k]]
       /\ \A i \in m + 1..n : i > c <=> r[i].ts >= cut
  <2>1. (n - m) - b = n - c /\ c \in m..n
    BY <1>4, <1>7
  <2>2. \A k \in 1..n - c : b + k \in 1..n - m /\ m + (b + k) = c + k
    BY <1>4, <1>7
  <2>3. \A k \in 1..n - c : s[b + k] = r[c + k]
    BY <1>8, <2>2
  <2>4. ASSUME NEW i \in m + 1..n PROVE i > c <=> r[i].ts >= cut
    <3>1. i - m \in 1..n - m /\ m + (i - m) = i /\ (i - m > b <=> i > c)
      BY <1>4, <1>7
    <3>2. s[i - m] = r[i]
      BY <1>8, <3>1
    <3> QED BY <1>11, <3>1, <3>2
  <2> QED BY <1>11, <2>1, <2>3, <2>4
<1> HIDE DEF c
<1>13. Len(last_) = n - c /\ n - c \in Nat /\ (last_ = <<>> <=> c = n)
  BY <1>4, <1>7, <1>12
<1> DEFINE f == c + J!FrozenFrom(last_)
<1>14. ASSUME c < n
       PROVE  /\ J!Last(last_) = r[n]
              /\ Same(n, r, n) => /\ f \in c + 1..n /\ last_[J!FrozenFrom(last_)] = r[f]
                                  /\ \A j \in f..n : Same(n, r, j)
                                  /\ f = c + 1 \/ ~Same(n, r, f - 1)
  <2>1. \A k \in 1..n - c : last_[k] = r[c + k]
    BY <1>12
  <2>2. n - c \in 1..n - c /\ c + (n - c) = n /\ n - c \in Nat \ {0}
    BY <1>4, <1>7, <1>12, <1>14
  <2>3. last_[n - c] = r[n]
    BY <2>1, <2>2
  <2>4. J!Last(last_) = r[n]
    BY <1>13, <2>3 DEF J!Last
  <2>5. \A k \in 1..n - c : Same(n - c, last_, k) <=> Same(n, r, c + k)
    BY <2>1, <2>3 DEF Same
  <2>6. ASSUME Same(n, r, n)
        PROVE  /\ f \in c + 1..n /\ last_[J!FrozenFrom(last_)] = r[f]
               /\ \A j \in f..n : Same(n, r, j)
               /\ f = c + 1 \/ ~Same(n, r, f - 1)
    <3> DEFINE g == J!FrozenFrom(last_)
    <3>1. Same(n - c, last_, n - c)
      BY <2>2, <2>5, <2>6
    <3>2. /\ g \in 1..n - c
          /\ \A j \in g..n - c : Same(n - c, last_, j)
          /\ g = 1 \/ ~Same(n - c, last_, g - 1)
      BY <1>13, <2>2, <3>1, FrozenFromIs
    <3> HIDE DEF g
    <3>3. c \in Nat /\ g \in Nat /\ c + g \in c + 1..n
      BY <1>4, <1>7, <1>12, <3>2
    <3>4. last_[g] = r[c + g]
      BY <2>1, <3>2
    <3>5. ASSUME NEW j \in c + g..n PROVE Same(n, r, j)
      <4>1. j - c \in g..n - c /\ j - c \in 1..n - c /\ c + (j - c) = j
        BY <1>4, <3>2, <3>3
      <4> QED BY <2>5, <3>2, <4>1
    <3>6. ASSUME g # 1 PROVE ~Same(n, r, c + g - 1)
      <4>1. g - 1 \in 1..n - c /\ c + (g - 1) = c + g - 1
        BY <1>4, <3>2, <3>3, <3>6
      <4> QED BY <2>5, <3>2, <3>6, <4>1
    <3>7. g = 1 => c + g = c + 1
      OBVIOUS
    <3> QED BY <3>3, <3>4, <3>5, <3>6, <3>7 DEF g
  <2> QED BY <2>4, <2>6
<1> HIDE DEF f
<1> DEFINE StuckFrom(i) == (\A j \in i..n : Same(n, r, j)) /\ r[n].ts - r[i].ts >= d
           close == \A i \in 1..n - 1 : later + r[i + 1].ts - r[i].ts <= 2 * d + LOOKBACK_SLACK
<1>15. ASSUME conclusion'.fired
       PROVE  \E i \in m + 1..n : StuckFrom(i)
  <2>1. c < n
    BY <1>4, <1>10, <1>12, <1>13, <1>15
  <2>2. Same(n, r, n)
    BY <1>10, <1>14, <1>15, <2>1 DEF Same
  <2>3. f \in m + 1..n
    BY <1>4, <1>7, <1>12, <1>14, <2>1, <2>2
  <2>4. StuckFrom(f)
    BY <1>10, <1>14, <1>15, <2>1, <2>2
  <2> QED BY <2>3, <2>4
<1>16. ASSUME NEW i \in m + 1..n, StuckFrom(i), close
       PROVE  conclusion'.fired
  <2>0. m \in Nat /\ i \in 1..n /\ n \in 1..n
    BY <1>4, <1>7
  <2>1. i < n
    BY <1>5, <1>6, <1>16, <2>0
  <2>2. r[n].ts \in Int /\ r[i].ts \in Int /\ r[n].ts - r[i].ts >= d
    BY <1>5, <1>16, <2>0
  <2>3. \A j \in i..n : Same(n, r, j)
    BY <1>16
  <2>4. Same(n, r, n)
    BY <2>0, <2>1, <2>3
  <2>5. c < n
    <3>1. n - 1 \in 1..n - 1 /\ n - 1 \in 1..n /\ (n - 1) + 1 = n /\ n - 1 < n
      BY <2>0, <2>1
    <3>2. /\ later + r[n].ts - r[n - 1].ts <= 2 * d + LOOKBACK_SLACK
          /\ r[n - 1].ts < r[n].ts /\ r[n - 1].ts \in Int
      BY <1>5, <1>16, <2>0, <3>1
    <3>3. r[n].ts >= cut
      BY <1>6, <1>19, <2>2, <3>2
    <3>4. n \in m + 1..n
      BY <1>7, <2>0
    <3> QED BY <1>12, <3>3, <3>4
  <2>6. /\ J!Last(last_) = r[n] /\ f \in c + 1..n /\ last_[J!FrozenFrom(last_)] = r[f]
        /\ f = c + 1 \/ ~Same(n, r, f - 1)
    BY <1>14, <2>4, <2>5
  <2>7. c \in Nat /\ f \in 1..n
    BY <1>12, <2>0, <2>6
  <2>8. r[n].ts - r[f].ts >= d
    <3>1. CASE f <= i
      <4>1. r[f].ts \in Int /\ r[f].ts <= r[i].ts
        BY <1>5, <2>0, <2>2, <2>7, <3>1
      <4> QED BY <1>6, <2>2, <4>1
    <3>2. CASE f > i
      <4>1. f = c + 1
        <5>1. f - 1 \in i..n
          BY <2>0, <2>7, <3>2
        <5> QED BY <2>3, <2>6, <5>1
      <4>2. c \in m + 1..n /\ c \in 1..n /\ c \in 1..n - 1 /\ ~(c > c)
        BY <2>0, <2>5, <2>7, <3>2, <4>1
      <4>3. r[c].ts < cut /\ r[c].ts \in Int /\ r[c + 1].ts \in Int
        BY <1>5, <1>9, <1>12, <2>7, <4>1, <4>2
      <4>4. later + r[c + 1].ts - r[c].ts <= 2 * d + LOOKBACK_SLACK
        BY <1>16, <4>2
      <4>5. r[n].ts - r[c + 1].ts >= d
        BY <1>6, <1>19, <2>2, <4>3, <4>4
      <4> QED BY <4>1, <4>5
    <3> QED BY <2>0, <2>7, <3>1, <3>2
  <2>9. last_ # <<>>
    BY <1>13, <2>5, <2>7
  <2> QED BY <1>10, <2>4, <2>6, <2>8, <2>9 DEF Same
<1>17. /\ question'.rows = r /\ question'.duration = d /\ question'.now = now_
       /\ now_ - r[n].ts = later
  BY <1>2, <1>4, <1>5, <1>6
<1> HIDE DEF now_
<1>18. Noticed(r, n, now_, d, conclusion'.fired)
  BY <1>7, <1>15, <1>16, <1>17 DEF Noticed
<1>20. question'.of = "frozen" /\ Len(question'.rows) = n
  BY <1>4, <1>17
<1>21. J!FrozenIsNoticed' <=>
         (question'.of = "frozen" =>
            Noticed(question'.rows, Len(question'.rows), question'.now, question'.duration, conclusion'.fired))
  BY DEF J!FrozenIsNoticed, J!Asked, Noticed, Same
<1> QED BY <1>17, <1>18, <1>20, <1>21

-----------------------------------------------------------------------------
(* Bills. *)

LEMMA SumOfNone ==
  ASSUME NEW f, DOMAIN f = {}
  PROVE  F!SumFunction(f) = 0
<1> DEFINE More(i, s) == LET x == CHOOSE x \in s : TRUE IN f[x] + i[s \ {x}]
           Is(i) == i = [s \in SUBSET {} |-> IF s = {} THEN 0 ELSE More(i, s)]
           iter == CHOOSE i : Is(i)
<1>1. F!SumFunction(f) = iter[{}]
  BY DEF F!SumFunction, F!SumFunctionOnSet, F!FoldFunctionOnSet, F!MapThenFoldSet
<1> HIDE DEF More
<1>2. SUBSET {} = {{}}
  OBVIOUS
<1>3. \E i : Is(i)
  <2> DEFINE i == [s \in SUBSET {} |-> 0]
  <2>1. \A s \in SUBSET {} : s = {}
    OBVIOUS
  <2>2. \A s \in SUBSET {} : i[s] = IF s = {} THEN 0 ELSE More(i, s)
    BY <2>1
  <2>3. Is(i)
    BY <2>1
  <2> QED BY <2>3
<1>4. Is(iter)
  BY <1>3
<1> HIDE DEF iter
<1>5. iter[{}] = 0
  BY <1>2, <1>4
<1> QED BY <1>1, <1>5

AnHour(e) == e = [avg |-> e.avg, total |-> e.total, non_good |-> e.non_good]

\* An hour in which what is flagged says nothing.
BlankHour(e) == IF F!IsFlagged(e) THEN [e EXCEPT !.avg = Null] ELSE e

LEMMA BlankIsFlagged ==
  ASSUME NEW e, AnHour(e)
  PROVE  /\ F!IsFlagged(BlankHour(e)) <=> F!IsFlagged(e)
         /\ ~F!IsFlagged(e) => BlankHour(e) = e
<1>1. CASE F!IsFlagged(e)
  <2>1. BlankHour(e) = [e EXCEPT !.avg = Null]
    BY <1>1 DEF BlankHour
  <2>2. [e EXCEPT !.avg = Null].avg = Null
    BY DEF AnHour
  <2> QED BY <1>1, <2>1, <2>2 DEF F!IsFlagged
<1>2. CASE ~F!IsFlagged(e)
  BY <1>2 DEF BlankHour
<1> QED BY <1>1, <1>2

\* The same hours are flagged, and the others say the same.
Alike(a, b) ==
  \A h \in F!Hours : /\ F!IsFlagged(a[h]) <=> F!IsFlagged(b[h])
                     /\ ~F!IsFlagged(a[h]) => a[h] = b[h]

LEMMA MonthIsOfHours == F!Month \subseteq F!Hours
<1> DEFINE n == DaysPerMonth * HoursPerDay  k == TRAILING_LOOKBACK_DAYS * HoursPerDay
<1>1. n \in Int /\ k \in Nat
  BY FiguresBounds
<1>2. F!Month = 0..n - 1
  BY DEF F!Month
<1>3. F!Hours = (-TRAILING_LOOKBACK_DAYS * HoursPerDay)..n - 1
  BY DEF F!Hours
<1>4. -TRAILING_LOOKBACK_DAYS * HoursPerDay \in Int /\ -TRAILING_LOOKBACK_DAYS * HoursPerDay <= 0
  <2>1. TRAILING_LOOKBACK_DAYS \in Nat /\ HoursPerDay \in Nat
    BY FiguresBounds
  <2>2. \A a, b \in Nat : -a * b \in Int /\ -a * b <= 0
    OBVIOUS
  <2> QED BY <2>1, <2>2
<1> HIDE DEF n, k
<1> QED BY <1>1, <1>2, <1>3, <1>4

LEMMA AlikeDays ==
  ASSUME NEW a, NEW b, Alike(a, b), NEW h
  PROVE  F!TrailingAvg(a, h) = F!TrailingAvg(b, h)
<1>1. F!UsableDays(a, h) = F!UsableDays(b, h)
  BY DEF F!UsableDays, Alike
<1> DEFINE days == F!UsableDays(a, h)
<1>2. ASSUME NEW d \in days PROVE a[h - d * HoursPerDay].avg = b[h - d * HoursPerDay].avg
  BY DEF F!UsableDays, Alike
<1> HIDE DEF days
<1>3. [d \in days |-> a[h - d * HoursPerDay].avg] = [d \in days |-> b[h - d * HoursPerDay].avg]
  BY <1>2
<1>4. F!UsableDays(a, h) = days /\ F!UsableDays(b, h) = days
  BY <1>1 DEF days
<1> HIDE DEF F!UsableDays
<1> QED BY <1>3, <1>4 DEF F!TrailingAvg

LEMMA AlikeValues ==
  ASSUME NEW a, NEW b, Alike(a, b), NEW h \in F!Month, NEW mode
  PROVE  F!ValueAt(a, h, mode) = F!ValueAt(b, h, mode)
<1>1. h \in F!Hours
  BY MonthIsOfHours
<1>2. /\ F!IsFlagged(a[h]) <=> F!IsFlagged(b[h])
      /\ ~F!IsFlagged(a[h]) => a[h] = b[h]
  BY <1>1 DEF Alike
<1>3. F!TrailingAvg(a, h) = F!TrailingAvg(b, h)
  BY AlikeDays
<1> QED BY <1>2, <1>3 DEF F!ValueAt

\* What a month is billed for.
GoodHours(s) == {h \in F!Month : \A x \in F!Sensors : ~F!IsFlagged(s[x][h])}
BilledHours(s, mode) == {h \in F!Month : \A x \in F!Sensors : F!ValueAt(s[x], h, mode) # Null}
Captured(s, mode, h) ==
  F!Max({0, F!ValueAt(s["SO2_in"], h, mode) - F!ValueAt(s["SO2_out"], h, mode)}) * F!ValueAt(s["flow"], h, mode)
Capture(s, mode) == [h \in BilledHours(s, mode) |-> Captured(s, mode, h)]

LEMMA BillIs ==
  ASSUME NEW s, NEW mode
  PROVE  F!BillingNumbers(s, mode)
           = [so2_kg |-> F!SumFunction(Capture(s, mode)),
              uptime |-> F!HalfUp(10000 * F!Cardinality(GoodHours(s)), F!Cardinality(F!Month)),
              good_hours |-> F!Cardinality(GoodHours(s)),
              hours_billed |-> F!Cardinality(BilledHours(s, mode))]
BY DEF F!BillingNumbers, GoodHours, BilledHours, Captured, Capture

LEMMA AlikeBills ==
  ASSUME NEW s, NEW t, \A x \in F!Sensors : Alike(s[x], t[x]), NEW mode
  PROVE  F!BillingNumbers(s, mode) = F!BillingNumbers(t, mode)
<1>1. \A x \in F!Sensors, h \in F!Month : F!IsFlagged(s[x][h]) <=> F!IsFlagged(t[x][h])
  BY MonthIsOfHours DEF Alike
<1>2. \A x \in F!Sensors, h \in F!Month : F!ValueAt(s[x], h, mode) = F!ValueAt(t[x], h, mode)
  BY AlikeValues
<1>3. GoodHours(s) = GoodHours(t)
  BY <1>1 DEF GoodHours
<1>4. BilledHours(s, mode) = BilledHours(t, mode)
  BY <1>2 DEF BilledHours
<1>5. ASSUME NEW h \in BilledHours(s, mode) PROVE Captured(s, mode, h) = Captured(t, mode, h)
  <2>1. h \in F!Month /\ "SO2_in" \in F!Sensors /\ "SO2_out" \in F!Sensors /\ "flow" \in F!Sensors
    BY DEF BilledHours, F!Sensors
  <2>2. /\ F!ValueAt(s["SO2_in"], h, mode) = F!ValueAt(t["SO2_in"], h, mode)
        /\ F!ValueAt(s["SO2_out"], h, mode) = F!ValueAt(t["SO2_out"], h, mode)
        /\ F!ValueAt(s["flow"], h, mode) = F!ValueAt(t["flow"], h, mode)
    BY <1>2, <2>1
  <2> QED BY <2>2 DEF Captured
<1>6. Capture(s, mode) = Capture(t, mode)
  BY <1>4, <1>5 DEF Capture
<1> QED BY <1>3, <1>4, <1>6, BillIs

LEMMA CardinalityOf == ASSUME NEW set PROVE F!Cardinality(set) = Cardinality(set)
BY DEF F!Cardinality, Cardinality

LEMMA HoursAreBilled ==
  ASSUME NEW s, NEW mode
  PROVE  LET numbers == F!BillingNumbers(s, mode)
         IN /\ numbers.good_hours <= numbers.hours_billed
            /\ mode = "exclude" => numbers.good_hours = numbers.hours_billed
            /\ numbers.hours_billed = 0 => numbers.so2_kg = 0
<1> DEFINE numbers == F!BillingNumbers(s, mode)
<1>1. /\ numbers.good_hours = Cardinality(GoodHours(s))
      /\ numbers.hours_billed = Cardinality(BilledHours(s, mode))
      /\ numbers.so2_kg = F!SumFunction(Capture(s, mode))
  BY BillIs, CardinalityOf
<1> HIDE DEF numbers
<1>2. ASSUME NEW h \in F!Month, NEW x \in F!Sensors
      PROVE  /\ ~F!IsFlagged(s[x][h]) => F!ValueAt(s[x], h, mode) # Null
             /\ mode = "exclude" /\ F!IsFlagged(s[x][h]) => F!ValueAt(s[x], h, mode) = Null
  BY DEF F!ValueAt, F!IsFlagged
<1>3. GoodHours(s) \subseteq BilledHours(s, mode)
  BY <1>2 DEF GoodHours, BilledHours
<1>4. IsFiniteSet(BilledHours(s, mode))
  <2>1. BilledHours(s, mode) \subseteq F!Month
    BY DEF BilledHours
  <2> QED BY <2>1, HoursOfMonth, FS_Subset
<1>5. numbers.good_hours <= numbers.hours_billed
  BY <1>1, <1>3, <1>4, FS_Subset
<1>6. ASSUME mode = "exclude" PROVE numbers.good_hours = numbers.hours_billed
  <2>1. BilledHours(s, mode) \subseteq GoodHours(s)
    BY <1>2, <1>6 DEF GoodHours, BilledHours
  <2>2. BilledHours(s, mode) = GoodHours(s)
    BY <1>3, <2>1
  <2> QED BY <1>1, <2>2
<1>7. ASSUME numbers.hours_billed = 0 PROVE numbers.so2_kg = 0
  <2>1. BilledHours(s, mode) = {}
    BY <1>1, <1>4, <1>7, FS_EmptySet
  <2>2. DOMAIN Capture(s, mode) = {}
    BY <2>1 DEF Capture
  <2> QED BY <1>1, <2>2, SumOfNone
<1> QED BY <1>5, <1>6, <1>7 DEF numbers

LEMMA HourIs == ASSUME NEW readings PROVE AnHour(F!Hourly(readings))
<1>1. \A a, b, c : AnHour([avg |-> a, total |-> b, non_good |-> c])
  BY DEF AnHour
<1>2. \E a, b, c : F!Hourly(readings) = [avg |-> a, total |-> b, non_good |-> c]
  BY Zenon DEF F!Hourly
<1> QED BY <1>1, <1>2, Zenon

LEMMA BillStep == ASSUME F!Next PROVE F!FlaggedHoursAreNotBilled'
<1> SUFFICES ASSUME asked'.of = "numbers" PROVE F!FlaggedHoursAreNotBilled'
  BY DEF F!FlaggedHoursAreNotBilled, F!Asked
<1>1. PICK x \in F!Sensors, varied \in [F!Hours -> F!HourData], rest \in F!HourData,
           mode \in {"exclude", "trailing_avg"} :
        LET s == [y \in F!Sensors |-> IF y = x THEN varied ELSE [h \in F!Hours |-> rest]] IN
        /\ asked' = [of |-> "numbers", series |-> s, mode |-> mode]
        /\ answer' = F!BillingNumbers(s, mode)
  BY WhichFigure DEF F!ComputeBillingNumbers, F!Figure
<1> DEFINE s == [y \in F!Sensors |-> IF y = x THEN varied ELSE [h \in F!Hours |-> rest]]
           blank == [y \in F!Sensors |-> [h \in F!Hours |->
                       IF F!IsFlagged(s[y][h]) THEN [s[y][h] EXCEPT !.avg = Null] ELSE s[y][h]]]
<1>2. asked'.series = s /\ asked'.mode = mode /\ answer' = F!BillingNumbers(s, mode)
  BY <1>1
<1>3. \A e \in F!HourData : AnHour(e)
  BY HourIs, Zenon DEF F!HourData
<1>4. \A y \in F!Sensors, h \in F!Hours : s[y][h] \in F!HourData
  OBVIOUS
<1> HIDE DEF s
<1>5. ASSUME NEW y \in F!Sensors PROVE Alike(s[y], blank[y])
  <2>1. ASSUME NEW h \in F!Hours
        PROVE  /\ F!IsFlagged(s[y][h]) <=> F!IsFlagged(blank[y][h])
               /\ ~F!IsFlagged(s[y][h]) => s[y][h] = blank[y][h]
    <3>1. blank[y][h] = BlankHour(s[y][h])
      BY DEF BlankHour
    <3>2. AnHour(s[y][h])
      BY <1>3, <1>4
    <3> HIDE DEF blank
    <3> QED BY <3>1, <3>2, BlankIsFlagged
  <2> QED BY <2>1 DEF Alike
<1>6. F!BillingNumbers(s, mode) = F!BillingNumbers(blank, mode)
  <2>1. \A y \in F!Sensors : Alike(s[y], blank[y])
    BY <1>5
  <2> HIDE DEF blank
  <2> QED BY <2>1, AlikeBills, Zenon
<1> DEFINE numbers == F!BillingNumbers(s, mode)
<1>7. /\ numbers.good_hours <= numbers.hours_billed
      /\ mode = "exclude" => numbers.good_hours = numbers.hours_billed
      /\ numbers.hours_billed = 0 => numbers.so2_kg = 0
  BY HoursAreBilled
<1> HIDE DEF F!BillingNumbers, F!IsFlagged, F!Hours, F!Sensors
<1> QED BY <1>2, <1>6, <1>7 DEF F!FlaggedHoursAreNotBilled

-----------------------------------------------------------------------------
(* Amounts in words read as what they are: what was heard so far is a      *)
(* number that is being said and the sum of those that were.               *)

At(x, s) == [now |-> x, sum |-> s]
Heards   == [now : Int, sum : Int]
Units    == {F!Hundred, F!Thousand, F!Lakh, F!Crore}
Spoken   == Nat \cup Units
OneThousand == 1000
OneLakh  == 100000
OneCrore == 10000000
TenCrore == 100000000
InCrores(n) == n * OneCrore

LEMMA HeardIs ==
  ASSUME NEW x \in Int, NEW s \in Int
  PROVE  /\ \A w \in Nat : F!Heard(w, At(x, s)) = At(x + w, s)
         /\ F!Heard(F!Hundred, At(x, s)) = At(x * 100, s)
         /\ F!Heard(F!Thousand, At(x, s)) = At(0, s + x * OneThousand)
         /\ F!Heard(F!Lakh, At(x, s)) = At(0, s + x * OneLakh)
         /\ F!Heard(F!Crore, At(x, s)) = At(0, InCrores(s + x))
<1>1. \A w \in Nat : F!Heard(w, At(x, s)) = At(x + w, s)
  BY SMT DEF F!Heard, At, F!Hundred, F!Thousand, F!Lakh, F!Crore
<1>2. F!Heard(F!Hundred, At(x, s)) = At(x * 100, s)
  BY SMT DEF F!Heard, At, F!Hundred, F!Thousand, F!Lakh, F!Crore
<1>3. F!Heard(F!Thousand, At(x, s)) = At(0, s + x * OneThousand)
  BY SMT DEF F!Heard, At, F!Hundred, F!Thousand, F!Lakh, F!Crore, OneThousand
<1>4. F!Heard(F!Lakh, At(x, s)) = At(0, s + x * OneLakh)
  BY SMT DEF F!Heard, At, F!Hundred, F!Thousand, F!Lakh, F!Crore, OneLakh
<1>5. F!Heard(F!Crore, At(x, s)) = At(0, InCrores(s + x))
  BY SMT DEF F!Heard, At, F!Hundred, F!Thousand, F!Lakh, F!Crore, OneCrore, InCrores
<1> QED BY <1>1, <1>2, <1>3, <1>4, <1>5

\* What hears the words of v after a has heard b.
Says(v, a, b) ==
  /\ v \in Seq(Spoken)
  /\ \E g \in [0..Len(v) -> Heards] :
       g[0] = a /\ g[Len(v)] = b /\ \A i \in 1..Len(v) : g[i] = F!Heard(v[i], g[i - 1])

LEMMA SaysNothing == ASSUME NEW a \in Heards PROVE Says(<<>>, a, a)
<1> DEFINE g == [i \in 0..0 |-> a]
<1>1. g \in [0..0 -> Heards] /\ g[0] = a
  OBVIOUS
<1> HIDE DEF g
<1>2. Len(<<>>) = 0 /\ <<>> \in Seq(Spoken) /\ 1..0 = {}
  OBVIOUS
<1> QED BY <1>1, <1>2 DEF Says

LEMMA SaysMore ==
  ASSUME NEW u, NEW v, NEW a, NEW b, NEW c, Says(u, a, b), Says(v, b, c)
  PROVE  Says(u \o v, a, c)
<1> DEFINE m == Len(u)  n == Len(v)  w == u \o v
<1>0. u \in Seq(Spoken) /\ v \in Seq(Spoken) /\ m \in Nat /\ n \in Nat
  BY DEF Says
<1>1. PICK g \in [0..m -> Heards] : g[0] = a /\ g[m] = b /\ \A i \in 1..m : g[i] = F!Heard(u[i], g[i - 1])
  BY DEF Says
<1>2. PICK h \in [0..n -> Heards] : h[0] = b /\ h[n] = c /\ \A i \in 1..n : h[i] = F!Heard(v[i], h[i - 1])
  BY DEF Says
<1>3. w \in Seq(Spoken) /\ Len(w) = m + n
  BY <1>0
<1>4. /\ \A i \in 1..m : w[i] = u[i]
      /\ \A i \in m + 1..m + n : w[i] = v[i - m]
  BY <1>0
<1> DEFINE f == [i \in 0..m + n |-> IF i <= m THEN g[i] ELSE h[i - m]]
<1> HIDE DEF m, n, w
<1>5. f \in [0..m + n -> Heards]
  BY <1>0
<1>6. f[0] = a /\ f[m + n] = c
  BY <1>0, <1>1, <1>2
<1>7. ASSUME NEW i \in 1..m + n PROVE f[i] = F!Heard(w[i], f[i - 1])
  <2>1. CASE i <= m
    <3>1. i \in 1..m /\ i - 1 <= m /\ i - 1 \in 0..m + n /\ i \in 0..m + n
      BY <1>0, <2>1
    <3> QED BY <1>1, <1>4, <3>1
  <2>2. CASE i = m + 1
    <3>1. i - 1 = m /\ i - m = 1 /\ 1 \in 1..n /\ m \in 0..m + n /\ i \in 0..m + n /\ i \in m + 1..m + n /\ 1 - 1 = 0
      BY <1>0, <2>2
    <3>2. f[i] = h[1] /\ f[i - 1] = h[0] /\ w[i] = v[1]
      <4>1. f[m + 1] = h[(m + 1) - m] /\ f[m] = g[m]
        BY <1>0, <3>1
      <4>2. w[m + 1] = v[(m + 1) - m]
        BY <1>4, <2>2, <3>1
      <4> QED BY <1>1, <1>2, <2>2, <3>1, <4>1, <4>2
    <3>3. h[1] = F!Heard(v[1], h[0])
      BY <1>2, <3>1
    <3> QED BY <3>2, <3>3
  <2>3. CASE i > m + 1
    <3>1. i - m \in 1..n /\ ~(i - 1 <= m) /\ ~(i <= m) /\ (i - 1) - m = (i - m) - 1
          /\ i - 1 \in 0..m + n /\ i \in 0..m + n /\ i \in m + 1..m + n
      BY <1>0, <2>3
    <3>2. f[i] = h[i - m] /\ f[i - 1] = h[(i - m) - 1] /\ w[i] = v[i - m]
      BY <1>4, <3>1
    <3> QED BY <1>2, <3>1, <3>2
  <2> QED BY <1>0, <2>1, <2>2, <2>3
<1> HIDE DEF f
<1> QED BY <1>3, <1>5, <1>6, <1>7 DEF Says, w

LEMMA SaysWord ==
  ASSUME NEW w \in Spoken, NEW a \in Heards, F!Heard(w, a) \in Heards
  PROVE  Says(<<w>>, a, F!Heard(w, a))
<1> DEFINE b == F!Heard(w, a)
<1> DEFINE g == [i \in 0..1 |-> IF i = 0 THEN a ELSE b]
<1> HIDE DEF b
<1>0. b \in Heards /\ b = F!Heard(w, a)
  BY DEF b
<1>1. g \in [0..1 -> Heards] /\ g[0] = a /\ g[1] = b /\ 1 - 1 = 0
  BY <1>0
<1> HIDE DEF g
<1>2. Len(<<w>>) = 1 /\ <<w>> \in Seq(Spoken) /\ <<w>>[1] = w /\ \A i \in 1..1 : i = 1
  OBVIOUS
<1>3. \A i \in 1..1 : g[i] = F!Heard(<<w>>[i], g[i - 1])
  BY <1>0, <1>1, <1>2
<1> QED BY <1>0, <1>1, <1>2, <1>3 DEF Says

LEMMA SaysHeard ==
  ASSUME NEW w \in Spoken, NEW x \in Int, NEW s \in Int, NEW y \in Int, NEW t \in Int,
         F!Heard(w, At(x, s)) = At(y, t)
  PROVE  Says(<<w>>, At(x, s), At(y, t))
<1>1. At(x, s) \in Heards /\ At(y, t) \in Heards
  BY DEF At, Heards
<1>2. F!Heard(w, At(x, s)) \in Heards
  BY <1>1
<1>3. Says(<<w>>, At(x, s), F!Heard(w, At(x, s)))
  BY <1>1, <1>2, SaysWord
<1> QED BY <1>3

LEMMA AllSpoken ==
  /\ Nat \subseteq Spoken
  /\ F!Hundred \in Spoken /\ F!Thousand \in Spoken /\ F!Lakh \in Spoken /\ F!Crore \in Spoken
BY DEF Spoken, Units

\* How a word is heard, and how no words are.
LEMMA NoneSaid == ASSUME NEW x \in Int, NEW s \in Int PROVE Says(<<>>, At(x, s), At(x, s))
<1>1. At(x, s) \in Heards
  BY DEF At, Heards
<1> QED BY <1>1, SaysNothing

LEMMA NumberSaid ==
  ASSUME NEW w \in Nat, NEW x \in Int, NEW s \in Int PROVE Says(<<w>>, At(x, s), At(x + w, s))
<1>1. w \in Spoken /\ x + w \in Int /\ F!Heard(w, At(x, s)) = At(x + w, s)
  BY AllSpoken, HeardIs
<1> QED BY <1>1, SaysHeard

LEMMA HundredSaid ==
  ASSUME NEW x \in Int, NEW s \in Int PROVE Says(<<F!Hundred>>, At(x, s), At(x * 100, s))
<1>1. x * 100 \in Int /\ F!Hundred \in Spoken
  BY AllSpoken
<1>2. F!Heard(F!Hundred, At(x, s)) = At(x * 100, s)
  BY HeardIs
<1> QED BY <1>1, <1>2, SaysHeard

LEMMA ThousandSaid ==
  ASSUME NEW x \in Int, NEW s \in Int PROVE Says(<<F!Thousand>>, At(x, s), At(0, s + x * OneThousand))
<1>1. s + x * OneThousand \in Int /\ 0 \in Int /\ F!Thousand \in Spoken
  BY AllSpoken, SMT DEF OneThousand
<1>2. F!Heard(F!Thousand, At(x, s)) = At(0, s + x * OneThousand)
  BY HeardIs
<1> QED BY <1>1, <1>2, SaysHeard

LEMMA LakhSaid ==
  ASSUME NEW x \in Int, NEW s \in Int PROVE Says(<<F!Lakh>>, At(x, s), At(0, s + x * OneLakh))
<1>1. s + x * OneLakh \in Int /\ 0 \in Int /\ F!Lakh \in Spoken
  BY AllSpoken, SMT DEF OneLakh
<1>2. F!Heard(F!Lakh, At(x, s)) = At(0, s + x * OneLakh)
  BY HeardIs
<1> QED BY <1>1, <1>2, SaysHeard

LEMMA CroreSaid ==
  ASSUME NEW x \in Int, NEW s \in Int PROVE Says(<<F!Crore>>, At(x, s), At(0, InCrores(s + x)))
<1>1. InCrores(s + x) \in Int /\ 0 \in Int /\ F!Crore \in Spoken
  BY AllSpoken, SMT DEF OneCrore, InCrores
<1>2. F!Heard(F!Crore, At(x, s)) = At(0, InCrores(s + x))
  BY HeardIs
<1> QED BY <1>1, <1>2, SaysHeard

LEMMA TwoDigitsRead ==
  ASSUME NEW n \in Nat, n < 100, NEW x \in Int, NEW s \in Int
  PROVE  Says(F!TwoDigitWords(n), At(x, s), At(x + n, s))
<1>1. CASE n = 0
  <2>1. F!TwoDigitWords(n) = <<>> /\ x + n = x
    BY <1>1 DEF F!TwoDigitWords
  <2> QED BY <2>1, NoneSaid
<1>2. CASE n # 0 /\ n < 20
  <2>1. F!TwoDigitWords(n) = <<n>>
    BY <1>2 DEF F!TwoDigitWords
  <2> QED BY <2>1, NumberSaid
<1>3. CASE n >= 20
  <2> DEFINE y == n % 10
             tail == IF y = 0 THEN <<>> ELSE <<y>>
  <2>1. y \in Nat /\ n - y \in Nat /\ x + (n - y) \in Int /\ (x + (n - y)) + y = x + n
    BY <1>3
  <2>2. F!TwoDigitWords(n) = <<n - y>> \o tail
    BY <1>3 DEF F!TwoDigitWords
  <2> HIDE DEF y
  <2>3. Says(<<n - y>>, At(x, s), At(x + (n - y), s))
    BY <2>1, NumberSaid
  <2>4. Says(tail, At(x + (n - y), s), At(x + n, s))
    <3>1. CASE y = 0
      <4>1. tail = <<>> /\ x + (n - y) = x + n
        BY <2>1, <3>1
      <4> QED BY <2>1, <4>1, NoneSaid
    <3>2. CASE y # 0
      <4>1. tail = <<y>>
        BY <3>2
      <4>2. Says(<<y>>, At(x + (n - y), s), At((x + (n - y)) + y, s))
        BY <2>1, NumberSaid
      <4> QED BY <2>1, <4>1, <4>2
    <3> QED BY <3>1, <3>2
  <2> HIDE DEF tail
  <2> QED BY <2>2, <2>3, <2>4, SaysMore
<1> QED BY <1>1, <1>2, <1>3

LEMMA ThreeDigitsRead ==
  ASSUME NEW n \in Nat, n < 1000, NEW s \in Int
  PROVE  Says(F!ThreeDigitWords(n), At(0, s), At(n, s))
<1> DEFINE q == n \div 100  y == n % 100
           head == IF n >= 100 THEN <<q, F!Hundred>> ELSE <<>>
<1>1. q \in Nat /\ y \in Nat /\ y < 100 /\ q * 100 + y = n /\ (n >= 100 \/ q = 0) /\ q * 100 \in Int
  OBVIOUS
<1>2. F!ThreeDigitWords(n) = head \o F!TwoDigitWords(y)
  BY DEF F!ThreeDigitWords
<1> HIDE DEF q, y
<1>3. Says(head, At(0, s), At(q * 100, s))
  <2>1. CASE n >= 100
    <3>1. Says(<<q>>, At(0, s), At(0 + q, s)) /\ 0 + q = q /\ q \in Int
      BY <1>1, NumberSaid
    <3>2. Says(<<F!Hundred>>, At(q, s), At(q * 100, s))
      BY <1>1, <3>1, HundredSaid
    <3>3. Says(<<q>> \o <<F!Hundred>>, At(0, s), At(q * 100, s))
      BY <3>1, <3>2, SaysMore
    <3>4. head = <<q>> \o <<F!Hundred>>
      BY <2>1
    <3> QED BY <3>3, <3>4
  <2>2. CASE ~(n >= 100)
    <3>1. head = <<>> /\ q * 100 = 0
      BY <1>1, <2>2
    <3> QED BY <3>1, NoneSaid
  <2> QED BY <2>1, <2>2
<1>4. Says(F!TwoDigitWords(y), At(q * 100, s), At(n, s))
  BY <1>1, TwoDigitsRead
<1> HIDE DEF head
<1> QED BY <1>2, <1>3, <1>4, SaysMore

LEMMA CountedRead ==
  ASSUME NEW n \in Nat, n < 1000, NEW s \in Int
  PROVE  /\ Says(F!Counted(n, F!Thousand), At(0, s), At(0, s + n * OneThousand))
         /\ Says(F!Counted(n, F!Lakh), At(0, s), At(0, s + n * OneLakh))
<1>1. CASE n = 0
  <2>1. F!Counted(n, F!Thousand) = <<>> /\ F!Counted(n, F!Lakh) = <<>>
    BY <1>1 DEF F!Counted
  <2>2. s + n * OneThousand = s /\ s + n * OneLakh = s
    BY <1>1 DEF OneLakh, OneThousand
  <2> QED BY <2>1, <2>2, NoneSaid
<1>2. CASE n # 0
  <2> DEFINE head == F!ThreeDigitWords(n)
  <2>1. Says(head, At(0, s), At(n, s))
    BY ThreeDigitsRead
  <2>2. F!Counted(n, F!Thousand) = Append(head, F!Thousand) /\ F!Counted(n, F!Lakh) = Append(head, F!Lakh)
    BY <1>2 DEF F!Counted
  <2> HIDE DEF head
  <2>3. head \in Seq(Spoken)
    BY <2>1 DEF Says
  <2>4. F!Counted(n, F!Thousand) = head \o <<F!Thousand>> /\ F!Counted(n, F!Lakh) = head \o <<F!Lakh>>
    <3>1. \A w \in Spoken : Append(head, w) = head \o <<w>>
      BY <2>3
    <3> QED BY <2>2, <3>1, AllSpoken, Zenon
  <2>5. /\ Says(<<F!Thousand>>, At(n, s), At(0, s + n * OneThousand))
        /\ Says(<<F!Lakh>>, At(n, s), At(0, s + n * OneLakh))
    <3>1. n \in Int
      OBVIOUS
    <3>2. Says(<<F!Thousand>>, At(n, s), At(0, s + n * OneThousand))
      BY <3>1, ThousandSaid
    <3>3. Says(<<F!Lakh>>, At(n, s), At(0, s + n * OneLakh))
      BY <3>1, LakhSaid
    <3> QED BY <3>2, <3>3
  <2> QED BY <2>1, <2>4, <2>5, SaysMore
<1> QED BY <1>1, <1>2

\* The words of the crores, and the others.
Crores(c) == IF c = 0 THEN <<>> ELSE Append(F!BelowCrore(c), F!Crore)

LEMMA BelowCroreRead ==
  ASSUME NEW n \in Nat, n < TenCrore, NEW s \in Int
  PROVE  \E x \in Int : Says(F!BelowCrore(n), At(0, s), At(x, s + n - x))
<1> DEFINE l == n \div 100000  t == (n \div 1000) % 100  x == n % 1000
           u == s + l * OneLakh
           v == u + t * OneThousand
<1>1. /\ l \in Nat /\ l < 1000 /\ t \in Nat /\ t < 1000 /\ x \in Nat /\ x < 1000
      /\ l * 100000 + t * 1000 + x = n
  BY SMT DEF TenCrore
<1>2. F!BelowCrore(n) = F!Counted(l, F!Lakh) \o F!Counted(t, F!Thousand) \o F!ThreeDigitWords(x)
  BY SMT DEF F!BelowCrore
<1> HIDE DEF l, t, x
<1>3. u \in Int /\ v \in Int /\ v = s + n - x
  BY <1>1, SMT DEF OneLakh, OneThousand
<1>4. Says(F!Counted(l, F!Lakh), At(0, s), At(0, u))
  BY <1>1, CountedRead
<1>5. Says(F!Counted(t, F!Thousand), At(0, u), At(0, v))
  BY <1>1, <1>3, CountedRead
<1>6. Says(F!ThreeDigitWords(x), At(0, v), At(x, v))
  BY <1>1, <1>3, ThreeDigitsRead
<1> HIDE DEF u, v
<1>7. Says(F!Counted(l, F!Lakh) \o F!Counted(t, F!Thousand), At(0, s), At(0, v))
  BY <1>4, <1>5, SaysMore, Zenon
<1>8. Says(F!BelowCrore(n), At(0, s), At(x, v))
  BY <1>2, <1>6, <1>7, SaysMore, Zenon
<1> QED BY <1>1, <1>3, <1>8

LEMMA CroresRead ==
  ASSUME NEW c \in Nat, c < TenCrore
  PROVE  Says(Crores(c), At(0, 0), At(0, InCrores(c)))
<1>1. CASE c = 0
  <2>1. Crores(c) = <<>> /\ InCrores(c) = 0
    BY <1>1, SMT DEF OneCrore, InCrores, Crores
  <2>2. Says(<<>>, At(0, 0), At(0, 0))
    BY NoneSaid
  <2> QED BY <2>1, <2>2
<1>2. CASE c # 0
  <2>1. PICK x \in Int : Says(F!BelowCrore(c), At(0, 0), At(x, 0 + c - x))
    BY BelowCroreRead
  <2>2. 0 + c - x \in Int /\ ((0 + c - x) + x) = c
    BY <2>1
  <2>3. PICK y \in Int : y = 0 + c - x
    BY <2>2
  <2>4. Says(<<F!Crore>>, At(x, y), At(0, InCrores(y + x)))
    BY <2>1, <2>3, CroreSaid
  <2>5. Says(<<F!Crore>>, At(x, y), At(0, InCrores(c)))
    BY <2>2, <2>3, <2>4
  <2>6. Says(F!BelowCrore(c), At(0, 0), At(x, y))
    BY <2>1, <2>3
  <2>7. Says(F!BelowCrore(c) \o <<F!Crore>>, At(0, 0), At(0, InCrores(c)))
    BY <2>5, <2>6, SaysMore
  <2> DEFINE below == F!BelowCrore(c)
  <2>8. below \in Seq(Spoken) /\ Crores(c) = Append(below, F!Crore)
    BY <1>2, <2>6 DEF Says, Crores
  <2>9. Says(below \o <<F!Crore>>, At(0, 0), At(0, InCrores(c)))
    BY <2>7
  <2> HIDE DEF below
  <2>10. Append(below, F!Crore) = below \o <<F!Crore>>
    BY <2>8
  <2> QED BY <2>8, <2>9, <2>10
<1> QED BY <1>1, <1>2

LEMMA IndianWordsAre ==
  ASSUME NEW n \in Nat, n # 0
  PROVE  F!IndianWords(n) = Crores(n \div OneCrore) \o F!BelowCrore(n % OneCrore)
<1> DEFINE p == n \div 10000000  q == n % 10000000
<1>1. F!IndianWords(n) = IF n = 0 THEN <<0>> ELSE Crores(p) \o F!BelowCrore(q)
  BY DEF F!IndianWords, Crores
<1>2. p = n \div OneCrore /\ q = n % OneCrore
  BY SMT DEF OneCrore
<1> HIDE DEF p, q
<1> QED BY <1>1, <1>2, Zenon

LEMMA IndianWordsRead ==
  ASSUME NEW n \in Nat, n \div OneCrore < TenCrore
  PROVE  \E x \in Int : Says(F!IndianWords(n), At(0, 0), At(x, n - x))
<1>1. CASE n = 0
  <2>1. F!IndianWords(n) = <<0>>
    BY <1>1, SMT DEF F!IndianWords
  <2>2. Says(<<0>>, At(0, 0), At(0 + 0, 0))
    BY 0 \in Nat, 0 \in Int, NumberSaid
  <2>3. 0 + 0 = 0 /\ n - 0 = 0 /\ 0 \in Int
    BY <1>1
  <2> QED BY <2>1, <2>2, <2>3
<1>2. CASE n # 0
  <2> DEFINE c == n \div OneCrore  r == n % OneCrore
             s == InCrores(c)
  <2>1. c \in Nat /\ c < TenCrore /\ r \in Nat /\ r < TenCrore /\ s + r = n /\ s \in Int
    BY SMT DEF OneCrore, TenCrore, InCrores
  <2>2. F!IndianWords(n) = Crores(c) \o F!BelowCrore(r)
    BY <1>2, IndianWordsAre, Zenon
  <2> HIDE DEF c, r
  <2>3. Says(Crores(c), At(0, 0), At(0, s))
    BY <2>1, CroresRead
  <2>4. PICK x \in Int : Says(F!BelowCrore(r), At(0, s), At(x, s + r - x))
    BY <2>1, BelowCroreRead
  <2>5. s + r - x = n - x
    BY <2>1
  <2> HIDE DEF s
  <2>6. Says(F!IndianWords(n), At(0, 0), At(x, n - x))
    BY <2>2, <2>3, <2>4, <2>5, SaysMore
  <2> QED BY <2>6
<1> QED BY <1>1, <1>2

\* What is heard in the end is what is read.
LEMMA ReadIs ==
  ASSUME NEW v, NEW x \in Int, NEW y \in Int, Says(v, At(0, 0), At(x, y))
  PROVE  F!Read(v) = y + x
<1> DEFINE n == Len(v)
           Is(s) == s = [i \in 0..Len(v) |->
                           IF i = 0 THEN [now |-> 0, sum |-> 0] ELSE F!Heard(v[i], s[i - 1])]
<1>0. n \in Nat
  BY DEF Says
<1>1. PICK g \in [0..n -> Heards] :
        g[0] = At(0, 0) /\ g[n] = At(x, y) /\ \A i \in 1..n : g[i] = F!Heard(v[i], g[i - 1])
  BY DEF Says
<1>2. Is(g)
  <2>1. \A i \in 0..n : i # 0 => i \in 1..n
    BY <1>0
  <2>2. \A i \in 0..n : g[i] = IF i = 0 THEN [now |-> 0, sum |-> 0] ELSE F!Heard(v[i], g[i - 1])
    BY <1>1, <2>1 DEF At
  <2>3. g = [i \in 0..n |-> g[i]]
    OBVIOUS
  <2> QED BY <2>2, <2>3
<1> DEFINE h == CHOOSE s : Is(s)
<1>3. Is(h)
  BY <1>2
<1>4. F!Read(v) = h[n].sum + h[n].now
  BY DEF F!Read
<1> HIDE DEF h
<1>5. h[0] = At(0, 0) /\ \A i \in 1..n : h[i] = F!Heard(v[i], h[i - 1])
  <2>1. \A i \in 1..n : i \in 0..n /\ i # 0
    BY <1>0
  <2>2. 0 \in 0..n
    BY <1>0
  <2> HIDE DEF n
  <2>3. h = [i \in 0..n |-> IF i = 0 THEN [now |-> 0, sum |-> 0] ELSE F!Heard(v[i], h[i - 1])]
    BY <1>3 DEF n
  <2>4. h[0] = [now |-> 0, sum |-> 0]
    BY <2>2, <2>3
  <2>5. \A i \in 1..n : h[i] = F!Heard(v[i], h[i - 1])
    BY <2>1, <2>3
  <2> QED BY <2>4, <2>5 DEF At
<1> HIDE DEF n, Is
<1> DEFINE Good == {i \in Nat : i <= n => h[i] = g[i]}
<1>6. 0 \in Good
  BY <1>1, <1>5
<1>7. ASSUME NEW i \in Nat, i \in Good PROVE i + 1 \in Good
  <2> SUFFICES ASSUME i + 1 <= n PROVE h[i + 1] = g[i + 1]
    OBVIOUS
  <2>1. i + 1 \in 1..n /\ (i + 1) - 1 = i /\ h[i] = g[i]
    BY <1>0, <1>7
  <2> QED BY <1>1, <1>5, <2>1
<1> HIDE DEF Good
<1>8. n \in Good
  BY <1>0, <1>6, <1>7, EveryNumber
<1>9. h[n] = At(x, y)
  BY <1>0, <1>1, <1>8 DEF Good
<1> QED BY <1>4, <1>9 DEF At

LEMMA AmountReads ==
  ASSUME NEW n \in Nat, n \div OneCrore < TenCrore
  PROVE  F!IndianWords(n) \in Seq(Spoken) /\ F!Read(F!IndianWords(n)) = n
<1>1. PICK x \in Int : Says(F!IndianWords(n), At(0, 0), At(x, n - x))
  BY IndianWordsRead
<1>2. n - x \in Int /\ (n - x) + x = n
  BY <1>1
<1>3. F!Read(F!IndianWords(n)) = (n - x) + x
  BY <1>1, <1>2, ReadIs
<1> QED BY <1>1, <1>2, <1>3 DEF Says

LEMMA PrintedAmounts ==
  /\ \A n \in Rupees : n \in Nat /\ n \div OneCrore < TenCrore
  /\ \A n \in Paise : n \in Nat /\ n \div OneCrore < TenCrore
<1>1. \A n \in Rupees : n \in Nat /\ n \div OneCrore < TenCrore
  BY PlatformAssumption, SMT DEF F!FiguresAssumption, OneCrore, TenCrore
<1>2. \A n \in Paise : n \in Nat /\ n < 100
  BY PlatformAssumption, SMT DEF F!FiguresAssumption
<1>3. \A n \in Nat : n < 100 => n \div OneCrore < TenCrore
  BY SMT DEF OneCrore, TenCrore
<1> QED BY <1>1, <1>2, <1>3

LEMMA SpokenAre == Spoken \subseteq Int /\ F!Rupee \in Int /\ F!Paisa \in Int /\ F!Rupee \notin Spoken
BY SMT DEF Spoken, Units, F!Hundred, F!Thousand, F!Lakh, F!Crore, F!Rupee, F!Paisa

\* The rupees end at the first word that says so.
LEMMA CutIs ==
  ASSUME NEW u \in Seq(Spoken), NEW w \in Seq(Int)
  PROVE  LET v == Append(u, F!Rupee) \o w
             cut == F!SelectInSeq(v, LAMBDA x : x = F!Rupee)
         IN /\ SubSeq(v, 1, cut - 1) = u
            /\ SubSeq(v, cut + 1, Len(v)) = w
<1> DEFINE v == Append(u, F!Rupee) \o w
           k == Len(u) + 1
           At1 == {i \in 1..Len(v) : v[i] = F!Rupee}
<1>0. Spoken \subseteq Int /\ F!Rupee \in Int /\ F!Rupee \notin Spoken
  BY SpokenAre
<1>1. u \in Seq(Int) /\ Append(u, F!Rupee) \in Seq(Int) /\ v \in Seq(Int)
  <2>1. u \in [1..Len(u) -> Int] /\ Len(u) \in Nat
    <3>1. u \in [1..Len(u) -> Spoken] /\ Len(u) \in Nat
      OBVIOUS
    <3> QED BY <1>0, <3>1
  <2>2. u \in Seq(Int)
    BY <2>1
  <2>3. Append(u, F!Rupee) \in Seq(Int)
    BY <1>0, <2>2
  <2> QED BY <2>2, <2>3
<1>2. k \in Nat /\ k - 1 = Len(u) /\ Len(v) = k + Len(w) /\ Len(w) \in Nat
  BY <1>1
<1>3. /\ \A i \in 1..k - 1 : v[i] = u[i] /\ u[i] \in Spoken
      /\ v[k] = F!Rupee
      /\ \A i \in 1..Len(w) : v[k + i] = w[i]
  BY <1>0, <1>1, <1>2
<1>4. F!SelectInSeq(v, LAMBDA x : x = F!Rupee) = IF At1 # {} THEN F!Min(At1) ELSE 0
  BY DEF F!SelectInSeq
<1> HIDE DEF v, k
<1>5. k \in At1 /\ At1 \subseteq Nat /\ \A i \in At1 : k <= i
  <2>1. k \in 1..Len(v)
    BY <1>2
  <2>2. ASSUME NEW i \in 1..Len(v), v[i] = F!Rupee PROVE k <= i
    <3>1. k > i => i \in 1..k - 1
      BY <1>2
    <3> QED BY <1>0, <1>2, <1>3, <2>2, <3>1
  <2> QED BY <1>3, <2>1, <2>2
<1> HIDE DEF At1
<1>6. F!Min(At1) = k
  <2> DEFINE m == F!Min(At1)
  <2>1. m \in At1 /\ \A i \in At1 : m <= i
    BY <1>5 DEF F!Min
  <2> HIDE DEF m
  <2>2. m = k
    BY <1>2, <1>5, <2>1
  <2> QED BY <2>2 DEF m
<1> DEFINE cut == F!SelectInSeq(v, LAMBDA x : x = F!Rupee)
<1>7. cut = k
  BY <1>4, <1>5, <1>6
<1> HIDE DEF cut
<1>8. SubSeq(v, 1, cut - 1) = u
  <2>1. SubSeq(v, 1, k - 1) = [i \in 1..k - 1 |-> v[1 + i - 1]]
    BY <1>2, SubSeqIs
  <2>2. [i \in 1..k - 1 |-> v[1 + i - 1]] = u
    <3>1. u = [i \in 1..k - 1 |-> u[i]]
      BY <1>2
    <3>2. \A i \in 1..k - 1 : 1 + i - 1 = i
      BY <1>2
    <3> QED BY <1>3, <3>1, <3>2
  <2> QED BY <1>7, <2>1, <2>2
<1>9. SubSeq(v, cut + 1, Len(v)) = w
  <2> DEFINE n == Len(w)
  <2>1. n \in Nat /\ Len(v) - (k + 1) + 1 = n /\ Len(v) \in Int /\ k + 1 \in Int
    BY <1>2
  <2>2. SubSeq(v, k + 1, Len(v)) = [i \in 1..n |-> v[k + 1 + i - 1]]
    BY <2>1, SubSeqIs
  <2>3. \A i \in 1..n : k + 1 + i - 1 = k + i
    BY <1>2
  <2>4. w = [i \in 1..n |-> w[i]]
    OBVIOUS
  <2> HIDE DEF n
  <2>5. \A i \in 1..n : v[k + i] = w[i]
    BY <1>3 DEF n
  <2>6. [i \in 1..n |-> v[k + 1 + i - 1]] = [i \in 1..n |-> w[i]]
    BY <2>3, <2>5
  <2> QED BY <1>7, <2>2, <2>4, <2>6
<1> QED BY <1>8, <1>9 DEF cut, v

LEMMA AmountIsSaid ==
  ASSUME F!SayAmount
  PROVE  LET cut == F!SelectInSeq(answer'.words, LAMBDA w : w = F!Rupee)
             rest == SubSeq(answer'.words, cut + 1, Len(answer'.words))
         IN /\ F!Read(SubSeq(answer'.words, 1, cut - 1)) = asked'.rupees
            /\ IF rest = <<>> THEN asked'.paise = 0 ELSE F!Read(F!Front(rest)) = asked'.paise
<1>1. PICK rupees \in Rupees, paise \in Paise :
        /\ asked' = [of |-> "words", rupees |-> rupees, paise |-> paise]
        /\ answer' = [words |-> F!AmountInWords(rupees, paise)]
  BY Zenon DEF F!SayAmount, F!Figure
<1>2. /\ rupees \in Nat /\ rupees \div OneCrore < TenCrore
      /\ paise \in Nat /\ paise \div OneCrore < TenCrore
  BY PrintedAmounts
<1> DEFINE u == F!IndianWords(rupees)  p == F!IndianWords(paise)
           w == IF paise = 0 THEN <<>> ELSE Append(p, F!Paisa)
           v == Append(u, F!Rupee) \o w
           cut == F!SelectInSeq(v, LAMBDA x : x = F!Rupee)
           rest == SubSeq(v, cut + 1, Len(v))
<1>3. u \in Seq(Spoken) /\ F!Read(u) = rupees /\ p \in Seq(Spoken) /\ F!Read(p) = paise
  BY <1>2, AmountReads
<1>4. asked'.rupees = rupees /\ asked'.paise = paise /\ answer'.words = v
  BY <1>1 DEF F!AmountInWords
<1> HIDE DEF u, p
<1>5. w \in Seq(Int) /\ (w = <<>> => paise = 0) /\ (w # <<>> => F!Front(w) = p)
  <2>1. CASE paise = 0
    BY <2>1
  <2>2. CASE paise # 0
    <3>1. w = Append(p, F!Paisa)
      BY <2>2
    <3> HIDE DEF w
    <3> DEFINE n == Len(p)
    <3>2. p \in [1..n -> Spoken] /\ n \in Nat
      BY <1>3
    <3>3. p \in [1..n -> Int]
      BY <3>2, SpokenAre
    <3>4. p \in Seq(Int) /\ F!Paisa \in Int
      BY <3>2, <3>3, SpokenAre
    <3>5. w \in Seq(Int) /\ Len(w) = n + 1 /\ w # <<>> /\ \A i \in 1..n : w[i] = p[i]
      BY <3>1, <3>4
    <3>6. F!Front(w) = SubSeq(w, 1, n)
      BY <3>2, <3>5 DEF F!Front
    <3>7. SubSeq(w, 1, n) = [i \in 1..n |-> w[1 + i - 1]]
      BY <3>2, SubSeqIs
    <3>8. p = [i \in 1..n |-> p[i]]
      BY <3>2
    <3> HIDE DEF n
    <3>9. [i \in 1..n |-> w[1 + i - 1]] = [i \in 1..n |-> p[i]]
      <4>1. \A i \in 1..n : 1 + i - 1 = i
        BY <3>2
      <4> QED BY <3>5, <4>1
    <3> QED BY <3>5, <3>6, <3>7, <3>8, <3>9
  <2> QED BY <2>1, <2>2
<1> HIDE DEF w
<1>6. SubSeq(v, 1, cut - 1) = u /\ rest = w
  BY <1>3, <1>5, CutIs
<1> HIDE DEF cut, v
<1>7. /\ F!Read(SubSeq(v, 1, cut - 1)) = rupees
      /\ IF rest = <<>> THEN paise = 0 ELSE F!Read(F!Front(rest)) = paise
  BY <1>3, <1>5, <1>6
<1> QED BY <1>4, <1>7 DEF cut

-----------------------------------------------------------------------------
(* Amounts in groups. *)

Weight(g, i) == IF i = Len(g) THEN 1000 ELSE 100

Seen(g, s) ==
  /\ g \in Seq(Nat) /\ s \in [0..Len(g) -> Nat]
  /\ s[0] = 0 /\ \A i \in 1..Len(g) : s[i] = s[i - 1] * Weight(g, i) + g[i]

LEMMA SeenIs == ASSUME NEW g, NEW s, Seen(g, s) PROVE F!ReadGroups(g) = s[Len(g)]
<1> DEFINE n == Len(g)
           Is(f) == f = [i \in 0..Len(g) |->
                           IF i = 0 THEN 0 ELSE f[i - 1] * (IF i = Len(g) THEN 1000 ELSE 100) + g[i]]
           f == CHOOSE e : Is(e)
<1>0. n \in Nat /\ s \in [0..n -> Nat] /\ s[0] = 0 /\ \A i \in 1..n : s[i] = s[i - 1] * Weight(g, i) + g[i]
  BY DEF Seen
<1>1. F!ReadGroups(g) = f[n]
  BY DEF F!ReadGroups
<1>2. Is(s)
  <2>1. \A i \in 0..n : i # 0 => i \in 1..n
    BY <1>0
  <2>2. \A i \in 0..n : s[i] = IF i = 0 THEN 0 ELSE s[i - 1] * Weight(g, i) + g[i]
    BY <1>0, <2>1
  <2>3. s = [i \in 0..n |-> s[i]]
    BY <1>0
  <2>4. s = [i \in 0..n |-> IF i = 0 THEN 0 ELSE s[i - 1] * Weight(g, i) + g[i]]
    BY <2>2, <2>3, Zenon
  <2> QED BY <2>4, Zenon DEF Weight
<1> HIDE DEF n, Is
<1>3. Is(f)
  BY <1>2, Zenon
<1> HIDE DEF f
<1>4. f = [i \in 0..n |-> IF i = 0 THEN 0 ELSE f[i - 1] * Weight(g, i) + g[i]]
  BY <1>3, Zenon DEF Weight, Is, n
<1>5. f[0] = 0 /\ \A i \in 1..n : f[i] = f[i - 1] * Weight(g, i) + g[i]
  <2>1. \A i \in 1..n : i \in 0..n /\ i # 0
    BY <1>0
  <2>2. 0 \in 0..n
    BY <1>0
  <2>3. f[0] = 0
    BY <1>4, <2>2, Zenon
  <2>4. \A i \in 1..n : f[i] = f[i - 1] * Weight(g, i) + g[i]
    BY <1>4, <2>1, Zenon
  <2> QED BY <2>3, <2>4
<1> DEFINE Good == {i \in Nat : i <= n => f[i] = s[i]}
<1>6. 0 \in Good
  BY <1>0, <1>5
<1>7. ASSUME NEW i \in Nat, i \in Good PROVE i + 1 \in Good
  <2> SUFFICES ASSUME i + 1 <= n PROVE f[i + 1] = s[i + 1]
    OBVIOUS
  <2>1. i + 1 \in 1..n /\ (i + 1) - 1 = i /\ f[i] = s[i]
    BY <1>0, <1>7
  <2> QED BY <1>0, <1>5, <2>1
<1> HIDE DEF Good
<1>8. n \in Good
  BY <1>0, <1>6, <1>7, EveryNumber
<1>9. f[n] = s[n]
  BY <1>0, <1>8 DEF Good
<1> QED BY <1>1, <1>9 DEF n

\* The pairs of a number are seen as it is.
Shown(v, k) ==
  /\ v \in Seq(Nat) /\ k \in Nat
  /\ \E s \in [0..Len(v) -> Nat] :
       s[0] = 0 /\ s[Len(v)] = k /\ \A i \in 1..Len(v) : s[i] = s[i - 1] * 100 + v[i]

\* One more, of a weight, after those that were seen.
OneMoreGroup(g, n, w, x) ==
  \E s \in [0..n -> Nat] :
    s[0] = 0 /\ s[n] = x /\ s[n] = s[n - 1] * w + g[n] /\ \A i \in 1..n - 1 : s[i] = s[i - 1] * 100 + g[i]

LEMMA OneMoreSeen ==
  ASSUME NEW v, NEW k, NEW r \in Nat, Shown(v, k), NEW w \in Nat
  PROVE  LET g == Append(v, r)
             n == Len(v) + 1
         IN /\ g \in Seq(Nat) /\ Len(g) = n /\ n \in Nat /\ n - 1 \in Nat
            /\ OneMoreGroup(g, n, w, k * w + r)
<1> DEFINE g == Append(v, r)  n == Len(v) + 1
<1>0. v \in Seq(Nat) /\ k \in Nat
  BY DEF Shown
<1>1. PICK s \in [0..n - 1 -> Nat] : s[0] = 0 /\ s[n - 1] = k /\ \A i \in 1..n - 1 : s[i] = s[i - 1] * 100 + v[i]
  <2>1. n - 1 = Len(v)
    BY <1>0
  <2> HIDE DEF n
  <2> QED BY <2>1, Zenon DEF Shown
<1>2. n \in Nat /\ n - 1 \in Nat /\ Len(g) = n /\ g \in Seq(Nat) /\ g[n] = r /\ \A i \in 1..n - 1 : g[i] = v[i]
  BY <1>0
<1> HIDE DEF n, g
<1>3. k * w + r \in Nat
  BY <1>0
<1> DEFINE t == [i \in 0..n |-> IF i = n THEN k * w + r ELSE s[i]]
<1>4. t \in [0..n -> Nat]
  BY <1>2, <1>3
<1>5. t[0] = 0 /\ t[n] = k * w + r /\ t[n - 1] = k
  BY <1>1, <1>2
<1>6. ASSUME NEW i \in 1..n - 1 PROVE t[i] = t[i - 1] * 100 + g[i]
  <2>1. i # n /\ i - 1 # n /\ i \in 0..n /\ i - 1 \in 0..n
    BY <1>2
  <2>2. t[i] = s[i] /\ t[i - 1] = s[i - 1]
    BY <2>1
  <2> HIDE DEF t
  <2> QED BY <1>1, <1>2, <2>2
<1> HIDE DEF t
<1>7. t[n] = t[n - 1] * w + g[n]
  BY <1>2, <1>5
<1> QED BY <1>2, <1>4, <1>5, <1>6, <1>7 DEF OneMoreGroup, g, n

LEMMA ShownMore ==
  ASSUME NEW v, NEW k, NEW r \in Nat, Shown(v, k)
  PROVE  Shown(Append(v, r), k * 100 + r)
<1> DEFINE g == Append(v, r)  n == Len(v) + 1
<1>0. k \in Nat /\ k * 100 + r \in Nat
  BY DEF Shown
<1>1. g \in Seq(Nat) /\ Len(g) = n /\ n \in Nat /\ n - 1 \in Nat
  BY 100 \in Nat, OneMoreSeen
<1>5. OneMoreGroup(g, n, 100, k * 100 + r)
  BY 100 \in Nat, OneMoreSeen
<1> HIDE DEF n, g
<1>2. PICK s \in [0..n -> Nat] :
        /\ s[0] = 0 /\ s[n] = k * 100 + r
        /\ s[n] = s[n - 1] * 100 + g[n]
        /\ \A i \in 1..n - 1 : s[i] = s[i - 1] * 100 + g[i]
  BY <1>5 DEF OneMoreGroup
<1>3. \A i \in 1..n : s[i] = s[i - 1] * 100 + g[i]
  <2>1. \A i \in 1..n : i = n \/ i \in 1..n - 1
    BY <1>1
  <2> QED BY <1>2, <2>1
<1>4. s \in [0..Len(g) -> Nat] /\ s[Len(g)] = k * 100 + r /\ \A i \in 1..Len(g) : s[i] = s[i - 1] * 100 + g[i]
  BY <1>1, <1>2, <1>3
<1> QED BY <1>0, <1>1, <1>2, <1>4 DEF Shown, g

LEMMA ShownNone == Shown(<<>>, 0)
<1> DEFINE s == [i \in 0..0 |-> 0]
<1>1. s \in [0..0 -> Nat] /\ s[0] = 0
  OBVIOUS
<1> HIDE DEF s
<1>2. <<>> \in Seq(Nat) /\ Len(<<>>) = 0 /\ 1..0 = {} /\ 0 \in Nat
  OBVIOUS
<1> QED BY <1>1, <1>2 DEF Shown

\* The last group stands for thousands, or is all there is.
LEMMA LastGroup ==
  ASSUME NEW v, NEW k, NEW r \in Nat, Shown(v, k)
  PROVE  F!ReadGroups(Append(v, r)) = k * OneThousand + r
<1> DEFINE g == Append(v, r)  n == Len(v) + 1
<1>0. OneThousand \in Nat
  BY SMT DEF OneThousand
<1>1. g \in Seq(Nat) /\ Len(g) = n /\ n \in Nat /\ n - 1 \in Nat
  BY <1>0, OneMoreSeen
<1>5. OneMoreGroup(g, n, OneThousand, k * OneThousand + r)
  BY <1>0, OneMoreSeen
<1> HIDE DEF n, g
<1>2. PICK s \in [0..n -> Nat] :
        /\ s[0] = 0 /\ s[n] = k * OneThousand + r
        /\ s[n] = s[n - 1] * OneThousand + g[n]
        /\ \A i \in 1..n - 1 : s[i] = s[i - 1] * 100 + g[i]
  BY <1>5 DEF OneMoreGroup
<1>3. ASSUME NEW i \in 1..n PROVE s[i] = s[i - 1] * Weight(g, i) + g[i]
  <2>1. CASE i = n
    BY <1>1, <1>2, <2>1 DEF Weight, OneThousand
  <2>2. CASE i # n
    <3>1. i \in 1..n - 1 /\ Weight(g, i) = 100
      BY <1>1, <2>2 DEF Weight
    <3> QED BY <1>2, <3>1
  <2> QED BY <2>1, <2>2
<1>4. Seen(g, s) /\ s[Len(g)] = k * OneThousand + r
  BY <1>1, <1>2, <1>3 DEF Seen
<1>6. F!ReadGroups(g) = k * OneThousand + r
  BY <1>4, SeenIs
<1> QED BY <1>6 DEF g

\* The pairs of the numbers up to m.
Longer(f, k) == Append(f[k \div 100], k % 100)

Paired(f, m) == \A k \in 0..m : f[k] = IF k < 100 THEN <<k>> ELSE Longer(f, k)

LEMMA PairsExist == ASSUME NEW n \in Nat PROVE \E f \in [0..n -> Seq(Nat)] : Paired(f, n)
<1> DEFINE Good == {m \in Nat : \E f \in [0..m -> Seq(Nat)] : Paired(f, m)}
<1>1. 0 \in Good
  <2> DEFINE f == [k \in 0..0 |-> <<0>>]
  <2>1. f \in [0..0 -> Seq(Nat)] /\ f[0] = <<0>>
    OBVIOUS
  <2> HIDE DEF f
  <2>2. Paired(f, 0)
    <3>1. \A k \in 0..0 : k = 0 /\ k < 100
      OBVIOUS
    <3> QED BY <2>1, <3>1, Zenon DEF Paired
  <2> QED BY <2>1, <2>2
<1>2. ASSUME NEW m \in Nat, m \in Good PROVE m + 1 \in Good
  <2>1. PICK f \in [0..m -> Seq(Nat)] : Paired(f, m)
    BY <1>2
  <2> DEFINE new == IF m + 1 < 100 THEN <<m + 1>> ELSE Longer(f, m + 1)
             g == [k \in 0..m + 1 |-> IF k = m + 1 THEN new ELSE f[k]]
  <2>2. new \in Seq(Nat)
    <3>1. CASE m + 1 < 100
      BY <3>1
    <3>2. CASE ~(m + 1 < 100)
      <4>1. (m + 1) \div 100 \in 0..m /\ (m + 1) % 100 \in Nat
        BY <3>2
      <4>2. f[(m + 1) \div 100] \in Seq(Nat)
        BY <4>1
      <4>3. new = Append(f[(m + 1) \div 100], (m + 1) % 100)
        BY <3>2 DEF Longer
      <4> HIDE DEF new
      <4> QED BY <4>1, <4>2, <4>3
    <3> QED BY <3>1, <3>2
  <2>3. g \in [0..m + 1 -> Seq(Nat)]
    <3> HIDE DEF new
    <3> QED BY <2>2
  <2>4. ASSUME NEW k \in 0..m + 1
        PROVE  g[k] = IF k < 100 THEN <<k>> ELSE Longer(g, k)
    <3>1. k \div 100 \in 0..m + 1 /\ (k \div 100 = m + 1 => k < 100)
      OBVIOUS
    <3>2. ~(k < 100) => Longer(g, k) = Longer(f, k)
      <4>1. ~(k < 100) => g[k \div 100] = f[k \div 100]
        BY <3>1
      <4> HIDE DEF g
      <4> QED BY <4>1 DEF Longer
    <3>3. CASE k = m + 1
      <4>1. g[k] = new
        BY <3>3
      <4> HIDE DEF g
      <4> QED BY <3>2, <3>3, <4>1
    <3>4. CASE k # m + 1
      <4>1. g[k] = f[k] /\ k \in 0..m
        BY <3>4
      <4> HIDE DEF g
      <4> QED BY <2>1, <3>2, <4>1 DEF Paired
    <3> QED BY <3>3, <3>4
  <2> HIDE DEF g
  <2>5. Paired(g, m + 1)
    BY <2>4 DEF Paired
  <2> QED BY <2>3, <2>5
<1> HIDE DEF Good
<1>3. n \in Good
  BY <1>1, <1>2, EveryNumber
<1> QED BY <1>3 DEF Good

LEMMA PairsAreShown ==
  ASSUME NEW n \in Nat, NEW f, Paired(f, n), NEW m \in 0..n
  PROVE  Shown(f[m], m)
<1> DEFINE Good == {j \in Nat : \A k \in 0..j : k <= n => Shown(f[k], k)}
<1>1. ASSUME NEW k \in 0..n, k < 100 PROVE Shown(f[k], k)
  <2>0. f[k] = IF k < 100 THEN <<k>> ELSE Longer(f, k)
    BY Zenon DEF Paired
  <2>1. f[k] = <<k>> /\ k \in Nat
    BY <1>1, <2>0
  <2>2. Shown(Append(<<>>, k), 0 * 100 + k)
    BY <2>1, ShownNone, ShownMore
  <2>3. Append(<<>>, k) = <<k>> /\ 0 * 100 + k = k
    BY <2>1
  <2> QED BY <2>1, <2>2, <2>3
<1>2. 0 \in Good
  BY <1>1
<1>3. ASSUME NEW j \in Nat, j \in Good PROVE j + 1 \in Good
  <2> SUFFICES ASSUME NEW k \in 0..j + 1, k <= n PROVE Shown(f[k], k)
    OBVIOUS
  <2>1. CASE k < 100
    BY <1>1, <2>1
  <2>2. CASE ~(k < 100)
    <3> DEFINE q == k \div 100  r == k % 100
    <3>1. q \in 0..j /\ q <= n /\ r \in Nat /\ q * 100 + r = k /\ k \in 0..n
      BY <2>2
    <3>2. Shown(f[q], q)
      BY <1>3, <3>1
    <3>3. f[k] = Append(f[q], r)
      <4>1. f[k] = Longer(f, k)
        BY <2>2, <3>1 DEF Paired
      <4> QED BY <4>1, Zenon DEF Longer
    <3> HIDE DEF q, r
    <3>4. Shown(Append(f[q], r), q * 100 + r)
      BY <3>1, <3>2, ShownMore
    <3> QED BY <3>1, <3>3, <3>4
  <2> QED BY <2>1, <2>2
<1> HIDE DEF Good
<1>4. m \in Good
  BY <1>2, <1>3, EveryNumber
<1> QED BY <1>4 DEF Good

LEMMA GroupsReadBack == ASSUME NEW n \in Nat PROVE F!ReadGroups(F!IndianGroups(n)) = n
<1>1. CASE n < 1000
  <2>1. F!IndianGroups(n) = <<n>>
    BY <1>1 DEF F!IndianGroups
  <2>2. Append(<<>>, n) = <<n>> /\ 0 * OneThousand + n = n
    BY SMT DEF OneThousand
  <2>3. F!ReadGroups(Append(<<>>, n)) = 0 * OneThousand + n
    BY ShownNone, LastGroup, Zenon
  <2> QED BY <2>1, <2>2, <2>3
<1>2. CASE ~(n < 1000)
  <2> DEFINE Is(f) == f = [k \in 0..n |-> IF k < 100 THEN <<k>> ELSE Append(f[k \div 100], k % 100)]
             pairs == CHOOSE f : Is(f)
             q == n \div 1000  r == n % 1000
  <2>1. F!IndianGroups(n) = IF n < 1000 THEN <<n>> ELSE Append(pairs[q], r)
    BY DEF F!IndianGroups
  <2>2. \E f : Is(f)
    <3>1. PICK f \in [0..n -> Seq(Nat)] : Paired(f, n)
      BY PairsExist
    <3>2. f = [k \in 0..n |-> f[k]]
      OBVIOUS
    <3>3. Is(f)
      BY <3>1, <3>2, Zenon DEF Paired, Longer
    <3> QED BY <3>3
  <2>3. Is(pairs)
    BY <2>2, Zenon
  <2>4. q \in 0..n /\ r \in Nat /\ q * OneThousand + r = n
    BY <1>2, SMT DEF OneThousand
  <2> HIDE DEF pairs, q, r
  <2>5. Paired(pairs, n)
    BY <2>3, Zenon DEF Paired, Longer
  <2>6. Shown(pairs[q], q)
    BY <2>4, <2>5, PairsAreShown
  <2>7. F!ReadGroups(Append(pairs[q], r)) = q * OneThousand + r
    BY <2>4, <2>6, LastGroup
  <2>8. F!IndianGroups(n) = Append(pairs[q], r)
    BY <1>2, <2>1, Zenon
  <2> QED BY <2>4, <2>7, <2>8
<1> QED BY <1>1, <1>2

LEMMA WordsStep == ASSUME F!Next PROVE F!WordsReadBack'
<1>1. ASSUME asked'.of = "words"
      PROVE  LET cut == F!SelectInSeq(answer'.words, LAMBDA w : w = F!Rupee)
                 rest == SubSeq(answer'.words, cut + 1, Len(answer'.words))
             IN /\ F!Read(SubSeq(answer'.words, 1, cut - 1)) = asked'.rupees
                /\ IF rest = <<>> THEN asked'.paise = 0 ELSE F!Read(F!Front(rest)) = asked'.paise
  <2>1. F!SayAmount
    BY <1>1, WhichFigure
  <2> QED BY <2>1, AmountIsSaid
<1>2. ASSUME asked'.of = "groups" PROVE F!ReadGroups(answer'.groups) = asked'.rupees
  <2>1. F!GroupAmount
    BY <1>2, WhichFigure
  <2>2. PICK n \in Rupees : asked' = [of |-> "groups", rupees |-> n] /\ answer' = [groups |-> F!IndianGroups(n)]
    BY <2>1, Zenon DEF F!GroupAmount, F!Figure
  <2>3. n \in Nat
    BY PrintedAmounts
  <2>4. F!ReadGroups(F!IndianGroups(n)) = n
    BY <2>3, GroupsReadBack
  <2>5. answer'.groups = F!IndianGroups(n) /\ asked'.rupees = n
    BY <2>2
  <2> QED BY <2>4, <2>5
<1> QED BY <1>1, <1>2 DEF F!WordsReadBack, F!Asked, F!SelectInSeq
================================================================================
