---------------------------- MODULE FormatProofs ----------------------------
(***************************************************************************)
(* Theorems about Format, for every set of calls, every size of a byte and *)
(* every buffer.                                                           *)
(*                                                                         *)
(* First the arithmetic: induction over the naturals, from which what the  *)
(* recursive definitions of the loops compute, and that their digits are   *)
(* those of the place values.  Then the items of a call, one after another *)
(* in its format, its arguments and its text, and the invariant: how far   *)
(* the loop has read, and what that leaves in every variable.              *)
(***************************************************************************)
EXTENDS Format, TLAPS, SequenceTheorems, WellFoundedInduction

-----------------------------------------------------------------------------
(***************************************************************************)
(* Induction.  The order of the naturals is well-founded, so a set of them *)
(* has a least one; what holds for every natural is stated as a set.       *)
(***************************************************************************)
Below == {p \in Nat \X Nat : p[1] < p[2]}

LEMMA BelowWF == IsWellFoundedOn(Below, Nat)
<1>1. OpToRel(<, Nat) = Below
  BY Zenon DEF OpToRel, Below
<1> QED BY <1>1, NatLessThanWellFounded, Zenon

LEMMA Least ==
  ASSUME NEW S \in SUBSET Nat, S # {}
  PROVE  \E n \in S : \A m \in S : n <= m
<1>1. PICK n \in S : \A m \in S : <<m, n>> \notin Below
  BY BelowWF, WFMin, Zenon
<1>2. \A i, j \in Nat : i < j => <<i, j>> \in Below
  BY DEF Below
<1>3. S \subseteq Nat
  OBVIOUS
<1>4. ASSUME NEW m \in S PROVE n <= m
  <2>1. m \in Nat /\ n \in Nat
    BY <1>3
  <2>2. ~(m < n)
    BY <1>1, <1>2, <2>1
  <2> QED BY <2>1, <2>2
<1> QED BY <1>4

\* A set that has 0, and every successor of its naturals, has them all.
LEMMA SetInduction ==
  ASSUME NEW S, 0 \in S, \A n \in Nat : n \in S => n + 1 \in S
  PROVE  Nat \subseteq S
<1> SUFFICES ASSUME Nat \ S # {} PROVE FALSE
  OBVIOUS
<1>1. PICK n \in Nat \ S : \A m \in Nat \ S : n <= m
  BY Least
<1>2. n # 0 /\ n - 1 \in Nat /\ ~(n <= n - 1)
  OBVIOUS
<1>3. n - 1 \in S
  BY <1>1, <1>2
<1>4. n - 1 + 1 \in S
  BY <1>2, <1>3
<1> QED BY <1>4

-----------------------------------------------------------------------------
(***************************************************************************)
(* Recursion.  A function on S is defined by its value on Z and, elsewhere,*)
(* by G from its value at next, which is smaller by mu.                    *)
(***************************************************************************)
Step(Z, z, G, next, f, v) == IF v \in Z THEN z[v] ELSE G[v][f[next[v]]]
Down(S, mu, n) == {v \in S : mu[v] < n}
Solves(S, A, mu, Z, z, G, next, n, g) ==
  /\ g \in [Down(S, mu, n) -> A]
  /\ \A v \in Down(S, mu, n) : g[v] = Step(Z, z, G, next, g, v)

Recurses(S, A, mu, next, Z, z, G) ==
  /\ mu \in [S -> Nat] /\ next \in [S -> S]
  /\ z \in [S -> A] /\ G \in [S -> [A -> A]]
  /\ \A v \in S : v \notin Z => mu[next[v]] < mu[v]

\* Two solutions agree where both are defined.
LEMMA SolutionsAgree ==
  ASSUME NEW S, NEW A, NEW mu \in [S -> Nat], NEW next \in [S -> S], NEW Z,
         NEW z \in [S -> A], NEW G \in [S -> [A -> A]],
         \A v \in S : v \notin Z => mu[next[v]] < mu[v],
         NEW n \in Nat, NEW g, Solves(S, A, mu, Z, z, G, next, n, g),
         NEW m \in Nat, NEW h, Solves(S, A, mu, Z, z, G, next, m, h)
  PROVE  \A v \in S : mu[v] < n /\ mu[v] < m => g[v] = h[v]
<1> DEFINE D == {v \in S : mu[v] < n /\ mu[v] < m /\ g[v] # h[v]}
           M == {mu[v] : v \in D}
<1> SUFFICES ASSUME D # {} PROVE FALSE
  OBVIOUS
<1>1. M \in SUBSET Nat /\ M # {}
  OBVIOUS
<1>2. PICK k \in M : \A j \in M : k <= j
  BY <1>1, Least
<1>3. PICK v \in D : k = mu[v]
  OBVIOUS
<1>4. v \in S /\ v \in Down(S, mu, n) /\ v \in Down(S, mu, m) /\ g[v] # h[v]
  BY DEF Down
<1>5. g[v] = Step(Z, z, G, next, g, v) /\ h[v] = Step(Z, z, G, next, h, v)
  BY <1>4 DEF Solves
<1>6. v \notin Z
  BY <1>4, <1>5 DEF Step
<1>7. next[v] \in S /\ mu[next[v]] < mu[v]
  BY <1>4, <1>6
<1>8. g[next[v]] # h[next[v]]
  BY <1>4, <1>5, <1>6 DEF Step
<1>9. mu[v] \in Nat /\ mu[next[v]] \in Nat /\ mu[v] < n /\ mu[v] < m
  BY <1>4, <1>7
<1>10. next[v] \in D
  BY <1>7, <1>8, <1>9
<1>11. k <= mu[next[v]]
  BY <1>2, <1>10
<1> QED BY <1>3, <1>7, <1>9, <1>11

\* There is a solution for each n.
LEMMA SolutionExists ==
  ASSUME NEW S, NEW A, NEW mu \in [S -> Nat], NEW next \in [S -> S], NEW Z,
         NEW z \in [S -> A], NEW G \in [S -> [A -> A]],
         \A v \in S : v \notin Z => mu[next[v]] < mu[v]
  PROVE  \A n \in Nat : \E g : Solves(S, A, mu, Z, z, G, next, n, g)
<1> DEFINE I == {n \in Nat : \E g : Solves(S, A, mu, Z, z, G, next, n, g)}
<1>1. 0 \in I
  <2>1. Down(S, mu, 0) = {}
    BY DEF Down
  <2>2. Solves(S, A, mu, Z, z, G, next, 0, [v \in {} |-> z[v]])
    BY <2>1 DEF Solves
  <2> QED BY <2>2
<1>2. ASSUME NEW n \in Nat, n \in I PROVE n + 1 \in I
  <2>1. PICK g : Solves(S, A, mu, Z, z, G, next, n, g)
    BY <1>2
  <2> DEFINE h == [v \in Down(S, mu, n + 1) |-> Step(Z, z, G, next, g, v)]
  <2>2. ASSUME NEW v \in Down(S, mu, n + 1), v \notin Z
        PROVE  /\ next[v] \in Down(S, mu, n) /\ next[v] \in Down(S, mu, n + 1)
               /\ h[next[v]] = g[next[v]]
    <3>1. v \in S /\ mu[v] < n + 1 /\ mu[v] \in Nat
      BY DEF Down
    <3>2. next[v] \in S /\ mu[next[v]] < mu[v] /\ mu[next[v]] \in Nat
      BY <3>1, <2>2
    <3>3. mu[next[v]] < n /\ mu[next[v]] < n + 1
      BY <3>1, <3>2
    <3>4. next[v] \in Down(S, mu, n) /\ next[v] \in Down(S, mu, n + 1)
      BY <3>2, <3>3 DEF Down
    <3> QED BY <2>1, <3>4 DEF Solves
  <2>3. ASSUME NEW v \in Down(S, mu, n + 1) PROVE h[v] \in A
    <3>1. v \in S
      BY DEF Down
    <3>2. CASE v \in Z
      BY <3>1, <3>2 DEF Step
    <3>3. CASE v \notin Z
      <4>1. g[next[v]] \in A
        BY <2>1, <2>2, <3>3 DEF Solves
      <4> QED BY <3>1, <3>3, <4>1 DEF Step
    <3> QED BY <3>2, <3>3
  <2>4. \A v \in Down(S, mu, n + 1) : h[v] = Step(Z, z, G, next, h, v)
    <3> TAKE v \in Down(S, mu, n + 1)
    <3>1. h[v] = Step(Z, z, G, next, g, v)
      OBVIOUS
    <3>2. v \notin Z => h[next[v]] = g[next[v]]
      BY <2>2
    <3> HIDE DEF h
    <3> QED BY <3>1, <3>2 DEF Step
  <2>5. h \in [Down(S, mu, n + 1) -> A]
    BY <2>3
  <2> HIDE DEF h
  <2>6. Solves(S, A, mu, Z, z, G, next, n + 1, h)
    BY <2>4, <2>5 DEF Solves
  <2> QED BY <2>6
<1>3. Nat \subseteq I
  <2> HIDE DEF I
  <2> QED BY <1>1, <1>2, SetInduction
<1> QED BY <1>3

\* There is a function that solves all of them at once.
LEMMA Recursion ==
  ASSUME NEW S, NEW A, NEW mu, NEW next, NEW Z, NEW z, NEW G,
         Recurses(S, A, mu, next, Z, z, G)
  PROVE  \E f \in [S -> A] : \A v \in S : f[v] = Step(Z, z, G, next, f, v)
<1> USE DEF Recurses
<1> DEFINE Sol(n) == CHOOSE g : Solves(S, A, mu, Z, z, G, next, n, g)
           f == [v \in S |-> Sol(mu[v] + 1)[v]]
<1>1. ASSUME NEW n \in Nat PROVE Solves(S, A, mu, Z, z, G, next, n, Sol(n))
  <2>1. \E g : Solves(S, A, mu, Z, z, G, next, n, g)
    BY SolutionExists
  <2> QED BY <2>1, Zenon
<1> HIDE DEF Sol
<1>2. ASSUME NEW v \in S
      PROVE  /\ mu[v] \in Nat /\ mu[v] + 1 \in Nat
             /\ v \in Down(S, mu, mu[v] + 1)
             /\ Solves(S, A, mu, Z, z, G, next, mu[v] + 1, Sol(mu[v] + 1))
  <2>1. mu[v] \in Nat /\ mu[v] + 1 \in Nat /\ mu[v] < mu[v] + 1
    OBVIOUS
  <2> QED BY <1>1, <2>1 DEF Down
<1>3. f \in [S -> A]
  <2>1. \A v \in S : f[v] \in A
    BY <1>2 DEF Solves
  <2> QED BY <2>1
<1>4. ASSUME NEW v \in S PROVE f[v] = Step(Z, z, G, next, f, v)
  <2> DEFINE g == Sol(mu[v] + 1)
  <2>1. g[v] = Step(Z, z, G, next, g, v)
    BY <1>2 DEF Solves
  <2>2. f[v] = g[v]
    OBVIOUS
  <2>3. CASE v \in Z
    <3> HIDE DEF f, g
    <3> QED BY <2>1, <2>2, <2>3 DEF Step
  <2>4. CASE v \notin Z
    <3> DEFINE w == next[v]
               h == Sol(mu[w] + 1)
    <3>1. w \in S /\ mu[w] < mu[v] /\ mu[w] \in Nat /\ mu[v] \in Nat
      BY <2>4
    <3>2. /\ mu[w] < mu[w] + 1 /\ mu[w] < mu[v] + 1
          /\ mu[w] + 1 \in Nat /\ mu[v] + 1 \in Nat
      BY <3>1
    <3>3. f[w] = h[w]
      BY <3>1
    <3>4. /\ Solves(S, A, mu, Z, z, G, next, mu[w] + 1, h)
          /\ Solves(S, A, mu, Z, z, G, next, mu[v] + 1, g)
      BY <1>1, <3>2
    <3> HIDE DEF f, g, h
    <3>5. h[w] = g[w]
      BY <3>1, <3>2, <3>4, SolutionsAgree
    <3> QED BY <2>1, <2>2, <2>4, <3>3, <3>5 DEF Step
  <2> QED BY <2>3, <2>4
<1> HIDE DEF f
<1> QED BY <1>3, <1>4
-----------------------------------------------------------------------------
(***************************************************************************)
(* Powers.                                                                 *)
(***************************************************************************)
LEMMA PowerRec ==
  ASSUME NEW b \in Nat
  PROVE  /\ Power(b, 0) = 1
         /\ \A k \in Nat : Power(b, k) \in Nat /\ Power(b, k + 1) = b * Power(b, k)
<1> DEFINE mu == [j \in Nat |-> j]
           next == [j \in Nat |-> IF j = 0 THEN 0 ELSE j - 1]
           z == [j \in Nat |-> 1]
           G == [j \in Nat |-> [x \in Nat |-> b * x]]
           Eq(f) == f = [j \in Nat |-> IF j = 0 THEN 1 ELSE b * f[j - 1]]
           p == CHOOSE f : Eq(f)
<1>1. \E f : Eq(f)
  <2>1. /\ mu \in [Nat -> Nat] /\ next \in [Nat -> Nat]
        /\ \A j \in Nat : j \notin {0} => mu[next[j]] < mu[j]
    OBVIOUS
  <2>2. z \in [Nat -> Nat] /\ G \in [Nat -> [Nat -> Nat]]
    OBVIOUS
  <2>3. \A j \in Nat : /\ \A x \in Nat : G[j][x] = b * x
                       /\ z[j] = 1
                       /\ j # 0 => next[j] = j - 1 /\ j - 1 \in Nat
    OBVIOUS
  <2> HIDE DEF mu, G, next, z
  <2>10. Recurses(Nat, Nat, mu, next, {0}, z, G)
    BY <2>1, <2>2 DEF Recurses
  <2>4. PICK f \in [Nat -> Nat] : \A j \in Nat : f[j] = Step({0}, z, G, next, f, j)
    BY <2>10, Recursion
  <2>5. ASSUME NEW j \in Nat PROVE f[j] = IF j = 0 THEN 1 ELSE b * f[j - 1]
    <3>1. CASE j = 0
      <4>1. f[j] = z[j]
        BY <2>4, <3>1 DEF Step
      <4>2. z[j] = 1
        BY <2>3
      <4> QED BY <3>1, <4>1, <4>2
    <3>2. CASE j # 0
      <4>1. next[j] = j - 1 /\ j - 1 \in Nat /\ f[j - 1] \in Nat
        BY <2>3, <3>2
      <4>2. f[j] = G[j][f[j - 1]]
        BY <2>4, <3>2, <4>1 DEF Step
      <4> QED BY <2>3, <3>2, <4>1, <4>2
    <3> QED BY <3>1, <3>2
  <2> QED BY <2>4, <2>5
<1>2. Eq(p)
  <2> HIDE DEF Eq
  <2> QED BY <1>1, Zenon
<1>3. \A k : Power(b, k) = p[k]
  BY Zenon DEF Power
<1> HIDE DEF p
<1>4. p[0] = 1 /\ \A k \in Nat : p[k + 1] = b * p[k]
  <2>1. \A k \in Nat : k + 1 \in Nat /\ k + 1 # 0 /\ k + 1 - 1 = k
    OBVIOUS
  <2> QED BY <1>2, <2>1
<1>5. \A k \in Nat : p[k] \in Nat
  <2> DEFINE I == {k \in Nat : p[k] \in Nat}
  <2>1. 0 \in I /\ \A k \in Nat : k \in I => k + 1 \in I
    BY <1>4
  <2>2. Nat \subseteq I
    <3> HIDE DEF I
    <3> QED BY <2>1, SetInduction
  <2> QED BY <2>2
<1> QED BY <1>3, <1>4, <1>5

LEMMA PowerGrows ==
  ASSUME NEW b \in Nat, b >= 2, NEW k \in Nat
  PROVE  Power(b, k) \in Nat /\ k < Power(b, k)
<1> DEFINE I == {j \in Nat : j < Power(b, j)}
<1>1. 0 \in I
  BY PowerRec
<1>2. ASSUME NEW j \in Nat, j \in I PROVE j + 1 \in I
  <2> PICK q : q = Power(b, j)
    OBVIOUS
  <2>1. q \in Nat /\ j + 1 <= q /\ Power(b, j + 1) = b * q
    BY <1>2, PowerRec
  <2>2. b * q >= 2 * q
    BY <2>1
  <2> QED BY <2>1, <2>2
<1>3. Nat \subseteq I
  <2> HIDE DEF I
  <2> QED BY <1>1, <1>2, SetInduction
<1> QED BY <1>3, PowerRec

LEMMA PowerSum ==
  ASSUME NEW b \in Nat, NEW i \in Nat, NEW k \in Nat
  PROVE  Power(b, i + k) = Power(b, i) * Power(b, k)
<1> DEFINE I == {j \in Nat : Power(b, i + j) = Power(b, i) * Power(b, j)}
<1>1. 0 \in I
  BY PowerRec
<1>2. ASSUME NEW j \in Nat, j \in I PROVE j + 1 \in I
  <2> PICK p, q, r : p = Power(b, i) /\ q = Power(b, j) /\ r = Power(b, i + j)
    OBVIOUS
  <2>1. /\ p \in Nat /\ q \in Nat /\ r \in Nat /\ i + j \in Nat /\ r = p * q
        /\ Power(b, j + 1) = b * q /\ Power(b, i + j + 1) = b * r
    BY <1>2, PowerRec
  <2>2. b * (p * q) = p * (b * q)
    BY <2>1
  <2>3. i + (j + 1) = i + j + 1
    OBVIOUS
  <2> QED BY <2>1, <2>2, <2>3
<1>3. Nat \subseteq I
  <2> HIDE DEF I
  <2> QED BY <1>1, <1>2, SetInduction
<1> QED BY <1>3

LEMMA PowerMonotone ==
  ASSUME NEW b \in Nat, b >= 2, NEW i \in Nat, NEW k \in Nat, i <= k
  PROVE  Power(b, i) <= Power(b, k)
<1>1. k - i \in Nat /\ i + (k - i) = k
  OBVIOUS
<1> PICK p, q : p = Power(b, i) /\ q = Power(b, k - i)
  OBVIOUS
<1>2. p \in Nat /\ q \in Nat /\ q > 0 /\ Power(b, k) = p * q
  BY <1>1, PowerGrows, PowerSum
<1>3. p <= p * q
  BY <1>2
<1> QED BY <1>2, <1>3
-----------------------------------------------------------------------------
(***************************************************************************)
(* Numerals.                                                               *)
(***************************************************************************)
Char == {DigitChar[k] : k \in 1 .. 25}

LEMMA DigitIsChar == \A d \in 0 .. 15 : Digit(d) \in Char
<1>1. \A d \in 0 .. 15 : 10 + d \in 1 .. 25
  OBVIOUS
<1> QED BY <1>1 DEF Digit, Char

LEMMA DivMod ==
  ASSUME NEW n \in Int, NEW d \in Nat, d > 0, NEW q, NEW r, q = n \div d, r = n % d
  PROVE  /\ q \in Int /\ r \in 0 .. d - 1
         /\ n = d * q + r
         /\ n \in Nat => q \in Nat
<1>1. q \in Int /\ r \in 0 .. d - 1
  OBVIOUS
<1>2. n = d * q + r
  BY <1>1
<1>3. ASSUME n \in Nat PROVE q \in Nat
  <2>1. CASE q + 1 <= 0
    <3>1. d * (q + 1) <= 0 /\ d * (q + 1) = d * q + d
      BY <1>1, <2>1
    <3> PICK e : e = d * q
      OBVIOUS
    <3>2. e \in Int /\ e + d <= 0 /\ n = e + r
      BY <1>1, <1>2, <3>1
    <3> QED BY <1>1, <1>3, <3>2
  <2>2. CASE ~(q + 1 <= 0)
    BY <1>1, <2>2
  <2> QED BY <2>1, <2>2
<1> QED BY <1>1, <1>2, <1>3

LEMMA DivModIs ==
  ASSUME NEW n \in Int, NEW d \in Nat, NEW q \in Int, NEW r \in 0 .. d - 1, n = d * q + r
  PROVE  n \div d = q /\ n % d = r
OBVIOUS

LEMMA DivDiv ==
  ASSUME NEW n \in Nat, NEW a \in Nat, NEW b \in Nat, a > 0, b > 0
  PROVE  (n \div a) \div b = n \div (a * b)
<1> PICK q, r : q = n \div a /\ r = n % a
  OBVIOUS
<1>1. q \in Nat /\ r \in 0 .. a - 1 /\ n = a * q + r
  BY DivMod
<1> PICK s, t : s = q \div b /\ t = q % b
  OBVIOUS
<1>2. s \in Nat /\ t \in 0 .. b - 1 /\ q = b * s + t
  BY <1>1, DivMod
<1>3. n = (a * b) * s + (a * t + r)
  <2>1. a * q = a * (b * s + t)
    BY <1>2
  <2>2. a * (b * s + t) = (a * b) * s + a * t
    BY <1>2
  <2> QED BY <1>1, <1>2, <2>1, <2>2
<1>4. a * t + r \in 0 .. a * b - 1 /\ a * b \in Nat /\ a * b > 0
  <2>1. t + 1 <= b /\ t \in Nat
    BY <1>2
  <2>2. a * (t + 1) <= a * b
    BY <2>1
  <2>3. a * (t + 1) = a * t + a /\ a * t \in Nat
    BY <2>1
  <2>4. r \in Nat /\ r < a
    BY <1>1
  <2> PICK e, f : e = a * b /\ f = a * t
    OBVIOUS
  <2>5. e \in Nat /\ f \in Nat /\ f + a <= e
    BY <2>2, <2>3
  <2> QED BY <2>4, <2>5
<1> QED
  <2> PICK m, u : m = a * b /\ u = a * t + r
    OBVIOUS
  <2>1. n \div m = s
    BY <1>2, <1>3, <1>4, DivModIs
  <2> QED BY <2>1

\* The equation of the loops.
LEMMA ReversedRec ==
  ASSUME NEW base \in Nat, base >= 2
  PROVE  /\ Reversed(0, base) = << >>
         /\ \A v \in Int \ {0} :
              Reversed(v, base)
                = <<Digit(Remainder(v, base))>> \o Reversed(Quotient(v, base), base)
<1> DEFINE Found == {Digit(Remainder(v, base)) : v \in Int}
           A == Seq(Found)
           mu == [v \in Int |-> IF v < 0 THEN -v ELSE v]
           next == [v \in Int |-> Quotient(v, base)]
           z == [v \in Int |-> << >>]
           G == [v \in Int |-> [s \in A |-> <<Digit(Remainder(v, base))>> \o s]]
           Eq(f) == f = [v \in Int |->
                           IF v = 0 THEN << >>
                           ELSE <<Digit(Remainder(v, base))>> \o f[Quotient(v, base)]]
           p == CHOOSE f : Eq(f)
<1>1. ASSUME NEW v \in Int PROVE Quotient(v, base) \in Int
  <2>1. CASE v < 0
    <3>1. -v \in Int
      OBVIOUS
    <3>2. (-v) \div base \in Int
      BY <3>1, DivMod
    <3> QED BY <2>1, <3>2 DEF Quotient
  <2>2. CASE ~(v < 0)
    BY <2>2, DivMod DEF Quotient
  <2> QED BY <2>1, <2>2
<1>2. \E f : Eq(f)
  <2>1. ASSUME NEW v \in Int, v # 0 PROVE mu[next[v]] < mu[v]
    <3>1. ASSUME NEW n \in Nat, n > 0 PROVE n \div base < n /\ n \div base \in Nat
      <4> PICK q, r : q = n \div base /\ r = n % base
        OBVIOUS
      <4>0. n \in Int /\ base > 0
        OBVIOUS
      <4>1. q \in Nat /\ r \in 0 .. base - 1 /\ n = base * q + r
        BY <4>0, DivMod
      <4>2. base * q >= 2 * q
        BY <4>1
      <4> QED BY <3>1, <4>1, <4>2
    <3>2. CASE v < 0
      <4> PICK m, q : m = -v /\ q = m \div base
        OBVIOUS
      <4>1. m \in Nat /\ m > 0 /\ q < m /\ q \in Nat
        BY <3>1, <3>2
      <4>2. next[v] = -q /\ -q \in Int
        BY <3>2, <4>1 DEF Quotient
      <4>3. mu[-q] = q /\ mu[v] = m
        BY <3>2, <4>1
      <4> QED BY <4>1, <4>2, <4>3
    <3>3. CASE v > 0
      <4>1. next[v] = v \div base /\ v \div base < v /\ v \div base \in Nat
        BY <3>1, <3>3 DEF Quotient
      <4> QED BY <3>3, <4>1
    <3> QED BY <2>1, <3>2, <3>3
  <2>2. mu \in [Int -> Nat] /\ next \in [Int -> Int]
    BY <1>1
  <2>3. z \in [Int -> A] /\ G \in [Int -> [A -> A]]
    <3>1. \A v \in Int : <<Digit(Remainder(v, base))>> \in A
      OBVIOUS
    <3>2. \A v \in Int, s \in A : <<Digit(Remainder(v, base))>> \o s \in A
      <4> HIDE DEF Found
      <4> QED BY <3>1
    <3>3. << >> \in A
      OBVIOUS
    <3> QED BY <3>2, <3>3
  <2>4. \A v \in Int : /\ \A s \in A : G[v][s] = <<Digit(Remainder(v, base))>> \o s
                       /\ z[v] = << >>
                       /\ next[v] = Quotient(v, base)
    OBVIOUS
  <2> HIDE DEF mu, next, z, G, A
  <2>5. Recurses(Int, A, mu, next, {0}, z, G)
    BY <2>1, <2>2, <2>3 DEF Recurses
  <2>6. PICK f \in [Int -> A] : \A v \in Int : f[v] = Step({0}, z, G, next, f, v)
    BY <2>5, Recursion
  <2>7. ASSUME NEW v \in Int
        PROVE  f[v] = IF v = 0 THEN << >>
                      ELSE <<Digit(Remainder(v, base))>> \o f[Quotient(v, base)]
    <3>1. CASE v = 0
      BY <2>4, <2>6, <3>1 DEF Step
    <3>2. CASE v # 0
      <4>1. next[v] = Quotient(v, base) /\ f[next[v]] \in A
        BY <1>1, <2>4
      <4>2. f[v] = G[v][f[next[v]]]
        BY <2>6, <3>2 DEF Step
      <4> QED BY <2>4, <3>2, <4>1, <4>2
    <3> QED BY <3>1, <3>2
  <2>8. f = [v \in Int |->
               IF v = 0 THEN << >>
               ELSE <<Digit(Remainder(v, base))>> \o f[Quotient(v, base)]]
    BY <2>6, <2>7
  <2> QED BY <2>8
<1>3. Eq(p)
  <2> HIDE DEF Eq
  <2> QED BY <1>2, Zenon
<1>4. \A v : Reversed(v, base) = p[v]
  BY Zenon DEF Reversed
<1> HIDE DEF p
<1>5. p[0] = << >>
  BY <1>3
<1>6. ASSUME NEW v \in Int \ {0}
      PROVE  p[v] = <<Digit(Remainder(v, base))>> \o p[Quotient(v, base)]
  BY <1>3
<1> HIDE DEF Eq
<1> QED BY <1>4, <1>5, <1>6

\* For a natural number the division of C is that of mathematics.
LEMMA NaturalDivision ==
  ASSUME NEW n \in Nat, NEW d \in Nat, d > 0
  PROVE  /\ Quotient(n, d) = n \div d /\ Remainder(n, d) = n % d
         /\ n \div d \in Nat /\ n % d \in 0 .. d - 1
<1> PICK q, r : q = n \div d /\ r = n % d
  OBVIOUS
<1>1. q \in Nat /\ r \in 0 .. d - 1 /\ n = d * q + r
  BY DivMod
<1>2. Quotient(n, d) = q
  BY DEF Quotient
<1>3. Remainder(n, d) = n - d * q
  BY <1>2 DEF Remainder
<1>4. d * q \in Nat
  BY <1>1
<1> PICK e : e = d * q
  OBVIOUS
<1>5. n - e = r
  BY <1>1, <1>4
<1> QED BY <1>1, <1>2, <1>3, <1>5

\* The least number of digits.
LEMMA PlacesIs ==
  ASSUME NEW n \in Nat \ {0}, NEW base \in Nat, base >= 2
  PROVE  LET k == Places(n, base)
         IN  k \in 1 .. n /\ Power(base, k - 1) <= n /\ n < Power(base, k)
<1> DEFINE S == {k \in Nat : n < Power(base, k)}
<1>1. n \in S
  BY PowerGrows
<1>2. PICK k \in S : \A j \in S : k <= j
  <2>1. S \in SUBSET Nat /\ S # {}
    BY <1>1
  <2> HIDE DEF S
  <2> QED BY <2>1, Least
<1>3. k # 0
  BY PowerRec
<1>4. k \in 1 .. n
  BY <1>1, <1>2, <1>3
<1>5. k - 1 \in Nat /\ k - 1 \notin S /\ Power(base, k - 1) \in Nat
  <2>1. k - 1 \in Nat /\ ~(k <= k - 1)
    BY <1>4
  <2> QED BY <1>2, <2>1, PowerGrows
<1>6. Power(base, k - 1) <= n /\ n < Power(base, k)
  BY <1>2, <1>5
<1>7. \E j \in 1 .. n : Power(base, j - 1) <= n /\ n < Power(base, j)
  BY <1>4, <1>6
<1>8. Places(n, base) = CHOOSE j \in 1 .. n : Power(base, j - 1) <= n /\ n < Power(base, j)
  BY DEF Places
<1> QED BY <1>7, <1>8, Zenon

\* The digits as the loops leave them, those of lowest place first.
LEMMA ReversedDigits ==
  ASSUME NEW base \in 2 .. 16
  PROVE  \A k \in Nat : \A n \in Nat : Power(base, k) <= n /\ n < Power(base, k + 1) =>
           Reversed(n, base)
             = [i \in 1 .. k + 1 |-> Digit((n \div Power(base, i - 1)) % base)]
<1> DEFINE D(n, i) == Digit((n \div Power(base, i - 1)) % base)
           I == {k \in Nat :
                   \A n \in Nat : Power(base, k) <= n /\ n < Power(base, k + 1) =>
                     Reversed(n, base) = [i \in 1 .. k + 1 |-> D(n, i)]}
<1>1. base \in Nat /\ base >= 2 /\ base > 0
  OBVIOUS
<1>2. \A j \in Nat : /\ Power(base, j) \in Nat /\ Power(base, j) > 0
                     /\ Power(base, j + 1) = base * Power(base, j)
  BY <1>1, PowerGrows, PowerRec
<1>3. Power(base, 0) = 1 /\ Power(base, 1) = base
  <2>1. Power(base, 0) = 1
    BY <1>1, PowerRec
  <2>2. Power(base, 0 + 1) = base * 1
    BY <1>2, <2>1
  <2> QED BY <2>1, <2>2
<1>4. \A n \in Nat : \A i \in Nat \ {0} : D(n, i) \in Char
  <2> TAKE n \in Nat, i \in Nat \ {0}
  <2> PICK p : p = Power(base, i - 1)
    OBVIOUS
  <2>1. p \in Nat /\ p > 0
    BY <1>2
  <2> PICK q : q = n \div p
    OBVIOUS
  <2>2. q \in Nat
    BY <2>1, NaturalDivision
  <2> PICK r : r = q % base
    OBVIOUS
  <2>3. r \in 0 .. base - 1
    BY <1>1, <2>2, DivMod
  <2>4. r \in 0 .. 15
    BY <2>3
  <2> QED BY <2>4, DigitIsChar
<1>5. ASSUME NEW n \in Nat, NEW q, NEW r, q = n \div base, r = n % base
      PROVE  q \in Nat /\ r \in 0 .. base - 1 /\ n = base * q + r
  BY <1>1, <1>5, DivMod
<1>6. ASSUME NEW n \in Nat \ {0}
      PROVE  /\ n \div base \in Nat
             /\ Reversed(n, base) = <<D(n, 1)>> \o Reversed(n \div base, base)
  <2>1. n \div Power(base, 1 - 1) = n
    <3>1. n \div 1 = n
      OBVIOUS
    <3> QED BY <1>3, <3>1
  <2>2. /\ Quotient(n, base) = n \div base /\ Remainder(n, base) = n % base
        /\ n \div base \in Nat
    BY <1>1, NaturalDivision
  <2>3. Reversed(n, base)
          = <<Digit(Remainder(n, base))>> \o Reversed(Quotient(n, base), base)
    BY <1>1, ReversedRec
  <2> QED BY <2>1, <2>2, <2>3
<1>7. 0 \in I
  <2> SUFFICES ASSUME NEW n \in Nat, Power(base, 0) <= n, n < Power(base, 0 + 1)
               PROVE  Reversed(n, base) = [i \in 1 .. 0 + 1 |-> D(n, i)]
    OBVIOUS
  <2>1. n \in Nat \ {0} /\ n < base
    BY <1>3
  <2>2. n \div base = 0
    <3> PICK q, r : q = n \div base /\ r = n % base
      OBVIOUS
    <3>1. n = base * 0 + n /\ n \in 0 .. base - 1
      BY <2>1
    <3> QED BY <1>1, <3>1, DivModIs
  <2>3. Reversed(n, base) = <<D(n, 1)>> \o << >>
    BY <1>1, <1>6, <2>1, <2>2, ReversedRec
  <2>4. <<D(n, 1)>> \in Seq(Char)
    <3>1. D(n, 1) \in Char
      BY <1>4
    <3> HIDE DEF D
    <3> QED BY <3>1
  <2> HIDE DEF D
  <2>5. Reversed(n, base) = <<D(n, 1)>>
    BY <2>3, <2>4, ConcatEmptySeq
  <2> QED BY <2>5
<1>8. ASSUME NEW k \in Nat, k \in I PROVE k + 1 \in I
  <2> SUFFICES ASSUME NEW n \in Nat, Power(base, k + 1) <= n, n < Power(base, k + 1 + 1)
               PROVE  Reversed(n, base) = [i \in 1 .. k + 1 + 1 |-> D(n, i)]
    OBVIOUS
  <2> PICK p, q, r : p = Power(base, k) /\ q = n \div base /\ r = n % base
    OBVIOUS
  <2>1. p \in Nat /\ p > 0 /\ base * p <= n /\ n < base * (base * p)
    BY <1>2
  <2>2. q \in Nat /\ r \in 0 .. base - 1 /\ n = base * q + r
    <3>1. q = n \div base /\ r = n % base
      OBVIOUS
    <3> QED BY <1>5, <3>1
  <2>3. n # 0
    BY <1>1, <2>1
  <2>4. p <= q
    <3> SUFFICES ASSUME q + 1 <= p PROVE FALSE
      BY <2>1, <2>2
    <3>1. base * (q + 1) <= base * p
      BY <1>1, <2>1, <2>2
    <3>2. base * (q + 1) = base * q + base
      BY <1>1, <2>2
    <3> QED BY <2>1, <2>2, <3>1, <3>2
  <2>5. q < base * p
    <3> SUFFICES ASSUME base * p <= q PROVE FALSE
      BY <1>1, <2>1, <2>2
    <3>1. base * (base * p) <= base * q
      BY <1>1, <2>1, <2>2
    <3> QED BY <2>1, <2>2, <3>1
  <2>6. Reversed(q, base) = [i \in 1 .. k + 1 |-> D(q, i)]
    <3>1. Power(base, k) <= q /\ q < Power(base, k + 1)
      BY <1>2, <2>4, <2>5
    <3> QED BY <1>8, <2>2, <3>1
  <2>7. \A i \in Nat \ {0} : D(q, i) = D(n, i + 1)
    <3> TAKE i \in Nat \ {0}
    <3> PICK e : e = Power(base, i - 1)
      OBVIOUS
    <3>1. e \in Nat /\ e > 0 /\ Power(base, (i + 1) - 1) = base * e
      <4>1. i - 1 \in Nat /\ (i - 1) + 1 = (i + 1) - 1
        OBVIOUS
      <4> QED BY <1>2, <4>1
    <3>2. q \div e = n \div (base * e)
      BY <1>1, <3>1, DivDiv
    <3> QED BY <3>1, <3>2
  <2> PICK s : s = Reversed(q, base)
    OBVIOUS
  <2>8. /\ s \in Seq(Char) /\ Len(s) = k + 1
        /\ \A i \in 1 .. k + 1 : s[i] = D(n, i + 1)
    <3>1. \A i \in 1 .. k + 1 : D(q, i) \in Char /\ D(q, i) = D(n, i + 1)
      BY <1>4, <2>2, <2>7
    <3> HIDE DEF D
    <3>2. s = [i \in 1 .. k + 1 |-> D(q, i)] /\ k + 1 \in Nat
      BY <2>6
    <3>3. s \in [1 .. k + 1 -> Char] /\ \A i \in 1 .. k + 1 : s[i] = D(n, i + 1)
      BY <3>1, <3>2
    <3> QED BY <3>2, <3>3
  <2>9. Reversed(n, base) = <<D(n, 1)>> \o s
    BY <1>6, <2>3
  <2>10. \A i \in 1 .. k + 1 + 1 : D(n, i) \in Char
    BY <1>4
  <2> HIDE DEF D
  <2> PICK t, u : t = <<D(n, 1)>> \o s /\ u = [i \in 1 .. k + 1 + 1 |-> D(n, i)]
    OBVIOUS
  <2>11. <<D(n, 1)>> \in Seq(Char) /\ Len(<<D(n, 1)>>) = 1 /\ <<D(n, 1)>>[1] = D(n, 1)
    BY <2>10
  <2>12. /\ t \in Seq(Char) /\ Len(t) = 1 + (k + 1)
         /\ \A i \in 1 .. 1 + (k + 1) : t[i] = IF i <= 1 THEN <<D(n, 1)>>[i] ELSE s[i - 1]
    BY <2>8, <2>11, ConcatProperties
  <2>13. /\ u \in Seq(Char) /\ Len(u) = 1 + (k + 1)
         /\ \A i \in 1 .. 1 + (k + 1) : u[i] = D(n, i)
    BY <2>10
  <2>14. \A i \in 1 .. 1 + (k + 1) : t[i] = u[i]
    <3> TAKE i \in 1 .. 1 + (k + 1)
    <3>1. CASE i = 1
      BY <2>11, <2>12, <2>13, <3>1
    <3>2. CASE i # 1
      <4>1. i - 1 \in 1 .. k + 1 /\ (i - 1) + 1 = i
        BY <3>2
      <4>2. s[i - 1] = D(n, i)
        BY <2>8, <4>1
      <4> QED BY <2>12, <2>13, <3>2, <4>1, <4>2
    <3> QED BY <3>1, <3>2
  <2>15. t = u
    BY <2>12, <2>13, <2>14, SeqEqual
  <2> QED BY <2>9, <2>15
<1>9. Nat \subseteq I
  <2> HIDE DEF I
  <2> QED BY <1>7, <1>8, SetInduction
<1> QED BY <1>9

\* What the loops leave, read backwards, is the numeral.
LEMMA LoopsWriteNumeral ==
  ASSUME NEW n \in Nat \ {0}, NEW base \in 2 .. 16
  PROVE  Reverse(Reversed(n, base)) = Numeral(n, base)
<1> PICK k : k = Places(n, base)
  OBVIOUS
<1>1. base \in Nat /\ base >= 2
  OBVIOUS
<1>2. /\ k \in Nat \ {0} /\ k - 1 \in Nat /\ (k - 1) + 1 = k
      /\ Power(base, k - 1) <= n /\ n < Power(base, k)
  BY <1>1, PlacesIs
<1> DEFINE D(i) == Digit((n \div Power(base, i)) % base)
<1> PICK s : s = Reversed(n, base)
  OBVIOUS
<1>3. s = [i \in 1 .. k |-> D(i - 1)]
  <2> PICK m : m = k - 1
    OBVIOUS
  <2>1. m \in Nat /\ m + 1 = k /\ Power(base, m) <= n /\ n < Power(base, m + 1)
    BY <1>2
  <2>2. Reversed(n, base) = [i \in 1 .. m + 1 |-> D(i - 1)]
    BY <2>1, ReversedDigits
  <2> QED BY <2>1, <2>2
<1>4. Numeral(n, base) = [i \in 1 .. k |-> D(k - i)]
  BY DEF Numeral
<1> HIDE DEF D
<1>5. Len(s) = k
  BY <1>2, <1>3
<1>6. \A i \in 1 .. k : s[(k - i) + 1] = D(k - i)
  <2> TAKE i \in 1 .. k
  <2>1. (k - i) + 1 \in 1 .. k /\ ((k - i) + 1) - 1 = k - i
    BY <1>2
  <2> QED BY <1>3, <2>1
<1> QED BY <1>4, <1>5, <1>6 DEF Reverse

LEMMA NumeralType ==
  ASSUME NEW n \in Nat, NEW base \in 2 .. 16
  PROVE  /\ Numeral(n, base) \in Seq(Char)
         /\ Len(Numeral(n, base)) = Places(n, base)
         /\ Places(n, base) \in Nat \ {0}
<1> PICK k : k = Places(n, base)
  OBVIOUS
<1>1. base \in Nat /\ base >= 2 /\ base > 0
  OBVIOUS
<1>2. k \in Nat \ {0}
  <2>1. CASE n = 0
    BY <2>1 DEF Places
  <2>2. CASE n # 0
    BY <1>1, <2>2, PlacesIs
  <2> QED BY <2>1, <2>2
<1> DEFINE D(i) == Digit((n \div Power(base, i)) % base)
<1>3. \A i \in Nat : D(i) \in Char
  <2> TAKE i \in Nat
  <2> PICK p, q : p = Power(base, i) /\ q = n \div p
    OBVIOUS
  <2>1. p \in Nat /\ p > 0
    BY <1>1, PowerGrows
  <2>2. q \in Nat
    BY <2>1, NaturalDivision
  <2> PICK r : r = q % base
    OBVIOUS
  <2>3. r \in 0 .. base - 1
    BY <1>1, <2>2, DivMod
  <2>4. r \in 0 .. 15
    BY <2>3
  <2> QED BY <2>4, DigitIsChar
<1>4. Numeral(n, base) = [i \in 1 .. k |-> D(k - i)]
  BY DEF Numeral
<1>5. \A i \in 1 .. k : D(k - i) \in Char
  BY <1>2, <1>3
<1> HIDE DEF D
<1> QED BY <1>2, <1>4, <1>5

LEMMA NumeralOfZero == ASSUME NEW base \in 2 .. 16 PROVE Numeral(0, base) = <<"0">>
<1>1. Places(0, base) = 1
  BY DEF Places
<1>2. Numeral(0, base) = [i \in 1 .. 1 |-> Digit((0 \div Power(base, 1 - i)) % base)]
  BY <1>1, Zenon DEF Numeral
<1>3. Power(base, 1 - 1) = 1
  <2>1. base \in Nat /\ 1 - 1 = 0
    OBVIOUS
  <2> QED BY <2>1, PowerRec
<1>4. (0 \div 1) % base = 0
  OBVIOUS
<1>5. Digit(0) = "0"
  BY DEF Digit, DigitChar
<1> QED BY <1>2, <1>3, <1>4, <1>5

\* __format_add_udec and uint64_to_hex write numerals.
LEMMA UdecIs == ASSUME NEW n \in Nat PROVE Udec(n) = Numeral(n, 10)
BY LoopsWriteNumeral, NumeralOfZero DEF Udec

LEMMA HexIs == ASSUME NEW n \in Nat PROVE Hex(n) = Numeral(n, 16)
BY LoopsWriteNumeral, NumeralOfZero DEF Hex

\* The ranges of the integer types.
LEMMA Ranges ==
  /\ \A k \in {1, 2, 4, 8} : Range2(k) \in Nat /\ Range2(k) >= 2
  /\ Range2(8) = Range2(4) * Range2(4)
  /\ \A k \in {1, 2, 4} : /\ Range2(k) < Range2(8)
                          /\ \E m \in Nat : m > 0 /\ Range2(4) = Range2(k) * m
<1>1. ByteBits \in Nat /\ ByteBits > 0 /\ 2 \in Nat /\ 2 >= 2
  BY FormatAssumption
<1>2. \A k \in {1, 2, 4, 8} : k * ByteBits \in Nat /\ k * ByteBits >= 1
  BY <1>1
<1>3. \A k \in {1, 2, 4, 8} : Range2(k) \in Nat /\ Range2(k) >= 2
  <2> TAKE k \in {1, 2, 4, 8}
  <2> PICK e : e = k * ByteBits
    OBVIOUS
  <2>1. e \in Nat /\ 1 <= e
    BY <1>2
  <2>2. Power(2, e) \in Nat /\ e < Power(2, e)
    BY <1>1, <2>1, PowerGrows
  <2> QED BY <2>1, <2>2 DEF Range2
<1>4. Range2(8) = Range2(4) * Range2(4)
  <2>1. 8 * ByteBits = 4 * ByteBits + 4 * ByteBits /\ 4 * ByteBits \in Nat
    BY <1>1
  <2> QED BY <1>1, <2>1, PowerSum DEF Range2
<1>5. ASSUME NEW k \in {1, 2, 4}
      PROVE  /\ Range2(k) < Range2(8)
             /\ \E m \in Nat : m > 0 /\ Range2(4) = Range2(k) * m
  <2> PICK i, j : i = k * ByteBits /\ j = (4 - k) * ByteBits
    OBVIOUS
  <2>1. i \in Nat /\ j \in Nat /\ 4 * ByteBits = i + j
    BY <1>1
  <2> PICK a, m, r : a = Power(2, i) /\ m = Power(2, j) /\ r = Power(2, i + j)
    OBVIOUS
  <2>2. a \in Nat /\ m \in Nat /\ j < m /\ r = a * m
    BY <1>1, <2>1, PowerGrows, PowerSum
  <2>3. m > 0
    BY <2>1, <2>2
  <2>4. Range2(k) = a /\ Range2(4) = r
    BY <2>1 DEF Range2
  <2>5. a <= r
    BY <2>2, <2>3
  <2>6. r \in Nat /\ r >= 2 /\ Range2(8) = r * r
    BY <1>3, <1>4, <2>4
  <2>7. r < r * r
    BY <2>6
  <2>8. Range2(k) < Range2(8)
    <3> PICK x : x = r * r
      OBVIOUS
    <3>1. x \in Int /\ r < x /\ Range2(8) = x
      BY <2>6, <2>7
    <3> QED BY <2>2, <2>4, <2>5, <2>6, <3>1
  <2> QED BY <2>2, <2>3, <2>4, <2>8
<1> QED BY <1>3, <1>4, <1>5

LEMMA TimesAssociative == \A x, y, z \in Int : (x * y) * z = x * (y * z)
OBVIOUS

LEMMA ModMod ==
  ASSUME NEW n \in Int, NEW a \in Nat, NEW b \in Nat, a > 0, b > 0
  PROVE  (n % (a * b)) % a = n % a
<1>1. ASSUME NEW q \in Int, NEW s \in Int, NEW t \in 0 .. a - 1,
             n = (a * b) * q + (a * s + t)
      PROVE  n % a = t
  <2> PICK u : u = b * q + s
    OBVIOUS
  <2>1. (a * b) * q = a * (b * q)
    <3>1. a \in Int /\ b \in Int
      OBVIOUS
    <3> QED BY <3>1, TimesAssociative
  <2>2. a * (b * q + s) = a * (b * q) + a * s
    OBVIOUS
  <2>3. u \in Int /\ n = a * u + t
    BY <1>1, <2>1, <2>2
  <2> QED BY <2>3, DivModIs
<1> PICK m : m = a * b
  OBVIOUS
<1>2. m \in Nat /\ m > 0
  BY SMTT(20)
<1> PICK q, r : q = n \div m /\ r = n % m
  OBVIOUS
<1>3. q \in Int /\ r \in Nat /\ n = m * q + r
  BY <1>2, DivMod
<1> PICK s, t : s = r \div a /\ t = r % a
  OBVIOUS
<1>4. s \in Int /\ t \in 0 .. a - 1 /\ r = a * s + t
  BY <1>3, DivMod
<1>5. n = (a * b) * q + (a * s + t)
  BY <1>3, <1>4
<1>6. n % a = t
  BY <1>1, <1>3, <1>4, <1>5, Zenon
<1> QED BY <1>6

\* The two words of a longer value.
LEMMA TwoWords ==
  ASSUME NEW n \in Int, NEW a \in Nat, a > 0
  PROVE  (n % a) + a * ((n \div a) % a) = n % (a * a)
<1>1. ASSUME NEW r \in 0 .. a - 1, NEW s \in Int, NEW t \in 0 .. a - 1,
             n = a * (a * s + t) + r
      PROVE  n % (a * a) = r + a * t
  <2> PICK m, f, e : m = a * a /\ f = a * t /\ e = r + f
    OBVIOUS
  <2>1. m \in Nat /\ f \in Nat /\ f + a <= m
    <3>1. t + 1 <= a /\ t \in Nat
      OBVIOUS
    <3>2. a * (t + 1) <= a * a
      BY <3>1
    <3>3. a * (t + 1) = a * t + a /\ a * t \in Nat /\ a * a \in Nat
      BY <3>1
    <3> QED BY <3>2, <3>3
  <2>2. e \in 0 .. m - 1
    BY <2>1
  <2>3. a * (a * s + t) = a * (a * s) + a * t
    OBVIOUS
  <2>4. (a * a) * s = a * (a * s)
    <3>1. a \in Int /\ s \in Int
      OBVIOUS
    <3> QED BY <3>1, TimesAssociative, Zenon
  <2>5. n = m * s + e
    BY <1>1, <2>1, <2>2, <2>3, <2>4
  <2>6. n % m = e
    BY <2>1, <2>2, <2>5, DivModIs
  <2> QED BY <2>6
<1> PICK q, r : q = n \div a /\ r = n % a
  OBVIOUS
<1>2. q \in Int /\ r \in 0 .. a - 1 /\ n = a * q + r
  BY DivMod
<1> PICK s, t : s = q \div a /\ t = q % a
  OBVIOUS
<1>3. s \in Int /\ t \in 0 .. a - 1 /\ q = a * s + t
  BY <1>2, DivMod
<1>4. n = a * (a * s + t) + r
  BY <1>2, <1>3
<1>5. n % (a * a) = r + a * t
  BY <1>1, <1>2, <1>3, <1>4, Zenon
<1> QED BY <1>5

LEMMA UnsignedType ==
  ASSUME NEW n \in Int, NEW k \in {1, 2, 4, 8}
  PROVE  /\ Unsigned(n, k) \in 0 .. Range2(k) - 1
         /\ Unsigned(Unsigned(n, k), k) = Unsigned(n, k)
<1> PICK m, u : m = Range2(k) /\ u = n % m
  OBVIOUS
<1>1. m \in Nat /\ m > 0
  BY Ranges
<1>2. u \in 0 .. m - 1
  BY <1>1, DivMod
<1>3. u % m = u
  BY <1>1, <1>2
<1> QED BY <1>2, <1>3 DEF Unsigned

\* A type keeps the low bytes of a word.
LEMMA UnsignedWord ==
  ASSUME NEW n \in Int, NEW k \in {1, 2, 4}
  PROVE  Unsigned(Unsigned(n, 4), k) = Unsigned(n, k) /\ Signed(Unsigned(n, 4), k) = Signed(n, k)
<1> PICK r, a : r = Range2(4) /\ a = Range2(k)
  OBVIOUS
<1>1. a \in Nat /\ a > 0
  BY Ranges
<1>2. PICK m \in Nat : m > 0 /\ r = a * m
  BY Ranges
<1>3. (n % (a * m)) % a = n % a
  BY <1>1, <1>2, ModMod
<1>4. Unsigned(Unsigned(n, 4), k) = Unsigned(n, k)
  BY <1>2, <1>3 DEF Unsigned
<1> QED BY <1>4, Zenon DEF Signed

\* Two words hold a value of eight bytes.
LEMMA UnsignedWords ==
  ASSUME NEW n \in Int
  PROVE  Unsigned(n, 4) + Range2(4) * Unsigned(n \div Range2(4), 4) = Unsigned(n, 8)
<1> PICK r : r = Range2(4)
  OBVIOUS
<1>1. r \in Nat /\ r > 0 /\ Range2(8) = r * r
  BY Ranges
<1>2. (n % r) + r * ((n \div r) % r) = n % (r * r)
  BY <1>1, TwoWords
<1> QED BY <1>1, <1>2 DEF Unsigned

LEMMA SignedType ==
  ASSUME NEW n \in Int, NEW k \in {1, 2, 4, 8}, NEW s, s = Signed(n, k)
  PROVE  /\ s \in Int /\ -Range2(k) <= 2 * s /\ 2 * s < Range2(k)
         /\ 2 * Unsigned(n, k) # Range2(k) => -Range2(k) < 2 * s
         /\ Signed(Unsigned(n, k), k) = s
<1> PICK m, u : m = Range2(k) /\ u = Unsigned(n, k)
  OBVIOUS
<1>1. m \in Nat /\ m > 0 /\ u \in 0 .. m - 1
  <2>1. Range2(k) \in Nat /\ Range2(k) >= 2
    BY Ranges
  <2>2. Unsigned(n, k) \in 0 .. Range2(k) - 1
    BY UnsignedType
  <2> QED BY <2>1, <2>2
<1>2. s = IF 2 * u < m THEN u ELSE u - m
  BY DEF Signed
<1>3. Signed(Unsigned(n, k), k) = s
  BY UnsignedType, Zenon DEF Signed
<1> QED BY <1>1, <1>2, <1>3

\* __format_add_idec writes the numeral and its sign, but for the smallest integer.
LEMMA IdecIs ==
  ASSUME NEW n \in Int, -Range2(8) < 2 * n, 2 * n < Range2(8)
  PROVE  Idec(n) = SignedNumeral(n)
<1>1. CASE n = 0
  BY <1>1, NumeralOfZero DEF Idec, SignedNumeral
<1>2. CASE n > 0
  <2>1. Reverse(Reversed(n, 10)) = Numeral(n, 10)
    BY <1>2, LoopsWriteNumeral
  <2> QED BY <1>2, <2>1 DEF Idec, SignedNumeral
<1>3. CASE n < 0
  <2> PICK m, r : m = -n /\ r = Range2(8)
    OBVIOUS
  <2>1. m \in Nat \ {0} /\ r \in Nat /\ 2 * m < r
    BY <1>3, Ranges
  <2>2. m % r = m
    BY <2>1
  <2>3. Signed(m, 8) = m
    BY <2>1, <2>2 DEF Signed, Unsigned
  <2>4. Reverse(Reversed(m, 10)) = Numeral(m, 10)
    BY <2>1, LoopsWriteNumeral
  <2> QED BY <1>3, <2>3, <2>4 DEF Idec, SignedNumeral
<1> QED BY <1>1, <1>2, <1>3

LEMMA ZeroDigit == Digit(0) = "0" /\ "0" \in Char
<1>1. Digit(0) = "0"
  BY DEF Digit, DigitChar
<1> QED BY <1>1, DigitIsChar

\* A sequence behind another, element by element.
Behind(A, s, t) ==
  /\ s \o t \in Seq(A) /\ Len(s \o t) = Len(s) + Len(t)
  /\ \A i \in 1 .. Len(s) + Len(t) : (s \o t)[i] = IF i <= Len(s) THEN s[i] ELSE t[i - Len(s)]

LEMMA ElementsBehind ==
  ASSUME NEW A, NEW s \in Seq(A), NEW t \in Seq(A) PROVE Behind(A, s, t)
BY ConcatProperties DEF Behind

\* __format_add_bin fills the numeral with zeros.
LEMMA BinIs ==
  ASSUME NEW n \in Nat, NEW width \in Nat \ {0}, n < Power(2, width)
  PROVE  Bin(n, width) = ZeroFilled(Numeral(n, 2), width)
<1> PICK k, s : k = Places(n, 2) /\ s = Numeral(n, 2)
  OBVIOUS
<1> DEFINE D(i) == Digit((n \div Power(2, i)) % 2)
<1>1. k \in Nat \ {0} /\ s \in Seq(Char) /\ Len(s) = k
  BY NumeralType
<1>2. s = [i \in 1 .. k |-> D(k - i)]
  BY DEF Numeral
<1>3. \A i \in Nat : Power(2, i) \in Nat /\ Power(2, i) > 0
  <2> TAKE i \in Nat
  <2> PICK b : b = 2
    OBVIOUS
  <2>1. b \in Nat /\ b >= 2
    OBVIOUS
  <2>2. Power(b, i) \in Nat /\ i < Power(b, i)
    BY <2>1, PowerGrows
  <2> QED BY <2>2
<1>4. n < Power(2, k)
  <2>1. CASE n = 0
    BY <1>1, <1>3, <2>1
  <2>2. CASE n # 0
    BY <2>2, PlacesIs
  <2> QED BY <2>1, <2>2
<1>5. k <= width
  <2>1. CASE n = 0
    BY <2>1 DEF Places
  <2>2. CASE n # 0
    <3>1. Power(2, k - 1) <= n
      BY <2>2, PlacesIs
    <3>2. k - 1 \in Nat
      BY <1>1
    <3> SUFFICES ASSUME width <= k - 1 PROVE FALSE
      BY <1>1
    <3>3. Power(2, width) <= Power(2, k - 1)
      BY <3>2, PowerMonotone
    <3> QED BY <1>3, <3>1, <3>2, <3>3
  <2> QED BY <2>1, <2>2
<1>6. \A i \in Nat : k <= i => D(i) = "0"
  <2> SUFFICES ASSUME NEW i \in Nat, k <= i PROVE D(i) = "0"
    OBVIOUS
  <2> PICK p, e : p = Power(2, i) /\ e = Power(2, k)
    OBVIOUS
  <2>1. p \in Nat /\ p > 0 /\ e \in Nat /\ e <= p /\ n < p
    <3>1. e <= p
      BY <1>1, PowerMonotone
    <3> QED BY <1>1, <1>3, <1>4, <3>1
  <2>2. n = p * 0 + n /\ n \in 0 .. p - 1
    BY <2>1
  <2>3. n \div p = 0
    BY <2>1, <2>2, DivModIs
  <2>4. 0 % 2 = 0
    OBVIOUS
  <2> QED BY <2>3, <2>4, ZeroDigit
<1>7. Bin(n, width) = [i \in 1 .. width |-> D(width - i)]
  BY DEF Bin
<1> HIDE DEF D
<1> PICK zeros : zeros = [i \in 1 .. width - k |-> "0"]
  OBVIOUS
<1>8. zeros \in Seq(Char) /\ Len(zeros) = width - k /\ \A i \in 1 .. width - k : zeros[i] = "0"
  BY <1>1, <1>5, ZeroDigit
<1> PICK t : t = zeros \o s
  OBVIOUS
<1>9. /\ t \in Seq(Char) /\ Len(t) = width
      /\ \A i \in 1 .. width : t[i] = IF i <= width - k THEN zeros[i] ELSE s[i - (width - k)]
  <2>1. /\ t \in Seq(Char) /\ Len(t) = Len(zeros) + Len(s)
        /\ \A i \in 1 .. Len(zeros) + Len(s) :
             t[i] = IF i <= Len(zeros) THEN zeros[i] ELSE s[i - Len(zeros)]
    <3>1. zeros \in Seq(Char) /\ s \in Seq(Char)
      BY <1>1, <1>8
    <3>2. Behind(Char, zeros, s)
      BY <3>1, ElementsBehind
    <3> QED BY <3>2 DEF Behind
  <2>2. Len(zeros) + Len(s) = width
    <3>1. (width - k) + k = width
      BY <1>1
    <3> QED BY <1>1, <1>8, <3>1
  <2> QED BY <1>8, <2>1, <2>2
<1>10. \A i \in 1 .. width : t[i] = D(width - i)
  <2> TAKE i \in 1 .. width
  <2>1. CASE i <= width - k
    <3>1. i \in 1 .. width - k /\ width - i \in Nat /\ k <= width - i
      BY <1>1, <2>1
    <3> QED BY <1>6, <1>8, <1>9, <2>1, <3>1
  <2>2. CASE ~(i <= width - k)
    <3>1. i - (width - k) \in 1 .. k /\ k - (i - (width - k)) = width - i
      BY <1>1, <1>5, <2>2
    <3>2. s[i - (width - k)] = D(k - (i - (width - k)))
      BY <1>2, <3>1
    <3> QED BY <1>9, <2>2, <3>1, <3>2
  <2> QED BY <2>1, <2>2
<1> PICK b : b = Bin(n, width)
  OBVIOUS
<1>11. b \in Seq(Char) /\ Len(b) = width /\ \A i \in 1 .. width : b[i] = D(width - i)
  <2>1. \A i \in 1 .. width : D(width - i) \in Char
    <3>1. \A i \in 1 .. width : t[i] \in Char
      BY <1>9, ElementOfSeq
    <3> QED BY <1>10, <3>1
  <2>2. b = [i \in 1 .. width |-> D(width - i)]
    BY <1>7
  <2>3. b \in [1 .. width -> Char]
    BY <2>1, <2>2
  <2>4. width \in Nat
    OBVIOUS
  <2>5. b \in Seq(Char) /\ Len(b) = width
    BY <2>3, <2>4
  <2>6. \A i \in 1 .. width : b[i] = D(width - i)
    BY <2>2
  <2> QED BY <2>5, <2>6
<1>12. b = t
  <2>1. \A i \in 1 .. Len(b) : b[i] = t[i]
    BY <1>10, <1>11
  <2>2. b \in Seq(Char) /\ t \in Seq(Char) /\ Len(b) = Len(t)
    BY <1>9, <1>11
  <2> QED BY <2>1, <2>2, SeqEqual
<1> QED BY <1>1, <1>12 DEF ZeroFilled

-----------------------------------------------------------------------------
(***************************************************************************)
(* Sequences.                                                              *)
(***************************************************************************)
\* Grouping, hidden from the provers until it is needed.
Groups(x, y, z) == (x \o y) \o z = x \o (y \o z)

LEMMA Grouping == ASSUME NEW A PROVE \A x, y, z \in Seq(A) : Groups(x, y, z)
BY ConcatAssociative DEF Groups

LEMMA InFront ==
  ASSUME NEW A, NEW x \in A, NEW s \in Seq(A)
  PROVE  /\ <<x>> \in Seq(A) /\ <<x>> \o s \in Seq(A) /\ <<x>> \o s # << >>
         /\ Head(<<x>> \o s) = x /\ Tail(<<x>> \o s) = s
<1>1. <<x>> \in Seq(A) /\ Len(<<x>>) = 1 /\ <<x>>[1] = x /\ Len(s) \in Nat
  OBVIOUS
<1> PICK t : t = <<x>> \o s
  OBVIOUS
<1>2. /\ t \in Seq(A) /\ Len(t) = Len(s) + 1
      /\ \A k \in 1 .. Len(s) + 1 : t[k] = IF k <= 1 THEN x ELSE s[k - 1]
  <2>1. /\ t \in Seq(A) /\ Len(t) = Len(<<x>>) + Len(s)
        /\ \A k \in 1 .. Len(<<x>>) + Len(s) :
             t[k] = IF k <= Len(<<x>>) THEN <<x>>[k] ELSE s[k - Len(<<x>>)]
    BY <1>1, ConcatProperties
  <2>2. \A k \in 1 .. Len(s) + 1 : k <= 1 => k = 1
    OBVIOUS
  <2> QED BY <1>1, <2>1, <2>2
<1>3. 1 \in 1 .. Len(s) + 1 /\ t # << >> /\ Head(t) = x
  BY <1>1, <1>2
<1> PICK r : r = Tail(t)
  OBVIOUS
<1>4. r \in Seq(A) /\ Len(r) = Len(s) /\ \A k \in 1 .. Len(s) : r[k] = t[k + 1]
  <2>1. /\ r \in Seq(A) /\ Len(r) = Len(t) - 1
        /\ \A k \in 1 .. Len(r) : r[k] = t[k + 1]
    BY <1>2, <1>3, HeadTailProperties
  <2>2. Len(r) = Len(s)
    BY <1>1, <1>2, <2>1
  <2> QED BY <2>1, <2>2
<1>5. \A k \in 1 .. Len(s) : r[k] = s[k]
  <2> TAKE k \in 1 .. Len(s)
  <2>1. k + 1 \in 1 .. Len(s) + 1 /\ ~(k + 1 <= 1) /\ (k + 1) - 1 = k
    BY <1>1
  <2> QED BY <1>2, <1>4, <2>1
<1>6. r = s
  BY <1>4, <1>5, SeqEqual
<1> QED BY <1>1, <1>2, <1>3, <1>6

\* What follows the words that were taken.
Follows(w, s) ==
  /\ SubSeq(w \o s, Len(w) + 1, Len(w \o s)) = s
  /\ \A k \in 1 .. Len(w) : (w \o s)[k] = w[k]

LEMMA AfterWords ==
  ASSUME NEW A, NEW w \in Seq(A), NEW s \in Seq(A), s # << >>
  PROVE  Follows(w, s)
<1>1. Len(w) \in Nat /\ Len(s) \in Nat \ {0} /\ Len(w \o s) = Len(w) + Len(s)
  BY EmptySeq, ConcatProperties, LenProperties
<1>2. SubSeq(w \o s, Len(w) + 1, Len(w) + Len(s))
        = SubSeq(s, (Len(w) + 1) - Len(w), (Len(w) + Len(s)) - Len(w))
  <2>1. /\ Len(w) + 1 \in Len(w) + 1 .. Len(w) + Len(s)
        /\ Len(w) + Len(s) \in Len(w) + 1 .. Len(w) + Len(s)
    BY <1>1
  <2> QED BY <2>1, SubSeqOfConcat2
<1>3. (Len(w) + 1) - Len(w) = 1 /\ (Len(w) + Len(s)) - Len(w) = Len(s)
  BY <1>1
<1>4. SubSeq(s, 1, Len(s)) = s
  BY SubSeqFull
<1>5. \A k \in 1 .. Len(w) : (w \o s)[k] = w[k]
  <2> TAKE k \in 1 .. Len(w)
  <2>1. k \in 1 .. Len(w) + Len(s) /\ k <= Len(w)
    BY <1>1
  <2> QED BY <2>1, ConcatProperties
<1> QED BY <1>1, <1>2, <1>3, <1>4, <1>5 DEF Follows

\* What a buffer of n characters holds of a text.
Cut(s, n) == SubSeq(s, 1, IF Len(s) < n THEN Len(s) ELSE n)

LEMMA CutType ==
  ASSUME NEW A, NEW s \in Seq(A), NEW n \in Nat
  PROVE  Cut(s, n) \in Seq(A) /\ Len(Cut(s, n)) <= n /\ (Len(s) <= n => Cut(s, n) = s)
<1>1. Len(s) \in Nat /\ SubSeq(s, 1, Len(s)) = s
  BY LenProperties, SubSeqFull
<1>2. CASE Len(s) <= n
  <2> PICK k : k = Len(s)
    OBVIOUS
  <2>1. (IF k < n THEN k ELSE n) = k
    BY <1>1, <1>2
  <2>2. Cut(s, n) = SubSeq(s, 1, Len(s))
    BY <2>1 DEF Cut
  <2> QED BY <1>1, <1>2, <2>2
<1>3. CASE ~(Len(s) <= n)
  <2>1. Cut(s, n) = SubSeq(s, 1, n)
    <3> PICK k : k = Len(s)
      OBVIOUS
    <3>1. (IF k < n THEN k ELSE n) = n
      BY <1>1, <1>3
    <3> QED BY <3>1 DEF Cut
  <2>2. \A i \in 1 .. n : s[i] \in A
    BY <1>1, <1>3, ElementOfSeq
  <2>3. SubSeq(s, 1, n) \in Seq(A) /\ Len(SubSeq(s, 1, n)) = IF 1 <= n THEN n - 1 + 1 ELSE 0
    <3>1. 1 \in Int /\ n \in Int
      OBVIOUS
    <3> QED BY <2>2, <3>1, SubSeqProperties
  <2>4. (IF 1 <= n THEN n - 1 + 1 ELSE 0) <= n
    OBVIOUS
  <2> QED BY <1>3, <2>1, <2>3, <2>4
<1> QED BY <1>2, <1>3

\* To cut what was cut already, and more, is to cut everything.
LEMMA CutAgain ==
  ASSUME NEW A, NEW s \in Seq(A), NEW t \in Seq(A), NEW n \in Nat
  PROVE  Cut(Cut(s, n) \o t, n) = Cut(s \o t, n)
<1>1. Len(s) \in Nat /\ Len(t) \in Nat
  BY LenProperties
<1>2. CASE Len(s) <= n
  BY <1>2, CutType
<1>3. CASE ~(Len(s) <= n)
  <2> PICK r : r = SubSeq(s, 1, n)
    OBVIOUS
  <2>1. Cut(s, n) = r
    BY <1>1, <1>3 DEF Cut
  <2>2. \A i \in 1 .. n : s[i] \in A
    BY <1>1, <1>3, ElementOfSeq
  <2>3. r \in Seq(A) /\ Len(r) = n
    <3>1. r \in Seq(A) /\ Len(r) = IF 1 <= n THEN n - 1 + 1 ELSE 0
      BY <2>2, SubSeqProperties
    <3> QED BY <3>1
  <2>4. Len(r \o t) = n + Len(t) /\ Len(s \o t) = Len(s) + Len(t)
    BY <2>3, ConcatProperties
  <2>5. Cut(r \o t, n) = SubSeq(r \o t, 1, n)
    <3>1. ~(n + Len(t) < n) \/ n + Len(t) = n
      BY <1>1
    <3> QED BY <2>4, <3>1 DEF Cut
  <2>6. Cut(s \o t, n) = SubSeq(s \o t, 1, n)
    <3>1. ~(Len(s) + Len(t) < n)
      BY <1>1, <1>3
    <3> QED BY <2>4, <3>1 DEF Cut
  <2>7. CASE n = 0
    <3>1. SubSeq(r \o t, 1, n) = << >> /\ SubSeq(s \o t, 1, n) = << >>
      BY <2>7, SubSeqEmpty
    <3> QED BY <2>1, <2>5, <2>6, <3>1
  <2>8. CASE n # 0
    <3>1. 1 \in 1 .. Len(r) /\ n \in 1 .. Len(r) /\ 1 \in 1 .. Len(s) /\ n \in 1 .. Len(s)
      BY <1>1, <1>3, <2>3, <2>8
    <3>2. SubSeq(r \o t, 1, n) = SubSeq(r, 1, n)
      BY <2>3, <3>1, SubSeqOfConcat1
    <3>3. SubSeq(s \o t, 1, n) = r
      BY <3>1, SubSeqOfConcat1
    <3>4. SubSeq(r, 1, n) = r
      BY <2>3, SubSeqFull
    <3> QED BY <2>1, <2>5, <2>6, <3>2, <3>3, <3>4
  <2> QED BY <2>7, <2>8
<1> QED BY <1>2, <1>3

-----------------------------------------------------------------------------
(***************************************************************************)
(* A sequence of sequences, one after another: what the first i of them    *)
(* put together, and what follows them.                                    *)
(***************************************************************************)
IsPrefixes(A, f, pre) ==
  /\ pre \in [0 .. Len(f) -> Seq(A)]
  /\ pre[0] = << >>
  /\ \A i \in 0 .. Len(f) - 1 : pre[i + 1] = pre[i] \o f[i + 1]

IsSuffixes(A, f, suf) ==
  /\ suf \in [0 .. Len(f) -> Seq(A)]
  /\ suf[Len(f)] = << >>
  /\ \A i \in 0 .. Len(f) - 1 : suf[i] = f[i + 1] \o suf[i + 1]

LEMMA PrefixesExist ==
  ASSUME NEW A, NEW f \in Seq(Seq(A)) PROVE \E pre : IsPrefixes(A, f, pre)
<1> DEFINE S == 0 .. Len(f)
           B == Seq(A)
           mu == [i \in S |-> i]
           next == [i \in S |-> IF i = 0 THEN 0 ELSE i - 1]
           z == [i \in S |-> << >>]
           G == [i \in S |-> [s \in Seq(A) |-> IF i = 0 THEN s ELSE s \o f[i]]]
<1>1. Len(f) \in Nat /\ \A i \in 1 .. Len(f) : f[i] \in Seq(A)
  BY ElementOfSeq, LenProperties
<1>2. \A i \in S : \A s \in Seq(A) : (IF i = 0 THEN s ELSE s \o f[i]) \in Seq(A)
  BY <1>1, ConcatProperties
<1>3. mu \in [S -> Nat] /\ next \in [S -> S] /\ \A i \in S : i \notin {0} => mu[next[i]] < mu[i]
  BY <1>1
<1>4. z \in [S -> B] /\ G \in [S -> [B -> B]]
  BY <1>2
<1>5. \A i \in S : /\ z[i] = << >>
                   /\ i # 0 => next[i] = i - 1 /\ \A s \in Seq(A) : G[i][s] = s \o f[i]
  OBVIOUS
<1> HIDE DEF mu, next, z, G, S, B
<1>6. Recurses(S, B, mu, next, {0}, z, G)
  BY <1>3, <1>4 DEF Recurses
<1>7. PICK pre \in [S -> B] : \A i \in S : pre[i] = Step({0}, z, G, next, pre, i)
  BY <1>6, Recursion
<1> USE DEF S, B
<1>8. pre[0] = << >>
  BY <1>1, <1>5, <1>7 DEF Step
<1>9. ASSUME NEW i \in 0 .. Len(f) - 1 PROVE pre[i + 1] = pre[i] \o f[i + 1]
  <2>1. i + 1 \in S /\ i + 1 # 0 /\ (i + 1) - 1 = i /\ i \in S
    BY <1>1
  <2>2. next[i + 1] = i /\ pre[i] \in Seq(A)
    BY <1>5, <2>1
  <2>3. pre[i + 1] = G[i + 1][pre[i]]
    BY <1>7, <2>1, <2>2 DEF Step
  <2> QED BY <1>5, <2>1, <2>2, <2>3
<1> QED BY <1>7, <1>8, <1>9 DEF IsPrefixes

LEMMA SuffixesExist ==
  ASSUME NEW A, NEW f \in Seq(Seq(A)) PROVE \E suf : IsSuffixes(A, f, suf)
<1> DEFINE n == Len(f)
           S == 0 .. n
           B == Seq(A)
           mu == [i \in S |-> n - i]
           next == [i \in S |-> IF i = n THEN n ELSE i + 1]
           z == [i \in S |-> << >>]
           G == [i \in S |-> [s \in Seq(A) |-> IF i = n THEN s ELSE f[i + 1] \o s]]
<1>1. n \in Nat /\ \A i \in 1 .. n : f[i] \in Seq(A)
  BY ElementOfSeq, LenProperties
<1>2. \A i \in S : \A s \in Seq(A) : (IF i = n THEN s ELSE f[i + 1] \o s) \in Seq(A)
  <2> TAKE i \in S
  <2> TAKE s \in Seq(A)
  <2>1. CASE i = n
    BY <2>1
  <2>2. CASE i # n
    <3>1. i + 1 \in 1 .. n
      BY <1>1, <2>2
    <3> QED BY <1>1, <2>2, <3>1, ConcatProperties
  <2> QED BY <2>1, <2>2
<1>3. mu \in [S -> Nat] /\ next \in [S -> S] /\ \A i \in S : i \notin {n} => mu[next[i]] < mu[i]
  BY <1>1
<1>4. z \in [S -> B] /\ G \in [S -> [B -> B]]
  BY <1>2
<1>5. \A i \in S : /\ z[i] = << >>
                   /\ i # n => next[i] = i + 1 /\ \A s \in Seq(A) : G[i][s] = f[i + 1] \o s
  OBVIOUS
<1> HIDE DEF mu, next, z, G, S, B
<1>6. Recurses(S, B, mu, next, {n}, z, G)
  BY <1>3, <1>4 DEF Recurses
<1>7. PICK suf \in [S -> B] : \A i \in S : suf[i] = Step({n}, z, G, next, suf, i)
  BY <1>6, Recursion
<1> USE DEF S, B
<1>8. suf[n] = << >>
  BY <1>1, <1>5, <1>7 DEF Step
<1>9. ASSUME NEW i \in 0 .. n - 1 PROVE suf[i] = f[i + 1] \o suf[i + 1]
  <2>1. i \in S /\ i # n /\ i + 1 \in S
    BY <1>1
  <2>2. next[i] = i + 1 /\ suf[i + 1] \in Seq(A)
    BY <1>5, <2>1
  <2>3. suf[i] = G[i][suf[i + 1]]
    BY <1>7, <2>1, <2>2 DEF Step
  <2> QED BY <1>5, <2>1, <2>2, <2>3
<1> QED BY <1>7, <1>8, <1>9 DEF IsSuffixes

\* What precedes and what follows make up the whole, wherever it is split.
LEMMA SplitAnywhere ==
  ASSUME NEW A, NEW f \in Seq(Seq(A)), NEW pre, IsPrefixes(A, f, pre),
         NEW suf, IsSuffixes(A, f, suf)
  PROVE  pre[Len(f)] = suf[0]
<1> PICK n : n = Len(f)
  OBVIOUS
<1> DEFINE W(i) == pre[i] \o suf[i]
           I == {i \in Nat : i <= n => W(i) = suf[0]}
<1>1. /\ n \in Nat /\ \A i \in 1 .. n : f[i] \in Seq(A)
      /\ \A i \in 0 .. n : pre[i] \in Seq(A) /\ suf[i] \in Seq(A)
  BY ElementOfSeq, LenProperties DEF IsPrefixes, IsSuffixes
<1>2. \A x, y, v \in Seq(A) : Groups(x, y, v)
  BY Grouping
<1>3. 0 \in I
  <2> PICK s : s = suf[0]
    OBVIOUS
  <2>1. pre[0] = << >> /\ s \in Seq(A)
    BY <1>1 DEF IsPrefixes
  <2>2. << >> \o s = s
    BY <2>1, ConcatEmptySeq
  <2> QED BY <2>1, <2>2
<1>4. ASSUME NEW i \in Nat, i \in I PROVE i + 1 \in I
  <2> SUFFICES ASSUME i + 1 <= n PROVE W(i + 1) = suf[0]
    <3> HIDE DEF W
    <3> QED OBVIOUS
  <2>1. i \in 0 .. n - 1 /\ i <= n /\ i + 1 \in 0 .. n /\ i + 1 \in 1 .. n
    BY <1>1
  <2>2. pre[i + 1] = pre[i] \o f[i + 1] /\ suf[i] = f[i + 1] \o suf[i + 1]
    BY <2>1 DEF IsPrefixes, IsSuffixes
  <2>3. (pre[i] \o f[i + 1]) \o suf[i + 1] = pre[i] \o (f[i + 1] \o suf[i + 1])
    <3>1. pre[i] \in Seq(A) /\ f[i + 1] \in Seq(A) /\ suf[i + 1] \in Seq(A)
      BY <1>1, <2>1
    <3>2. Groups(pre[i], f[i + 1], suf[i + 1])
      BY <1>2, <3>1, Zenon
    <3> QED BY <3>2, Zenon DEF Groups
  <2>4. W(i) = suf[0]
    <3> HIDE DEF W
    <3> QED BY <1>4, <2>1
  <2> QED BY <2>2, <2>3, <2>4
<1>5. Nat \subseteq I
  <2> HIDE DEF I
  <2> QED BY <1>3, <1>4, SetInduction
<1>6. W(n) = suf[0]
  <2> HIDE DEF W
  <2> QED BY <1>1, <1>5
<1>7. suf[n] = << >> /\ pre[n] \in Seq(A)
  BY <1>1 DEF IsSuffixes
<1> QED BY <1>6, <1>7, ConcatEmptySeq

LEMMA FlattenSeqIs ==
  ASSUME NEW A, NEW f \in Seq(Seq(A)), NEW pre, IsPrefixes(A, f, pre)
  PROVE  FlattenSeq(f) = pre[Len(f)]
<1> PICK n : n = Len(f)
  OBVIOUS
<1>1. /\ n \in Nat /\ \A i \in 1 .. n : f[i] \in Seq(A)
      /\ \A i \in 0 .. n : pre[i] \in Seq(A)
  BY ElementOfSeq, LenProperties DEF IsPrefixes
<1>2. CASE n = 0
  <2>1. f = << >>
    BY <1>2, EmptySeq
  <2>2. FlattenSeq(f) = f
    BY <1>2 DEF FlattenSeq
  <2> QED BY <1>2, <2>1, <2>2 DEF IsPrefixes
<1>3. CASE n # 0
  <2> DEFINE Eq(g) == g = [i \in 1 .. Len(f) |-> IF i = 1 THEN f[i] ELSE g[i - 1] \o f[i]]
             p == CHOOSE g : Eq(g)
  <2>1. \A i \in 1 .. n : pre[i] = IF i = 1 THEN f[i] ELSE pre[i - 1] \o f[i]
    <3> TAKE i \in 1 .. n
    <3>1. i - 1 \in 0 .. n - 1 /\ (i - 1) + 1 = i
      BY <1>1
    <3>2. pre[(i - 1) + 1] = pre[i - 1] \o f[(i - 1) + 1]
      BY <3>1 DEF IsPrefixes
    <3>3. pre[i] = pre[i - 1] \o f[i]
      BY <3>1, <3>2
    <3>4. i = 1 => pre[i - 1] \o f[i] = f[i]
      <4> PICK e : e = f[i]
        OBVIOUS
      <4>1. << >> \o e = e
        <5>1. e \in Seq(A)
          BY <1>1
        <5> QED BY <5>1, ConcatEmptySeq
      <4>2. i = 1 => pre[i - 1] = << >>
        BY DEF IsPrefixes
      <4> QED BY <4>1, <4>2
    <3> QED BY <3>3, <3>4
  <2>2. \E g : Eq(g)
    <3> DEFINE g == [i \in 1 .. n |-> pre[i]]
    <3>1. \A i \in 1 .. n : i # 1 => i - 1 \in 1 .. n
      BY <1>1
    <3>2. \A i \in 1 .. n : g[i] = IF i = 1 THEN f[i] ELSE g[i - 1] \o f[i]
      BY <2>1, <3>1
    <3>3. g = [i \in 1 .. Len(f) |-> IF i = 1 THEN f[i] ELSE g[i - 1] \o f[i]]
      BY <3>2
    <3> HIDE DEF g
    <3> QED BY <3>3
  <2>3. Eq(p)
    <3> HIDE DEF Eq
    <3> QED BY <2>2, Zenon
  <2>4. FlattenSeq(f) = p[Len(f)]
    <3>1. Len(f) # 0
      BY <1>3
    <3> QED BY <3>1, Zenon DEF FlattenSeq
  <2> HIDE DEF p
  <2>5. \A i \in 1 .. n : p[i] = IF i = 1 THEN f[i] ELSE p[i - 1] \o f[i]
    BY <2>3
  <2> DEFINE I == {i \in Nat : i + 1 <= n => p[i + 1] = pre[i + 1]}
  <2>6. 0 \in I
    BY <1>1, <2>1, <2>5
  <2>7. ASSUME NEW i \in Nat, i \in I PROVE i + 1 \in I
    <3> SUFFICES ASSUME (i + 1) + 1 <= n PROVE p[(i + 1) + 1] = pre[(i + 1) + 1]
      OBVIOUS
    <3>1. (i + 1) + 1 \in 1 .. n /\ (i + 1) + 1 # 1 /\ ((i + 1) + 1) - 1 = i + 1 /\ i + 1 <= n
      BY <1>1
    <3> QED BY <2>1, <2>5, <2>7, <3>1
  <2>8. Nat \subseteq I
    <3> HIDE DEF I
    <3> QED BY <2>6, <2>7, SetInduction
  <2>9. n - 1 \in Nat /\ (n - 1) + 1 = n
    BY <1>1, <1>3
  <2>10. n - 1 \in I
    <3> HIDE DEF I
    <3> QED BY <2>8, <2>9
  <2>11. (n - 1) + 1 <= n => p[(n - 1) + 1] = pre[(n - 1) + 1]
    BY <2>10
  <2>12. p[n] = pre[n]
    BY <1>1, <2>9, <2>11
  <2> QED BY <2>4, <2>12
<1> QED BY <1>2, <1>3

-----------------------------------------------------------------------------
(***************************************************************************)
(* The items of a call: literals and directives.                           *)
(***************************************************************************)
Item == Literals \cup Directives
FormatChar == Characters \cup Padding \cup {"%", "l", "h"}
TextChar == Char \cup Characters \cup {"x", "%", "s", "t", "r", "c", "NUL"}
Word == 0 .. Range2(4) - 1

LEMMA LiteralIs ==
  ASSUME NEW d \in Literals
  PROVE  d.literal \in Characters /\ d.literal # "%" /\ d \notin Directives
BY DEF Literals, Directives

LEMMA DirectiveIs ==
  ASSUME NEW d \in Directives
  PROVE  /\ d \notin Literals /\ d.padding \in Seq(Padding)
         /\ d.modifier \in {"none", "l", "ll", "h", "hh"}
         /\ d.conversion \in Characters /\ d.conversion \notin Padding
         /\ d.conversion # "l" /\ d.conversion # "h" /\ d.arg \in Int
BY DEF Literals, Directives, Bytes

LEMMA BytesIs ==
  /\ Bytes["none"] = 4 /\ Bytes["l"] = 4 /\ Bytes["ll"] = 8 /\ Bytes["h"] = 2 /\ Bytes["hh"] = 1
  /\ Letters["none"] = << >> /\ Letters["l"] = <<"l">> /\ Letters["ll"] = <<"l", "l">>
  /\ Letters["h"] = <<"h">> /\ Letters["hh"] = <<"h", "h">>
BY DEF Bytes, Letters

LEMMA LettersType ==
  ASSUME NEW m \in {"none", "l", "ll", "h", "hh"}
  PROVE  Letters[m] \in Seq(FormatChar) /\ Bytes[m] \in {1, 2, 4, 8}
<1>1. "l" \in FormatChar /\ "h" \in FormatChar
  BY DEF FormatChar
<1>2. << >> \in Seq(FormatChar)
  OBVIOUS
<1>3. <<"l">> \in Seq(FormatChar) /\ <<"l", "l">> \in Seq(FormatChar)
  BY <1>1
<1>4. <<"h">> \in Seq(FormatChar) /\ <<"h", "h">> \in Seq(FormatChar)
  BY <1>1
<1> QED BY <1>2, <1>3, <1>4, BytesIs

LEMMA ArgBytesIs ==
  ASSUME NEW d \in Directives
  PROVE  /\ d.conversion \in Integral => ArgBytes(d) = Bytes[d.modifier]
         /\ d.conversion \in {"D", "X", "B"} => ArgBytes(d) = 8
         /\ d.conversion \in {"b", "p", "s"} => ArgBytes(d) = 4
         /\ d.conversion = "c" => ArgBytes(d) = 1
         /\ d.conversion = "%" => ArgBytes(d) = 0
         /\ d.conversion \in Integral => ArgBytes(d) \in {1, 2, 4, 8}
         /\ ArgBytes(d) \in {0, 1, 2, 4, 8}
<1>1. Bytes[d.modifier] \in {1, 2, 4, 8}
  BY DirectiveIs, LettersType
<1> QED BY <1>1 DEF ArgBytes, Integral

\* The characters of a directive.
LEMMA CharsOfDirective ==
  ASSUME NEW d \in Directives
  PROVE  /\ d.padding \in Seq(FormatChar) /\ Letters[d.modifier] \in Seq(FormatChar)
         /\ <<d.conversion>> \in Seq(FormatChar) /\ <<"%">> \in Seq(FormatChar)
         /\ Chars(d) = <<"%">> \o (d.padding \o (Letters[d.modifier] \o <<d.conversion>>))
<1>1. Padding \subseteq FormatChar /\ "%" \in FormatChar /\ d.conversion \in FormatChar
  BY DirectiveIs DEF FormatChar
<1>2. d.padding \in Seq(FormatChar)
  BY <1>1, DirectiveIs, SeqMonotonic
<1>3. Letters[d.modifier] \in Seq(FormatChar)
  BY DirectiveIs, LettersType
<1>4. <<d.conversion>> \in Seq(FormatChar) /\ <<"%">> \in Seq(FormatChar)
  BY <1>1
<1>5. Chars(d) = <<"%">> \o (d.padding \o (Letters[d.modifier] \o <<d.conversion>>))
  BY DirectiveIs, Zenon DEF Chars
<1> QED BY <1>2, <1>3, <1>4, <1>5

LEMMA CharsType == ASSUME NEW d \in Item PROVE Chars(d) \in Seq(FormatChar)
<1>1. CASE d \in Literals
  <2>1. Chars(d) = <<d.literal>> /\ d.literal \in FormatChar
    BY <1>1, LiteralIs DEF Chars, FormatChar
  <2> QED BY <2>1
<1>2. CASE d \in Directives
  <2> PICK p, l, x, y :
        p = d.padding /\ l = Letters[d.modifier] /\ x = <<d.conversion>> /\ y = <<"%">>
    OBVIOUS
  <2>1. /\ p \in Seq(FormatChar) /\ l \in Seq(FormatChar) /\ x \in Seq(FormatChar)
        /\ y \in Seq(FormatChar) /\ Chars(d) = y \o (p \o (l \o x))
    BY <1>2, CharsOfDirective
  <2> QED BY <2>1, ConcatProperties
<1> QED BY <1>1, <1>2 DEF Item

LEMMA WordsAre ==
  ASSUME NEW d \in Directives
  PROVE  /\ ArgBytes(d) = 0 => Words(d) = << >>
         /\ ArgBytes(d) = 8 =>
              Words(d) = <<Unsigned(d.arg, 4), Unsigned(d.arg \div Range2(4), 4)>>
         /\ ArgBytes(d) \in {1, 2, 4} => Words(d) = <<Unsigned(d.arg, 4)>>
BY DirectiveIs DEF Words

LEMMA WordsType == ASSUME NEW d \in Item PROVE Words(d) \in Seq(Word)
<1>1. CASE d \in Literals
  BY <1>1 DEF Words
<1>2. CASE d \in Directives
  <2> PICK u, q : u = Unsigned(d.arg, 4) /\ q = d.arg \div Range2(4)
    OBVIOUS
  <2>1. d.arg \in Int /\ Range2(4) \in Nat /\ Range2(4) > 0
    <3>1. d.arg \in Int
      BY <1>2, DirectiveIs
    <3> PICK m : m = Range2(4)
      OBVIOUS
    <3>2. m \in Nat /\ m >= 2
      BY Ranges
    <3> QED BY <3>1, <3>2
  <2>2. q \in Int
    BY <2>1, DivMod
  <2> PICK v : v = Unsigned(q, 4)
    OBVIOUS
  <2>3. u \in Word /\ v \in Word
    BY <2>1, <2>2, UnsignedType DEF Word
  <2>4. << >> \in Seq(Word) /\ <<u>> \in Seq(Word) /\ <<u, v>> \in Seq(Word)
    BY <2>3
  <2> QED BY <1>2, <2>4, ArgBytesIs, WordsAre
<1> QED BY <1>1, <1>2 DEF Item

LEMMA ZeroFilledType ==
  ASSUME NEW s \in Seq(Char), NEW width \in Nat, Len(s) <= width
  PROVE  ZeroFilled(s, width) \in Seq(Char)
<1>1. Len(s) \in Nat
  BY LenProperties
<1>2. [i \in 1 .. width - Len(s) |-> "0"] \in Seq(Char)
  BY <1>1, ZeroDigit
<1> QED BY <1>2, ConcatProperties DEF ZeroFilled

LEMMA SignedNumeralType == ASSUME NEW n \in Int PROVE SignedNumeral(n) \in Seq(Char)
<1>1. "-" \in Char
  <2>1. DigitChar[7] = "-" /\ 7 \in 1 .. 25
    BY DEF DigitChar
  <2> QED BY <2>1 DEF Char
<1>2. CASE n < 0
  <2>1. -n \in Nat
    BY <1>2
  <2>2. Numeral(-n, 10) \in Seq(Char)
    BY <2>1, NumeralType
  <2>3. <<"-">> \in Seq(Char)
    BY <1>1
  <2> QED BY <1>2, <2>2, <2>3, ConcatProperties DEF SignedNumeral
<1>3. CASE ~(n < 0)
  BY <1>3, NumeralType DEF SignedNumeral
<1> QED BY <1>2, <1>3

\* The value of a directive, as its type has it.
LEMMA Value ==
  ASSUME NEW d \in Directives, ArgBytes(d) # 0
  PROVE  /\ ArgBytes(d) \in {1, 2, 4, 8} /\ d.arg \in Int
         /\ Unsigned(d.arg, ArgBytes(d)) \in Nat
         /\ Unsigned(d.arg, ArgBytes(d)) < Range2(ArgBytes(d))
         /\ Signed(d.arg, ArgBytes(d)) \in Int
<1> PICK k : k = ArgBytes(d)
  OBVIOUS
<1>1. k \in {1, 2, 4, 8} /\ d.arg \in Int
  BY ArgBytesIs, DirectiveIs
<1> PICK u, r : u = Unsigned(d.arg, k) /\ r = Range2(k)
  OBVIOUS
<1>2. u \in 0 .. r - 1 /\ r \in Nat
  BY <1>1, UnsignedType, Ranges
<1>3. Signed(d.arg, k) \in Int
  BY <1>1, SignedType
<1> QED BY <1>1, <1>2, <1>3

\* A binary numeral fits its width.
LEMMA BinFits ==
  ASSUME NEW k \in {4, 8}, NEW n \in Nat, n < Range2(k)
  PROVE  /\ Bin(n, k * ByteBits) = ZeroFilled(Numeral(n, 2), k * ByteBits)
         /\ ZeroFilled(Numeral(n, 2), k * ByteBits) \in Seq(Char)
<1> PICK w, s : w = k * ByteBits /\ s = Numeral(n, 2)
  OBVIOUS
<1>1. w \in Nat \ {0} /\ n < Power(2, w)
  <2>1. w \in Nat \ {0}
    BY FormatAssumption
  <2> QED BY <2>1 DEF Range2
<1>2. Bin(n, w) = ZeroFilled(s, w)
  BY <1>1, BinIs
<1>3. \A i \in 1 .. w : Digit((n \div Power(2, w - i)) % 2) \in Char
  <2> TAKE i \in 1 .. w
  <2> PICK b, j : b = 2 /\ j = w - i
    OBVIOUS
  <2> PICK p : p = Power(b, j)
    OBVIOUS
  <2>1. b \in Nat /\ b >= 2 /\ j \in Nat
    BY <1>1
  <2>2. p \in Nat /\ j < p
    BY <2>1, PowerGrows
  <2>3. p > 0
    BY <2>1, <2>2
  <2> PICK q : q = n \div p
    OBVIOUS
  <2>4. q \in Nat
    BY <2>2, <2>3, NaturalDivision
  <2>5. q % 2 \in 0 .. 15
    BY <2>4
  <2> QED BY <2>5, DigitIsChar
<1>4. Bin(n, w) \in Seq(Char)
  <2>1. Bin(n, w) = [i \in 1 .. w |-> Digit((n \div Power(2, w - i)) % 2)]
    BY DEF Bin
  <2> DEFINE D(i) == Digit((n \div Power(2, w - i)) % 2)
  <2>2. Bin(n, w) = [i \in 1 .. w |-> D(i)] /\ \A i \in 1 .. w : D(i) \in Char
    BY <1>3, <2>1
  <2> HIDE DEF D
  <2> QED BY <1>1, <2>2
<1> QED BY <1>2, <1>4

\* The text of a directive.
LEMMA TextIs ==
  ASSUME NEW d \in Directives, NEW n, n = Unsigned(d.arg, ArgBytes(d))
  PROVE  /\ d.conversion \in {"d", "i", "D"} =>
              Text(d) = SignedNumeral(Signed(d.arg, ArgBytes(d)))
         /\ d.conversion = "u" => Text(d) = Numeral(n, 10)
         /\ d.conversion \in {"x", "X"} => Text(d) = Numeral(n, 16)
         /\ d.conversion = "p" => Text(d) = <<"0", "x">> \o Numeral(n, 16)
         /\ d.conversion \in {"b", "B"} =>
              Text(d) = ZeroFilled(Numeral(n, 2), ArgBytes(d) * ByteBits)
         /\ d.conversion = "s" => Text(d) = StringAt(n)
         /\ d.conversion = "c" => Text(d) = <<CharOf(n)>>
         /\ d.conversion \notin {"d", "i", "D", "u", "x", "X", "p", "b", "B", "s", "c"} =>
              Text(d) = <<"%">>
BY DirectiveIs DEF Text

LEMMA TextType == ASSUME NEW d \in Item PROVE Text(d) \in Seq(TextChar)
<1>1. Char \subseteq TextChar /\ Seq(Char) \subseteq Seq(TextChar)
  <2>1. Char \subseteq TextChar
    BY DEF TextChar
  <2> QED BY <2>1, SeqMonotonic
<1>2. CASE d \in Literals
  <2>1. Text(d) = <<d.literal>> /\ d.literal \in TextChar
    BY <1>2, LiteralIs DEF Text, TextChar
  <2> QED BY <2>1
<1>3. CASE d \in Directives
  <2> PICK n, k : n = Unsigned(d.arg, ArgBytes(d)) /\ k = ArgBytes(d)
    OBVIOUS
  <2>1. CASE d.conversion \in {"d", "i", "D"}
    <3>1. k # 0
      BY <1>3, <2>1, ArgBytesIs DEF Integral
    <3>2. Signed(d.arg, k) \in Int
      BY <1>3, <3>1, Value
    <3> QED BY <1>1, <1>3, <2>1, <3>2, SignedNumeralType, TextIs
  <2>2. CASE d.conversion \in {"u", "x", "X", "p"}
    <3>1. k # 0
      BY <1>3, <2>2, ArgBytesIs DEF Integral
    <3>2. n \in Nat
      <4>1. Unsigned(d.arg, ArgBytes(d)) \in Nat
        BY <1>3, <3>1, Value, Zenon
      <4> QED BY <4>1
    <3>3. Numeral(n, 10) \in Seq(TextChar) /\ Numeral(n, 16) \in Seq(TextChar)
      <4>1. Numeral(n, 10) \in Seq(Char)
        BY <3>2, NumeralType
      <4>2. Numeral(n, 16) \in Seq(Char)
        BY <3>2, NumeralType
      <4> QED BY <1>1, <4>1, <4>2, Zenon
    <3>4. <<"0", "x">> \in Seq(TextChar)
      BY <1>1, ZeroDigit DEF TextChar
    <3>5. <<"0", "x">> \o Numeral(n, 16) \in Seq(TextChar)
      BY <3>3, <3>4, ConcatProperties
    <3> QED BY <1>3, <2>2, <3>3, <3>5, TextIs
  <2>3. CASE d.conversion \in {"b", "B"}
    <3>1. k \in {4, 8}
      BY <1>3, <2>3, ArgBytesIs
    <3>2. n \in Nat /\ n < Range2(k)
      BY <1>3, <3>1, Value
    <3>3. ZeroFilled(Numeral(n, 2), k * ByteBits) \in Seq(Char)
      BY <3>1, <3>2, BinFits
    <3> QED BY <1>1, <1>3, <2>3, <3>3, TextIs
  <2>4. CASE d.conversion = "s"
    <3>1. << >> \in Seq(TextChar) /\ <<"s", "t", "r">> \in Seq(TextChar)
      BY DEF TextChar
    <3>2. StringAt(n) \in Seq(TextChar)
      BY <3>1 DEF StringAt
    <3> QED BY <1>3, <2>4, <3>2, TextIs
  <2>5. CASE d.conversion = "c"
    <3>1. CharOf(n) \in TextChar
      BY DEF CharOf, TextChar
    <3>2. <<CharOf(n)>> \in Seq(TextChar)
      BY <3>1
    <3> QED BY <1>3, <2>5, <3>2, TextIs
  <2>6. CASE d.conversion \notin {"d", "i", "D", "u", "x", "X", "p", "b", "B", "s", "c"}
    <3>1. <<"%">> \in Seq(TextChar)
      BY DEF TextChar
    <3> QED BY <1>3, <2>6, <3>1, TextIs
  <2> QED BY <2>1, <2>2, <2>3, <2>4, <2>5, <2>6
<1> QED BY <1>2, <1>3 DEF Item

\* What a conversion finds in the words of its directive, and the text it makes
\* of it: the text of the directive.
LEMMA ArgumentIs ==
  ASSUME NEW d \in Directives,
         ArgBytes(d) # 0 => args[1] = Words(d)[1],
         ArgBytes(d) = 8 => args[2] = Words(d)[2]
  PROVE  /\ ArgBytes(d) \in {1, 2, 4} =>
              /\ Arg32 = Unsigned(d.arg, 4)
              /\ Unsigned(Arg32, ArgBytes(d)) = Unsigned(d.arg, ArgBytes(d))
              /\ Signed(Arg32, ArgBytes(d)) = Signed(d.arg, ArgBytes(d))
         /\ ArgBytes(d) = 8 =>
              /\ Arg64 = Unsigned(d.arg, 8)
              /\ Signed(Arg64, 8) = Signed(d.arg, 8)
<1>1. d.arg \in Int
  BY DirectiveIs
<1>2. CASE ArgBytes(d) \in {1, 2, 4}
  <2>1. Arg32 = Unsigned(d.arg, 4)
    BY <1>2, WordsAre DEF Arg32
  <2> QED BY <1>1, <1>2, <2>1, UnsignedWord
<1>3. CASE ArgBytes(d) = 8
  <2>1. /\ args[1] = Unsigned(d.arg, 4)
        /\ args[2] = Unsigned(d.arg \div Range2(4), 4)
    BY <1>3, WordsAre
  <2>2. Arg64 = Unsigned(d.arg, 8)
    BY <1>1, <2>1, UnsignedWords DEF Arg64
  <2>3. Signed(Unsigned(d.arg, 8), 8) = Signed(d.arg, 8)
    <3> PICK x, e : x = d.arg /\ e = 8
      OBVIOUS
    <3>1. x \in Int /\ e \in {1, 2, 4, 8}
      BY <1>1
    <3>2. Signed(Unsigned(x, e), e) = Signed(x, e)
      BY <3>1, SignedType, Zenon
    <3> QED BY <3>2
  <2> QED BY <1>3, <2>2, <2>3
<1> QED BY <1>2, <1>3

LEMMA SignedText ==
  ASSUME NEW d \in Directives, Printable(d), d.conversion \in {"d", "i", "D"}
  PROVE  Idec(Signed(d.arg, ArgBytes(d))) = Text(d)
<1> PICK k, s : k = ArgBytes(d) /\ s = Signed(d.arg, k)
  OBVIOUS
<1>1. k \in {1, 2, 4, 8} /\ d.arg \in Int
  <2>1. k # 0
    BY ArgBytesIs DEF Integral
  <2> QED BY <2>1, Value
<1> PICK m, r : m = Range2(8) /\ r = Range2(k)
  OBVIOUS
<1>2. /\ s \in Int /\ -r <= 2 * s /\ 2 * s < r
      /\ 2 * Unsigned(d.arg, k) # r => -r < 2 * s
  <2>1. /\ s \in Int /\ -Range2(k) <= 2 * s /\ 2 * s < Range2(k)
        /\ 2 * Unsigned(d.arg, k) # Range2(k) => -Range2(k) < 2 * s
    <3>1. s = Signed(d.arg, k)
      OBVIOUS
    <3> QED BY <1>1, <3>1, SignedType, Zenon
  <2> QED BY <2>1
<1>3. m \in Nat /\ r \in Nat /\ (k # 8 => r < m)
  BY <1>1, Ranges
<1>4. -m < 2 * s /\ 2 * s < m
  <2>1. CASE k = 8
    <3>1. 2 * Unsigned(d.arg, k) # r
      BY <2>1 DEF Printable
    <3>2. r = m
      BY <2>1
    <3> QED BY <1>2, <1>3, <3>1, <3>2
  <2>2. CASE k # 8
    BY <1>2, <1>3, <2>2
  <2> QED BY <2>1, <2>2
<1>5. Idec(s) = SignedNumeral(s)
  BY <1>2, <1>4, IdecIs
<1> QED BY <1>5, TextIs

-----------------------------------------------------------------------------
(***************************************************************************)
(* A call, and how far it has been read.                                   *)
(***************************************************************************)
CharsOf(called) == [i \in DOMAIN called |-> Chars(called[i])]
WordsOf(called) == [i \in DOMAIN called |-> Words(called[i])]
TextOf(called) == [i \in DOMAIN called |-> Text(called[i])]

\* The characters and the words that follow the first items, the text of them.
CharsLeft(called) == CHOOSE suf : IsSuffixes(FormatChar, CharsOf(called), suf)
WordsLeft(called) == CHOOSE suf : IsSuffixes(Word, WordsOf(called), suf)
TextRead(called) == CHOOSE pre : IsPrefixes(TextChar, TextOf(called), pre)

LEMMA CallType ==
  ASSUME NEW called \in Calls
  PROVE  /\ called \in Seq(Item) /\ Len(called) \in Nat /\ DOMAIN called = 1 .. Len(called)
         /\ \A i \in 1 .. Len(called) : called[i] \in Item /\ Printable(called[i])
<1>1. called \in Seq(Item) /\ \A i \in DOMAIN called : Printable(called[i])
  BY CallsAssumption DEF Item
<1> QED BY <1>1, ElementOfSeq, LenProperties

LEMMA PartType ==
  ASSUME NEW A, NEW called \in Seq(Item), NEW part \in [DOMAIN called -> A]
  PROVE  part \in Seq(A) /\ Len(part) = Len(called)
<1>1. Len(called) \in Nat /\ DOMAIN called = 1 .. Len(called)
  BY LenProperties
<1>2. part \in [1 .. Len(called) -> A]
  BY <1>1
<1> QED BY <1>1, <1>2

LEMMA PartsOf ==
  ASSUME NEW called \in Calls
  PROVE  /\ CharsOf(called) \in Seq(Seq(FormatChar)) /\ Len(CharsOf(called)) = Len(called)
         /\ WordsOf(called) \in Seq(Seq(Word)) /\ Len(WordsOf(called)) = Len(called)
         /\ TextOf(called) \in Seq(Seq(TextChar)) /\ Len(TextOf(called)) = Len(called)
         /\ \A i \in 1 .. Len(called) : /\ CharsOf(called)[i] = Chars(called[i])
                                        /\ WordsOf(called)[i] = Words(called[i])
                                        /\ TextOf(called)[i] = Text(called[i])
<1>1. called \in Seq(Item) /\ \A i \in DOMAIN called : called[i] \in Item
  BY CallType
<1>2. \A i \in DOMAIN called : /\ CharsOf(called)[i] = Chars(called[i])
                               /\ WordsOf(called)[i] = Words(called[i])
                               /\ TextOf(called)[i] = Text(called[i])
  BY DEF CharsOf, WordsOf, TextOf
<1>3. CharsOf(called) \in Seq(Seq(FormatChar)) /\ Len(CharsOf(called)) = Len(called)
  <2>1. \A i \in DOMAIN called : Chars(called[i]) \in Seq(FormatChar)
    BY <1>1, CharsType
  <2>2. CharsOf(called) \in [DOMAIN called -> Seq(FormatChar)]
    BY <2>1 DEF CharsOf
  <2> QED BY <1>1, <2>2, PartType
<1>4. WordsOf(called) \in Seq(Seq(Word)) /\ Len(WordsOf(called)) = Len(called)
  <2>1. \A i \in DOMAIN called : Words(called[i]) \in Seq(Word)
    BY <1>1, WordsType
  <2>2. WordsOf(called) \in [DOMAIN called -> Seq(Word)]
    BY <2>1 DEF WordsOf
  <2> QED BY <1>1, <2>2, PartType
<1>5. TextOf(called) \in Seq(Seq(TextChar)) /\ Len(TextOf(called)) = Len(called)
  <2>1. \A i \in DOMAIN called : Text(called[i]) \in Seq(TextChar)
    BY <1>1, TextType
  <2>2. TextOf(called) \in [DOMAIN called -> Seq(TextChar)]
    BY <2>1 DEF TextOf
  <2> QED BY <1>1, <2>2, PartType
<1> QED BY <1>2, <1>3, <1>4, <1>5, CallType

LEMMA Left ==
  ASSUME NEW called \in Calls, NEW n, n = Len(called)
  PROVE  /\ FlattenSeq(CharsOf(called)) = CharsLeft(called)[0] /\ CharsLeft(called)[n] = << >>
         /\ FlattenSeq(WordsOf(called)) = WordsLeft(called)[0] /\ WordsLeft(called)[n] = << >>
         /\ FlattenSeq(TextOf(called)) = TextRead(called)[n] /\ TextRead(called)[0] = << >>
         /\ \A i \in 0 .. n : /\ CharsLeft(called)[i] \in Seq(FormatChar)
                              /\ WordsLeft(called)[i] \in Seq(Word)
                              /\ TextRead(called)[i] \in Seq(TextChar)
         /\ \A i \in 0 .. n - 1 :
              /\ CharsLeft(called)[i] = Chars(called[i + 1]) \o CharsLeft(called)[i + 1]
              /\ WordsLeft(called)[i] = Words(called[i + 1]) \o WordsLeft(called)[i + 1]
              /\ TextRead(called)[i + 1] = TextRead(called)[i] \o Text(called[i + 1])
<1>1. n \in Nat /\ \A i \in 0 .. n - 1 : i + 1 \in 1 .. n
  BY CallType
<1>2. /\ FlattenSeq(CharsOf(called)) = CharsLeft(called)[0] /\ CharsLeft(called)[n] = << >>
      /\ \A i \in 0 .. n : CharsLeft(called)[i] \in Seq(FormatChar)
      /\ \A i \in 0 .. n - 1 :
           CharsLeft(called)[i] = Chars(called[i + 1]) \o CharsLeft(called)[i + 1]
  <2> PICK f, s : f = CharsOf(called) /\ s = CharsLeft(called)
    OBVIOUS
  <2>1. /\ f \in Seq(Seq(FormatChar)) /\ Len(f) = n
        /\ \A i \in 1 .. n : f[i] = Chars(called[i])
    BY PartsOf
  <2>2. \E suf : IsSuffixes(FormatChar, f, suf)
    BY <2>1, SuffixesExist
  <2>3. IsSuffixes(FormatChar, f, s)
    BY <2>2, Zenon DEF CharsLeft
  <2>4. PICK pre : IsPrefixes(FormatChar, f, pre)
    BY <2>1, PrefixesExist
  <2>5. FlattenSeq(f) = s[0]
    BY <2>1, <2>3, <2>4, FlattenSeqIs, SplitAnywhere
  <2> QED BY <1>1, <2>1, <2>3, <2>5 DEF IsSuffixes
<1>3. /\ FlattenSeq(WordsOf(called)) = WordsLeft(called)[0] /\ WordsLeft(called)[n] = << >>
      /\ \A i \in 0 .. n : WordsLeft(called)[i] \in Seq(Word)
      /\ \A i \in 0 .. n - 1 :
           WordsLeft(called)[i] = Words(called[i + 1]) \o WordsLeft(called)[i + 1]
  <2> PICK f, s : f = WordsOf(called) /\ s = WordsLeft(called)
    OBVIOUS
  <2>1. /\ f \in Seq(Seq(Word)) /\ Len(f) = n
        /\ \A i \in 1 .. n : f[i] = Words(called[i])
    BY PartsOf
  <2>2. \E suf : IsSuffixes(Word, f, suf)
    BY <2>1, SuffixesExist
  <2>3. IsSuffixes(Word, f, s)
    BY <2>2, Zenon DEF WordsLeft
  <2>4. PICK pre : IsPrefixes(Word, f, pre)
    BY <2>1, PrefixesExist
  <2>5. FlattenSeq(f) = s[0]
    BY <2>1, <2>3, <2>4, FlattenSeqIs, SplitAnywhere
  <2> QED BY <1>1, <2>1, <2>3, <2>5 DEF IsSuffixes
<1>4. /\ FlattenSeq(TextOf(called)) = TextRead(called)[n] /\ TextRead(called)[0] = << >>
      /\ \A i \in 0 .. n : TextRead(called)[i] \in Seq(TextChar)
      /\ \A i \in 0 .. n - 1 :
           TextRead(called)[i + 1] = TextRead(called)[i] \o Text(called[i + 1])
  <2> PICK f, s : f = TextOf(called) /\ s = TextRead(called)
    OBVIOUS
  <2>1. /\ f \in Seq(Seq(TextChar)) /\ Len(f) = n
        /\ \A i \in 1 .. n : f[i] = Text(called[i])
    BY PartsOf
  <2>2. \E pre : IsPrefixes(TextChar, f, pre)
    BY <2>1, PrefixesExist
  <2>3. IsPrefixes(TextChar, f, s)
    BY <2>2, Zenon DEF TextRead
  <2>4. FlattenSeq(f) = s[n]
    BY <2>1, <2>3, FlattenSeqIs
  <2> QED BY <1>1, <2>1, <2>3, <2>4 DEF IsPrefixes
<1> QED BY <1>2, <1>3, <1>4

-----------------------------------------------------------------------------
(***************************************************************************)
(* The invariant: the loop is between two items of the call, or within a   *)
(* directive, of which some padding, some letters and the conversion are   *)
(* still to be read.                                                       *)
(***************************************************************************)
AfterItems(i) ==
  /\ \A j \in 1 .. i : ~Unsupported(call[j])
  /\ args = WordsLeft(call)[i] \o <<0, 1>>
  /\ out = Cut(TextRead(call)[i], len)

Between(i) ==
  /\ i \in 0 .. Len(call) /\ AfterItems(i)
  /\ interp = FALSE /\ lng = FALSE
  /\ format = CharsLeft(call)[i]

\* What size and lng are when these letters of a modifier are left.
Reads(m, letters, sz, marked) ==
  \/ m = "none" /\ letters = << >> /\ sz = 4 /\ marked = FALSE
  \/ m = "l" /\ letters = <<"l">> /\ sz = 4 /\ marked = FALSE
  \/ m = "l" /\ letters = << >> /\ sz = 4 /\ marked = TRUE
  \/ m = "ll" /\ letters = <<"l", "l">> /\ sz = 4 /\ marked = FALSE
  \/ m = "ll" /\ letters = <<"l">> /\ sz = 4 /\ marked = TRUE
  \/ m = "ll" /\ letters = << >> /\ sz = 8 /\ marked = TRUE
  \/ m = "h" /\ letters = <<"h">> /\ sz = 4 /\ marked = FALSE
  \/ m = "h" /\ letters = << >> /\ sz = 2 /\ marked = FALSE
  \/ m = "hh" /\ letters = <<"h", "h">> /\ sz = 4 /\ marked = FALSE
  \/ m = "hh" /\ letters = <<"h">> /\ sz = 2 /\ marked = FALSE
  \/ m = "hh" /\ letters = << >> /\ sz = 1 /\ marked = FALSE

LeftOf(called, i, padding, letters) ==
  padding \o (letters \o (<<called[i + 1].conversion>> \o CharsLeft(called)[i + 1]))

Within(i) ==
  /\ i \in 0 .. Len(call) - 1 /\ AfterItems(i)
  /\ call[i + 1] \in Directives /\ interp = TRUE
  /\ \E padding \in Seq(Padding), letters \in Seq(FormatChar) :
       /\ Reads(call[i + 1].modifier, letters, size, lng)
       /\ format = LeftOf(call, i, padding, letters)

Running == \E i \in Nat : Between(i) \/ Within(i)

Done ==
  /\ \A i \in DOMAIN call : ~Unsupported(call[i])
  /\ args = <<0, 1>>
  /\ out = Append(Cut(FlattenSeq(TextOf(call)), len), "NUL")

Panicked ==
  /\ \E i \in DOMAIN call : Unsupported(call[i])
  /\ args \in Seq(Word) /\ Len(out) <= len

Typed ==
  /\ call \in Calls /\ len \in Nat
  /\ interp \in BOOLEAN /\ lng \in BOOLEAN /\ size \in {1, 2, 4, 8}
  /\ status \in {"running", "panic", "done"}

Inv ==
  /\ Typed
  /\ status = "running" => Running
  /\ status = "done" => Done
  /\ status = "panic" => Panicked

LEMMA TailWords == <<0, 1>> \in Seq(Word) /\ <<0, 1>> # << >>
<1>1. 0 \in Word /\ 1 \in Word
  BY Ranges DEF Word
<1> QED BY <1>1

LEMMA InitInv == ASSUME Init PROVE Inv
<1>1. call \in Calls /\ status = "running" /\ interp = FALSE /\ lng = FALSE /\ size = 4
  BY DEF Init
<1>2. len \in Nat
  <2>1. PICK size0 \in Lens : len = size0 - 1
    BY DEF Init
  <2> QED BY <2>1, FormatAssumption
<1>3. format = CharsLeft(call)[0] /\ args = WordsLeft(call)[0] \o <<0, 1>>
  BY <1>1, Left DEF Init, CharsOf, WordsOf
<1>4. out = Cut(TextRead(call)[0], len)
  <2>1. TextRead(call)[0] = << >> /\ out = << >>
    BY <1>1, Left DEF Init
  <2>2. << >> \in Seq(TextChar) /\ Len(<< >>) <= len
    BY <1>2, EmptySeq
  <2>3. Cut(<< >>, len) = << >>
    BY <1>2, <2>2, CutType
  <2> QED BY <2>1, <2>3
<1>5. 0 \in 0 .. Len(call)
  BY <1>1, CallType
<1>6. Between(0)
  BY <1>1, <1>3, <1>4, <1>5 DEF Between, AfterItems
<1> QED BY <1>1, <1>2, <1>6 DEF Inv, Typed, Running

-----------------------------------------------------------------------------
(***************************************************************************)
(* What the loop sees.                                                     *)
(***************************************************************************)

LEMMA Joining == ASSUME NEW A PROVE \A x, y \in Seq(A) : x \o y \in Seq(A)
BY ConcatProperties

LEMMA FirstCharacter ==
  \A x \in FormatChar : \A s \in Seq(FormatChar) :
    /\ <<x>> \in Seq(FormatChar) /\ <<x>> \o s # << >>
    /\ Head(<<x>> \o s) = x /\ Tail(<<x>> \o s) = s
BY InFront

Regroups(A, v, p, l, y, s) ==
  /\ p \o (l \o (y \o s)) \in Seq(A)
  /\ (v \o (p \o (l \o y))) \o s = v \o (p \o (l \o (y \o s)))

LEMMA Regroup ==
  ASSUME NEW A, NEW v \in Seq(A), NEW p \in Seq(A), NEW l \in Seq(A), NEW y \in Seq(A),
         NEW s \in Seq(A)
  PROVE  Regroups(A, v, p, l, y, s)
<1>1. \A x, z \in Seq(A) : x \o z \in Seq(A)
  BY Joining
<1>2. l \o y \in Seq(A) /\ y \o s \in Seq(A)
  BY <1>1, Zenon
<1>3. p \o (l \o y) \in Seq(A) /\ l \o (y \o s) \in Seq(A)
  BY <1>1, <1>2, Zenon
<1>4. p \o (l \o (y \o s)) \in Seq(A)
  BY <1>1, <1>3, Zenon
<1>5. \A x, w, z \in Seq(A) : Groups(x, w, z)
  BY Grouping
<1>6. Groups(l, y, s) /\ Groups(p, l \o y, s) /\ Groups(v, p \o (l \o y), s)
  BY <1>2, <1>3, <1>5, Zenon
<1>7. /\ (l \o y) \o s = l \o (y \o s)
      /\ (p \o (l \o y)) \o s = p \o ((l \o y) \o s)
      /\ (v \o (p \o (l \o y))) \o s = v \o ((p \o (l \o y)) \o s)
  BY <1>6, Zenon DEF Groups
<1>8. (v \o (p \o (l \o y))) \o s = v \o (p \o (l \o (y \o s)))
  BY <1>7, Zenon
<1> QED BY <1>4, <1>8, Zenon DEF Regroups

\* Between two items: the end, a literal, or the "%" of a directive.
LEMMA BetweenSees ==
  ASSUME call \in Calls, NEW i, Between(i)
  PROVE  \/ i = Len(call) /\ format = << >>
         \/ /\ i \in 0 .. Len(call) - 1 /\ call[i + 1] \in Literals /\ format # << >>
            /\ <<c>> = Text(call[i + 1]) /\ c # "%" /\ Tail(format) = CharsLeft(call)[i + 1]
         \/ /\ i \in 0 .. Len(call) - 1 /\ call[i + 1] \in Directives /\ format # << >> /\ c = "%"
            /\ Tail(format)
                 = LeftOf(call, i, call[i + 1].padding, Letters[call[i + 1].modifier])
<1> PICK n, d, s : n = Len(call) /\ d = call[i + 1] /\ s = CharsLeft(call)[i + 1]
  OBVIOUS
<1>1. n \in Nat /\ i \in 0 .. n /\ format = CharsLeft(call)[i]
  BY CallType DEF Between
<1>2. CASE i = n
  BY <1>1, <1>2, Left
<1>3. CASE i # n
  <2>1. i \in 0 .. n - 1 /\ i + 1 \in 1 .. n /\ i + 1 \in 0 .. n
    BY <1>1, <1>3
  <2>2. d \in Item /\ s \in Seq(FormatChar) /\ format = Chars(d) \o s
    BY <1>1, <2>1, Left, CallType
  <2>3. CASE d \in Literals
    <3> PICK x : x = d.literal
      OBVIOUS
    <3>1. x \in FormatChar /\ x # "%" /\ Chars(d) = <<x>> /\ Text(d) = <<x>>
      BY <2>3, LiteralIs DEF Chars, Text, FormatChar
    <3>2. format = <<x>> \o s
      BY <2>2, <3>1
    <3>3. format # << >> /\ c = x /\ Tail(format) = s
      BY <2>2, <3>1, <3>2, InFront DEF c
    <3> QED BY <2>1, <2>3, <3>1, <3>3
  <2>4. CASE d \in Directives
    <3> PICK p, l, y, v :
          p = d.padding /\ l = Letters[d.modifier] /\ y = <<d.conversion>> /\ v = "%"
      OBVIOUS
    <3>1. /\ p \in Seq(FormatChar) /\ l \in Seq(FormatChar) /\ y \in Seq(FormatChar)
          /\ <<v>> \in Seq(FormatChar) /\ Chars(d) = <<v>> \o (p \o (l \o y))
          /\ v \in FormatChar
      BY <2>4, CharsOfDirective DEF FormatChar
    <3> PICK t : t = p \o (l \o (y \o s))
      OBVIOUS
    <3>2. t \in Seq(FormatChar) /\ (<<v>> \o (p \o (l \o y))) \o s = <<v>> \o t
      <4>1. Regroups(FormatChar, <<v>>, p, l, y, s)
        BY <2>2, <3>1, Regroup
      <4>2. /\ p \o (l \o (y \o s)) \in Seq(FormatChar)
            /\ (<<v>> \o (p \o (l \o y))) \o s = <<v>> \o (p \o (l \o (y \o s)))
        BY <4>1, Zenon DEF Regroups
      <4> QED BY <4>2
    <3>3. format = <<v>> \o t
      BY <2>2, <3>1, <3>2
    <3>4. <<v>> \o t # << >> /\ Head(<<v>> \o t) = v /\ Tail(<<v>> \o t) = t
      <4>1. v \in FormatChar /\ t \in Seq(FormatChar)
        BY <3>1, <3>2
      <4> QED BY <4>1, FirstCharacter
    <3>5. format # << >> /\ c = v /\ Tail(format) = t
      BY <3>3, <3>4 DEF c
    <3> QED BY <2>1, <2>4, <3>5 DEF LeftOf
  <2> QED BY <2>1, <2>2, <2>3, <2>4 DEF Item
<1> QED BY <1>2, <1>3

\* The letters that are left: none, or one to read and the others.
LEMMA LettersLeft ==
  ASSUME NEW m \in {"none", "l", "ll", "h", "hh"}, NEW letters, NEW sz, NEW marked,
         Reads(m, letters, sz, marked)
  PROVE  /\ marked \in BOOLEAN
         /\ \/ /\ letters = << >>
               /\ (IF sz >= 8 THEN 8 ELSE IF sz \in {2, 4} THEN sz ELSE 1) = Bytes[m]
            \/ \E others \in Seq(FormatChar) :
                 /\ letters = <<"l">> \o others
                 /\ marked => Reads(m, others, 8, marked)
                 /\ ~marked => Reads(m, others, sz, TRUE)
            \/ \E others \in Seq(FormatChar) :
                 /\ letters = <<"h">> \o others
                 /\ sz \div 2 \in {1, 2} /\ Reads(m, others, sz \div 2, marked)
<1>1. "l" \in FormatChar /\ "h" \in FormatChar
  BY DEF FormatChar
<1>2. ASSUME NEW x \in FormatChar
      PROVE  /\ << >> \in Seq(FormatChar) /\ <<x>> \in Seq(FormatChar)
             /\ <<x>> = <<x>> \o << >> /\ <<x, x>> = <<x>> \o <<x>>
  <2>1. << >> \in Seq(FormatChar) /\ <<x>> \in Seq(FormatChar) /\ <<x, x>> \in Seq(FormatChar)
    OBVIOUS
  <2>2. <<x>> = <<x>> \o << >>
    BY <2>1, ConcatEmptySeq
  <2> PICK t : t = <<x>> \o <<x>>
    OBVIOUS
  <2>3. /\ t \in Seq(FormatChar) /\ Len(t) = 2
        /\ \A k \in 1 .. 2 : t[k] = x
    <3>1. Len(<<x>>) = 1 /\ <<x>>[1] = x
      OBVIOUS
    <3>2. /\ t \in Seq(FormatChar) /\ Len(t) = Len(<<x>>) + Len(<<x>>)
          /\ \A k \in 1 .. Len(<<x>>) + Len(<<x>>) :
               t[k] = IF k <= Len(<<x>>) THEN <<x>>[k] ELSE <<x>>[k - Len(<<x>>)]
      BY <2>1, ConcatProperties
    <3>3. \A k \in 1 .. 2 : k = 1 \/ k = 2
      OBVIOUS
    <3> QED BY <3>1, <3>2, <3>3
  <2>4. Len(<<x, x>>) = 2 /\ \A k \in 1 .. 2 : <<x, x>>[k] = x
    OBVIOUS
  <2>5. t = <<x, x>>
    BY <2>1, <2>3, <2>4, SeqEqual
  <2> QED BY <2>1, <2>2, <2>5
<1>3. marked \in BOOLEAN
  BY DEF Reads
<1>4. CASE letters = << >>
  <2>1. letters # <<"l">> /\ letters # <<"h">> /\ letters # <<"l", "l">> /\ letters # <<"h", "h">>
    BY <1>4
  <2> QED BY <1>3, <1>4, <2>1, BytesIs DEF Reads
<1>5. CASE letters = <<"l">>
  <2>1. m \in {"l", "ll"} /\ sz = 4 /\ (m = "ll" <=> marked)
    BY <1>5 DEF Reads
  <2>2. /\ marked => Reads(m, << >>, 8, marked)
        /\ ~marked => Reads(m, << >>, sz, TRUE)
    BY <1>3, <2>1 DEF Reads
  <2> QED BY <1>1, <1>2, <1>3, <1>5, <2>2
<1>6. CASE letters = <<"l", "l">>
  <2>1. m = "ll" /\ sz = 4 /\ ~marked
    BY <1>6 DEF Reads
  <2>2. Reads(m, <<"l">>, sz, TRUE)
    BY <2>1 DEF Reads
  <2> QED BY <1>1, <1>2, <1>3, <1>6, <2>1, <2>2
<1>7. CASE letters = <<"h">>
  <2>1. marked = FALSE /\ ((m = "h" /\ sz = 4) \/ (m = "hh" /\ sz = 2))
    <3>1. /\ letters # << >> /\ letters # <<"l">>
          /\ letters # <<"l", "l">> /\ letters # <<"h", "h">>
      BY <1>7
    <3> QED BY <3>1 DEF Reads
  <2>2. sz \div 2 \in {1, 2} /\ Reads(m, << >>, sz \div 2, marked)
    BY <2>1 DEF Reads
  <2> QED BY <1>1, <1>2, <1>3, <1>7, <2>2
<1>8. CASE letters = <<"h", "h">>
  <2>1. m = "hh" /\ sz = 4 /\ marked = FALSE
    BY <1>8 DEF Reads
  <2>2. sz \div 2 \in {1, 2} /\ Reads(m, <<"h">>, sz \div 2, marked)
    BY <2>1 DEF Reads
  <2> QED BY <1>1, <1>2, <1>3, <1>8, <2>2
<1> QED BY <1>4, <1>5, <1>6, <1>7, <1>8 DEF Reads

\* Within a directive: a character of its padding, a letter, or its conversion.
LEMMA WithinSees ==
  ASSUME call \in Calls, NEW i, Within(i)
  PROVE  /\ i \in 0 .. Len(call) - 1 /\ format # << >>
         /\ LET m == call[i + 1].modifier
            IN  \/ /\ c \in Padding
                   /\ \E p \in Seq(Padding), l \in Seq(FormatChar) :
                        Reads(m, l, size, lng) /\ Tail(format) = LeftOf(call, i, p, l)
                \/ /\ c = "l"
                   /\ \E l \in Seq(FormatChar) :
                        /\ lng => Reads(m, l, 8, lng)
                        /\ ~lng => Reads(m, l, size, TRUE)
                        /\ Tail(format) = LeftOf(call, i, << >>, l)
                \/ /\ c = "h" /\ size \div 2 \in {1, 2}
                   /\ \E l \in Seq(FormatChar) :
                        Reads(m, l, size \div 2, lng) /\ Tail(format) = LeftOf(call, i, << >>, l)
                \/ /\ c = call[i + 1].conversion /\ Sized = Bytes[m]
                   /\ Tail(format) = CharsLeft(call)[i + 1]
<1> PICK d, s : d = call[i + 1] /\ s = CharsLeft(call)[i + 1]
  OBVIOUS
<1> PICK y : y = d.conversion
  OBVIOUS
<1>1. /\ i \in 0 .. Len(call) - 1 /\ i + 1 \in 0 .. Len(call) /\ d \in Directives
      /\ d.modifier \in {"none", "l", "ll", "h", "hh"}
  BY CallType, DirectiveIs DEF Within
<1>2. PICK p \in Seq(Padding), l \in Seq(FormatChar) :
        Reads(d.modifier, l, size, lng) /\ format = p \o (l \o (<<y>> \o s))
  BY DEF Within, LeftOf
<1>3. s \in Seq(FormatChar) /\ y \in FormatChar /\ Padding \subseteq FormatChar
  BY <1>1, Left, DirectiveIs DEF FormatChar
<1>4. /\ <<y>> \o s \in Seq(FormatChar) /\ <<y>> \o s # << >>
      /\ Head(<<y>> \o s) = y /\ Tail(<<y>> \o s) = s
  BY <1>3, InFront
<1>5. l \o (<<y>> \o s) \in Seq(FormatChar)
  BY <1>2, <1>4, ConcatProperties
<1>6. CASE p # << >>
  <2> PICK x, q : x = Head(p) /\ q = Tail(p)
    OBVIOUS
  <2>1. x \in Padding /\ q \in Seq(Padding)
    BY <1>6, HeadTailProperties
  <2>2. p = <<x>> \o q
    BY <1>6
  <2>3. x \in FormatChar /\ q \in Seq(FormatChar) /\ <<x>> \in Seq(FormatChar)
    BY <1>3, <2>1, SeqMonotonic
  <2> PICK t : t = q \o (l \o (<<y>> \o s))
    OBVIOUS
  <2>4. t \in Seq(FormatChar) /\ format = <<x>> \o t
    <3> PICK r : r = l \o (<<y>> \o s)
      OBVIOUS
    <3>1. r \in Seq(FormatChar) /\ format = (<<x>> \o q) \o r /\ t = q \o r
      BY <1>2, <1>5, <2>2
    <3>2. t \in Seq(FormatChar) /\ (<<x>> \o q) \o r = <<x>> \o (q \o r)
      <4>1. t \in Seq(FormatChar)
        BY <2>3, <3>1, Joining
      <4>2. Groups(<<x>>, q, r)
        BY <2>3, <3>1, Grouping
      <4>3. (<<x>> \o q) \o r = <<x>> \o (q \o r)
        BY <4>2, Zenon DEF Groups
      <4> QED BY <4>1, <4>3
    <3> QED BY <3>1, <3>2
  <2>5. <<x>> \o t # << >> /\ Head(<<x>> \o t) = x /\ Tail(<<x>> \o t) = t
    BY <2>3, <2>4, FirstCharacter, Zenon
  <2>6. format # << >> /\ c = x /\ Tail(format) = t
    BY <2>4, <2>5 DEF c
  <2> QED BY <1>1, <1>2, <2>1, <2>6 DEF LeftOf
<1>7. CASE p = << >>
  <2>1. format = l \o (<<y>> \o s)
    BY <1>2, <1>5, <1>7, ConcatEmptySeq
  <2>2. \A r \in Seq(FormatChar) :
          LeftOf(call, i, << >>, r) = r \o (<<y>> \o s) /\ r \o (<<y>> \o s) \in Seq(FormatChar)
    BY <1>4, ConcatEmptySeq, ConcatProperties DEF LeftOf
  <2>3. ASSUME NEW x \in FormatChar, NEW r \in Seq(FormatChar), l = <<x>> \o r
        PROVE  format # << >> /\ c = x /\ Tail(format) = LeftOf(call, i, << >>, r)
    <3> PICK t : t = r \o (<<y>> \o s)
      OBVIOUS
    <3>1. t \in Seq(FormatChar) /\ LeftOf(call, i, << >>, r) = t
      BY <2>2
    <3> PICK u : u = <<y>> \o s
      OBVIOUS
    <3>2. u \in Seq(FormatChar) /\ <<x>> \in Seq(FormatChar)
      BY <1>4
    <3>3. (<<x>> \o r) \o u = <<x>> \o (r \o u)
      <4>1. Groups(<<x>>, r, u)
        BY <3>2, Grouping
      <4> QED BY <4>1, Zenon DEF Groups
    <3>4. format = <<x>> \o t
      BY <2>1, <2>3, <3>3
    <3>5. <<x>> \o t # << >> /\ Head(<<x>> \o t) = x /\ Tail(<<x>> \o t) = t
      BY <3>1, FirstCharacter, Zenon
    <3> QED BY <3>1, <3>4, <3>5 DEF c
  <2>4. CASE l = << >> /\ Sized = Bytes[d.modifier]
    <3>1. format = <<y>> \o s
      BY <1>4, <2>1, <2>4, ConcatEmptySeq
    <3> QED BY <1>1, <1>4, <2>4, <3>1 DEF c
  <2>5. ASSUME NEW r \in Seq(FormatChar), l = <<"l">> \o r,
               lng => Reads(d.modifier, r, 8, lng), ~lng => Reads(d.modifier, r, size, TRUE)
        PROVE  /\ i \in 0 .. Len(call) - 1 /\ format # << >> /\ c = "l"
               /\ Tail(format) = LeftOf(call, i, << >>, r)
    <3>1. "l" \in FormatChar
      BY DEF FormatChar
    <3> QED BY <1>1, <2>3, <2>5, <3>1
  <2>6. ASSUME NEW r \in Seq(FormatChar), l = <<"h">> \o r
        PROVE  /\ i \in 0 .. Len(call) - 1 /\ format # << >> /\ c = "h"
               /\ Tail(format) = LeftOf(call, i, << >>, r)
    <3>1. "h" \in FormatChar
      BY DEF FormatChar
    <3> QED BY <1>1, <2>3, <2>6, <3>1
  <2>7. \/ l = << >> /\ Sized = Bytes[d.modifier]
        \/ \E r \in Seq(FormatChar) :
             /\ l = <<"l">> \o r
             /\ lng => Reads(d.modifier, r, 8, lng)
             /\ ~lng => Reads(d.modifier, r, size, TRUE)
        \/ \E r \in Seq(FormatChar) :
             /\ l = <<"h">> \o r
             /\ size \div 2 \in {1, 2} /\ Reads(d.modifier, r, size \div 2, lng)
    BY <1>1, <1>2, LettersLeft, Zenon DEF Sized
  <2>8. CASE \E r \in Seq(FormatChar) :
               /\ l = <<"l">> \o r
               /\ lng => Reads(d.modifier, r, 8, lng)
               /\ ~lng => Reads(d.modifier, r, size, TRUE)
    <3>1. PICK r \in Seq(FormatChar) :
               /\ l = <<"l">> \o r
               /\ lng => Reads(d.modifier, r, 8, lng)
               /\ ~lng => Reads(d.modifier, r, size, TRUE)
      BY <2>8
    <3> QED BY <2>5, <3>1, Zenon
  <2>9. CASE \E r \in Seq(FormatChar) :
               /\ l = <<"h">> \o r
               /\ size \div 2 \in {1, 2} /\ Reads(d.modifier, r, size \div 2, lng)
    <3>1. PICK r \in Seq(FormatChar) :
               /\ l = <<"h">> \o r
               /\ size \div 2 \in {1, 2} /\ Reads(d.modifier, r, size \div 2, lng)
      BY <2>9
    <3> QED BY <2>6, <3>1, Zenon
  <2> QED BY <2>4, <2>7, <2>8, <2>9
<1> QED BY <1>6, <1>7

-----------------------------------------------------------------------------
(***************************************************************************)
(* What the steps do to the arguments and to the buffer.                   *)
(***************************************************************************)
LEMMA BufferHolds ==
  ASSUME len \in Nat, NEW s \in Seq(TextChar), NEW t \in Seq(TextChar),
         out = Cut(s, len), BufAdd(t)
  PROVE  out' = Cut(s \o t, len)
<1>1. out \in Seq(TextChar)
  BY CutType
<1>2. Len(out \o t) = Len(out) + Len(t)
  BY <1>1, ConcatProperties
<1>3. out' = Cut(out \o t, len)
  BY <1>2, Zenon DEF BufAdd, Cut
<1>4. Cut(Cut(s, len) \o t, len) = Cut(s \o t, len)
  BY CutAgain
<1> QED BY <1>3, <1>4

\* The words of the next item, in front of all the others.
LEMMA NextWords ==
  ASSUME call \in Calls, NEW i \in 0 .. Len(call) - 1, AfterItems(i)
  PROVE  LET w == Words(call[i + 1])
             others == WordsLeft(call)[i + 1] \o <<0, 1>>
         IN  /\ w \in Seq(Word) /\ others \in Seq(Word) /\ others # << >>
             /\ args = w \o others /\ args \in Seq(Word)
             /\ SubSeq(args, Len(w) + 1, Len(args)) = others
             /\ \A k \in 1 .. Len(w) : args[k] = w[k]
<1> PICK w, l, z : w = Words(call[i + 1]) /\ l = WordsLeft(call)[i + 1] /\ z = <<0, 1>>
  OBVIOUS
<1>1. i + 1 \in 1 .. Len(call) /\ i + 1 \in 0 .. Len(call)
  BY CallType
<1>2. w \in Seq(Word) /\ l \in Seq(Word) /\ z \in Seq(Word) /\ z # << >>
  BY <1>1, CallType, WordsType, Left, TailWords
<1>3. args = (w \o l) \o z
  BY <1>1, Left DEF AfterItems
<1>4. Groups(w, l, z)
  BY <1>2, Grouping
<1> PICK others : others = l \o z
  OBVIOUS
<1>5. others \in Seq(Word) /\ others # << >>
  BY <1>2, ConcatProperties, EmptySeq
<1>6. args = w \o others
  BY <1>3, <1>4 DEF Groups
<1>7. args \in Seq(Word)
  BY <1>2, <1>5, <1>6, ConcatProperties
<1>8. /\ SubSeq(args, Len(w) + 1, Len(args)) = others
      /\ \A k \in 1 .. Len(w) : args[k] = w[k]
  <2>1. Follows(w, others)
    BY <1>2, <1>5, AfterWords
  <2> QED BY <1>6, <2>1 DEF Follows
<1> QED BY <1>2, <1>5, <1>6, <1>7, <1>8

\* An item whose text is added and whose words are taken has been read.
LEMMA Completes ==
  ASSUME call \in Calls, len \in Nat, NEW i \in 0 .. Len(call) - 1, AfterItems(i),
         ~Unsupported(call[i + 1]), BufAdd(Text(call[i + 1])),
         args' = SubSeq(args, Len(Words(call[i + 1])) + 1, Len(args)),
         format' = CharsLeft(call)[i + 1], interp' = FALSE, lng' = FALSE,
         len' = len, call' = call
  PROVE  Between(i + 1)'
<1>1. i + 1 \in 1 .. Len(call) /\ i + 1 \in 0 .. Len(call) /\ i \in 0 .. Len(call)
  BY CallType
<1>2. args' = WordsLeft(call)[i + 1] \o <<0, 1>>
  BY NextWords
<1>3. out' = Cut(TextRead(call)[i + 1], len)
  <2> PICK s, t : s = TextRead(call)[i] /\ t = Text(call[i + 1])
    OBVIOUS
  <2>1. s \in Seq(TextChar) /\ t \in Seq(TextChar) /\ TextRead(call)[i + 1] = s \o t
    BY <1>1, Left, CallType, TextType
  <2>2. out = Cut(s, len) /\ BufAdd(t)
    BY DEF AfterItems
  <2>3. out' = Cut(s \o t, len)
    BY <2>1, <2>2, BufferHolds
  <2> QED BY <2>1, <2>3
<1>4. \A j \in 1 .. i + 1 : ~Unsupported(call[j])
  <2> TAKE j \in 1 .. i + 1
  <2>1. j \in 1 .. i \/ j = i + 1
    OBVIOUS
  <2> QED BY <2>1 DEF AfterItems
<1> QED BY <1>1, <1>2, <1>3, <1>4 DEF Between, AfterItems

\* At the conversion of a directive, the arguments are those of its type.
LEMMA AtConversion ==
  ASSUME call \in Calls, NEW i, Within(i), c \notin Padding \cup {"l", "h"},
         NEW d, d = call[i + 1]
  PROVE  /\ i \in 0 .. Len(call) - 1 /\ AfterItems(i)
         /\ d \in Directives /\ Printable(d)
         /\ c = d.conversion /\ Sized = Bytes[d.modifier]
         /\ Tail(format) = CharsLeft(call)[i + 1]
         /\ ArgBytes(d) \in {1, 2, 4} =>
              /\ Len(Words(d)) = 1 /\ Arg32 = Unsigned(d.arg, 4)
              /\ Unsigned(Arg32, ArgBytes(d)) = Unsigned(d.arg, ArgBytes(d))
              /\ Signed(Arg32, ArgBytes(d)) = Signed(d.arg, ArgBytes(d))
         /\ ArgBytes(d) = 8 =>
              /\ Len(Words(d)) = 2
              /\ Arg64 = Unsigned(d.arg, 8) /\ Signed(Arg64, 8) = Signed(d.arg, 8)
         /\ ArgBytes(d) = 0 => Len(Words(d)) = 0
<1>1. /\ i \in 0 .. Len(call) - 1
      /\ c = d.conversion /\ Sized = Bytes[d.modifier] /\ Tail(format) = CharsLeft(call)[i + 1]
  BY WithinSees
<1>2. AfterItems(i) /\ d \in Directives /\ Printable(d)
  <2>1. i + 1 \in 1 .. Len(call)
    BY <1>1, CallType
  <2> QED BY <2>1, CallType DEF Within
<1>3. /\ ArgBytes(d) \in {1, 2, 4} => Len(Words(d)) = 1
      /\ ArgBytes(d) = 8 => Len(Words(d)) = 2
      /\ ArgBytes(d) = 0 => Len(Words(d)) = 0
  BY <1>2, WordsAre
<1>4. \A k \in 1 .. Len(Words(d)) : args[k] = Words(d)[k]
  BY <1>1, <1>2, NextWords
<1>5. /\ ArgBytes(d) # 0 => args[1] = Words(d)[1]
      /\ ArgBytes(d) = 8 => args[2] = Words(d)[2]
  <2>1. ArgBytes(d) \in {0, 1, 2, 4, 8}
    BY <1>2, ArgBytesIs
  <2> QED BY <1>3, <1>4, <2>1
<1>6. /\ ArgBytes(d) \in {1, 2, 4} =>
           /\ Arg32 = Unsigned(d.arg, 4)
           /\ Unsigned(Arg32, ArgBytes(d)) = Unsigned(d.arg, ArgBytes(d))
           /\ Signed(Arg32, ArgBytes(d)) = Signed(d.arg, ArgBytes(d))
      /\ ArgBytes(d) = 8 =>
           /\ Arg64 = Unsigned(d.arg, 8)
           /\ Signed(Arg64, 8) = Signed(d.arg, 8)
  BY <1>2, <1>5, ArgumentIs
<1> QED BY <1>1, <1>2, <1>3, <1>6

-----------------------------------------------------------------------------
(***************************************************************************)
(* Each step keeps the invariant.                                          *)
(***************************************************************************)
LEMMA Keeps ==
  ASSUME Typed, status' = "running", Running', len' = len, call' = call,
         interp' \in BOOLEAN, lng' \in BOOLEAN, size' \in {1, 2, 4, 8}
  PROVE  Inv'
<1>1. Typed'
  BY DEF Typed
<1>2. status' # "done" /\ status' # "panic"
  OBVIOUS
<1> QED BY <1>1, <1>2 DEF Inv

\* A conversion that finds its arguments and makes the text of its directive.
LEMMA ConversionStep ==
  ASSUME Typed, NEW i, Within(i), c \in Known \ (Padding \cup {"l", "h"}), Read(TRUE),
         Converted(Text(call[i + 1]), Len(Words(call[i + 1])))
  PROVE  Inv'
<1> PICK d : d = call[i + 1]
  OBVIOUS
<1>1. /\ i \in 0 .. Len(call) - 1 /\ AfterItems(i) /\ d \in Directives
      /\ c = d.conversion /\ Tail(format) = CharsLeft(call)[i + 1]
  BY AtConversion DEF Typed
<1>2. ~Unsupported(d)
  BY <1>1 DEF Unsupported
<1>3. Between(i + 1)'
  BY <1>1, <1>2, Completes DEF Typed, Read, Converted
<1>4. Running'
  <2>1. i + 1 \in Nat
    BY <1>1
  <2> QED BY <1>3, <2>1 DEF Running
<1> QED BY <1>4, Keeps DEF Typed, Read, Converted

LEMMA NotBetween ==
  ASSUME Inv, status = "running", interp
  PROVE  Typed /\ \E i \in Nat : Within(i)
BY DEF Inv, Running, Between

LEMMA NotWithin ==
  ASSUME Inv, status = "running", ~interp
  PROVE  Typed /\ \E i \in Nat : Between(i)
BY DEF Inv, Running, Within

LEMMA LiteralStep == ASSUME Inv, Literal PROVE Inv'
<1>1. PICK i \in Nat : Typed /\ Between(i)
  BY NotWithin DEF Literal, Read
<1> PICK d : d = call[i + 1]
  OBVIOUS
<1>2. /\ i \in 0 .. Len(call) - 1 /\ d \in Literals /\ <<c>> = Text(d)
      /\ Tail(format) = CharsLeft(call)[i + 1]
  BY <1>1, BetweenSees DEF Literal, Read, Typed
<1>3. ~Unsupported(d) /\ Words(d) = << >>
  BY <1>2 DEF Unsupported, Words
<1>4. args' = SubSeq(args, Len(Words(d)) + 1, Len(args))
  <2>1. Len(Words(d)) + 1 = 1
    BY <1>3
  <2>2. args \in Seq(Word)
    BY <1>1, <1>2, NextWords DEF Between, Typed
  <2>3. SubSeq(args, 1, Len(args)) = args
    BY <2>2, SubSeqFull
  <2> QED BY <2>1, <2>3 DEF Literal
<1>5. AfterItems(i) /\ interp' = FALSE /\ lng' = FALSE
  BY <1>1 DEF Between, Literal
<1>6. BufAdd(Text(d)) /\ format' = CharsLeft(call)[i + 1] /\ len' = len /\ call' = call
  BY <1>2 DEF Literal, Read
<1>7. Between(i + 1)'
  BY <1>1, <1>2, <1>3, <1>4, <1>5, <1>6, Completes DEF Typed
<1>8. Running'
  BY <1>7 DEF Running
<1> QED BY <1>1, <1>5, <1>8, Keeps DEF Typed, Literal, Read

LEMMA PercentStep == ASSUME Inv, Percent PROVE Inv'
<1>1. PICK i \in Nat : Typed /\ Between(i)
  BY NotWithin DEF Percent, Read
<1> PICK d : d = call[i + 1]
  OBVIOUS
<1>2. /\ i \in 0 .. Len(call) - 1 /\ d \in Directives
      /\ Tail(format) = LeftOf(call, i, d.padding, Letters[d.modifier])
  BY <1>1, BetweenSees DEF Percent, Read, Typed
<1>3. /\ d.padding \in Seq(Padding) /\ Letters[d.modifier] \in Seq(FormatChar)
      /\ Reads(d.modifier, Letters[d.modifier], 4, FALSE)
  <2>1. d.modifier \in {"none", "l", "ll", "h", "hh"}
    BY <1>2, DirectiveIs
  <2>2. Reads(d.modifier, Letters[d.modifier], 4, FALSE)
    BY <2>1, BytesIs DEF Reads
  <2> QED BY <1>2, <2>1, <2>2, DirectiveIs, LettersType
<1>4. /\ AfterItems(i) /\ interp' = TRUE /\ lng' = FALSE /\ size' = 4 /\ args' = args /\ out' = out
      /\ len' = len /\ call' = call /\ status' = "running" /\ format' = Tail(format)
  BY <1>1 DEF Between, Percent, Read
<1>5. Within(i)'
  BY <1>2, <1>3, <1>4 DEF Within, AfterItems
<1>6. Running'
  BY <1>5 DEF Running
<1> QED BY <1>1, <1>4, <1>6, Keeps

\* Within a directive, a character that is not its conversion.
LEMMA StaysWithin ==
  ASSUME Typed, NEW i \in Nat, Within(i), Read(TRUE),
         NEW p \in Seq(Padding), NEW l \in Seq(FormatChar),
         Reads(call[i + 1].modifier, l, size', lng'), Tail(format) = LeftOf(call, i, p, l),
         interp' = interp, args' = args, out' = out, status' = status
  PROVE  Inv'
<1>1. /\ i \in 0 .. Len(call) - 1 /\ AfterItems(i) /\ call[i + 1] \in Directives /\ interp' = TRUE
      /\ len' = len /\ call' = call /\ status' = "running" /\ format' = LeftOf(call, i, p, l)
  BY DEF Within, Read
<1>2. Within(i)'
  BY <1>1 DEF Within, AfterItems
<1>3. Running'
  BY <1>2 DEF Running
<1>4. size' \in {1, 2, 4, 8} /\ lng' \in BOOLEAN
  BY DEF Reads
<1> QED BY <1>1, <1>3, <1>4, Keeps

LEMMA LongStep == ASSUME Inv, Long PROVE Inv'
<1>1. PICK i \in Nat : Typed /\ Within(i)
  BY NotBetween DEF Long, Read
<1> PICK d : d = call[i + 1]
  OBVIOUS
<1>2. d.conversion # "l"
  BY <1>1, DirectiveIs DEF Within
<1>3. c = "l" /\ c \notin Padding /\ c # "h"
  BY DEF Long, Read, Padding
<1>4. PICK l \in Seq(FormatChar) :
        /\ lng => Reads(d.modifier, l, 8, lng)
        /\ ~lng => Reads(d.modifier, l, size, TRUE)
        /\ Tail(format) = LeftOf(call, i, << >>, l)
  BY <1>1, <1>2, <1>3, WithinSees DEF Typed
<1>5. Reads(d.modifier, l, size', lng')
  <2>1. CASE lng
    BY <1>4, <2>1 DEF Long
  <2>2. CASE ~lng
    BY <1>4, <2>2 DEF Long
  <2> QED BY <2>1, <2>2
<1>6. << >> \in Seq(Padding)
  OBVIOUS
<1> QED BY <1>1, <1>4, <1>5, <1>6, StaysWithin DEF Long, Read

LEMMA HalfStep == ASSUME Inv, Half PROVE Inv'
<1>1. PICK i \in Nat : Typed /\ Within(i)
  BY NotBetween DEF Half, Read
<1> PICK d : d = call[i + 1]
  OBVIOUS
<1>2. d.conversion # "h"
  BY <1>1, DirectiveIs DEF Within
<1>3. c = "h" /\ c \notin Padding /\ c # "l"
  BY DEF Half, Read, Padding
<1>4. PICK l \in Seq(FormatChar) :
        Reads(d.modifier, l, size \div 2, lng) /\ Tail(format) = LeftOf(call, i, << >>, l)
  BY <1>1, <1>2, <1>3, WithinSees DEF Typed
<1>5. Reads(d.modifier, l, size', lng')
  BY <1>4 DEF Half
<1>6. << >> \in Seq(Padding)
  OBVIOUS
<1> QED BY <1>1, <1>4, <1>5, <1>6, StaysWithin DEF Half, Read

LEMMA PadStep == ASSUME Inv, Pad PROVE Inv'
<1>1. PICK i \in Nat : Typed /\ Within(i)
  BY NotBetween DEF Pad, Read
<1> PICK d : d = call[i + 1]
  OBVIOUS
<1>2. d.conversion \notin Padding
  BY <1>1, DirectiveIs DEF Within
<1>3. c \in Padding /\ c # "l" /\ c # "h"
  BY DEF Pad, Read, Padding
<1>4. PICK p \in Seq(Padding), l \in Seq(FormatChar) :
        Reads(d.modifier, l, size, lng) /\ Tail(format) = LeftOf(call, i, p, l)
  BY <1>1, <1>2, <1>3, WithinSees DEF Typed
<1>5. Reads(d.modifier, l, size', lng')
  BY <1>4 DEF Pad
<1> QED BY <1>1, <1>4, <1>5, StaysWithin DEF Pad, Read

LEMMA StringStep == ASSUME Inv, ConvertString PROVE Inv'
<1>1. PICK i \in Nat : Typed /\ Within(i)
  BY NotBetween DEF ConvertString, Read
<1> PICK d : d = call[i + 1]
  OBVIOUS
<1>2. c = "s" /\ c \notin Padding \cup {"l", "h"} /\ c \in Known
  BY DEF ConvertString, Read, Padding, Known
<1>3. d \in Directives /\ c = d.conversion
  BY <1>1, <1>2, AtConversion DEF Typed
<1>4. ArgBytes(d) = 4
  BY <1>2, <1>3, ArgBytesIs
<1>5. Len(Words(d)) = 1 /\ Arg32 = Unsigned(d.arg, 4)
  BY <1>1, <1>2, <1>4, AtConversion DEF Typed
<1>6. Text(d) = StringAt(Arg32)
  BY <1>2, <1>3, <1>4, <1>5, TextIs
<1>7. Read(TRUE) /\ Converted(Text(d), Len(Words(d)))
  BY <1>5, <1>6 DEF ConvertString, Read
<1> QED BY <1>1, <1>2, <1>7, ConversionStep

LEMMA CharStep == ASSUME Inv, ConvertChar PROVE Inv'
<1>1. PICK i \in Nat : Typed /\ Within(i)
  BY NotBetween DEF ConvertChar, Read
<1> PICK d : d = call[i + 1]
  OBVIOUS
<1>2. c = "c" /\ c \notin Padding \cup {"l", "h"} /\ c \in Known
  BY DEF ConvertChar, Read, Padding, Known
<1>3. d \in Directives /\ c = d.conversion
  BY <1>1, <1>2, AtConversion DEF Typed
<1>4. ArgBytes(d) = 1
  BY <1>2, <1>3, ArgBytesIs
<1>5. Len(Words(d)) = 1 /\ Unsigned(Arg32, 1) = Unsigned(d.arg, 1)
  BY <1>1, <1>2, <1>4, AtConversion DEF Typed
<1>6. Text(d) = <<CharOf(Unsigned(Arg32, 1))>>
  BY <1>2, <1>3, <1>4, <1>5, TextIs
<1>7. Read(TRUE) /\ Converted(Text(d), Len(Words(d)))
  BY <1>5, <1>6 DEF ConvertChar, Read
<1> QED BY <1>1, <1>2, <1>7, ConversionStep

LEMMA BinStep == ASSUME Inv, ConvertBin PROVE Inv'
<1>1. PICK i \in Nat : Typed /\ Within(i)
  BY NotBetween DEF ConvertBin, Read
<1> PICK d : d = call[i + 1]
  OBVIOUS
<1>2. /\ c \in {"b", "B"} /\ c \notin Padding \cup {"l", "h"} /\ c \in Known
      /\ Read(TRUE)
  BY DEF ConvertBin, Read, Padding, Known
<1>3. d \in Directives /\ c = d.conversion
  BY <1>1, <1>2, AtConversion DEF Typed
<1> PICK k, n : k = ArgBytes(d) /\ n = Unsigned(d.arg, ArgBytes(d))
  OBVIOUS
<1>4. k = (IF c = "b" THEN 4 ELSE 8)
  BY <1>2, <1>3, ArgBytesIs
<1>5. /\ c = "b" => Len(Words(d)) = 1 /\ Arg32 = n
      /\ c = "B" => Len(Words(d)) = 2 /\ Arg64 = n
  BY <1>1, <1>2, <1>4, AtConversion DEF Typed
<1>6. Text(d) = Bin(n, k * ByteBits)
  <2>1. n \in Nat /\ n < Range2(k)
    <3>1. ArgBytes(d) # 0
      BY <1>4
    <3>2. /\ Unsigned(d.arg, ArgBytes(d)) \in Nat
          /\ Unsigned(d.arg, ArgBytes(d)) < Range2(ArgBytes(d))
      BY <1>3, <3>1, Value, Zenon
    <3> QED BY <3>2
  <2>2. Text(d) = ZeroFilled(Numeral(n, 2), k * ByteBits)
    BY <1>2, <1>3, TextIs
  <2> QED BY <1>4, <2>1, <2>2, BinFits
<1>7. Converted(Text(d), Len(Words(d)))
  <2>1. CASE c = "b"
    <3>1. Converted(Bin(Arg32, 4 * ByteBits), 1)
      BY <2>1 DEF ConvertBin, Read
    <3> QED BY <1>4, <1>5, <1>6, <2>1, <3>1
  <2>2. CASE c = "B"
    <3>1. Converted(Bin(Arg64, 8 * ByteBits), 2)
      BY <2>2 DEF ConvertBin, Read
    <3> QED BY <1>4, <1>5, <1>6, <2>2, <3>1
  <2> QED BY <1>2, <2>1, <2>2
<1> QED BY <1>1, <1>2, <1>7, ConversionStep

LEMMA SignedStep == ASSUME Inv, ConvertSigned PROVE Inv'
<1>1. PICK i \in Nat : Typed /\ Within(i)
  BY NotBetween DEF ConvertSigned, Read
<1> PICK d : d = call[i + 1]
  OBVIOUS
<1>2. c \in {"d", "i"} /\ c \notin Padding \cup {"l", "h"} /\ c \in Known /\ Read(TRUE)
  BY DEF ConvertSigned, Read, Padding, Known, Integral
<1>3. d \in Directives /\ c = d.conversion /\ Sized = Bytes[d.modifier] /\ Printable(d)
  BY <1>1, <1>2, AtConversion DEF Typed
<1>4. ArgBytes(d) = Sized /\ Sized \in {1, 2, 4, 8}
  BY <1>2, <1>3, ArgBytesIs DEF Integral
<1>5. /\ Sized = 8 => Len(Words(d)) = 2 /\ Signed(Arg64, 8) = Signed(d.arg, 8)
      /\ Sized # 8 => Len(Words(d)) = 1 /\ Signed(Arg32, Sized) = Signed(d.arg, Sized)
  BY <1>1, <1>2, <1>4, AtConversion DEF Typed
<1>6. Text(d) = Idec(Signed(d.arg, Sized))
  BY <1>2, <1>3, <1>4, SignedText
<1>7. Converted(Text(d), Len(Words(d)))
  <2>1. CASE Sized = 8
    <3>1. Converted(Idec(Signed(Arg64, 8)), 2)
      BY <2>1 DEF ConvertSigned
    <3> QED BY <1>5, <1>6, <2>1, <3>1
  <2>2. CASE Sized # 8
    <3>1. Converted(Idec(Signed(Arg32, Sized)), 1)
      BY <2>2 DEF ConvertSigned
    <3> QED BY <1>5, <1>6, <2>2, <3>1
  <2> QED BY <2>1, <2>2
<1> QED BY <1>1, <1>2, <1>7, ConversionStep

LEMMA UnsignedStep == ASSUME Inv, ConvertUnsigned PROVE Inv'
<1>1. PICK i \in Nat : Typed /\ Within(i)
  BY NotBetween DEF ConvertUnsigned, Read
<1> PICK d : d = call[i + 1]
  OBVIOUS
<1>2. c \in {"u", "x"} /\ c \notin Padding \cup {"l", "h"} /\ c \in Known /\ Read(TRUE)
  BY DEF ConvertUnsigned, Read, Padding, Known, Integral
<1>3. d \in Directives /\ c = d.conversion /\ Sized = Bytes[d.modifier]
  BY <1>1, <1>2, AtConversion DEF Typed
<1>4. ArgBytes(d) = Sized /\ Sized \in {1, 2, 4, 8}
  BY <1>2, <1>3, ArgBytesIs DEF Integral
<1> PICK n : n = Unsigned(d.arg, Sized)
  OBVIOUS
<1>5. /\ Sized = 8 => Len(Words(d)) = 2 /\ Arg64 = n
      /\ Sized # 8 => Len(Words(d)) = 1 /\ Unsigned(Arg32, Sized) = n
  BY <1>1, <1>2, <1>4, AtConversion DEF Typed
<1>6. Text(d) = IF c = "u" THEN Udec(n) ELSE Hex(n)
  <2>1. n \in Nat
    BY <1>3, <1>4, Value
  <2>2. Udec(n) = Numeral(n, 10) /\ Hex(n) = Numeral(n, 16)
    BY <2>1, UdecIs, HexIs
  <2> QED BY <1>2, <1>3, <1>4, <2>2, TextIs
<1>7. Converted(Text(d), Len(Words(d)))
  <2>1. CASE Sized = 8
    <3>1. Converted(IF c = "u" THEN Udec(Arg64) ELSE Hex(Arg64), 2)
      BY <2>1 DEF ConvertUnsigned
    <3> QED BY <1>5, <1>6, <2>1, <3>1
  <2>2. CASE Sized # 8
    <3>1. Converted(IF c = "u" THEN Udec(Unsigned(Arg32, Sized))
                               ELSE Hex(Unsigned(Arg32, Sized)), 1)
      BY <2>2 DEF ConvertUnsigned
    <3> QED BY <1>5, <1>6, <2>2, <3>1
  <2> QED BY <2>1, <2>2
<1> QED BY <1>1, <1>2, <1>7, ConversionStep

LEMMA LongConversionStep == ASSUME Inv, ConvertLong PROVE Inv'
<1>1. PICK i \in Nat : Typed /\ Within(i)
  BY NotBetween DEF ConvertLong, Read
<1> PICK d : d = call[i + 1]
  OBVIOUS
<1>2. c \in {"D", "X"} /\ c \notin Padding \cup {"l", "h"} /\ c \in Known /\ Read(TRUE)
  BY DEF ConvertLong, Read, Padding, Known
<1>3. d \in Directives /\ c = d.conversion /\ Printable(d)
  BY <1>1, <1>2, AtConversion DEF Typed
<1>4. ArgBytes(d) = 8
  BY <1>2, <1>3, ArgBytesIs
<1> PICK n : n = Unsigned(d.arg, 8)
  OBVIOUS
<1>5. Len(Words(d)) = 2 /\ Arg64 = n /\ Signed(Arg64, 8) = Signed(d.arg, 8)
  BY <1>1, <1>2, <1>4, AtConversion DEF Typed
<1>6. /\ c = "D" => Text(d) = Idec(Signed(d.arg, 8))
      /\ c = "X" => Text(d) = Hex(n)
  <2>1. n \in Nat
    BY <1>3, <1>4, Value
  <2>2. c = "X" => Text(d) = Hex(n)
    BY <1>3, <1>4, <2>1, HexIs, TextIs
  <2> QED BY <1>3, <1>4, <2>2, SignedText
<1>7. Converted(Text(d), Len(Words(d)))
  <2>1. CASE c = "D"
    <3>1. Converted(Idec(Signed(Arg64, 8)), 2)
      BY <2>1 DEF ConvertLong, Read
    <3> QED BY <1>5, <1>6, <2>1, <3>1
  <2>2. CASE c = "X"
    <3>1. Converted(Hex(Arg64), 2)
      BY <2>2 DEF ConvertLong, Read
    <3> QED BY <1>5, <1>6, <2>2, <3>1
  <2> QED BY <1>2, <2>1, <2>2
<1> QED BY <1>1, <1>2, <1>7, ConversionStep

LEMMA PointerStep == ASSUME Inv, ConvertPointer PROVE Inv'
<1>1. PICK i \in Nat : Typed /\ Within(i)
  BY NotBetween DEF ConvertPointer, Read
<1> PICK d : d = call[i + 1]
  OBVIOUS
<1>2. c = "p" /\ c \notin Padding \cup {"l", "h"} /\ c \in Known
  BY DEF ConvertPointer, Read, Padding, Known
<1>3. d \in Directives /\ c = d.conversion
  BY <1>1, <1>2, AtConversion DEF Typed
<1>4. ArgBytes(d) = 4
  BY <1>2, <1>3, ArgBytesIs
<1>5. Len(Words(d)) = 1 /\ Arg32 = Unsigned(d.arg, 4)
  BY <1>1, <1>2, <1>4, AtConversion DEF Typed
<1>6. Text(d) = <<"0", "x">> \o Hex(Arg32)
  <2>1. Arg32 \in Nat
    BY <1>3, <1>4, <1>5, Value
  <2>2. Hex(Arg32) = Numeral(Arg32, 16)
    BY <2>1, HexIs
  <2> QED BY <1>2, <1>3, <1>4, <1>5, <2>2, TextIs
<1>7. Read(TRUE) /\ Converted(Text(d), Len(Words(d)))
  BY <1>5, <1>6 DEF ConvertPointer, Read
<1> QED BY <1>1, <1>2, <1>7, ConversionStep

LEMMA PercentConversionStep == ASSUME Inv, ConvertPercent PROVE Inv'
<1>1. PICK i \in Nat : Typed /\ Within(i)
  BY NotBetween DEF ConvertPercent, Read
<1> PICK d : d = call[i + 1]
  OBVIOUS
<1>2. c = "%" /\ c \notin Padding \cup {"l", "h"} /\ c \in Known
  BY DEF ConvertPercent, Read, Padding, Known
<1>3. d \in Directives /\ c = d.conversion
  BY <1>1, <1>2, AtConversion DEF Typed
<1>4. ArgBytes(d) = 0
  BY <1>2, <1>3, ArgBytesIs
<1>5. Len(Words(d)) = 0
  BY <1>1, <1>2, <1>4, AtConversion DEF Typed
<1>6. Text(d) = <<"%">>
  BY <1>2, <1>3, TextIs
<1>7. Read(TRUE) /\ Converted(Text(d), Len(Words(d)))
  BY <1>5, <1>6 DEF ConvertPercent, Read
<1> QED BY <1>1, <1>2, <1>7, ConversionStep

LEMMA UnsupportedStep == ASSUME Inv, UnsupportedChar PROVE Inv'
<1>1. PICK i \in Nat : Typed /\ Within(i)
  BY NotBetween DEF UnsupportedChar, Read
<1> PICK d : d = call[i + 1]
  OBVIOUS
<1>2. c \notin Padding \cup {"l", "h"} /\ c \notin Known
  BY DEF UnsupportedChar, Read, Padding, Known
<1>3. d \in Directives /\ c = d.conversion /\ i \in 0 .. Len(call) - 1 /\ AfterItems(i)
  BY <1>1, <1>2, AtConversion DEF Typed
<1>4. Unsupported(d) /\ i + 1 \in DOMAIN call
  BY <1>1, <1>2, <1>3, CallType, DirectiveIs DEF Unsupported, Typed
<1>5. args \in Seq(Word)
  BY <1>1, <1>3, NextWords DEF Typed
<1>6. Len(out) <= len
  <2>1. i \in 0 .. Len(call) /\ len \in Nat
    BY <1>1, <1>3, CallType DEF Typed
  <2>2. TextRead(call)[i] \in Seq(TextChar)
    BY <1>1, <2>1, Left DEF Typed
  <2> QED BY <1>3, <2>1, <2>2, CutType DEF AfterItems
<1>7. /\ args' = args /\ out' = out /\ call' = call /\ len' = len /\ status' = "panic"
      /\ interp' = interp /\ lng' = lng /\ size' = size
  BY DEF UnsupportedChar, Read
<1>8. Panicked'
  BY <1>4, <1>5, <1>6, <1>7 DEF Panicked
<1>9. Typed'
  BY <1>1, <1>7 DEF Typed
<1> QED BY <1>7, <1>8, <1>9 DEF Inv

LEMMA EndStep == ASSUME Inv, End PROVE Inv'
<1>1. PICK i \in Nat : Typed /\ Between(i)
  <2>1. Typed /\ \E i \in Nat : Between(i) \/ Within(i)
    BY DEF Inv, Running, End
  <2>2. \A i \in Nat : ~Within(i)
    BY <2>1, WithinSees DEF End, Typed
  <2> QED BY <2>1, <2>2
<1> PICK n : n = Len(call)
  OBVIOUS
<1>2. i = n
  BY <1>1, BetweenSees DEF End, Typed
<1>3. n \in Nat /\ DOMAIN call = 1 .. n
  BY <1>1, CallType DEF Typed
<1>4. /\ WordsLeft(call)[n] = << >> /\ FlattenSeq(TextOf(call)) = TextRead(call)[n]
  BY <1>1, Left DEF Typed
<1>5. args = <<0, 1>>
  BY <1>1, <1>2, <1>4, TailWords, ConcatEmptySeq DEF Between, AfterItems
<1>6. /\ \A j \in DOMAIN call : ~Unsupported(call[j])
      /\ out = Cut(FlattenSeq(TextOf(call)), len)
  BY <1>1, <1>2, <1>3, <1>4 DEF Between, AfterItems
<1>7. /\ args' = args /\ out' = Append(out, "NUL") /\ call' = call /\ len' = len
      /\ status' = "done" /\ interp' = interp /\ lng' = lng /\ size' = size
  BY DEF End
<1>8. Done'
  BY <1>5, <1>6, <1>7 DEF Done
<1>9. Typed'
  BY <1>1, <1>7 DEF Typed
<1> QED BY <1>7, <1>8, <1>9 DEF Inv

LEMMA NextInv == ASSUME Inv, [Next]_vars PROVE Inv'
<1>1. CASE Literal
  BY <1>1, LiteralStep
<1>2. CASE Percent
  BY <1>2, PercentStep
<1>3. CASE Long
  BY <1>3, LongStep
<1>4. CASE Half
  BY <1>4, HalfStep
<1>5. CASE Pad
  BY <1>5, PadStep
<1>6. CASE ConvertString
  BY <1>6, StringStep
<1>7. CASE ConvertChar
  BY <1>7, CharStep
<1>8. CASE ConvertBin
  BY <1>8, BinStep
<1>9. CASE ConvertSigned
  BY <1>9, SignedStep
<1>10. CASE ConvertUnsigned
  BY <1>10, UnsignedStep
<1>11. CASE ConvertLong
  BY <1>11, LongConversionStep
<1>12. CASE ConvertPointer
  BY <1>12, PointerStep
<1>13. CASE ConvertPercent
  BY <1>13, PercentConversionStep
<1>14. CASE UnsupportedChar
  BY <1>14, UnsupportedStep
<1>15. CASE End
  BY <1>15, EndStep
<1>16. CASE UNCHANGED vars
  BY <1>16 DEF Inv, Typed, Running, Between, Within, AfterItems, Done, Panicked, vars
<1> QED BY <1>1, <1>2, <1>3, <1>4, <1>5, <1>6, <1>7, <1>8, <1>9, <1>10, <1>11, <1>12, <1>13,
           <1>14, <1>15, <1>16, Zenon DEF Next

-----------------------------------------------------------------------------
(***************************************************************************)
(* The theorems.                                                           *)
(***************************************************************************)

\* The words and the buffer, whatever the call.
LEMMA Stored == ASSUME Inv PROVE args \in Seq(Word) /\ Len(out) <= len + 1
<1>1. Typed /\ len \in Nat
  BY DEF Inv, Typed
<1>2. CASE status = "running"
  <2>1. PICK i \in 0 .. Len(call) : AfterItems(i)
    <3>1. PICK i : Between(i) \/ Within(i)
      BY <1>2 DEF Inv, Running
    <3>2. i \in 0 .. Len(call) /\ AfterItems(i)
      BY <1>1, <3>1, CallType DEF Between, Within, Typed
    <3> QED BY <3>2
  <2> PICK s, t : s = TextRead(call)[i] /\ t = WordsLeft(call)[i]
    OBVIOUS
  <2>2. s \in Seq(TextChar) /\ t \in Seq(Word)
    BY <1>1, Left DEF Typed
  <2>3. Len(Cut(s, len)) <= len /\ Len(Cut(s, len)) \in Nat
    BY <1>1, <2>2, CutType, LenProperties
  <2>4. t \o <<0, 1>> \in Seq(Word)
    BY <2>2, TailWords, ConcatProperties
  <2> QED BY <1>1, <2>1, <2>3, <2>4 DEF AfterItems
<1>3. CASE status = "done"
  <2> PICK s : s = FlattenSeq(TextOf(call))
    OBVIOUS
  <2>1. s \in Seq(TextChar)
    <3> PICK n : n = Len(call)
      OBVIOUS
    <3>1. n \in Nat /\ n \in 0 .. n
      BY <1>1, CallType DEF Typed
    <3>2. s = TextRead(call)[n] /\ TextRead(call)[n] \in Seq(TextChar)
      BY <1>1, <3>1, Left DEF Typed
    <3> QED BY <3>2
  <2>2. Len(Cut(s, len)) <= len /\ Cut(s, len) \in Seq(TextChar)
    BY <1>1, <2>1, CutType
  <2>3. out = Append(Cut(s, len), "NUL") /\ args = <<0, 1>>
    BY <1>3 DEF Inv, Done
  <2>4. Len(out) = Len(Cut(s, len)) + 1
    BY <2>2, <2>3, AppendProperties DEF TextChar
  <2> QED BY <1>1, <2>2, <2>3, <2>4, TailWords, LenProperties
<1>4. CASE status = "panic"
  <2>1. args \in Seq(Word) /\ Len(out) <= len
    BY <1>4 DEF Inv, Panicked
  <2> QED BY <1>1, <2>1
<1> QED BY <1>1, <1>2, <1>3, <1>4 DEF Typed

LEMMA SpecInv == Spec => []Inv
<1>1. Init => Inv
  BY InitInv
<1>2. Inv /\ [Next]_vars => Inv'
  BY NextInv
<1> QED BY <1>1, <1>2, PTL DEF Spec

\* Every variable keeps its type, whatever is printed: the size of an integer
\* that the modifiers of __vsnprintf ask for, the words of its arguments, and the
\* buffer, which __buf_add never fills beyond the place of the final 0.
THEOREM Types == Spec => []TypeOK
<1>1. Inv => TypeOK
  <2> SUFFICES ASSUME Inv PROVE TypeOK
    OBVIOUS
  <2>1. args \in Seq(Word) /\ Len(out) <= len + 1
    BY Stored
  <2>2. \A i \in DOMAIN args : args[i] \in 0 .. Range2(4) - 1
    BY <2>1, ElementOfSeq, LenProperties DEF Word
  <2> QED BY <2>1, <2>2 DEF TypeOK, Inv, Typed
<1> QED BY <1>1, SpecInv, PTL

\* For every call, whatever the size of its integers, the length of its format,
\* the padding and the modifiers of its directives and the size of the buffer,
\* __vsnprintf writes the text of the call, of which it keeps what the buffer
\* has place for, and the final 0; it panics on an unsupported conversion only.
\* That is so because the loops of the numerals write their digits in place
\* value, and no directive leaves anything behind but lng and size, which the
\* next one sets again.
THEOREM Correctness == Spec => []Correct
<1>1. Inv => Correct
  <2> SUFFICES ASSUME Inv PROVE Correct
    OBVIOUS
  <2>1. AllText = FlattenSeq(TextOf(call))
    BY DEF AllText, TextOf
  <2>2. ASSUME status = "done"
        PROVE  out = Append(SubSeq(AllText, 1, IF Len(AllText) < len THEN Len(AllText) ELSE len),
                            "NUL")
    BY <2>1, <2>2 DEF Inv, Done, Cut
  <2> QED BY <2>2 DEF Correct, Inv, Done, Panicked
<1> QED BY <1>1, SpecInv, PTL

\* Each conversion of __vsnprintf takes the words of its own argument: when the
\* call is over, what va_arg would find next is what was on the stack before it.
THEOREM Arguments == Spec => []ArgumentsTaken
<1>1. Inv => ArgumentsTaken
  BY DEF Inv, Done, ArgumentsTaken
<1> QED BY <1>1, SpecInv, PTL

=============================================================================
