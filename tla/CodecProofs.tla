------------------------------ MODULE CodecProofs ------------------------------
(***************************************************************************)
(* What the codec reads back and what it refuses, for every width that     *)
(* satisfies the assumptions of Codec, 32 and 64 bits among them, every     *)
(* number and every buffer.                                                 *)
(***************************************************************************)
EXTENDS Codec, TLAPS, WellFoundedInduction, SequenceTheorems

(* Induction, over a set of numbers. *)

LEMMA Induction ==
  ASSUME NEW A, 0 \in A, \A n \in Nat : n \in A => n + 1 \in A
  PROVE  Nat \subseteq A
<1> DEFINE B == Nat \ A
<1> SUFFICES ASSUME B # {} PROVE FALSE
  OBVIOUS
<1>1. PICK n \in B : \A m \in B : <<m, n>> \notin OpToRel(<, Nat)
  <2>1. IsWellFoundedOn(OpToRel(<, Nat), Nat) /\ B \subseteq Nat
    BY NatLessThanWellFounded
  <2> HIDE DEF B
  <2>2. QED BY <2>1, WFMin
<1>2. n # 0 /\ n - 1 \in Nat /\ n \in Nat /\ n \notin A
  OBVIOUS
<1>3. n - 1 \notin B
  <2>1. <<n - 1, n>> \in OpToRel(<, Nat)
    BY <1>2 DEF OpToRel
  <2> HIDE DEF B
  <2>2. QED BY <1>1, <2>1
<1>4. QED BY <1>2, <1>3

(* A function f by recursion on a measure: f[x] is b[x], or c of x and f[p[x]]. *)

Equation(f, x, Base, b, p, c) == f[x] = IF x \in Base THEN b[x] ELSE c[x, f[p[x]]]

LEMMA Recursion ==
  ASSUME NEW D, NEW T, NEW Base, NEW m \in [D -> Nat], NEW b \in [D -> T],
         NEW p \in [D -> D], NEW c \in [D \X T -> T],
         \A x \in D \ Base : m[p[x]] < m[x]
  PROVE  \E f \in [D -> T] : \A x \in D : Equation(f, x, Base, b, p, c)
<1> DEFINE Good(f, n) == \A x \in D : m[x] < n => Equation(f, x, Base, b, p, c)
           A == {n \in Nat : \E f \in [D -> T] : Good(f, n)}
           B == {n \in Nat : \A f, g \in [D -> T] :
                   Good(f, n) /\ Good(g, n) => \A x \in D : m[x] < n => f[x] = g[x]}
<1>1. Nat \subseteq A
  <2>1. 0 \in A
    <3>1. Good(b, 0)
      OBVIOUS
    <3>2. QED BY <3>1
  <2>2. ASSUME NEW n \in Nat, n \in A
        PROVE  n + 1 \in A
    <3>1. PICK f \in [D -> T] : Good(f, n)
      BY <2>2
    <3> DEFINE g == [x \in D |-> IF x \in Base THEN b[x] ELSE c[x, f[p[x]]]]
    <3>2. g \in [D -> T]
      OBVIOUS
    <3>3. ASSUME NEW x \in D, m[x] < n + 1
          PROVE  Equation(g, x, Base, b, p, c)
      <4>1. CASE x \in Base
        BY <4>1 DEF Equation
      <4>2. CASE x \notin Base
        <5>1. p[x] \in D /\ m[p[x]] < n
          BY <3>3, <4>2
        <5>2. f[p[x]] = g[p[x]]
          BY <3>1, <5>1 DEF Equation
        <5>3. QED BY <4>2, <5>2 DEF Equation
      <4>3. QED BY <4>1, <4>2
    <3> HIDE DEF g
    <3>4. Good(g, n + 1)
      BY <3>3
    <3> HIDE DEF Good
    <3>5. QED BY <3>2, <3>4
  <2> HIDE DEF A
  <2>3. QED BY <2>1, <2>2, Induction
<1>2. Nat \subseteq B
  <2>1. 0 \in B
    OBVIOUS
  <2>2. ASSUME NEW n \in Nat, n \in B
        PROVE  n + 1 \in B
    <3> SUFFICES ASSUME NEW f \in [D -> T], NEW g \in [D -> T], Good(f, n + 1), Good(g, n + 1),
                        NEW x \in D, m[x] < n + 1
                 PROVE  f[x] = g[x]
      OBVIOUS
    <3>1. \A y \in D : m[y] < n => f[y] = g[y]
      <4>1. Good(f, n) /\ Good(g, n)
        OBVIOUS
      <4> HIDE DEF Good
      <4>2. QED BY <2>2, <4>1
    <3>2. Equation(f, x, Base, b, p, c) /\ Equation(g, x, Base, b, p, c)
      OBVIOUS
    <3>3. x \notin Base => f[p[x]] = g[p[x]]
      BY <3>1
    <3>4. QED BY <3>2, <3>3 DEF Equation
  <2> HIDE DEF B
  <2>3. QED BY <2>1, <2>2, Induction
<1> DEFINE F == [n \in Nat |-> CHOOSE f \in [D -> T] : Good(f, n)]
           g == [x \in D |-> F[m[x] + 1][x]]
<1>3. \A n \in Nat : F[n] \in [D -> T] /\ Good(F[n], n)
  <2>1. \A n \in Nat : \E f \in [D -> T] : Good(f, n)
    BY <1>1
  <2> HIDE DEF Good, A, B
  <2>2. ASSUME NEW n \in Nat
        PROVE  F[n] \in [D -> T] /\ Good(F[n], n)
    <3>1. F[n] = CHOOSE f \in [D -> T] : Good(f, n)
      OBVIOUS
    <3>2. \E f \in [D -> T] : Good(f, n)
      BY <2>1
    <3> HIDE DEF F
    <3>3. QED BY <3>1, <3>2
  <2>3. QED BY <2>2
<1>4. g \in [D -> T]
  <2> HIDE DEF F, Good
  <2>1. QED BY <1>3
<1>5. ASSUME NEW x \in D, x \notin Base
      PROVE  F[m[x] + 1][p[x]] = F[m[p[x]] + 1][p[x]]
  <2> DEFINE n == m[p[x]] + 1
  <2>1. n \in Nat /\ m[p[x]] < n /\ n < m[x] + 1 /\ m[x] + 1 \in Nat /\ p[x] \in D
    BY <1>5
  <2>2. Good(F[m[x] + 1], n) /\ Good(F[n], n)
    <3>1. Good(F[m[x] + 1], m[x] + 1) /\ Good(F[n], n)
      BY <1>3, <2>1
    <3>2. QED BY <2>1, <3>1
  <2>3. F[m[x] + 1] \in [D -> T] /\ F[n] \in [D -> T]
    BY <1>3, <2>1
  <2>4. n \in B
    BY <1>2, <2>1
  <2> HIDE DEF n, F, Good
  <2>5. F[m[x] + 1][p[x]] = F[n][p[x]]
    BY <2>1, <2>2, <2>3, <2>4
  <2>6. QED BY <2>5 DEF n
<1>6. ASSUME NEW x \in D
      PROVE  Equation(g, x, Base, b, p, c)
  <2>1. Equation(F[m[x] + 1], x, Base, b, p, c)
    <3>1. m[x] + 1 \in Nat /\ m[x] < m[x] + 1
      OBVIOUS
    <3>2. Good(F[m[x] + 1], m[x] + 1)
      <4> HIDE DEF F, Good
      <4>1. QED BY <1>3, <3>1
    <3> HIDE DEF F
    <3>3. QED BY <3>1, <3>2
  <2>2. g[x] = F[m[x] + 1][x] /\ (x \notin Base => g[p[x]] = F[m[p[x]] + 1][p[x]])
    <3> HIDE DEF F
    <3>1. QED OBVIOUS
  <2> HIDE DEF F, g
  <2>3. QED BY <1>5, <2>1, <2>2 DEF Equation
<1>7. QED BY <1>4, <1>6
-----------------------------------------------------------------------------
(* The recursive functions of the codec exist. *)

LEMMA Pow2Is == /\ Pow2[0] = 1
                /\ \A n \in Nat : Pow2[n + 1] = 2 * Pow2[n]
<1> DEFINE m == [n \in Nat |-> n]
           b == [n \in Nat |-> 1]
           p == [n \in Nat |-> IF n = 0 THEN 0 ELSE n - 1]
           c == [q \in Nat \X Int |-> 2 * q[2]]
<1>1. \E f \in [Nat -> Int] : \A n \in Nat : Equation(f, n, {0}, b, p, c)
  <2>1. /\ m \in [Nat -> Nat] /\ b \in [Nat -> Int] /\ p \in [Nat -> Nat] /\ c \in [Nat \X Int -> Int]
        /\ \A n \in Nat \ {0} : m[p[n]] < m[n]
    OBVIOUS
  <2> HIDE DEF m, b, p, c
  <2>2. QED BY <2>1, Recursion
<1>2. \E f : f = [n \in Nat |-> IF n = 0 THEN 1 ELSE 2 * f[n - 1]]
  <2>1. PICK f \in [Nat -> Int] : \A n \in Nat : Equation(f, n, {0}, b, p, c)
    BY <1>1
  <2>2. ASSUME NEW n \in Nat
        PROVE  f[n] = IF n = 0 THEN 1 ELSE 2 * f[n - 1]
    <3>1. f[n] = IF n = 0 THEN b[n] ELSE c[n, f[p[n]]]
      BY <2>1 DEF Equation
    <3>2. b[n] = 1 /\ (n # 0 => p[n] = n - 1 /\ n - 1 \in Nat)
      OBVIOUS
    <3>3. \A x \in Int : c[n, x] = 2 * x
      OBVIOUS
    <3> HIDE DEF b, c, p
    <3>4. QED BY <3>1, <3>2, <3>3
  <2>3. f = [n \in Nat |-> IF n = 0 THEN 1 ELSE 2 * f[n - 1]]
    BY <2>2
  <2> WITNESS f
  <2>4. QED BY <2>3
<1>3. Pow2 = [n \in Nat |-> IF n = 0 THEN 1 ELSE 2 * Pow2[n - 1]]
  BY <1>2 DEF Pow2
<1>4. \A n \in Nat : n + 1 \in Nat /\ n + 1 # 0 /\ (n + 1) - 1 = n
  OBVIOUS
<1>5. QED BY <1>3, <1>4

LEMMA EncodeUlebIs ==
  \A v \in Nat : EncodeUleb[v] = IF v < 128 THEN <<v>>
                                 ELSE <<(v % 128) + 128>> \o EncodeUleb[v \div 128]
<1> DEFINE T == Seq(0..255)
           Low == 0..127
           m == [v \in Nat |-> v]
           b == [v \in Nat |-> <<v % 128>>]
           p == [v \in Nat |-> v \div 128]
           c == [q \in Nat \X T |-> <<(q[1] % 128) + 128>> \o q[2]]
<1>1. \E f \in [Nat -> T] : \A v \in Nat : Equation(f, v, Low, b, p, c)
  <2>1. m \in [Nat -> Nat] /\ p \in [Nat -> Nat] /\ \A v \in Nat \ Low : m[p[v]] < m[v]
    OBVIOUS
  <2>2. b \in [Nat -> T]
    OBVIOUS
  <2>3. c \in [Nat \X T -> T]
    <3>1. \A q \in Nat \X T : (q[1] % 128) + 128 \in 0..255 /\ q[2] \in T
      <4> HIDE DEF T
      <4>1. QED OBVIOUS
    <3>2. ASSUME NEW x \in 0..255, NEW s \in T
          PROVE  <<x>> \o s \in T
      OBVIOUS
    <3> HIDE DEF T
    <3>3. ASSUME NEW q \in Nat \X T
          PROVE  <<(q[1] % 128) + 128>> \o q[2] \in T
      BY <3>1, <3>2
    <3>4. QED BY <3>3
  <2> HIDE DEF m, b, p, c, T, Low
  <2>4. QED BY <2>1, <2>2, <2>3, Recursion
<1>2. \E f : f = [v \in Nat |-> IF v < 128 THEN <<v>> ELSE <<(v % 128) + 128>> \o f[v \div 128]]
  <2>1. PICK f \in [Nat -> T] : \A v \in Nat : Equation(f, v, Low, b, p, c)
    BY <1>1
  <2>2. \A v \in Nat : f[v] = IF v < 128 THEN <<v>> ELSE <<(v % 128) + 128>> \o f[v \div 128]
    <3> TAKE v \in Nat
    <3>1. f[v] = IF v \in Low THEN b[v] ELSE c[v, f[p[v]]]
      BY <2>1 DEF Equation
    <3>2. p[v] = v \div 128 /\ v \div 128 \in Nat
      OBVIOUS
    <3>3. v < 128 => b[v] = <<v>>
      <4> HIDE DEF T, Low, m, p, c
      <4>1. b[v] = <<v % 128>>
        OBVIOUS
      <4> HIDE DEF b
      <4>2. v < 128 => v % 128 = v
        OBVIOUS
      <4>3. QED BY <4>1, <4>2
    <3>4. \A s \in T : c[v, s] = <<(v % 128) + 128>> \o s
      <4> HIDE DEF T
      <4>1. QED OBVIOUS
    <3>5. v \in Low <=> v < 128
      OBVIOUS
    <3> DEFINE small == v < 128
               more(t) == <<(v % 128) + 128>> \o t
               rest == v \div 128
               one == <<v>>
    <3> HIDE DEF T, b, c, p, Low, small, more, rest, one
    <3>6. f[v] = IF small THEN one ELSE more(f[rest])
      <4>1. rest \in Nat /\ p[v] = rest /\ f[rest] \in T
        BY <3>2 DEF rest
      <4>2. (v \in Low <=> small) /\ (small => b[v] = one) /\ c[v, f[rest]] = more(f[rest])
        BY <3>3, <3>4, <3>5, <4>1 DEF small, one, more
      <4>3. QED BY <3>1, <4>1, <4>2
    <3>7. QED BY <3>6 DEF small, more, rest, one
  <2> HIDE DEF T, b, c, p
  <2>3. f = [v \in Nat |-> IF v < 128 THEN <<v>> ELSE <<(v % 128) + 128>> \o f[v \div 128]]
    BY <2>2
  <2> WITNESS f
  <2>4. QED BY <2>3
<1>3. EncodeUleb = [v \in Nat |-> IF v < 128 THEN <<v>>
                                 ELSE <<(v % 128) + 128>> \o EncodeUleb[v \div 128]]
  BY <1>2 DEF EncodeUleb
<1>4. QED BY <1>3

LEMMA EncodeSlebIs ==
  \A v \in Int : EncodeSleb[v] = IF v \in -64..63 THEN <<v % 128>>
                                 ELSE <<(v % 128) + 128>> \o EncodeSleb[v \div 128]
<1> DEFINE T == Seq(0..255)
           Low == -64..63
           m == [v \in Int |-> IF v < 0 THEN -v ELSE v]
           b == [v \in Int |-> <<v % 128>>]
           p == [v \in Int |-> v \div 128]
           c == [q \in Int \X T |-> <<(q[1] % 128) + 128>> \o q[2]]
<1>1. \E f \in [Int -> T] : \A v \in Int : Equation(f, v, Low, b, p, c)
  <2>1. m \in [Int -> Nat] /\ p \in [Int -> Int] /\ \A v \in Int \ Low : m[p[v]] < m[v]
    OBVIOUS
  <2>2. b \in [Int -> T]
    OBVIOUS
  <2>3. c \in [Int \X T -> T]
    <3>1. \A q \in Int \X T : (q[1] % 128) + 128 \in 0..255 /\ q[2] \in T
      <4> HIDE DEF T
      <4>1. QED OBVIOUS
    <3>2. ASSUME NEW x \in 0..255, NEW s \in T
          PROVE  <<x>> \o s \in T
      OBVIOUS
    <3> HIDE DEF T
    <3>3. ASSUME NEW q \in Int \X T
          PROVE  <<(q[1] % 128) + 128>> \o q[2] \in T
      BY <3>1, <3>2
    <3>4. QED BY <3>3
  <2> HIDE DEF m, b, p, c, T, Low
  <2>4. QED BY <2>1, <2>2, <2>3, Recursion
<1> DEFINE Body(f) == [v \in Int |->
               IF (v \div 128 = 0 /\ v % 128 < 64) \/ (v \div 128 = -1 /\ v % 128 >= 64)
               THEN <<v % 128>> ELSE <<(v % 128) + 128>> \o f[v \div 128]]
<1> HIDE DEF Body
<1>2. \E f : f = Body(f)
  <2>1. PICK f \in [Int -> T] : \A v \in Int : Equation(f, v, Low, b, p, c)
    BY <1>1
  <2>2. \A v \in Int : f[v] = IF (v \div 128 = 0 /\ v % 128 < 64) \/ (v \div 128 = -1 /\ v % 128 >= 64)
                              THEN <<v % 128>> ELSE <<(v % 128) + 128>> \o f[v \div 128]
    <3> TAKE v \in Int
    <3>1. f[v] = IF v \in Low THEN b[v] ELSE c[v, f[p[v]]]
      BY <2>1 DEF Equation
    <3>2. p[v] = v \div 128 /\ v \div 128 \in Int
      OBVIOUS
    <3>3. b[v] = <<v % 128>>
      <4> HIDE DEF T, Low, m, p, c
      <4>1. QED OBVIOUS
    <3>4. \A s \in T : c[v, s] = <<(v % 128) + 128>> \o s
      <4> HIDE DEF T
      <4>1. QED OBVIOUS
    <3>5. v \in Low <=> (v \div 128 = 0 /\ v % 128 < 64) \/ (v \div 128 = -1 /\ v % 128 >= 64)
      OBVIOUS
    <3> DEFINE small == (v \div 128 = 0 /\ v % 128 < 64) \/ (v \div 128 = -1 /\ v % 128 >= 64)
               more(t) == <<(v % 128) + 128>> \o t
               rest == v \div 128
               one == <<v % 128>>
    <3> HIDE DEF T, b, c, p, Low, small, more, rest, one
    <3>6. f[v] = IF small THEN one ELSE more(f[rest])
      <4>1. rest \in Int /\ p[v] = rest /\ f[rest] \in T
        BY <3>2 DEF rest
      <4>2. (v \in Low <=> small) /\ b[v] = one /\ c[v, f[rest]] = more(f[rest])
        BY <3>3, <3>4, <3>5, <4>1 DEF small, one, more
      <4>3. QED BY <3>1, <4>1, <4>2
    <3>7. QED BY <3>6 DEF small, more, rest, one
  <2> HIDE DEF T, b, c, p
  <2>3. f = Body(f)
    BY <2>2 DEF Body
  <2>4. QED BY <2>3
<1>3. EncodeSleb = [v \in Int |->
         IF (v \div 128 = 0 /\ v % 128 < 64) \/ (v \div 128 = -1 /\ v % 128 >= 64)
         THEN <<v % 128>> ELSE <<(v % 128) + 128>> \o EncodeSleb[v \div 128]]
  BY <1>2 DEF EncodeSleb, Body
<1>4. \A v \in Int : v \in -64..63 <=>
        (v \div 128 = 0 /\ v % 128 < 64) \/ (v \div 128 = -1 /\ v % 128 >= 64)
  OBVIOUS
<1>5. QED BY <1>3, <1>4

LEMMA ValueIs ==
  \A s \in Seq(Nat) :
    Value[s] = IF s = <<>> THEN 0 ELSE (Head(s) % 128) + 128 * Value[Tail(s)]
<1> DEFINE D == Seq(Nat)
           m == [s \in D |-> Len(s)]
           b == [s \in D |-> 0]
           p == [s \in D |-> IF s = <<>> THEN s ELSE Tail(s)]
           c == [q \in D \X Int |-> IF q[1] = <<>> THEN 0 ELSE (Head(q[1]) % 128) + 128 * q[2]]
<1>1. \E f \in [D -> Int] : \A s \in D : Equation(f, s, {<<>>}, b, p, c)
  <2>1. m \in [D -> Nat] /\ p \in [D -> D] /\ \A s \in D \ {<<>>} : m[p[s]] < m[s]
    OBVIOUS
  <2>2. b \in [D -> Int]
    OBVIOUS
  <2>3. c \in [D \X Int -> Int]
    OBVIOUS
  <2> HIDE DEF m, b, p, c, D
  <2>4. QED BY <2>1, <2>2, <2>3, Recursion
<1>2. \E f : f = [s \in D |-> IF s = <<>> THEN 0 ELSE (Head(s) % 128) + 128 * f[Tail(s)]]
  <2>1. PICK f \in [D -> Int] : \A s \in D : Equation(f, s, {<<>>}, b, p, c)
    BY <1>1
  <2>2. \A s \in D : f[s] = IF s = <<>> THEN 0 ELSE (Head(s) % 128) + 128 * f[Tail(s)]
    <3> TAKE s \in D
    <3>1. f[s] = IF s = <<>> THEN b[s] ELSE c[s, f[p[s]]]
      <4> HIDE DEF D, b, c, p
      <4>1. Equation(f, s, {<<>>}, b, p, c)
        BY <2>1
      <4>2. s \in {<<>>} <=> s = <<>>
        OBVIOUS
      <4>3. QED BY <4>1, <4>2 DEF Equation
    <3>2. b[s] = 0 /\ (s # <<>> => p[s] = Tail(s) /\ Tail(s) \in D)
      OBVIOUS
    <3>3. \A x \in Int : s # <<>> => c[s, x] = (Head(s) % 128) + 128 * x
      <4> HIDE DEF D
      <4>1. QED OBVIOUS
    <3> HIDE DEF D, b, c, p
    <3>4. QED BY <3>1, <3>2, <3>3
  <2> HIDE DEF D, b, c, p
  <2>3. f = [s \in D |-> IF s = <<>> THEN 0 ELSE (Head(s) % 128) + 128 * f[Tail(s)]]
    BY <2>2
  <2> WITNESS f
  <2>4. QED BY <2>3
<1>3. Value = [s \in Seq(Nat) |-> IF s = <<>> THEN 0 ELSE (Head(s) % 128) + 128 * Value[Tail(s)]]
  BY <1>2 DEF Value
<1>4. QED BY <1>3
-----------------------------------------------------------------------------
(* Groups. *)

\* A number as it is written: every byte but the last one says that another follows.
Grouped(s) ==
  /\ s \in Seq(0..255) /\ s # <<>>
  /\ \A i \in 1..Len(s) : i < Len(s) <=> s[i] >= 128

LEMMA BufferType ==
  ASSUME NEW s \in Seq(0..255)
  PROVE  /\ s \in Seq(Nat) /\ Len(s) \in Nat /\ (s # <<>> => Len(s) \in Nat \ {0})
         /\ \A i \in 1..Len(s) : s[i] \in 0..255 /\ s[i] \in Nat /\ s[i] < 256
<1> DEFINE Octet == 0..255
<1>1. Octet \subseteq Nat /\ s \in Seq(Octet)
  OBVIOUS
<1> HIDE DEF Octet
<1>2. s \in Seq(Nat) /\ Len(s) \in Nat /\ (s # <<>> => Len(s) \in Nat \ {0})
  <2>1. s \in Seq(Nat)
    BY <1>1, SeqMonotonic
  <2>2. Len(s) \in Nat
    BY <1>1, LenProperties
  <2>3. Len(s) = 0 <=> s = <<>>
    BY <1>1, EmptySeq
  <2>4. QED BY <2>1, <2>2, <2>3
<1>3. \A i \in 1..Len(s) : s[i] \in Octet
  BY <1>1, ElementOfSeq
<1>4. ASSUME NEW o \in Octet
      PROVE  o \in 0..255 /\ o \in Nat /\ o < 256
  BY DEF Octet
<1>5. QED BY <1>2, <1>3, <1>4

\* The group taken off a number, and the number that is left.
LEMMA GroupOff ==
  ASSUME NEW y \in Nat, y < 128, NEW v \in Int
  PROVE  /\ y + 128 * v \in Int /\ (y + 128 * v) \div 128 = v
         /\ (v \in Nat => y + 128 * v \in Nat)
<1>1. (y + 128 * v) \div 128 = v
  OBVIOUS
<1>2. QED BY <1>1

LEMMA OneGroup ==
  ASSUME NEW x \in Nat, x < 128
  PROVE  /\ Grouped(<<x>>) /\ Len(<<x>>) = 1 /\ <<x>>[1] = x
         /\ Value[<<x>>] = x
<1>1. Grouped(<<x>>) /\ Len(<<x>>) = 1 /\ <<x>>[1] = x
  BY DEF Grouped
<1>2. <<x>> \in Seq(Nat) /\ <<x>> # <<>> /\ Head(<<x>>) = x /\ Tail(<<x>>) = <<>> /\ <<>> \in Seq(Nat)
  OBVIOUS
<1>3. Value[<<>>] = 0 /\ Value[<<x>>] = (x % 128) + 128 * Value[<<>>]
  BY <1>2, ValueIs
<1>4. QED BY <1>1, <1>3

\* One more, less significant, that says that another follows.
More(x, s) == <<x>> \o s
Continuing(x) == x \in Nat /\ x >= 128 /\ x < 256

LEMMA OneMoreGroup ==
  ASSUME NEW x, Continuing(x), NEW s, Grouped(s)
  PROVE  /\ Grouped(More(x, s)) /\ Len(More(x, s)) = Len(s) + 1 /\ Len(s) \in Nat \ {0}
         /\ More(x, s)[Len(More(x, s))] = s[Len(s)]
         /\ Value[More(x, s)] = (x % 128) + 128 * Value[s]
<1> DEFINE q == <<x>> \o s
<1>0. x \in 0..255 /\ x \in Nat /\ x >= 128
  BY DEF Continuing
<1>1. s \in Seq(0..255) /\ s \in Seq(Nat) /\ Len(s) \in Nat \ {0}
  BY BufferType DEF Grouped
<1>2. q \in Seq(0..255) /\ q \in Seq(Nat) /\ Len(q) = Len(s) + 1 /\ q # <<>>
  BY <1>0, <1>1
<1>3. q[1] = x /\ \A i \in 1..Len(s) : q[i + 1] = s[i]
  BY <1>1
<1>4. Head(q) = x /\ Tail(q) = s
  BY <1>0, <1>1, <1>2, <1>3
<1> HIDE DEF q
<1>5. Value[q] = (x % 128) + 128 * Value[s]
  BY <1>2, <1>4, ValueIs
<1>6. ASSUME NEW i \in 1..Len(q)
      PROVE  i < Len(q) <=> q[i] >= 128
  <2>1. CASE i = 1
    BY <1>0, <1>1, <1>2, <1>3, <2>1
  <2>2. CASE i # 1
    <3>1. i - 1 \in 1..Len(s) /\ (i - 1) + 1 = i /\ (i < Len(q) <=> i - 1 < Len(s))
      BY <1>1, <1>2, <2>2
    <3>2. q[i] = s[i - 1]
      BY <1>3, <3>1
    <3>3. i - 1 < Len(s) <=> s[i - 1] >= 128
      BY <3>1 DEF Grouped
    <3>4. QED BY <3>1, <3>2, <3>3
  <2>3. QED BY <2>1, <2>2
<1>7. q[Len(q)] = s[Len(s)]
  <2>1. Len(s) \in 1..Len(s) /\ Len(q) = Len(s) + 1
    BY <1>1, <1>2
  <2>2. QED BY <1>3, <2>1
<1>8. QED BY <1>1, <1>2, <1>5, <1>6, <1>7 DEF Grouped, More, q

\* A number of several groups: the first byte, and the number the rest is written for.
UlebStep(v, x, rest) ==
  /\ Continuing(x) /\ rest \in Nat /\ x % 128 \in Nat
  /\ v = (x % 128) + 128 * rest /\ rest < v
  /\ EncodeUleb[v] = More(x, EncodeUleb[rest])

LEMMA UlebSteps ==
  ASSUME NEW v \in Nat, ~(v < 128)
  PROVE  \E x, rest : UlebStep(v, x, rest)
<1> DEFINE y == (v % 128) + 128
<1>1. /\ y \in Nat /\ y >= 128 /\ y < 256 /\ y % 128 \in Nat /\ v \div 128 \in Nat
      /\ v = (y % 128) + 128 * (v \div 128) /\ v \div 128 < v
  OBVIOUS
<1>2. EncodeUleb[v] = More((v % 128) + 128, EncodeUleb[v \div 128])
  BY EncodeUlebIs, Zenon DEF More
<1>3. QED
  <2>1. UlebStep(v, y, v \div 128)
    BY <1>1, <1>2 DEF UlebStep, Continuing
  <2>2. QED BY <2>1

\* What EncodeUleb writes stands for the number.
LEMMA UlebWritten == \A v \in Nat : Grouped(EncodeUleb[v]) /\ Value[EncodeUleb[v]] = v
<1> DEFINE A == {n \in Nat : \A v \in Nat : v < n => Grouped(EncodeUleb[v]) /\ Value[EncodeUleb[v]] = v}
<1>1. ASSUME NEW n \in Nat, n \in A
      PROVE  n + 1 \in A
  <2> SUFFICES ASSUME NEW v \in Nat, v < n + 1
               PROVE  Grouped(EncodeUleb[v]) /\ Value[EncodeUleb[v]] = v
    OBVIOUS
  <2>0. \A u \in Nat : u < n => Grouped(EncodeUleb[u]) /\ Value[EncodeUleb[u]] = u
    BY <1>1
  <2> HIDE DEF A
  <2>1. CASE v < 128
    <3>1. EncodeUleb[v] = <<v>>
      BY <2>1, EncodeUlebIs, Zenon
    <3>2. QED BY <2>1, <3>1, OneGroup
  <2>2. CASE ~(v < 128)
    <3>0. PICK x, rest : UlebStep(v, x, rest)
      BY <2>2, UlebSteps
    <3>1. /\ Continuing(x) /\ rest \in Nat /\ x % 128 \in Nat
          /\ v = (x % 128) + 128 * rest /\ rest < v
          /\ EncodeUleb[v] = More(x, EncodeUleb[rest])
      BY <3>0 DEF UlebStep
    <3>2. rest \in Nat /\ rest < n
      <4>1. rest \in Nat /\ rest < v
        BY <3>1
      <4>2. QED BY <4>1
    <3>3. Grouped(EncodeUleb[rest]) /\ Value[EncodeUleb[rest]] = rest
      BY <2>0, <3>2
    <3>4. Grouped(EncodeUleb[v]) /\ Value[EncodeUleb[v]] = (x % 128) + 128 * Value[EncodeUleb[rest]]
      <4> DEFINE s == EncodeUleb[rest]
      <4>1. Continuing(x) /\ EncodeUleb[v] = More(x, s)
        BY <3>1
      <4>2. Grouped(s)
        BY <3>3
      <4> HIDE DEF s
      <4>3. Grouped(More(x, s)) /\ Value[More(x, s)] = (x % 128) + 128 * Value[s]
        BY <4>1, <4>2, OneMoreGroup
      <4>4. QED BY <4>1, <4>3 DEF s
    <3>5. QED BY <3>1, <3>3, <3>4
  <2>3. QED BY <2>1, <2>2
<1>2. 0 \in A
  OBVIOUS
<1>3. Nat \subseteq A
  <2> HIDE DEF A
  <2>1. QED BY <1>1, <1>2, Induction
<1>4. \A v \in Nat : v + 1 \in A
  <2> HIDE DEF A
  <2>1. QED BY <1>3
<1>5. \A v \in Nat : v < v + 1
  OBVIOUS
<1>6. QED BY <1>4, <1>5
-----------------------------------------------------------------------------
(* Widths. *)

LEMMA Pow2Type == \A n \in Nat : Pow2[n] \in Nat \ {0}
<1> DEFINE A == {n \in Nat : Pow2[n] \in Nat \ {0}}
<1>1. 0 \in A
  BY Pow2Is
<1>2. ASSUME NEW n \in Nat, n \in A
      PROVE  n + 1 \in A
  BY <1>2, Pow2Is
<1>3. Nat \subseteq A
  <2> HIDE DEF A
  <2>1. QED BY <1>1, <1>2, Induction
<1>4. QED BY <1>3

LEMMA Pow2Grows == \A n \in Nat : \A k \in 0..n : Pow2[k] <= Pow2[n]
<1> DEFINE A == {n \in Nat : \A k \in 0..n : Pow2[k] <= Pow2[n]}
<1>1. 0 \in A
  BY Pow2Is
<1>2. ASSUME NEW n \in Nat, n \in A
      PROVE  n + 1 \in A
  <2>1. Pow2[n] \in Nat /\ Pow2[n + 1] = 2 * Pow2[n]
    BY Pow2Is, Pow2Type
  <2>2. ASSUME NEW k \in 0..n + 1
        PROVE  Pow2[k] <= Pow2[n + 1]
    <3>1. k \in Nat /\ Pow2[k] \in Nat /\ (k = n + 1 \/ k \in 0..n)
      BY Pow2Type
    <3>2. QED BY <1>2, <2>1, <3>1
  <2>3. QED BY <2>2
<1>3. Nat \subseteq A
  <2> HIDE DEF A
  <2>1. QED BY <1>1, <1>2, Induction
<1>4. QED BY <1>3

\* A group is seven bits.
LEMMA Pow2Group == /\ Pow2[7] = 128
                   /\ \A n \in Nat : Pow2[n + 7] = 128 * Pow2[n]
<1>1. ASSUME NEW n \in Nat
      PROVE  Pow2[n + 7] = 128 * Pow2[n]
  <2>1. /\ Pow2[n + 1] = 2 * Pow2[n] /\ Pow2[(n + 1) + 1] = 2 * Pow2[n + 1]
        /\ Pow2[(n + 2) + 1] = 2 * Pow2[n + 2] /\ Pow2[(n + 3) + 1] = 2 * Pow2[n + 3]
        /\ Pow2[(n + 4) + 1] = 2 * Pow2[n + 4] /\ Pow2[(n + 5) + 1] = 2 * Pow2[n + 5]
        /\ Pow2[(n + 6) + 1] = 2 * Pow2[n + 6]
    BY Pow2Is
  <2>2. /\ (n + 1) + 1 = n + 2 /\ (n + 2) + 1 = n + 3 /\ (n + 3) + 1 = n + 4
        /\ (n + 4) + 1 = n + 5 /\ (n + 5) + 1 = n + 6 /\ (n + 6) + 1 = n + 7
    OBVIOUS
  <2>3. Pow2[n] \in Nat
    BY Pow2Type
  <2>4. QED BY <2>1, <2>2, <2>3
<1>2. Pow2[0 + 7] = 128 * Pow2[0] /\ Pow2[0] = 1
  BY <1>1, Pow2Is
<1>3. QED BY <1>1, <1>2

\* A number of so many bits has no more groups, and no bit above them in the last one.
Fitting(s, bits) ==
  /\ 7 * (Len(s) - 1) < bits
  /\ 7 * Len(s) > bits => s[Len(s)] < Pow2[bits - 7 * (Len(s) - 1)]

LEMMA UlebFits ==
  \A v \in Nat : \A bits \in Nat \ {0} : v < Pow2[bits] => Fitting(EncodeUleb[v], bits)
<1> DEFINE A == {n \in Nat : \A v \in Nat : v < n => \A bits \in Nat \ {0} :
                   v < Pow2[bits] => Fitting(EncodeUleb[v], bits)}
<1>1. ASSUME NEW n \in Nat, n \in A
      PROVE  n + 1 \in A
  <2> SUFFICES ASSUME NEW v \in Nat, v < n + 1, NEW bits \in Nat \ {0}, v < Pow2[bits]
               PROVE  Fitting(EncodeUleb[v], bits)
    OBVIOUS
  <2>0. \A u \in Nat : u < n => \A w \in Nat \ {0} : u < Pow2[w] => Fitting(EncodeUleb[u], w)
    BY <1>1
  <2> HIDE DEF A
  <2>1. CASE v < 128
    <3>1. EncodeUleb[v] = <<v>>
      BY <2>1, EncodeUlebIs, Zenon
    <3>2. bits - 7 * (1 - 1) = bits /\ 7 * (1 - 1) < bits
      OBVIOUS
    <3>3. Len(<<v>>) = 1 /\ <<v>>[1] = v
      OBVIOUS
    <3>4. QED BY <3>1, <3>2, <3>3 DEF Fitting
  <2>2. CASE ~(v < 128)
    <3>0. PICK x, rest : UlebStep(v, x, rest)
      BY <2>2, UlebSteps
    <3>1. /\ Continuing(x) /\ rest \in Nat /\ x % 128 \in Nat
          /\ v = (x % 128) + 128 * rest /\ rest < v
          /\ EncodeUleb[v] = More(x, EncodeUleb[rest])
      BY <3>0 DEF UlebStep
    <3> DEFINE s == EncodeUleb[rest]
               q == EncodeUleb[v]
    <3>2. bits - 7 \in Nat \ {0}
      <4>1. bits \in 0..7 => Pow2[bits] <= 128
        BY Pow2Grows, Pow2Group
      <4>2. Pow2[bits] \in Nat
        BY Pow2Type
      <4>3. QED BY <2>2, <4>1, <4>2
    <3>3. rest < Pow2[bits - 7]
      <4>1. Pow2[(bits - 7) + 7] = 128 * Pow2[bits - 7] /\ (bits - 7) + 7 = bits
            /\ Pow2[bits - 7] \in Nat
        BY <3>2, Pow2Group, Pow2Type
      <4>2. QED BY <3>1, <4>1
    <3>4. Fitting(s, bits - 7)
      <4>1. rest \in Nat /\ rest < v
        BY <3>1
      <4>2. rest \in Nat /\ rest < n
        BY <4>1
      <4>3. QED BY <2>0, <3>2, <3>3, <4>2
    <3>5. Continuing(x) /\ Grouped(s) /\ q = More(x, s)
      BY <3>1, UlebWritten
    <3> HIDE DEF s, q
    <3>6. Len(q) = Len(s) + 1 /\ Len(s) \in Nat \ {0} /\ q[Len(q)] = s[Len(s)]
      BY <3>5, OneMoreGroup
    <3>7. /\ 7 * (Len(q) - 1) < bits <=> 7 * (Len(s) - 1) < bits - 7
          /\ 7 * Len(q) > bits <=> 7 * Len(s) > bits - 7
          /\ bits - 7 * (Len(q) - 1) = (bits - 7) - 7 * (Len(s) - 1)
      BY <3>2, <3>6
    <3>8. Fitting(q, bits)
      BY <3>4, <3>6, <3>7 DEF Fitting
    <3>9. QED BY <3>8 DEF q
  <2>3. QED BY <2>1, <2>2
<1>2. 0 \in A
  OBVIOUS
<1>3. Nat \subseteq A
  <2> HIDE DEF A
  <2>1. QED BY <1>1, <1>2, Induction
<1>4. \A v \in Nat : v + 1 \in A
  <2> HIDE DEF A
  <2>1. QED BY <1>3
<1>5. \A v \in Nat : v < v + 1
  OBVIOUS
<1>6. QED BY <1>4, <1>5
-----------------------------------------------------------------------------
(* Reading unsigned numbers. *)

\* The bytes of s are in the buffer after pos.
Holds(buf, pos, s) ==
  /\ buf \in Seq(0..255) /\ pos \in Nat /\ pos + Len(s) <= Len(buf)
  /\ \A i \in 1..Len(s) : buf[pos + i] = s[i]

\* The number after pos is found to its last group.
LEMMA SpanIs ==
  ASSUME NEW buf, NEW pos, NEW s, Holds(buf, pos, s), Grouped(s),
         NEW groups \in Nat, Len(s) <= groups
  PROVE  Span(groups, buf, pos) = Len(s)
<1> DEFINE ends == {k \in 1..groups : k <= Remaining(buf, pos) /\ buf[pos + k] < 128}
<1>1. Len(s) \in Nat \ {0} /\ Len(buf) \in Nat /\ pos \in Nat /\ Remaining(buf, pos) = Len(buf) - pos
  BY BufferType DEF Grouped, Holds, Remaining
<1>2. \A i \in 1..Len(s) : buf[pos + i] \in 0..255 /\ (i < Len(s) <=> buf[pos + i] >= 128)
  <2>1. \A i \in 1..Len(s) : s[i] \in 0..255
    BY BufferType DEF Grouped
  <2>2. QED BY <2>1 DEF Grouped, Holds
<1>3. Len(s) \in ends
  <2>1. Len(s) \in 1..groups /\ Len(s) <= Remaining(buf, pos)
    BY <1>1 DEF Holds
  <2>2. Len(s) \in 1..Len(s) /\ ~(Len(s) < Len(s))
    BY <1>1
  <2>3. buf[pos + Len(s)] < 128
    <3>1. buf[pos + Len(s)] \in 0..255 /\ ~(buf[pos + Len(s)] >= 128)
      BY <1>2, <2>2
    <3>2. \A x \in 0..255 : ~(x >= 128) => x < 128
      OBVIOUS
    <3>3. QED BY <3>1, <3>2
  <2>4. QED BY <2>1, <2>3
<1>4. ASSUME NEW k \in ends
      PROVE  k >= Len(s)
  <2>1. k \in 1..groups /\ buf[pos + k] < 128
    OBVIOUS
  <2>2. CASE k < Len(s)
    <3>1. k \in 1..Len(s)
      BY <1>1, <2>1, <2>2
    <3>2. buf[pos + k] \in 0..255 /\ buf[pos + k] >= 128
      BY <1>2, <2>2, <3>1
    <3>3. \A x \in 0..255 : ~(x >= 128 /\ x < 128)
      OBVIOUS
    <3> HIDE DEF ends
    <3>4. QED BY <2>1, <3>2, <3>3
  <2>3. QED BY <1>1, <2>1, <2>2
<1>5. Min(ends) = Len(s)
  <2>1. \A k \in ends : k \in Nat
    OBVIOUS
  <2> HIDE DEF ends
  <2>2. QED BY <1>1, <1>3, <1>4, <2>1 DEF Min
<1>6. Span(groups, buf, pos) = IF ends = {} THEN 0 ELSE Min(ends)
  BY DEF Span
<1> HIDE DEF ends
<1>7. QED BY <1>3, <1>5, <1>6

\* What is read of as many bytes.
LEMMA SliceIs ==
  ASSUME NEW buf, NEW pos, NEW s, Holds(buf, pos, s), s \in Seq(0..255)
  PROVE  SubSeq(buf, pos + 1, pos + Len(s)) = s
<1>1. Len(s) \in Nat /\ pos \in Nat /\ Len(buf) \in Nat
  BY BufferType DEF Holds
<1>2. \A i \in pos + 1..pos + Len(s) : buf[i] \in 0..255
  <2>1. \A i \in 1..Len(buf) : buf[i] \in 0..255
    BY BufferType DEF Holds
  <2>2. pos + Len(s) <= Len(buf)
    BY DEF Holds
  <2>3. QED BY <1>1, <2>1, <2>2
<1> DEFINE q == SubSeq(buf, pos + 1, pos + Len(s))
<1>3. /\ q \in Seq(0..255) /\ Len(q) = Len(s)
      /\ \A i \in 1..Len(s) : q[i] = buf[pos + i]
  <2> DEFINE m == pos + 1
             n == pos + Len(s)
             Octet == 0..255
  <2>1. m \in Int /\ n \in Int /\ (\A i \in m..n : buf[i] \in Octet)
        /\ n - m + 1 = Len(s) /\ (m <= n \/ Len(s) = 0)
        /\ \A i \in 1..Len(s) : m + i - 1 = pos + i
    BY <1>1, <1>2
  <2> HIDE DEF m, n, Octet
  <2>2. /\ SubSeq(buf, m, n) \in Seq(Octet) /\ Len(SubSeq(buf, m, n)) = Len(s)
        /\ \A i \in 1..Len(s) : SubSeq(buf, m, n)[i] = buf[m + i - 1]
    BY <2>1, <1>1, SubSeqProperties
  <2>3. QED BY <2>1, <2>2 DEF m, n, Octet
<1> HIDE DEF q
<1>4. q = s
  BY <1>3, SeqEqual DEF Holds
<1>5. QED BY <1>4 DEF q

LEMMA PayloadIs ==
  ASSUME NEW buf, NEW pos, NEW s, Holds(buf, pos, s), s \in Seq(0..255)
  PROVE  Payload(Len(s), buf, pos) = Value[s]
BY SliceIs DEF Payload

\* A number of a width that a host writes is read back, from any buffer that holds
\* it and whatever follows it there: Uleb gives the number and stops behind it.
THEOREM UlebReadsBack ==
  ASSUME NEW bits \in Nat \ {0}, NEW v \in Nat, v < Pow2[bits],
         NEW buf, NEW pos, Holds(buf, pos, EncodeUleb[v])
  PROVE  Uleb(bits, buf, pos) = Ok(v, pos + Len(EncodeUleb[v]))
<1> DEFINE s == EncodeUleb[v]
<1>1. Grouped(s) /\ Value[s] = v /\ Fitting(s, bits) /\ Holds(buf, pos, s)
  BY UlebWritten, UlebFits
<1> HIDE DEF s
<1>2. s \in Seq(0..255) /\ Len(s) \in Nat \ {0}
  BY <1>1, BufferType DEF Grouped
<1>3. Groups(bits) \in Nat /\ Len(s) <= Groups(bits)
  <2>1. 7 * (Len(s) - 1) < bits
    BY <1>1 DEF Fitting
  <2>2. QED BY <1>2, <2>1 DEF Groups
<1>4. Span(Groups(bits), buf, pos) = Len(s)
  BY <1>1, <1>3, SpanIs
<1>5. Payload(Len(s), buf, pos) = v
  BY <1>1, <1>2, PayloadIs
<1>6. ~(7 * Len(s) > bits /\ buf[pos + Len(s)] >= Pow2[bits - 7 * (Len(s) - 1)])
  <2> DEFINE top == Pow2[bits - 7 * (Len(s) - 1)]
  <2>1. buf[pos + Len(s)] = s[Len(s)] /\ s[Len(s)] \in Nat
    <3>1. Len(s) \in 1..Len(s)
      BY <1>2
    <3>2. s[Len(s)] \in Nat
      BY <1>2, <3>1, BufferType
    <3>3. buf[pos + Len(s)] = s[Len(s)]
      BY <1>1, <3>1 DEF Holds
    <3>4. QED BY <3>2, <3>3
  <2>2. top \in Nat
    BY <1>1, <1>2, Pow2Type DEF Fitting
  <2>3. 7 * Len(s) > bits => s[Len(s)] < top
    BY <1>1 DEF Fitting
  <2> HIDE DEF top
  <2>4. \A x, y \in Nat : ~(x < y /\ x >= y)
    OBVIOUS
  <2>5. QED BY <2>1, <2>2, <2>3, <2>4 DEF top
<1>7. Uleb(bits, buf, pos) = Ok(v, pos + Len(s))
  BY <1>2, <1>4, <1>5, <1>6 DEF Uleb, UlebOf
<1>8. QED BY <1>7 DEF s

\* A number in groups is one group, or one more than another.
LEMMA Ungroup ==
  ASSUME NEW s, Grouped(s)
  PROVE  \/ \E x \in Nat : x < 128 /\ s = <<x>>
         \/ \E x, t : Continuing(x) /\ Grouped(t) /\ s = More(x, t)
<1>1. s \in Seq(0..255) /\ s # <<>> /\ Len(s) \in Nat \ {0}
  BY BufferType DEF Grouped
<1>2. s[1] \in Nat /\ s[1] < 256 /\ (1 < Len(s) <=> s[1] >= 128)
  <2>1. 1 \in 1..Len(s)
    BY <1>1
  <2>2. s[1] \in Nat /\ s[1] < 256
    BY <1>1, <2>1, BufferType
  <2>3. 1 < Len(s) <=> s[1] >= 128
    BY <2>1 DEF Grouped
  <2>4. QED BY <2>2, <2>3
<1>3. CASE Len(s) = 1
  <2>1. s = <<s[1]>>
    BY <1>1, <1>3, SeqEqual
  <2>2. s[1] \in Nat /\ s[1] < 128
    BY <1>2, <1>3
  <2>3. QED BY <2>1, <2>2
<1>4. CASE Len(s) # 1
  <2> DEFINE t == Tail(s)
             n == Len(s) - 1
  <2>1. /\ t \in Seq(0..255) /\ Len(t) = n /\ n \in Nat \ {0}
        /\ \A i \in 1..n : t[i] = s[i + 1]
    <3> DEFINE Octet == 0..255
    <3>1. s \in Seq(Octet) /\ s # <<>>
      BY <1>1
    <3> HIDE DEF Octet
    <3>2. /\ t \in Seq(Octet) /\ Len(t) = n
          /\ \A i \in 1..Len(t) : t[i] = s[i + 1]
      BY <3>1, HeadTailProperties
    <3>3. QED BY <1>1, <1>4, <3>2 DEF Octet
  <2>2. s = More(s[1], t)
    BY <1>1, <1>4 DEF More
  <2> HIDE DEF t
  <2>3. \A i \in 1..n : i < n <=> t[i] >= 128
    <3> TAKE i \in 1..n
    <3>1. i + 1 \in 1..Len(s) /\ (i < n <=> i + 1 < Len(s))
      BY <1>1
    <3>2. i + 1 < Len(s) <=> s[i + 1] >= 128
      BY <3>1 DEF Grouped
    <3> HIDE DEF n
    <3>3. QED BY <2>1, <3>1, <3>2
  <2> HIDE DEF n
  <2>4. Grouped(t)
    <3>1. t # <<>>
      BY <2>1
    <3>2. QED BY <2>1, <2>3, <3>1 DEF Grouped
  <2>5. Continuing(s[1])
    <3>1. n \in Nat \ {0} /\ n = Len(s) - 1 /\ Len(s) \in Nat
      BY <1>1, <2>1 DEF n
    <3>2. 1 < Len(s)
      BY <3>1
    <3>3. QED BY <1>2, <3>2 DEF Continuing
  <2>6. QED BY <2>2, <2>4, <2>5
<1>5. QED BY <1>3, <1>4

LEMMA GroupInduction ==
  ASSUME NEW A, \A x \in Nat : x < 128 => <<x>> \in A,
         \A x, t : Continuing(x) /\ Grouped(t) /\ t \in A => More(x, t) \in A
  PROVE  \A s : Grouped(s) => s \in A
<1> DEFINE B == {n \in Nat : \A s : Grouped(s) /\ Len(s) < n => s \in A}
<1>1. ASSUME NEW n \in Nat, n \in B
      PROVE  n + 1 \in B
  <2> SUFFICES ASSUME NEW s, Grouped(s), Len(s) < n + 1
               PROVE  s \in A
    OBVIOUS
  <2>1. \A t : Grouped(t) /\ Len(t) < n => t \in A
    BY <1>1
  <2> HIDE DEF B
  <2>2. ASSUME NEW x, NEW t, Continuing(x), Grouped(t), s = More(x, t)
        PROVE  s \in A
    <3>1. Len(s) = Len(t) + 1 /\ Len(t) \in Nat \ {0}
      BY <2>2, OneMoreGroup
    <3>2. Len(t) < n
      BY <3>1
    <3>3. t \in A
      BY <2>1, <2>2, <3>2
    <3>4. QED BY <2>2, <3>3
  <2>3. QED BY <2>2, Ungroup
<1>2. 0 \in B
  <2>1. \A s : Grouped(s) => ~(Len(s) < 0)
    <3> TAKE s
    <3>1. Grouped(s) => Len(s) \in Nat
      BY BufferType DEF Grouped
    <3>2. QED BY <3>1
  <2>2. QED BY <2>1
<1>3. Nat \subseteq B
  <2> HIDE DEF B
  <2>1. QED BY <1>1, <1>2, Induction
<1>4. ASSUME NEW s, Grouped(s)
      PROVE  s \in A
  <2>1. Len(s) \in Nat
    BY <1>4, BufferType DEF Grouped
  <2>2. Len(s) + 1 \in B /\ Len(s) < Len(s) + 1
    <3> HIDE DEF B
    <3>1. QED BY <1>3, <2>1
  <2>3. QED BY <1>4, <2>2
<1>5. QED BY <1>4

\* What groups stand for is a number of the width they fit, and is written in no more.
Canonical(s) ==
  /\ Value[s] \in Nat
  /\ Len(EncodeUleb[Value[s]]) <= Len(s)
  /\ \A bits \in Nat \ {0} : Fitting(s, bits) => Value[s] < Pow2[bits]

LEMMA OneIsCanonical == \A x \in Nat : x < 128 => Canonical(<<x>>)
<1> SUFFICES ASSUME NEW x \in Nat, x < 128
             PROVE  Canonical(<<x>>)
  OBVIOUS
<1>1. Value[<<x>>] = x /\ Len(<<x>>) = 1 /\ <<x>>[1] = x
  BY OneGroup
<1>2. EncodeUleb[x] = <<x>>
  BY EncodeUlebIs, Zenon
<1>3. ASSUME NEW bits \in Nat \ {0}, Fitting(<<x>>, bits)
      PROVE  x < Pow2[bits]
  <2>1. 7 * 1 > bits => x < Pow2[bits]
    <3>1. bits - 7 * (1 - 1) = bits
      OBVIOUS
    <3>2. QED BY <1>1, <1>3, <3>1 DEF Fitting
  <2>2. ~(7 * 1 > bits) => x < Pow2[bits]
    <3>1. ~(7 * 1 > bits) => 128 <= Pow2[bits]
      <4>1. ~(7 * 1 > bits) => 7 \in 0..bits
        OBVIOUS
      <4>2. QED BY <4>1, Pow2Grows, Pow2Group
    <3>2. Pow2[bits] \in Nat
      BY Pow2Type
    <3>3. QED BY <3>1, <3>2
  <2>3. QED BY <2>1, <2>2
<1>4. QED BY <1>1, <1>2, <1>3 DEF Canonical

LEMMA MoreIsCanonical ==
  ASSUME NEW x, NEW t, Continuing(x), Grouped(t), Canonical(t)
  PROVE  Canonical(More(x, t))
<1>0. x % 128 \in Nat /\ x % 128 < 128
  BY DEF Continuing
<1>1. /\ Len(More(x, t)) = Len(t) + 1 /\ Len(t) \in Nat \ {0}
      /\ More(x, t)[Len(More(x, t))] = t[Len(t)]
      /\ Value[More(x, t)] = (x % 128) + 128 * Value[t]
  BY OneMoreGroup
<1> DEFINE s == More(x, t)
           v == Value[t]
           w == (x % 128) + 128 * v
<1>2. Len(s) = Len(t) + 1 /\ Len(t) \in Nat \ {0} /\ s[Len(s)] = t[Len(t)] /\ Value[s] = w
  BY <1>1
<1>3. v \in Nat /\ Len(EncodeUleb[v]) <= Len(t)
  BY DEF Canonical
<1>4. \A bits \in Nat \ {0} : Fitting(t, bits) => v < Pow2[bits]
  BY DEF Canonical
<1> HIDE DEF v, s
<1>5. w \in Nat /\ w \div 128 = v /\ (w % 128) + 128 \in Nat
      /\ (w % 128) + 128 >= 128 /\ (w % 128) + 128 < 256
  <2>1. w \in Nat /\ w \div 128 = v
    BY <1>0, <1>3, GroupOff
  <2> HIDE DEF w
  <2>2. QED BY <2>1
<1> HIDE DEF w
<1>6. Len(EncodeUleb[w]) <= Len(s)
  <2>1. CASE w < 128
    <3>1. EncodeUleb[w] = <<w>>
      <4>1. w \in Nat
        BY <1>5
      <4>2. QED BY <2>1, <4>1, EncodeUlebIs, Zenon
    <3>2. Len(<<w>>) = 1
      OBVIOUS
    <3>3. QED BY <1>2, <3>1, <3>2
  <2>2. CASE ~(w < 128)
    <3> DEFINE y == (w % 128) + 128
    <3>1. EncodeUleb[w] = More(y, EncodeUleb[w \div 128])
      <4>1. w \in Nat
        BY <1>5
      <4>2. QED BY <2>2, <4>1, EncodeUlebIs, Zenon DEF More
    <3>2. Continuing(y)
      BY <1>5 DEF Continuing
    <3> HIDE DEF y
    <3>3. Grouped(EncodeUleb[v])
      BY <1>3, UlebWritten
    <3>4. Len(More(y, EncodeUleb[v])) = Len(EncodeUleb[v]) + 1 /\ Len(EncodeUleb[v]) \in Nat
      <4> DEFINE e == EncodeUleb[v]
      <4>1. Grouped(e)
        BY <3>3
      <4> HIDE DEF e
      <4>2. Len(More(y, e)) = Len(e) + 1 /\ Len(e) \in Nat \ {0}
        BY <3>2, <4>1, OneMoreGroup
      <4>3. QED BY <4>2 DEF e
    <3>5. EncodeUleb[w] = More(y, EncodeUleb[v])
      BY <1>5, <3>1
    <3>6. QED BY <1>2, <1>3, <3>4, <3>5
  <2>3. QED BY <2>1, <2>2
<1>7. ASSUME NEW bits \in Nat \ {0}, Fitting(s, bits)
      PROVE  w < Pow2[bits]
  <2>1. 7 * Len(t) < bits
    BY <1>2, <1>7 DEF Fitting
  <2>2. bits - 7 \in Nat \ {0}
    BY <1>2, <2>1
  <2>3. /\ 7 * (Len(t) - 1) < bits - 7
        /\ 7 * Len(s) > bits <=> 7 * Len(t) > bits - 7
        /\ bits - 7 * (Len(s) - 1) = (bits - 7) - 7 * (Len(t) - 1)
    BY <1>2, <2>1, <2>2
  <2>4. Fitting(t, bits - 7)
    BY <1>2, <1>7, <2>3 DEF Fitting
  <2>5. v < Pow2[bits - 7]
    BY <1>4, <2>2, <2>4
  <2>6. Pow2[bits - 7] \in Nat /\ Pow2[bits] = 128 * Pow2[bits - 7]
    <3>1. (bits - 7) + 7 = bits
      OBVIOUS
    <3>2. QED BY <2>2, <3>1, Pow2Group, Pow2Type
  <2>7. QED BY <1>0, <1>3, <2>5, <2>6 DEF w
<1>8. QED BY <1>2, <1>5, <1>6, <1>7 DEF Canonical, s

LEMMA GroupsAreCanonical == \A s : Grouped(s) => Canonical(s)
<1> DEFINE A == {s \in Seq(0..255) : Canonical(s)}
<1>1. \A x \in Nat : x < 128 => <<x>> \in A
  <2> TAKE x \in Nat
  <2>1. x < 128 => Grouped(<<x>>)
    BY OneGroup
  <2>2. QED BY <2>1, OneIsCanonical DEF Grouped
<1>2. \A x, t : Continuing(x) /\ Grouped(t) /\ t \in A => More(x, t) \in A
  <2> TAKE x, t
  <2> SUFFICES ASSUME Continuing(x), Grouped(t), Canonical(t)
               PROVE  More(x, t) \in A
    OBVIOUS
  <2>1. Grouped(More(x, t))
    BY OneMoreGroup
  <2>2. Canonical(More(x, t))
    BY MoreIsCanonical
  <2>3. QED BY <2>1, <2>2 DEF Grouped
<1>3. \A s : Grouped(s) => s \in A
  <2> HIDE DEF A
  <2>1. QED BY <1>1, <1>2, GroupInduction
<1>4. QED BY <1>3

LEMMA LeastIs ==
  ASSUME NEW E, E \subseteq Nat, E # {}
  PROVE  Min(E) \in E /\ \A e \in E : Min(E) <= e
<1>1. PICK n \in E : \A m \in E : <<m, n>> \notin OpToRel(<, Nat)
  BY NatLessThanWellFounded, WFMin
<1>2. ASSUME NEW m \in E
      PROVE  n <= m
  <2>1. ~(m < n)
    <3>1. m < n => <<m, n>> \in OpToRel(<, Nat)
      BY DEF OpToRel
    <3>2. QED BY <1>1, <3>1
  <2>2. QED BY <2>1
<1>3. QED BY <1>1, <1>2 DEF Min

\* What Span finds is a number in groups.
LEMMA SpanGrouped ==
  ASSUME NEW buf \in Seq(0..255), NEW pos \in Nat, pos <= Len(buf), NEW groups \in Nat,
         Span(groups, buf, pos) # 0
  PROVE  LET k == Span(groups, buf, pos)
             s == SubSeq(buf, pos + 1, pos + k)
         IN /\ k \in Nat \ {0} /\ k <= groups /\ pos + k <= Len(buf)
            /\ Grouped(s) /\ Len(s) = k /\ s[k] = buf[pos + k]
<1> DEFINE ends == {k \in 1..groups : k <= Remaining(buf, pos) /\ buf[pos + k] < 128}
           k == Span(groups, buf, pos)
<1>1. k = IF ends = {} THEN 0 ELSE Min(ends)
  BY DEF Span
<1>2. k \in ends /\ \A e \in ends : k <= e
  <2>1. ends \subseteq Nat
    OBVIOUS
  <2> HIDE DEF ends, k
  <2>2. ends # {} /\ k = Min(ends)
    BY <1>1 DEF k
  <2>3. QED BY <2>1, <2>2, LeastIs
<1> HIDE DEF k
<1>3. Len(buf) \in Nat /\ \A i \in 1..Len(buf) : buf[i] \in 0..255 /\ buf[i] \in Nat
  BY BufferType
<1>4. /\ k \in Nat \ {0} /\ k <= groups /\ pos + k <= Len(buf)
      /\ buf[pos + k] < 128
  <2>1. k \in 1..groups /\ k <= Len(buf) - pos /\ buf[pos + k] < 128
    BY <1>2 DEF Remaining
  <2> HIDE DEF ends
  <2>2. QED BY <1>3, <2>1
<1>5. ASSUME NEW i \in 1..k
      PROVE  i < k <=> buf[pos + i] >= 128
  <2>1. i \in 1..groups /\ i <= Remaining(buf, pos) /\ pos + i \in 1..Len(buf)
    BY <1>3, <1>4 DEF Remaining
  <2>2. buf[pos + i] \in Nat
    BY <1>3, <2>1
  <2>3. i < k => ~(buf[pos + i] < 128)
    <3>1. i < k => i \notin ends
      <4>1. k \in Nat /\ i \in Nat
        BY <1>4
      <4> HIDE DEF ends
      <4>2. QED BY <1>2, <4>1
    <3>2. QED BY <2>1, <3>1
  <2>4. i < k \/ i = k
    BY <1>4
  <2> HIDE DEF ends
  <2>5. QED BY <1>4, <2>2, <2>3, <2>4
<1> HIDE DEF ends
<1> DEFINE m == pos + 1
           n == pos + k
           Octet == 0..255
           s == SubSeq(buf, m, n)
<1>6. /\ s \in Seq(Octet) /\ Len(s) = k
      /\ \A i \in 1..k : s[i] = buf[pos + i]
  <2>1. m \in Int /\ n \in Int /\ (\A i \in m..n : buf[i] \in Octet)
        /\ n - m + 1 = k /\ m <= n
        /\ \A i \in 1..k : m + i - 1 = pos + i
    <3>1. \A i \in m..n : i \in 1..Len(buf)
      BY <1>3, <1>4
    <3>2. \A i \in m..n : buf[i] \in Octet
      <4> HIDE DEF m, n
      <4>1. QED BY <1>3, <3>1
    <3> HIDE DEF Octet
    <3>3. QED BY <1>4, <3>2
  <2> HIDE DEF m, n, Octet, s
  <2>2. /\ SubSeq(buf, m, n) \in Seq(Octet) /\ Len(SubSeq(buf, m, n)) = k
        /\ \A i \in 1..k : SubSeq(buf, m, n)[i] = buf[m + i - 1]
    BY <2>1, <1>4, SubSeqProperties
  <2>3. QED BY <2>1, <2>2 DEF s
<1> HIDE DEF s, m, n
<1>7. k \in 1..k
  BY <1>4
<1>8. s # <<>> /\ s[k] = buf[pos + k]
  BY <1>4, <1>6, <1>7
<1>9. Grouped(s)
  <2>1. \A i \in 1..Len(s) : i < Len(s) <=> s[i] >= 128
    BY <1>5, <1>6
  <2>2. QED BY <1>6, <1>8, <2>1 DEF Grouped, Octet
<1>10. QED BY <1>4, <1>6, <1>8, <1>9 DEF s, m, n, k

\* What Uleb takes is a number of the width, and no shorter form of it than what it
\* read is the one a host writes: the number it gives would be written in no more
\* bytes, and it stops inside the buffer.
THEOREM UlebInWidth ==
  ASSUME NEW bits \in Nat \ {0}, NEW buf \in Seq(0..255), NEW pos \in Nat, pos <= Len(buf),
         Uleb(bits, buf, pos).ok
  PROVE  LET read == Uleb(bits, buf, pos)
         IN /\ read.val \in Nat /\ read.val < Pow2[bits]
            /\ read.pos \in Nat /\ read.pos <= Len(buf)
            /\ pos + Len(EncodeUleb[read.val]) <= read.pos
<1> DEFINE k == Span(Groups(bits), buf, pos)
           s == SubSeq(buf, pos + 1, pos + k)
           top == Pow2[bits - 7 * (k - 1)]
<1>1. Groups(bits) \in Nat /\ \A i \in Nat : i <= Groups(bits) => 7 * (i - 1) < bits
  BY DEF Groups
<1>2. /\ k # 0 /\ ~(7 * k > bits /\ buf[pos + k] >= top)
      /\ Uleb(bits, buf, pos) = Ok(Value[s], pos + k)
  BY DEF Uleb, UlebOf, Fail, Ok, Payload
<1>3. /\ k \in Nat \ {0} /\ k <= Groups(bits) /\ pos + k <= Len(buf)
      /\ Grouped(s) /\ Len(s) = k /\ s[k] = buf[pos + k]
  <2>1. Span(Groups(bits), buf, pos) # 0
    BY <1>2
  <2>2. QED BY <1>1, <2>1, SpanGrouped
<1> HIDE DEF k, s
<1>4. Fitting(s, bits)
  <2>1. 7 * (k - 1) < bits
    BY <1>1, <1>3
  <2>2. bits - 7 * (k - 1) \in Nat /\ top \in Nat
    BY <1>3, <2>1, Pow2Type
  <2>3. s[k] \in Nat
    <3>1. k \in 1..k /\ s \in Seq(0..255)
      BY <1>3 DEF Grouped
    <3>2. QED BY <1>3, <3>1, BufferType
  <2>4. 7 * k > bits => s[k] < top
    <3> HIDE DEF top
    <3>1. \A x, y \in Nat : ~(x >= y) => x < y
      OBVIOUS
    <3>2. QED BY <1>2, <1>3, <2>2, <2>3, <3>1
  <2>5. QED BY <1>3, <2>1, <2>4 DEF Fitting, top
<1>5. Value[s] \in Nat /\ Len(EncodeUleb[Value[s]]) <= k /\ Value[s] < Pow2[bits]
  BY <1>3, <1>4, GroupsAreCanonical DEF Canonical
<1>6. Len(EncodeUleb[Value[s]]) \in Nat
  BY <1>5, UlebWritten, BufferType DEF Grouped
<1>7. Uleb(bits, buf, pos).val = Value[s] /\ Uleb(bits, buf, pos).pos = pos + k
  BY <1>2 DEF Ok
<1>8. QED BY <1>3, <1>5, <1>6, <1>7
-----------------------------------------------------------------------------
(* Signed numbers. *)

\* What groups stand for when the last one holds the sign.
SignedValue(s) == Value[s] - (IF s[Len(s)] >= 64 THEN Pow2[7 * Len(s)] ELSE 0)

LEMMA OneSigned ==
  ASSUME NEW x \in Nat, x < 128
  PROVE  SignedValue(<<x>>) = IF x >= 64 THEN x - 128 ELSE x
<1>1. Value[<<x>>] = x /\ Len(<<x>>) = 1 /\ <<x>>[1] = x
  BY OneGroup
<1>2. Pow2[7 * 1] = 128
  <2>1. 7 * 1 = 7
    OBVIOUS
  <2>2. QED BY <2>1, Pow2Group
<1>3. QED BY <1>1, <1>2 DEF SignedValue

LEMMA MoreSigned ==
  ASSUME NEW x, NEW t, Continuing(x), Grouped(t)
  PROVE  /\ SignedValue(More(x, t)) = (x % 128) + 128 * SignedValue(t)
         /\ SignedValue(t) \in Int
<1>1. /\ Len(More(x, t)) = Len(t) + 1 /\ Len(t) \in Nat \ {0}
      /\ More(x, t)[Len(More(x, t))] = t[Len(t)]
      /\ Value[More(x, t)] = (x % 128) + 128 * Value[t]
  BY OneMoreGroup
<1>2. Value[t] \in Nat
  BY GroupsAreCanonical DEF Canonical
<1>3. Pow2[7 * Len(t)] \in Nat /\ Pow2[7 * (Len(t) + 1)] = 128 * Pow2[7 * Len(t)]
  <2>1. 7 * Len(t) \in Nat /\ 7 * (Len(t) + 1) = 7 * Len(t) + 7
    BY <1>1
  <2> DEFINE n == 7 * Len(t)
  <2>2. n \in Nat /\ 7 * (Len(t) + 1) = n + 7
    BY <2>1
  <2> HIDE DEF n
  <2>3. Pow2[n] \in Nat /\ Pow2[n + 7] = 128 * Pow2[n]
    BY <2>2, Pow2Group, Pow2Type
  <2>4. QED BY <2>2, <2>3 DEF n
<1>4. x % 128 \in Nat
  BY DEF Continuing
<1> DEFINE p == Pow2[7 * Len(t)]
           w == Value[t]
           q == Pow2[7 * (Len(t) + 1)]
           y == x % 128
<1>5. /\ SignedValue(More(x, t)) = (y + 128 * w) - (IF t[Len(t)] >= 64 THEN q ELSE 0)
      /\ SignedValue(t) = w - (IF t[Len(t)] >= 64 THEN p ELSE 0)
      /\ p \in Nat /\ q = 128 * p /\ w \in Nat /\ y \in Nat
  BY <1>1, <1>2, <1>3, <1>4 DEF SignedValue
<1> HIDE DEF p, q, w, y
<1>6. CASE t[Len(t)] >= 64
  <2>1. SignedValue(More(x, t)) = (y + 128 * w) - q /\ SignedValue(t) = w - p
    BY <1>5, <1>6
  <2>2. QED BY <1>5, <2>1 DEF y
<1>7. CASE ~(t[Len(t)] >= 64)
  <2>1. SignedValue(More(x, t)) = (y + 128 * w) - 0 /\ SignedValue(t) = w - 0
    BY <1>5, <1>7
  <2>2. QED BY <1>5, <2>1 DEF y
<1>8. QED BY <1>6, <1>7

\* A number of several groups: the first byte, and the number the rest is written for.
SlebStep(v, x, rest) ==
  /\ Continuing(x) /\ rest \in Int /\ x % 128 \in Nat
  /\ v = (x % 128) + 128 * rest
  /\ EncodeSleb[v] = More(x, EncodeSleb[rest])

LEMMA SlebSteps ==
  ASSUME NEW v \in Int, v \notin -64..63
  PROVE  /\ SlebStep(v, (v % 128) + 128, v \div 128)
         /\ v \div 128 \in Int
         /\ \A n \in Nat : -(n + 1) <= v /\ v < n + 1 => -n <= v \div 128 /\ v \div 128 < n
<1> DEFINE y == (v % 128) + 128
           rest == v \div 128
<1>1. /\ y \in Nat /\ y >= 128 /\ y < 256 /\ y % 128 \in Nat /\ rest \in Int
      /\ v = (y % 128) + 128 * rest
      /\ (v >= 0 => 0 <= rest /\ rest < v) /\ (v < 0 => v < rest /\ rest < 0)
  <2>1. v < -64 \/ 63 < v
    OBVIOUS
  <2>2. QED BY <2>1
<1>2. EncodeSleb[v] = More(y, EncodeSleb[rest])
  BY EncodeSlebIs, Zenon DEF More
<1>3. SlebStep(v, y, rest)
  BY <1>1, <1>2 DEF SlebStep, Continuing
<1>4. \A n \in Nat : -(n + 1) <= v /\ v < n + 1 => -n <= rest /\ rest < n
  <2> HIDE DEF y, rest
  <2>1. QED BY <1>1
<1>5. QED BY <1>1, <1>3, <1>4

LEMMA SlebInduction ==
  ASSUME NEW A, \A v \in Int : v \in -64..63 => v \in A,
         \A v \in Int : \A x, rest : SlebStep(v, x, rest) /\ rest \in A => v \in A
  PROVE  Int \subseteq A
<1> DEFINE B == {n \in Nat : \A v \in Int : -n <= v /\ v < n => v \in A}
<1>1. ASSUME NEW n \in Nat, n \in B
      PROVE  n + 1 \in B
  <2> SUFFICES ASSUME NEW v \in Int, -(n + 1) <= v, v < n + 1
               PROVE  v \in A
    OBVIOUS
  <2>1. \A u \in Int : -n <= u /\ u < n => u \in A
    BY <1>1
  <2> HIDE DEF B
  <2>2. CASE v \in -64..63
    BY <2>2
  <2>3. CASE v \notin -64..63
    <3> DEFINE y == (v % 128) + 128
               rest == v \div 128
    <3>1. SlebStep(v, y, rest) /\ rest \in Int /\ -n <= rest /\ rest < n
      BY <2>3, SlebSteps
    <3> HIDE DEF y, rest
    <3>2. rest \in A
      BY <2>1, <3>1
    <3>3. QED BY <3>1, <3>2
  <2>4. QED BY <2>2, <2>3
<1>2. 0 \in B
  OBVIOUS
<1>3. Nat \subseteq B
  <2> HIDE DEF B
  <2>1. QED BY <1>1, <1>2, Induction
<1>4. ASSUME NEW v \in Int
      PROVE  v \in A
  <2> DEFINE n == IF v < 0 THEN -v ELSE v + 1
  <2>1. n \in Nat /\ -n <= v /\ v < n
    OBVIOUS
  <2>2. n \in B
    <3> HIDE DEF B, n
    <3>1. QED BY <1>3, <2>1
  <2> HIDE DEF n
  <2>3. QED BY <2>1, <2>2
<1>5. QED BY <1>4

\* What EncodeSleb writes stands for the number.
LEMMA SlebWritten == \A v \in Int : Grouped(EncodeSleb[v]) /\ SignedValue(EncodeSleb[v]) = v
<1> DEFINE A == {v \in Int : Grouped(EncodeSleb[v]) /\ SignedValue(EncodeSleb[v]) = v}
<1>1. ASSUME NEW v \in Int, v \in -64..63
      PROVE  v \in A
  <2>1. EncodeSleb[v] = <<v % 128>>
    BY <1>1, EncodeSlebIs, Zenon
  <2> DEFINE x == v % 128
  <2>2. x \in Nat /\ x < 128 /\ v = IF x >= 64 THEN x - 128 ELSE x
    BY <1>1
  <2>3. EncodeSleb[v] = <<x>>
    BY <2>1
  <2> HIDE DEF x
  <2>4. Grouped(<<x>>) /\ SignedValue(<<x>>) = v
    BY <2>2, OneGroup, OneSigned
  <2>5. QED BY <2>3, <2>4
<1>2. ASSUME NEW v \in Int, NEW x, NEW rest, SlebStep(v, x, rest), rest \in A
      PROVE  v \in A
  <2> DEFINE t == EncodeSleb[rest]
  <2>1. /\ Continuing(x) /\ v = (x % 128) + 128 * rest /\ EncodeSleb[v] = More(x, t)
        /\ Grouped(t) /\ SignedValue(t) = rest
    BY <1>2 DEF SlebStep
  <2> HIDE DEF t, A
  <2>2. Grouped(More(x, t)) /\ SignedValue(More(x, t)) = (x % 128) + 128 * SignedValue(t)
    BY <2>1, OneMoreGroup, MoreSigned
  <2>3. QED BY <2>1, <2>2 DEF A
<1>3. Int \subseteq A
  <2> HIDE DEF A
  <2>1. QED BY <1>1, <1>2, SlebInduction
<1>4. QED BY <1>3

\* The numbers of so many bits.
InRange(v, bits) == -Pow2[bits - 1] <= v /\ v < Pow2[bits - 1]

\* A number of so many bits has no more groups; if only its sign is in the last one,
\* the last byte is all sign.
SignFits(s, bits) ==
  /\ 7 * (Len(s) - 1) < bits
  /\ 7 * (Len(s) - 1) = bits - 1 => s[Len(s)] \in {0, 127}

LEMMA SlebFits ==
  \A v \in Int : \A bits \in Nat \ {0} : InRange(v, bits) => SignFits(EncodeSleb[v], bits)
<1> DEFINE A == {v \in Int : \A bits \in Nat \ {0} : InRange(v, bits) => SignFits(EncodeSleb[v], bits)}
<1>1. ASSUME NEW v \in Int, v \in -64..63
      PROVE  v \in A
  <2> SUFFICES ASSUME NEW bits \in Nat \ {0}, InRange(v, bits)
               PROVE  SignFits(EncodeSleb[v], bits)
    OBVIOUS
  <2> HIDE DEF A
  <2> DEFINE x == v % 128
  <2>1. EncodeSleb[v] = <<x>>
    BY <1>1, EncodeSlebIs, Zenon
  <2>2. bits = 1 => x \in {0, 127}
    <3>1. bits = 1 => -1 <= v /\ v < 1
      <4>1. bits = 1 => bits - 1 = 0
        OBVIOUS
      <4>2. QED BY <4>1, Pow2Is DEF InRange
    <3>2. QED BY <3>1
  <2> HIDE DEF x
  <2>3. Len(<<x>>) = 1 /\ <<x>>[1] = x /\ 7 * (1 - 1) = 0
    OBVIOUS
  <2>4. QED BY <2>1, <2>2, <2>3 DEF SignFits
<1>2. ASSUME NEW v \in Int, NEW x, NEW rest, SlebStep(v, x, rest), v \notin -64..63, rest \in A
      PROVE  v \in A
  <2> SUFFICES ASSUME NEW bits \in Nat \ {0}, InRange(v, bits)
               PROVE  SignFits(EncodeSleb[v], bits)
    OBVIOUS
  <2> DEFINE t == EncodeSleb[rest]
             s == EncodeSleb[v]
  <2>1. \A b \in Nat \ {0} : InRange(rest, b) => SignFits(t, b)
    BY <1>2
  <2> HIDE DEF A
  <2>2. /\ Continuing(x) /\ rest \in Int /\ x % 128 \in Nat /\ x % 128 < 128
        /\ v = (x % 128) + 128 * rest /\ s = More(x, t) /\ Grouped(t)
    BY <1>2, SlebWritten DEF SlebStep, Continuing
  <2> HIDE DEF s, t
  <2>3. bits - 7 \in Nat \ {0}
    <3>1. bits - 1 \in 0..6 => Pow2[bits - 1] <= 64
      <4>1. Pow2[6 + 1] = 2 * Pow2[6] /\ Pow2[6] \in Nat
        BY Pow2Is, Pow2Type
      <4>2. 6 + 1 = 7
        OBVIOUS
      <4>3. Pow2[6] = 64
        BY <4>1, <4>2, Pow2Group
      <4>4. QED BY <4>3, Pow2Grows
    <3>2. Pow2[bits - 1] \in Nat
      BY Pow2Type
    <3>3. v < -64 \/ 63 < v
      BY <1>2
    <3>4. QED BY <3>1, <3>2, <3>3 DEF InRange
  <2>4. InRange(rest, bits - 7)
    <3> DEFINE b == (bits - 7) - 1
    <3>1. b \in Nat /\ bits - 1 = b + 7
      BY <2>3
    <3>2. Pow2[bits - 1] = 128 * Pow2[b] /\ Pow2[b] \in Nat
      BY <3>1, Pow2Group, Pow2Type
    <3> DEFINE p == Pow2[b]
               y == x % 128
    <3>3. p \in Nat /\ -(128 * p) <= v /\ v < 128 * p /\ v = y + 128 * rest /\ y \in Nat /\ y < 128
      BY <2>2, <3>2 DEF InRange
    <3> HIDE DEF p, y
    <3>4. -p <= rest /\ rest < p
      BY <2>2, <3>3
    <3>5. QED BY <3>4 DEF InRange, p
  <2>5. SignFits(t, bits - 7)
    BY <2>1, <2>3, <2>4
  <2>6. Len(s) = Len(t) + 1 /\ Len(t) \in Nat \ {0} /\ s[Len(s)] = t[Len(t)]
    <3>1. Continuing(x) /\ Grouped(t) /\ s = More(x, t)
      BY <2>2
    <3>2. QED BY <3>1, OneMoreGroup
  <2>7. /\ 7 * (Len(s) - 1) < bits <=> 7 * (Len(t) - 1) < bits - 7
        /\ 7 * (Len(s) - 1) = bits - 1 <=> 7 * (Len(t) - 1) = (bits - 7) - 1
    BY <2>3, <2>6
  <2>8. SignFits(s, bits)
    BY <2>5, <2>6, <2>7 DEF SignFits
  <2>9. QED BY <2>8 DEF s
<1>3. ASSUME NEW v \in Int, NEW x, NEW rest, SlebStep(v, x, rest), rest \in A
      PROVE  v \in A
  <2> HIDE DEF A
  <2>1. QED BY <1>1, <1>2, <1>3
<1>4. Int \subseteq A
  <2> HIDE DEF A
  <2>1. QED BY <1>1, <1>3, SlebInduction
<1>5. QED BY <1>4

\* A signed number of a width is read back as well: Sleb gives the number and stops
\* behind it.
THEOREM SlebReadsBack ==
  ASSUME NEW bits \in Nat \ {0}, bits <= Word, NEW v \in Int, InRange(v, bits),
         NEW buf, NEW pos, Holds(buf, pos, EncodeSleb[v])
  PROVE  Sleb(bits, buf, pos) = Ok(v, pos + Len(EncodeSleb[v]))
<1> DEFINE s == EncodeSleb[v]
<1>0. Word \in Nat \ {0}
  BY WidthAssumption
<1>1. InRange(v, Word)
  <2>1. Pow2[bits - 1] \in Nat /\ Pow2[Word - 1] \in Nat /\ Pow2[bits - 1] <= Pow2[Word - 1]
    <3>1. bits - 1 \in Nat /\ Word - 1 \in Nat /\ bits - 1 \in 0..Word - 1
      BY <1>0
    <3>2. QED BY <3>1, Pow2Grows, Pow2Type
  <2>2. QED BY <2>1 DEF InRange
<1>2. /\ Grouped(s) /\ SignedValue(s) = v /\ Holds(buf, pos, s)
      /\ SignFits(s, bits) /\ SignFits(s, Word)
  BY <1>0, <1>1, SlebWritten, SlebFits
<1> HIDE DEF s
<1>3. s \in Seq(0..255) /\ Len(s) \in Nat \ {0}
  BY <1>2, BufferType DEF Grouped
<1>4. Groups(bits) \in Nat /\ Len(s) <= Groups(bits)
  <2>1. 7 * (Len(s) - 1) < bits
    BY <1>2 DEF SignFits
  <2>2. QED BY <1>3, <2>1 DEF Groups
<1>5. Span(Groups(bits), buf, pos) = Len(s)
  BY <1>2, <1>4, SpanIs
<1>6. Payload(Len(s), buf, pos) = Value[s] /\ buf[pos + Len(s)] = s[Len(s)]
  <2>1. Len(s) \in 1..Len(s)
    BY <1>3
  <2>2. buf[pos + Len(s)] = s[Len(s)]
    BY <1>2, <2>1 DEF Holds
  <2>3. Payload(Len(s), buf, pos) = Value[s]
    BY <1>2, <1>3, PayloadIs
  <2>4. QED BY <2>2, <2>3
<1>7. Pow2[bits - 1] \in Nat /\ v \in -Pow2[bits - 1] .. Pow2[bits - 1] - 1
  <2>1. Pow2[bits - 1] \in Nat
    BY Pow2Type
  <2>2. QED BY <2>1 DEF InRange
<1>8. Sleb(bits, buf, pos) = Ok(v, pos + Len(s))
  BY <1>2, <1>3, <1>5, <1>6, <1>7 DEF Sleb, SlebOf, SignedValue, SignFits
<1>9. QED BY <1>8 DEF s

LEMMA WiderRange ==
  ASSUME NEW v \in Int, NEW bits \in Nat \ {0}, NEW more \in Nat, bits <= more, InRange(v, bits)
  PROVE  InRange(v, more)
<1>1. bits - 1 \in 0..more - 1 /\ bits - 1 \in Nat /\ more - 1 \in Nat
  OBVIOUS
<1>2. Pow2[bits - 1] \in Nat /\ Pow2[more - 1] \in Nat /\ Pow2[bits - 1] <= Pow2[more - 1]
  BY <1>1, Pow2Grows, Pow2Type
<1>3. QED BY <1>2 DEF InRange

LEMMA MoreRange ==
  ASSUME NEW v \in Int, NEW y \in Nat, y < 128, NEW bits \in Nat \ {0}, InRange(v, bits)
  PROVE  InRange(y + 128 * v, bits + 7)
<1> DEFINE b == bits - 1
           p == Pow2[b]
           q == Pow2[b + 7]
<1>1. b \in Nat /\ (bits + 7) - 1 = b + 7
  OBVIOUS
<1>2. q = 128 * p /\ p \in Nat
  BY <1>1, Pow2Group, Pow2Type
<1>3. -p <= v /\ v < p
  BY DEF InRange
<1> HIDE DEF b, p, q
<1>4. -q <= y + 128 * v /\ y + 128 * v < q
  BY <1>2, <1>3
<1>5. QED BY <1>1, <1>4 DEF InRange, q

\* What signed groups stand for is a number of as many bits as they have, of one bit
\* of the last group if that is all sign, and is written in no more groups.
SignCanonical(s) ==
  /\ SignedValue(s) \in Int
  /\ InRange(SignedValue(s), 7 * Len(s))
  /\ s[Len(s)] \in {0, 127} => InRange(SignedValue(s), 7 * (Len(s) - 1) + 1)
  /\ Len(EncodeSleb[SignedValue(s)]) <= Len(s)

LEMMA OneIsSignCanonical == \A x \in Nat : x < 128 => SignCanonical(<<x>>)
<1> SUFFICES ASSUME NEW x \in Nat, x < 128
             PROVE  SignCanonical(<<x>>)
  OBVIOUS
<1> DEFINE v == IF x >= 64 THEN x - 128 ELSE x
<1>1. SignedValue(<<x>>) = v /\ Len(<<x>>) = 1 /\ <<x>>[1] = x
  BY OneSigned
<1>2. v \in Int /\ v \in -64..63 /\ (x \in {0, 127} => v \in {-1, 0})
  OBVIOUS
<1> HIDE DEF v
<1>3. Len(EncodeSleb[v]) = 1
  <2>1. EncodeSleb[v] = <<v % 128>>
    BY <1>2, EncodeSlebIs, Zenon
  <2>2. Len(<<v % 128>>) = 1
    OBVIOUS
  <2>3. QED BY <2>1, <2>2
<1>4. InRange(v, 7 * 1) /\ (x \in {0, 127} => InRange(v, 7 * (1 - 1) + 1))
  <2>1. Pow2[6 + 1] = 2 * Pow2[6] /\ Pow2[6] \in Nat /\ Pow2[0] = 1
    BY Pow2Is, Pow2Type
  <2>2. 6 + 1 = 7 /\ 7 * 1 - 1 = 6 /\ (7 * (1 - 1) + 1) - 1 = 0
    OBVIOUS
  <2>3. Pow2[6] = 64
    BY <2>1, <2>2, Pow2Group
  <2>4. QED BY <1>2, <2>1, <2>2, <2>3 DEF InRange
<1> DEFINE s == <<x>>
<1>5. SignedValue(s) = v /\ Len(s) = 1 /\ s[Len(s)] = x
  BY <1>1
<1> HIDE DEF s
<1>6. SignCanonical(s)
  <2>1. InRange(v, 7 * Len(s)) /\ (x \in {0, 127} => InRange(v, 7 * (Len(s) - 1) + 1))
    BY <1>4, <1>5, Zenon
  <2>2. v \in Int /\ Len(EncodeSleb[v]) <= Len(s)
    BY <1>2, <1>3, <1>5
  <2>3. QED BY <1>5, <2>1, <2>2 DEF SignCanonical
<1>7. QED BY <1>6 DEF s

LEMMA MoreIsSignCanonical ==
  ASSUME NEW x, NEW t, Continuing(x), Grouped(t), SignCanonical(t)
  PROVE  SignCanonical(More(x, t))
<1>0. x % 128 \in Nat /\ x % 128 < 128
  BY DEF Continuing
<1>1. /\ Len(More(x, t)) = Len(t) + 1 /\ Len(t) \in Nat \ {0}
      /\ More(x, t)[Len(More(x, t))] = t[Len(t)]
      /\ SignedValue(More(x, t)) = (x % 128) + 128 * SignedValue(t)
  BY OneMoreGroup, MoreSigned
<1> DEFINE s == More(x, t)
           v == SignedValue(t)
           y == x % 128
           w == y + 128 * v
<1>2. Len(s) = Len(t) + 1 /\ s[Len(s)] = t[Len(t)] /\ SignedValue(s) = w
  BY <1>1
<1>3. /\ v \in Int /\ InRange(v, 7 * Len(t)) /\ Len(EncodeSleb[v]) <= Len(t)
      /\ (t[Len(t)] \in {0, 127} => InRange(v, 7 * (Len(t) - 1) + 1))
  BY DEF SignCanonical
<1>4. y \in Nat /\ y < 128
  BY <1>0
<1> HIDE DEF v, s, y
<1>5. w \in Int /\ w \div 128 = v /\ (w % 128) + 128 \in Nat
      /\ (w % 128) + 128 >= 128 /\ (w % 128) + 128 < 256
  <2>1. w \in Int /\ w \div 128 = v
    BY <1>3, <1>4, GroupOff
  <2> HIDE DEF w
  <2>2. QED BY <2>1
<1>6. InRange(w, 7 * Len(s))
  <2>1. 7 * Len(t) \in Nat \ {0} /\ 7 * Len(s) = 7 * Len(t) + 7
    BY <1>1, <1>2
  <2>2. QED BY <1>3, <1>4, <2>1, MoreRange
<1>7. s[Len(s)] \in {0, 127} => InRange(w, 7 * (Len(s) - 1) + 1)
  <2>1. /\ 7 * (Len(t) - 1) + 1 \in Nat \ {0}
        /\ 7 * (Len(s) - 1) + 1 = (7 * (Len(t) - 1) + 1) + 7
    BY <1>1, <1>2
  <2>2. t[Len(t)] \in {0, 127} => InRange(w, (7 * (Len(t) - 1) + 1) + 7)
    BY <1>3, <1>4, <2>1, MoreRange
  <2>3. QED BY <1>2, <2>1, <2>2
<1> HIDE DEF w
<1>8. Len(EncodeSleb[w]) <= Len(s)
  <2>1. CASE w \in -64..63
    <3>1. EncodeSleb[w] = <<w % 128>>
      <4>1. w \in Int
        BY <1>5
      <4>2. QED BY <2>1, <4>1, EncodeSlebIs, Zenon
    <3>2. Len(<<w % 128>>) = 1
      OBVIOUS
    <3>3. QED BY <1>1, <1>2, <3>1, <3>2
  <2>2. CASE w \notin -64..63
    <3> DEFINE z == (w % 128) + 128
               e == EncodeSleb[v]
    <3>1. EncodeSleb[w] = More(z, EncodeSleb[w \div 128])
      <4>1. w \in Int
        BY <1>5
      <4>2. QED BY <2>2, <4>1, EncodeSlebIs, Zenon DEF More
    <3>2. Continuing(z)
      BY <1>5 DEF Continuing
    <3>3. EncodeSleb[w] = More(z, e)
      BY <1>5, <3>1
    <3>4. Grouped(e) /\ Len(e) <= Len(t)
      BY <1>3, SlebWritten
    <3> HIDE DEF z, e
    <3>5. Len(More(z, e)) = Len(e) + 1 /\ Len(e) \in Nat \ {0}
      BY <3>2, <3>4, OneMoreGroup
    <3>6. QED BY <1>1, <1>2, <3>3, <3>4, <3>5
  <2>3. QED BY <2>1, <2>2
<1>9. QED BY <1>2, <1>5, <1>6, <1>7, <1>8 DEF SignCanonical, s

LEMMA GroupsAreSignCanonical == \A s : Grouped(s) => SignCanonical(s)
<1> DEFINE A == {s \in Seq(0..255) : SignCanonical(s)}
<1>1. \A x \in Nat : x < 128 => <<x>> \in A
  <2> TAKE x \in Nat
  <2>1. x < 128 => Grouped(<<x>>)
    BY OneGroup
  <2>2. QED BY <2>1, OneIsSignCanonical DEF Grouped
<1>2. \A x, t : Continuing(x) /\ Grouped(t) /\ t \in A => More(x, t) \in A
  <2> TAKE x, t
  <2> SUFFICES ASSUME Continuing(x), Grouped(t), SignCanonical(t)
               PROVE  More(x, t) \in A
    OBVIOUS
  <2>1. Grouped(More(x, t))
    BY OneMoreGroup
  <2>2. SignCanonical(More(x, t))
    BY MoreIsSignCanonical
  <2>3. QED BY <2>1, <2>2 DEF Grouped
<1>3. \A s : Grouped(s) => s \in A
  <2> HIDE DEF A
  <2>1. QED BY <1>1, <1>2, GroupInduction
<1>4. QED BY <1>3

\* What Sleb takes is a number of the width as well, the widest included, whose range
\* nothing checks but its last byte; it would be written in no more bytes.
THEOREM SlebInWidth ==
  ASSUME NEW bits \in Nat \ {0}, bits <= Word,
         NEW buf \in Seq(0..255), NEW pos \in Nat, pos <= Len(buf),
         Sleb(bits, buf, pos).ok
  PROVE  LET read == Sleb(bits, buf, pos)
         IN /\ read.val \in Int /\ InRange(read.val, bits)
            /\ read.pos \in Nat /\ read.pos <= Len(buf)
            /\ pos + Len(EncodeSleb[read.val]) <= read.pos
<1> DEFINE k == Span(Groups(bits), buf, pos)
           s == SubSeq(buf, pos + 1, pos + k)
           v == Value[s] - (IF buf[pos + k] >= 64 THEN Pow2[7 * k] ELSE 0)
<1>1. Groups(bits) \in Nat
  BY DEF Groups
<1>2. /\ k # 0 /\ ~(7 * (k - 1) = Word - 1 /\ buf[pos + k] \notin {0, 127})
      /\ ~(bits < Word /\ v \notin -Pow2[bits - 1] .. Pow2[bits - 1] - 1)
      /\ Sleb(bits, buf, pos) = Ok(v, pos + k)
  BY DEF Sleb, SlebOf, Fail, Ok, Payload
<1>3. /\ k \in Nat \ {0} /\ k <= Groups(bits) /\ pos + k <= Len(buf)
      /\ Grouped(s) /\ Len(s) = k /\ s[k] = buf[pos + k]
  <2>1. Span(Groups(bits), buf, pos) # 0
    BY <1>2
  <2>2. QED BY <1>1, <2>1, SpanGrouped
<1>4. v = SignedValue(s)
  BY <1>3 DEF SignedValue
<1> HIDE DEF k, s, v
<1>5. /\ v \in Int /\ InRange(v, 7 * k) /\ Len(EncodeSleb[v]) <= k
      /\ (s[k] \in {0, 127} => InRange(v, 7 * (k - 1) + 1))
  BY <1>3, <1>4, GroupsAreSignCanonical DEF SignCanonical
<1>6. InRange(v, bits)
  <2>1. CASE bits < Word
    <3>1. Pow2[bits - 1] \in Nat
      BY Pow2Type
    <3>2. v \in -Pow2[bits - 1] .. Pow2[bits - 1] - 1
      BY <1>2, <2>1
    <3>3. QED BY <1>5, <3>1, <3>2 DEF InRange
  <2>2. CASE ~(bits < Word)
    <3>1. bits = Word /\ bits % 7 = 1
      BY <2>2, WidthAssumption
    <3>2. 7 * (k - 1) = bits - 1 \/ (7 * k \in Nat \ {0} /\ 7 * k <= bits)
      <4>1. k <= (bits + 6) \div 7
        BY <1>3 DEF Groups
      <4>2. QED BY <1>3, <3>1, <4>1
    <3>3. CASE 7 * (k - 1) = bits - 1
      <4>1. 7 * (k - 1) + 1 = bits
        BY <3>3
      <4>2. s[k] \in {0, 127}
        BY <1>2, <1>3, <3>1, <3>3
      <4>3. QED BY <1>5, <4>1, <4>2
    <3>4. CASE 7 * k \in Nat \ {0} /\ 7 * k <= bits
      BY <1>5, <3>4, WiderRange
    <3>5. QED BY <3>2, <3>3, <3>4
  <2>3. QED BY <2>1, <2>2
<1>7. Len(EncodeSleb[v]) \in Nat
  BY <1>5, SlebWritten, BufferType DEF Grouped
<1>8. Sleb(bits, buf, pos).val = v /\ Sleb(bits, buf, pos).pos = pos + k
  BY <1>2 DEF Ok
<1>9. QED BY <1>3, <1>5, <1>6, <1>7, <1>8
-----------------------------------------------------------------------------
(* Strings. *)

\* A string is its length and as many bytes, whatever they are.
LEMMA StringHeld ==
  ASSUME NEW s \in Seq(0..255), NEW buf, NEW pos, Holds(buf, pos, EncodeString(s))
  PROVE  LET e == EncodeUleb[Len(s)]
         IN /\ Holds(buf, pos, e)
            /\ Bytes(Len(s), buf, pos + Len(e)) = Ok(s, pos + Len(EncodeString(s)))
<1> DEFINE e == EncodeUleb[Len(s)]
           at == pos + Len(e)
<1>1. e \in Seq(0..255) /\ Len(e) \in Nat /\ Len(s) \in Nat
  BY UlebWritten, BufferType DEF Grouped
<1>2. /\ buf \in Seq(0..255) /\ pos \in Nat /\ pos + Len(e \o s) <= Len(buf)
      /\ \A i \in 1..Len(e \o s) : buf[pos + i] = (e \o s)[i]
  BY DEF Holds, EncodeString
<1> DEFINE Octet == 0..255
<1>3. e \in Seq(Octet) /\ s \in Seq(Octet)
  BY <1>1
<1> HIDE DEF Octet
<1>4. /\ Len(e \o s) = Len(e) + Len(s)
      /\ \A i \in 1..Len(e) + Len(s) : (e \o s)[i] = IF i <= Len(e) THEN e[i] ELSE s[i - Len(e)]
  BY <1>3, ConcatProperties
<1> HIDE DEF e
<1>5. Holds(buf, pos, e)
  BY <1>1, <1>2, <1>4 DEF Holds
<1>6. /\ at \in Nat /\ at + Len(s) <= Len(buf) /\ Len(buf) \in Nat
      /\ \A i \in 1..Len(s) : buf[at + i] = s[i]
  <2>1. Len(buf) \in Nat
    BY <1>2, BufferType
  <2>2. at \in Nat /\ at + Len(s) <= Len(buf)
    BY <1>1, <1>2, <1>4
  <2>3. ASSUME NEW i \in 1..Len(s)
        PROVE  buf[at + i] = s[i]
    <3>1. Len(e) + i \in 1..Len(e) + Len(s) /\ ~(Len(e) + i <= Len(e)) /\ (Len(e) + i) - Len(e) = i
      BY <1>1
    <3>2. (e \o s)[Len(e) + i] = s[i]
      BY <1>4, <3>1
    <3>3. Len(e) + i \in 1..Len(e \o s)
      BY <1>4, <3>1
    <3>4. buf[pos + (Len(e) + i)] = s[i]
      BY <1>2, <3>2, <3>3
    <3>5. pos + (Len(e) + i) = at + i
      BY <1>1, <1>2
    <3>6. QED BY <3>4, <3>5
  <2>4. QED BY <2>1, <2>2, <2>3
<1> HIDE DEF at
<1>7. SubSeq(buf, at + 1, at + Len(s)) = s
  BY <1>2, <1>6, SliceIs DEF Holds
<1>8. ~(Remaining(buf, at) < Len(s))
  BY <1>1, <1>6 DEF Remaining
<1>9. Bytes(Len(s), buf, at) = Ok(s, at + Len(s))
  BY <1>7, <1>8 DEF Bytes
<1>10. at + Len(s) = pos + Len(EncodeString(s))
  BY <1>1, <1>2, <1>4 DEF at, EncodeString, e
<1>11. QED BY <1>5, <1>9, <1>10 DEF at, e

LEMMA BytesReadBack ==
  ASSUME NEW s \in Seq(0..255), Len(s) < Pow2[Int32],
         NEW buf, NEW pos, Holds(buf, pos, EncodeString(s))
  PROVE  LET n == Uleb(Int32, buf, pos)
         IN /\ n = Ok(Len(s), pos + Len(EncodeUleb[Len(s)]))
            /\ Bytes(n.val, buf, n.pos) = Ok(s, pos + Len(EncodeString(s)))
<1> DEFINE e == EncodeUleb[Len(s)]
<1>1. Len(s) \in Nat /\ Int32 \in Nat \ {0}
  BY BufferType, WidthAssumption
<1>2. Holds(buf, pos, e) /\ Bytes(Len(s), buf, pos + Len(e)) = Ok(s, pos + Len(EncodeString(s)))
  BY StringHeld
<1>3. Uleb(Int32, buf, pos) = Ok(Len(s), pos + Len(e))
  BY <1>1, <1>2, UlebReadsBack
<1>4. Uleb(Int32, buf, pos).val = Len(s) /\ Uleb(Int32, buf, pos).pos = pos + Len(e)
  BY <1>3 DEF Ok
<1> HIDE DEF e
<1>5. QED BY <1>2, <1>3, <1>4 DEF e

\* A text of valid UTF-8 is read back; any other text that a host wrote is refused,
\* whatever its bytes (Decoder::String).
THEOREM StringReadsBack ==
  ASSUME NEW s \in Seq(0..255), Len(s) < Pow2[Int32],
         NEW buf, NEW pos, Holds(buf, pos, EncodeString(s))
  PROVE  String(buf, pos) = IF Utf8Valid(s) THEN Ok(s, pos + Len(EncodeString(s))) ELSE Fail
<1> DEFINE n == Uleb(Int32, buf, pos)
           b == Bytes(n.val, buf, n.pos)
<1>1. n.ok /\ b.ok /\ b.val = s /\ b = Ok(s, pos + Len(EncodeString(s)))
  BY BytesReadBack DEF Ok
<1>2. String(buf, pos) = IF n.ok THEN IF b.ok THEN IF Utf8Valid(b.val) THEN b ELSE Fail
                                      ELSE Fail ELSE Fail
  BY DEF String, Then
<1> HIDE DEF n, b
<1>3. QED BY <1>1, <1>2
-----------------------------------------------------------------------------
(* Texts. *)

\* The character after i, as long as its lead byte says, is one.
Sound(s, i) ==
  LET w == Width(s[i + 1])
  IN w # 0 /\ i + w <= Len(s) /\ ScalarValid(SubSeq(s, i + 1, i + w))

LEMMA WidthType == \A c \in 0..255 : Width(c) \in 0..4
BY DEF Width

\* Utf8Valid goes from character to character to the end.
LEMMA Utf8Is ==
  ASSUME NEW s \in Seq(0..255)
  PROVE  \E f \in [0..Len(s) -> BOOLEAN] :
           /\ Utf8Valid(s) <=> f[0]
           /\ \A i \in 0..Len(s) :
                f[i] <=> (i = Len(s) \/ (Sound(s, i) /\ f[i + Width(s[i + 1])]))
<1> DEFINE n == Len(s)
           D == 0..n
           step(i) == i + Width(s[i + 1])
           Base == {i \in D : i = n \/ ~Sound(s, i)}
           m == [i \in D |-> n - i]
           b == [i \in D |-> i = n]
           p == [i \in D |-> IF i \in Base THEN i ELSE step(i)]
           c == [q \in D \X BOOLEAN |-> q[2]]
<1>1. n \in Nat /\ \A i \in 1..n : s[i] \in 0..255
  BY BufferType
<1>2. ASSUME NEW i \in D, i # n
      PROVE  Width(s[i + 1]) \in 0..4
  <2>1. i + 1 \in 1..n
    BY <1>1, <1>2
  <2>2. s[i + 1] \in 0..255
    BY <1>1, <2>1
  <2>3. QED BY <2>2, WidthType
<1>3. ASSUME NEW i \in D, i \notin Base
      PROVE  step(i) \in D /\ i < step(i)
  <2>1. i # n /\ Sound(s, i)
    BY <1>3
  <2>2. Width(s[i + 1]) \in 0..4 /\ Width(s[i + 1]) # 0 /\ i + Width(s[i + 1]) <= n
    BY <1>2, <2>1 DEF Sound
  <2> DEFINE w == Width(s[i + 1])
  <2> HIDE DEF w, n
  <2>3. QED BY <1>1, <2>2 DEF w
<1>4. \E f \in [D -> BOOLEAN] : \A i \in D : Equation(f, i, Base, b, p, c)
  <2>1. m \in [D -> Nat] /\ b \in [D -> BOOLEAN] /\ c \in [D \X BOOLEAN -> BOOLEAN]
    <3> HIDE DEF n
    <3>1. QED BY <1>1
  <2>2. p \in [D -> D]
    <3>1. \A i \in D : (IF i \in Base THEN i ELSE step(i)) \in D
      BY <1>3
    <3> HIDE DEF D, Base, step
    <3>2. QED BY <3>1
  <2>3. ASSUME NEW i \in D \ Base
        PROVE  m[p[i]] < m[i]
    <3>1. p[i] = step(i) /\ step(i) \in D /\ i < step(i) /\ i \in D
      BY <1>3
    <3>2. m[i] = n - i /\ m[step(i)] = n - step(i)
      <4> HIDE DEF step, n, Base, p
      <4>1. QED BY <3>1
    <3> DEFINE j == step(i)
    <3>3. j \in Nat /\ i \in Nat /\ i < j /\ m[p[i]] = n - j /\ m[i] = n - i
      <4>1. j \in 0..n /\ i \in 0..n /\ i < j /\ p[i] = j
        BY <3>1
      <4> HIDE DEF j, n, p, m
      <4>2. QED BY <3>2, <4>1 DEF j
    <3> HIDE DEF j, n, p, m
    <3>4. QED BY <1>1, <3>3
  <2> HIDE DEF D, Base, m, b, p, c
  <2>4. \A x \in D \ Base : m[p[x]] < m[x]
    BY <2>3
  <2>5. QED BY <2>1, <2>2, <2>4, Recursion
<1> DEFINE Body(f) == [i \in 0..Len(s) |->
             \/ i = Len(s)
             \/ LET w == Width(s[i + 1])
                IN /\ w # 0 /\ i + w <= Len(s)
                   /\ ScalarValid(SubSeq(s, i + 1, i + w))
                   /\ f[i + w]]
           from == CHOOSE f : f = Body(f)
<1>5. Utf8Valid(s) = from[0]
  BY Zenon DEF Utf8Valid
<1>6. \E f : f = Body(f)
  <2>1. PICK f \in [D -> BOOLEAN] : \A i \in D : Equation(f, i, Base, b, p, c)
    BY <1>4
  <2>2. ASSUME NEW i \in D
        PROVE  f[i] <=> (i = n \/ (Sound(s, i) /\ f[step(i)]))
    <3>1. f[i] = IF i \in Base THEN b[i] ELSE c[i, f[p[i]]]
      BY <2>1 DEF Equation
    <3>2. CASE i \in Base
      <4>1. b[i] = (i = n)
        OBVIOUS
      <4>2. QED BY <3>1, <3>2, <4>1
    <3>3. CASE i \notin Base
      <4>1. p[i] = step(i) /\ step(i) \in D /\ i # n /\ Sound(s, i)
        BY <1>3, <3>3
      <4>2. f[step(i)] \in BOOLEAN
        <5> HIDE DEF D, step
        <5>1. QED BY <4>1
      <4>3. c[i, f[step(i)]] = f[step(i)]
        <5> HIDE DEF D, step
        <5>1. QED BY <4>2
      <4> HIDE DEF b, c, p, Base, D, step
      <4>4. QED BY <3>1, <3>3, <4>1, <4>3
    <3>4. QED BY <3>2, <3>3
  <2>3. \A i \in 0..Len(s) : f[i] \in BOOLEAN
    OBVIOUS
  <2>4. \A i \in 0..Len(s) : f[i] = Body(f)[i]
    <3> SUFFICES ASSUME NEW i \in 0..Len(s) PROVE f[i] = Body(f)[i]
      OBVIOUS
    <3>1. f[i] <=> (i = Len(s) \/ (Sound(s, i) /\ f[step(i)]))
      BY <2>2
    <3> HIDE DEF D, Base, m, b, p, c
    <3>2. Body(f)[i] <=> (i = Len(s) \/ (Sound(s, i) /\ f[step(i)]))
      BY Zenon DEF Sound
    <3>3. Body(f)[i] \in BOOLEAN
      BY Zenon
    <3> HIDE DEF Body
    <3>4. QED BY <2>3, <3>1, <3>2, <3>3
  <2>5. Body(f) = [i \in 0..Len(s) |-> Body(f)[i]]
    BY Zenon
  <2>6. f = [i \in 0..Len(s) |-> f[i]]
    OBVIOUS
  <2> HIDE DEF Body
  <2>7. f = Body(f)
    BY <2>4, <2>5, <2>6
  <2>8. QED BY <2>7
<1>7. from = Body(from)
  <2> HIDE DEF Body
  <2>1. QED BY <1>6
<1>8. \A i \in 0..Len(s) :
        from[i] = (\/ i = Len(s)
                   \/ LET w == Width(s[i + 1])
                      IN /\ w # 0 /\ i + w <= Len(s)
                         /\ ScalarValid(SubSeq(s, i + 1, i + w))
                         /\ from[i + w])
  <2> HIDE DEF from
  <2>1. QED BY <1>7, Zenon
<1> HIDE DEF from
<1>9. \A i \in 0..Len(s) :
        from[i] <=> (i = Len(s) \/ (Sound(s, i) /\ from[i + Width(s[i + 1])]))
  BY <1>8, Zenon DEF Sound
<1>10. from \in [0..Len(s) -> BOOLEAN]
  <2>1. \A i \in 0..Len(s) : from[i] \in BOOLEAN
    BY <1>8, Zenon
  <2>2. from = [i \in 0..Len(s) |-> from[i]]
    <3>1. DOMAIN from = 0..Len(s) /\ from = [i \in DOMAIN from |-> from[i]]
      BY <1>7, Zenon
    <3>2. QED BY <3>1
  <2>3. QED BY <2>1, <2>2
<1>11. QED BY <1>5, <1>9, <1>10
=============================================================================
