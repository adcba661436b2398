---------------------------- MODULE BindingsProofs ----------------------------
(***************************************************************************)
(* What the bindings of a C++ guest take and give, type by type and         *)
(* function by function, and what a host reads in what they give.           *)
(***************************************************************************)
EXTENDS Bindings, CodecProofs

(* Lists. *)

LEMMA EncodeElementsIs ==
  \A s \in Seq(Nat) :
    EncodeElements[s] = IF s = <<>> THEN <<>> ELSE EncodeUleb[Head(s)] \o EncodeElements[Tail(s)]
<1> DEFINE D == Seq(Nat)
           m == [s \in D |-> Len(s)]
           b == [s \in D |-> <<>>]
           p == [s \in D |-> IF s = <<>> THEN s ELSE Tail(s)]
           c == [q \in D \X D |-> IF q[1] = <<>> THEN <<>> ELSE EncodeUleb[Head(q[1])] \o q[2]]
<1>0. \A s \in D : s # <<>> => EncodeUleb[Head(s)] \in D
  <2>1. \A n \in Nat : EncodeUleb[n] \in D
    BY UlebWritten, BufferType DEF Grouped
  <2>2. \A s \in D : s # <<>> => Head(s) \in Nat
    OBVIOUS
  <2> HIDE DEF D
  <2>3. QED BY <2>1, <2>2
<1>1. \E f \in [D -> D] : \A s \in D : Equation(f, s, {<<>>}, b, p, c)
  <2>1. m \in [D -> Nat] /\ p \in [D -> D] /\ \A s \in D \ {<<>>} : m[p[s]] < m[s]
    OBVIOUS
  <2>2. b \in [D -> D]
    OBVIOUS
  <2>3. c \in [D \X D -> D]
    <3>1. \A s, t \in D : s # <<>> => EncodeUleb[Head(s)] \o t \in D
      <4>1. \A s, t \in D : s \o t \in D
        OBVIOUS
      <4> HIDE DEF D
      <4>2. QED BY <1>0, <4>1
    <3>2. <<>> \in D
      OBVIOUS
    <3> HIDE DEF D
    <3>3. QED BY <3>1, <3>2
  <2> HIDE DEF m, b, p, c, D
  <2>4. QED BY <2>1, <2>2, <2>3, Recursion
<1>2. \E f : f = [s \in D |-> IF s = <<>> THEN <<>> ELSE EncodeUleb[Head(s)] \o f[Tail(s)]]
  <2>1. PICK f \in [D -> D] : \A s \in D : Equation(f, s, {<<>>}, b, p, c)
    BY <1>1
  <2>2. \A s \in D : f[s] = IF s = <<>> THEN <<>> ELSE EncodeUleb[Head(s)] \o f[Tail(s)]
    <3> TAKE s \in D
    <3>1. f[s] = IF s = <<>> THEN b[s] ELSE c[s, f[p[s]]]
      <4> HIDE DEF D, b, c, p
      <4>1. Equation(f, s, {<<>>}, b, p, c)
        BY <2>1
      <4>2. s \in {<<>>} <=> s = <<>>
        OBVIOUS
      <4>3. QED BY <4>1, <4>2 DEF Equation
    <3>2. b[s] = <<>> /\ (s # <<>> => p[s] = Tail(s) /\ Tail(s) \in D)
      OBVIOUS
    <3>3. \A x \in D : s # <<>> => c[s, x] = EncodeUleb[Head(s)] \o x
      <4> HIDE DEF D
      <4>1. QED OBVIOUS
    <3> HIDE DEF D, b, c, p
    <3>4. QED BY <3>1, <3>2, <3>3
  <2> HIDE DEF D, b, c, p
  <2>3. f = [s \in D |-> IF s = <<>> THEN <<>> ELSE EncodeUleb[Head(s)] \o f[Tail(s)]]
    BY <2>2
  <2> WITNESS f
  <2>4. QED BY <2>3
<1>3. EncodeElements = [s \in Seq(Nat) |-> IF s = <<>> THEN <<>> ELSE EncodeUleb[Head(s)] \o EncodeElements[Tail(s)]]
  BY <1>2 DEF EncodeElements
<1>4. QED BY <1>3

\* What is read at the positions P: numbers, or nothing.
Reads(P) == {Fail} \cup [ok : {TRUE}, val : Nat, pos : P]
\* And of several.
ListReads(P) == {Fail} \cup [ok : {TRUE}, val : Seq(Nat), pos : P]

\* A number before what else was read.
After(x, rest) == IF rest.ok THEN Ok(<<x>> \o rest.val, rest.pos) ELSE Fail

LEMMA Fields ==
  ASSUME NEW B, NEW T, NEW P, NEW r \in [ok : B, val : T, pos : P]
  PROVE  r.ok \in B /\ r.val \in T /\ r.pos \in P /\ r = [ok |-> r.ok, val |-> r.val, pos |-> r.pos]
OBVIOUS

LEMMA SomeRead ==
  ASSUME NEW P, NEW T, NEW r \in {Fail} \cup [ok : {TRUE}, val : T, pos : P]
  PROVE  r.ok \in BOOLEAN /\ (r.ok => r.val \in T /\ r.pos \in P /\ r = Ok(r.val, r.pos))
         /\ (~r.ok => r = Fail)
<1>1. CASE r = Fail
  <2>1. r.ok = FALSE
    BY <1>1, Zenon DEF Fail
  <2>2. QED BY <1>1, <2>1
<1>2. CASE r \in [ok : {TRUE}, val : T, pos : P]
  <2>1. r.ok \in {TRUE} /\ r.val \in T /\ r.pos \in P /\ r = [ok |-> r.ok, val |-> r.val, pos |-> r.pos]
    BY <1>2, Fields
  <2>2. r.ok = TRUE
    BY <2>1
  <2>3. r = Ok(r.val, r.pos)
    BY <2>1, <2>2, Zenon DEF Ok
  <2>4. QED BY <2>1, <2>2, <2>3
<1>3. QED BY <1>1, <1>2

LEMMA ReadIs ==
  ASSUME NEW P, NEW r \in Reads(P)
  PROVE  r.ok \in BOOLEAN /\ (r.ok => r.val \in Nat /\ r.pos \in P /\ r = Ok(r.val, r.pos))
         /\ (~r.ok => r = Fail)
BY SomeRead, Zenon DEF Reads

LEMMA ListReadIs ==
  ASSUME NEW P, NEW r \in ListReads(P)
  PROVE  r.ok \in BOOLEAN /\ (r.ok => r.val \in Seq(Nat) /\ r.pos \in P /\ r = Ok(r.val, r.pos))
         /\ (~r.ok => r = Fail)
BY SomeRead, Zenon DEF ListReads

\* A read whose value is replaced.
LEMMA Replaced ==
  ASSUME NEW s, NEW at, NEW r, r = Ok(s, at), NEW y
  PROVE  [r EXCEPT !.val = y] = Ok(y, at)
<1>1. ASSUME NEW o
      PROVE  [[ok |-> o, val |-> s, pos |-> at] EXCEPT !.val = y] = [ok |-> o, val |-> y, pos |-> at]
  OBVIOUS
<1>2. [[ok |-> TRUE, val |-> s, pos |-> at] EXCEPT !.val = y] = [ok |-> TRUE, val |-> y, pos |-> at]
  BY <1>1, Zenon
<1>3. QED BY <1>2, Zenon DEF Ok

LEMMA AfterIs ==
  ASSUME NEW P, NEW x \in Nat, NEW r \in ListReads(P)
  PROVE  /\ After(x, r) \in ListReads(P)
         /\ Then(r, LAMBDA rest : [rest EXCEPT !.val = <<x>> \o @]) = After(x, r)
<1>1. r.ok \in BOOLEAN /\ (r.ok => r.val \in Seq(Nat) /\ r.pos \in P /\ r = Ok(r.val, r.pos))
  BY ListReadIs
<1>2. CASE r.ok
  <2> DEFINE s == r.val
             at == r.pos
  <2>1. r = Ok(s, at) /\ s \in Seq(Nat) /\ at \in P
    BY <1>1, <1>2
  <2>2. <<x>> \o s \in Seq(Nat)
    BY <2>1
  <2>3. [r EXCEPT !.val = <<x>> \o @] = Ok(<<x>> \o s, at)
    <3> HIDE DEF s, at
    <3> DEFINE y == <<x>> \o s
    <3> HIDE DEF y
    <3>1. [r EXCEPT !.val = y] = Ok(y, at)
      BY <2>1, Replaced
    <3>2. QED BY <3>1 DEF s, y
  <2>4. Ok(<<x>> \o s, at) \in ListReads(P)
    BY <2>1, <2>2, Zenon DEF ListReads, Ok
  <2>5. QED BY <1>2, <2>3, <2>4 DEF After, Then
<1>3. CASE ~r.ok
  <2>1. After(x, r) = Fail /\ Fail \in ListReads(P)
    BY <1>3 DEF After, ListReads
  <2>2. Then(r, LAMBDA rest : [rest EXCEPT !.val = <<x>> \o @]) = Fail
    BY <1>3 DEF Then
  <2>3. QED BY <2>1, <2>2
<1>4. QED BY <1>1, <1>2, <1>3

\* Elements reads one after the other.
LEMMA ElementsIs ==
  ASSUME NEW P, NEW read \in [P -> Reads(P)]
  PROVE  /\ \A n \in Nat : \A at \in P : Elements(n, at, read) \in ListReads(P)
         /\ \A at \in P : Elements(0, at, read) = Ok(<<>>, at)
         /\ \A n \in Nat : \A at \in P :
              Elements(n + 1, at, read) =
                IF read[at].ok THEN After(read[at].val, Elements(n, read[at].pos, read)) ELSE Fail
<1> DEFINE T == [P -> ListReads(P)]
           Step(g) == [at \in P |-> IF read[at].ok THEN After(read[at].val, g[read[at].pos]) ELSE Fail]
           start == [at \in P |-> Ok(<<>>, at)]
           m == [n \in Nat |-> n]
           b == [n \in Nat |-> start]
           p == [n \in Nat |-> IF n = 0 THEN 0 ELSE n - 1]
           c == [q \in Nat \X T |-> Step(q[2])]
<1>1. ASSUME NEW at \in P
      PROVE  read[at] \in Reads(P) /\ read[at].ok \in BOOLEAN
             /\ (read[at].ok => read[at].val \in Nat /\ read[at].pos \in P)
  BY ReadIs
<1>2. start \in T
  <2>1. <<>> \in Seq(Nat)
    OBVIOUS
  <2>2. \A at \in P : Ok(<<>>, at) \in ListReads(P)
    BY <2>1, Zenon DEF ListReads, Ok
  <2>3. QED BY <2>2
<1>3. ASSUME NEW g \in T
      PROVE  Step(g) \in T
  <2>1. ASSUME NEW at \in P
        PROVE  (IF read[at].ok THEN After(read[at].val, g[read[at].pos]) ELSE Fail) \in ListReads(P)
    <3>1. Fail \in ListReads(P)
      BY DEF ListReads
    <3>2. CASE read[at].ok
      <4>1. read[at].val \in Nat /\ g[read[at].pos] \in ListReads(P)
        BY <1>1, <3>2
      <4>2. After(read[at].val, g[read[at].pos]) \in ListReads(P)
        BY <4>1, AfterIs
      <4>3. QED BY <3>2, <4>2
    <3>3. QED BY <3>1, <3>2
  <2>2. QED BY <2>1
<1>4. \E f \in [Nat -> T] : \A n \in Nat : Equation(f, n, {0}, b, p, c)
  <2>1. /\ m \in [Nat -> Nat] /\ p \in [Nat -> Nat]
        /\ \A n \in Nat \ {0} : m[p[n]] < m[n]
    OBVIOUS
  <2>2. b \in [Nat -> T] /\ c \in [Nat \X T -> T]
    <3> HIDE DEF T, Step, start
    <3>1. QED BY <1>2, <1>3
  <2> HIDE DEF m, b, p, c, T
  <2>3. QED BY <2>1, <2>2, Recursion
<1> DEFINE Body(f) == [k \in Nat |->
             [at \in DOMAIN read |->
                IF k = 0 THEN Ok(<<>>, at)
                ELSE Then(read[at], LAMBDA e :
                     Then(f[k - 1][e.pos], LAMBDA rest : [rest EXCEPT !.val = <<e.val>> \o @]))]]
           from == CHOOSE f : f = Body(f)
<1>5. \A n, at : Elements(n, at, read) = from[n][at]
  BY Zenon DEF Elements
<1>6. ASSUME NEW f, NEW k \in Nat, k # 0 => f[k - 1] \in T
      PROVE  Body(f)[k] = IF k = 0 THEN start ELSE Step(f[k - 1])
  <2>1. DOMAIN read = P
    OBVIOUS
  <2>2. CASE k = 0
    <3>1. Body(f)[k] = [at \in P |-> IF k = 0 THEN Ok(<<>>, at)
                ELSE Then(read[at], LAMBDA e :
                     Then(f[k - 1][e.pos], LAMBDA rest : [rest EXCEPT !.val = <<e.val>> \o @]))]
      BY <2>1, Zenon
    <3> HIDE DEF Body
    <3>2. QED BY <2>2, <3>1
  <2>3. CASE k # 0
    <3>1. Body(f)[k] = [at \in P |-> IF k = 0 THEN Ok(<<>>, at)
                ELSE Then(read[at], LAMBDA e :
                     Then(f[k - 1][e.pos], LAMBDA rest : [rest EXCEPT !.val = <<e.val>> \o @]))]
      BY <2>1, Zenon
    <3>3. f[k - 1] \in T
      BY <1>6, <2>3
    <3>4. ASSUME NEW at \in P
          PROVE  Then(read[at], LAMBDA e :
                     Then(f[k - 1][e.pos], LAMBDA rest : [rest EXCEPT !.val = <<e.val>> \o @]))
                 = IF read[at].ok THEN After(read[at].val, f[k - 1][read[at].pos]) ELSE Fail
      <4>1. CASE ~read[at].ok
        BY <4>1 DEF Then
      <4>2. CASE read[at].ok
        <5>1. f[k - 1][read[at].pos] \in ListReads(P) /\ read[at].val \in Nat
          BY <1>1, <3>3, <4>2
        <5>2. Then(f[k - 1][read[at].pos], LAMBDA rest : [rest EXCEPT !.val = <<read[at].val>> \o @])
              = After(read[at].val, f[k - 1][read[at].pos])
          BY <5>1, AfterIs
        <5> HIDE DEF T
        <5>3. QED BY <4>2, <5>2, Zenon DEF Then
      <4>3. QED BY <4>1, <4>2
    <3> HIDE DEF Body, T
    <3>5. QED BY <2>3, <3>1, <3>4, Zenon
  <2>4. QED BY <2>2, <2>3
<1>7. \E f : f = Body(f)
  <2>1. PICK f \in [Nat -> T] : \A n \in Nat : Equation(f, n, {0}, b, p, c)
    BY <1>4
  <2>2. ASSUME NEW n \in Nat
        PROVE  f[n] = Body(f)[n]
    <3>1. f[n] = IF n = 0 THEN b[n] ELSE c[n, f[p[n]]]
      BY <2>1 DEF Equation
    <3>2. b[n] = start /\ (n # 0 => p[n] = n - 1 /\ n - 1 \in Nat)
      <4> HIDE DEF start
      <4>1. QED OBVIOUS
    <3>3. \A g \in T : c[n, g] = Step(g)
      <4> HIDE DEF Step, T
      <4>1. QED OBVIOUS
    <3>4. n # 0 => f[n - 1] \in T
      <4> HIDE DEF T
      <4>1. QED OBVIOUS
    <3> HIDE DEF b, c, p, Step, start, T, Body
    <3>5. f[n] = IF n = 0 THEN start ELSE Step(f[n - 1])
      BY <3>1, <3>2, <3>3, <3>4
    <3>6. QED BY <1>6, <3>5
  <2>3. f = [n \in Nat |-> f[n]]
    OBVIOUS
  <2>4. Body(f) = [n \in Nat |-> Body(f)[n]]
    BY Zenon
  <2> HIDE DEF Body
  <2>5. QED BY <2>2, <2>3, <2>4
<1>8. from = Body(from)
  <2> HIDE DEF Body
  <2>1. QED BY <1>7
<1>9. \A n \in Nat : from[n] \in T
  <2> DEFINE A == {n \in Nat : from[n] \in T}
  <2>1. 0 \in A
    <3>1. Body(from)[0] = start
      BY <1>6
    <3> HIDE DEF Body, start, T, from
    <3>2. QED BY <1>2, <1>8, <3>1
  <2>2. ASSUME NEW n \in Nat, n \in A
        PROVE  n + 1 \in A
    <3>1. (n + 1) - 1 = n /\ n + 1 # 0 /\ n + 1 \in Nat
      OBVIOUS
    <3>2. from[(n + 1) - 1] \in T
      <4> HIDE DEF from, T
      <4>1. QED BY <2>2, <3>1
    <3> HIDE DEF from, Body, Step, start, T
    <3>3. Body(from)[n + 1] = Step(from[n])
      BY <1>6, <3>1, <3>2
    <3> HIDE DEF Body, Step, T
    <3>4. QED BY <1>3, <1>8, <2>2, <3>1, <3>3
  <2> HIDE DEF A
  <2>3. Nat \subseteq A
    BY <2>1, <2>2, Induction
  <2>4. QED BY <2>3 DEF A
<1>10. from[0] = start /\ \A n \in Nat : from[n + 1] = Step(from[n])
  <2>1. \A n \in Nat : (n + 1) - 1 = n /\ n + 1 # 0 /\ n + 1 \in Nat
    OBVIOUS
  <2>2. ASSUME NEW k \in Nat
        PROVE  from[k] = IF k = 0 THEN start ELSE Step(from[k - 1])
    <3>1. k # 0 => from[k - 1] \in T
      <4>1. k # 0 => k - 1 \in Nat
        OBVIOUS
      <4> HIDE DEF from, T
      <4>2. QED BY <1>9, <4>1
    <3> HIDE DEF from, Body, Step, start, T
    <3>2. Body(from)[k] = IF k = 0 THEN start ELSE Step(from[k - 1])
      BY <1>6, <3>1
    <3> HIDE DEF Body, Step, start, T
    <3>3. QED BY <1>8, <3>2
  <2> HIDE DEF Step, start, from
  <2>3. QED BY <2>1, <2>2
<1> HIDE DEF from, Body
<1>11. ASSUME NEW n \in Nat, NEW at \in P
       PROVE  /\ from[n][at] \in ListReads(P)
              /\ from[0][at] = Ok(<<>>, at)
              /\ from[n + 1][at] = IF read[at].ok THEN After(read[at].val, from[n][read[at].pos]) ELSE Fail
  <2>1. from[n][at] \in ListReads(P)
    BY <1>9
  <2>2. start[at] = Ok(<<>>, at)
    BY Zenon
  <2>3. Step(from[n])[at] = IF read[at].ok THEN After(read[at].val, from[n][read[at].pos]) ELSE Fail
    BY Zenon
  <2> HIDE DEF start, Step
  <2>4. QED BY <1>10, <2>1, <2>2, <2>3
<1>12. \A n \in Nat : n + 1 \in Nat
  OBVIOUS
<1>13. \A at \in P : read[at].ok => read[at].pos \in P
  BY <1>1
<1>14. \A n \in Nat : \A at \in P : Elements(n, at, read) \in ListReads(P)
  BY <1>5, <1>11
<1>15. \A at \in P : Elements(0, at, read) = Ok(<<>>, at)
  BY <1>5, <1>11
<1>16. ASSUME NEW n \in Nat, NEW at \in P
       PROVE  Elements(n + 1, at, read) =
                IF read[at].ok THEN After(read[at].val, Elements(n, read[at].pos, read)) ELSE Fail
  <2>1. Elements(n + 1, at, read) = from[n + 1][at] /\ Elements(n, read[at].pos, read) = from[n][read[at].pos]
    BY <1>5, Zenon
  <2>2. QED BY <1>11, <2>1, Zenon
<1>17. QED BY <1>14, <1>15, <1>16
-----------------------------------------------------------------------------
(* Buffers. *)

Octets == Seq(0..255)

\* One byte before others.
LEMMA Prefixed ==
  ASSUME NEW a \in 0..255, NEW s \in Octets
  PROVE  /\ <<a>> \o s \in Octets /\ Len(<<a>> \o s) = Len(s) + 1 /\ Len(s) \in Nat
         /\ (<<a>> \o s)[1] = a /\ Tail(<<a>> \o s) = s
         /\ \A i \in 1..Len(s) : (<<a>> \o s)[i + 1] = s[i]
<1> DEFINE Octet == 0..255
           p == <<a>> \o s
<1>1. a \in Octet /\ s \in Seq(Octet) /\ Len(s) \in Nat
  BY DEF Octets
<1> HIDE DEF Octet
<1>2. /\ p \in Seq(Octet) /\ Len(p) = Len(s) + 1 /\ p[1] = a /\ p # <<>>
      /\ \A i \in 1..Len(s) : p[i + 1] = s[i]
  BY <1>1
<1> HIDE DEF p
<1>3. Tail(p) \in Seq(Octet) /\ Len(Tail(p)) = Len(s) /\ \A i \in 1..Len(s) : Tail(p)[i] = p[i + 1]
  BY <1>1, <1>2
<1>4. Tail(p) = s
  BY <1>1, <1>2, <1>3, SeqEqual
<1>5. QED BY <1>1, <1>2, <1>4 DEF p, Octets, Octet

LEMMA OctetsIs ==
  ASSUME NEW buf \in Octets
  PROVE  buf \in Seq(0..255) /\ Len(buf) \in Nat /\ \A i \in 1..Len(buf) : buf[i] \in 0..255 /\ buf[i] \in Nat
BY BufferType DEF Octets

\* A part of a buffer.
LEMMA PartIs ==
  ASSUME NEW buf \in Octets, NEW pos \in Nat, NEW n \in Nat, pos + n <= Len(buf)
  PROVE  LET s == SubSeq(buf, pos + 1, pos + n)
         IN s \in Octets /\ Len(s) = n /\ Holds(buf, pos, s)
<1> DEFINE m == pos + 1
           k == pos + n
           Octet == 0..255
           s == SubSeq(buf, m, k)
<1>1. Len(buf) \in Nat /\ \A i \in 1..Len(buf) : buf[i] \in 0..255
  BY OctetsIs
<1>2. m \in Int /\ k \in Int /\ k - m + 1 = n /\ (IF m <= k THEN k - m + 1 ELSE 0) = n
      /\ (\A i \in m..k : i \in 1..Len(buf)) /\ \A i \in 1..n : m + i - 1 = pos + i
  BY <1>1
<1>3. \A i \in m..k : buf[i] \in Octet
  <2> HIDE DEF m, k
  <2>1. QED BY <1>1, <1>2
<1> HIDE DEF m, k, Octet, s
<1>4. /\ SubSeq(buf, m, k) \in Seq(Octet) /\ Len(SubSeq(buf, m, k)) = n
      /\ \A i \in 1..n : SubSeq(buf, m, k)[i] = buf[m + i - 1]
  BY <1>2, <1>3, SubSeqProperties
<1>5. s \in Seq(Octet) /\ Len(s) = n /\ \A i \in 1..n : s[i] = buf[pos + i]
  BY <1>2, <1>4 DEF s
<1>6. Holds(buf, pos, s)
  BY <1>5, OctetsIs DEF Holds
<1>7. QED BY <1>5, <1>6 DEF s, m, k, Octet, Octets

\* q is the beginning of buf.
Begins(q, buf) ==
  /\ q \in Octets /\ buf \in Octets /\ Len(q) <= Len(buf)
  /\ \A i \in 1..Len(q) : buf[i] = q[i]

LEMMA StillHolds ==
  ASSUME NEW q, NEW buf, Begins(q, buf), NEW pos, NEW s \in Octets, Holds(q, pos, s)
  PROVE  Holds(buf, pos, s)
<1>1. /\ Len(q) \in Nat /\ Len(buf) \in Nat /\ Len(s) \in Nat /\ pos \in Nat
      /\ pos + Len(s) <= Len(q) /\ Len(q) <= Len(buf)
  BY OctetsIs DEF Begins, Holds
<1>2. ASSUME NEW i \in 1..Len(s)
      PROVE  buf[pos + i] = s[i]
  <2>1. pos + i \in 1..Len(q)
    BY <1>1
  <2>2. QED BY <2>1 DEF Begins, Holds
<1>3. buf \in Seq(0..255) /\ pos + Len(s) <= Len(buf)
  BY <1>1, OctetsIs DEF Begins
<1>4. QED BY <1>1, <1>2, <1>3 DEF Holds

\* What is read of a buffer is read of every buffer that begins with it: numbers, ...
LEMMA SpanExtends ==
  ASSUME NEW q, NEW buf, Begins(q, buf), NEW pos \in Nat, pos <= Len(q), NEW groups \in Nat,
         Span(groups, q, pos) # 0
  PROVE  LET k == Span(groups, q, pos)
         IN /\ Span(groups, buf, pos) = k /\ Payload(k, buf, pos) = Payload(k, q, pos)
            /\ buf[pos + k] = q[pos + k] /\ k \in Nat
            /\ \A i \in 1..k : buf[pos + i] = q[pos + i]
<1> DEFINE k == Span(groups, q, pos)
           s == SubSeq(q, pos + 1, pos + k)
<1>1. q \in Seq(0..255) /\ q \in Octets /\ Len(q) \in Nat
  BY OctetsIs DEF Begins
<1>2. k \in Nat \ {0} /\ k <= groups /\ pos + k <= Len(q) /\ Grouped(s) /\ Len(s) = k
  BY <1>1, SpanGrouped
<1>3. s \in Octets /\ Holds(q, pos, s)
  <2> HIDE DEF k
  <2>1. k \in Nat
    BY <1>2
  <2>2. QED BY <1>1, <1>2, <2>1, PartIs
<1>4. Holds(buf, pos, s)
  <2> HIDE DEF s
  <2>1. QED BY <1>3, StillHolds
<1>5. s \in Seq(0..255)
  BY <1>3, OctetsIs
<1> HIDE DEF s, k
<1>6. Span(groups, buf, pos) = k
  BY <1>2, <1>4, SpanIs
<1>7. Payload(k, buf, pos) = Value[s] /\ Payload(k, q, pos) = Value[s]
  BY <1>2, <1>3, <1>4, <1>5, PayloadIs
<1>8. \A i \in 1..k : pos + i \in 1..Len(q)
  BY <1>1, <1>2
<1>9. \A i \in 1..k : buf[pos + i] = q[pos + i]
  BY <1>8 DEF Begins
<1>10. k \in 1..k
  BY <1>2
<1>11. QED BY <1>2, <1>6, <1>7, <1>9, <1>10 DEF k

LEMMA UlebExtends ==
  ASSUME NEW q, NEW buf, Begins(q, buf), NEW pos \in Nat, pos <= Len(q), NEW bits \in Nat,
         Uleb(bits, q, pos).ok
  PROVE  Uleb(bits, buf, pos) = Uleb(bits, q, pos)
<1> DEFINE g == Groups(bits)
           k == Span(g, q, pos)
<1>1. g \in Nat
  BY DEF Groups
<1>2. k # 0
  BY DEF Uleb, UlebOf, Fail
<1> HIDE DEF g
<1>3. /\ Span(g, buf, pos) = k /\ Payload(k, buf, pos) = Payload(k, q, pos)
      /\ buf[pos + k] = q[pos + k]
  BY <1>1, <1>2, SpanExtends
<1> HIDE DEF k
<1>4. Uleb(bits, q, pos) = UlebOf(k, bits, q, pos) /\ Uleb(bits, buf, pos) = UlebOf(k, bits, buf, pos)
  BY <1>3 DEF Uleb, g, k
<1>5. UlebOf(k, bits, buf, pos) = UlebOf(k, bits, q, pos)
  BY <1>3, Zenon DEF UlebOf
<1>6. QED BY <1>4, <1>5

LEMMA SlebExtends ==
  ASSUME NEW q, NEW buf, Begins(q, buf), NEW pos \in Nat, pos <= Len(q), NEW bits \in Nat,
         Sleb(bits, q, pos).ok
  PROVE  Sleb(bits, buf, pos) = Sleb(bits, q, pos)
<1> DEFINE g == Groups(bits)
           k == Span(g, q, pos)
<1>1. g \in Nat
  BY DEF Groups
<1>2. k # 0
  BY DEF Sleb, SlebOf, Fail
<1> HIDE DEF g
<1>3. /\ Span(g, buf, pos) = k /\ Payload(k, buf, pos) = Payload(k, q, pos)
      /\ buf[pos + k] = q[pos + k]
  BY <1>1, <1>2, SpanExtends
<1> HIDE DEF k
<1>4. Sleb(bits, q, pos) = SlebOf(k, bits, q, pos) /\ Sleb(bits, buf, pos) = SlebOf(k, bits, buf, pos)
  BY <1>3 DEF Sleb, g, k
<1>5. SlebOf(k, bits, buf, pos) = SlebOf(k, bits, q, pos)
  BY <1>3, Zenon DEF SlebOf
<1>6. QED BY <1>4, <1>5

\* ... and bytes.
LEMMA BytesAre ==
  ASSUME NEW buf \in Octets, NEW pos \in Nat, NEW n \in Nat, pos <= Len(buf), Bytes(n, buf, pos).ok
  PROVE  LET r == Bytes(n, buf, pos)
         IN /\ r = Ok(SubSeq(buf, pos + 1, pos + n), pos + n) /\ pos + n <= Len(buf)
            /\ r.val \in Octets /\ Len(r.val) = n /\ r.pos = pos + n /\ Holds(buf, pos, r.val)
<1>1. Len(buf) \in Nat
  BY OctetsIs
<1>2. ~(Remaining(buf, pos) < n) /\ Bytes(n, buf, pos) = Ok(SubSeq(buf, pos + 1, pos + n), pos + n)
  BY DEF Bytes, Fail
<1>3. pos + n <= Len(buf)
  BY <1>1, <1>2 DEF Remaining
<1> DEFINE s == SubSeq(buf, pos + 1, pos + n)
<1>4. s \in Octets /\ Len(s) = n /\ Holds(buf, pos, s)
  BY <1>3, PartIs
<1> HIDE DEF s
<1>5. Bytes(n, buf, pos).val = s /\ Bytes(n, buf, pos).pos = pos + n
  BY <1>2 DEF s, Ok
<1>6. QED BY <1>2, <1>3, <1>4, <1>5 DEF s

LEMMA BytesExtend ==
  ASSUME NEW q, NEW buf, Begins(q, buf), NEW pos \in Nat, pos <= Len(q), NEW n \in Nat,
         Bytes(n, q, pos).ok
  PROVE  Bytes(n, buf, pos) = Bytes(n, q, pos)
<1> DEFINE s == SubSeq(q, pos + 1, pos + n)
<1>1. q \in Octets /\ buf \in Octets /\ Len(buf) \in Nat /\ Len(q) \in Nat /\ Len(q) <= Len(buf)
  BY OctetsIs DEF Begins
<1>2. /\ Bytes(n, q, pos) = Ok(s, pos + n) /\ pos + n <= Len(q)
      /\ s \in Octets /\ Len(s) = n /\ Holds(q, pos, s)
  <2>1. Bytes(n, q, pos) = Ok(s, pos + n) /\ pos + n <= Len(q)
    BY <1>1, BytesAre
  <2>2. s \in Octets /\ Len(s) = n /\ Holds(q, pos, s)
    BY <1>1, <2>1, PartIs
  <2>3. QED BY <2>1, <2>2
<1> HIDE DEF s
<1>3. Holds(buf, pos, s) /\ s \in Seq(0..255)
  BY <1>2, StillHolds, OctetsIs
<1>4. SubSeq(buf, pos + 1, pos + n) = s
  BY <1>2, <1>3, SliceIs
<1>5. ~(Remaining(buf, pos) < n)
  BY <1>1, <1>2 DEF Remaining
<1>6. QED BY <1>2, <1>4, <1>5 DEF Bytes

LEMMA ByteIs ==
  ASSUME NEW buf \in Octets, NEW pos \in Nat, pos <= Len(buf), Byte(buf, pos).ok
  PROVE  /\ Byte(buf, pos) = Ok(buf[pos + 1], pos + 1) /\ pos + 1 <= Len(buf)
         /\ buf[pos + 1] \in 0..255
<1>1. ~(Remaining(buf, pos) < 1) /\ Byte(buf, pos) = Ok(buf[pos + 1], pos + 1)
  BY DEF Byte, Fail
<1>2. Len(buf) \in Nat /\ \A i \in 1..Len(buf) : buf[i] \in 0..255
  BY OctetsIs
<1>3. pos + 1 \in 1..Len(buf)
  BY <1>1, <1>2 DEF Remaining
<1>4. QED BY <1>1, <1>2, <1>3
-----------------------------------------------------------------------------
(* Type by type: what is read is a value of the type that would be written in no   *)
(* more bytes; what was written is read back; and what is read is read of every    *)
(* longer buffer too.                                                              *)

\* What r gives was read after pos, and w is what would be written for it.
ReadOf(r, buf, pos, w) ==
  /\ r = Ok(r.val, r.pos) /\ r.pos \in Nat /\ r.pos <= Len(buf)
  /\ w \in Octets /\ pos + Len(w) <= r.pos

LEMMA OkIs == /\ \A x, y : Ok(x, y).ok /\ Ok(x, y).val = x /\ Ok(x, y).pos = y
              /\ ~Fail.ok
BY Zenon DEF Ok, Fail

LEMMA NumbersWritten ==
  /\ \A n \in Nat : EncodeUleb[n] \in Octets /\ Len(EncodeUleb[n]) \in Nat
  /\ \A n \in Int : EncodeSleb[n] \in Octets /\ Len(EncodeSleb[n]) \in Nat
BY UlebWritten, SlebWritten, BufferType DEF Grouped, Octets

LEMMA BitsType == \A t \in Signed \cup Unsigned : Bits(t) \in Nat \ {0} /\ Bits(t) <= Word
<1>1. Int32 \in Nat \ {0} /\ Word \in Nat \ {0} /\ Int32 < Word /\ 21 < Word
  BY WidthAssumption, MantissaAssumption
<1>2. QED BY <1>1 DEF Bits, Signed, Unsigned

LEMMA UlebRead ==
  ASSUME NEW buf \in Octets, NEW pos \in Nat, pos <= Len(buf), NEW bits \in Nat \ {0},
         Uleb(bits, buf, pos).ok
  PROVE  LET r == Uleb(bits, buf, pos)
         IN r.val \in Nat /\ r.val < Pow2[bits] /\ ReadOf(r, buf, pos, EncodeUleb[r.val])
<1> DEFINE r == Uleb(bits, buf, pos)
<1>1. /\ r.val \in Nat /\ r.val < Pow2[bits] /\ r.pos \in Nat /\ r.pos <= Len(buf)
      /\ pos + Len(EncodeUleb[r.val]) <= r.pos
  <2>1. buf \in Seq(0..255)
    BY OctetsIs
  <2>2. QED BY <2>1, UlebInWidth
<1>2. r = Ok(r.val, r.pos)
  <2>1. r = Fail \/ \E x, y : r = Ok(x, y)
    BY DEF Uleb, UlebOf
  <2>2. ~Fail.ok
    BY DEF Fail
  <2>3. \A x, y : Ok(x, y).val = x /\ Ok(x, y).pos = y
    BY DEF Ok
  <2> HIDE DEF r
  <2>4. r.ok
    BY DEF r
  <2>5. QED BY <2>1, <2>2, <2>3, <2>4
<1> HIDE DEF r
<1>3. EncodeUleb[r.val] \in Octets
  BY <1>1, NumbersWritten
<1>4. QED BY <1>1, <1>2, <1>3 DEF ReadOf, r

LEMMA SlebRead ==
  ASSUME NEW buf \in Octets, NEW pos \in Nat, pos <= Len(buf), NEW bits \in Nat \ {0}, bits <= Word,
         Sleb(bits, buf, pos).ok
  PROVE  LET r == Sleb(bits, buf, pos)
         IN r.val \in Int /\ InRange(r.val, bits) /\ ReadOf(r, buf, pos, EncodeSleb[r.val])
<1> DEFINE r == Sleb(bits, buf, pos)
<1>1. /\ r.val \in Int /\ InRange(r.val, bits) /\ r.pos \in Nat /\ r.pos <= Len(buf)
      /\ pos + Len(EncodeSleb[r.val]) <= r.pos
  <2>1. buf \in Seq(0..255)
    BY OctetsIs
  <2>2. QED BY <2>1, SlebInWidth
<1>2. r = Ok(r.val, r.pos)
  <2>1. r = Fail \/ \E x, y : r = Ok(x, y)
    BY Zenon DEF Sleb, SlebOf
  <2>2. ~Fail.ok
    BY DEF Fail
  <2>3. \A x, y : Ok(x, y).val = x /\ Ok(x, y).pos = y
    BY DEF Ok
  <2> HIDE DEF r
  <2>4. r.ok
    BY DEF r
  <2>5. QED BY <2>1, <2>2, <2>3, <2>4
<1> HIDE DEF r
<1>3. EncodeSleb[r.val] \in Octets
  BY <1>1, NumbersWritten
<1>4. QED BY <1>1, <1>2, <1>3 DEF ReadOf, r

\* One byte.
LEMMA ByteHeld ==
  ASSUME NEW buf, NEW pos, NEW a \in 0..255, Holds(buf, pos, <<a>>)
  PROVE  Byte(buf, pos) = Ok(a, pos + 1)
<1>1. buf \in Octets /\ pos \in Nat /\ pos + 1 <= Len(buf) /\ buf[pos + 1] = a
  <2>1. Len(<<a>>) = 1 /\ <<a>>[1] = a /\ 1 \in 1..1
    OBVIOUS
  <2>2. QED BY <2>1 DEF Holds, Octets
<1>2. Len(buf) \in Nat
  BY <1>1, OctetsIs
<1>3. QED BY <1>1, <1>2 DEF Byte, Remaining

LEMMA OneByteWritten ==
  ASSUME NEW a \in 0..255
  PROVE  <<a>> \in Octets /\ Len(<<a>>) = 1
BY DEF Octets

LEMMA BoolWritten ==
  ASSUME NEW v
  PROVE  EncodeBool(v) \in Octets /\ Len(EncodeBool(v)) = 1
<1> DEFINE a == IF v THEN 1 ELSE 0
<1>1. a \in 0..255
  OBVIOUS
<1> HIDE DEF a
<1>2. <<a>> \in Octets /\ Len(<<a>>) = 1
  BY <1>1, OneByteWritten
<1>3. QED BY <1>2 DEF EncodeBool, a

\* bool, and the tags of option and result.
LEMMA BitIs ==
  ASSUME NEW x, NEW at, NEW r, r = Ok(x, at)
  PROVE  [r EXCEPT !.val = @ = 1] = Ok(x = 1, at)
<1>1. r.val = x
  BY DEF Ok
<1> DEFINE y == x = 1
<1>2. [r EXCEPT !.val = y] = Ok(y, at)
  <2> HIDE DEF y
  <2>1. QED BY Replaced
<1>3. QED BY <1>1, <1>2, Zenon

LEMMA PrefixBitRead ==
  ASSUME NEW buf \in Octets, NEW pos \in Nat, pos <= Len(buf), PrefixBit(buf, pos).ok
  PROVE  LET r == PrefixBit(buf, pos)
         IN /\ r.val \in BOOLEAN /\ r.pos = pos + 1 /\ ReadOf(r, buf, pos, EncodeBool(r.val))
            /\ r = Ok(buf[pos + 1] = 1, pos + 1) /\ buf[pos + 1] \in {0, 1}
            /\ pos + 1 <= Len(buf) /\ Byte(buf, pos) = Ok(buf[pos + 1], pos + 1)
<1> DEFINE b == Byte(buf, pos)
           x == buf[pos + 1]
           r == PrefixBit(buf, pos)
<1>1. r = IF b.ok THEN IF b.val \in {0, 1} THEN [b EXCEPT !.val = @ = 1] ELSE Fail ELSE Fail
  BY DEF PrefixBit, Then
<1>2. ~Fail.ok
  BY DEF Fail
<1>3. b.ok /\ b.val \in {0, 1} /\ r = [b EXCEPT !.val = @ = 1]
  <2> HIDE DEF b
  <2>1. r.ok
    OBVIOUS
  <2> HIDE DEF r
  <2>2. QED BY <1>1, <1>2, <2>1
<1>4. b = Ok(x, pos + 1) /\ pos + 1 <= Len(buf)
  BY <1>3, ByteIs
<1>5. x \in {0, 1}
  <2> HIDE DEF b, x
  <2>1. b.val = x
    BY <1>4 DEF Ok
  <2>2. QED BY <1>3, <2>1
<1> HIDE DEF b, x
<1>6. r = Ok(x = 1, pos + 1)
  BY <1>3, <1>4, BitIs
<1> HIDE DEF r
<1>7. r.val = (x = 1) /\ r.pos = pos + 1
  BY <1>6, Zenon DEF Ok
<1>8. r.val \in BOOLEAN
  BY <1>7
<1>9. EncodeBool(r.val) \in Octets /\ Len(EncodeBool(r.val)) = 1
  BY BoolWritten
<1>10. r = Ok(r.val, r.pos)
  BY <1>6, <1>7, Zenon
<1>11. ReadOf(r, buf, pos, EncodeBool(r.val))
  <2>1. r.pos = pos + 1
    BY <1>7
  <2>2. r.pos \in Nat /\ r.pos <= Len(buf) /\ pos + Len(EncodeBool(r.val)) <= r.pos
    BY <1>4, <1>9, <2>1
  <2>3. QED BY <1>9, <1>10, <2>2 DEF ReadOf
<1>12. QED BY <1>4, <1>5, <1>6, <1>7, <1>8, <1>11 DEF r, x, b

LEMMA PrefixBitReadsBack ==
  ASSUME NEW v \in BOOLEAN, NEW buf, NEW pos, Holds(buf, pos, EncodeBool(v))
  PROVE  PrefixBit(buf, pos) = Ok(v, pos + 1)
<1> DEFINE a == IF v THEN 1 ELSE 0
           b == Byte(buf, pos)
<1>1. a \in 0..255 /\ a \in {0, 1} /\ (a = 1) = v
  OBVIOUS
<1>2. Holds(buf, pos, <<a>>)
  BY DEF EncodeBool
<1> HIDE DEF a
<1>3. b = Ok(a, pos + 1)
  BY <1>1, <1>2, ByteHeld
<1>4. b.ok /\ b.val = a
  BY <1>3, OkIs
<1>5. PrefixBit(buf, pos) = IF b.ok THEN IF b.val \in {0, 1} THEN [b EXCEPT !.val = @ = 1] ELSE Fail ELSE Fail
  BY DEF PrefixBit, Then
<1> HIDE DEF b
<1>6. [b EXCEPT !.val = @ = 1] = Ok(a = 1, pos + 1)
  BY <1>3, BitIs
<1>7. PrefixBit(buf, pos) = Ok(a = 1, pos + 1)
  BY <1>1, <1>4, <1>5, <1>6
<1>8. QED BY <1>1, <1>7, Zenon

LEMMA PrefixBitExtends ==
  ASSUME NEW q, NEW buf, Begins(q, buf), NEW pos \in Nat, pos <= Len(q), PrefixBit(q, pos).ok
  PROVE  PrefixBit(buf, pos) = PrefixBit(q, pos)
<1>1. q \in Octets /\ buf \in Octets /\ Len(q) \in Nat /\ Len(buf) \in Nat /\ Len(q) <= Len(buf)
  BY OctetsIs DEF Begins
<1>2. pos + 1 <= Len(q) /\ Byte(q, pos) = Ok(q[pos + 1], pos + 1)
  BY <1>1, PrefixBitRead
<1>3. buf[pos + 1] = q[pos + 1]
  <2>1. pos + 1 \in 1..Len(q)
    BY <1>1, <1>2
  <2>2. QED BY <2>1 DEF Begins
<1>4. Byte(buf, pos) = Ok(buf[pos + 1], pos + 1)
  BY <1>1, <1>2 DEF Byte, Remaining
<1>5. Byte(buf, pos) = Byte(q, pos)
  BY <1>2, <1>3, <1>4
<1>6. QED BY <1>5, Zenon DEF PrefixBit

\* What two parts in a row hold.
LEMMA Concat ==
  ASSUME NEW s \in Octets, NEW t \in Octets
  PROVE  s \o t \in Octets /\ Len(s \o t) = Len(s) + Len(t) /\ Len(s) \in Nat /\ Len(t) \in Nat
<1> DEFINE Octet == 0..255
<1>1. s \in Seq(Octet) /\ t \in Seq(Octet)
  BY DEF Octets
<1> HIDE DEF Octet
<1>2. s \o t \in Seq(Octet) /\ Len(s \o t) = Len(s) + Len(t) /\ Len(s) \in Nat /\ Len(t) \in Nat
  BY <1>1
<1>3. QED BY <1>2 DEF Octet, Octets

LEMMA HeldParts ==
  ASSUME NEW s \in Octets, NEW t \in Octets, NEW buf, NEW pos, Holds(buf, pos, s \o t)
  PROVE  /\ Holds(buf, pos, s) /\ Holds(buf, pos + Len(s), t)
         /\ pos + Len(s) \in Nat /\ pos + Len(s \o t) = (pos + Len(s)) + Len(t)
<1> DEFINE Octet == 0..255
           u == s \o t
           at == pos + Len(s)
<1>1. s \in Seq(Octet) /\ t \in Seq(Octet) /\ Len(s) \in Nat /\ Len(t) \in Nat
  BY Concat DEF Octets
<1> HIDE DEF Octet
<1>2. /\ Len(u) = Len(s) + Len(t)
      /\ \A i \in 1..Len(s) + Len(t) : u[i] = IF i <= Len(s) THEN s[i] ELSE t[i - Len(s)]
  BY <1>1, ConcatProperties
<1>3. /\ buf \in Seq(0..255) /\ buf \in Octets /\ pos \in Nat /\ pos + Len(u) <= Len(buf)
      /\ \A i \in 1..Len(u) : buf[pos + i] = u[i]
  BY DEF Holds, Octets
<1> HIDE DEF u
<1>4. Len(buf) \in Nat
  BY <1>3, OctetsIs
<1>5. Holds(buf, pos, s)
  <2>1. pos + Len(s) <= Len(buf)
    BY <1>1, <1>2, <1>3, <1>4
  <2>2. \A i \in 1..Len(s) : i \in 1..Len(s) + Len(t) /\ i <= Len(s)
    BY <1>1
  <2>3. QED BY <1>2, <1>3, <2>1, <2>2 DEF Holds
<1>6. Holds(buf, at, t)
  <2>1. at \in Nat /\ at + Len(t) <= Len(buf)
    BY <1>1, <1>2, <1>3, <1>4
  <2>2. ASSUME NEW i \in 1..Len(t)
        PROVE  buf[at + i] = t[i]
    <3>1. Len(s) + i \in 1..Len(s) + Len(t) /\ ~(Len(s) + i <= Len(s)) /\ (Len(s) + i) - Len(s) = i
      BY <1>1
    <3>2. u[Len(s) + i] = t[i]
      BY <1>2, <3>1
    <3>3. buf[pos + (Len(s) + i)] = t[i]
      BY <1>2, <1>3, <3>1, <3>2
    <3>4. pos + (Len(s) + i) = at + i
      BY <1>1, <1>3
    <3>5. QED BY <3>3, <3>4
  <2> HIDE DEF at
  <2>3. QED BY <1>3, <2>1, <2>2 DEF Holds
<1>7. QED BY <1>1, <1>2, <1>3, <1>5, <1>6 DEF u

LEMMA HoldsItself ==
  ASSUME NEW s \in Octets
  PROVE  Holds(s, 0, s)
<1>1. s \in Seq(0..255) /\ Len(s) \in Nat
  BY OctetsIs
<1>2. \A i \in 1..Len(s) : 0 + i = i
  BY <1>1
<1>3. QED BY <1>1, <1>2 DEF Holds

\* A number that is held is the only one that can be read.
LEMMA SpanOnly ==
  ASSUME NEW s, Grouped(s), NEW buf, NEW pos, Holds(buf, pos, s), NEW g \in Nat, Span(g, buf, pos) # 0
  PROVE  /\ Span(g, buf, pos) = Len(s) /\ Payload(Len(s), buf, pos) = Value[s]
         /\ buf[pos + Len(s)] = s[Len(s)]
         /\ buf \in Octets /\ pos \in Nat /\ pos <= Len(buf)
<1> DEFINE k == Span(g, buf, pos)
<1>1. s \in Seq(0..255) /\ Len(s) \in Nat \ {0}
  BY BufferType DEF Grouped
<1>2. /\ buf \in Octets /\ buf \in Seq(0..255) /\ pos \in Nat /\ pos + Len(s) <= Len(buf)
      /\ \A i \in 1..Len(s) : buf[pos + i] = s[i]
  BY DEF Holds, Octets
<1>3. Len(buf) \in Nat /\ pos <= Len(buf) /\ Len(s) \in 1..Len(s)
  BY <1>1, <1>2, OctetsIs
<1>4. /\ k \in Nat \ {0} /\ k <= g
      /\ SubSeq(buf, pos + 1, pos + k)[k] = buf[pos + k] /\ Grouped(SubSeq(buf, pos + 1, pos + k))
      /\ Len(SubSeq(buf, pos + 1, pos + k)) = k
  BY <1>2, <1>3, SpanGrouped
<1> HIDE DEF k
<1>5. ~(buf[pos + k] >= 128)
  <2> DEFINE p == SubSeq(buf, pos + 1, pos + k)
  <2>1. k \in 1..k /\ ~(k < k)
    BY <1>4
  <2> HIDE DEF p
  <2>2. \A i \in 1..Len(p) : i < Len(p) <=> p[i] >= 128
    BY <1>4 DEF Grouped, p
  <2>3. Len(p) = k /\ p[k] = buf[pos + k]
    BY <1>4 DEF p
  <2>4. QED BY <2>1, <2>2, <2>3
<1>6. Len(s) <= g
  <2>1. ASSUME k < Len(s)
        PROVE  FALSE
    <3>1. k \in 1..Len(s)
      BY <1>1, <1>4, <2>1
    <3>2. s[k] >= 128
      BY <1>1, <2>1, <3>1 DEF Grouped
    <3>3. QED BY <1>2, <1>5, <3>1, <3>2
  <2>2. QED BY <1>1, <1>4, <2>1
<1>7. k = Len(s)
  BY <1>6, SpanIs DEF k
<1>8. Payload(Len(s), buf, pos) = Value[s]
  BY <1>1, PayloadIs
<1>9. QED BY <1>2, <1>3, <1>7, <1>8 DEF k

LEMMA UlebOnly ==
  ASSUME NEW bits \in Nat \ {0}, NEW v \in Nat, NEW buf, NEW pos, Holds(buf, pos, EncodeUleb[v]),
         Uleb(bits, buf, pos).ok
  PROVE  v < Pow2[bits] /\ Uleb(bits, buf, pos) = Ok(v, pos + Len(EncodeUleb[v]))
<1> DEFINE s == EncodeUleb[v]
           g == Groups(bits)
           k == Span(g, buf, pos)
<1>1. Grouped(s) /\ Value[s] = v
  BY UlebWritten
<1>2. g \in Nat
  BY DEF Groups
<1>3. k # 0 /\ Uleb(bits, buf, pos) = Ok(Payload(k, buf, pos), pos + k)
  BY OkIs DEF Uleb, UlebOf
<1> HIDE DEF g
<1>4. k = Len(s) /\ Payload(Len(s), buf, pos) = v /\ buf \in Octets /\ pos \in Nat /\ pos <= Len(buf)
  BY <1>1, <1>2, <1>3, SpanOnly
<1>5. Uleb(bits, buf, pos) = Ok(v, pos + Len(s))
  BY <1>3, <1>4
<1>6. Uleb(bits, buf, pos).val < Pow2[bits]
  BY <1>4, UlebRead
<1>7. QED BY <1>5, <1>6, OkIs

LEMMA SlebOnly ==
  ASSUME NEW bits \in Nat \ {0}, bits <= Word, NEW v \in Int,
         NEW buf, NEW pos, Holds(buf, pos, EncodeSleb[v]), Sleb(bits, buf, pos).ok
  PROVE  InRange(v, bits)
<1> DEFINE s == EncodeSleb[v]
           g == Groups(bits)
           k == Span(g, buf, pos)
<1>1. Grouped(s) /\ SignedValue(s) = v
  BY SlebWritten
<1>2. g \in Nat
  BY DEF Groups
<1>3. k # 0 /\ Sleb(bits, buf, pos) = Ok(Payload(k, buf, pos) - (IF buf[pos + k] >= 64 THEN Pow2[7 * k] ELSE 0), pos + k)
  BY OkIs DEF Sleb, SlebOf
<1> HIDE DEF g
<1>4. /\ k = Len(s) /\ Payload(Len(s), buf, pos) = Value[s] /\ buf[pos + Len(s)] = s[Len(s)]
      /\ buf \in Octets /\ pos \in Nat /\ pos <= Len(buf)
  BY <1>1, <1>2, <1>3, SpanOnly
<1>5. Sleb(bits, buf, pos) = Ok(v, pos + Len(s))
  BY <1>1, <1>3, <1>4 DEF SignedValue
<1>6. InRange(Sleb(bits, buf, pos).val, bits)
  BY <1>4, SlebRead
<1>7. QED BY <1>5, <1>6, OkIs

\* char
LEMMA CharIs ==
  ASSUME NEW buf, NEW pos, Char(buf, pos).ok
  PROVE  Char(buf, pos) = Uleb(21, buf, pos) /\ Uleb(21, buf, pos).ok /\ IsScalar(Uleb(21, buf, pos).val)
BY OkIs DEF Char, Then

LEMMA ScalarBits == \A n \in Nat : IsScalar(n) => n < Pow2[21]
<1>1. Pow2[7] = 128 /\ Pow2[7 + 7] = 128 * Pow2[7] /\ Pow2[14 + 7] = 128 * Pow2[14]
  BY Pow2Group
<1>2. 7 + 7 = 14 /\ 14 + 7 = 21
  OBVIOUS
<1>3. Pow2[21] = 2097152
  BY <1>1, <1>2
<1>4. QED BY <1>3, SMT DEF IsScalar

LEMMA CharReadsBack ==
  ASSUME NEW v \in Nat, NEW buf, NEW pos, Holds(buf, pos, EncodeUleb[v])
  PROVE  Char(buf, pos) = IF IsScalar(v) THEN Ok(v, pos + Len(EncodeUleb[v])) ELSE Fail
<1> DEFINE n == Uleb(21, buf, pos)
           r == Ok(v, pos + Len(EncodeUleb[v]))
<1>1. Char(buf, pos) = IF n.ok THEN IF IsScalar(n.val) THEN n ELSE Fail ELSE Fail
  BY DEF Char, Then
<1>2. n.ok => n = r
  BY UlebOnly
<1>3. IsScalar(v) => n = r
  BY ScalarBits, UlebReadsBack
<1>4. r.ok /\ r.val = v
  BY OkIs
<1> HIDE DEF n, r
<1>5. QED BY <1>1, <1>2, <1>3, <1>4 DEF r

LEMMA CharExtends ==
  ASSUME NEW q, NEW buf, Begins(q, buf), NEW pos \in Nat, pos <= Len(q), Char(q, pos).ok
  PROVE  Char(buf, pos) = Char(q, pos)
<1>1. Uleb(21, buf, pos) = Uleb(21, q, pos)
  BY CharIs, UlebExtends
<1>2. QED BY <1>1, Zenon DEF Char

\* enum
LEMMA CaseIs ==
  ASSUME NEW buf, NEW pos, NEW n, Case(n, buf, pos).ok
  PROVE  Case(n, buf, pos) = Uleb(Int32, buf, pos) /\ Uleb(Int32, buf, pos).ok
         /\ ~(Uleb(Int32, buf, pos).val >= n)
BY OkIs DEF Case, Then

LEMMA SmallFits == \A n \in 0..2 : n \in Nat /\ n < Pow2[Int32]
<1>1. Int32 \in Nat /\ Int32 % 7 > 1 /\ 2 \in 0..Int32
  BY WidthAssumption
<1>2. Pow2[2] <= Pow2[Int32] /\ Pow2[Int32] \in Nat
  BY <1>1, Pow2Grows, Pow2Type
<1>3. Pow2[0 + 1] = 2 * Pow2[0] /\ Pow2[1 + 1] = 2 * Pow2[1] /\ Pow2[0] = 1 /\ 0 + 1 = 1 /\ 1 + 1 = 2
  BY Pow2Is
<1>4. QED BY <1>2, <1>3

LEMMA CaseReadsBack ==
  ASSUME NEW v \in 0..2, NEW buf, NEW pos, Holds(buf, pos, EncodeUleb[v])
  PROVE  Case(3, buf, pos) = Ok(v, pos + Len(EncodeUleb[v]))
<1> DEFINE n == Uleb(Int32, buf, pos)
           r == Ok(v, pos + Len(EncodeUleb[v]))
<1>1. Case(3, buf, pos) = IF n.ok THEN IF n.val >= 3 THEN Fail ELSE n ELSE Fail
  BY DEF Case, Then
<1>2. v \in Nat /\ v < Pow2[Int32] /\ Int32 \in Nat \ {0}
  BY SmallFits, WidthAssumption
<1>3. n = r
  BY <1>2, UlebReadsBack
<1>4. r.ok /\ r.val = v /\ ~(v >= 3)
  BY OkIs
<1> HIDE DEF n, r
<1>5. QED BY <1>1, <1>3, <1>4 DEF r

LEMMA CaseExtends ==
  ASSUME NEW q, NEW buf, Begins(q, buf), NEW pos \in Nat, pos <= Len(q), NEW n, Case(n, q, pos).ok
  PROVE  Case(n, buf, pos) = Case(n, q, pos)
<1>1. Uleb(Int32, buf, pos) = Uleb(Int32, q, pos)
  BY CaseIs, UlebExtends, WidthAssumption
<1>2. QED BY <1>1, Zenon DEF Case

\* string
LEMMA StringIs ==
  ASSUME NEW buf, NEW pos, String(buf, pos).ok
  PROVE  LET n == Uleb(Int32, buf, pos)
             b == Bytes(n.val, buf, n.pos)
         IN n.ok /\ b.ok /\ Utf8Valid(b.val) /\ String(buf, pos) = b
<1> DEFINE n == Uleb(Int32, buf, pos)
           b == Bytes(n.val, buf, n.pos)
<1>1. String(buf, pos) = IF n.ok THEN IF b.ok THEN IF Utf8Valid(b.val) THEN b ELSE Fail
                                      ELSE Fail ELSE Fail
  BY DEF String, Then
<1> HIDE DEF n, b
<1>2. String(buf, pos).ok /\ ~Fail.ok
  BY OkIs
<1> HIDE DEF String
<1>3. n.ok /\ b.ok /\ Utf8Valid(b.val) /\ String(buf, pos) = b
  BY <1>1, <1>2
<1>4. QED BY <1>3 DEF n, b

LEMMA StringRead ==
  ASSUME NEW buf \in Octets, NEW pos \in Nat, pos <= Len(buf), String(buf, pos).ok
  PROVE  LET r == String(buf, pos)
         IN /\ r.val \in Octets /\ Len(r.val) < Pow2[Int32] /\ Utf8Valid(r.val)
            /\ ReadOf(r, buf, pos, EncodeString(r.val))
<1> DEFINE n == Uleb(Int32, buf, pos)
           r == String(buf, pos)
           w == EncodeUleb[n.val]
<1>1. n.ok /\ Bytes(n.val, buf, n.pos).ok /\ Utf8Valid(r.val) /\ r = Bytes(n.val, buf, n.pos)
  BY StringIs, Zenon
<1>2. Int32 \in Nat \ {0}
  BY WidthAssumption
<1>3. n.val \in Nat /\ n.val < Pow2[Int32] /\ ReadOf(n, buf, pos, w)
  BY <1>1, <1>2, UlebRead
<1> HIDE DEF n, r
<1>4. n.pos \in Nat /\ n.pos <= Len(buf) /\ w \in Octets /\ pos + Len(w) <= n.pos
  BY <1>3 DEF ReadOf
<1>5. /\ r.val \in Octets /\ Len(r.val) = n.val /\ r.pos = n.pos + n.val /\ r.pos <= Len(buf)
      /\ r = Ok(SubSeq(buf, n.pos + 1, n.pos + n.val), n.pos + n.val)
  BY <1>1, <1>3, <1>4, BytesAre
<1>6. r = Ok(r.val, r.pos)
  BY <1>5, OkIs
<1>7. EncodeString(r.val) = w \o r.val
  BY <1>5 DEF EncodeString
<1> HIDE DEF w
<1>8. w \o r.val \in Octets /\ Len(w \o r.val) = Len(w) + Len(r.val) /\ Len(w) \in Nat
  BY <1>4, <1>5, Concat
<1>9. pos + Len(w \o r.val) <= r.pos /\ r.pos \in Nat
  BY <1>3, <1>4, <1>5, <1>8
<1>10. ReadOf(r, buf, pos, EncodeString(r.val))
  BY <1>5, <1>6, <1>7, <1>8, <1>9 DEF ReadOf
<1>11. QED BY <1>1, <1>3, <1>5, <1>10 DEF r

LEMMA StringExtends ==
  ASSUME NEW q, NEW buf, Begins(q, buf), NEW pos \in Nat, pos <= Len(q), String(q, pos).ok
  PROVE  String(buf, pos) = String(q, pos)
<1> DEFINE n == Uleb(Int32, q, pos)
<1>1. n.ok /\ Bytes(n.val, q, n.pos).ok
  BY StringIs, Zenon
<1>2. Int32 \in Nat \ {0} /\ q \in Octets
  BY WidthAssumption DEF Begins
<1>3. n.val \in Nat /\ n.pos \in Nat /\ n.pos <= Len(q)
  BY <1>1, <1>2, UlebRead DEF ReadOf
<1>4. Uleb(Int32, buf, pos) = n
  BY <1>1, <1>2, UlebExtends
<1> HIDE DEF n
<1>5. Bytes(n.val, buf, n.pos) = Bytes(n.val, q, n.pos)
  BY <1>1, <1>3, BytesExtend
<1>6. Uleb(Int32, buf, pos) = Uleb(Int32, q, pos)
  BY <1>4 DEF n
<1>7. QED BY <1>4, <1>5, <1>6, Zenon DEF String, Then

\* A number that is held is read if it has the width, and otherwise nothing is.
LEMMA UlebReads ==
  ASSUME NEW bits \in Nat \ {0}, NEW v \in Nat, NEW buf, NEW pos, Holds(buf, pos, EncodeUleb[v])
  PROVE  Uleb(bits, buf, pos) = IF v < Pow2[bits] THEN Ok(v, pos + Len(EncodeUleb[v])) ELSE Fail
<1>1. CASE v < Pow2[bits]
  BY <1>1, UlebReadsBack
<1>2. CASE ~(v < Pow2[bits])
  <2>1. ~Uleb(bits, buf, pos).ok
    BY <1>2, UlebOnly
  <2>2. Uleb(bits, buf, pos) = Fail \/ \E x, y : Uleb(bits, buf, pos) = Ok(x, y)
    BY DEF Uleb, UlebOf
  <2>3. QED BY <1>2, <2>1, <2>2, OkIs
<1>3. QED BY <1>1, <1>2

LEMMA SlebReads ==
  ASSUME NEW bits \in Nat \ {0}, bits <= Word, NEW v \in Int, NEW buf, NEW pos, Holds(buf, pos, EncodeSleb[v])
  PROVE  Sleb(bits, buf, pos) = IF InRange(v, bits) THEN Ok(v, pos + Len(EncodeSleb[v])) ELSE Fail
<1>1. CASE InRange(v, bits)
  BY <1>1, SlebReadsBack
<1>2. CASE ~InRange(v, bits)
  <2>1. ~Sleb(bits, buf, pos).ok
    BY <1>2, SlebOnly
  <2>2. Sleb(bits, buf, pos) = Fail \/ \E x, y : Sleb(bits, buf, pos) = Ok(x, y)
    BY Zenon DEF Sleb, SlebOf
  <2>3. QED BY <1>2, <2>1, <2>2, OkIs
<1>3. QED BY <1>1, <1>2

LEMMA Pow2Byte == Pow2[8] = 256
<1>1. Pow2[7 + 1] = 2 * Pow2[7] /\ Pow2[7] = 128 /\ 7 + 1 = 8
  BY Pow2Is, Pow2Group
<1>2. QED BY <1>1

\* option
LEMMA OptionIs ==
  ASSUME NEW buf, NEW pos
  PROVE  LET tag == PrefixBit(buf, pos)
         IN Option(buf, pos) = IF tag.ok
                               THEN IF tag.val THEN Uleb(8, buf, tag.pos) ELSE [tag EXCEPT !.val = None]
                               ELSE Fail
BY Zenon DEF Option, Then

LEMMA OptionWritten ==
  /\ EncodeOption(None) = <<0>> /\ <<0>> \in Octets /\ Len(<<0>>) = 1 /\ <<0>> = EncodeBool(FALSE)
  /\ \A n \in Nat : /\ EncodeOption(n) = <<1>> \o EncodeUleb[n] /\ <<1>> \in Octets /\ <<1>> = EncodeBool(TRUE)
                    /\ EncodeOption(n) \in Octets /\ Len(EncodeOption(n)) = Len(EncodeUleb[n]) + 1 /\ Len(<<1>>) = 1
<1>1. <<0>> \in Octets /\ <<1>> \in Octets /\ Len(<<0>>) = 1 /\ Len(<<1>>) = 1
  <2>1. 0 \in 0..255 /\ 1 \in 0..255
    OBVIOUS
  <2>2. QED BY <2>1, OneByteWritten
<1>2. EncodeOption(None) = <<0>>
  BY DEF EncodeOption
<1>3. ASSUME NEW n \in Nat
      PROVE  /\ EncodeOption(n) = <<1>> \o EncodeUleb[n]
             /\ EncodeOption(n) \in Octets /\ Len(EncodeOption(n)) = Len(EncodeUleb[n]) + 1
  <2>1. EncodeOption(n) = <<1>> \o EncodeUleb[n]
    BY NoneAssumption DEF EncodeOption
  <2> DEFINE w == EncodeUleb[n]
  <2>2. w \in Octets
    BY NumbersWritten
  <2> HIDE DEF w
  <2>3. 1 \in 0..255
    OBVIOUS
  <2>4. <<1>> \o w \in Octets /\ Len(<<1>> \o w) = Len(w) + 1
    BY <2>2, <2>3, Prefixed
  <2>5. QED BY <2>1, <2>4 DEF w
<1>4. <<0>> = EncodeBool(FALSE) /\ <<1>> = EncodeBool(TRUE)
  BY DEF EncodeBool
<1>5. QED BY <1>1, <1>2, <1>3, <1>4

LEMMA OptionRead ==
  ASSUME NEW buf \in Octets, NEW pos \in Nat, pos <= Len(buf), Option(buf, pos).ok
  PROVE  LET r == Option(buf, pos)
         IN (r.val = None \/ (r.val \in Nat /\ r.val < 256)) /\ ReadOf(r, buf, pos, EncodeOption(r.val))
<1> DEFINE tag == PrefixBit(buf, pos)
           r == Option(buf, pos)
           n == Uleb(8, buf, pos + 1)
<1>1. r = IF tag.ok THEN IF tag.val THEN Uleb(8, buf, tag.pos) ELSE [tag EXCEPT !.val = None] ELSE Fail
  BY OptionIs, Zenon
<1>2. tag.ok
  <2> HIDE DEF tag
  <2>1. r.ok /\ ~Fail.ok
    BY OkIs
  <2> HIDE DEF r
  <2>2. QED BY <1>1, <2>1
<1>3. tag.val \in BOOLEAN /\ tag.pos = pos + 1 /\ tag = Ok(tag.val, tag.pos) /\ pos + 1 \in Nat /\ pos + 1 <= Len(buf)
  <2>1. tag.val \in BOOLEAN /\ tag.pos = pos + 1 /\ ReadOf(tag, buf, pos, EncodeBool(tag.val))
    BY <1>2, PrefixBitRead
  <2> HIDE DEF tag
  <2>2. QED BY <2>1 DEF ReadOf
<1> HIDE DEF tag
<1>4. CASE tag.val
  <2>1. r = n /\ n.ok
    <3>1. r = n
      BY <1>1, <1>2, <1>3, <1>4
    <3>2. r.ok
      OBVIOUS
    <3> HIDE DEF r, n
    <3>3. QED BY <3>1, <3>2
  <2>2. n.val \in Nat /\ n.val < 256 /\ ReadOf(n, buf, pos + 1, EncodeUleb[n.val])
    BY <1>3, <2>1, UlebRead, Pow2Byte
  <2> HIDE DEF n, r
  <2> DEFINE w == EncodeOption(n.val)
             u == EncodeUleb[n.val]
  <2>3. w \in Octets /\ Len(w) = Len(u) + 1 /\ Len(u) \in Nat
    BY <2>2, OptionWritten, NumbersWritten
  <2>4. n = Ok(n.val, n.pos) /\ n.pos \in Nat /\ n.pos <= Len(buf) /\ (pos + 1) + Len(u) <= n.pos
    BY <2>2 DEF ReadOf
  <2> HIDE DEF w, u
  <2>5. pos + Len(w) <= n.pos
    BY <2>3, <2>4
  <2>6. ReadOf(n, buf, pos, w)
    BY <2>3, <2>4, <2>5 DEF ReadOf
  <2>7. QED BY <2>1, <2>2, <2>6 DEF w, r
<1>5. CASE ~tag.val
  <2>1. r = [tag EXCEPT !.val = None]
    BY <1>1, <1>2, <1>5
  <2>2. r = Ok(None, pos + 1)
    <3> DEFINE v == tag.val
               at == tag.pos
    <3>1. tag = Ok(v, at)
      BY <1>3
    <3> HIDE DEF v, at
    <3>2. [tag EXCEPT !.val = None] = Ok(None, at)
      BY <3>1, Replaced
    <3> HIDE DEF r
    <3>3. QED BY <1>3, <2>1, <3>2 DEF at
  <2> HIDE DEF r
  <2>3. r.val = None /\ r.pos = pos + 1
    BY <2>2, OkIs
  <2>4. pos + Len(EncodeOption(None)) <= pos + 1 /\ EncodeOption(None) \in Octets
    BY OptionWritten
  <2>5. ReadOf(r, buf, pos, EncodeOption(None))
    BY <1>3, <2>2, <2>3, <2>4 DEF ReadOf
  <2>6. QED BY <2>3, <2>5 DEF r
<1>6. QED BY <1>3, <1>4, <1>5

LEMMA OptionReads ==
  ASSUME NEW v \in Nat \cup {None}, NEW buf, NEW pos, Holds(buf, pos, EncodeOption(v))
  PROVE  Option(buf, pos) = IF v = None \/ v < 256 THEN Ok(v, pos + Len(EncodeOption(v))) ELSE Fail
<1> DEFINE tag == PrefixBit(buf, pos)
<1>1. Option(buf, pos) = IF tag.ok THEN IF tag.val THEN Uleb(8, buf, tag.pos) ELSE [tag EXCEPT !.val = None] ELSE Fail
  BY OptionIs, Zenon
<1>2. CASE v = None
  <2>1. tag = Ok(FALSE, pos + 1)
    BY <1>2, OptionWritten, PrefixBitReadsBack
  <2> HIDE DEF tag
  <2>2. tag.ok /\ ~tag.val
    BY <2>1, OkIs, Zenon
  <2>3. [tag EXCEPT !.val = None] = Ok(None, pos + 1)
    <3> DEFINE f == FALSE
    <3> HIDE DEF f
    <3>1. tag = Ok(f, pos + 1)
      BY <2>1 DEF f
    <3>2. QED BY <3>1, Replaced
  <2>4. Option(buf, pos) = Ok(None, pos + 1)
    BY <1>1, <2>2, <2>3
  <2>5. QED BY <1>2, <2>4, OptionWritten
<1>3. CASE v # None
  <2>1. v \in Nat /\ EncodeOption(v) = <<1>> \o EncodeUleb[v] /\ <<1>> \in Octets /\ EncodeUleb[v] \in Octets
    BY <1>3, OptionWritten, NumbersWritten
  <2> DEFINE u == EncodeUleb[v]
             o == <<1>>
  <2>2. o = EncodeBool(TRUE) /\ Len(o) = 1
    BY <2>1, OptionWritten
  <2>3. o \in Octets /\ u \in Octets /\ Holds(buf, pos, o \o u)
    BY <2>1
  <2> HIDE DEF o, u
  <2>4. /\ Holds(buf, pos, o) /\ Holds(buf, pos + 1, u)
        /\ pos + Len(EncodeOption(v)) = (pos + 1) + Len(u)
    <3>1. /\ Holds(buf, pos, o) /\ Holds(buf, pos + Len(o), u)
          /\ pos + Len(o \o u) = (pos + Len(o)) + Len(u)
      BY <2>3, HeldParts
    <3>2. EncodeOption(v) = o \o u
      BY <2>1 DEF o, u
    <3>3. QED BY <2>2, <3>1, <3>2
  <2>5. tag = Ok(TRUE, pos + 1)
    BY <2>2, <2>4, PrefixBitReadsBack
  <2> HIDE DEF tag
  <2>6. tag.ok /\ tag.val /\ tag.pos = pos + 1
    BY <2>5, OkIs, Zenon
  <2>7. Option(buf, pos) = Uleb(8, buf, pos + 1)
    BY <1>1, <2>6
  <2>8. Uleb(8, buf, pos + 1) = IF v < 256 THEN Ok(v, (pos + 1) + Len(u)) ELSE Fail
    BY <2>1, <2>4, UlebReads, Pow2Byte DEF u
  <2>9. QED BY <1>3, <2>4, <2>7, <2>8
<1>4. QED BY <1>2, <1>3

LEMMA OptionExtends ==
  ASSUME NEW q, NEW buf, Begins(q, buf), NEW pos \in Nat, pos <= Len(q), Option(q, pos).ok
  PROVE  Option(buf, pos) = Option(q, pos)
<1> DEFINE tag == PrefixBit(q, pos)
<1>0. q \in Octets
  BY DEF Begins
<1>1. Option(q, pos) = IF tag.ok THEN IF tag.val THEN Uleb(8, q, tag.pos) ELSE [tag EXCEPT !.val = None] ELSE Fail
  BY OptionIs, Zenon
<1>2. tag.ok
  <2> HIDE DEF tag
  <2>1. Option(q, pos).ok /\ ~Fail.ok
    BY OkIs
  <2> HIDE DEF Option
  <2>2. QED BY <1>1, <2>1
<1>3. tag.val \in BOOLEAN /\ tag.pos \in Nat /\ tag.pos <= Len(q)
  BY <1>0, <1>2, PrefixBitRead DEF ReadOf
<1>4. PrefixBit(buf, pos) = tag
  BY <1>2, PrefixBitExtends
<1>5. Option(buf, pos) = IF tag.ok THEN IF tag.val THEN Uleb(8, buf, tag.pos) ELSE [tag EXCEPT !.val = None] ELSE Fail
  BY <1>4, OptionIs, Zenon
<1> HIDE DEF tag
<1>6. CASE tag.val
  <2>1. Option(q, pos) = Uleb(8, q, tag.pos)
    BY <1>1, <1>2, <1>6
  <2>2. Uleb(8, q, tag.pos).ok
    BY <2>1
  <2>3. Uleb(8, buf, tag.pos) = Uleb(8, q, tag.pos)
    BY <1>3, <2>2, UlebExtends
  <2>4. QED BY <1>1, <1>5, <1>6, <2>3
<1>7. CASE ~tag.val
  BY <1>1, <1>5, <1>7
<1>8. QED BY <1>6, <1>7

\* list
LEMMA FirstAndRest ==
  ASSUME NEW x \in Nat, NEW t \in Seq(Nat)
  PROVE  /\ <<x>> \o t \in Seq(Nat) /\ <<x>> \o t # <<>> /\ Len(<<x>> \o t) = Len(t) + 1
         /\ Head(<<x>> \o t) = x /\ Tail(<<x>> \o t) = t
<1> DEFINE p == <<x>> \o t
<1>1. p \in Seq(Nat) /\ Len(p) = Len(t) + 1 /\ p # <<>> /\ p[1] = x /\ \A i \in 1..Len(t) : p[i + 1] = t[i]
  OBVIOUS
<1> HIDE DEF p
<1>2. Head(p) = x
  BY <1>1
<1>3. Tail(p) \in Seq(Nat) /\ Len(Tail(p)) = Len(t) /\ \A i \in 1..Len(t) : Tail(p)[i] = p[i + 1]
  BY <1>1
<1>4. Tail(p) = t
  BY <1>1, <1>3, SeqEqual
<1>5. QED BY <1>1, <1>2, <1>4 DEF p

LEMMA TakenApart ==
  ASSUME NEW s \in Seq(Nat), s # <<>>
  PROVE  /\ Head(s) \in Nat /\ Tail(s) \in Seq(Nat) /\ s = <<Head(s)>> \o Tail(s)
         /\ Len(s) = Len(Tail(s)) + 1 /\ Len(Tail(s)) \in Nat
<1> DEFINE x == Head(s)
           t == Tail(s)
<1>1. x \in Nat /\ t \in Seq(Nat) /\ Len(t) = Len(s) - 1 /\ Len(s) \in Nat /\ s[1] = x /\ Len(t) \in Nat
      /\ \A i \in 1..Len(t) : t[i] = s[i + 1]
  BY HeadTailProperties
<1> DEFINE p == <<x>> \o t
<1> HIDE DEF x, t
<1>2. p \in Seq(Nat) /\ Len(p) = Len(t) + 1 /\ p[1] = x /\ \A i \in 1..Len(t) : p[i + 1] = t[i]
  BY <1>1
<1> HIDE DEF p
<1>3. \A i \in 1..Len(s) : p[i] = s[i]
  <2> SUFFICES ASSUME NEW i \in 1..Len(s) PROVE p[i] = s[i]
    OBVIOUS
  <2>1. CASE i = 1
    BY <1>1, <1>2, <2>1
  <2>2. CASE i # 1
    <3>1. i - 1 \in 1..Len(t) /\ (i - 1) + 1 = i
      BY <1>1, <2>2
    <3>2. QED BY <1>1, <1>2, <3>1
  <2>3. QED BY <2>1, <2>2
<1>4. p = s
  <2>1. Len(p) = Len(s)
    BY <1>1, <1>2
  <2>2. QED BY <1>2, <1>3, <2>1, SeqEqual
<1>5. Len(s) = Len(t) + 1
  BY <1>1
<1>6. QED BY <1>1, <1>4, <1>5 DEF p, x, t

LEMMA NoElements == /\ EncodeElements[<<>>] = <<>> /\ <<>> \in Seq(Nat) /\ <<>> \in Octets /\ Len(<<>>) = 0
<1>1. <<>> \in Seq(Nat) /\ <<>> \in Octets /\ Len(<<>>) = 0
  BY DEF Octets
<1>2. QED BY <1>1, EncodeElementsIs

LEMMA ElementsWritten ==
  \A k \in Nat : \A s \in Seq(Nat) : Len(s) = k => EncodeElements[s] \in Octets
<1> DEFINE A == {k \in Nat : \A s \in Seq(Nat) : Len(s) = k => EncodeElements[s] \in Octets}
<1>1. 0 \in A
  BY NoElements
<1>2. ASSUME NEW k \in Nat, k \in A
      PROVE  k + 1 \in A
  <2> SUFFICES ASSUME NEW s \in Seq(Nat), Len(s) = k + 1
               PROVE  EncodeElements[s] \in Octets
    OBVIOUS
  <2>1. s # <<>>
    BY NoElements
  <2>2. Head(s) \in Nat /\ Tail(s) \in Seq(Nat) /\ Len(s) = Len(Tail(s)) + 1 /\ Len(Tail(s)) \in Nat
    BY <2>1, TakenApart
  <2>3. EncodeElements[s] = EncodeUleb[Head(s)] \o EncodeElements[Tail(s)]
    BY <2>1, EncodeElementsIs
  <2>4. Len(Tail(s)) = k
    BY <2>2
  <2>5. EncodeElements[Tail(s)] \in Octets /\ EncodeUleb[Head(s)] \in Octets
    BY <1>2, <2>2, <2>4, NumbersWritten
  <2>6. QED BY <2>3, <2>5, Concat
<1>3. Nat \subseteq A
  <2> HIDE DEF A
  <2>1. QED BY <1>1, <1>2, Induction
<1>4. QED BY <1>3

\* What a first element and the rest are written as, and read from.
LEMMA ElementsStep ==
  ASSUME NEW x \in Nat, NEW t \in Seq(Nat)
  PROVE  LET s == <<x>> \o t
         IN /\ EncodeElements[s] = EncodeUleb[x] \o EncodeElements[t]
            /\ EncodeElements[s] \in Octets /\ EncodeUleb[x] \in Octets /\ EncodeElements[t] \in Octets
            /\ Len(EncodeElements[s]) = Len(EncodeUleb[x]) + Len(EncodeElements[t])
            /\ Len(EncodeUleb[x]) \in Nat /\ Len(EncodeElements[t]) \in Nat
<1> DEFINE s == <<x>> \o t
           u == EncodeUleb[x]
           w == EncodeElements[t]
<1>1. s \in Seq(Nat) /\ s # <<>> /\ Head(s) = x /\ Tail(s) = t /\ Len(s) \in Nat /\ Len(t) \in Nat
  <2>1. s \in Seq(Nat) /\ s # <<>> /\ Head(s) = x /\ Tail(s) = t
    BY FirstAndRest
  <2> HIDE DEF s
  <2>2. QED BY <2>1
<1> HIDE DEF s
<1>2. EncodeElements[s] = u \o w
  BY <1>1, EncodeElementsIs
<1>3. u \in Octets /\ w \in Octets
  BY <1>1, NumbersWritten, ElementsWritten
<1> HIDE DEF u, w
<1>4. u \o w \in Octets /\ Len(u \o w) = Len(u) + Len(w) /\ Len(u) \in Nat /\ Len(w) \in Nat
  BY <1>3, Concat
<1>5. QED BY <1>2, <1>3, <1>4 DEF s, u, w

\* How elements of the set B are read: as written, ...
LEMMA ElementsBack ==
  ASSUME NEW buf \in Octets, NEW B, B \subseteq Nat, NEW read \in [0..Len(buf) -> Reads(0..Len(buf))],
         \A at \in 0..Len(buf) : \A n \in B :
            Holds(buf, at, EncodeUleb[n]) => read[at] = Ok(n, at + Len(EncodeUleb[n]))
  PROVE  \A k \in Nat : \A s \in Seq(Nat) : \A at \in 0..Len(buf) :
           Len(s) = k /\ (\A i \in 1..Len(s) : s[i] \in B) /\ Holds(buf, at, EncodeElements[s]) =>
             Elements(k, at, read) = Ok(s, at + Len(EncodeElements[s]))
<1> DEFINE P == 0..Len(buf)
           Said(k, s, at) == Len(s) = k /\ (\A i \in 1..Len(s) : s[i] \in B) /\ Holds(buf, at, EncodeElements[s]) =>
                               Elements(k, at, read) = Ok(s, at + Len(EncodeElements[s]))
           A == {k \in Nat : \A s \in Seq(Nat) : \A at \in P : Said(k, s, at)}
<1>0. Len(buf) \in Nat
  BY OctetsIs
<1>1. 0 \in A
  <2> SUFFICES ASSUME NEW s \in Seq(Nat), NEW at \in P, Len(s) = 0
               PROVE  Elements(0, at, read) = Ok(s, at + Len(EncodeElements[s]))
    OBVIOUS
  <2>1. s = <<>>
    OBVIOUS
  <2>2. at + Len(EncodeElements[s]) = at
    BY <1>0, <2>1, NoElements
  <2>3. Elements(0, at, read) = Ok(<<>>, at)
    BY ElementsIs
  <2>4. QED BY <2>1, <2>2, <2>3
<1>2. ASSUME NEW k \in Nat, k \in A
      PROVE  k + 1 \in A
  <2> SUFFICES ASSUME NEW s \in Seq(Nat), NEW at \in P
               PROVE  Said(k + 1, s, at)
    <3> HIDE DEF Said
    <3>1. QED OBVIOUS
  <2> SUFFICES ASSUME Len(s) = k + 1, \A i \in 1..Len(s) : s[i] \in B,
                      Holds(buf, at, EncodeElements[s])
               PROVE  Elements(k + 1, at, read) = Ok(s, at + Len(EncodeElements[s]))
    OBVIOUS
  <2> DEFINE x == Head(s)
             t == Tail(s)
             u == EncodeUleb[x]
             w == EncodeElements[t]
  <2>1. s # <<>>
    BY NoElements
  <2>2. /\ x \in Nat /\ t \in Seq(Nat) /\ s = <<x>> \o t /\ Len(s) = Len(t) + 1 /\ Len(t) \in Nat
    BY <2>1, TakenApart
  <2>3. x \in B /\ \A i \in 1..Len(t) : t[i] \in B
    <3>1. Len(s) \in Nat /\ x = s[1] /\ \A i \in 1..Len(t) : t[i] = s[i + 1]
      BY <2>1, HeadTailProperties
    <3> HIDE DEF x, t
    <3>2. 1 \in 1..Len(s) /\ \A i \in 1..Len(t) : i + 1 \in 1..Len(s)
      BY <2>2
    <3>3. QED BY <3>1, <3>2
  <2> HIDE DEF x, t
  <2>4. EncodeElements[s] = u \o w /\ u \in Octets /\ w \in Octets /\ Len(u) \in Nat /\ Len(w) \in Nat
    BY <2>2, ElementsStep
  <2> HIDE DEF u, w
  <2>5. /\ Holds(buf, at, u) /\ Holds(buf, at + Len(u), w) /\ at + Len(u) \in Nat
        /\ at + Len(EncodeElements[s]) = (at + Len(u)) + Len(w)
    BY <2>4, HeldParts
  <2> DEFINE next == at + Len(u)
  <2>6. next \in P
    <3>1. next + Len(w) <= Len(buf)
      BY <2>5 DEF Holds
    <3>2. QED BY <1>0, <2>4, <2>5, <3>1
  <2> HIDE DEF next
  <2>7. read[at] = Ok(x, next)
    BY <2>3, <2>5 DEF u, next
  <2>8. Elements(k, next, read) = Ok(t, next + Len(w))
    <3>1. Len(t) = k
      BY <2>2
    <3>2. Said(k, t, next)
      BY <1>2, <2>2, <2>6
    <3>3. QED BY <2>3, <2>5, <3>1, <3>2 DEF w, next
  <2>9. Elements(k + 1, at, read) = After(x, Elements(k, next, read))
    <3>1. read[at].ok /\ read[at].val = x /\ read[at].pos = next
      BY <2>7, OkIs
    <3>2. Elements(k + 1, at, read) =
             IF read[at].ok THEN After(read[at].val, Elements(k, read[at].pos, read)) ELSE Fail
      BY ElementsIs
    <3>3. QED BY <3>1, <3>2
  <2>10. After(x, Ok(t, next + Len(w))) = Ok(s, next + Len(w))
    BY <2>2, OkIs DEF After
  <2>11. QED BY <2>5, <2>8, <2>9, <2>10 DEF next
<1>3. Nat \subseteq A
  <2> HIDE DEF A
  <2>1. QED BY <1>1, <1>2, Induction
<1>4. QED BY <1>3

\* ... and no others.
LEMMA ElementsOnly ==
  ASSUME NEW buf \in Octets, NEW B, B \subseteq Nat, NEW read \in [0..Len(buf) -> Reads(0..Len(buf))],
         \A at \in 0..Len(buf) : \A n \in Nat :
            Holds(buf, at, EncodeUleb[n]) =>
              read[at] = IF n \in B THEN Ok(n, at + Len(EncodeUleb[n])) ELSE Fail
  PROVE  \A k \in Nat : \A s \in Seq(Nat) : \A at \in 0..Len(buf) :
           Len(s) = k /\ Holds(buf, at, EncodeElements[s]) /\ Elements(k, at, read).ok =>
             \A i \in 1..Len(s) : s[i] \in B
<1> DEFINE P == 0..Len(buf)
           Said(k, s, at) == Len(s) = k /\ Holds(buf, at, EncodeElements[s]) /\ Elements(k, at, read).ok =>
                               \A i \in 1..Len(s) : s[i] \in B
           A == {k \in Nat : \A s \in Seq(Nat) : \A at \in P : Said(k, s, at)}
<1>0. Len(buf) \in Nat
  BY OctetsIs
<1>1. 0 \in A
  OBVIOUS
<1>2. ASSUME NEW k \in Nat, k \in A
      PROVE  k + 1 \in A
  <2> SUFFICES ASSUME NEW s \in Seq(Nat), NEW at \in P
               PROVE  Said(k + 1, s, at)
    <3> HIDE DEF Said
    <3>1. QED OBVIOUS
  <2> SUFFICES ASSUME Len(s) = k + 1, Holds(buf, at, EncodeElements[s]), Elements(k + 1, at, read).ok
               PROVE  \A i \in 1..Len(s) : s[i] \in B
    OBVIOUS
  <2> DEFINE x == Head(s)
             t == Tail(s)
             u == EncodeUleb[x]
             w == EncodeElements[t]
  <2>1. s # <<>>
    BY NoElements
  <2>2. /\ x \in Nat /\ t \in Seq(Nat) /\ s = <<x>> \o t /\ Len(s) = Len(t) + 1 /\ Len(t) \in Nat
    BY <2>1, TakenApart
  <2>3. x = s[1] /\ \A i \in 1..Len(t) : t[i] = s[i + 1]
    BY <2>1, HeadTailProperties
  <2> HIDE DEF x, t
  <2>4. EncodeElements[s] = u \o w /\ u \in Octets /\ w \in Octets /\ Len(u) \in Nat /\ Len(w) \in Nat
    BY <2>2, ElementsStep
  <2> HIDE DEF u, w
  <2>5. Holds(buf, at, u) /\ Holds(buf, at + Len(u), w) /\ at + Len(u) \in Nat
    BY <2>4, HeldParts
  <2> DEFINE next == at + Len(u)
  <2>6. next \in P
    <3>1. next + Len(w) <= Len(buf)
      BY <2>5 DEF Holds
    <3>2. QED BY <1>0, <2>4, <2>5, <3>1
  <2> HIDE DEF next
  <2>7. read[at] = IF x \in B THEN Ok(x, next) ELSE Fail
    BY <2>2, <2>5 DEF u, next
  <2>8. Elements(k + 1, at, read) =
          IF read[at].ok THEN After(read[at].val, Elements(k, read[at].pos, read)) ELSE Fail
    BY ElementsIs
  <2>9. read[at].ok
    BY <2>8, OkIs
  <2>10. x \in B /\ read[at].pos = next
    BY <2>7, <2>9, OkIs
  <2>11. Elements(k, next, read).ok
    BY <2>8, <2>9, <2>10, OkIs DEF After
  <2>12. \A i \in 1..Len(t) : t[i] \in B
    <3>1. Len(t) = k
      BY <2>2
    <3>2. Said(k, t, next)
      BY <1>2, <2>2, <2>6
    <3>3. QED BY <2>5, <2>11, <3>1, <3>2 DEF w, next
  <2>13. SUFFICES ASSUME NEW i \in 1..Len(s)
                  PROVE  s[i] \in B
    OBVIOUS
  <2>14. CASE i = 1
    BY <2>3, <2>10, <2>14
  <2>15. CASE i # 1
    <3>1. i - 1 \in 1..Len(t) /\ (i - 1) + 1 = i
      BY <2>2, <2>15
    <3>2. QED BY <2>3, <2>12, <3>1
  <2>16. QED BY <2>14, <2>15
<1>3. Nat \subseteq A
  <2> HIDE DEF A
  <2>1. QED BY <1>1, <1>2, Induction
<1>4. QED BY <1>3

\* What is read are so many elements of B, which would be written in no more bytes.
LEMMA ElementsRead ==
  ASSUME NEW buf \in Octets, NEW B, B \subseteq Nat, NEW read \in [0..Len(buf) -> Reads(0..Len(buf))],
         \A at \in 0..Len(buf) :
           read[at].ok => read[at].val \in B /\ ReadOf(read[at], buf, at, EncodeUleb[read[at].val])
  PROVE  \A k \in Nat : \A at \in 0..Len(buf) :
           Elements(k, at, read).ok =>
             LET r == Elements(k, at, read)
             IN /\ r.val \in Seq(Nat) /\ Len(r.val) = k /\ \A i \in 1..k : r.val[i] \in B
                /\ ReadOf(r, buf, at, EncodeElements[r.val])
<1> DEFINE P == 0..Len(buf)
           Said(k, at, r) == r.ok =>
                             /\ r.val \in Seq(Nat) /\ Len(r.val) = k /\ \A i \in 1..k : r.val[i] \in B
                             /\ ReadOf(r, buf, at, EncodeElements[r.val])
           A == {k \in Nat : \A at \in P : Said(k, at, Elements(k, at, read))}
<1>0. Len(buf) \in Nat
  BY OctetsIs
<1>1. 0 \in A
  <2> SUFFICES ASSUME NEW at \in P
               PROVE  Said(0, at, Ok(<<>>, at))
    BY ElementsIs
  <2>1. Ok(<<>>, at).val = <<>> /\ Ok(<<>>, at).pos = at
    BY OkIs
  <2>2. ReadOf(Ok(<<>>, at), buf, at, EncodeElements[<<>>])
    <3>1. at \in Nat /\ at <= Len(buf) /\ at + 0 <= at
      BY <1>0
    <3>2. QED BY <2>1, <3>1, NoElements DEF ReadOf
  <2> DEFINE r == Ok(<<>>, at)
  <2>3. r.val = <<>> /\ ReadOf(r, buf, at, EncodeElements[r.val])
    BY <2>1, <2>2
  <2> HIDE DEF r
  <2>4. r.val \in Seq(Nat) /\ Len(r.val) = 0 /\ \A i \in 1..0 : r.val[i] \in B
    BY <2>3, NoElements
  <2>5. QED BY <2>3, <2>4 DEF r
<1>2. ASSUME NEW k \in Nat, k \in A
      PROVE  k + 1 \in A
  <2> SUFFICES ASSUME NEW at \in P
               PROVE  Said(k + 1, at, Elements(k + 1, at, read))
    <3> HIDE DEF Said
    <3>1. QED OBVIOUS
  <2> DEFINE e == read[at]
             r == Elements(k, e.pos, read)
             f == Elements(k + 1, at, read)
  <2>1. f = IF e.ok THEN After(e.val, r) ELSE Fail
    BY ElementsIs
  <2> SUFFICES ASSUME f.ok
               PROVE  /\ f.val \in Seq(Nat) /\ Len(f.val) = k + 1 /\ \A i \in 1..k + 1 : f.val[i] \in B
                      /\ ReadOf(f, buf, at, EncodeElements[f.val])
    OBVIOUS
  <2> HIDE DEF f
  <2>2. e.ok
    BY <2>1, OkIs
  <2>3. e.val \in B /\ e.val \in Nat /\ ReadOf(e, buf, at, EncodeUleb[e.val]) /\ e.pos \in P
    <3>1. e.pos \in Nat /\ e.pos <= Len(buf) /\ e.val \in B /\ ReadOf(e, buf, at, EncodeUleb[e.val])
      BY <2>2 DEF ReadOf
    <3> HIDE DEF e
    <3>2. e.val \in Nat
      BY <3>1
    <3>3. e.pos \in 0..Len(buf)
      BY <1>0, <3>1
    <3>4. QED BY <3>1, <3>2, <3>3
  <2>4. r.ok
    <3> HIDE DEF e, r
    <3>1. QED BY <2>1, <2>2, OkIs DEF After
  <2>5. Said(k, e.pos, r)
    BY <1>2, <2>3
  <2> DEFINE x == e.val
             t == r.val
             s == <<x>> \o t
             u == EncodeUleb[x]
             w == EncodeElements[t]
             v == EncodeElements[s]
  <2>6. x \in Nat /\ x \in B /\ t \in Seq(Nat) /\ Len(t) = k /\ \A i \in 1..k : t[i] \in B
    BY <2>3, <2>4, <2>5
  <2>7. /\ r.pos \in Nat /\ r.pos <= Len(buf) /\ e.pos + Len(w) <= r.pos
        /\ e.pos \in Nat /\ at + Len(u) <= e.pos
    BY <2>3, <2>4, <2>5 DEF ReadOf
  <2>8. f = Ok(s, r.pos) /\ f.val = s /\ f.pos = r.pos
    <3>1. f = After(x, r)
      BY <2>1, <2>2
    <3> HIDE DEF r, e, f
    <3>2. f = Ok(s, r.pos)
      BY <2>4, <3>1 DEF After
    <3>3. QED BY <3>2, OkIs
  <2> HIDE DEF e, r, x, t
  <2>9. s \in Seq(Nat) /\ Len(s) = k + 1 /\ s[1] = x /\ \A i \in 1..k : s[i + 1] = t[i]
    BY <2>6
  <2>10. v \in Octets /\ Len(v) = Len(u) + Len(w) /\ Len(u) \in Nat /\ Len(w) \in Nat
    BY <2>6, ElementsStep
  <2> HIDE DEF s, u, v, w
  <2>11. \A i \in 1..k + 1 : s[i] \in B
    <3> SUFFICES ASSUME NEW i \in 1..k + 1 PROVE s[i] \in B
      OBVIOUS
    <3>1. CASE i = 1
      BY <2>6, <2>9, <3>1
    <3>2. CASE i # 1
      <4>1. i - 1 \in 1..k /\ (i - 1) + 1 = i
        BY <3>2
      <4>2. QED BY <2>6, <2>9, <4>1
    <3>3. QED BY <3>1, <3>2
  <2>12. at + Len(v) <= r.pos
    BY <1>0, <2>7, <2>10
  <2>13. ReadOf(f, buf, at, v)
    BY <2>7, <2>8, <2>10, <2>12 DEF ReadOf
  <2>14. QED BY <2>8, <2>9, <2>11, <2>13 DEF v
<1>3. Nat \subseteq A
  <2> HIDE DEF A
  <2>1. QED BY <1>1, <1>2, Induction
<1>4. QED BY <1>3

\* And they are read of every longer buffer.
LEMMA ElementsExtend ==
  ASSUME NEW P, NEW Q, Q \subseteq P, NEW short \in [Q -> Reads(Q)], NEW long \in [P -> Reads(P)],
         \A at \in Q : short[at].ok => long[at] = short[at]
  PROVE  \A k \in Nat : \A at \in Q :
           Elements(k, at, short).ok => Elements(k, at, long) = Elements(k, at, short)
<1> DEFINE Said(k, at) == Elements(k, at, short).ok => Elements(k, at, long) = Elements(k, at, short)
           A == {k \in Nat : \A at \in Q : Said(k, at)}
<1>1. 0 \in A
  BY ElementsIs
<1>2. ASSUME NEW k \in Nat, k \in A
      PROVE  k + 1 \in A
  <2> SUFFICES ASSUME NEW at \in Q
               PROVE  Said(k + 1, at)
    <3> HIDE DEF Said
    <3>1. QED OBVIOUS
  <2> SUFFICES ASSUME Elements(k + 1, at, short).ok
               PROVE  Elements(k + 1, at, long) = Elements(k + 1, at, short)
    OBVIOUS
  <2> DEFINE e == short[at]
  <2>1. Elements(k + 1, at, short) = IF e.ok THEN After(e.val, Elements(k, e.pos, short)) ELSE Fail
    BY ElementsIs
  <2>2. Elements(k + 1, at, long) =
          IF long[at].ok THEN After(long[at].val, Elements(k, long[at].pos, long)) ELSE Fail
    BY ElementsIs
  <2>3. e.ok
    <3> HIDE DEF e
    <3>1. QED BY <2>1, OkIs
  <2>4. e.pos \in Q
    BY <2>3, ReadIs
  <2>5. long[at] = e
    BY <2>3
  <2> HIDE DEF e
  <2>6. Elements(k, e.pos, short).ok
    BY <2>1, <2>3, OkIs DEF After
  <2>7. Elements(k, e.pos, long) = Elements(k, e.pos, short)
    BY <1>2, <2>4, <2>6
  <2>8. QED BY <2>1, <2>2, <2>3, <2>5, <2>7
<1>3. Nat \subseteq A
  <2> HIDE DEF A
  <2>1. QED BY <1>1, <1>2, Induction
<1>4. QED BY <1>3

\* What a list<u8> is read of.
Bytewise(buf) == [at \in 0..Len(buf) |-> Uleb(8, buf, at)]
AnyByte == 0..255

LEMMA ReadHeld ==
  ASSUME NEW P
  PROVE  \A n \in Nat : \A p \in P : Ok(n, p) \in Reads(P)
BY Zenon DEF Reads, Ok

LEMMA BytewiseIs ==
  ASSUME NEW buf \in Octets
  PROVE  /\ Bytewise(buf) \in [0..Len(buf) -> Reads(0..Len(buf))] /\ AnyByte \subseteq Nat
         /\ \A at \in 0..Len(buf) : Bytewise(buf)[at] = Uleb(8, buf, at)
         /\ \A at \in 0..Len(buf) : \A n \in Nat : Holds(buf, at, EncodeUleb[n]) =>
              Bytewise(buf)[at] = IF n \in AnyByte THEN Ok(n, at + Len(EncodeUleb[n])) ELSE Fail
         /\ \A at \in 0..Len(buf) : Bytewise(buf)[at].ok =>
              LET e == Bytewise(buf)[at]
              IN e.val \in AnyByte /\ ReadOf(e, buf, at, EncodeUleb[e.val])
<1>0. Len(buf) \in Nat
  BY OctetsIs
<1>1. \A at \in 0..Len(buf) : Bytewise(buf)[at] = Uleb(8, buf, at)
  BY DEF Bytewise
<1>2. ASSUME NEW at \in 0..Len(buf)
      PROVE  LET e == Uleb(8, buf, at)
             IN /\ e \in Reads(0..Len(buf))
                /\ e.ok => e.val \in AnyByte /\ ReadOf(e, buf, at, EncodeUleb[e.val])
  <2> DEFINE e == Uleb(8, buf, at)
  <2>1. at \in Nat /\ at <= Len(buf)
    BY <1>0
  <2>2. e.ok => e.val \in Nat /\ e.val < 256 /\ ReadOf(e, buf, at, EncodeUleb[e.val])
    BY <2>1, UlebRead, Pow2Byte
  <2>3. e = Fail \/ \E x, y : e = Ok(x, y)
    BY DEF Uleb, UlebOf
  <2> HIDE DEF e
  <2>4. CASE e.ok
    <3>0. e.val \in Nat /\ e.val < 256 /\ ReadOf(e, buf, at, EncodeUleb[e.val])
      BY <2>2, <2>4
    <3> DEFINE x == e.val
               y == e.pos
    <3>a. e = Ok(x, y) /\ y \in 0..Len(buf)
      BY <1>0, <3>0 DEF ReadOf
    <3>b. \A n \in Nat : n < 256 => n \in AnyByte
      BY DEF AnyByte
    <3>1. x \in AnyByte
      BY <3>0, <3>b
    <3>2. \A n \in Nat : \A m \in 0..Len(buf) : Ok(n, m) \in Reads(0..Len(buf))
      BY ReadHeld
    <3>c. x \in Nat
      BY <3>0
    <3>d. ReadOf(e, buf, at, EncodeUleb[x])
      BY <3>0
    <3> HIDE DEF x, y
    <3>3. e \in Reads(0..Len(buf))
      BY <3>a, <3>2, <3>c
    <3>4. QED BY <2>2, <2>4, <3>1, <3>3 DEF e, x
  <2>5. CASE ~e.ok
    <3>1. e = Fail
      BY <2>3, <2>5, OkIs
    <3>2. e \in Reads(0..Len(buf))
      BY <3>1 DEF Reads
    <3>3. QED BY <2>5, <3>2 DEF e
  <2>6. QED BY <2>4, <2>5
<1>3. ASSUME NEW at \in 0..Len(buf), NEW n \in Nat, Holds(buf, at, EncodeUleb[n])
      PROVE  Uleb(8, buf, at) = IF n \in AnyByte THEN Ok(n, at + Len(EncodeUleb[n])) ELSE Fail
  <2>1. n < 256 <=> n \in AnyByte
    BY DEF AnyByte
  <2>2. Uleb(8, buf, at) = IF n < 256 THEN Ok(n, at + Len(EncodeUleb[n])) ELSE Fail
    BY <1>3, UlebReads, Pow2Byte
  <2>3. QED BY <2>1, <2>2
<1>4. Bytewise(buf) \in [0..Len(buf) -> Reads(0..Len(buf))]
  BY <1>2 DEF Bytewise
<1>5. AnyByte \subseteq Nat
  BY DEF AnyByte
<1>6. QED BY <1>1, <1>2, <1>3, <1>4, <1>5

LEMMA ListIs ==
  ASSUME NEW buf, NEW pos
  PROVE  LET n == Uleb(Int32, buf, pos)
         IN List(buf, pos) = IF n.ok THEN Elements(n.val, n.pos, Bytewise(buf)) ELSE Fail
BY Zenon DEF List, Then, Bytewise

LEMMA ListRead ==
  ASSUME NEW buf \in Octets, NEW pos \in Nat, pos <= Len(buf), List(buf, pos).ok
  PROVE  LET r == List(buf, pos)
         IN /\ r.val \in Seq(Nat) /\ Len(r.val) < Pow2[Int32] /\ \A i \in 1..Len(r.val) : r.val[i] \in AnyByte
            /\ ReadOf(r, buf, pos, EncodeList(r.val))
<1> DEFINE n == Uleb(Int32, buf, pos)
           r == Elements(n.val, n.pos, Bytewise(buf))
           u == EncodeUleb[n.val]
<1>0. Len(buf) \in Nat /\ Int32 \in Nat \ {0}
  BY OctetsIs, WidthAssumption
<1>1. List(buf, pos) = IF n.ok THEN r ELSE Fail
  BY ListIs, Zenon
<1>2. n.ok
  <2> HIDE DEF n, r
  <2>1. List(buf, pos).ok
    OBVIOUS
  <2> HIDE DEF List
  <2>2. QED BY <1>1, <2>1, OkIs
<1>3. n.val \in Nat /\ n.val < Pow2[Int32] /\ ReadOf(n, buf, pos, u)
  BY <1>0, <1>2, UlebRead
<1> HIDE DEF n
<1>4. n.pos \in Nat /\ n.pos \in 0..Len(buf) /\ u \in Octets /\ pos + Len(u) <= n.pos
  BY <1>0, <1>3 DEF ReadOf
<1>5. r.ok /\ List(buf, pos) = r
  <2>1. List(buf, pos) = r
    BY <1>1, <1>2
  <2> HIDE DEF r
  <2>2. QED BY <2>1
<1> DEFINE t == r.val
           w == EncodeElements[t]
<1>6. /\ t \in Seq(Nat) /\ Len(t) = n.val /\ (\A i \in 1..n.val : t[i] \in AnyByte)
      /\ ReadOf(r, buf, n.pos, w)
  <2> HIDE DEF u
  <2>1. \A at \in 0..Len(buf) : Bytewise(buf)[at].ok =>
           Bytewise(buf)[at].val \in AnyByte
           /\ ReadOf(Bytewise(buf)[at], buf, at, EncodeUleb[Bytewise(buf)[at].val])
    BY BytewiseIs
  <2>2. Bytewise(buf) \in [0..Len(buf) -> Reads(0..Len(buf))] /\ AnyByte \subseteq Nat
    BY BytewiseIs
  <2> DEFINE read == Bytewise(buf)
  <2> HIDE DEF read
  <2>3. \A k \in Nat : \A at \in 0..Len(buf) :
           Elements(k, at, read).ok =>
             LET q == Elements(k, at, read)
             IN /\ q.val \in Seq(Nat) /\ Len(q.val) = k /\ \A i \in 1..k : q.val[i] \in AnyByte
                /\ ReadOf(q, buf, at, EncodeElements[q.val])
    BY <2>1, <2>2, ElementsRead DEF read
  <2>4. QED BY <1>3, <1>4, <1>5, <2>3 DEF read
<1> HIDE DEF r, t
<1>7. w \in Octets /\ r = Ok(t, r.pos) /\ r.pos \in Nat /\ r.pos <= Len(buf) /\ n.pos + Len(w) <= r.pos
  BY <1>6 DEF ReadOf, t
<1> HIDE DEF w, u
<1>8. u \o w \in Octets /\ Len(u \o w) = Len(u) + Len(w) /\ Len(u) \in Nat /\ Len(w) \in Nat
  BY <1>4, <1>7, Concat
<1>9. pos + Len(u \o w) <= r.pos
  BY <1>4, <1>7, <1>8
<1>10. EncodeList(t) = u \o w
  BY <1>6 DEF EncodeList, u, w
<1>11. ReadOf(r, buf, pos, EncodeList(t))
  BY <1>7, <1>8, <1>9, <1>10 DEF ReadOf, t
<1>12. QED BY <1>3, <1>5, <1>6, <1>11 DEF t

LEMMA ListHeld ==
  ASSUME NEW v \in Seq(Nat), Len(v) < Pow2[Int32], NEW buf, NEW pos, Holds(buf, pos, EncodeList(v))
  PROVE  LET next == pos + Len(EncodeUleb[Len(v)])
         IN /\ buf \in Octets /\ next \in 0..Len(buf) /\ Holds(buf, next, EncodeElements[v])
            /\ pos + Len(EncodeList(v)) = next + Len(EncodeElements[v])
            /\ List(buf, pos) = Elements(Len(v), next, Bytewise(buf))
<1> DEFINE n == Uleb(Int32, buf, pos)
           u == EncodeUleb[Len(v)]
           w == EncodeElements[v]
           next == pos + Len(u)
           r == Elements(Len(v), next, Bytewise(buf))
<1>0. Int32 \in Nat \ {0} /\ Len(v) \in Nat
  BY WidthAssumption
<1>1. u \in Octets /\ w \in Octets /\ EncodeList(v) = u \o w
  BY <1>0, NumbersWritten, ElementsWritten DEF EncodeList
<1> HIDE DEF u, w
<1>2. Holds(buf, pos, u) /\ Holds(buf, next, w) /\ next \in Nat /\ pos + Len(EncodeList(v)) = next + Len(w)
  BY <1>1, HeldParts
<1>3. n = Ok(Len(v), next)
  BY <1>0, <1>2, UlebReadsBack DEF u
<1>4. buf \in Octets /\ next \in 0..Len(buf)
  <2>1. buf \in Octets /\ next + Len(w) <= Len(buf)
    BY <1>2 DEF Holds, Octets
  <2>2. Len(buf) \in Nat /\ Len(w) \in Nat
    BY <1>1, <2>1, OctetsIs
  <2> HIDE DEF next
  <2>3. QED BY <1>2, <2>1, <2>2
<1>5. List(buf, pos) = r
  <2>1. List(buf, pos) = IF n.ok THEN Elements(n.val, n.pos, Bytewise(buf)) ELSE Fail
    BY ListIs, Zenon
  <2> HIDE DEF n, next
  <2>2. n.ok /\ n.val = Len(v) /\ n.pos = next
    BY <1>3, OkIs
  <2>3. QED BY <2>1, <2>2
<1>6. QED BY <1>2, <1>4, <1>5 DEF u, w

LEMMA ListReadsBack ==
  ASSUME NEW v \in Seq(Nat), Len(v) < Pow2[Int32], NEW buf, NEW pos, Holds(buf, pos, EncodeList(v)),
         \A i \in 1..Len(v) : v[i] \in AnyByte
  PROVE  List(buf, pos) = Ok(v, pos + Len(EncodeList(v)))
<1> DEFINE w == EncodeElements[v]
           next == pos + Len(EncodeUleb[Len(v)])
           read == Bytewise(buf)
<1>1. /\ buf \in Octets /\ next \in 0..Len(buf) /\ Holds(buf, next, w)
      /\ pos + Len(EncodeList(v)) = next + Len(w) /\ List(buf, pos) = Elements(Len(v), next, read)
  BY ListHeld
<1>2. read \in [0..Len(buf) -> Reads(0..Len(buf))] /\ AnyByte \subseteq Nat /\ Len(v) \in Nat
  BY <1>1, BytewiseIs
<1>3. \A at \in 0..Len(buf) : \A k \in Nat : Holds(buf, at, EncodeUleb[k]) =>
              read[at] = IF k \in AnyByte THEN Ok(k, at + Len(EncodeUleb[k])) ELSE Fail
  BY <1>1, BytewiseIs
<1> HIDE DEF read, next, w
<1>4. \A at \in 0..Len(buf) : \A k \in AnyByte : Holds(buf, at, EncodeUleb[k]) =>
            read[at] = Ok(k, at + Len(EncodeUleb[k]))
  BY <1>2, <1>3
<1>5. \A k \in Nat : \A s \in Seq(Nat) : \A at \in 0..Len(buf) :
         Len(s) = k /\ (\A i \in 1..Len(s) : s[i] \in AnyByte) /\ Holds(buf, at, EncodeElements[s]) =>
           Elements(k, at, read) = Ok(s, at + Len(EncodeElements[s]))
  BY <1>1, <1>2, <1>4, ElementsBack
<1>6. Elements(Len(v), next, read) = Ok(v, next + Len(w))
  BY <1>1, <1>2, <1>5 DEF w
<1>7. QED BY <1>1, <1>6

LEMMA ListOnly ==
  ASSUME NEW v \in Seq(Nat), Len(v) < Pow2[Int32], NEW buf, NEW pos, Holds(buf, pos, EncodeList(v)),
         List(buf, pos).ok
  PROVE  \A i \in 1..Len(v) : v[i] \in AnyByte
<1> DEFINE w == EncodeElements[v]
           next == pos + Len(EncodeUleb[Len(v)])
           read == Bytewise(buf)
<1>1. /\ buf \in Octets /\ next \in 0..Len(buf) /\ Holds(buf, next, w)
      /\ List(buf, pos) = Elements(Len(v), next, read)
  BY ListHeld
<1>2. read \in [0..Len(buf) -> Reads(0..Len(buf))] /\ AnyByte \subseteq Nat /\ Len(v) \in Nat
  BY <1>1, BytewiseIs
<1>3. \A at \in 0..Len(buf) : \A k \in Nat : Holds(buf, at, EncodeUleb[k]) =>
              read[at] = IF k \in AnyByte THEN Ok(k, at + Len(EncodeUleb[k])) ELSE Fail
  BY <1>1, BytewiseIs
<1> HIDE DEF read, next, w
<1>4. \A k \in Nat : \A s \in Seq(Nat) : \A at \in 0..Len(buf) :
         Len(s) = k /\ Holds(buf, at, EncodeElements[s]) /\ Elements(k, at, read).ok =>
           \A i \in 1..Len(s) : s[i] \in AnyByte
  BY <1>1, <1>2, <1>3, ElementsOnly
<1>5. Elements(Len(v), next, read).ok
  BY <1>1
<1>6. QED BY <1>1, <1>2, <1>4, <1>5 DEF w

LEMMA ListExtends ==
  ASSUME NEW q, NEW buf, Begins(q, buf), NEW pos \in Nat, pos <= Len(q), List(q, pos).ok
  PROVE  List(buf, pos) = List(q, pos)
<1> DEFINE n == Uleb(Int32, q, pos)
<1>0. q \in Octets /\ buf \in Octets /\ Len(q) \in Nat /\ Len(buf) \in Nat /\ Len(q) <= Len(buf) /\ Int32 \in Nat \ {0}
  BY OctetsIs, WidthAssumption DEF Begins
<1>1. List(q, pos) = IF n.ok THEN Elements(n.val, n.pos, Bytewise(q)) ELSE Fail
  BY ListIs, Zenon
<1>2. n.ok /\ Elements(n.val, n.pos, Bytewise(q)).ok
  <2> HIDE DEF n
  <2>1. List(q, pos).ok
    OBVIOUS
  <2> HIDE DEF List
  <2>2. QED BY <1>1, <2>1, OkIs
<1>3. n.val \in Nat /\ n.pos \in 0..Len(q)
  <2>1. n.val \in Nat /\ n.pos \in Nat /\ n.pos <= Len(q)
    BY <1>0, <1>2, UlebRead DEF ReadOf
  <2> HIDE DEF n
  <2>2. QED BY <1>0, <2>1
<1>4. Uleb(Int32, buf, pos) = n
  BY <1>0, <1>2, UlebExtends
<1>5. List(buf, pos) = IF n.ok THEN Elements(n.val, n.pos, Bytewise(buf)) ELSE Fail
  BY <1>4, ListIs, Zenon
<1> HIDE DEF n
<1> DEFINE short == Bytewise(q)
           long == Bytewise(buf)
           P == 0..Len(buf)
           Q == 0..Len(q)
<1>6. short \in [Q -> Reads(Q)] /\ long \in [P -> Reads(P)]
  BY <1>0, BytewiseIs
<1>7. Q \subseteq P
  BY <1>0
<1>8. ASSUME NEW at \in Q, short[at].ok
      PROVE  long[at] = short[at]
  <2>1. at \in 0..Len(q) /\ at \in 0..Len(buf) /\ at \in Nat /\ at <= Len(q)
    BY <1>0
  <2>2. short[at] = Uleb(8, q, at) /\ long[at] = Uleb(8, buf, at)
    BY <1>0, <2>1, BytewiseIs
  <2> HIDE DEF short, long
  <2>3. Uleb(8, q, at).ok
    BY <1>8, <2>2
  <2>4. QED BY <2>1, <2>2, <2>3, UlebExtends
<1> HIDE DEF short, long, P, Q
<1>9. \A k \in Nat : \A at \in Q :
           Elements(k, at, short).ok => Elements(k, at, long) = Elements(k, at, short)
  BY <1>6, <1>7, <1>8, ElementsExtend
<1>10. Elements(n.val, n.pos, long) = Elements(n.val, n.pos, short)
  BY <1>2, <1>3, <1>9 DEF short, Q
<1>11. QED BY <1>1, <1>2, <1>5, <1>10 DEF short, long

\* flags
LEMMA FlagPowers ==
  /\ Pow2[0] = 1 /\ Pow2[1] = 2 /\ Pow2[2] = 4 /\ Pow2[3] = 8
  /\ Pow2[4] = 16 /\ Pow2[5] = 32 /\ Pow2[6] = 64 /\ Pow2[7] = 128
<1>1. \A n \in Nat : Pow2[n + 1] = 2 * Pow2[n]
  BY Pow2Is
<1>2. Pow2[0] = 1 /\ Pow2[0 + 1] = 2 * Pow2[0] /\ Pow2[1 + 1] = 2 * Pow2[1] /\ Pow2[2 + 1] = 2 * Pow2[2]
      /\ Pow2[3 + 1] = 2 * Pow2[3] /\ Pow2[4 + 1] = 2 * Pow2[4] /\ Pow2[5 + 1] = 2 * Pow2[5]
      /\ Pow2[6 + 1] = 2 * Pow2[6]
  BY <1>1, Pow2Is
<1>3. QED BY <1>2

\* One when flag i is set.
FlagBit(i, v) == IF i \in v THEN 1 ELSE 0
LowFlags(v) == FlagBit(0, v) + 2 * FlagBit(1, v) + 4 * FlagBit(2, v) + 8 * FlagBit(3, v)
               + 16 * FlagBit(4, v) + 32 * FlagBit(5, v) + 64 * FlagBit(6, v) + 128 * FlagBit(7, v)
HighFlags(v) == FlagBit(8, v) + 2 * FlagBit(9, v)

LEMMA FlagsOfIs ==
  ASSUME NEW s, s[1] \in 0..255, s[2] \in 0..255
  PROVE  LET F == FlagsOf(10, s)
         IN /\ F \subseteq 0..9
            /\ 0 \in F <=> s[1] % 2 = 1
            /\ 1 \in F <=> (s[1] \div 2) % 2 = 1
            /\ 2 \in F <=> (s[1] \div 4) % 2 = 1
            /\ 3 \in F <=> (s[1] \div 8) % 2 = 1
            /\ 4 \in F <=> (s[1] \div 16) % 2 = 1
            /\ 5 \in F <=> (s[1] \div 32) % 2 = 1
            /\ 6 \in F <=> (s[1] \div 64) % 2 = 1
            /\ 7 \in F <=> (s[1] \div 128) % 2 = 1
            /\ 8 \in F <=> s[2] % 2 = 1
            /\ 9 \in F <=> (s[2] \div 2) % 2 = 1
<1> DEFINE F == FlagsOf(10, s)
           a == s[1]
           c == s[2]
           In(i) == i \in F
           Set(i) == (s[i \div 8 + 1] \div Pow2[i % 8]) % 2 = 1
<1>1. F \subseteq 0..9 /\ \A i \in 0..9 : In(i) <=> Set(i)
  BY DEF FlagsOf
<1>2. a \in Int /\ c \in Int
  OBVIOUS
<1>3. /\ Set(0) <=> (a \div Pow2[0]) % 2 = 1
      /\ Set(1) <=> (a \div Pow2[1]) % 2 = 1
      /\ Set(2) <=> (a \div Pow2[2]) % 2 = 1
      /\ Set(3) <=> (a \div Pow2[3]) % 2 = 1
      /\ Set(4) <=> (a \div Pow2[4]) % 2 = 1
      /\ Set(5) <=> (a \div Pow2[5]) % 2 = 1
      /\ Set(6) <=> (a \div Pow2[6]) % 2 = 1
      /\ Set(7) <=> (a \div Pow2[7]) % 2 = 1
      /\ Set(8) <=> (c \div Pow2[0]) % 2 = 1
      /\ Set(9) <=> (c \div Pow2[1]) % 2 = 1
  <2>1. /\ \A i \in 0..7 : i \div 8 + 1 = 1 /\ i % 8 = i
        /\ 8 \div 8 + 1 = 2 /\ 9 \div 8 + 1 = 2 /\ 8 % 8 = 0 /\ 9 % 8 = 1
    OBVIOUS
  <2>2. 0 \in 0..7 /\ 1 \in 0..7 /\ 2 \in 0..7 /\ 3 \in 0..7 /\ 4 \in 0..7 /\ 5 \in 0..7 /\ 6 \in 0..7 /\ 7 \in 0..7
    OBVIOUS
  <2>3. QED BY <2>1, <2>2
<1> HIDE DEF F, Set, In, a, c
<1>4. a \div 1 = a /\ c \div 1 = c
  BY <1>2
<1>5. /\ In(0) <=> Set(0)
      /\ In(1) <=> Set(1)
      /\ In(2) <=> Set(2)
      /\ In(3) <=> Set(3)
      /\ In(4) <=> Set(4)
      /\ In(5) <=> Set(5)
      /\ In(6) <=> Set(6)
      /\ In(7) <=> Set(7)
      /\ In(8) <=> Set(8)
      /\ In(9) <=> Set(9)
  <2>1. 0 \in 0..9 /\ 1 \in 0..9 /\ 2 \in 0..9 /\ 3 \in 0..9 /\ 4 \in 0..9 /\ 5 \in 0..9 /\ 6 \in 0..9 /\ 7 \in 0..9
        /\ 8 \in 0..9 /\ 9 \in 0..9
    OBVIOUS
  <2>2. QED BY <1>1, <2>1
<1>6. /\ In(0) <=> a % 2 = 1
      /\ In(1) <=> (a \div 2) % 2 = 1
      /\ In(2) <=> (a \div 4) % 2 = 1
      /\ In(3) <=> (a \div 8) % 2 = 1
      /\ In(4) <=> (a \div 16) % 2 = 1
      /\ In(5) <=> (a \div 32) % 2 = 1
      /\ In(6) <=> (a \div 64) % 2 = 1
      /\ In(7) <=> (a \div 128) % 2 = 1
      /\ In(8) <=> c % 2 = 1
      /\ In(9) <=> (c \div 2) % 2 = 1
  BY <1>3, <1>4, <1>5, FlagPowers
<1>7. QED BY <1>1, <1>6 DEF F, a, c, In

LEMMA EncodeFlagsIs ==
  ASSUME NEW v \in SUBSET (0..9)
  PROVE  LET s == EncodeFlags(10, v)
         IN /\ s \in Octets /\ Len(s) = 2 /\ s[1] = LowFlags(v) /\ s[2] = HighFlags(v)
            /\ s[1] \in 0..255 /\ s[2] \in 0..3
<1> DEFINE Octet(i) == FlagBit(i, v) + 2 * FlagBit(i + 1, v) + 4 * FlagBit(i + 2, v) + 8 * FlagBit(i + 3, v)
               + 16 * FlagBit(i + 4, v) + 32 * FlagBit(i + 5, v) + 64 * FlagBit(i + 6, v) + 128 * FlagBit(i + 7, v)
           s == EncodeFlags(10, v)
           Any == 0..255
<1>1. s = [b \in 1..((10 + 7) \div 8) |-> Octet(8 * (b - 1))]
  BY Zenon DEF EncodeFlags, FlagBit
<1>2. \A i : FlagBit(i, v) \in 0..1
  BY DEF FlagBit
<1>3. FlagBit(10, v) = 0 /\ FlagBit(11, v) = 0 /\ FlagBit(12, v) = 0 /\ FlagBit(13, v) = 0
      /\ FlagBit(14, v) = 0 /\ FlagBit(15, v) = 0
  BY DEF FlagBit
<1>4. Octet(0) = LowFlags(v) /\ Octet(8) = HighFlags(v)
  BY <1>2, <1>3 DEF LowFlags, HighFlags
<1>5. LowFlags(v) \in Any /\ HighFlags(v) \in Any /\ HighFlags(v) \in 0..3
  BY <1>2 DEF LowFlags, HighFlags
<1> HIDE DEF Octet
<1>6. s = [b \in 1..2 |-> IF b = 1 THEN LowFlags(v) ELSE HighFlags(v)]
  <2>1. (10 + 7) \div 8 = 2 /\ 8 * (1 - 1) = 0 /\ 8 * (2 - 1) = 8
    OBVIOUS
  <2>2. \A b \in 1..2 : Octet(8 * (b - 1)) = IF b = 1 THEN LowFlags(v) ELSE HighFlags(v)
    BY <1>4, <2>1
  <2> HIDE DEF s
  <2>3. QED BY <1>1, <2>1, <2>2
<1> DEFINE low == LowFlags(v)
           high == HighFlags(v)
<1> HIDE DEF s, low, high, Any
<1>7. low \in Any /\ high \in Any
  BY <1>5 DEF low, high
<1>8. s = [b \in 1..2 |-> IF b = 1 THEN low ELSE high]
  BY <1>6 DEF low, high
<1>9. s \in Seq(Any) /\ Len(s) = 2 /\ s[1] = low /\ s[2] = high
  <2>1. s \in [1..2 -> Any]
    BY <1>7, <1>8
  <2>2. s \in Seq(Any)
    <3>1. <<low, high>> \in Seq(Any)
      BY <1>7
    <3>2. s = <<low, high>>
      BY <1>8
    <3>3. QED BY <3>1, <3>2
  <2>3. Len(s) = 2
    BY <1>8, <2>2
  <2>4. QED BY <1>8, <2>2, <2>3
<1>10. QED BY <1>5, <1>9 DEF s, low, high, Any, Octets

\* The bits of a byte.
LEMMA ByteOfBits ==
  \A a \in 0..255 :
    a = (a % 2) + 2 * ((a \div 2) % 2) + 4 * ((a \div 4) % 2) + 8 * ((a \div 8) % 2) + 16 * ((a \div 16) % 2)
        + 32 * ((a \div 32) % 2) + 64 * ((a \div 64) % 2) + 128 * ((a \div 128) % 2)
OBVIOUS

LEMMA BitsOfByte ==
  \A x0, x1, x2, x3, x4, x5, x6, x7 \in 0..1 :
    LET a == x0 + 2 * x1 + 4 * x2 + 8 * x3 + 16 * x4 + 32 * x5 + 64 * x6 + 128 * x7
    IN /\ a % 2 = x0 /\ (a \div 2) % 2 = x1 /\ (a \div 4) % 2 = x2 /\ (a \div 8) % 2 = x3
       /\ (a \div 16) % 2 = x4 /\ (a \div 32) % 2 = x5 /\ (a \div 64) % 2 = x6 /\ (a \div 128) % 2 = x7
OBVIOUS

LEMMA FlagsIs ==
  ASSUME NEW buf, NEW pos
  PROVE  LET b == Bytes(2, buf, pos)
         IN Flags(10, buf, pos) = IF b.ok THEN IF b.val[2] >= 4 THEN Fail
                                               ELSE [b EXCEPT !.val = FlagsOf(10, @)]
                                  ELSE Fail
<1>1. (10 + 7) \div 8 = 2 /\ 10 % 8 = 2 /\ 10 % 8 # 0
  OBVIOUS
<1>2. Pow2[2] = 4
  BY FlagPowers
<1>3. QED BY <1>1, <1>2 DEF Flags, Then

LEMMA FlagsHeld ==
  ASSUME NEW s \in Octets, Len(s) = 2
  PROVE  s[1] \in 0..255 /\ s[2] \in 0..255
<1>1. 1 \in 1..Len(s) /\ 2 \in 1..Len(s)
  OBVIOUS
<1>2. QED BY <1>1, OctetsIs

\* What was written is read back ...
LEMMA FlagsKept ==
  ASSUME NEW v \in SUBSET (0..9), NEW s, s[1] = LowFlags(v), s[2] = HighFlags(v)
  PROVE  FlagsOf(10, s) = v
<1> DEFINE F == FlagsOf(10, s)
           B(i) == FlagBit(i, v)
<1>1. \A i : B(i) \in 0..1 /\ (i \in v <=> B(i) = 1)
  BY DEF FlagBit
<1>2. /\ s[1] = B(0) + 2 * B(1) + 4 * B(2) + 8 * B(3) + 16 * B(4) + 32 * B(5) + 64 * B(6) + 128 * B(7)
      /\ s[2] = B(8) + 2 * B(9)
  BY DEF LowFlags, HighFlags
<1> HIDE DEF B
<1>3. s[1] \in 0..255 /\ s[2] \in 0..255 /\ s[2] % 2 = B(8) /\ (s[2] \div 2) % 2 = B(9)
  BY <1>1, <1>2
<1>4. /\ s[1] % 2 = B(0) /\ (s[1] \div 2) % 2 = B(1) /\ (s[1] \div 4) % 2 = B(2) /\ (s[1] \div 8) % 2 = B(3)
      /\ (s[1] \div 16) % 2 = B(4) /\ (s[1] \div 32) % 2 = B(5) /\ (s[1] \div 64) % 2 = B(6)
      /\ (s[1] \div 128) % 2 = B(7)
  BY <1>1, <1>2, BitsOfByte
<1>5. /\ F \subseteq 0..9
      /\ 0 \in F <=> 0 \in v
      /\ 1 \in F <=> 1 \in v
      /\ 2 \in F <=> 2 \in v
      /\ 3 \in F <=> 3 \in v
      /\ 4 \in F <=> 4 \in v
      /\ 5 \in F <=> 5 \in v
      /\ 6 \in F <=> 6 \in v
      /\ 7 \in F <=> 7 \in v
      /\ 8 \in F <=> 8 \in v
      /\ 9 \in F <=> 9 \in v
  BY <1>1, <1>3, <1>4, FlagsOfIs
<1> HIDE DEF F
<1>6. \A i \in 0..9 : i \in F <=> i \in v
  <2>1. \A i \in 0..9 : i = 0 \/ i = 1 \/ i = 2 \/ i = 3 \/ i = 4 \/ i = 5 \/ i = 6 \/ i = 7 \/ i = 8 \/ i = 9
    OBVIOUS
  <2>2. QED BY <1>5, <2>1
<1>7. F = v
  BY <1>5, <1>6
<1>8. QED BY <1>7 DEF F

\* ... and what is read would be written so.
LEMMA FlagsAgain ==
  ASSUME NEW s, s[1] \in 0..255, s[2] \in 0..3
  PROVE  LowFlags(FlagsOf(10, s)) = s[1] /\ HighFlags(FlagsOf(10, s)) = s[2]
<1> DEFINE F == FlagsOf(10, s)
           a == s[1]
           c == s[2]
<1>1. a \in 0..255 /\ c \in 0..3 /\ c \in 0..255
  OBVIOUS
<1>2. /\ FlagBit(0, F) = a % 2
      /\ FlagBit(1, F) = (a \div 2) % 2
      /\ FlagBit(2, F) = (a \div 4) % 2
      /\ FlagBit(3, F) = (a \div 8) % 2
      /\ FlagBit(4, F) = (a \div 16) % 2
      /\ FlagBit(5, F) = (a \div 32) % 2
      /\ FlagBit(6, F) = (a \div 64) % 2
      /\ FlagBit(7, F) = (a \div 128) % 2
      /\ FlagBit(8, F) = c % 2
      /\ FlagBit(9, F) = (c \div 2) % 2
  <2>1. \A n \in Int : n % 2 = 1 \/ n % 2 = 0
    OBVIOUS
  <2>2. /\ 0 \in F <=> a % 2 = 1
        /\ 1 \in F <=> (a \div 2) % 2 = 1
        /\ 2 \in F <=> (a \div 4) % 2 = 1
        /\ 3 \in F <=> (a \div 8) % 2 = 1
        /\ 4 \in F <=> (a \div 16) % 2 = 1
        /\ 5 \in F <=> (a \div 32) % 2 = 1
        /\ 6 \in F <=> (a \div 64) % 2 = 1
        /\ 7 \in F <=> (a \div 128) % 2 = 1
        /\ 8 \in F <=> c % 2 = 1
        /\ 9 \in F <=> (c \div 2) % 2 = 1
    BY <1>1, FlagsOfIs
  <2>3. /\ a \in Int /\ a \div 2 \in Int /\ a \div 4 \in Int /\ a \div 8 \in Int /\ a \div 16 \in Int
        /\ a \div 32 \in Int /\ a \div 64 \in Int /\ a \div 128 \in Int /\ c \in Int /\ c \div 2 \in Int
    <3> HIDE DEF a, c
    <3>1. a \in Int /\ c \in Int
      BY <1>1
    <3>2. QED BY <3>1
  <2> HIDE DEF F, a, c
  <2>4. QED BY <2>1, <2>2, <2>3 DEF FlagBit
<1>3. LowFlags(F) = a
  <2>1. a = (a % 2) + 2 * ((a \div 2) % 2) + 4 * ((a \div 4) % 2) + 8 * ((a \div 8) % 2) + 16 * ((a \div 16) % 2)
        + 32 * ((a \div 32) % 2) + 64 * ((a \div 64) % 2) + 128 * ((a \div 128) % 2)
    BY <1>1, ByteOfBits
  <2> HIDE DEF F, a
  <2>2. QED BY <1>2, <2>1 DEF LowFlags
<1>4. HighFlags(F) = c
  <2>1. c = (c % 2) + 2 * ((c \div 2) % 2)
    BY <1>1
  <2> HIDE DEF F, c
  <2>2. QED BY <1>2, <2>1 DEF HighFlags
<1>5. QED BY <1>3, <1>4

LEMMA FlagsRead ==
  ASSUME NEW buf \in Octets, NEW pos \in Nat, pos <= Len(buf), Flags(10, buf, pos).ok
  PROVE  LET r == Flags(10, buf, pos)
         IN r.val \in SUBSET (0..9) /\ ReadOf(r, buf, pos, EncodeFlags(10, r.val))
<1> DEFINE b == Bytes(2, buf, pos)
           s == b.val
           f == FlagsOf(10, s)
           r == Flags(10, buf, pos)
<1>1. r = IF b.ok THEN IF b.val[2] >= 4 THEN Fail ELSE [b EXCEPT !.val = FlagsOf(10, @)] ELSE Fail
  BY FlagsIs, Zenon
<1>2. r.ok
  OBVIOUS
<1> HIDE DEF r
<1>3. b.ok /\ ~(b.val[2] >= 4) /\ r = [b EXCEPT !.val = FlagsOf(10, @)]
  <2> HIDE DEF b
  <2>1. QED BY <1>1, <1>2, OkIs
<1>4. b = Ok(s, pos + 2) /\ pos + 2 <= Len(buf) /\ s \in Octets /\ Len(s) = 2
  <2>1. /\ b = Ok(SubSeq(buf, pos + 1, pos + 2), pos + 2) /\ pos + 2 <= Len(buf)
        /\ b.val \in Octets /\ Len(b.val) = 2
    <3>1. 2 \in Nat /\ b.ok
      BY <1>3
    <3> DEFINE n == 2
    <3> HIDE DEF n
    <3>2. n \in Nat /\ Bytes(n, buf, pos).ok
      BY <3>1 DEF n
    <3>3. /\ Bytes(n, buf, pos) = Ok(SubSeq(buf, pos + 1, pos + n), pos + n) /\ pos + n <= Len(buf)
          /\ Bytes(n, buf, pos).val \in Octets /\ Len(Bytes(n, buf, pos).val) = n
      BY <3>2, BytesAre
    <3>4. QED BY <3>3 DEF n
  <2> DEFINE x == SubSeq(buf, pos + 1, pos + 2)
  <2> HIDE DEF x, b
  <2>2. b.val = x
    BY <2>1, OkIs DEF x
  <2>3. QED BY <2>1, <2>2 DEF x
<1>5. s[1] \in 0..255 /\ s[2] \in 0..255
  BY <1>4, FlagsHeld
<1> HIDE DEF s, b
<1>6. s[2] \in 0..3
  <2>1. \A n \in 0..255 : ~(n >= 4) => n \in 0..3
    OBVIOUS
  <2>2. ~(s[2] >= 4)
    BY <1>3 DEF s
  <2>3. QED BY <1>5, <2>1, <2>2
<1>7. r = Ok(f, pos + 2)
  <2>1. b.val = s
    BY DEF s
  <2> HIDE DEF f
  <2>2. r = [b EXCEPT !.val = f]
    BY <1>3, <2>1, Zenon DEF f
  <2>3. QED BY <1>4, <2>2, Replaced
<1>8. LowFlags(f) = s[1] /\ HighFlags(f) = s[2] /\ f \in SUBSET (0..9)
  BY <1>5, <1>6, FlagsAgain, FlagsOfIs
<1> HIDE DEF f
<1>9. EncodeFlags(10, f) \in Octets /\ Len(EncodeFlags(10, f)) = 2
  BY <1>8, EncodeFlagsIs
<1>10. r.val = f /\ r.pos = pos + 2
  BY <1>7, OkIs
<1>11. ReadOf(r, buf, pos, EncodeFlags(10, r.val))
  <2>1. r = Ok(r.val, r.pos)
    BY <1>7, <1>10
  <2>2. r.pos \in Nat /\ r.pos <= Len(buf)
    BY <1>4, <1>10
  <2> DEFINE w == EncodeFlags(10, r.val)
  <2>3. w \in Octets /\ Len(w) = 2
    BY <1>9, <1>10
  <2> HIDE DEF w
  <2>4. pos + Len(w) <= r.pos
    BY <1>10, <2>3
  <2>5. QED BY <2>1, <2>2, <2>3, <2>4 DEF ReadOf, w
<1>12. QED BY <1>8, <1>10, <1>11 DEF r

LEMMA FlagsReadBack ==
  ASSUME NEW v \in SUBSET (0..9), NEW buf, NEW pos, Holds(buf, pos, EncodeFlags(10, v))
  PROVE  Flags(10, buf, pos) = Ok(v, pos + Len(EncodeFlags(10, v)))
<1> DEFINE s == EncodeFlags(10, v)
           b == Bytes(2, buf, pos)
           r == Flags(10, buf, pos)
<1>1. s \in Octets /\ Len(s) = 2 /\ s[1] = LowFlags(v) /\ s[2] = HighFlags(v) /\ s[2] \in 0..3
  BY EncodeFlagsIs
<1> HIDE DEF s
<1>2. b = Ok(s, pos + 2)
  <2>1. SubSeq(buf, pos + 1, pos + Len(s)) = s
    BY <1>1, SliceIs DEF Octets, s
  <2>2. pos + 2 <= Len(buf) /\ Len(buf) \in Nat /\ pos \in Nat
    BY <1>1, BufferType DEF Holds, s
  <2>3. ~(Remaining(buf, pos) < 2)
    BY <2>2 DEF Remaining
  <2>4. QED BY <1>1, <2>1, <2>3 DEF Bytes
<1>3. r = IF b.ok THEN IF b.val[2] >= 4 THEN Fail ELSE [b EXCEPT !.val = FlagsOf(10, @)] ELSE Fail
  BY FlagsIs, Zenon
<1> HIDE DEF b, r
<1>4. b.ok /\ b.val = s /\ ~(s[2] >= 4)
  BY <1>1, <1>2, OkIs
<1>5. FlagsOf(10, s) = v
  BY <1>1, FlagsKept
<1>6. r = [b EXCEPT !.val = v]
  BY <1>3, <1>4, <1>5, Zenon
<1>7. r = Ok(v, pos + 2)
  BY <1>2, <1>6, Replaced
<1>8. QED BY <1>1, <1>7 DEF r, s

LEMMA FlagsExtend ==
  ASSUME NEW q, NEW buf, Begins(q, buf), NEW pos \in Nat, pos <= Len(q), Flags(10, q, pos).ok
  PROVE  Flags(10, buf, pos) = Flags(10, q, pos)
<1> DEFINE b == Bytes(2, q, pos)
           c == Bytes(2, buf, pos)
<1>1. Flags(10, q, pos) = IF b.ok THEN IF b.val[2] >= 4 THEN Fail ELSE [b EXCEPT !.val = FlagsOf(10, @)] ELSE Fail
  BY FlagsIs, Zenon
<1>2. Flags(10, buf, pos) = IF c.ok THEN IF c.val[2] >= 4 THEN Fail ELSE [c EXCEPT !.val = FlagsOf(10, @)] ELSE Fail
  BY FlagsIs, Zenon
<1>3. b.ok
  <2> HIDE DEF b
  <2>1. QED BY <1>1, OkIs
<1>4. c = b
  BY <1>3, BytesExtend
<1> HIDE DEF b, c
<1>5. QED BY <1>1, <1>2, <1>4
-----------------------------------------------------------------------------
(* Every type. *)

\* The values of a type of Echo ...
OfType(type, v) ==
  /\ type \in Unsigned => v \in Nat /\ v < Pow2[Bits(type)]
  /\ type \in Signed => v \in Int /\ InRange(v, Bits(type))
  /\ type = "bool" => v \in BOOLEAN
  /\ type = "char" => v \in Nat /\ IsScalar(v)
  /\ type = "string" => v \in Octets /\ Len(v) < Pow2[Int32] /\ Utf8Valid(v)
  /\ type = "enum" => v \in 0..2
  /\ type = "option" => v = None \/ (v \in Nat /\ v < 256)
  /\ type = "list" => v \in Seq(Nat) /\ Len(v) < Pow2[Int32] /\ \A i \in 1..Len(v) : v[i] \in AnyByte
  /\ type = "flags" => v \in SUBSET (0..9)

\* ... and those that a host can write for it, which does not check their width.
Writable(type, v) ==
  /\ type \in Unsigned => v \in Nat
  /\ type \in Signed => v \in Int
  /\ type = "bool" => v \in BOOLEAN
  /\ type = "char" => v \in Nat
  /\ type = "string" => v \in Octets /\ Len(v) < Pow2[Int32]
  /\ type = "enum" => v \in 0..2
  /\ type = "option" => v = None \/ v \in Nat
  /\ type = "list" => v \in Seq(Nat) /\ Len(v) < Pow2[Int32]
  /\ type = "flags" => v \in SUBSET (0..9)

LEMMA EchoTypes ==
  ASSUME NEW type \in Echo
  PROVE  \/ type \in Unsigned
         \/ type \in Signed
         \/ type = "bool"
         \/ type = "char"
         \/ type = "string"
         \/ type = "enum"
         \/ type = "option"
         \/ type = "list"
         \/ type = "flags"
BY DEF Echo

LEMMA Coders ==
  ASSUME NEW buf, NEW pos, NEW v
  PROVE  /\ \A t \in Unsigned : Decode(t, buf, pos) = Uleb(Bits(t), buf, pos) /\ Encode(t, v) = EncodeUleb[v]
         /\ \A t \in Signed : Decode(t, buf, pos) = Sleb(Bits(t), buf, pos) /\ Encode(t, v) = EncodeSleb[v]
         /\ Decode("bool", buf, pos) = PrefixBit(buf, pos) /\ Encode("bool", v) = EncodeBool(v)
         /\ Decode("char", buf, pos) = Char(buf, pos) /\ Encode("char", v) = EncodeUleb[v]
         /\ Decode("string", buf, pos) = String(buf, pos) /\ Encode("string", v) = EncodeString(v)
         /\ Decode("enum", buf, pos) = Case(3, buf, pos) /\ Encode("enum", v) = EncodeUleb[v]
         /\ Decode("option", buf, pos) = Option(buf, pos) /\ Encode("option", v) = EncodeOption(v)
         /\ Decode("list", buf, pos) = List(buf, pos) /\ Encode("list", v) = EncodeList(v)
         /\ Decode("flags", buf, pos) = Flags(10, buf, pos) /\ Encode("flags", v) = EncodeFlags(10, v)
BY DEF Decode, Encode, Unsigned, Signed

LEMMA TypesApart ==
  ASSUME NEW t
  PROVE  /\ t \in Unsigned => t \notin Signed
         /\ t \in Unsigned \cup Signed => t # "bool" /\ t # "char" /\ t # "string" /\ t # "enum"
                                          /\ t # "option" /\ t # "list" /\ t # "flags"
BY DEF Unsigned, Signed

\* What is read is a value of its type, which a host would write in no more bytes.
LEMMA DecodeRead ==
  ASSUME NEW type \in Echo, NEW buf \in Octets, NEW pos \in Nat, pos <= Len(buf), Decode(type, buf, pos).ok
  PROVE  LET r == Decode(type, buf, pos)
         IN OfType(type, r.val) /\ ReadOf(r, buf, pos, Encode(type, r.val))
<1> DEFINE r == Decode(type, buf, pos)
<1>1. CASE type \in Unsigned
  <2>1. Bits(type) \in Nat \ {0} /\ r = Uleb(Bits(type), buf, pos) /\ \A v : Encode(type, v) = EncodeUleb[v]
    BY <1>1, BitsType, Coders
  <2>2. r.val \in Nat /\ r.val < Pow2[Bits(type)] /\ ReadOf(r, buf, pos, EncodeUleb[r.val])
    BY <2>1, UlebRead
  <2> HIDE DEF r
  <2>3. QED BY <1>1, <2>1, <2>2, TypesApart DEF OfType, r
<1>2. CASE type \in Signed
  <2>1. Bits(type) \in Nat \ {0} /\ Bits(type) <= Word /\ r = Sleb(Bits(type), buf, pos)
        /\ \A v : Encode(type, v) = EncodeSleb[v]
    BY <1>2, BitsType, Coders
  <2>2. r.val \in Int /\ InRange(r.val, Bits(type)) /\ ReadOf(r, buf, pos, EncodeSleb[r.val])
    BY <2>1, SlebRead
  <2> HIDE DEF r
  <2>3. QED BY <1>2, <2>1, <2>2, TypesApart DEF OfType, r
<1>3. CASE type = "bool"
  <2>1. r = PrefixBit(buf, pos) /\ \A v : Encode(type, v) = EncodeBool(v)
    BY <1>3, Coders
  <2>2. r.val \in BOOLEAN /\ ReadOf(r, buf, pos, EncodeBool(r.val))
    BY <2>1, PrefixBitRead
  <2> HIDE DEF r
  <2>3. OfType(type, r.val)
    BY <1>3, <2>2, TypesApart DEF OfType
  <2>4. ReadOf(r, buf, pos, Encode(type, r.val))
    BY <2>1, <2>2
  <2>5. QED BY <2>3, <2>4 DEF r
<1>4. CASE type = "char"
  <2>1. r = Char(buf, pos) /\ \A v : Encode(type, v) = EncodeUleb[v]
    BY <1>4, Coders
  <2>2. r = Uleb(21, buf, pos) /\ Uleb(21, buf, pos).ok /\ IsScalar(r.val)
    BY <2>1, CharIs
  <2>3. r.val \in Nat /\ ReadOf(r, buf, pos, EncodeUleb[r.val])
    BY <2>2, UlebRead
  <2> HIDE DEF r
  <2>4. QED BY <1>4, <2>1, <2>2, <2>3, TypesApart DEF OfType, r
<1>5. CASE type = "string"
  <2>1. r = String(buf, pos) /\ \A v : Encode(type, v) = EncodeString(v)
    BY <1>5, Coders
  <2>2. r.val \in Octets /\ Len(r.val) < Pow2[Int32] /\ Utf8Valid(r.val)
        /\ ReadOf(r, buf, pos, EncodeString(r.val))
    BY <2>1, StringRead
  <2> HIDE DEF r
  <2>3. QED BY <1>5, <2>1, <2>2, TypesApart DEF OfType, r
<1>6. CASE type = "enum"
  <2>1. r = Case(3, buf, pos) /\ \A v : Encode(type, v) = EncodeUleb[v]
    BY <1>6, Coders
  <2>2. r = Uleb(Int32, buf, pos) /\ Uleb(Int32, buf, pos).ok /\ ~(r.val >= 3) /\ Int32 \in Nat \ {0}
    BY <2>1, CaseIs, WidthAssumption
  <2>3. r.val \in Nat /\ ReadOf(r, buf, pos, EncodeUleb[r.val])
    BY <2>2, UlebRead
  <2> HIDE DEF r
  <2>4. r.val \in 0..2
    BY <2>2, <2>3
  <2>5. QED BY <1>6, <2>1, <2>3, <2>4, TypesApart DEF OfType, r
<1>7. CASE type = "option"
  <2>1. r = Option(buf, pos) /\ \A v : Encode(type, v) = EncodeOption(v)
    BY <1>7, Coders
  <2>2. (r.val = None \/ (r.val \in Nat /\ r.val < 256)) /\ ReadOf(r, buf, pos, EncodeOption(r.val))
    BY <2>1, OptionRead
  <2> HIDE DEF r
  <2>3. QED BY <1>7, <2>1, <2>2, TypesApart DEF OfType, r
<1>8. CASE type = "list"
  <2>1. r = List(buf, pos) /\ \A v : Encode(type, v) = EncodeList(v)
    BY <1>8, Coders
  <2>2. /\ r.val \in Seq(Nat) /\ Len(r.val) < Pow2[Int32] /\ \A i \in 1..Len(r.val) : r.val[i] \in AnyByte
        /\ ReadOf(r, buf, pos, EncodeList(r.val))
    BY <2>1, ListRead
  <2> HIDE DEF r
  <2>3. QED BY <1>8, <2>1, <2>2, TypesApart DEF OfType, r
<1>9. CASE type = "flags"
  <2>1. r = Flags(10, buf, pos) /\ \A v : Encode(type, v) = EncodeFlags(10, v)
    BY <1>9, Coders
  <2>2. r.val \in SUBSET (0..9) /\ ReadOf(r, buf, pos, EncodeFlags(10, r.val))
    BY <2>1, FlagsRead
  <2> HIDE DEF r
  <2>3. QED BY <1>9, <2>1, <2>2, TypesApart DEF OfType, r
<1>10. QED BY <1>1, <1>2, <1>3, <1>4, <1>5, <1>6, <1>7, <1>8, <1>9, EchoTypes

\* What a host wrote is read back if it is a value of the type, and refused if not.
LEMMA DecodeReads ==
  ASSUME NEW type \in Echo, NEW v, Writable(type, v), NEW buf, NEW pos, Holds(buf, pos, Encode(type, v))
  PROVE  /\ OfType(type, v) => Decode(type, buf, pos) = Ok(v, pos + Len(Encode(type, v)))
         /\ ~OfType(type, v) => ~Decode(type, buf, pos).ok
<1> DEFINE r == Decode(type, buf, pos)
           w == Encode(type, v)
           end == pos + Len(w)
           Right == OfType(type, v)
<1>0. SUFFICES (Right => r = Ok(v, end)) /\ (~Right => ~r.ok)
  OBVIOUS
<1>1. CASE type \in Unsigned
  <2>1. Bits(type) \in Nat \ {0} /\ r = Uleb(Bits(type), buf, pos) /\ w = EncodeUleb[v] /\ v \in Nat
    BY <1>1, BitsType, Coders DEF Writable
  <2>2. r = IF v < Pow2[Bits(type)] THEN Ok(v, end) ELSE Fail
    BY <2>1, UlebReads
  <2>3. Right <=> v < Pow2[Bits(type)]
    BY <1>1, <2>1, TypesApart DEF OfType
  <2> HIDE DEF r, w, end, Right
  <2>4. QED BY <2>2, <2>3, OkIs
<1>2. CASE type \in Signed
  <2>1. Bits(type) \in Nat \ {0} /\ Bits(type) <= Word /\ r = Sleb(Bits(type), buf, pos) /\ w = EncodeSleb[v]
        /\ v \in Int
    BY <1>2, BitsType, Coders DEF Writable
  <2>2. r = IF InRange(v, Bits(type)) THEN Ok(v, end) ELSE Fail
    BY <2>1, SlebReads
  <2>3. Right <=> InRange(v, Bits(type))
    BY <1>2, <2>1, TypesApart DEF OfType
  <2> HIDE DEF r, w, end, Right
  <2>4. QED BY <2>2, <2>3, OkIs
<1>3. CASE type = "bool"
  <2>1. r = PrefixBit(buf, pos) /\ w = EncodeBool(v) /\ v \in BOOLEAN
    BY <1>3, Coders DEF Writable
  <2>2. Len(w) = 1
    BY <2>1, BoolWritten
  <2>3. r = Ok(v, pos + 1)
    BY <2>1, PrefixBitReadsBack
  <2>4. Right
    BY <1>3, <2>1, TypesApart DEF OfType
  <2> HIDE DEF r, w, end, Right
  <2>5. QED BY <2>2, <2>3, <2>4 DEF end
<1>4. CASE type = "char"
  <2>1. r = Char(buf, pos) /\ w = EncodeUleb[v] /\ v \in Nat
    BY <1>4, Coders DEF Writable
  <2>2. r = IF IsScalar(v) THEN Ok(v, end) ELSE Fail
    BY <2>1, CharReadsBack
  <2>3. Right <=> IsScalar(v)
    BY <1>4, <2>1, TypesApart DEF OfType
  <2> HIDE DEF r, w, end, Right
  <2>4. QED BY <2>2, <2>3, OkIs
<1>5. CASE type = "string"
  <2>1. r = String(buf, pos) /\ w = EncodeString(v) /\ v \in Octets /\ Len(v) < Pow2[Int32]
    BY <1>5, Coders DEF Writable
  <2>2. v \in Seq(0..255)
    BY <2>1, OctetsIs
  <2>3. r = IF Utf8Valid(v) THEN Ok(v, end) ELSE Fail
    BY <2>1, <2>2, StringReadsBack
  <2>4. Right <=> Utf8Valid(v)
    BY <1>5, <2>1, TypesApart DEF OfType
  <2> HIDE DEF r, w, end, Right
  <2>5. QED BY <2>3, <2>4, OkIs
<1>6. CASE type = "enum"
  <2>1. r = Case(3, buf, pos) /\ w = EncodeUleb[v] /\ v \in 0..2
    BY <1>6, Coders DEF Writable
  <2>2. r = Ok(v, end)
    BY <2>1, CaseReadsBack
  <2>3. Right
    BY <1>6, <2>1, TypesApart DEF OfType
  <2> HIDE DEF r, w, end, Right
  <2>4. QED BY <2>2, <2>3
<1>7. CASE type = "option"
  <2>1. r = Option(buf, pos) /\ w = EncodeOption(v) /\ (v = None \/ v \in Nat)
    BY <1>7, Coders DEF Writable
  <2>2. r = IF v = None \/ v < 256 THEN Ok(v, end) ELSE Fail
    BY <2>1, OptionReads
  <2>3. Right <=> (v = None \/ v < 256)
    BY <1>7, <2>1, TypesApart DEF OfType
  <2> HIDE DEF r, w, end, Right
  <2>4. QED BY <2>2, <2>3, OkIs
<1>8. CASE type = "list"
  <2>1. r = List(buf, pos) /\ w = EncodeList(v) /\ v \in Seq(Nat) /\ Len(v) < Pow2[Int32]
    BY <1>8, Coders DEF Writable
  <2>2. (\A i \in 1..Len(v) : v[i] \in AnyByte) => r = Ok(v, end)
    BY <2>1, ListReadsBack
  <2>3. r.ok => \A i \in 1..Len(v) : v[i] \in AnyByte
    BY <2>1, ListOnly
  <2>4. Right <=> \A i \in 1..Len(v) : v[i] \in AnyByte
    BY <1>8, <2>1, TypesApart DEF OfType
  <2> HIDE DEF r, w, end, Right
  <2>5. QED BY <2>2, <2>3, <2>4
<1>9. CASE type = "flags"
  <2>1. r = Flags(10, buf, pos) /\ w = EncodeFlags(10, v) /\ v \in SUBSET (0..9)
    BY <1>9, Coders DEF Writable
  <2>2. r = Ok(v, end)
    BY <2>1, FlagsReadBack
  <2>3. Right
    BY <1>9, <2>1, TypesApart DEF OfType
  <2> HIDE DEF r, w, end, Right
  <2>4. QED BY <2>2, <2>3
<1>10. QED BY <1>1, <1>2, <1>3, <1>4, <1>5, <1>6, <1>7, <1>8, <1>9, EchoTypes

\* What is read of a buffer is read of every buffer that begins with it.
LEMMA DecodeExtends ==
  ASSUME NEW type \in Echo, NEW q, NEW buf, Begins(q, buf), NEW pos \in Nat, pos <= Len(q), Decode(type, q, pos).ok
  PROVE  Decode(type, buf, pos) = Decode(type, q, pos)
<1>1. CASE type \in Unsigned
  <2>1. Bits(type) \in Nat /\ Decode(type, q, pos) = Uleb(Bits(type), q, pos)
        /\ Decode(type, buf, pos) = Uleb(Bits(type), buf, pos)
    BY <1>1, BitsType, Coders
  <2>2. QED BY <2>1, UlebExtends
<1>2. CASE type \in Signed
  <2>1. Bits(type) \in Nat /\ Decode(type, q, pos) = Sleb(Bits(type), q, pos)
        /\ Decode(type, buf, pos) = Sleb(Bits(type), buf, pos)
    BY <1>2, BitsType, Coders
  <2>2. QED BY <2>1, SlebExtends
<1>3. CASE type = "bool"
  <2>1. Decode(type, q, pos) = PrefixBit(q, pos) /\ Decode(type, buf, pos) = PrefixBit(buf, pos)
    BY <1>3, Coders
  <2>2. QED BY <2>1, PrefixBitExtends
<1>4. CASE type = "char"
  <2>1. Decode(type, q, pos) = Char(q, pos) /\ Decode(type, buf, pos) = Char(buf, pos)
    BY <1>4, Coders
  <2>2. QED BY <2>1, CharExtends
<1>5. CASE type = "string"
  <2>1. Decode(type, q, pos) = String(q, pos) /\ Decode(type, buf, pos) = String(buf, pos)
    BY <1>5, Coders
  <2>2. QED BY <2>1, StringExtends
<1>6. CASE type = "enum"
  <2>1. Decode(type, q, pos) = Case(3, q, pos) /\ Decode(type, buf, pos) = Case(3, buf, pos)
    BY <1>6, Coders
  <2>2. QED BY <2>1, CaseExtends
<1>7. CASE type = "option"
  <2>1. Decode(type, q, pos) = Option(q, pos) /\ Decode(type, buf, pos) = Option(buf, pos)
    BY <1>7, Coders
  <2>2. QED BY <2>1, OptionExtends
<1>8. CASE type = "list"
  <2>1. Decode(type, q, pos) = List(q, pos) /\ Decode(type, buf, pos) = List(buf, pos)
    BY <1>8, Coders
  <2>2. QED BY <2>1, ListExtends
<1>9. CASE type = "flags"
  <2>1. Decode(type, q, pos) = Flags(10, q, pos) /\ Decode(type, buf, pos) = Flags(10, buf, pos)
    BY <1>9, Coders
  <2>2. QED BY <2>1, FlagsExtend
<1>10. QED BY <1>1, <1>2, <1>3, <1>4, <1>5, <1>6, <1>7, <1>8, <1>9, EchoTypes
-----------------------------------------------------------------------------
(* Parameters of more than one part. *)

\* One part is read after another.
LEMMA InTurn ==
  ASSUME NEW buf \in Octets, NEW pos \in Nat, NEW a, NEW b, NEW w, NEW u,
         ReadOf(a, buf, pos, w), ReadOf(b, buf, a.pos, u)
  PROVE  w \o u \in Octets /\ pos + Len(w \o u) <= b.pos
<1>1. w \in Octets /\ u \in Octets /\ pos + Len(w) <= a.pos /\ a.pos + Len(u) <= b.pos /\ a.pos \in Nat /\ b.pos \in Nat
  BY DEF ReadOf
<1>2. w \o u \in Octets /\ Len(w \o u) = Len(w) + Len(u) /\ Len(w) \in Nat /\ Len(u) \in Nat
  BY <1>1, Concat
<1>3. QED BY <1>1, <1>2

\* add
EncodeAdd(v) == EncodeUleb[v[1]] \o EncodeUleb[v[2]]

LEMMA AddIs ==
  ASSUME NEW buf
  PROVE  LET a == Uleb(Int32, buf, 0)
             b == Uleb(Int32, buf, a.pos)
         IN decodeAdd(buf) = IF a.ok THEN IF b.ok THEN [b EXCEPT !.val = <<a.val, @>>] ELSE Fail ELSE Fail
BY Zenon DEF decodeAdd, Then

LEMMA AddRead ==
  ASSUME NEW buf \in Octets, decodeAdd(buf).ok
  PROVE  LET r == decodeAdd(buf)
         IN /\ r.val \in Nat \X Nat /\ r.val[1] < Pow2[Int32] /\ r.val[2] < Pow2[Int32]
            /\ ReadOf(r, buf, 0, EncodeAdd(r.val))
<1> DEFINE a == Uleb(Int32, buf, 0)
           b == Uleb(Int32, buf, a.pos)
           r == decodeAdd(buf)
           x == a.val
           y == b.val
           w == EncodeUleb[x]
           u == EncodeUleb[y]
<1>0. Int32 \in Nat \ {0} /\ Len(buf) \in Nat /\ 0 \in Nat /\ 0 <= Len(buf)
  BY WidthAssumption, OctetsIs
<1>1. r = IF a.ok THEN IF b.ok THEN [b EXCEPT !.val = <<a.val, @>>] ELSE Fail ELSE Fail
  BY AddIs, Zenon
<1>2. r.ok
  OBVIOUS
<1>3. a.ok /\ b.ok
  <2> HIDE DEF r, a, b
  <2>1. QED BY <1>1, <1>2, OkIs
<1>4. x \in Nat /\ x < Pow2[Int32] /\ ReadOf(a, buf, 0, w)
  BY <1>0, <1>3, UlebRead
<1> HIDE DEF a
<1>5. a.pos \in Nat /\ a.pos <= Len(buf)
  BY <1>4 DEF ReadOf
<1>6. y \in Nat /\ y < Pow2[Int32] /\ ReadOf(b, buf, a.pos, u)
  BY <1>0, <1>3, <1>5, UlebRead
<1> HIDE DEF r, b
<1>7. w \o u \in Octets /\ 0 + Len(w \o u) <= b.pos
  BY <1>4, <1>6, InTurn
<1>8. b = Ok(y, b.pos) /\ b.pos \in Nat /\ b.pos <= Len(buf)
  BY <1>6 DEF ReadOf
<1>9. r = Ok(<<x, y>>, b.pos)
  <2> DEFINE pair == <<x, y>>
             p == b.pos
  <2> HIDE DEF pair, p
  <2>1. r = [b EXCEPT !.val = pair]
    BY <1>1, <1>3, Zenon DEF pair
  <2>2. b = Ok(y, p)
    BY <1>8 DEF p
  <2> HIDE DEF y
  <2>3. r = Ok(pair, p)
    BY <2>1, <2>2, Replaced
  <2>4. QED BY <2>3 DEF pair, p
<1> HIDE DEF x, y
<1>10. r.val = <<x, y>> /\ r.pos = b.pos
  BY <1>9, OkIs
<1>11. EncodeAdd(r.val) = w \o u
  <2>1. r.val[1] = x /\ r.val[2] = y
    BY <1>10
  <2>2. QED BY <2>1 DEF EncodeAdd, w, u
<1> HIDE DEF w, u
<1>12. ReadOf(r, buf, 0, EncodeAdd(r.val))
  BY <1>7, <1>8, <1>9, <1>10, <1>11 DEF ReadOf
<1>13. r.val \in Nat \X Nat /\ r.val[1] < Pow2[Int32] /\ r.val[2] < Pow2[Int32]
  BY <1>4, <1>6, <1>10
<1>14. QED BY <1>12, <1>13 DEF r

LEMMA AddReads ==
  ASSUME NEW v \in Nat \X Nat, NEW buf, Holds(buf, 0, EncodeAdd(v))
  PROVE  decodeAdd(buf) = IF v[1] < Pow2[Int32] /\ v[2] < Pow2[Int32]
                          THEN Ok(v, 0 + Len(EncodeAdd(v))) ELSE Fail
<1> DEFINE x == v[1]
           y == v[2]
           w == EncodeUleb[x]
           u == EncodeUleb[y]
           a == Uleb(Int32, buf, 0)
           b == Uleb(Int32, buf, a.pos)
           r == decodeAdd(buf)
           end == 0 + Len(EncodeAdd(v))
<1>0. Int32 \in Nat \ {0} /\ x \in Nat /\ y \in Nat /\ v = <<x, y>>
  BY WidthAssumption
<1>1. w \in Octets /\ u \in Octets /\ EncodeAdd(v) = w \o u
  BY <1>0, NumbersWritten DEF EncodeAdd
<1> HIDE DEF w, u, x, y
<1>2. Holds(buf, 0, w) /\ Holds(buf, 0 + Len(w), u) /\ end = (0 + Len(w)) + Len(u)
  BY <1>1, HeldParts
<1>3. r = IF a.ok THEN IF b.ok THEN [b EXCEPT !.val = <<a.val, @>>] ELSE Fail ELSE Fail
  BY AddIs, Zenon
<1>4. a = IF x < Pow2[Int32] THEN Ok(x, 0 + Len(w)) ELSE Fail
  BY <1>0, <1>2, UlebReads DEF w
<1>5. CASE x < Pow2[Int32]
  <2> DEFINE at == 0 + Len(w)
  <2>1. a = Ok(x, at)
    BY <1>4, <1>5
  <2> HIDE DEF a, at
  <2>2. a.ok /\ a.val = x /\ a.pos = at
    BY <2>1, OkIs
  <2>3. Holds(buf, at, u)
    BY <1>2 DEF at
  <2>4. b = IF y < Pow2[Int32] THEN Ok(y, at + Len(u)) ELSE Fail
    BY <1>0, <2>2, <2>3, UlebReads DEF u
  <2>5. at + Len(u) = end
    BY <1>2 DEF at
  <2> HIDE DEF b, end, r
  <2>6. CASE y < Pow2[Int32]
    <3> DEFINE pair == <<x, y>>
    <3> HIDE DEF pair
    <3>1. b = Ok(y, end)
      BY <2>4, <2>5, <2>6
    <3>2. b.ok /\ b.val = y
      BY <3>1, OkIs
    <3>3. r = [b EXCEPT !.val = pair]
      BY <1>3, <2>2, <3>2, Zenon DEF pair
    <3>4. r = Ok(pair, end)
      BY <3>1, <3>3, Replaced
    <3>5. r = Ok(v, end)
      BY <1>0, <3>4 DEF pair
    <3>6. QED BY <1>5, <2>6, <3>5 DEF r, end, x, y
  <2>7. CASE ~(y < Pow2[Int32])
    <3>1. ~b.ok
      BY <2>4, <2>7, OkIs
    <3>2. r = Fail
      BY <1>3, <3>1
    <3>3. QED BY <2>7, <3>2 DEF r, y
  <2>8. QED BY <2>6, <2>7
<1>6. CASE ~(x < Pow2[Int32])
  <2>1. ~a.ok
    BY <1>4, <1>6, OkIs
  <2> HIDE DEF a, b, r
  <2>2. r = Fail
    BY <1>3, <2>1
  <2>3. QED BY <1>6, <2>2 DEF r, x
<1>7. QED BY <1>5, <1>6

LEMMA AddExtends ==
  ASSUME NEW q, NEW buf, Begins(q, buf), decodeAdd(q).ok
  PROVE  decodeAdd(buf) = decodeAdd(q)
<1> DEFINE a == Uleb(Int32, q, 0)
           b == Uleb(Int32, q, a.pos)
           r == decodeAdd(q)
<1>0. Int32 \in Nat \ {0} /\ q \in Octets /\ Len(q) \in Nat /\ 0 \in Nat /\ 0 <= Len(q)
  BY WidthAssumption, OctetsIs DEF Begins
<1>1. r = IF a.ok THEN IF b.ok THEN [b EXCEPT !.val = <<a.val, @>>] ELSE Fail ELSE Fail
  BY AddIs, Zenon
<1>2. r.ok
  OBVIOUS
<1>3. a.ok /\ b.ok
  <2> HIDE DEF r, a, b
  <2>1. QED BY <1>1, <1>2, OkIs
<1>4. a.pos \in Nat /\ a.pos <= Len(q)
  BY <1>0, <1>3, UlebRead DEF ReadOf
<1>5. Uleb(Int32, buf, 0) = a
  BY <1>0, <1>3, UlebExtends
<1> DEFINE p == a.pos
<1>6. p \in Nat /\ p <= Len(q) /\ Uleb(Int32, q, p).ok
  BY <1>3, <1>4
<1>7. Uleb(Int32, buf, p) = Uleb(Int32, q, p)
  <2> HIDE DEF p
  <2>1. QED BY <1>0, <1>6, UlebExtends
<1> DEFINE c == Uleb(Int32, buf, 0)
           d == Uleb(Int32, buf, c.pos)
<1>8. decodeAdd(buf) = IF c.ok THEN IF d.ok THEN [d EXCEPT !.val = <<c.val, @>>] ELSE Fail ELSE Fail
  BY AddIs, Zenon
<1>9. c = a /\ d = b
  BY <1>5, <1>7
<1> HIDE DEF a, b, c, d, r
<1>10. decodeAdd(buf) = r
  BY <1>1, <1>8, <1>9
<1>11. QED BY <1>10 DEF r

\* greet
OptionalBit(buf, pos) ==
  Then(PrefixBit(buf, pos), LAMBDA tag :
       IF tag.val THEN PrefixBit(buf, tag.pos) ELSE [tag EXCEPT !.val = None])

EncodeOptionalBit(v) == IF v = None THEN <<0>> ELSE <<1>> \o EncodeBool(v)

LEMMA OptionalBitIs ==
  ASSUME NEW buf, NEW pos
  PROVE  LET tag == PrefixBit(buf, pos)
         IN OptionalBit(buf, pos) = IF tag.ok
                                    THEN IF tag.val THEN PrefixBit(buf, tag.pos) ELSE [tag EXCEPT !.val = None]
                                    ELSE Fail
BY Zenon DEF OptionalBit, Then

LEMMA OptionalBitWritten ==
  /\ EncodeOptionalBit(None) = <<0>> /\ <<0>> \in Octets /\ Len(<<0>>) = 1 /\ <<0>> = EncodeBool(FALSE)
  /\ \A v \in BOOLEAN :
       /\ v # None /\ EncodeOptionalBit(v) = <<1>> \o EncodeBool(v) /\ <<1>> \in Octets /\ <<1>> = EncodeBool(TRUE)
       /\ EncodeOptionalBit(v) \in Octets /\ Len(EncodeOptionalBit(v)) = 2 /\ Len(<<1>>) = 1
<1>1. <<0>> \in Octets /\ <<1>> \in Octets /\ Len(<<0>>) = 1 /\ Len(<<1>>) = 1
  <2>1. 0 \in 0..255 /\ 1 \in 0..255
    OBVIOUS
  <2>2. QED BY <2>1, OneByteWritten
<1>2. EncodeOptionalBit(None) = <<0>>
  BY DEF EncodeOptionalBit
<1>3. ASSUME NEW v \in BOOLEAN
      PROVE  /\ v # None /\ EncodeOptionalBit(v) = <<1>> \o EncodeBool(v)
             /\ EncodeOptionalBit(v) \in Octets /\ Len(EncodeOptionalBit(v)) = 2
  <2>0. v # None
    BY NoneAssumption
  <2>1. EncodeOptionalBit(v) = <<1>> \o EncodeBool(v)
    BY <2>0, Zenon DEF EncodeOptionalBit
  <2> DEFINE w == EncodeBool(v)
  <2>2. w \in Octets /\ Len(w) = 1
    BY BoolWritten
  <2> HIDE DEF w
  <2>3. 1 \in 0..255
    OBVIOUS
  <2>4. <<1>> \o w \in Octets /\ Len(<<1>> \o w) = Len(w) + 1
    BY <2>2, <2>3, Prefixed
  <2>a. Len(<<1>> \o w) = 2
    BY <2>2, <2>4
  <2>5. QED BY <2>0, <2>1, <2>4, <2>a DEF w
<1>4. <<0>> = EncodeBool(FALSE) /\ <<1>> = EncodeBool(TRUE)
  BY DEF EncodeBool
<1>5. QED BY <1>1, <1>2, <1>3, <1>4

LEMMA OptionalBitRead ==
  ASSUME NEW buf \in Octets, NEW pos \in Nat, pos <= Len(buf), OptionalBit(buf, pos).ok
  PROVE  LET r == OptionalBit(buf, pos)
         IN (r.val = None \/ r.val \in BOOLEAN) /\ ReadOf(r, buf, pos, EncodeOptionalBit(r.val))
<1> DEFINE tag == PrefixBit(buf, pos)
           r == OptionalBit(buf, pos)
           n == PrefixBit(buf, pos + 1)
<1>1. r = IF tag.ok THEN IF tag.val THEN PrefixBit(buf, tag.pos) ELSE [tag EXCEPT !.val = None] ELSE Fail
  BY OptionalBitIs, Zenon
<1>2. tag.ok
  <2> HIDE DEF tag
  <2>1. r.ok /\ ~Fail.ok
    BY OkIs
  <2> HIDE DEF r
  <2>2. QED BY <1>1, <2>1
<1>3. tag.val \in BOOLEAN /\ tag.pos = pos + 1 /\ tag = Ok(tag.val, tag.pos) /\ pos + 1 \in Nat /\ pos + 1 <= Len(buf)
  <2>1. tag.val \in BOOLEAN /\ tag.pos = pos + 1 /\ ReadOf(tag, buf, pos, EncodeBool(tag.val))
    BY <1>2, PrefixBitRead
  <2> HIDE DEF tag
  <2>2. QED BY <2>1 DEF ReadOf
<1> HIDE DEF tag
<1>4. CASE tag.val
  <2>1. r = n /\ n.ok
    <3>1. r = n
      BY <1>1, <1>2, <1>3, <1>4
    <3>2. r.ok
      OBVIOUS
    <3> HIDE DEF r, n
    <3>3. QED BY <3>1, <3>2
  <2>2. n.val \in BOOLEAN /\ n.pos = (pos + 1) + 1 /\ ReadOf(n, buf, pos + 1, EncodeBool(n.val))
    BY <1>3, <2>1, PrefixBitRead
  <2> HIDE DEF n, r
  <2> DEFINE w == EncodeOptionalBit(n.val)
             v == n.val
  <2>3. w \in Octets /\ Len(w) = 2
    <3>1. v \in BOOLEAN
      BY <2>2
    <3> HIDE DEF v
    <3>2. EncodeOptionalBit(v) \in Octets /\ Len(EncodeOptionalBit(v)) = 2
      BY <3>1, OptionalBitWritten
    <3>3. QED BY <3>2 DEF v
  <2>4. n = Ok(v, n.pos) /\ n.pos \in Nat /\ n.pos <= Len(buf)
    BY <2>2 DEF ReadOf
  <2> HIDE DEF w, v
  <2>5. pos + Len(w) <= n.pos
    BY <2>2, <2>3
  <2>6. ReadOf(n, buf, pos, w)
    BY <2>3, <2>4, <2>5 DEF ReadOf, v
  <2>7. QED BY <2>1, <2>2, <2>6 DEF w, r
<1>5. CASE ~tag.val
  <2>1. r = [tag EXCEPT !.val = None]
    BY <1>1, <1>2, <1>5
  <2>2. r = Ok(None, pos + 1)
    <3> DEFINE v == tag.val
               at == tag.pos
    <3>1. tag = Ok(v, at)
      BY <1>3
    <3> HIDE DEF v, at
    <3>2. [tag EXCEPT !.val = None] = Ok(None, at)
      BY <3>1, Replaced
    <3> HIDE DEF r
    <3>3. QED BY <1>3, <2>1, <3>2 DEF at
  <2> HIDE DEF r
  <2>3. r.val = None /\ r.pos = pos + 1
    BY <2>2, OkIs
  <2>4. pos + Len(EncodeOptionalBit(None)) <= pos + 1 /\ EncodeOptionalBit(None) \in Octets
    BY OptionalBitWritten
  <2>5. ReadOf(r, buf, pos, EncodeOptionalBit(None))
    BY <1>3, <2>2, <2>3, <2>4 DEF ReadOf
  <2>6. QED BY <2>3, <2>5 DEF r
<1>6. QED BY <1>3, <1>4, <1>5

LEMMA OptionalBitReads ==
  ASSUME NEW v \in BOOLEAN \cup {None}, NEW buf, NEW pos, Holds(buf, pos, EncodeOptionalBit(v))
  PROVE  OptionalBit(buf, pos) = Ok(v, pos + Len(EncodeOptionalBit(v)))
<1> DEFINE tag == PrefixBit(buf, pos)
<1>1. OptionalBit(buf, pos) = IF tag.ok THEN IF tag.val THEN PrefixBit(buf, tag.pos) ELSE [tag EXCEPT !.val = None] ELSE Fail
  BY OptionalBitIs, Zenon
<1>2. CASE v = None
  <2>1. tag = Ok(FALSE, pos + 1)
    BY <1>2, OptionalBitWritten, PrefixBitReadsBack
  <2> HIDE DEF tag
  <2>2. tag.ok /\ ~tag.val
    BY <2>1, OkIs, Zenon
  <2>3. [tag EXCEPT !.val = None] = Ok(None, pos + 1)
    <3> DEFINE f == FALSE
    <3> HIDE DEF f
    <3>1. tag = Ok(f, pos + 1)
      BY <2>1 DEF f
    <3>2. QED BY <3>1, Replaced
  <2>4. OptionalBit(buf, pos) = Ok(None, pos + 1)
    BY <1>1, <2>2, <2>3
  <2>5. QED BY <1>2, <2>4, OptionalBitWritten
<1>3. CASE v # None
  <2>1. v \in BOOLEAN
    BY <1>3
  <2> DEFINE u == EncodeBool(v)
             o == <<1>>
  <2>2. o = EncodeBool(TRUE) /\ Len(o) = 1 /\ o \in Octets /\ u \in Octets /\ Len(u) = 1
        /\ EncodeOptionalBit(v) = o \o u /\ Len(EncodeOptionalBit(v)) = 2
    BY <2>1, OptionalBitWritten, BoolWritten
  <2>3. Holds(buf, pos, o \o u)
    BY <2>2
  <2> HIDE DEF o, u
  <2>4. Holds(buf, pos, o) /\ Holds(buf, pos + Len(o), u) /\ pos \in Nat
    <3>1. Holds(buf, pos, o) /\ Holds(buf, pos + Len(o), u)
      BY <2>2, <2>3, HeldParts
    <3>2. QED BY <3>1 DEF Holds
  <2>5. tag = Ok(TRUE, pos + 1)
    BY <2>2, <2>4, PrefixBitReadsBack
  <2> HIDE DEF tag
  <2>6. tag.ok /\ tag.val /\ tag.pos = pos + 1
    BY <2>5, OkIs, Zenon
  <2>7. OptionalBit(buf, pos) = PrefixBit(buf, pos + 1)
    BY <1>1, <2>6
  <2> DEFINE at == pos + 1
  <2>8. Holds(buf, at, u)
    BY <2>2, <2>4
  <2> HIDE DEF at
  <2>9. PrefixBit(buf, at) = Ok(v, at + 1)
    BY <2>1, <2>8, PrefixBitReadsBack DEF u
  <2>10. at + 1 = pos + 2
    BY <2>4 DEF at
  <2>11. QED BY <2>2, <2>7, <2>9, <2>10 DEF at
<1>4. QED BY <1>2, <1>3

LEMMA OptionalBitExtends ==
  ASSUME NEW q, NEW buf, Begins(q, buf), NEW pos \in Nat, pos <= Len(q), OptionalBit(q, pos).ok
  PROVE  OptionalBit(buf, pos) = OptionalBit(q, pos)
<1> DEFINE tag == PrefixBit(q, pos)
<1>0. q \in Octets
  BY DEF Begins
<1>1. OptionalBit(q, pos) = IF tag.ok THEN IF tag.val THEN PrefixBit(q, tag.pos) ELSE [tag EXCEPT !.val = None] ELSE Fail
  BY OptionalBitIs, Zenon
<1>2. tag.ok
  <2> HIDE DEF tag
  <2>1. OptionalBit(q, pos).ok /\ ~Fail.ok
    BY OkIs
  <2>2. QED BY <1>1, <2>1
<1>3. tag.val \in BOOLEAN /\ tag.pos \in Nat /\ tag.pos <= Len(q)
  BY <1>0, <1>2, PrefixBitRead DEF ReadOf
<1>4. PrefixBit(buf, pos) = tag
  BY <1>2, PrefixBitExtends
<1>5. OptionalBit(buf, pos) = IF tag.ok THEN IF tag.val THEN PrefixBit(buf, tag.pos) ELSE [tag EXCEPT !.val = None] ELSE Fail
  BY <1>4, OptionalBitIs, Zenon
<1> HIDE DEF tag
<1>6. CASE tag.val
  <2>1. OptionalBit(q, pos) = PrefixBit(q, tag.pos)
    BY <1>1, <1>2, <1>6
  <2>2. PrefixBit(q, tag.pos).ok
    BY <2>1
  <2>3. PrefixBit(buf, tag.pos) = PrefixBit(q, tag.pos)
    BY <1>3, <2>2, PrefixBitExtends
  <2>4. QED BY <1>1, <1>5, <1>6, <2>3
<1>7. CASE ~tag.val
  BY <1>1, <1>5, <1>7
<1>8. QED BY <1>6, <1>7

\* The parameters of greet; excited is an option<bool>.
GreetOf(name, excited) == [name |-> name, excited |-> excited]

GreetRequests == [name : Octets, excited : BOOLEAN \cup {None}]

LEMMA GreetIs ==
  ASSUME NEW buf
  PROVE  LET a == String(buf, 0)
             b == OptionalBit(buf, a.pos)
         IN decodeGreetRequest(buf) =
              IF a.ok THEN IF b.ok THEN [b EXCEPT !.val = GreetOf(a.val, @)] ELSE Fail ELSE Fail
<1> DEFINE a == String(buf, 0)
           b == OptionalBit(buf, a.pos)
           tag == PrefixBit(buf, a.pos)
           c == IF tag.val THEN PrefixBit(buf, tag.pos) ELSE [tag EXCEPT !.val = None]
<1>1. decodeGreetRequest(buf) =
        IF a.ok THEN IF tag.ok THEN IF c.ok THEN [c EXCEPT !.val = [name |-> a.val, excited |-> @]] ELSE Fail
                                ELSE Fail ELSE Fail
  BY Zenon DEF decodeGreetRequest, Then
<1>2. b = IF tag.ok THEN c ELSE Fail
  BY OptionalBitIs, Zenon
<1>3. [c EXCEPT !.val = [name |-> a.val, excited |-> @]] = [c EXCEPT !.val = GreetOf(a.val, @)]
  BY Zenon DEF GreetOf
<1> HIDE DEF c, tag, b, a
<1>4. decodeGreetRequest(buf) =
        IF a.ok THEN IF tag.ok THEN IF c.ok THEN [c EXCEPT !.val = GreetOf(a.val, @)] ELSE Fail
                                ELSE Fail ELSE Fail
  BY <1>1, <1>3
<1>5. decodeGreetRequest(buf) =
        IF a.ok THEN IF b.ok THEN [b EXCEPT !.val = GreetOf(a.val, @)] ELSE Fail ELSE Fail
  <2>1. CASE tag.ok
    <3>1. b = c
      BY <1>2, <2>1
    <3>2. QED BY <1>4, <2>1, <3>1
  <2>2. CASE ~tag.ok
    <3>1. b = Fail /\ ~b.ok
      BY <1>2, <2>2, OkIs
    <3>2. QED BY <1>4, <2>2, <3>1
  <2>3. QED BY <2>1, <2>2
<1>6. QED BY <1>5 DEF a, b

LEMMA GreetWritten ==
  ASSUME NEW v \in GreetRequests
  PROVE  encodeGreetRequest(v) = EncodeString(v.name) \o EncodeOptionalBit(v.excited)
BY Zenon DEF encodeGreetRequest, EncodeOptionalBit

LEMMA StringWritten ==
  ASSUME NEW s \in Octets
  PROVE  EncodeString(s) \in Octets /\ Len(EncodeString(s)) \in Nat
<1> DEFINE w == EncodeUleb[Len(s)]
<1>1. w \in Octets
  BY OctetsIs, NumbersWritten
<1> HIDE DEF w
<1>2. w \o s \in Octets /\ Len(w \o s) \in Nat
  BY <1>1, Concat, OctetsIs
<1>3. QED BY <1>2 DEF EncodeString, w

LEMMA GreetRead ==
  ASSUME NEW buf \in Octets, decodeGreetRequest(buf).ok
  PROVE  LET r == decodeGreetRequest(buf)
         IN /\ r.val \in GreetRequests /\ Len(r.val.name) < Pow2[Int32] /\ Utf8Valid(r.val.name)
            /\ ReadOf(r, buf, 0, encodeGreetRequest(r.val))
<1> DEFINE a == String(buf, 0)
           b == OptionalBit(buf, a.pos)
           r == decodeGreetRequest(buf)
           x == a.val
           y == b.val
           w == EncodeString(x)
           u == EncodeOptionalBit(y)
<1>0. Len(buf) \in Nat /\ 0 \in Nat /\ 0 <= Len(buf)
  BY OctetsIs
<1>1. r = IF a.ok THEN IF b.ok THEN [b EXCEPT !.val = GreetOf(a.val, @)] ELSE Fail ELSE Fail
  BY GreetIs, Zenon
<1>2. r.ok
  OBVIOUS
<1>3. a.ok /\ b.ok
  <2> HIDE DEF r, a, b
  <2>1. QED BY <1>1, <1>2, OkIs
<1>4. x \in Octets /\ Len(x) < Pow2[Int32] /\ Utf8Valid(x) /\ ReadOf(a, buf, 0, w)
  BY <1>0, <1>3, StringRead
<1> HIDE DEF a
<1>5. a.pos \in Nat /\ a.pos <= Len(buf)
  BY <1>4 DEF ReadOf
<1>6. (y = None \/ y \in BOOLEAN) /\ ReadOf(b, buf, a.pos, u)
  BY <1>0, <1>3, <1>5, OptionalBitRead
<1> HIDE DEF r, b
<1>7. w \o u \in Octets /\ 0 + Len(w \o u) <= b.pos
  BY <1>4, <1>6, InTurn
<1>8. b = Ok(y, b.pos) /\ b.pos \in Nat /\ b.pos <= Len(buf)
  BY <1>6 DEF ReadOf
<1> DEFINE g == GreetOf(x, y)
           p == b.pos
<1> HIDE DEF g
<1>9. r = Ok(g, p)
  <2> HIDE DEF p
  <2>1. r = [b EXCEPT !.val = g]
    BY <1>1, <1>3, Zenon DEF g
  <2>2. b = Ok(y, p)
    BY <1>8 DEF p
  <2> HIDE DEF y
  <2>3. QED BY <2>1, <2>2, Replaced
<1> HIDE DEF x, y
<1>10. r.val = g /\ r.pos = p
  BY <1>9, OkIs
<1>11. g.name = x /\ g.excited = y /\ g \in GreetRequests
  BY <1>4, <1>6 DEF g, GreetOf, GreetRequests
<1>12. encodeGreetRequest(g) = w \o u
  BY <1>11, GreetWritten DEF w, u
<1> HIDE DEF w, u
<1>13. ReadOf(r, buf, 0, encodeGreetRequest(r.val))
  BY <1>7, <1>8, <1>9, <1>10, <1>12 DEF ReadOf
<1>14. QED BY <1>4, <1>10, <1>11, <1>13 DEF r

LEMMA GreetReads ==
  ASSUME NEW v \in GreetRequests, Len(v.name) < Pow2[Int32], NEW buf, Holds(buf, 0, encodeGreetRequest(v))
  PROVE  decodeGreetRequest(buf) = IF Utf8Valid(v.name) THEN Ok(v, 0 + Len(encodeGreetRequest(v))) ELSE Fail
<1> DEFINE x == v.name
           y == v.excited
           w == EncodeString(x)
           u == EncodeOptionalBit(y)
           a == String(buf, 0)
           b == OptionalBit(buf, a.pos)
           r == decodeGreetRequest(buf)
           end == 0 + Len(encodeGreetRequest(v))
<1>0. x \in Octets /\ (y = None \/ y \in BOOLEAN) /\ Len(x) < Pow2[Int32] /\ v = GreetOf(x, y)
  BY DEF GreetRequests, GreetOf
<1>1. w \in Octets /\ u \in Octets /\ encodeGreetRequest(v) = w \o u
  <2>1. encodeGreetRequest(v) = w \o u
    BY GreetWritten
  <2> HIDE DEF x, y
  <2>2. w \in Octets
    BY <1>0, StringWritten
  <2>3. u \in Octets
    BY <1>0, OptionalBitWritten
  <2>4. QED BY <2>1, <2>2, <2>3
<1>2. Holds(buf, 0, encodeGreetRequest(v))
  OBVIOUS
<1> HIDE DEF w, u, x, y
<1>3. Holds(buf, 0, w) /\ Holds(buf, 0 + Len(w), u) /\ end = (0 + Len(w)) + Len(u)
  BY <1>1, <1>2, HeldParts
<1>4. r = IF a.ok THEN IF b.ok THEN [b EXCEPT !.val = GreetOf(a.val, @)] ELSE Fail ELSE Fail
  BY GreetIs, Zenon
<1>5. a = IF Utf8Valid(x) THEN Ok(x, 0 + Len(w)) ELSE Fail
  BY <1>0, <1>3, OctetsIs, StringReadsBack DEF w
<1>6. CASE Utf8Valid(x)
  <2> DEFINE at == 0 + Len(w)
  <2>1. a = Ok(x, at)
    BY <1>5, <1>6
  <2> HIDE DEF a, at
  <2>2. a.ok /\ a.val = x /\ a.pos = at
    BY <2>1, OkIs
  <2>3. Holds(buf, at, u)
    BY <1>3 DEF at
  <2>4. b = Ok(y, at + Len(u))
    BY <1>0, <2>2, <2>3, OptionalBitReads DEF u
  <2>5. at + Len(u) = end
    BY <1>3 DEF at
  <2> HIDE DEF b, end, r
  <2> DEFINE g == GreetOf(x, y)
  <2> HIDE DEF g
  <2>6. b = Ok(y, end)
    BY <2>4, <2>5
  <2>7. b.ok /\ b.val = y
    BY <2>6, OkIs
  <2>8. r = [b EXCEPT !.val = g]
    BY <1>4, <2>2, <2>7, Zenon DEF g
  <2>9. r = Ok(g, end)
    BY <2>6, <2>8, Replaced
  <2>10. r = Ok(v, end)
    BY <1>0, <2>9 DEF g
  <2>11. QED BY <1>6, <2>10 DEF r, end, x
<1>7. CASE ~Utf8Valid(x)
  <2> HIDE DEF a, b, r
  <2>1. ~a.ok
    BY <1>5, <1>7, OkIs
  <2>2. r = Fail
    BY <1>4, <2>1
  <2>3. QED BY <1>7, <2>2 DEF r, x
<1>8. QED BY <1>6, <1>7

LEMMA GreetExtends ==
  ASSUME NEW q, NEW buf, Begins(q, buf), decodeGreetRequest(q).ok
  PROVE  decodeGreetRequest(buf) = decodeGreetRequest(q)
<1> DEFINE a == String(q, 0)
           b == OptionalBit(q, a.pos)
           r == decodeGreetRequest(q)
<1>0. q \in Octets /\ Len(q) \in Nat /\ 0 \in Nat /\ 0 <= Len(q)
  BY OctetsIs DEF Begins
<1>1. r = IF a.ok THEN IF b.ok THEN [b EXCEPT !.val = GreetOf(a.val, @)] ELSE Fail ELSE Fail
  BY GreetIs, Zenon
<1>2. r.ok
  OBVIOUS
<1>3. a.ok /\ b.ok
  <2> HIDE DEF r, a, b
  <2>1. QED BY <1>1, <1>2, OkIs
<1>4. a.pos \in Nat /\ a.pos <= Len(q)
  BY <1>0, <1>3, StringRead DEF ReadOf
<1>5. String(buf, 0) = a
  BY <1>0, <1>3, StringExtends
<1> DEFINE p == a.pos
<1>6. p \in Nat /\ p <= Len(q) /\ OptionalBit(q, p).ok
  BY <1>3, <1>4
<1>7. OptionalBit(buf, p) = OptionalBit(q, p)
  <2> HIDE DEF p
  <2>1. QED BY <1>0, <1>6, OptionalBitExtends
<1> DEFINE c == String(buf, 0)
           d == OptionalBit(buf, c.pos)
<1>8. decodeGreetRequest(buf) = IF c.ok THEN IF d.ok THEN [d EXCEPT !.val = GreetOf(c.val, @)] ELSE Fail ELSE Fail
  BY GreetIs, Zenon
<1>9. c = a /\ d = b
  BY <1>5, <1>7
<1> HIDE DEF a, b, c, d, r
<1>10. decodeGreetRequest(buf) = r
  BY <1>1, <1>8, <1>9
<1>11. QED BY <1>10 DEF r
-----------------------------------------------------------------------------
(* Every function that needs nobody else. *)

Handled == Exports \ Asking

\* The values its handler takes, ...
Takes(fn, v) ==
  /\ fn \in Echo => OfType(fn, v)
  /\ fn = "add" => v \in Nat \X Nat /\ v[1] < Pow2[Int32] /\ v[2] < Pow2[Int32]
  /\ fn = "greet" => v \in GreetRequests /\ Len(v.name) < Pow2[Int32] /\ Utf8Valid(v.name)

\* ... those that a host can write for it, ...
Sendable(fn, v) ==
  /\ fn \in Echo => Writable(fn, v)
  /\ fn = "add" => v \in Nat \X Nat
  /\ fn = "greet" => v \in GreetRequests /\ Len(v.name) < Pow2[Int32]

\* ... and how.
Sent(fn, v) ==
  CASE fn = "add" -> EncodeAdd(v)
    [] fn = "greet" -> encodeGreetRequest(v)
    [] OTHER -> Encode(fn, v)

\* What its parameters are read by, to whatever end.
Read(fn, buf) ==
  CASE fn = "add" -> decodeAdd(buf)
    [] fn = "greet" -> decodeGreetRequest(buf)
    [] OTHER -> Decode(fn, buf, 0)

LEMMA HandledIs ==
  ASSUME NEW fn \in Handled
  PROVE  /\ fn \in Echo \/ fn = "add" \/ fn = "greet"
         /\ fn \in Echo => fn # "add" /\ fn # "greet" /\ fn # "relay" /\ fn # "report"
BY DEF Handled, Exports, Asking, Echo, Signed, Unsigned

LEMMA ReadIsOf ==
  ASSUME NEW fn \in Handled, NEW buf, NEW v
  PROVE  /\ fn \in Echo => Read(fn, buf) = Decode(fn, buf, 0) /\ Sent(fn, v) = Encode(fn, v)
         /\ fn = "add" => Read(fn, buf) = decodeAdd(buf) /\ Sent(fn, v) = EncodeAdd(v)
         /\ fn = "greet" => Read(fn, buf) = decodeGreetRequest(buf) /\ Sent(fn, v) = encodeGreetRequest(v)
BY HandledIs DEF Read, Sent

LEMMA ParamsIs ==
  ASSUME NEW fn \in Handled, NEW buf
  PROVE  Params(fn, buf) = Finished(buf, Read(fn, buf))
<1>1. CASE fn \in Echo
  BY <1>1, HandledIs DEF Params, Read
<1>2. CASE fn = "add"
  BY <1>2, HandledIs DEF Params, Read
<1>3. CASE fn = "greet"
  BY <1>3, HandledIs DEF Params, Read
<1>4. QED BY <1>1, <1>2, <1>3, HandledIs

LEMMA FinishedIs ==
  ASSUME NEW buf \in Octets, NEW r
  PROVE  /\ Finished(buf, r).ok => Finished(buf, r) = r /\ r.ok /\ (r.pos \in Nat => r.pos = Len(buf))
         /\ r.ok /\ r.pos = Len(buf) => Finished(buf, r) = r
         /\ ~r.ok => ~Finished(buf, r).ok
<1>1. Len(buf) \in Nat
  BY OctetsIs
<1>2. ~Fail.ok
  BY OkIs
<1>3. QED BY <1>1, <1>2, SMT DEF Finished, Remaining, Fail

LEMMA ReadRead ==
  ASSUME NEW fn \in Handled, NEW buf \in Octets, Read(fn, buf).ok
  PROVE  Takes(fn, Read(fn, buf).val) /\ ReadOf(Read(fn, buf), buf, 0, Sent(fn, Read(fn, buf).val))
<1> DEFINE r == Read(fn, buf)
<1>0. 0 \in Nat /\ 0 <= Len(buf)
  BY OctetsIs
<1>1. CASE fn \in Echo
  <2>1. r = Decode(fn, buf, 0) /\ \A v : Sent(fn, v) = Encode(fn, v)
    BY <1>1, ReadIsOf
  <2>2. OfType(fn, r.val) /\ ReadOf(r, buf, 0, Encode(fn, r.val))
    BY <1>0, <1>1, <2>1, DecodeRead
  <2> HIDE DEF r
  <2>3. Takes(fn, r.val)
    BY <1>1, <2>2, HandledIs DEF Takes
  <2>4. QED BY <2>1, <2>2, <2>3 DEF r
<1>2. CASE fn = "add"
  <2>1. r = decodeAdd(buf) /\ \A v : Sent(fn, v) = EncodeAdd(v)
    BY <1>2, ReadIsOf
  <2>2. /\ r.val \in Nat \X Nat /\ r.val[1] < Pow2[Int32] /\ r.val[2] < Pow2[Int32]
        /\ ReadOf(r, buf, 0, EncodeAdd(r.val))
    BY <2>1, AddRead
  <2> HIDE DEF r
  <2>3. Takes(fn, r.val)
    BY <1>2, <2>2, HandledIs DEF Takes
  <2>4. QED BY <2>1, <2>2, <2>3 DEF r
<1>3. CASE fn = "greet"
  <2>1. r = decodeGreetRequest(buf) /\ \A v : Sent(fn, v) = encodeGreetRequest(v)
    BY <1>3, ReadIsOf
  <2>2. /\ r.val \in GreetRequests /\ Len(r.val.name) < Pow2[Int32] /\ Utf8Valid(r.val.name)
        /\ ReadOf(r, buf, 0, encodeGreetRequest(r.val))
    BY <2>1, GreetRead
  <2> HIDE DEF r
  <2>3. Takes(fn, r.val)
    BY <1>3, <2>2, HandledIs DEF Takes
  <2>4. QED BY <2>1, <2>2, <2>3 DEF r
<1>4. QED BY <1>1, <1>2, <1>3, HandledIs

LEMMA ReadExtends ==
  ASSUME NEW fn \in Handled, NEW q, NEW buf, Begins(q, buf), Read(fn, q).ok
  PROVE  Read(fn, buf) = Read(fn, q)
<1>0. 0 \in Nat /\ 0 <= Len(q)
  BY OctetsIs DEF Begins
<1>1. CASE fn \in Echo
  <2>1. Read(fn, q) = Decode(fn, q, 0) /\ Read(fn, buf) = Decode(fn, buf, 0)
    BY <1>1, ReadIsOf
  <2>2. QED BY <1>0, <1>1, <2>1, DecodeExtends
<1>2. CASE fn = "add"
  <2>1. Read(fn, q) = decodeAdd(q) /\ Read(fn, buf) = decodeAdd(buf)
    BY <1>2, ReadIsOf
  <2>2. QED BY <2>1, AddExtends
<1>3. CASE fn = "greet"
  <2>1. Read(fn, q) = decodeGreetRequest(q) /\ Read(fn, buf) = decodeGreetRequest(buf)
    BY <1>3, ReadIsOf
  <2>2. QED BY <2>1, GreetExtends
<1>4. QED BY <1>1, <1>2, <1>3, HandledIs

LEMMA SentRead ==
  ASSUME NEW fn \in Handled, NEW v, Sendable(fn, v), NEW buf, Holds(buf, 0, Sent(fn, v))
  PROVE  /\ Takes(fn, v) => Read(fn, buf) = Ok(v, 0 + Len(Sent(fn, v)))
         /\ ~Takes(fn, v) => ~Read(fn, buf).ok
<1> DEFINE r == Read(fn, buf)
           w == Sent(fn, v)
           end == 0 + Len(w)
           Right == Takes(fn, v)
<1>0. SUFFICES (Right => r = Ok(v, end)) /\ (~Right => ~r.ok)
  OBVIOUS
<1>1. CASE fn \in Echo
  <2>1. r = Decode(fn, buf, 0) /\ w = Encode(fn, v) /\ Writable(fn, v)
    BY <1>1, ReadIsOf DEF Sendable
  <2>2. Right <=> OfType(fn, v)
    BY <1>1, HandledIs DEF Takes
  <2> DEFINE e == Encode(fn, v)
             at == 0
  <2>3. Holds(buf, at, Encode(fn, v))
    BY <2>1
  <2> HIDE DEF r, w, end, Right, at
  <2>4. (OfType(fn, v) => Decode(fn, buf, at) = Ok(v, at + Len(Encode(fn, v))))
        /\ (~OfType(fn, v) => ~Decode(fn, buf, at).ok)
    BY <1>1, <2>1, <2>3, DecodeReads
  <2>5. QED BY <2>1, <2>2, <2>4 DEF end, at
<1>2. CASE fn = "add"
  <2>1. r = decodeAdd(buf) /\ w = EncodeAdd(v) /\ v \in Nat \X Nat
    BY <1>2, ReadIsOf DEF Sendable
  <2>2. Right <=> v[1] < Pow2[Int32] /\ v[2] < Pow2[Int32]
    BY <1>2, <2>1, HandledIs DEF Takes
  <2>3. r = IF v[1] < Pow2[Int32] /\ v[2] < Pow2[Int32] THEN Ok(v, end) ELSE Fail
    BY <2>1, AddReads
  <2> HIDE DEF r, w, end, Right
  <2>4. QED BY <2>2, <2>3, OkIs
<1>3. CASE fn = "greet"
  <2>1. r = decodeGreetRequest(buf) /\ w = encodeGreetRequest(v) /\ v \in GreetRequests /\ Len(v.name) < Pow2[Int32]
    BY <1>3, ReadIsOf DEF Sendable
  <2>2. Right <=> Utf8Valid(v.name)
    BY <1>3, <2>1, HandledIs DEF Takes
  <2>3. r = IF Utf8Valid(v.name) THEN Ok(v, end) ELSE Fail
    BY <2>1, GreetReads
  <2> HIDE DEF r, w, end, Right
  <2>4. QED BY <2>2, <2>3, OkIs
<1>4. QED BY <1>1, <1>2, <1>3, HandledIs

\* What a handler takes is all of a buffer, and a value that a host would write in no
\* more bytes (the end of every handler in bindings.cpp).
THEOREM ParamsTyped ==
  ASSUME NEW fn \in Handled, NEW buf \in Octets, Params(fn, buf).ok
  PROVE  LET r == Params(fn, buf)
         IN /\ Takes(fn, r.val) /\ r = Ok(r.val, Len(buf))
            /\ Sent(fn, r.val) \in Octets /\ Len(Sent(fn, r.val)) <= Len(buf)
<1> DEFINE r == Params(fn, buf)
           q == Read(fn, buf)
<1>1. r = Finished(buf, q)
  BY ParamsIs
<1>2. r.ok
  OBVIOUS
<1> HIDE DEF r
<1>3. r = q /\ q.ok /\ (q.pos \in Nat => q.pos = Len(buf))
  <2> HIDE DEF q
  <2>1. QED BY <1>1, <1>2, FinishedIs
<1>4. Takes(fn, q.val) /\ ReadOf(q, buf, 0, Sent(fn, q.val))
  BY <1>3, ReadRead
<1> DEFINE w == Sent(fn, q.val)
<1>5. q = Ok(q.val, q.pos) /\ q.pos \in Nat /\ w \in Octets /\ 0 + Len(w) <= q.pos
  <2> HIDE DEF q
  <2>1. QED BY <1>4 DEF ReadOf
<1> HIDE DEF q, w
<1>6. q.pos = Len(buf) /\ Len(w) \in Nat
  BY <1>3, <1>5, OctetsIs
<1>7. Len(w) <= Len(buf)
  BY <1>5, <1>6
<1>8. QED BY <1>3, <1>4, <1>5, <1>6, <1>7 DEF r, w

\* A value of its type that a host writes is what the handler is given; any other that
\* a host can write is refused, never taken for one of the type.
THEOREM ParamsReadBack ==
  ASSUME NEW fn \in Handled, NEW v, Sendable(fn, v), Sent(fn, v) \in Octets
  PROVE  /\ Takes(fn, v) => Params(fn, Sent(fn, v)) = Ok(v, Len(Sent(fn, v)))
         /\ ~Takes(fn, v) => ~Params(fn, Sent(fn, v)).ok
<1> DEFINE w == Sent(fn, v)
           q == Read(fn, w)
<1>1. Holds(w, 0, Sent(fn, v)) /\ Len(w) \in Nat
  BY HoldsItself, OctetsIs
<1> HIDE DEF w
<1>2. (Takes(fn, v) => q = Ok(v, 0 + Len(Sent(fn, v)))) /\ (~Takes(fn, v) => ~q.ok)
  BY <1>1, SentRead
<1>3. Params(fn, w) = Finished(w, q) /\ w \in Octets
  BY ParamsIs DEF w
<1> HIDE DEF q
<1>4. ASSUME Takes(fn, v)
      PROVE  Params(fn, w) = Ok(v, Len(w))
  <2>1. q = Ok(v, Len(w))
    BY <1>1, <1>2, <1>4 DEF w
  <2>2. q.ok /\ q.pos = Len(w)
    BY <2>1, OkIs
  <2>3. QED BY <1>3, <2>1, <2>2, FinishedIs
<1>5. ASSUME ~Takes(fn, v)
      PROVE  ~Params(fn, w).ok
  BY <1>2, <1>3, <1>5, FinishedIs
<1>6. (Takes(fn, v) => Params(fn, w) = Ok(v, Len(w))) /\ (~Takes(fn, v) => ~Params(fn, w).ok)
  BY <1>4, <1>5
<1>7. QED BY <1>6 DEF w

\* No beginning of what a handler takes would have been taken too.
THEOREM NoPartIsTaken ==
  ASSUME NEW fn \in Handled, NEW buf \in Octets, Params(fn, buf).ok, NEW n \in Nat, n < Len(buf)
  PROVE  ~Params(fn, SubSeq(buf, 1, n)).ok
<1> DEFINE q == SubSeq(buf, 1, n)
<1>1. q \in Octets /\ Len(q) = n /\ Begins(q, buf)
  <2> DEFINE z == 0
             s == SubSeq(buf, z + 1, z + n)
  <2>0. z \in Nat /\ z + n <= Len(buf) /\ z + 1 = 1 /\ z + n = n /\ Len(buf) \in Nat
    BY OctetsIs
  <2> HIDE DEF z
  <2>1. s \in Octets /\ Len(s) = n /\ Holds(buf, z, s)
    BY <2>0, PartIs
  <2>2. s = q
    BY <2>0
  <2> HIDE DEF s, q
  <2>3. \A i \in 1..Len(q) : buf[z + i] = q[i]
    BY <2>1, <2>2 DEF Holds
  <2>4. \A i \in 1..Len(q) : buf[i] = q[i]
    <3>1. \A i \in 1..Len(q) : z + i = i
      BY <2>1, <2>2 DEF z
    <3>2. QED BY <2>3, <3>1
  <2>5. QED BY <2>0, <2>1, <2>2, <2>4 DEF Begins
<1> HIDE DEF q
<1>2. SUFFICES ASSUME Params(fn, q).ok PROVE FALSE
  BY DEF q
<1>3. Params(fn, q) = Ok(Params(fn, q).val, Len(q)) /\ Params(fn, q) = Finished(q, Read(fn, q))
  BY <1>1, <1>2, ParamsTyped, ParamsIs
<1>4. Params(fn, buf) = Ok(Params(fn, buf).val, Len(buf)) /\ Params(fn, buf) = Finished(buf, Read(fn, buf))
  BY ParamsTyped, ParamsIs
<1>5. Params(fn, q) = Read(fn, q) /\ Read(fn, q).ok
  BY <1>1, <1>2, <1>3, FinishedIs
<1>6. Params(fn, buf) = Read(fn, buf)
  BY <1>4, FinishedIs
<1>7. Read(fn, buf) = Read(fn, q)
  BY <1>1, <1>5, ReadExtends
<1>8. Len(q) = Len(buf)
  <2>1. Params(fn, q).pos = Len(q) /\ Params(fn, buf).pos = Len(buf)
    <3>1. \A r, x, p : r = Ok(x, p) => r.pos = p
      BY OkIs
    <3>2. QED BY <1>3, <1>4, <3>1
  <2>2. QED BY <1>5, <1>6, <1>7, <2>1
<1>9. QED BY <1>1, <1>8, OctetsIs
-----------------------------------------------------------------------------
(* What the host reads back (cmval.lua). *)

LEMMA WordIs == /\ Word \in Nat \ {0} /\ Int32 \in Nat \ {0} /\ Int32 < Word
                /\ Groups(Word) \in Nat
                /\ \A bits \in Nat : bits <= Word => Pow2[bits] <= Pow2[Word]
<1>1. Word \in Nat \ {0} /\ Int32 \in Nat \ {0} /\ Int32 < Word
  BY WidthAssumption
<1>2. Groups(Word) \in Nat
  BY <1>1 DEF Groups
<1>3. ASSUME NEW bits \in Nat, bits <= Word
      PROVE  Pow2[bits] <= Pow2[Word]
  <2>1. bits \in 0..Word
    BY <1>1, <1>3
  <2>2. QED BY <1>1, <2>1, Pow2Grows
<1>4. QED BY <1>1, <1>2, <1>3

\* Unsigned numbers, of any width up to the widest.
LEMMA UlebDecoded ==
  ASSUME NEW v \in Nat, v < Pow2[Word], NEW buf, NEW pos, Holds(buf, pos, EncodeUleb[v])
  PROVE  uleb_dec(buf, pos) = Ok(v, pos + Len(EncodeUleb[v]))
<1> DEFINE e == EncodeUleb[v]
<1>1. Word \in Nat \ {0} /\ Groups(Word) \in Nat
  BY WordIs
<1>2. Grouped(e) /\ Value[e] = v /\ Fitting(e, Word) /\ Holds(buf, pos, e)
  BY <1>1, UlebWritten, UlebFits
<1> HIDE DEF e
<1>3. e \in Seq(0..255) /\ Len(e) \in Nat \ {0}
  BY <1>2, BufferType DEF Grouped
<1>4. Len(e) <= Groups(Word)
  <2>1. 7 * (Len(e) - 1) < Word
    BY <1>2 DEF Fitting
  <2>2. QED BY <1>1, <1>3, <2>1 DEF Groups
<1>5. Span(Groups(Word), buf, pos) = Len(e)
  BY <1>1, <1>2, <1>4, SpanIs
<1>6. Payload(Len(e), buf, pos) = v
  BY <1>2, <1>3, PayloadIs
<1>7. uleb_dec(buf, pos) = Ok(v, pos + Len(e))
  BY <1>3, <1>5, <1>6 DEF uleb_dec
<1>8. QED BY <1>7 DEF e

\* Strings, whatever their bytes.
LEMMA StringDecoded ==
  ASSUME NEW s \in Seq(0..255), Len(s) < Pow2[Word], NEW buf, NEW pos, Holds(buf, pos, EncodeString(s))
  PROVE  string_dec(buf, pos) = Ok(s, pos + Len(EncodeString(s)))
<1> DEFINE n == Len(s)
           e == EncodeUleb[n]
           r == uleb_dec(buf, pos)
<1>1. n \in Nat /\ Holds(buf, pos, e) /\ Bytes(n, buf, pos + Len(e)) = Ok(s, pos + Len(EncodeString(s)))
  BY BufferType, StringHeld
<1>2. r = Ok(n, pos + Len(e))
  BY <1>1, UlebDecoded
<1>3. string_dec(buf, pos) = IF r.ok THEN Bytes(r.val, buf, r.pos) ELSE Fail
  BY Zenon DEF string_dec, Then
<1> HIDE DEF n, e, r
<1>4. r.ok /\ r.val = n /\ r.pos = pos + Len(e)
  BY <1>2, OkIs
<1>5. QED BY <1>1, <1>3, <1>4

LEMMA ByteDecoded ==
  ASSUME NEW v \in BOOLEAN, NEW buf, NEW pos, Holds(buf, pos, EncodeBool(v))
  PROVE  bool_dec(buf, pos) = Ok(v, pos + 1)
<1> DEFINE a == IF v THEN 1 ELSE 0
           b == Byte(buf, pos)
           y == a # 0
<1>1. a \in 0..255 /\ EncodeBool(v) = <<a>> /\ y = v
  BY DEF EncodeBool
<1> HIDE DEF a
<1>2. b = Ok(a, pos + 1)
  BY <1>1, ByteHeld
<1> HIDE DEF b
<1>3. b.ok /\ b.val = a
  BY <1>2, OkIs
<1>4. bool_dec(buf, pos) = [b EXCEPT !.val = @ # 0]
  BY <1>3, Zenon DEF bool_dec, Then, b
<1>5. bool_dec(buf, pos) = [b EXCEPT !.val = y]
  BY <1>3, <1>4
<1> HIDE DEF y
<1>6. [b EXCEPT !.val = y] = Ok(y, pos + 1)
  BY <1>2, Replaced
<1>7. QED BY <1>1, <1>5, <1>6

\* The lists of numbers: its reads one after the other.
AnyNumber(buf) == [at \in 0..Len(buf) |-> uleb_dec(buf, at)]

LEMMA AnyNumberIs ==
  ASSUME NEW buf \in Octets
  PROVE  /\ AnyNumber(buf) \in [0..Len(buf) -> Reads(0..Len(buf))]
         /\ \A at \in 0..Len(buf) : AnyNumber(buf)[at] = uleb_dec(buf, at)
<1>0. Len(buf) \in Nat /\ Groups(Word) \in Nat /\ buf \in Seq(0..255)
  BY OctetsIs, WordIs
<1>1. \A at \in 0..Len(buf) : AnyNumber(buf)[at] = uleb_dec(buf, at)
  BY DEF AnyNumber
<1>2. ASSUME NEW at \in 0..Len(buf)
      PROVE  uleb_dec(buf, at) \in Reads(0..Len(buf))
  <2> DEFINE k == Span(Groups(Word), buf, at)
             s == SubSeq(buf, at + 1, at + k)
             n == Payload(k, buf, at)
  <2>1. at \in Nat /\ at <= Len(buf)
    BY <1>0
  <2>2. uleb_dec(buf, at) = IF k = 0 THEN Fail ELSE Ok(n, at + k)
    BY Zenon DEF uleb_dec
  <2>3. CASE k = 0
    BY <2>2, <2>3 DEF Reads
  <2>4. CASE k # 0
    <3>1. k \in Nat \ {0} /\ at + k <= Len(buf) /\ Grouped(s)
      BY <1>0, <2>1, <2>4, SpanGrouped
    <3>2. n = Value[s]
      BY DEF Payload
    <3> HIDE DEF k, s, n
    <3>3. n \in Nat
      BY <3>1, <3>2, GroupsAreCanonical DEF Canonical
    <3> DEFINE p == at + k
    <3>4. p \in 0..Len(buf)
      BY <1>0, <2>1, <3>1
    <3> HIDE DEF p
    <3>5. Ok(n, p) \in Reads(0..Len(buf))
      BY <3>3, <3>4, ReadHeld
    <3>6. uleb_dec(buf, at) = Ok(n, p)
      BY <2>2, <2>4 DEF p
    <3>7. QED BY <3>5, <3>6
  <2>5. QED BY <2>3, <2>4
<1>3. QED BY <1>1, <1>2 DEF AnyNumber

LEMMA AnyByteFits == \A n \in AnyByte : n \in Nat /\ n < Pow2[Word]
<1>1. Pow2[8] = 256 /\ 8 <= Word
  <2>1. 8 <= Word
    BY WordIs, WidthAssumption
  <2>2. QED BY <2>1, Pow2Byte
<1>2. Pow2[8] <= Pow2[Word] /\ Pow2[Word] \in Nat
  BY <1>1, WordIs, Pow2Type
<1>3. QED BY <1>1, <1>2 DEF AnyByte

LEMMA ListDecoded ==
  ASSUME NEW v \in Seq(Nat), Len(v) < Pow2[Int32], \A i \in 1..Len(v) : v[i] \in AnyByte,
         NEW buf, NEW pos, Holds(buf, pos, EncodeList(v))
  PROVE  list_dec(buf, pos) = Ok(v, pos + Len(EncodeList(v)))
<1> DEFINE w == EncodeElements[v]
           u == EncodeUleb[Len(v)]
           next == pos + Len(u)
           read == AnyNumber(buf)
           n == uleb_dec(buf, pos)
<1>0. Len(v) \in Nat /\ Len(v) < Pow2[Word] /\ u \in Octets /\ w \in Octets /\ EncodeList(v) = u \o w
  <2>1. Len(v) \in Nat
    OBVIOUS
  <2>2. Pow2[Int32] <= Pow2[Word] /\ Pow2[Int32] \in Nat /\ Pow2[Word] \in Nat
    BY WordIs, Pow2Type
  <2>3. QED BY <2>1, <2>2, NumbersWritten, ElementsWritten DEF EncodeList
<1>1. /\ buf \in Octets /\ next \in 0..Len(buf) /\ Holds(buf, next, w)
      /\ pos + Len(EncodeList(v)) = next + Len(w)
  BY ListHeld
<1>2. Holds(buf, pos, u)
  <2> HIDE DEF u, w
  <2>1. Holds(buf, pos, u \o w)
    BY <1>0
  <2>2. QED BY <1>0, <2>1, HeldParts
<1>3. n = Ok(Len(v), next)
  BY <1>0, <1>2, UlebDecoded
<1>4. read \in [0..Len(buf) -> Reads(0..Len(buf))]
      /\ \A at \in 0..Len(buf) : read[at] = uleb_dec(buf, at)
  BY <1>1, AnyNumberIs
<1>5. list_dec(buf, pos) = IF n.ok THEN Elements(n.val, n.pos, read) ELSE Fail
  BY Zenon DEF list_dec, Then, AnyNumber
<1> HIDE DEF read, next, w, u, n
<1>6. ASSUME NEW at \in 0..Len(buf), NEW k \in AnyByte, Holds(buf, at, EncodeUleb[k])
      PROVE  read[at] = Ok(k, at + Len(EncodeUleb[k]))
  BY <1>4, <1>6, AnyByteFits, UlebDecoded
<1>7. \A at \in 0..Len(buf) : \A k \in AnyByte : Holds(buf, at, EncodeUleb[k]) =>
            read[at] = Ok(k, at + Len(EncodeUleb[k]))
  BY <1>6
<1>8. AnyByte \subseteq Nat
  BY AnyByteFits
<1>9. \A k \in Nat : \A s \in Seq(Nat) : \A at \in 0..Len(buf) :
         Len(s) = k /\ (\A i \in 1..Len(s) : s[i] \in AnyByte) /\ Holds(buf, at, EncodeElements[s]) =>
           Elements(k, at, read) = Ok(s, at + Len(EncodeElements[s]))
  BY <1>1, <1>4, <1>7, <1>8, ElementsBack
<1>10. Elements(Len(v), next, read) = Ok(v, next + Len(w))
  BY <1>0, <1>1, <1>9 DEF w
<1>11. n.ok /\ n.val = Len(v) /\ n.pos = next
  BY <1>3, OkIs
<1>12. QED BY <1>1, <1>5, <1>10, <1>11

\* Options: only the first byte of an absent one is looked at.
LEMMA OptionDecoded ==
  ASSUME NEW v, v = None \/ v \in AnyByte
  PROVE  dec("option", EncodeOption(v)) = Ok(v, Len(EncodeOption(v)))
<1> DEFINE s == EncodeOption(v)
           r == dec("option", s)
<1>1. r = IF s = <<>> \/ s[1] # 0 THEN uleb_dec(s, 1) ELSE Ok(None, 1)
  BY Zenon DEF dec, Unsigned, Signed
<1>2. CASE v = None
  <2>1. s = <<0>> /\ Len(s) = 1
    BY <1>2, OptionWritten
  <2>2. s # <<>> /\ s[1] = 0
    BY <2>1
  <2>3. QED BY <1>1, <1>2, <2>1, <2>2
<1>3. CASE v # None
  <2>1. v \in Nat /\ v < Pow2[Word] /\ s = <<1>> \o EncodeUleb[v] /\ EncodeUleb[v] \in Octets
    BY <1>3, AnyByteFits, OptionWritten, NumbersWritten
  <2> DEFINE u == EncodeUleb[v]
             one == 1
             q == <<one>> \o u
  <2>2. s = q /\ u \in Octets /\ one \in 0..255 /\ one # 0
    BY <2>1
  <2>3. q \in Octets /\ q[1] = one /\ Len(q) = Len(u) + 1 /\ Len(u) \in Nat
        /\ \A i \in 1..Len(u) : q[i + 1] = u[i]
    <3> HIDE DEF u, one
    <3>1. QED BY <2>2, Prefixed
  <2>4. Holds(q, 1, u)
    <3> HIDE DEF q, u
    <3>1. q \in Seq(0..255) /\ 1 + Len(u) <= Len(q)
      BY <2>3 DEF Octets
    <3>2. \A i \in 1..Len(u) : q[1 + i] = u[i]
      BY <2>3
    <3>3. QED BY <3>1, <3>2 DEF Holds
  <2>5. uleb_dec(q, 1) = Ok(v, 1 + Len(u))
    <3> HIDE DEF q
    <3>1. QED BY <2>1, <2>4, UlebDecoded
  <2>6. q # <<>>
    <3> HIDE DEF q, u
    <3>1. Len(q) # 0
      BY <2>3
    <3>2. QED BY <3>1
  <2> HIDE DEF q, u, r, s
  <2>7. r = Ok(v, 1 + Len(u))
    BY <1>1, <2>2, <2>3, <2>5, <2>6
  <2>8. 1 + Len(u) = Len(s)
    BY <2>2, <2>3
  <2>9. QED BY <2>7, <2>8 DEF r, s
<1>4. QED BY <1>2, <1>3

LEMMA FlagsDecoded ==
  ASSUME NEW v \in SUBSET (0..9)
  PROVE  dec("flags", EncodeFlags(10, v)) = Ok(v, Len(EncodeFlags(10, v)))
<1> DEFINE s == EncodeFlags(10, v)
           r == dec("flags", s)
<1>1. r = IF Len(s) < 2 THEN Fail ELSE Ok(FlagsOf(10, s), 2)
  BY Zenon DEF dec, Unsigned, Signed
<1>2. Len(s) = 2 /\ s[1] = LowFlags(v) /\ s[2] = HighFlags(v)
  BY EncodeFlagsIs
<1> HIDE DEF s
<1>3. FlagsOf(10, s) = v
  BY <1>2, FlagsKept
<1>4. ~(Len(s) < 2)
  BY <1>2
<1> HIDE DEF r
<1>5. r = Ok(v, Len(s))
  BY <1>1, <1>2, <1>3, <1>4
<1>6. QED BY <1>5 DEF r, s
-----------------------------------------------------------------------------
(* Signed numbers, which the host reads as floats. *)

LEMMA MantissaIs == /\ Mantissa \in Nat /\ 21 <= Mantissa /\ Mantissa < Word
                    /\ \A e \in Nat : e <= Mantissa => Pow2[e] <= Pow2[Mantissa]
<1>1. Mantissa \in Nat /\ 21 <= Mantissa /\ Mantissa < Word
  BY MantissaAssumption
<1>2. ASSUME NEW e \in Nat, e <= Mantissa
      PROVE  Pow2[e] <= Pow2[Mantissa]
  <2>1. e \in 0..Mantissa
    BY <1>1, <1>2
  <2>2. QED BY <1>1, <2>1, Pow2Grows
<1>3. QED BY <1>1, <1>2

LEMMA MagnitudeIs ==
  \A n \in Int : Magnitude(n) \in Nat /\ (n \in Nat => Magnitude(n) = n) /\ (n < 0 => Magnitude(n) = -n)
BY DEF Magnitude

\* The scale of a float: there is one at most.
Scaled(n, e) == /\ Magnitude(n) < Pow2[Mantissa + e]
                /\ e = 0 \/ Magnitude(n) >= Pow2[Mantissa + e - 1]

LEMMA ScaleOf ==
  ASSUME NEW n \in Int, NEW e \in 0..Word, Scaled(n, e)
  PROVE  (CHOOSE f \in 0..Word : Scaled(n, f)) = e
<1> DEFINE m == Magnitude(n)
<1>0. Mantissa \in Nat /\ Word \in Nat /\ m \in Nat
  BY MantissaIs, WordIs, MagnitudeIs
<1>1. ASSUME NEW a \in 0..Word, NEW b \in 0..Word, Scaled(n, a), Scaled(n, b), a < b
      PROVE  FALSE
  <2> DEFINE p == Mantissa + a
             q == Mantissa + b - 1
  <2>1. p \in Nat /\ q \in Nat /\ p <= q /\ b # 0 /\ p \in 0..q
    BY <1>0, <1>1
  <2>2. m < Pow2[p] /\ m >= Pow2[q]
    BY <1>1, <2>1 DEF Scaled
  <2> HIDE DEF p, q, m
  <2>3. Pow2[p] <= Pow2[q] /\ Pow2[p] \in Nat /\ Pow2[q] \in Nat
    BY <2>1, Pow2Grows, Pow2Type
  <2>4. QED BY <1>0, <2>2, <2>3
<1> DEFINE f == CHOOSE g \in 0..Word : Scaled(n, g)
<1>2. f \in 0..Word /\ Scaled(n, f)
  <2>1. \E g \in 0..Word : Scaled(n, g)
    OBVIOUS
  <2>2. QED BY <2>1, Zenon
<1> HIDE DEF f
<1>3. f < e \/ e < f \/ f = e
  BY <1>0, <1>2
<1>4. f = e
  BY <1>1, <1>2, <1>3
<1>5. QED BY <1>4 DEF f

\* What a float holds as it is.
LEMMA RoundedExact ==
  ASSUME NEW n \in Int, Magnitude(n) <= Pow2[Mantissa]
  PROVE  Rounded(n) = n
<1> DEFINE scale == CHOOSE e \in 0..Word : Scaled(n, e)
           unit == Pow2[scale]
           half == 2 * (n % unit)
           up == half > unit \/ (half = unit /\ (n \div unit) % 2 = 1)
           m == Magnitude(n)
           top == Pow2[Mantissa]
<1>0. /\ m \in Nat /\ top \in Nat /\ Mantissa \in Nat /\ 21 <= Mantissa /\ 0 \in 0..Word /\ 1 \in 0..Word
      /\ m <= top
  BY MagnitudeIs, MantissaIs, WordIs, Pow2Type
<1>1. Rounded(n) = (n \div unit + (IF up THEN 1 ELSE 0)) * unit
  BY Zenon DEF Rounded, Scaled
<1>2. CASE m < top
  <2>1. Scaled(n, 0)
    <3>1. Mantissa + 0 = Mantissa
      BY <1>0
    <3>2. QED BY <1>2, <3>1 DEF Scaled
  <2>2. scale = 0
    BY <1>0, <2>1, ScaleOf
  <2> HIDE DEF scale
  <2>3. unit = 1
    BY <2>2, Pow2Is
  <2> HIDE DEF unit
  <2>4. half = 0
    <3>1. n % 1 = 0
      OBVIOUS
    <3>2. QED BY <2>3, <3>1
  <2>5. ~up
    BY <2>3, <2>4
  <2> HIDE DEF up
  <2>6. Rounded(n) = (n \div 1 + 0) * 1
    BY <1>1, <2>3, <2>5
  <2>7. n \div 1 = n
    OBVIOUS
  <2>8. QED BY <2>6, <2>7
<1>3. CASE ~(m < top)
  <2>0. m = top
    BY <1>0, <1>3
  <2>1. Pow2[Mantissa + 1] = 2 * top /\ top \in Nat \ {0}
    BY <1>0, Pow2Is, Pow2Type
  <2>2. Scaled(n, 1)
    <3>1. Mantissa + 1 - 1 = Mantissa
      BY <1>0
    <3>2. m < Pow2[Mantissa + 1] /\ m >= Pow2[Mantissa + 1 - 1]
      BY <1>0, <2>0, <2>1, <3>1
    <3>3. QED BY <3>2 DEF Scaled
  <2>3. scale = 1
    BY <1>0, <2>2, ScaleOf
  <2> HIDE DEF scale
  <2>4. unit = 2
    <3>1. Pow2[0 + 1] = 2 * Pow2[0] /\ Pow2[0] = 1 /\ 0 + 1 = 1
      BY Pow2Is
    <3>2. QED BY <2>3, <3>1
  <2> HIDE DEF unit
  <2>5. n % 2 = 0
    <3> DEFINE k == Mantissa - 1
    <3>1. k \in Nat /\ k + 1 = Mantissa
      BY <1>0
    <3>2. top = 2 * Pow2[k] /\ Pow2[k] \in Nat
      BY <3>1, Pow2Is, Pow2Type
    <3>3. n = top \/ n = -top
      BY <2>0, MagnitudeIs DEF Magnitude
    <3> DEFINE p == Pow2[k]
    <3>4. p \in Nat /\ (n = 2 * p \/ n = -(2 * p))
      BY <3>2, <3>3
    <3> HIDE DEF p
    <3>5. QED BY <3>4
  <2>6. ~up
    BY <2>4, <2>5
  <2> HIDE DEF up
  <2>7. Rounded(n) = (n \div 2 + 0) * 2
    BY <1>1, <2>4, <2>6
  <2>8. (n \div 2 + 0) * 2 = n
    BY <2>5
  <2>9. QED BY <2>7, <2>8
<1>4. QED BY <1>2, <1>3

\* One more group at the end stands for as much as its place says.
LEMMA ValueAppended ==
  \A k \in Nat : \A s \in Seq(Nat) : \A x \in Nat :
    Len(s) = k => /\ Value[s] \in Nat
                  /\ Value[s \o <<x>>] = Value[s] + (x % 128) * Pow2[7 * k]
<1> DEFINE A == {k \in Nat : \A s \in Seq(Nat) : \A x \in Nat :
                   Len(s) = k => /\ Value[s] \in Nat
                                 /\ Value[s \o <<x>>] = Value[s] + (x % 128) * Pow2[7 * k]}
<1>0. \A x \in Nat : x % 128 \in Nat
  OBVIOUS
<1>1. 0 \in A
  <2> SUFFICES ASSUME NEW s \in Seq(Nat), NEW x \in Nat, Len(s) = 0
               PROVE  Value[s] \in Nat /\ Value[s \o <<x>>] = Value[s] + (x % 128) * Pow2[7 * 0]
    OBVIOUS
  <2>1. s = <<>> /\ <<>> \in Seq(Nat)
    OBVIOUS
  <2>2. s \o <<x>> = <<x>> /\ <<x>> \in Seq(Nat) /\ <<x>> # <<>> /\ Head(<<x>>) = x /\ Tail(<<x>>) = <<>>
    BY <2>1
  <2>3. Value[<<>>] = 0
    BY <2>1, ValueIs
  <2>4. Value[<<x>>] = (x % 128) + 128 * 0
    BY <2>2, <2>3, ValueIs
  <2>5. Pow2[7 * 0] = 1
    BY Pow2Is
  <2> HIDE DEF A
  <2>6. QED BY <1>0, <2>1, <2>2, <2>3, <2>4, <2>5
<1>2. ASSUME NEW k \in Nat, k \in A
      PROVE  k + 1 \in A
  <2> SUFFICES ASSUME NEW s \in Seq(Nat), NEW x \in Nat, Len(s) = k + 1
               PROVE  Value[s] \in Nat /\ Value[s \o <<x>>] = Value[s] + (x % 128) * Pow2[7 * (k + 1)]
    OBVIOUS
  <2> DEFINE h == Head(s)
             t == Tail(s)
             u == t \o <<x>>
  <2>1. s # <<>>
    OBVIOUS
  <2>2. h \in Nat /\ t \in Seq(Nat) /\ s = <<h>> \o t /\ Len(t) = k
    BY <2>1, TakenApart
  <2>3. Value[t] \in Nat /\ Value[u] = Value[t] + (x % 128) * Pow2[7 * k]
    BY <1>2, <2>2
  <2>4. u \in Seq(Nat)
    BY <2>2
  <2> HIDE DEF A, h, t
  <2>5. s \o <<x>> = <<h>> \o u
    BY <2>2
  <2> HIDE DEF u
  <2>6. Value[s] = (h % 128) + 128 * Value[t]
    <3>1. <<h>> \o t \in Seq(Nat) /\ <<h>> \o t # <<>> /\ Head(<<h>> \o t) = h /\ Tail(<<h>> \o t) = t
      BY <2>2, FirstAndRest
    <3>2. QED BY <2>2, <3>1, ValueIs
  <2>7. Value[s \o <<x>>] = (h % 128) + 128 * Value[u]
    <3>1. <<h>> \o u \in Seq(Nat) /\ <<h>> \o u # <<>> /\ Head(<<h>> \o u) = h /\ Tail(<<h>> \o u) = u
      BY <2>2, <2>4, FirstAndRest
    <3>2. QED BY <2>5, <3>1, ValueIs
  <2>8. Pow2[7 * (k + 1)] = 128 * Pow2[7 * k] /\ Pow2[7 * k] \in Nat
    <3>1. 7 * k \in Nat /\ 7 * (k + 1) = 7 * k + 7
      OBVIOUS
    <3>2. QED BY <3>1, Pow2Group, Pow2Type
  <2> DEFINE p == Pow2[7 * k]
             y == x % 128
             z == h % 128
             v == Value[t]
  <2>9. /\ p \in Nat /\ y \in Nat /\ z \in Nat /\ v \in Nat
        /\ Value[s] = z + 128 * v /\ Value[s \o <<x>>] = z + 128 * (v + y * p)
        /\ Pow2[7 * (k + 1)] = 128 * p
    BY <1>0, <2>2, <2>3, <2>6, <2>7, <2>8
  <2> HIDE DEF p, y, z, v
  <2>10. z + 128 * (v + y * p) = (z + 128 * v) + y * (128 * p)
    BY <2>9
  <2>11. Value[s] \in Nat /\ Value[s \o <<x>>] = Value[s] + y * Pow2[7 * (k + 1)]
    BY <2>9, <2>10
  <2>12. QED BY <2>11 DEF y
<1>3. Nat \subseteq A
  <2> HIDE DEF A
  <2>1. QED BY <1>1, <1>2, Induction
<1>4. QED BY <1>3

\* What the first groups after a position stand for, of those that a number has there.
LEMMA FirstGroups ==
  ASSUME NEW buf, NEW pos, NEW s \in Octets, Holds(buf, pos, s)
  PROVE  /\ Payload(0, buf, pos) = 0
         /\ \A j \in Nat : j < Len(s) =>
              /\ Payload(j, buf, pos) \in Nat /\ Payload(j + 1, buf, pos) \in Nat
              /\ buf[pos + (j + 1)] % 128 \in Nat /\ Pow2[7 * j] \in Nat
              /\ Payload(j + 1, buf, pos) = Payload(j, buf, pos) + (buf[pos + (j + 1)] % 128) * Pow2[7 * j]
<1>0. /\ buf \in Octets /\ pos \in Nat /\ pos + Len(s) <= Len(buf) /\ Len(s) \in Nat /\ Len(buf) \in Nat
      /\ \A i \in 1..Len(buf) : buf[i] \in Nat
  <2>1. buf \in Octets /\ pos \in Nat /\ pos + Len(s) <= Len(buf)
    BY DEF Holds, Octets
  <2>2. QED BY <2>1, OctetsIs
<1>1. ASSUME NEW j \in Nat, j <= Len(s)
      PROVE  LET q == SubSeq(buf, pos + 1, pos + j) IN q \in Seq(Nat) /\ Len(q) = j /\ Holds(buf, pos, q)
  <2> DEFINE q == SubSeq(buf, pos + 1, pos + j)
  <2>1. pos + j <= Len(buf)
    BY <1>0, <1>1
  <2>2. q \in Octets /\ Len(q) = j /\ Holds(buf, pos, q)
    BY <1>0, <2>1, PartIs
  <2> HIDE DEF q
  <2>3. q \in Seq(Nat)
    BY <2>2, BufferType DEF Octets
  <2>4. QED BY <2>2, <2>3 DEF q
<1>2. Payload(0, buf, pos) = 0
  <2> DEFINE q == SubSeq(buf, pos + 1, pos + 0)
  <2>1. q \in Seq(Nat) /\ Len(q) = 0
    BY <1>0, <1>1
  <2> HIDE DEF q
  <2>2. q = <<>>
    BY <2>1
  <2>3. Value[q] = 0
    BY <2>1, <2>2, ValueIs
  <2>4. QED BY <2>3 DEF Payload, q
<1>3. ASSUME NEW j \in Nat, j < Len(s)
      PROVE  /\ Payload(j, buf, pos) \in Nat /\ Payload(j + 1, buf, pos) \in Nat
             /\ buf[pos + (j + 1)] % 128 \in Nat /\ Pow2[7 * j] \in Nat
             /\ Payload(j + 1, buf, pos) = Payload(j, buf, pos) + (buf[pos + (j + 1)] % 128) * Pow2[7 * j]
  <2> DEFINE q == SubSeq(buf, pos + 1, pos + j)
             r == SubSeq(buf, pos + 1, pos + (j + 1))
             x == buf[pos + (j + 1)]
  <2>1. j + 1 \in Nat /\ j <= Len(s) /\ j + 1 <= Len(s) /\ pos + (j + 1) \in 1..Len(buf)
    BY <1>0, <1>3
  <2>2. q \in Seq(Nat) /\ Len(q) = j /\ Holds(buf, pos, q)
    BY <1>1, <2>1
  <2>3. r \in Seq(Nat) /\ Len(r) = j + 1 /\ Holds(buf, pos, r)
    BY <1>1, <2>1
  <2>4. x \in Nat
    BY <1>0, <2>1
  <2>5. Payload(j, buf, pos) = Value[q] /\ Payload(j + 1, buf, pos) = Value[r]
    BY DEF Payload
  <2>6. \A i \in 1..j : q[i] = buf[pos + i]
    <3> HIDE DEF q
    <3>1. QED BY <2>2 DEF Holds
  <2>7. \A i \in 1..j + 1 : r[i] = buf[pos + i]
    <3> HIDE DEF r
    <3>1. QED BY <2>3 DEF Holds
  <2>8. j + 1 \in 1..j + 1 /\ \A i \in 1..j + 1 : i # j + 1 => i \in 1..j
    OBVIOUS
  <2>9. r[j + 1] = x
    BY <2>7, <2>8
  <2> HIDE DEF q, r, x
  <2> DEFINE a == q \o <<x>>
  <2>10. /\ a \in Seq(Nat) /\ Len(a) = j + 1 /\ a[j + 1] = x
         /\ \A i \in 1..j : a[i] = q[i]
    BY <2>2, <2>4
  <2> HIDE DEF a
  <2>11. r = a
    <3>1. \A i \in 1..j + 1 : r[i] = a[i]
      BY <2>6, <2>7, <2>8, <2>9, <2>10
    <3>2. QED BY <2>3, <2>10, <3>1, SeqEqual
  <2>12. Value[q] \in Nat /\ Value[a] = Value[q] + (x % 128) * Pow2[7 * j]
    BY <2>2, <2>4, ValueAppended DEF a
  <2>13. Value[r] \in Nat
    BY <2>1, <2>3, <2>4, ValueAppended
  <2>14. x % 128 \in Nat
    BY <2>4
  <2>15. 7 * j \in Nat
    OBVIOUS
  <2>16. Pow2[7 * j] \in Nat
    BY <2>15, Pow2Type
  <2>17. QED BY <2>5, <2>11, <2>12, <2>13, <2>14, <2>16 DEF x
<1>4. QED BY <1>2, <1>3

\* They are no more than all of them.
LEMMA FirstGroupsLess ==
  ASSUME NEW buf, NEW pos, NEW s \in Octets, Holds(buf, pos, s)
  PROVE  \A d \in Nat : \A j \in Nat : j + d = Len(s) =>
           Payload(j, buf, pos) \in Nat /\ Payload(j, buf, pos) <= Value[s]
<1> DEFINE P(j) == Payload(j, buf, pos)
           A == {d \in Nat : \A j \in Nat : j + d = Len(s) => P(j) \in Nat /\ P(j) <= Value[s]}
<1>0. P(Len(s)) = Value[s] /\ Len(s) \in Nat /\ Value[s] \in Nat
  <2>1. P(Len(s)) = Value[s] /\ s \in Seq(Nat) /\ Len(s) \in Nat
    BY PayloadIs, BufferType DEF Octets
  <2>2. 0 \in Nat
    OBVIOUS
  <2>3. QED BY <2>1, <2>2, ValueAppended
<1>1. 0 \in A
  <2> HIDE DEF P
  <2>1. \A j \in Nat : j + 0 = Len(s) => j = Len(s)
    BY <1>0
  <2>2. QED BY <1>0, <2>1
<1>2. ASSUME NEW d \in Nat, d \in A
      PROVE  d + 1 \in A
  <2> SUFFICES ASSUME NEW j \in Nat, j + (d + 1) = Len(s)
               PROVE  P(j) \in Nat /\ P(j) <= Value[s]
    OBVIOUS
  <2>1. j < Len(s) /\ j + 1 \in Nat /\ (j + 1) + d = Len(s)
    BY <1>0
  <2>2. P(j + 1) \in Nat /\ P(j + 1) <= Value[s]
    BY <1>2, <2>1
  <2> DEFINE y == buf[pos + (j + 1)] % 128
             p == Pow2[7 * j]
  <2>3. P(j) \in Nat /\ y \in Nat /\ p \in Nat /\ P(j + 1) = P(j) + y * p
    BY <2>1, FirstGroups
  <2> HIDE DEF P, y, p, A
  <2>4. y * p \in Nat
    BY <2>3
  <2>5. QED BY <1>0, <2>2, <2>3, <2>4
<1>3. Nat \subseteq A
  <2> HIDE DEF A
  <2>1. QED BY <1>1, <1>2, Induction
<1>4. QED BY <1>3

\* The host sums k groups one after the other, and rounds each sum.
Sums(k, buf, pos) ==
  CHOOSE f : f = [j \in 0..k |->
    IF j = 0 THEN 0 ELSE Rounded(f[j - 1] + (buf[pos + j] % 128) * Pow2[7 * (j - 1)])]

LEMMA SlebDecIs ==
  ASSUME NEW buf, NEW pos
  PROVE  LET k == Span(Groups(Word), buf, pos)
         IN sleb_dec(buf, pos) =
              IF k = 0 THEN Fail
              ELSE Ok(Rounded(Sums(k, buf, pos)[k] - (IF buf[pos + k] >= 64 THEN Pow2[7 * k] ELSE 0)), pos + k)
BY Zenon DEF sleb_dec, Sums

\* It need not round any of them.
Exactly(k, buf, pos) ==
  /\ Payload(0, buf, pos) = 0
  /\ \A j \in Nat : j < k =>
       /\ Payload(j + 1, buf, pos) = Payload(j, buf, pos) + (buf[pos + (j + 1)] % 128) * Pow2[7 * j]
       /\ Rounded(Payload(j + 1, buf, pos)) = Payload(j + 1, buf, pos)

LEMMA SumsAre ==
  ASSUME NEW buf, NEW pos, NEW k \in Nat \ {0}, k = Span(Groups(Word), buf, pos), Exactly(k, buf, pos)
  PROVE  sleb_dec(buf, pos) =
           Ok(Rounded(Payload(k, buf, pos) - (IF buf[pos + k] >= 64 THEN Pow2[7 * k] ELSE 0)), pos + k)
<1> DEFINE P(j) == Payload(j, buf, pos)
           D == 0..k
           Body(f) == [j \in D |->
             IF j = 0 THEN 0 ELSE Rounded(f[j - 1] + (buf[pos + j] % 128) * Pow2[7 * (j - 1)])]
           sum == Sums(k, buf, pos)
           g == [j \in D |-> P(j)]
           minus == IF buf[pos + k] >= 64 THEN Pow2[7 * k] ELSE 0
<1>1. sleb_dec(buf, pos) = IF k = 0 THEN Fail ELSE Ok(Rounded(sum[k] - minus), pos + k)
  BY SlebDecIs
<1>2. ASSUME NEW j \in D, j # 0
      PROVE  /\ j - 1 \in Nat /\ j - 1 < k /\ (j - 1) + 1 = j /\ j - 1 \in D
             /\ Rounded(P(j - 1) + (buf[pos + j] % 128) * Pow2[7 * (j - 1)]) = P(j)
  <2> DEFINE i == j - 1
  <2>1. i \in Nat /\ i < k /\ i + 1 = j /\ i \in D
    BY <1>2
  <2> HIDE DEF i
  <2>2. /\ P(i + 1) = P(i) + (buf[pos + (i + 1)] % 128) * Pow2[7 * i]
        /\ Rounded(P(i + 1)) = P(i + 1)
    BY <2>1 DEF Exactly
  <2> HIDE DEF P
  <2>3. Rounded(P(i) + (buf[pos + j] % 128) * Pow2[7 * i]) = P(j)
    BY <2>1, <2>2
  <2>4. QED BY <2>1, <2>3 DEF i
<1>3. g = Body(g)
  <2>1. P(0) = 0
    BY DEF Exactly
  <2>2. ASSUME NEW j \in D
        PROVE  g[j] = IF j = 0 THEN 0 ELSE Rounded(g[j - 1] + (buf[pos + j] % 128) * Pow2[7 * (j - 1)])
    <3> HIDE DEF P
    <3>1. CASE j = 0
      BY <2>1, <3>1
    <3>2. CASE j # 0
      <4>1. g[j - 1] = P(j - 1) /\ g[j] = P(j)
        BY <1>2, <3>2
      <4>2. QED BY <1>2, <3>2, <4>1
    <3>3. QED BY <3>1, <3>2
  <2>3. g = [j \in D |-> g[j]]
    OBVIOUS
  <2> HIDE DEF g, D
  <2>4. \A j \in D : Body(g)[j] = IF j = 0 THEN 0 ELSE Rounded(g[j - 1] + (buf[pos + j] % 128) * Pow2[7 * (j - 1)])
    BY Zenon
  <2>5. Body(g) = [j \in D |-> Body(g)[j]]
    BY Zenon
  <2> HIDE DEF Body
  <2>6. \A j \in D : g[j] = Body(g)[j]
    BY <2>2, <2>4
  <2>7. QED BY <2>3, <2>5, <2>6
<1>4. sum = Body(sum)
  <2> DEFINE c == CHOOSE f : f = Body(f)
  <2>1. sum = c
    BY Zenon DEF Sums
  <2> HIDE DEF Body, g
  <2>2. c = Body(c)
    BY <1>3
  <2> HIDE DEF c, sum
  <2>3. QED BY <2>1, <2>2
<1>5. ASSUME NEW j \in D
      PROVE  sum[j] = IF j = 0 THEN 0 ELSE Rounded(sum[j - 1] + (buf[pos + j] % 128) * Pow2[7 * (j - 1)])
  <2> HIDE DEF sum
  <2>1. QED BY <1>4, Zenon
<1> HIDE DEF sum, Body, g
<1>6. \A j \in Nat : j \in D => sum[j] = P(j)
  <2> DEFINE A == {j \in Nat : j \in D => sum[j] = P(j)}
  <2>1. 0 \in A
    <3>1. 0 \in D /\ P(0) = 0
      BY DEF Exactly
    <3> HIDE DEF D, P
    <3>2. QED BY <1>5, <3>1
  <2>2. ASSUME NEW j \in Nat, j \in A
        PROVE  j + 1 \in A
    <3> SUFFICES ASSUME j + 1 \in D
                 PROVE  sum[j + 1] = P(j + 1)
      OBVIOUS
    <3>1. j + 1 # 0 /\ (j + 1) - 1 = j /\ j \in D
      OBVIOUS
    <3>2. sum[j] = P(j)
      BY <2>2, <3>1
    <3> DEFINE n == j + 1
    <3>3. n \in D /\ n # 0 /\ n - 1 = j
      BY <3>1
    <3> HIDE DEF n, D, P, A
    <3>4. sum[n] = Rounded(sum[n - 1] + (buf[pos + n] % 128) * Pow2[7 * (n - 1)])
      BY <1>5, <3>3
    <3>5. Rounded(P(n - 1) + (buf[pos + n] % 128) * Pow2[7 * (n - 1)]) = P(n)
      BY <1>2, <3>3
    <3>6. sum[n] = P(n)
      BY <3>2, <3>3, <3>4, <3>5
    <3>7. QED BY <3>6 DEF n
  <2>3. Nat \subseteq A
    <3> HIDE DEF A
    <3>1. QED BY <2>1, <2>2, Induction
  <2>4. QED BY <2>3
<1>7. k \in D /\ k \in Nat /\ k # 0
  OBVIOUS
<1> HIDE DEF D, minus, P
<1>8. sum[k] = P(k)
  BY <1>6, <1>7
<1>9. sleb_dec(buf, pos) = Ok(Rounded(P(k) - minus), pos + k)
  BY <1>1, <1>7, <1>8
<1>10. QED BY <1>9 DEF P, minus

\* A signed number whose groups a float can hold.
LEMMA GroupsDecoded ==
  ASSUME NEW s, Grouped(s), Len(s) <= Groups(Word), NEW buf, NEW pos, Holds(buf, pos, s),
         Value[s] <= Pow2[Mantissa], SignedValue(s) \in Int, Magnitude(SignedValue(s)) <= Pow2[Mantissa]
  PROVE  sleb_dec(buf, pos) = Ok(SignedValue(s), pos + Len(s))
<1> DEFINE k == Len(s)
           minus == IF buf[pos + k] >= 64 THEN Pow2[7 * k] ELSE 0
           top == Pow2[Mantissa]
<1>0. s \in Octets /\ s \in Seq(Nat) /\ k \in Nat \ {0} /\ Groups(Word) \in Nat /\ top \in Nat
  BY BufferType, WordIs, MantissaIs, Pow2Type DEF Grouped, Octets
<1>1. k = Span(Groups(Word), buf, pos)
  BY <1>0, SpanIs
<1>2. Payload(k, buf, pos) = Value[s] /\ buf[pos + k] = s[k]
  <2>1. k \in 1..k
    BY <1>0
  <2>2. buf[pos + k] = s[k]
    BY <2>1 DEF Holds
  <2>3. QED BY <1>0, <2>2, PayloadIs DEF Octets
<1>3. Value[s] \in Nat
  <2>1. 0 \in Nat
    OBVIOUS
  <2>2. QED BY <1>0, <2>1, ValueAppended
<1>4. SignedValue(s) = Payload(k, buf, pos) - minus
  BY <1>2 DEF SignedValue
<1>5. ASSUME NEW j \in Nat, j < k
      PROVE  /\ Payload(j, buf, pos) \in Nat /\ Payload(j + 1, buf, pos) \in Nat
             /\ Payload(j + 1, buf, pos) = Payload(j, buf, pos) + (buf[pos + (j + 1)] % 128) * Pow2[7 * j]
             /\ Rounded(Payload(j + 1, buf, pos)) = Payload(j + 1, buf, pos)
  <2> DEFINE n == Payload(j + 1, buf, pos)
             d == k - (j + 1)
             i == j + 1
  <2>1. d \in Nat /\ i \in Nat /\ i + d = k
    BY <1>0, <1>5
  <2>2. Payload(j, buf, pos) \in Nat /\ n \in Nat
        /\ n = Payload(j, buf, pos) + (buf[pos + (j + 1)] % 128) * Pow2[7 * j]
    BY <1>0, <1>5, FirstGroups
  <2>3. n <= Value[s]
    <3> HIDE DEF d, i
    <3>1. Payload(i, buf, pos) <= Value[s]
      BY <1>0, <2>1, FirstGroupsLess
    <3>2. QED BY <3>1 DEF i
  <2> HIDE DEF n
  <2>4. n \in Int /\ n <= top
    <3> HIDE DEF top
    <3>1. Value[s] <= top
      BY DEF top
    <3>2. QED BY <1>0, <1>3, <2>2, <2>3, <3>1
  <2>5. Magnitude(n) <= Pow2[Mantissa]
    BY <2>2, <2>4, MagnitudeIs
  <2>6. Rounded(n) = n
    BY <2>4, <2>5, RoundedExact
  <2>7. QED BY <2>2, <2>6 DEF n
<1>6. Payload(0, buf, pos) = 0
  BY <1>0, FirstGroups
<1> HIDE DEF k
<1>7. sleb_dec(buf, pos) = Ok(Rounded(Payload(k, buf, pos) - minus), pos + k)
  <2>1. k \in Nat \ {0}
    BY <1>0
  <2>2. Exactly(k, buf, pos)
    BY <1>5, <1>6 DEF Exactly
  <2>3. QED BY <1>1, <2>1, <2>2, SumsAre
<1>8. Rounded(SignedValue(s)) = SignedValue(s)
  BY RoundedExact
<1> HIDE DEF minus
<1>9. sleb_dec(buf, pos) = Ok(SignedValue(s), pos + k)
  BY <1>4, <1>7, <1>8
<1>10. QED BY <1>9 DEF k

\* Where the host reads a signed number as it was sent.
Held(v, bits) ==
  7 * Groups(bits) <= Mantissa \/ (-Pow2[7 * (Mantissa \div 7) - 1] <= v /\ v <= Pow2[Mantissa])

LEMMA SlebDecoded ==
  ASSUME NEW bits \in Nat \ {0}, bits <= Word, NEW v \in Int, InRange(v, bits), Held(v, bits),
         NEW buf, NEW pos, Holds(buf, pos, EncodeSleb[v])
  PROVE  sleb_dec(buf, pos) = Ok(v, pos + Len(EncodeSleb[v]))
<1> DEFINE s == EncodeSleb[v]
           k == Len(s)
           V == Value[s]
           top == Pow2[Mantissa]
           p == Pow2[7 * k]
<1>0. /\ Word \in Nat \ {0} /\ Mantissa \in Nat /\ 21 <= Mantissa /\ top \in Nat
      /\ Grouped(s) /\ SignedValue(s) = v
  BY WordIs, MantissaIs, Pow2Type, SlebWritten
<1>1. \A b \in Nat \ {0} : InRange(v, b) => SignFits(s, b)
  BY SlebFits
<1>2. InRange(v, Word)
  BY <1>0, WiderRange
<1> HIDE DEF s
<1>3. k \in Nat \ {0} /\ s \in Seq(Nat) /\ s[k] \in Nat
  <2>1. s \in Seq(0..255) /\ Len(s) \in Nat \ {0} /\ s \in Seq(Nat)
    BY <1>0, BufferType DEF Grouped
  <2>2. Len(s) \in 1..Len(s)
    BY <2>1
  <2>3. QED BY <2>1, <2>2, BufferType
<1>4. k <= Groups(Word) /\ k <= Groups(bits)
  <2>1. SignFits(s, Word) /\ SignFits(s, bits)
    BY <1>0, <1>1, <1>2
  <2>2. 7 * (k - 1) < Word /\ 7 * (k - 1) < bits
    BY <2>1 DEF SignFits
  <2> HIDE DEF k
  <2>3. QED BY <1>0, <1>3, <2>2 DEF Groups
<1>5. V \in Nat /\ p \in Nat /\ V < p
  <2>1. Canonical(s) /\ 7 * k \in Nat \ {0}
    BY <1>0, <1>3, GroupsAreCanonical
  <2>2. Fitting(s, 7 * k)
    <3>1. 7 * (k - 1) < 7 * k /\ ~(7 * k > 7 * k)
      BY <1>3
    <3>2. QED BY <3>1 DEF Fitting
  <2>3. QED BY <2>1, <2>2, Pow2Type DEF Canonical
<1>6. v = V - (IF s[k] >= 64 THEN p ELSE 0)
  BY <1>0 DEF SignedValue
<1>7. V <= top /\ Magnitude(v) <= top
  <2>1. CASE 7 * k <= Mantissa
    <3>1. p <= top
      <4>1. 7 * k \in Nat
        BY <1>3
      <4>2. QED BY <2>1, <4>1, MantissaIs
    <3> HIDE DEF V, p, top, k
    <3>2. V <= top /\ v <= top /\ -v <= top
      BY <1>0, <1>5, <1>6, <3>1
    <3>3. QED BY <3>2 DEF Magnitude
  <2>2. CASE ~(7 * k <= Mantissa)
    <3>1. ~(7 * Groups(bits) <= Mantissa)
      <4>1. Groups(bits) \in Nat
        BY DEF Groups
      <4> HIDE DEF k
      <4>2. QED BY <1>0, <1>3, <1>4, <2>2, <4>1
    <3>2. -Pow2[7 * (Mantissa \div 7) - 1] <= v /\ v <= top
      BY <3>1 DEF Held
    <3>3. v >= 0
      <4> DEFINE b == 7 * (Mantissa \div 7)
      <4>1. b \in Nat \ {0} /\ b <= Mantissa
        BY <1>0
      <4>2. Pow2[b - 1] \in Nat
        BY <4>1, Pow2Type
      <4> SUFFICES ASSUME v < 0 PROVE FALSE
        OBVIOUS
      <4>3. InRange(v, b)
        <5>1. -Pow2[b - 1] <= v
          BY <3>2
        <5> HIDE DEF b
        <5>2. v < Pow2[b - 1]
          BY <4>2
        <5>3. QED BY <5>1, <5>2 DEF InRange
      <4>4. 7 * (k - 1) < b
        <5>1. SignFits(s, b)
          BY <1>1, <4>1, <4>3
        <5>2. QED BY <5>1 DEF SignFits
      <4> HIDE DEF k
      <4>5. k <= Mantissa \div 7
        BY <1>0, <1>3, <4>4
      <4>6. QED BY <1>0, <1>3, <2>2, <4>5
    <3> HIDE DEF V, p, top, k
    <3>4. V = v
      BY <1>3, <1>5, <1>6, <3>3
    <3>5. QED BY <3>2, <3>3, <3>4 DEF Magnitude
  <2>3. QED BY <2>1, <2>2
<1>8. Holds(buf, pos, s)
  BY DEF s
<1>9. sleb_dec(buf, pos) = Ok(SignedValue(s), pos + Len(s))
  BY <1>0, <1>4, <1>7, <1>8, GroupsDecoded
<1>10. QED BY <1>0, <1>9 DEF s
-----------------------------------------------------------------------------
(* Type by type, as the host reads it. *)

LEMMA DecIs ==
  ASSUME NEW buf
  PROVE  /\ \A t \in Unsigned : dec(t, buf) = uleb_dec(buf, 0)
         /\ \A t \in Signed : dec(t, buf) = sleb_dec(buf, 0)
         /\ dec("char", buf) = uleb_dec(buf, 0) /\ dec("enum", buf) = uleb_dec(buf, 0)
         /\ dec("bool", buf) = bool_dec(buf, 0)
         /\ dec("string", buf) = string_dec(buf, 0)
         /\ dec("list", buf) = list_dec(buf, 0)
<1>1. ASSUME NEW t \in Unsigned
      PROVE  dec(t, buf) = uleb_dec(buf, 0)
  BY <1>1, TypesApart, Zenon DEF dec
<1>2. ASSUME NEW t \in Signed
      PROVE  dec(t, buf) = sleb_dec(buf, 0)
  <2>1. t \notin Unsigned /\ t # "char" /\ t # "enum"
    BY TypesApart
  <2>2. t \notin Unsigned \cup {"char", "enum"}
    BY <2>1
  <2>3. t # "bool" /\ t # "string" /\ t # "option" /\ t # "list" /\ t # "flags"
    BY DEF Signed
  <2>4. QED BY <1>2, <2>1, <2>3 DEF dec
<1>3. dec("char", buf) = uleb_dec(buf, 0) /\ dec("enum", buf) = uleb_dec(buf, 0)
  BY DEF dec, Signed
<1>4. dec("bool", buf) = bool_dec(buf, 0)
  BY Zenon DEF dec, Unsigned, Signed
<1>5. dec("string", buf) = string_dec(buf, 0)
  BY Zenon DEF dec, Unsigned, Signed
<1>6. dec("list", buf) = list_dec(buf, 0)
  BY Zenon DEF dec, Unsigned, Signed
<1>7. QED BY <1>1, <1>2, <1>3, <1>4, <1>5, <1>6

\* Where a host reads a signed number of 64 bits exactly.
Exactly64(v) == -Pow2[7 * (Mantissa \div 7) - 1] <= v /\ v <= Pow2[Mantissa]

LEMMA SignedHeld ==
  ASSUME NEW t \in Signed, NEW v, t = "s64" => Exactly64(v)
  PROVE  Held(v, Bits(t))
<1>1. CASE t = "s64"
  BY <1>1 DEF Held, Exactly64
<1>2. CASE t # "s64"
  <2>1. Bits(t) = 8 \/ Bits(t) = 16 \/ Bits(t) = Int32
    <3>1. t = "s8" \/ t = "s16" \/ t = "s32"
      BY <1>2 DEF Signed
    <3>2. QED BY <3>1, Zenon DEF Bits
  <2>2. 7 * Groups(8) <= 21 /\ 7 * Groups(16) <= 21
    BY DEF Groups
  <2>3. /\ 7 * Groups(Int32) <= Mantissa /\ 21 <= Mantissa /\ Mantissa \in Nat
        /\ Groups(8) \in Nat /\ Groups(16) \in Nat
    BY MantissaAssumption DEF Groups
  <2>4. QED BY <2>1, <2>2, <2>3 DEF Held
<1>3. QED BY <1>1, <1>2

LEMMA NumbersFit ==
  /\ \A t \in Unsigned : Pow2[Bits(t)] <= Pow2[Word]
  /\ \A n \in Nat : IsScalar(n) => n < Pow2[Word]
  /\ \A n \in 0..2 : n < Pow2[Word]
  /\ Pow2[Word] \in Nat /\ Pow2[Int32] \in Nat /\ Pow2[Int32] < Pow2[Word]
<1>1. Pow2[Word] \in Nat /\ Pow2[Int32] \in Nat \ {0} /\ Pow2[21] \in Nat
  BY WordIs, Pow2Type
<1>2. \A t \in Unsigned : Pow2[Bits(t)] <= Pow2[Word]
  BY BitsType, WordIs
<1>3. Pow2[21] <= Pow2[Word]
  <2>1. 21 <= Word
    BY MantissaIs, WordIs
  <2>2. QED BY <2>1, WordIs
<1>4. Pow2[Int32] < Pow2[Word]
  <2>1. Pow2[Int32 + 1] = 2 * Pow2[Int32] /\ Int32 + 1 <= Word /\ Int32 + 1 \in Nat
    BY WordIs, Pow2Is
  <2>2. Pow2[Int32 + 1] <= Pow2[Word]
    BY <2>1, WordIs
  <2>3. QED BY <1>1, <2>1, <2>2
<1>5. ASSUME NEW n \in Nat, IsScalar(n)
      PROVE  n < Pow2[Word]
  <2>1. n < Pow2[21]
    BY <1>5, ScalarBits
  <2>2. QED BY <1>1, <1>3, <2>1
<1>6. ASSUME NEW n \in 0..2
      PROVE  n < Pow2[Word]
  <2>1. n \in Nat /\ n < Pow2[Int32]
    BY SmallFits
  <2>2. QED BY <1>1, <1>4, <2>1
<1>7. QED BY <1>1, <1>2, <1>4, <1>5, <1>6

\* What a host reads in the result of a handler is the value the handler gave, of
\* every type; of a signed number of 64 bits only where a float is exact (cmval.lua's
\* sleb_dec).
THEOREM ResultsReadBack ==
  ASSUME NEW type \in Echo, NEW v, OfType(type, v), type = "s64" => Exactly64(v)
  PROVE  dec(type, Encode(type, v)) = Ok(v, Len(Encode(type, v)))
<1> DEFINE w == Encode(type, v)
           r == dec(type, w)
<1>0. ASSUME NEW q \in Octets
      PROVE  Holds(q, 0, q) /\ 0 + Len(q) = Len(q)
  BY <1>0, HoldsItself, OctetsIs
<1>1. CASE type \in Unsigned
  <2>1. w = EncodeUleb[v] /\ r = uleb_dec(w, 0)
    BY <1>1, Coders, DecIs
  <2>2. v \in Nat /\ v < Pow2[Bits(type)]
    BY <1>1 DEF OfType
  <2>3. v < Pow2[Word]
    BY <1>1, <2>2, NumbersFit, BitsType, Pow2Type
  <2> HIDE DEF r, w
  <2>4. w \in Octets
    BY <2>1, <2>2, NumbersWritten
  <2>5. uleb_dec(w, 0) = Ok(v, 0 + Len(w))
    BY <1>0, <2>1, <2>2, <2>3, <2>4, UlebDecoded
  <2>6. r = Ok(v, Len(w))
    BY <1>0, <2>1, <2>4, <2>5
  <2>7. QED BY <2>6 DEF r, w
<1>2. CASE type \in Signed
  <2>1. w = EncodeSleb[v] /\ r = sleb_dec(w, 0)
    BY <1>2, Coders, DecIs
  <2>2. v \in Int /\ InRange(v, Bits(type)) /\ Bits(type) \in Nat \ {0} /\ Bits(type) <= Word
    BY <1>2, BitsType DEF OfType
  <2>3. Held(v, Bits(type))
    BY <1>2, SignedHeld
  <2> HIDE DEF r, w
  <2>4. w \in Octets
    BY <2>1, <2>2, NumbersWritten
  <2>5. sleb_dec(w, 0) = Ok(v, 0 + Len(w))
    BY <1>0, <2>1, <2>2, <2>3, <2>4, SlebDecoded
  <2>6. r = Ok(v, Len(w))
    BY <1>0, <2>1, <2>4, <2>5
  <2>7. QED BY <2>6 DEF r, w
<1>3. CASE type = "char" \/ type = "enum"
  <2>1. w = EncodeUleb[v] /\ r = uleb_dec(w, 0)
    BY <1>3, Coders, DecIs
  <2>2. v \in Nat /\ v < Pow2[Word]
    BY <1>3, NumbersFit, SmallFits DEF OfType
  <2> HIDE DEF r, w
  <2>4. w \in Octets
    BY <2>1, <2>2, NumbersWritten
  <2>5. uleb_dec(w, 0) = Ok(v, 0 + Len(w))
    BY <1>0, <2>1, <2>2, <2>4, UlebDecoded
  <2>6. r = Ok(v, Len(w))
    BY <1>0, <2>1, <2>4, <2>5
  <2>7. QED BY <2>6 DEF r, w
<1>4. CASE type = "bool"
  <2>1. w = EncodeBool(v) /\ r = bool_dec(w, 0)
    BY <1>4, Coders, DecIs
  <2>2. v \in BOOLEAN
    BY <1>4 DEF OfType
  <2> HIDE DEF r, w
  <2>3. w \in Octets /\ Len(w) = 1
    BY <2>1, BoolWritten
  <2>4. bool_dec(w, 0) = Ok(v, 0 + 1)
    BY <1>0, <2>1, <2>2, <2>3, ByteDecoded
  <2>5. 0 + 1 = 1
    OBVIOUS
  <2>6. r = Ok(v, Len(w))
    BY <2>1, <2>3, <2>4, <2>5
  <2>7. QED BY <2>6 DEF r, w
<1>5. CASE type = "string"
  <2>1. w = EncodeString(v) /\ r = string_dec(w, 0)
    BY <1>5, Coders, DecIs
  <2>2. v \in Octets /\ Len(v) < Pow2[Int32] /\ Len(v) \in Nat
    BY <1>5, OctetsIs DEF OfType
  <2>3. v \in Seq(0..255) /\ Len(v) < Pow2[Word]
    BY <2>2, NumbersFit DEF Octets
  <2> HIDE DEF r, w
  <2>4. w \in Octets
    BY <2>1, <2>2, StringWritten
  <2>5. string_dec(w, 0) = Ok(v, 0 + Len(w))
    BY <1>0, <2>1, <2>3, <2>4, StringDecoded
  <2>6. r = Ok(v, Len(w))
    BY <1>0, <2>1, <2>4, <2>5
  <2>7. QED BY <2>6 DEF r, w
<1>6. CASE type = "option"
  <2>1. w = EncodeOption(v)
    BY <1>6, Coders
  <2>2. v = None \/ (v \in Nat /\ v < 256)
    BY <1>6 DEF OfType
  <2>3. v = None \/ v \in AnyByte
    BY <2>2 DEF AnyByte
  <2>4. dec("option", EncodeOption(v)) = Ok(v, Len(EncodeOption(v)))
    BY <2>3, OptionDecoded
  <2>5. QED BY <1>6, <2>1, <2>4
<1>7. CASE type = "list"
  <2>1. w = EncodeList(v) /\ r = list_dec(w, 0)
    BY <1>7, Coders, DecIs
  <2>2. v \in Seq(Nat) /\ Len(v) < Pow2[Int32] /\ \A i \in 1..Len(v) : v[i] \in AnyByte
    BY <1>7 DEF OfType
  <2> HIDE DEF r, w
  <2>3. w \in Octets
    <3>1. Len(v) \in Nat
      BY <2>2
    <3>2. EncodeUleb[Len(v)] \in Octets /\ EncodeElements[v] \in Octets
      BY <2>2, <3>1, NumbersWritten, ElementsWritten
    <3>3. EncodeUleb[Len(v)] \o EncodeElements[v] \in Octets
      BY <3>2, Concat
    <3>4. QED BY <2>1, <3>3 DEF EncodeList
  <2>4. list_dec(w, 0) = Ok(v, 0 + Len(w))
    BY <1>0, <2>1, <2>2, <2>3, ListDecoded
  <2>5. r = Ok(v, Len(w))
    BY <1>0, <2>1, <2>3, <2>4
  <2>6. QED BY <2>5 DEF r, w
<1>8. CASE type = "flags"
  <2>1. w = EncodeFlags(10, v) /\ v \in SUBSET (0..9)
    BY <1>8, Coders DEF OfType
  <2>2. dec("flags", EncodeFlags(10, v)) = Ok(v, Len(EncodeFlags(10, v)))
    BY <2>1, FlagsDecoded
  <2>3. QED BY <1>8, <2>1, <2>2
<1>9. QED BY <1>1, <1>2, <1>3, <1>4, <1>5, <1>6, <1>7, <1>8, EchoTypes
=============================================================================
