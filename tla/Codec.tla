------------------------------- MODULE Codec --------------------------------
(***************************************************************************)
(* The wire codec of a C++ guest (crab.cpp): values of one WIT type each to *)
(* and from bytes.  A byte is a number in 0..255 and a buffer a sequence of *)
(* bytes; a read gives a value and the position after it, or no success.   *)
(* Widths above 16 bits are scaled: Int32 stands for 32 and Word for 64.   *)
(***************************************************************************)
EXTENDS Integers, Sequences, FiniteSetsExt

CONSTANTS Int32, Word,
          None           \* an option that is absent

\* As in the code: the last group of the widest integer has one bit (64 = 9*7+1),
\* the last group of a 32-bit integer has several (32 = 4*7+4); scaled down, not up.
ASSUME WidthAssumption ==
  /\ Int32 \in Nat \ {0} /\ Word \in Nat \ {0} /\ Int32 < Word
  /\ Int32 <= 32 /\ Word <= 64
  /\ Word % 7 = 1 /\ Int32 % 7 > 1

\* An option that is there is not taken for one that is absent.
ASSUME NoneAssumption == None \notin Nat \cup BOOLEAN

Signed == {"s8", "s16", "s32", "s64"}
Unsigned == {"u8", "u16", "u32", "u64"}

Bits(t) == CASE t \in {"u8", "s8"} -> 8 [] t \in {"u16", "s16"} -> 16
             [] t \in {"u32", "s32"} -> Int32 [] t \in {"u64", "s64"} -> Word

Groups(bits) == (bits + 6) \div 7

\* 2^n, as a function of its own: the provers know nothing of exponents.
Pow2[n \in Nat] == IF n = 0 THEN 1 ELSE 2 * Pow2[n - 1]
-----------------------------------------------------------------------------
(* Encoding. *)

EncodeUleb[v \in Nat] ==
  IF v < 128 THEN <<v>> ELSE <<(v % 128) + 128>> \o EncodeUleb[v \div 128]

\* The shift is arithmetic: \div rounds down.
EncodeSleb[v \in Int] ==
  LET low == v % 128
      rest == v \div 128
  IN IF (rest = 0 /\ low < 64) \/ (rest = -1 /\ low >= 64)
     THEN <<low>> ELSE <<low + 128>> \o EncodeSleb[rest]

EncodeBool(b) == <<IF b THEN 1 ELSE 0>>
EncodeString(s) == EncodeUleb[Len(s)] \o s

\* The elements of a list of unsigned numbers, after its length.
EncodeElements[v \in Seq(Nat)] ==
  IF v = <<>> THEN <<>> ELSE EncodeUleb[Head(v)] \o EncodeElements[Tail(v)]

\* A set of flags 0..n-1: bit i % 8 of byte i \div 8.
EncodeFlags(n, flags) ==
  LET Bit(i) == IF i \in flags THEN 1 ELSE 0
      Octet(i) == Bit(i) + 2 * Bit(i + 1) + 4 * Bit(i + 2) + 8 * Bit(i + 3) + 16 * Bit(i + 4)
                  + 32 * Bit(i + 5) + 64 * Bit(i + 6) + 128 * Bit(i + 7)
  IN [b \in 1..((n + 7) \div 8) |-> Octet(8 * (b - 1))]
-----------------------------------------------------------------------------
(* Decoding: Res<T> and the cursor. *)

Ok(val, pos) == [ok |-> TRUE, val |-> val, pos |-> pos]
Fail == [ok |-> FALSE, val |-> <<>>, pos |-> 0]

\* Whoever reads on returns at once when a read fails.
Then(r, F(_)) == IF r.ok THEN F(r) ELSE Fail

Remaining(buf, pos) == Len(buf) - pos
Byte(buf, pos) ==
  IF Remaining(buf, pos) < 1 THEN Fail ELSE Ok(buf[pos + 1], pos + 1)
Bytes(n, buf, pos) ==
  IF Remaining(buf, pos) < n THEN Fail ELSE Ok(SubSeq(buf, pos + 1, pos + n), pos + n)

\* The number of 7-bit groups, least significant first.
Value[s \in Seq(Nat)] == IF s = <<>> THEN 0 ELSE (Head(s) % 128) + 128 * Value[Tail(s)]

\* Of the k groups after pos.
Payload(k, buf, pos) == Value[SubSeq(buf, pos + 1, pos + k)]

\* How many groups the number after pos has, 0 if it has no end among so many.
Span(groups, buf, pos) ==
  LET ends == {k \in 1..groups : k <= Remaining(buf, pos) /\ buf[pos + k] < 128}
  IN IF ends = {} THEN 0 ELSE Min(ends)

\* Mutant: the last group may have bits above the width.
UlebWide(k, bits, buf, pos) ==
  IF k = 0 THEN Fail ELSE Ok(Payload(k, buf, pos) % Pow2[bits], pos + k)

\* No more groups than the width has, and no bit above it in the last one.
UlebOf(k, bits, buf, pos) ==
  IF k = 0 \/ (7 * k > bits /\ buf[pos + k] >= Pow2[bits - 7 * (k - 1)])
  THEN Fail ELSE Ok(Payload(k, buf, pos), pos + k)

Uleb(bits, buf, pos) == UlebOf(Span(Groups(bits), buf, pos), bits, buf, pos)

\* A 64-bit number that reaches its last group has its sign bit there and must
\* repeat it in the rest of the byte; any other is sign-extended, and checked
\* against its width.
SlebOf(k, bits, buf, pos) ==
  LET last == buf[pos + k]
      val == Payload(k, buf, pos) - (IF last >= 64 THEN Pow2[7 * k] ELSE 0)
  IN IF \/ k = 0
        \/ 7 * (k - 1) = Word - 1 /\ last \notin {0, 127}
        \/ bits < Word /\ val \notin -Pow2[bits - 1] .. Pow2[bits - 1] - 1
     THEN Fail ELSE Ok(val, pos + k)

Sleb(bits, buf, pos) == SlebOf(Span(Groups(bits), buf, pos), bits, buf, pos)

PrefixBit(buf, pos) ==
  Then(Byte(buf, pos), LAMBDA b : IF b.val \in {0, 1} THEN [b EXCEPT !.val = @ = 1] ELSE Fail)

\* No number above the last scalar, and no surrogate.
IsScalar(n) == n <= 1114111 /\ n \notin 55296..57343

Char(buf, pos) ==
  Then(Uleb(21, buf, pos),
       LAMBDA v : IF IsScalar(v.val) THEN v ELSE Fail)

\* A case of a variant or an enum.
Case(cases, buf, pos) ==
  Then(Uleb(Int32, buf, pos), LAMBDA v : IF v.val >= cases THEN Fail ELSE v)

\* n elements after pos, where read[at] is what is read at a position.
Elements(n, pos, read) ==
  LET From[k \in Nat] ==
        [at \in DOMAIN read |->
           IF k = 0 THEN Ok(<<>>, at)
           ELSE Then(read[at], LAMBDA e :
                Then(From[k - 1][e.pos], LAMBDA rest : [rest EXCEPT !.val = <<e.val>> \o @]))]
  IN From[n][pos]

\* The flags of n that are set in bytes.
FlagsOf(n, bytes) == {i \in 0..n-1 : (bytes[i \div 8 + 1] \div Pow2[i % 8]) % 2 = 1}

\* Bits above them must be zero.
Flags(n, buf, pos) ==
  LET size == (n + 7) \div 8
  IN Then(Bytes(size, buf, pos),
          LAMBDA b : IF n % 8 # 0 /\ b.val[size] >= Pow2[n % 8] THEN Fail
                     ELSE [b EXCEPT !.val = FlagsOf(n, @)])
-----------------------------------------------------------------------------
(* Strings. *)

\* How many bytes a lead byte announces, 0 for a byte that cannot lead.
Width(c) ==
  CASE c < 128 -> 1 [] c \in 192..223 -> 2 [] c \in 224..239 -> 3
    [] c \in 240..247 -> 4 [] OTHER -> 0

Least(width) == CASE width = 1 -> 0 [] width = 2 -> 128 [] width = 3 -> 2048 [] width = 4 -> 65536

\* The scalar that the bytes of c stand for: the low bits of each, of the first the
\* fewer the longer c is.
Scalar(c) ==
  CASE Len(c) = 1 -> c[1]
    [] Len(c) = 2 -> (c[1] % 32) * 64 + (c[2] % 64)
    [] Len(c) = 3 -> ((c[1] % 16) * 64 + (c[2] % 64)) * 64 + (c[3] % 64)
    [] Len(c) = 4 -> (((c[1] % 8) * 64 + (c[2] % 64)) * 64 + (c[3] % 64)) * 64 + (c[4] % 64)

\* Whether c, as long as its lead byte says, is the shortest encoding of a scalar.
ScalarValid(c) ==
  /\ \A j \in 2..Len(c) : c[j] \in 128..191
  /\ Scalar(c) >= Least(Len(c)) /\ IsScalar(Scalar(c))

Utf8Valid(s) ==
  LET From[i \in 0..Len(s)] ==
        \/ i = Len(s)
        \/ LET w == Width(s[i + 1])
           IN /\ w # 0 /\ i + w <= Len(s)
              /\ ScalarValid(SubSeq(s, i + 1, i + w))
              /\ From[i + w]
  IN From[0]

String(buf, pos) ==
  Then(Uleb(Int32, buf, pos), LAMBDA n :
  Then(Bytes(n.val, buf, n.pos), LAMBDA b :
       IF Utf8Valid(b.val) THEN b ELSE Fail))
=============================================================================
