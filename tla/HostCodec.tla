----------------------------- MODULE HostCodec ------------------------------
(***************************************************************************)
(* The codec of the Lua hosts (cmval.lua), as it differs from the guests':  *)
(* a number is a float with Mantissa bits (53), so that an integer beyond   *)
(* is rounded, except that an unsigned one becomes a decimal string; and    *)
(* decoding is laxer.  Encoding is the guests', without a check of width.   *)
(***************************************************************************)
EXTENDS Codec

CONSTANT Mantissa

\* As there: the groups of every number but a 64-bit one fit into it.
ASSUME MantissaAssumption == Mantissa \in Nat /\ Mantissa < Word
                             /\ 7 * Groups(Int32) <= Mantissa /\ 21 <= Mantissa

Magnitude(n) == IF n < 0 THEN -n ELSE n

\* n as a float: to Mantissa significant bits, ties to even.
Rounded(n) ==
  LET scale == CHOOSE e \in 0..Word : /\ Magnitude(n) < Pow2[Mantissa + e]
                                      /\ e = 0 \/ Magnitude(n) >= Pow2[Mantissa + e - 1]
      unit == Pow2[scale]
      half == 2 * (n % unit)
      up == half > unit \/ (half = unit /\ (n \div unit) % 2 = 1)
  IN (n \div unit + (IF up THEN 1 ELSE 0)) * unit

\* An exact decimal string where the float is not exact.
uleb_dec(buf, pos) ==
  LET k == Span(Groups(Word), buf, pos)
  IN IF k = 0 THEN Fail ELSE Ok(Payload(k, buf, pos), pos + k)

\* Groups are summed as floats, then the sign is subtracted.
sleb_dec(buf, pos) ==
  LET k == Span(Groups(Word), buf, pos)
      Sum[j \in 0..k] ==
        IF j = 0 THEN 0 ELSE Rounded(Sum[j - 1] + (buf[pos + j] % 128) * Pow2[7 * (j - 1)])
  IN IF k = 0 THEN Fail
     ELSE Ok(Rounded(Sum[k] - (IF buf[pos + k] >= 64 THEN Pow2[7 * k] ELSE 0)), pos + k)

bool_dec(buf, pos) == Then(Byte(buf, pos), LAMBDA b : [b EXCEPT !.val = @ # 0])

string_dec(buf, pos) == Then(uleb_dec(buf, pos), LAMBDA n : Bytes(n.val, buf, n.pos))

list_dec(buf, pos) ==
  Then(uleb_dec(buf, pos), LAMBDA n :
    Elements(n.val, n.pos, [at \in 0..Len(buf) |-> uleb_dec(buf, at)]))

\* What the host makes of a result of each type, from its first byte on.
dec(type, buf) ==
  CASE type \in Unsigned \cup {"char", "enum"} -> uleb_dec(buf, 0)
    [] type \in Signed -> sleb_dec(buf, 0)
    [] type = "bool" -> bool_dec(buf, 0)
    [] type = "string" -> string_dec(buf, 0)
    [] type = "option" ->
         IF buf = <<>> \/ buf[1] # 0 THEN uleb_dec(buf, 1) ELSE Ok(None, 1)
    [] type = "flags" ->
         IF Len(buf) < 2 THEN Fail
         ELSE Ok(FlagsOf(10, buf), 2)
    [] type = "list" -> list_dec(buf, 0)
=============================================================================
