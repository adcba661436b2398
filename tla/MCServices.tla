----------------------------- MODULE MCServices -----------------------------
(* What callers send: values around every limit of a type, as a host writes *)
(* them, and short buffers of the bytes where a decoder changes its mind.   *)
EXTENDS Services, TLC

Symmetry == Permutations(Addrs)

Around(n) == {n - 1, n, n + 1}
Limits == UNION {Around(2^k) : k \in {6, 7, 8, 13, 14, 15, 16, 20, 21, 22}}
Numbers == {0, 1} \cup Limits

\* Around the scalars where UTF-8 gets longer, the surrogates and the last scalar.
Scalars == {0, 65} \cup UNION {Around(n) : n \in {128, 2048, 55296, 57344, 65536, 1114112}}

Leads == {65, 128, 191, 192, 193, 194, 223, 224, 225, 237, 239, 240, 241, 244, 245, 248, 255}
Seconds == {65, 127, 128, 143, 144, 159, 160, 191, 192}
Texts == {<<>>, <<65, 66>>} \cup {<<a>> : a \in Leads}
         \cup {<<a, b>> : a \in Leads, b \in Seconds}
         \cup {<<a, b, 128>> : a \in {194, 224, 225, 237, 239, 240, 244}, b \in Seconds}
         \cup {<<a, b, 128, 191>> : a \in {65, 194, 224, 237, 240, 241, 244, 245}, b \in Seconds}

MCValues == [fn \in Exports |->
  CASE fn \in Unsigned -> Numbers
    [] fn \in Signed -> Numbers \cup {-n : n \in Numbers}
    [] fn = "bool" -> BOOLEAN
    [] fn = "char" -> Scalars
    [] fn = "string" -> Texts
    [] fn = "enum" -> 0..2
    [] fn = "option" -> {None} \cup Numbers
    [] fn = "list" -> {<<>>, <<0>>, <<255>>, <<256>>, <<127, 128>>, <<1, 2, 3>>}
    [] fn = "flags" -> {{}, {0}, {7, 8}, {9}, 0..9}
    [] fn = "add" -> {0, 127, 2^Int32 - 1, 2^Int32} \X {0, 1, 128, 2^Int32 - 1, 2^Int32}
    [] fn = "greet" -> [name : {<<>>, <<65>>, <<194, 128>>, <<255>>}, excited : {None, TRUE, FALSE}]
    [] fn = "relay" -> {S!Sql.query, S!Sql.update, S!Sql.blank, S!Sql.several, <<63>>, <<255>>}
    [] fn = "report" -> {<<>>}]

Bytes1 == {0, 1, 2, 3, 4, 63, 64, 127, 128, 129, 191, 255}
Buffers == {<<>>} \cup {<<a>> : a \in Bytes1} \cup (Bytes1 \X Bytes1)

MCRaw == [fn \in Functions |->
  CASE fn \in Echo \cup {"add"} -> Buffers
    [] fn = "greet" -> {<<>>, <<0>>, <<0, 2>>, <<0, 1, 2>>, <<1>>, <<1, 65, 1>>}
    [] fn = "relay" -> {<<>>, <<2, 81>>, <<1, 81, 0>>, <<129, 0, 81>>, <<255>>}
    [] fn = "report" -> {<<0>>}
    [] fn = "unheard" -> {<<>>, <<0>>}]
=============================================================================
