---------------------------- MODULE MCJsonHelper ----------------------------
(***************************************************************************)
(* Types, values and JSON of the instance of JsonHelper that TLC checks.   *)
(***************************************************************************)
EXTENDS JsonHelper

\* All decimals of a number of Bits64 bits, one with letters behind it and a
\* text that is no number.
MCNames == <<<<-1>>, <<-2>>, <<-3>>, <<-4>>, <<0>>, <<1>>, <<1, "x">>, <<2>>, <<3>>, <<4>>,
             <<5>>, <<6>>, <<7>>, <<8>>, <<>>>>

I32 == IntT(Bits32, TRUE)
U32 == IntT(Bits32, FALSE)
I64 == IntT(Bits64, TRUE)
U64 == IntT(Bits64, FALSE)
Text == Plain("string")

\* Enumerations whose underlying type is narrower than int, as wide, and wider.
Enums == {EnumT(bits, signed) : bits \in {Bits32 - 1, Bits32, Bits64}, signed \in BOOLEAN}

Leaves == {I32, U32, I64, U64, Plain("bool"), Plain("double"), Text, Plain("other")}
          \cup Enums

\* (uint32_t of unordered_map only: Unmarshal to a std::map of such keys does
\* not compile.)
Keys == {Text, I32, U32, I64, U64}

MCTypes ==
  Leaves
  \cup {Of("ptr", e) : e \in {I32, Text}}
  \cup {Of("vector", e) : e \in {I32, Text, Of("vector", I32), Of("ptr", I32),
                                 Plain("other")}}
  \cup {Of("set", e) : e \in {I32, Text}}
  \cup {MapT(K, I32) : K \in Keys} \cup {MapT(Text, Of("ptr", I32))}
  \cup {StructT(f) : f \in {<<I64, Text>>, <<Of("ptr", I32), Of("vector", I32)>>,
                            <<StructT(<<I32>>), Plain("bool")>>}}
  \cup {Of("vector", StructT(<<I32, Text>>))}

\* A few values of each type: the ends of the ranges, and containers of no, one
\* and (if they hold no other containers) two elements.
RECURSIVE MCValues(_)
MCValues(T) ==
  CASE T.k = "int" -> {Lo(T), 0, Hi(T)}
    [] T.k = "enum" -> Lo(T)..Hi(T)
    [] T.k = "double" -> {-1, 0, 1}
    [] T.k = "bool" -> BOOLEAN
    [] T.k = "string" -> {"", "nullptr"}
    [] T.k = "other" -> {0}
    [] T.k = "ptr" -> {<<>>} \cup {<<x>> : x \in MCValues(T.e)}
    [] T.k = "vector" -> {<<>>} \cup {<<x>> : x \in MCValues(T.e)}
                         \cup {<<x, y>> : x, y \in IF T.e \in Leaves THEN MCValues(T.e)
                                                   ELSE {}}
    [] T.k = "set" -> SUBSET MCValues(T.e)
    [] T.k = "map" ->
         LET ks == IF T.key.k = "string" THEN {<<1>>, <<>>} ELSE {Lo(T.key), Hi(T.key)}
         IN UNION {[d -> MCValues(T.e)] : d \in SUBSET ks}
    [] T.k = "struct" ->
         IF Len(T.f) = 1 THEN {<<x>> : x \in MCValues(T.f[1])}
         ELSE {<<x, y>> : x \in MCValues(T.f[1]), y \in MCValues(T.f[2])}

Scalars == {Null, Bool(TRUE), Str("nullptr"), Str(""), Num(1), Num(-2), Num(0), Num(2),
            Num(6), Num(14), Num(16)}
Some == {Null, Str("nullptr"), Num(0), Num(6)}

\* Scalars, arrays, and objects whose members have numbers for names or not.
Flat == Scalars
        \cup {Arr(<<>>)} \cup {Arr(<<x>>) : x \in Scalars}
        \cup {Arr(<<x, y>>) : x, y \in Some}
        \cup {Obj(f) : f \in UNION {[d -> Some] : d \in
                 {{}, {<<1>>}, {<<1>>, <<2>>}, {<<1>>, <<1, "x">>}, {<<>>}, {<<-1>>},
                  {<<3>>}, {<<7>>}, {<<8>>}}}}
MCDocuments(T) ==
  IF T \in Leaves THEN {NoJson} \cup Scalars
  ELSE {NoJson} \cup Flat \cup {Arr(<<x>>) : x \in Flat}
       \cup {Obj([n \in {<<1>>} |-> x]) : x \in Flat}
=============================================================================
