------------------------------ MODULE JsonHelper ------------------------------
(***************************************************************************)
(* json_helper (src/json_helper): Marshal turns a C++ value into JSON,     *)
(* Unmarshal reads JSON into a C++ object, both by recursion over the      *)
(* type.  jsoncpp is modelled by the tests and conversions the code uses.  *)
(*                                                                         *)
(* Numbers are counted in halves where they may be fractions, and integers *)
(* have Bits32 or Bits64 bits.  A member name is <<n>> for the decimal     *)
(* text of n, <<n, "x">> for the same followed by letters, and <<>> for a  *)
(* text that is no number.                                                 *)
(***************************************************************************)
EXTENDS Integers, Sequences, SequencesExt

CONSTANTS Bits32, Bits64,
          Names,         \* the member names, in the order of their texts
          Junk,          \* what an uninitialised variable holds
          Types,         \* bound: types that are tried,
          Values(_),     \* values of a type,
          Documents(_)   \* and JSON read into an object of a type

(***************************************************************************)
(* C++ types; K is the key type of a map, int or string.                   *)
(***************************************************************************)
IntT(bits, signed) == [k |-> "int", bits |-> bits, signed |-> signed]
EnumT(bits, signed) == [k |-> "enum", bits |-> bits, signed |-> signed]
Plain(k) == [k |-> k]                     \* "bool", "double", "string", "other"
Of(k, e) == [k |-> k, e |-> e]            \* "ptr", "vector", "set"
MapT(K, e) == [k |-> "map", key |-> K, e |-> e]
StructT(f) == [k |-> "struct", f |-> f]   \* f: a sequence of field types

Lo(T) == IF T.signed THEN -(2^(T.bits - 1)) ELSE 0
Hi(T) == IF T.signed THEN 2^(T.bits - 1) - 1 ELSE 2^T.bits - 1
Int32 == IntT(Bits32, TRUE)

\* static_cast of n to T keeps the low bits.
CastTo(T, n) == ((n - Lo(T)) % 2^T.bits) + Lo(T)

(***************************************************************************)
(* JSON values.  An object is a function on some of the names.             *)
(***************************************************************************)
Null == [j |-> "null"]
Num(h) == [j |-> "num", v |-> h]
Bool(b) == [j |-> "bool", v |-> b]
Str(s) == [j |-> "str", v |-> s]
Arr(s) == [j |-> "arr", v |-> s]
Obj(f) == [j |-> "obj", v |-> f]

NullptrStr == Str("nullptr")   \* kNullptrJsonStr

\* isIntegral: a whole number of int64_t or uint64_t.
IsIntegral(j) == /\ j.j = "num" /\ j.v % 2 = 0
                 /\ j.v \div 2 \in Lo(IntT(Bits64, TRUE))..Hi(IntT(Bits64, FALSE))

\* MUTANT: asInt also for 64 bits.
InRange_Int(T, n) == n \in Lo(Int32)..Hi(Int32)

\* asInt, asInt64, asUInt and asUInt64 throw unless the number fits.
InRange(T, n) == n \in Lo(T)..Hi(T)

MemberNames(j) == SelectSeq(Names, LAMBDA nm : nm \in DOMAIN j.v)
-----------------------------------------------------------------------------
(***************************************************************************)
(* Marshal(obj, root): whether it succeeds, and what becomes of root,      *)
(* which is null before.                                                   *)
(***************************************************************************)
RECURSIVE Marshal(_, _)

Ok(j) == [ret |-> TRUE, root |-> j]

\* Elements are stored by index: nothing is stored for an empty vector, and an
\* element that fails is null.
MarshalVector(T, v) ==
  LET rs == [i \in DOMAIN v |-> Marshal(T.e, v[i])]
  IN [ret  |-> \A i \in DOMAIN v : rs[i].ret,
      root |-> IF v = <<>> THEN Null ELSE Arr([i \in DOMAIN v |-> rs[i].root])]

\* Elements are appended, those that fail are left out.
MarshalSet(T, v) ==
  LET rs == [i \in 1..Len(SetToSeq(v)) |-> Marshal(T.e, SetToSeq(v)[i])]
      good == SelectSeq(rs, LAMBDA r : r.ret)
  IN [ret  |-> good = rs,
      root |-> IF good = <<>> THEN Null ELSE Arr([i \in DOMAIN good |-> good[i].root])]

\* to_string(key)
NameOf(T, key) == IF T.key.k = "string" THEN key ELSE <<key>>

MarshalMap(T, v) ==
  LET rs == [x \in DOMAIN v |-> Marshal(T.e, v[x])]
      member(nm) == CHOOSE x \in DOMAIN v : NameOf(T, x) = nm
  IN [ret  |-> \A x \in DOMAIN v : rs[x].ret,
      root |-> IF DOMAIN v = {} THEN Null
               ELSE Obj([nm \in {NameOf(T, x) : x \in DOMAIN v} |-> rs[member(nm)].root])]

\* Every field becomes a member; the names of the fields are their numbers.
MarshalStruct(T, v) ==
  LET rs == [i \in DOMAIN T.f |-> Marshal(T.f[i], v[i])]
  IN [ret  |-> \A i \in DOMAIN T.f : rs[i].ret,
      root |-> Obj([nm \in {<<i>> : i \in DOMAIN T.f} |-> rs[nm[1]].root])]

Marshal(T, v) ==
  CASE T.k = "int"    -> Ok(Num(2 * v))
    [] T.k = "enum"   -> Ok(Num(2 * CastTo(Int32, v)))
    [] T.k = "double" -> Ok(Num(v))
    [] T.k = "bool"   -> Ok(Bool(v))
    [] T.k = "string" -> Ok(Str(v))
    [] T.k = "ptr"    -> IF v = <<>> THEN Ok(NullptrStr) ELSE Marshal(T.e, v[1])
    [] T.k = "vector" -> MarshalVector(T, v)
    [] T.k = "set"    -> MarshalSet(T, v)
    [] T.k = "map"    -> MarshalMap(T, v)
    [] T.k = "struct" -> MarshalStruct(T, v)
    [] T.k = "other"  -> [ret |-> FALSE, root |-> Null]
-----------------------------------------------------------------------------
(***************************************************************************)
(* Unmarshal(root, obj): "true" or "false", "throw", or "ub" for the use   *)
(* of an uninitialised pointer; and what becomes of obj, old before.       *)
(***************************************************************************)
RECURSIVE Unmarshal(_, _, _)

Res(out, val) == [out |-> out, val |-> val]

\* `T tmp;': scalars and pointers are not initialised.
RECURSIVE Tmp(_)
Tmp(T) == CASE T.k \in {"int", "enum", "double", "bool", "ptr", "other"} -> Junk
            [] T.k = "string" -> ""
            [] T.k \in {"vector", "map"} -> <<>>
            [] T.k = "set" -> {}
            [] T.k = "struct" -> [i \in DOMAIN T.f |-> Tmp(T.f[i])]

\* `(*obj)[key]' of a key that is new: zero.
RECURSIVE Zero(_)
Zero(T) == CASE T.k \in {"int", "enum", "double"} -> 0
             [] T.k = "bool" -> FALSE
             [] T.k = "ptr" -> <<>>
             [] T.k = "struct" -> [i \in DOMAIN T.f |-> Zero(T.f[i])]
             [] OTHER -> Tmp(T)

\* MUTANT: ret is what the last part returned.
Total_Last(outs) == IF outs = <<>> THEN "true" ELSE Last(outs)

\* ret, unless a part has thrown or worse.
Total(outs) == IF \E i \in DOMAIN outs : outs[i] \in {"throw", "ub"} THEN Last(outs)
               ELSE IF \E i \in DOMAIN outs : outs[i] = "false" THEN "false"
               ELSE "true"

Stops(out) == out \in {"throw", "ub"}

\* The results of the parts up to one that throws.
UpToStop(rs) == IF \E i \in DOMAIN rs : Stops(rs[i].out)
                  THEN SubSeq(rs, 1, CHOOSE i \in DOMAIN rs :
                                        /\ Stops(rs[i].out)
                                        /\ \A h \in 1..(i - 1) : ~Stops(rs[h].out))
                  ELSE rs

Outs(rs) == [i \in DOMAIN rs |-> rs[i].out]

\* What was read into tmp is stored, also after a failure.
Stored(rs) == LET done == SelectSeq(rs, LAMBDA r : ~Stops(r.out))
              IN [i \in DOMAIN done |-> done[i].val]

UnmarshalElements(T, j) ==
  UpToStop([i \in DOMAIN j.v |-> Unmarshal(T.e, j.v[i], Tmp(T.e))])

UnmarshalVector(T, j, old) ==
  IF j.j # "arr" THEN Res("false", old)
  ELSE LET rs == UnmarshalElements(T, j) IN Res(Total(Outs(rs)), Stored(rs))

UnmarshalSet(T, j, old) ==
  IF j.j # "arr" THEN Res("false", old)
  ELSE LET rs == UnmarshalElements(T, j) IN Res(Total(Outs(rs)), Range(Stored(rs)))

\* stoi and stoll throw unless the number fits; stoul and stoull take any number
\* of 64 bits, with or without sign, and the key type keeps the low bits.
KeyParses(K, nm) == \/ K.k = "string"
                    \/ /\ nm # <<>>
                       /\ IF K.signed THEN InRange(K, nm[1])
                          ELSE nm[1] \in -(2^Bits64 - 1)..(2^Bits64 - 1)
KeyOf(K, nm) == IF K.k = "string" THEN nm
                ELSE IF K.signed THEN nm[1] ELSE nm[1] % 2^K.bits

\* One member after the other is read into the map; names with the same number
\* meet in one element.
UnmarshalMap(T, j, old) ==
  LET K == T.key
      Member(acc, nm) ==
        IF Stops(acc.out) THEN acc
        ELSE IF ~KeyParses(K, nm) THEN Res("throw", acc.val)
        ELSE LET key  == KeyOf(K, nm)
                 slot == IF key \in DOMAIN acc.val THEN acc.val[key] ELSE Zero(T.e)
                 r    == Unmarshal(T.e, j.v[nm], slot)
             IN Res(Total(<<acc.out, r.out>>),
                    [x \in DOMAIN acc.val \cup {key} |->
                       IF x = key THEN r.val ELSE acc.val[x]])
  IN IF j.j # "obj" THEN Res("false", old)
     ELSE FoldLeft(Member, Res("true", <<>>), MemberNames(j))

\* root[field]: null for a missing member, an exception if root has no members.
UnmarshalStruct(T, j, old) ==
  LET member(i) == IF j.j = "obj" /\ <<i>> \in DOMAIN j.v THEN j.v[<<i>>] ELSE Null
      rs == UpToStop([i \in DOMAIN T.f |-> Unmarshal(T.f[i], member(i), old[i])])
  IN IF j.j \notin {"obj", "null"} THEN Res("throw", old)
     ELSE Res(Total(Outs(rs)),
              [i \in DOMAIN T.f |-> IF i \in DOMAIN rs THEN rs[i].val ELSE old[i]])

\* asInt, asUInt, asInt64, asUInt64.
UnmarshalInt(T, j, old) ==
  IF ~IsIntegral(j) THEN Res("false", old)
  ELSE IF ~InRange(T, j.v \div 2) THEN Res("throw", old)
  ELSE Res("true", j.v \div 2)

\* static_cast<T>(root.asInt()), T of a fixed underlying type other than bool.
UnmarshalEnum(T, j, old) ==
  LET r == UnmarshalInt(Int32, j, old)
  IN IF r.out = "true" THEN Res("true", CastTo(T, r.val)) ELSE r

UnmarshalPointer(T, j, old) ==
  IF j = NullptrStr THEN Res("true", <<>>)
  ELSE IF old = Junk THEN Res("ub", old)
  ELSE IF old = <<>> THEN Res("true", old)
  ELSE LET r == Unmarshal(T.e, j, old[1]) IN Res(r.out, <<r.val>>)

UnmarshalPlain(kind, j, old) ==
  IF j.j # kind THEN Res("false", old) ELSE Res("true", j.v)

Unmarshal(T, j, old) ==
  CASE T.k = "int"    -> UnmarshalInt(T, j, old)
    [] T.k = "enum"   -> UnmarshalEnum(T, j, old)
    [] T.k = "double" -> UnmarshalPlain("num", j, old)
    [] T.k = "bool"   -> UnmarshalPlain("bool", j, old)
    [] T.k = "string" -> UnmarshalPlain("str", j, old)
    [] T.k = "ptr"    -> UnmarshalPointer(T, j, old)
    [] T.k = "vector" -> UnmarshalVector(T, j, old)
    [] T.k = "set"    -> UnmarshalSet(T, j, old)
    [] T.k = "map"    -> UnmarshalMap(T, j, old)
    [] T.k = "struct" -> UnmarshalStruct(T, j, old)
    [] T.k = "other"  -> Res("false", old)

\* Unmarshal(str, obj): a text that does not parse leaves the object alone.
NoJson == [j |-> "unparsable"]
UnmarshalText(T, j, old) == IF j = NoJson THEN Res("false", old) ELSE Unmarshal(T, j, old)
-----------------------------------------------------------------------------
(***************************************************************************)
(* A value is marshalled and the outcome unmarshalled, or some other JSON  *)
(* is, into an object that holds any value of the type.                    *)
(***************************************************************************)
VARIABLES pc,    \* "marshal", "unmarshal", "done"
          typ, val, old,
          made,  \* root is what val was marshalled to
          root,
          ret,   \* what Marshal returned
          res    \* what Unmarshal returned and left in the object

vars == <<pc, typ, val, old, made, root, ret, res>>

Init == /\ typ \in Types
        /\ val \in Values(typ) /\ old \in Values(typ)
        /\ ret = FALSE /\ res = Res("false", old)
        /\ \/ made = TRUE /\ root = Null /\ pc = "marshal"
           \/ made = FALSE /\ val = old /\ root \in Documents(typ) /\ pc = "unmarshal"

DoMarshal == /\ pc = "marshal"
             /\ LET m == Marshal(typ, val) IN ret' = m.ret /\ root' = m.root
             /\ pc' = "unmarshal"
             /\ UNCHANGED <<typ, val, old, made, res>>

DoUnmarshal == /\ pc = "unmarshal"
               /\ res' = UnmarshalText(typ, root, old)
               /\ pc' = "done"
               /\ UNCHANGED <<typ, val, old, made, root, ret>>

Next == DoMarshal \/ DoUnmarshal

Spec == Init /\ [][Next]_vars
-----------------------------------------------------------------------------
\* Nothing of v is lost on the way to JSON and back into an object o.  Lost are:
\* empty containers, which become null; enumerators of more than 32 bits that are
\* neither in the range of int nor, if unsigned, the same distance below 2^64;
\* what is behind a pointer, if the object has no place for it, as in the
\* elements of every container, or if it is the text for nullptr; types without
\* Marshal.
RECURSIVE Kept(_, _, _)
Kept(T, v, o) ==
  CASE T.k \in {"int", "double", "bool", "string"} -> TRUE
    [] T.k = "enum" -> \/ T.bits <= Bits32 \/ InRange(Int32, v)
                       \/ ~T.signed /\ v - 2^T.bits >= Lo(Int32)
    [] T.k = "ptr" -> \/ v = <<>>
                      \/ /\ o \notin {<<>>, Junk} /\ Kept(T.e, v[1], o[1])
                         /\ Marshal(T.e, v[1]).root # NullptrStr
    [] T.k = "vector" -> v # <<>> /\ \A i \in DOMAIN v : Kept(T.e, v[i], Tmp(T.e))
    [] T.k = "set" -> v # {} /\ \A x \in v : Kept(T.e, x, Tmp(T.e))
    [] T.k = "map" -> DOMAIN v # {} /\ \A x \in DOMAIN v : Kept(T.e, v[x], Zero(T.e))
    [] T.k = "struct" -> \A i \in DOMAIN T.f : Kept(T.f[i], v[i], o[i])
    [] T.k = "other" -> FALSE

\* A value comes back from JSON as it was, and Unmarshal says so, exactly when
\* it has none of the parts that Kept lists; whatever the object held before.
RoundTrip ==
  pc = "done" /\ made =>
     (ret /\ res.out = "true" /\ res.val = val <=> Kept(typ, val, old))

\* The value has an uninitialised part.
RECURSIVE HasJunk(_, _)
HasJunk(T, v) ==
  CASE T.k = "ptr" -> v = Junk \/ (v # <<>> /\ HasJunk(T.e, v[1]))
    [] T.k = "vector" -> \E i \in DOMAIN v : HasJunk(T.e, v[i])
    [] T.k = "map" -> \E x \in DOMAIN v : HasJunk(T.e, v[x])
    [] T.k = "set" -> \E x \in v : HasJunk(T.e, x)
    [] T.k = "struct" -> \E i \in DOMAIN T.f : HasJunk(T.f[i], v[i])
    [] OTHER -> v = Junk

RECURSIVE HasPtr(_)
HasPtr(T) == CASE T.k = "ptr" -> TRUE
               [] T.k \in {"vector", "map", "set"} -> HasPtr(T.e)
               [] T.k = "struct" -> \E i \in DOMAIN T.f : HasPtr(T.f[i])
               [] OTHER -> FALSE

\* When Unmarshal returns true, every part of the object was read from the JSON:
\* nothing is uninitialised and, without pointers, nothing is left of what the
\* object held before, whatever the JSON is.
TrueMeansRead ==
  pc = "done" /\ res.out = "true" =>
     /\ ~HasJunk(typ, res.val)
     /\ HasPtr(typ) \/ \A o \in Values(typ) : UnmarshalText(typ, root, o) = res
=============================================================================
