------------------------------ MODULE JsonValue ------------------------------
(* Json::Value, api/jsoncpp/json_value.cpp: typed numbers, C strings, and  *)
(* arrays and objects as maps, an array from the indices that exist.       *)
(* Every operator is one of its functions; the calls a function refuses    *)
(* with an assertion are told by the operators named Legal.                *)
(*                                                                         *)
(* Texts are sequences of bytes.  A double is a number in units of 1/Scale *)
(* (fine enough for its bits and for three decimals) with MantissaBits     *)
(* bits; from the bound MaxReal on it is infinite.  Comments and offsets   *)
(* are left out.                                                           *)
EXTENDS Integers, Sequences, SequencesExt, FiniteSets, FiniteSetsExt

CONSTANTS MaxInt,       \* Value::maxInt
          MaxInt64,     \* Value::maxInt64
          MantissaBits  \* of a double
ASSUME JsonWidths == MaxInt \in Nat \ {0} /\ MaxInt64 \in Nat /\ MaxInt64 > 2 * MaxInt + 1
\* a double holds every int and uint, but not every number of 64 bits
ASSUME DoubleWidth == MantissaBits \in Nat /\ 2 * MaxInt + 1 < 2 ^ MantissaBits /\ 2 ^ MantissaBits < MaxInt64

MaxUInt == 2 * MaxInt + 1
MinInt == -MaxInt - 1
MinInt64 == -MaxInt64 - 1
MaxUInt64 == 2 * MaxInt64 + 1

Types == <<"null", "int", "uint", "real", "string", "bool", "array", "object">>
Value(type, num, str) == [type |-> type, num |-> num, str |-> str, map |-> <<>>]
NullValue == Value("null", 0, <<>>)
IntValue(n) == Value("int", n, <<>>)
UIntValue(n) == Value("uint", n, <<>>)
RealValue(scaled) == Value("real", scaled, <<>>)
BoolValue(b) == Value("bool", IF b THEN 1 ELSE 0, <<>>)
ArrayValue == Value("array", 0, <<>>)
ObjectValue == Value("object", 0, <<>>)

(* duplicateStringValue keeps all bytes, whoever reads them stops at NUL.  *)
CString(bytes) == LET ends == {i \in DOMAIN bytes : bytes[i] = 0}
                  IN IF ends = {} THEN bytes ELSE SubSeq(bytes, 1, Min(ends) - 1)
StringValue(bytes) == Value("string", 0, bytes)

IsContainer(v) == v.type \in {"array", "object"}

----------------------------------------------------------------------------
(* Members.                                                                *)

(* size(): of an array, the highest index that exists and one more.        *)
Size(v) == CASE v.type = "array" -> IF v.map = <<>> THEN 0 ELSE Max(DOMAIN v.map) + 1
             [] v.type = "object" -> Cardinality(DOMAIN v.map)
             [] OTHER -> 0

(* operator[] const, get and isMember: a missing member is a null.         *)
At(v, key) == IF IsContainer(v) /\ key \in DOMAIN v.map THEN v.map[key] ELSE NullValue
IsMember(v, key) == IsContainer(v) /\ key \in DOMAIN v.map

(* operator[] and resolveReference: null becomes the container, a missing  *)
(* member is created as null; what is assigned to the reference is put.    *)
As(v, type) == IF v.type = "null" THEN Value(type, 0, <<>>) ELSE v
LegalArray(v) == v.type \in {"null", "array"}
LegalObject(v) == v.type \in {"null", "object"}
Put(v, key, x) == [v EXCEPT !.map = [k \in DOMAIN v.map \cup {key} |-> IF k = key THEN x ELSE v.map[k]]]
Reference(v, type, key) == LET c == As(v, type)
                           IN IF IsMember(c, key) THEN c ELSE Put(c, key, NullValue)
Assign(v, type, key, x) == Put(As(v, type), key, x)

AppendValue(v, x) == Assign(v, "array", Size(v), x)
Without(v, keys) == [v EXCEPT !.map = [k \in DOMAIN v.map \ keys |-> v.map[k]]]
RemoveMember(v, key) == IF v.type = "null" THEN v ELSE Without(v, {key})
Clear(v) == IF v.type = "null" THEN v ELSE [v EXCEPT !.map = <<>>]

(* resize: only the last element comes into being; the elements behind the *)
(* new end go, and then the function asserts that the size is right.       *)
Resize(v, n) ==
  LET c == As(v, "array")
  IN CASE n = 0 -> Clear(c)
       [] n > Size(c) -> Reference(c, "array", n - 1)
       [] OTHER -> Without(c, n..Size(c) - 1)
ResizeAsserts(v, n) == Size(Resize(v, n)) = n

(* strcmp, and the order of a map's keys.                                  *)
TextLess(s, t) ==
  LET differ == {i \in 1..Min({Len(s), Len(t)}) : s[i] # t[i]}
  IN IF differ = {} THEN Len(s) < Len(t) ELSE s[Min(differ)] < t[Min(differ)]
KeyLess(type, k, l) == IF type = "array" THEN k < l ELSE TextLess(k, l)
MemberNames(v) == SetToSortSeq(DOMAIN v.map, TextLess)
Keys(v) == IF v.type = "array" THEN SetToSortSeq(DOMAIN v.map, <) ELSE MemberNames(v)

----------------------------------------------------------------------------
(* operator== and operator<: of containers the number of elements first,   *)
(* then the pairs in the order of their keys.                              *)
TypeIndex(v) == CHOOSE i \in DOMAIN Types : Types[i] = v.type

RECURSIVE Equal(_, _)
Equal(v, w) ==
  /\ v.type = w.type
  /\ CASE v.type = "string" -> CString(v.str) = CString(w.str)
       [] IsContainer(v) -> /\ DOMAIN v.map = DOMAIN w.map
                            /\ \A k \in DOMAIN v.map : Equal(v.map[k], w.map[k])
       [] OTHER -> v.num = w.num

\* faulty: the pairs are compared without their keys
KeyOrderIgnored(type, k, l) == FALSE
KeyOrder(type, k, l) == KeyLess(type, k, l)
RECURSIVE Less(_, _)
Less(v, w) ==
  LET pairLess(i) == \/ KeyOrder(v.type, Keys(v)[i], Keys(w)[i])
                     \/ Keys(v)[i] = Keys(w)[i] /\ Less(v.map[Keys(v)[i]], w.map[Keys(w)[i]])
      pairEqual(i) == Keys(v)[i] = Keys(w)[i] /\ Equal(v.map[Keys(v)[i]], w.map[Keys(w)[i]])
  IN IF v.type # w.type THEN TypeIndex(v) < TypeIndex(w)
     ELSE CASE v.type = "null" -> FALSE
            [] v.type = "string" -> TextLess(CString(v.str), CString(w.str))
            [] IsContainer(v) ->
                 IF Cardinality(DOMAIN v.map) # Cardinality(DOMAIN w.map)
                 THEN Cardinality(DOMAIN v.map) < Cardinality(DOMAIN w.map)
                 ELSE \E i \in 1..Cardinality(DOMAIN v.map) :
                        pairLess(i) /\ \A j \in 1..i - 1 : pairEqual(j)
            [] OTHER -> v.num < w.num

----------------------------------------------------------------------------
(* Numbers.  `Scaled` is the number a value stands for; a number that no   *)
(* double is becomes the nearest one, the even one of two.                 *)
Scale == 16000
MaxReal == 131071
Infinity == Scale * (MaxReal + 1)
Abs(n) == IF n < 0 THEN -n ELSE n
Signed(n, size) == IF n < 0 THEN -size ELSE size
RoundDiv(a, b) == LET q == a \div b
                      twice == 2 * (a % b)
                  IN IF twice > b \/ (twice = b /\ q % 2 = 1) THEN q + 1 ELSE q
Rounded(n) == LET step == Min({s \in {125 * 2 ^ j : j \in 0..19} : Abs(n) \div s < 2 ^ MantissaBits})
              IN Signed(n, step * RoundDiv(Abs(n), step))

Scaled(v) == IF v.type = "real" THEN v.num ELSE Scale * v.num
Whole(v) == v.num % Scale = 0
\* (double(maxInt64) and double(maxUInt64) are the powers of two)
InRange(v, low, high) == Scale * low <= v.num /\ v.num <= Scale * high

IsInt(v) == CASE v.type = "int" -> v.num \in MinInt..MaxInt
              [] v.type = "uint" -> v.num <= MaxInt
              [] v.type = "real" -> InRange(v, MinInt, MaxInt) /\ Whole(v)
              [] OTHER -> FALSE
IsUInt(v) == CASE v.type = "int" -> v.num \in 0..MaxUInt
               [] v.type = "uint" -> v.num <= MaxUInt
               [] v.type = "real" -> InRange(v, 0, MaxUInt) /\ Whole(v)
               [] OTHER -> FALSE
IsInt64(v) == CASE v.type = "int" -> TRUE
                [] v.type = "uint" -> v.num <= MaxInt64
                [] v.type = "real" -> InRange(v, MinInt64, MaxInt64 + 1) /\ v.num # Scale * (MaxInt64 + 1) /\ Whole(v)
                [] OTHER -> FALSE
IsUInt64(v) == CASE v.type = "int" -> v.num >= 0
                 [] v.type = "uint" -> TRUE
                 [] v.type = "real" -> InRange(v, 0, MaxUInt64 + 1) /\ v.num # Scale * (MaxUInt64 + 1) /\ Whole(v)
                 [] OTHER -> FALSE
IsIntegral(v) == IsInt64(v) \/ IsUInt64(v)
IsNumeric(v) == IsIntegral(v) \/ v.type = "real"

(* The conversions: the value, or a refusal (an exception).  A double in   *)
(* range is cut to its integer part, which for a double that rounded up    *)
(* to 2^63 or 2^64 no longer fits: `defined` says whether C++ defines it.  *)
Converted(legal, n, defined) == [legal |-> legal, num |-> n, defined |-> defined]
Refused == Converted(FALSE, 0, TRUE)
Truncated(n) == Signed(n, Abs(n) \div Scale)
Convert(v, fits, low, high, slack) ==
  CASE v.type \in {"int", "uint"} -> Converted(fits, v.num, TRUE)
    [] v.type = "real" -> Converted(InRange(v, low, high + slack), Truncated(v.num), v.num < Scale * (high + 1))
    [] v.type \in {"null", "bool"} -> Converted(TRUE, v.num, TRUE)
    [] OTHER -> Refused
AsInt(v) == Convert(v, IsInt(v), MinInt, MaxInt, 0)
AsUInt(v) == Convert(v, IsUInt(v), 0, MaxUInt, 0)
AsInt64(v) == Convert(v, IsInt64(v), MinInt64, MaxInt64, 1)
AsUInt64(v) == Convert(v, IsUInt64(v), 0, MaxUInt64, 1)
AsDouble(v) == Converted(v.type \notin {"string", "array", "object"}, Rounded(Scaled(v)), TRUE)
AsBool(v) == Converted(v.type \notin {"string", "array", "object"}, IF v.num = 0 THEN 0 ELSE 1, TRUE)

(* isConvertibleTo, for the types with a conversion of their own.          *)
Simple(v) == v.type \in {"null", "bool"}
IsConvertibleTo(v, type) ==
  CASE type = "int" -> IsInt(v) \/ (v.type = "real" /\ InRange(v, MinInt, MaxInt)) \/ Simple(v)
    [] type = "uint" -> IsUInt(v) \/ (v.type = "real" /\ InRange(v, 0, MaxUInt)) \/ Simple(v)
    [] type \in {"real", "bool"} -> IsNumeric(v) \/ Simple(v)
    [] type = "string" -> IsNumeric(v) \/ Simple(v) \/ v.type = "string"
    [] type = "array" -> LegalArray(v)
    [] type = "object" -> LegalObject(v)
    [] type = "null" -> \/ IsNumeric(v) /\ v.num = 0
                        \/ v.type = "bool" /\ v.num = 0
                        \/ v.type = "string" /\ CString(v.str) = <<>>
                        \/ IsContainer(v) /\ v.map = <<>>
                        \/ v.type = "null"
=============================================================================
