------------------------------ MODULE JsonWriter ------------------------------
(* FastWriter and StyledWriter of api/jsoncpp/json_writer.cpp, with the    *)
(* conversions of json_tool.h: the bytes a value is written as.            *)
EXTENDS JsonValue, TLC

CONSTANTS RightMargin, IndentSize,
          Precision  \* the digits of %.16g
ASSUME WriterAssumption == RightMargin \in Nat /\ IndentSize \in Nat
\* as 10^15 < 2^53 < 10^16: so many digits do not tell all doubles apart
ASSUME PrecisionAssumption == Precision \in Nat \ {0} /\ 10 ^ (Precision - 1) < 2 ^ MantissaBits
                              /\ 2 ^ MantissaBits < 10 ^ Precision

NEWLINE == 10
SPACE == 32
QUOTE == 34
SLASH == 47
BACKSLASH == 92
COMMA == 44
COLON == 58
DOT == 46
MINUS == 45
ZERO == 48
LBRACKET == 91
RBRACKET == 93
LBRACE == 123
RBRACE == 125
TRUE_TEXT == <<116, 114, 117, 101>>
FALSE_TEXT == <<102, 97, 108, 115, 101>>
NULL_TEXT == <<110, 117, 108, 108>>

RECURSIVE Digits(_)
Digits(n) == IF n < 10 THEN <<ZERO + n>> ELSE Digits(n \div 10) \o <<ZERO + (n % 10)>>
Concat(texts) == FoldLeft(LAMBDA acc, t : acc \o t, <<>>, texts)
Separated(texts, separator) ==
  Concat([i \in DOMAIN texts |-> IF i = 1 THEN texts[i] ELSE separator \o texts[i]])

(* valueToString and uintToString.                                         *)
Numeral(n) == IF n < 0 THEN <<MINUS>> \o Digits(-n) ELSE Digits(n)

(* %.16g: the decimal exponent of the first digit, the digits rounded to   *)
(* Precision of them without the zeros at the end, an exponent from        *)
(* 10^Precision on (a double of the model is none or at least 1/128).      *)
AtLeast(n, x) == IF x >= 0 THEN n \div Scale >= 10 ^ x ELSE n >= Scale \div 10 ^ (-x)
Exponent(n) == Max({x \in -3..5 : AtLeast(n, x)})
Significant(n) == LET k == Precision - 1 - Exponent(n)
                  IN IF k >= 0 THEN RoundDiv(n * 10 ^ k, Scale) ELSE RoundDiv(n, Scale * 10 ^ (-k))
Fraction(digits) == LET kept == {i \in DOMAIN digits : digits[i] # ZERO}
                    IN IF kept = {} THEN <<>> ELSE <<DOT>> \o SubSeq(digits, 1, Max(kept))
General(n) ==
  LET carry == IF Significant(n) = 10 ^ Precision THEN 1 ELSE 0
      x == Exponent(n) + carry
      digits == Digits(Significant(n) \div (10 ^ carry))
      point(p) == SubSeq(digits, 1, p) \o Fraction(SubSeq(digits, p + 1, Precision))
  IN CASE n = 0 -> <<ZERO>>
       [] n = Infinity -> <<105, 110, 102>>
       [] n \notin {0, Infinity} /\ x >= Precision -> point(1) \o <<101, 43, ZERO>> \o Digits(x)
       [] n \notin {0, Infinity} /\ x \in 0..Precision - 1 -> point(x + 1)
       [] OTHER -> <<ZERO>> \o Fraction([i \in 1..-x - 1 |-> ZERO] \o digits)
RealNumeral(n) == (IF n < 0 THEN <<MINUS>> ELSE <<>>) \o General(Abs(n))

(* valueToQuotedString: the short escapes, \u00xx for the other control    *)
(* characters (a byte above 0x7F is negative, not a control character).    *)
ShortEscape == (34 :> 34) @@ (92 :> 92) @@ (8 :> 98) @@ (12 :> 102) @@ (10 :> 110) @@ (13 :> 114) @@ (9 :> 116)
IsControlCharacter(c) == c \in 1..31
HexDigit(n) == IF n < 10 THEN ZERO + n ELSE 55 + n
UnicodeEscape(n) == <<BACKSLASH, 117>> \o [i \in 1..4 |-> HexDigit((n \div (16 ^ (4 - i))) % 16)]
Escaped(c) == IF c \in DOMAIN ShortEscape THEN <<BACKSLASH, ShortEscape[c]>>
              ELSE IF IsControlCharacter(c) THEN UnicodeEscape(c) ELSE <<c>>
Quoted(text) == <<QUOTE>> \o Concat([i \in DOMAIN CString(text) |-> Escaped(text[i])]) \o <<QUOTE>>

ScalarText(v) == CASE v.type = "null" -> NULL_TEXT
                   [] v.type \in {"int", "uint"} -> Numeral(v.num)
                   [] v.type = "real" -> RealNumeral(v.num)
                   [] v.type = "string" -> Quoted(v.str)
                   [] v.type = "bool" -> IF v.num = 1 THEN TRUE_TEXT ELSE FALSE_TEXT

(* FastWriter: every index below size(), every member in the map's order.  *)
Elements(v) == [i \in 1..Size(v) |-> At(v, i - 1)]
RECURSIVE FastText(_)
FastText(v) ==
  CASE v.type = "array" ->
         <<LBRACKET>> \o Separated([i \in DOMAIN Elements(v) |-> FastText(Elements(v)[i])], <<COMMA>>) \o <<RBRACKET>>
    [] v.type = "object" ->
         LET names == MemberNames(v)
         IN <<LBRACE>> \o Separated([i \in DOMAIN names |-> Quoted(names[i]) \o <<COLON>> \o FastText(At(v, names[i]))], <<COMMA>>)
            \o <<RBRACE>>
    [] OTHER -> ScalarText(v)
FastWrite(v) == FastText(v) \o <<NEWLINE>>

(* StyledWriter: short arrays of scalars and empty containers on one line, *)
(* every other element and member on a line of its own.                    *)
Indent(depth) == <<NEWLINE>> \o [i \in 1..depth * IndentSize |-> SPACE]
EmptyText(v) == IF v.type = "array" THEN <<LBRACKET, RBRACKET>> ELSE <<LBRACE, RBRACE>>
LeafText(v) == IF IsContainer(v) THEN EmptyText(v) ELSE ScalarText(v)
IsLeaf(v) == ~IsContainer(v) \/ Size(v) = 0
OneLine(v) == Separated([i \in DOMAIN Elements(v) |-> LeafText(Elements(v)[i])], <<COMMA, SPACE>>)
IsMultilineArray(v) ==
  \/ Size(v) * 3 >= RightMargin
  \/ \E i \in DOMAIN Elements(v) : ~IsLeaf(Elements(v)[i])
  \/ 4 + Len(OneLine(v)) >= RightMargin
RECURSIVE StyledText(_, _)
StyledText(v, depth) ==
  IF IsLeaf(v) THEN LeafText(v)
  ELSE IF v.type = "array" /\ ~IsMultilineArray(v)
  THEN <<LBRACKET, SPACE>> \o OneLine(v) \o <<SPACE, RBRACKET>>
  ELSE IF v.type = "array"
  THEN <<LBRACKET>> \o Separated([i \in DOMAIN Elements(v) |-> Indent(depth + 1) \o StyledText(Elements(v)[i], depth + 1)], <<COMMA>>)
       \o Indent(depth) \o <<RBRACKET>>
  ELSE LET names == MemberNames(v)
       IN <<LBRACE>>
          \o Separated([i \in DOMAIN names |-> Indent(depth + 1) \o Quoted(names[i]) \o <<SPACE, COLON, SPACE>>
                                               \o StyledText(At(v, names[i]), depth + 1)], <<COMMA>>)
          \o Indent(depth) \o <<RBRACE>>
StyledWrite(v) == StyledText(v, 0) \o <<NEWLINE>>
=============================================================================
