------------------------------ MODULE JsonReader ------------------------------
(* The tokens and the scalar decoders of Json::Reader,                     *)
(* api/jsoncpp/json_reader.cpp.  A position is the index of the next byte  *)
(* of the document (current_ is one less), Len(doc) + 1 is its end.        *)
EXTENDS JsonWriter

Spaces == {32, 9, 13, 10}
NumberBytes == 48..57 \cup {46, 101, 69, 43, 45}
Token(type, end) == [type |-> type, end |-> end]

(* getNextChar: a zero, and no step, at the end.                           *)
ByteAt(doc, p) == IF p <= Len(doc) THEN doc[p] ELSE 0
After(doc, p) == IF p <= Len(doc) THEN p + 1 ELSE p

(* The first position from p on that the test holds at, or the end.        *)
Find(doc, p, Test(_)) == LET found == {q \in p..Len(doc) : Test(q)}
                         IN IF found = {} THEN Len(doc) + 1 ELSE Min(found)
SkipSpaces(doc, p) == Find(doc, p, LAMBDA q : doc[q] \notin Spaces)

(* readString: a backslash takes the byte behind it along.                 *)
RECURSIVE StringEnd(_, _)
StringEnd(doc, p) ==
  IF p > Len(doc) THEN Len(doc) + 2
  ELSE IF doc[p] = BACKSLASH THEN StringEnd(doc, After(doc, p + 1))
  ELSE IF doc[p] = QUOTE THEN p + 1
  ELSE StringEnd(doc, p + 1)
ReadString(doc, p) == IF StringEnd(doc, p) <= Len(doc) + 1 THEN Token("string", StringEnd(doc, p))
                      ELSE Token("error", Len(doc) + 1)

(* readComment, p behind the slash.                                        *)
ReadComment(doc, p) ==
  LET star == Find(doc, p + 1, LAMBDA q : doc[q] = 42 /\ ByteAt(doc, q + 1) = SLASH)
      eol == Find(doc, p + 1, LAMBDA q : doc[q] \in {10, 13})
  IN CASE ByteAt(doc, p) = 42 /\ star <= Len(doc) -> Token("comment", star + 2)
       [] ByteAt(doc, p) = 42 /\ star > Len(doc) -> Token("error", Len(doc) + 1)
       [] ByteAt(doc, p) = SLASH -> Token("comment", After(doc, eol))
       [] OTHER -> Token("error", After(doc, p))

(* match: the first letter is consumed in any case.                        *)
Match(doc, p, type, text) == IF \A i \in DOMAIN text : ByteAt(doc, p + i - 1) = text[i] THEN Token(type, p + Len(text))
                             ELSE Token("error", p + 1)

Punctuation == (LBRACE :> "objectBegin") @@ (RBRACE :> "objectEnd") @@ (LBRACKET :> "arrayBegin")
               @@ (RBRACKET :> "arrayEnd") @@ (COMMA :> "arraySeparator") @@ (COLON :> "memberSeparator")
TokenAt(doc, p) ==
  LET c == ByteAt(doc, p)
  IN CASE c \in DOMAIN Punctuation -> Token(Punctuation[c], p + 1)
       [] c = QUOTE -> ReadString(doc, p + 1)
       [] c = SLASH -> ReadComment(doc, p + 1)
       [] c \in 48..57 \cup {MINUS} -> Token("number", Find(doc, p + 1, LAMBDA q : doc[q] \notin NumberBytes))
       [] c = 116 -> Match(doc, p, "true", TRUE_TEXT)
       [] c = 102 -> Match(doc, p, "false", FALSE_TEXT)
       [] c = 110 -> Match(doc, p, "null", NULL_TEXT)
       [] c = 0 -> Token("endOfStream", After(doc, p))
       [] OTHER -> Token("error", p + 1)

(* readToken and skipCommentTokens: the token with its text.               *)
ReadToken(doc, p) ==
  LET start == SkipSpaces(doc, p)
      t == TokenAt(doc, start)
  IN [type |-> t.type, end |-> t.end, text |-> SubSeq(doc, start, t.end - 1)]
RECURSIVE SkipCommentTokens(_, _)
SkipCommentTokens(doc, p) == LET t == ReadToken(doc, p)
                             IN IF t.type = "comment" THEN SkipCommentTokens(doc, t.end) ELSE t

----------------------------------------------------------------------------
(* decodeNumber and decodeDouble.                                          *)

NotDecoded == [ok |-> FALSE, v |-> NullValue]
Decoded(v) == [ok |-> TRUE, v |-> v]
IsDigit(b) == b \in 48..57
Number(digits) == FoldLeft(LAMBDA acc, d : 10 * acc + (d - ZERO), 0, digits)

(* sscanf %lf: the longest prefix that is a number, and the double nearest *)
(* to it; the rest of the token goes unread.                               *)
DigitsFrom(text, p) == SubSeq(text, p, Find(text, p, LAMBDA q : ~IsDigit(text[q])) - 1)
\* (in the range of a double)
Shifted(n, x) == CASE n = 0 \/ x < -9 -> 0
                   [] n # 0 /\ x \in -9..-1 -> n \div 10 ^ (-x)
                   [] n # 0 /\ x \in 0..9 /\ n <= Infinity \div 10 ^ x -> n * 10 ^ x
                   [] OTHER -> Infinity
DecodeDouble(text) ==
  LET sign == IF text[1] = MINUS THEN 1 ELSE 0
      whole == DigitsFrom(text, sign + 1)
      dot == sign + Len(whole) + 1
      fraction == IF ByteAt(text, dot) = DOT THEN DigitsFrom(text, dot + 1) ELSE <<>>
      e == IF ByteAt(text, dot) = DOT THEN dot + 1 + Len(fraction) ELSE dot
      esign == IF ByteAt(text, e + 1) \in {43, MINUS} THEN 1 ELSE 0
      exponent == IF ByteAt(text, e) \in {101, 69} THEN DigitsFrom(text, e + 1 + esign) ELSE <<>>
      decimals == [i \in 1..3 |-> IF i \in DOMAIN fraction THEN fraction[i] ELSE ZERO]
      base == IF Number(whole) > MaxReal THEN Infinity
              ELSE Scale * Number(whole) + (Scale \div 1000) * Number(decimals)
      size == Shifted(base, IF ByteAt(text, e + 1) = MINUS THEN -Number(exponent) ELSE Number(exponent))
  IN IF whole = <<>> /\ fraction = <<>> THEN NotDecoded
     ELSE Decoded(RealValue(Rounded(IF sign = 1 THEN -size ELSE size)))

IsDoubleText(text) == \E i \in DOMAIN text : text[i] \in {DOT, 101, 69, 43} \/ (text[i] = MINUS /\ i > 1)

(* The digits one by one against the largest magnitude: a number that      *)
(* would not fit is decoded as a double.                                   *)
TooLarge(value, digit, last, limit) ==
  value >= limit \div 10 /\ (value > limit \div 10 \/ ~last \/ digit > limit % 10)
DecodeNumber(text) ==
  LET negative == text[1] = MINUS
      limit == IF negative THEN -MinInt64 ELSE MaxUInt64
      digits == IF negative THEN Tail(text) ELSE text
      value(k) == Number(SubSeq(digits, 1, k))
      \* the first step that gives up on integers
      large == {k \in DOMAIN digits : TooLarge(value(k - 1), digits[k] - ZERO, k = Len(digits), limit)}
  IN IF IsDoubleText(text) \/ large # {} THEN DecodeDouble(text)
     ELSE LET n == Number(digits) % (MaxUInt64 + 1)
          IN Decoded(IF negative THEN IntValue(-n) ELSE IF n <= MaxInt THEN IntValue(n) ELSE UIntValue(n))

----------------------------------------------------------------------------
(* decodeString, decodeUnicodeCodePoint and codePointToUTF8.               *)

HexValue == [b \in 48..57 |-> b - 48] @@ [b \in 65..70 |-> b - 55] @@ [b \in 97..102 |-> b - 87]
UTF8(cp) ==
  LET low(k) == 128 + ((cp \div (64 ^ k)) % 64)
  IN CASE cp <= 127 -> <<cp>>
       [] cp \in 128..2047 -> <<192 + (cp \div 64), low(0)>>
       [] cp \in 2048..65535 -> <<224 + (cp \div 4096), low(1), low(0)>>
       [] OTHER -> <<240 + (cp \div 262144), low(2), low(1), low(0)>>

(* decodeUnicodeEscapeSequence: four hexadecimal digits from p, or -1.     *)
FourDigits(s, p) ==
  IF p + 3 > Len(s) \/ \E i \in p..p + 3 : s[i] \notin DOMAIN HexValue THEN -1
  ELSE FoldLeft(LAMBDA acc, b : 16 * acc + HexValue[b], 0, SubSeq(s, p, p + 3))

(* A high surrogate needs six more characters; whatever follows is taken   *)
(* for its low half.                                                       *)
\* faulty: the halves of a pair are two characters
CodePointHalf(s, p) == [cp |-> FourDigits(s, p), end |-> p + 4]
CodePoint(s, p) ==
  LET first == FourDigits(s, p)
      pair == ByteAt(s, p + 4) = BACKSLASH /\ ByteAt(s, p + 5) = 117
      second == FourDigits(s, p + 6)
  IN IF first \notin 55296..56319 THEN [cp |-> first, end |-> p + 4]
     ELSE IF ~pair \/ second = -1 THEN [cp |-> -1, end |-> p]
     ELSE [cp |-> 65536 + ((first % 1024) * 1024) + (second % 1024), end |-> p + 10]

ShortMeaning == (34 :> 34) @@ (47 :> 47) @@ (92 :> 92) @@ (98 :> 8) @@ (102 :> 12) @@ (110 :> 10) @@ (114 :> 13) @@ (116 :> 9)
RECURSIVE DecodeFrom(_, _, _)
DecodeFrom(s, p, decoded) ==
  LET escape == ByteAt(s, p + 1)
      u == CodePoint(s, p + 2)
  IN CASE p > Len(s) -> Decoded(StringValue(decoded))
       [] p <= Len(s) /\ s[p] # BACKSLASH -> DecodeFrom(s, p + 1, Append(decoded, s[p]))
       [] p <= Len(s) /\ s[p] = BACKSLASH /\ escape \in DOMAIN ShortMeaning ->
            DecodeFrom(s, p + 2, Append(decoded, ShortMeaning[escape]))
       [] p <= Len(s) /\ s[p] = BACKSLASH /\ escape = 117 /\ u.cp # -1 -> DecodeFrom(s, u.end, decoded \o UTF8(u.cp))
       [] OTHER -> NotDecoded
DecodeString(text) == DecodeFrom(SubSeq(text, 2, Len(text) - 1), 1, <<>>)
=============================================================================
