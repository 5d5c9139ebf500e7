----------------------------- MODULE JsonDocument -----------------------------
(* One Json::Value of the API code (`root`, filled from `item` as in        *)
(* encodeMyFilesJson or getUserFileList), the document written from it, and *)
(* Json::Reader::parse on what arrives of that document: the recursion of   *)
(* readValue, readObject and readArray as a stack of open containers        *)
(* (nodes_), one step per value, name or separator, and the recovery from   *)
(* an error token by token.                                                 *)
(*                                                                          *)
(* The document arrives as written, or cut, or short of one byte; or it is  *)
(* another program's spelling of the same data.                             *)
EXTENDS JsonReader

CONSTANTS Scalars,     \* values without members
          Names,       \* names of members
          Indices,     \* indices the program uses
          Gaps,        \* white space and comments of another program
          MaxOps,      \* calls that build the value
          MaxDamaged   \* only values built in so few calls are sent damaged

VARIABLES root, item,  \* of the program
          ops,         \* calls so far
          doc,         \* the document the reader gets
          intact,      \* what happened to it: "whole", "foreign", "cut", "damaged"
          nodes,       \* open containers: [v |-> its value so far, key |-> of the member being read]
          pos, pc,     \* current_, and where the reader is
          errors,      \* errors_.size()
          result, ok   \* the reader's root and what parse returns
program == <<root, item, ops>>
reader == <<doc, intact, nodes, pos, pc, errors, result, ok>>
vars == <<program, reader>>

Init ==
  /\ root = NullValue /\ item = NullValue /\ ops = 0
  /\ doc = <<>> /\ intact = "whole" /\ nodes = <<>> /\ pos = 1 /\ pc = "building"
  /\ errors = 0 /\ result = NullValue /\ ok = TRUE

----------------------------------------------------------------------------
(* The program builds a value.                                             *)

Building(r, i) == /\ pc = "building" /\ ops < MaxOps
                  /\ ops' = ops + 1 /\ root' = r /\ item' = i
                  /\ UNCHANGED reader
Construct == \E v \in Scalars : Building(root, v)
\* item = root, root = Value()
Nest == root # NullValue /\ Building(NullValue, root)
SetMember == \E k \in Names : LegalObject(root) /\ Building(Assign(root, "object", k, item), item)
SetElement == \E i \in Indices : LegalArray(root) /\ Building(Assign(root, "array", i, item), item)
AppendItem == LegalArray(root) /\ Building(AppendValue(root, item), item)
\* a name read through the operator that is not const comes into being
LookUp == \E k \in Names : LegalObject(root) /\ Building(Reference(root, "object", k), At(root, k))
RemoveName == \E k \in Names : LegalObject(root) /\ Building(RemoveMember(root, k), item)
Empty == (LegalArray(root) \/ LegalObject(root)) /\ Building(Clear(root), item)
ResizeArray == \E n \in Indices : LegalArray(root) /\ ResizeAsserts(root, n) /\ Building(Resize(root, n), item)
\* the assertion at the end of resize fails
ResizeAborts == /\ pc = "building" /\ ops < MaxOps
                /\ \E n \in Indices : LegalArray(root) /\ ~ResizeAsserts(root, n)
                /\ pc' = "aborted"
                /\ UNCHANGED <<program, doc, intact, nodes, pos, errors, result, ok>>

----------------------------------------------------------------------------
(* The document.                                                           *)

(* Another program: every character escaped, numbers with an exponent and  *)
(* all their digits, a gap where this reader allows one (never before a colon or in an empty   *)
(* array).                                                                 *)
RECURSIVE CodePoints(_, _)
CodePoints(s, p) ==
  LET low(k) == s[p + k] % 64
  IN CASE p > Len(s) -> <<>>
       [] p <= Len(s) /\ s[p] < 128 -> <<s[p]>> \o CodePoints(s, p + 1)
       [] p <= Len(s) /\ s[p] \in 192..223 -> <<(s[p] % 32) * 64 + low(1)>> \o CodePoints(s, p + 2)
       [] OTHER -> <<(s[p] % 8) * 262144 + low(1) * 4096 + low(2) * 64 + low(3)>> \o CodePoints(s, p + 4)
Surrogates(cp) == IF cp < 65536 THEN UnicodeEscape(cp)
                  ELSE LET c == cp - 65536
                       IN UnicodeEscape(55296 + (c \div 1024)) \o UnicodeEscape(56320 + (c % 1024))
QuotedByOthers(text) ==
  LET points == CodePoints(CString(text), 1)
  IN <<QUOTE>> \o Concat([i \in DOMAIN points |-> Surrogates(points[i])]) \o <<QUOTE>>
LeafByOthers(v) == CASE v.type = "string" -> QuotedByOthers(v.str)
                     [] v.type \in {"int", "uint"} -> Numeral(v.num) \o <<101, ZERO>>
                     [] v.type = "real" -> Numeral(v.num \div (Scale \div 10)) \o <<101, MINUS, ZERO + 1>>
                     [] OTHER -> ScalarText(v)
RECURSIVE TextByOthers(_, _)
TextByOthers(v, gap) ==
  LET members == IF v.type = "array" THEN [i \in DOMAIN Elements(v) |-> TextByOthers(Elements(v)[i], gap) \o gap]
                 ELSE [i \in DOMAIN Keys(v) |-> gap \o QuotedByOthers(Keys(v)[i]) \o <<COLON>>
                                                \o TextByOthers(At(v, Keys(v)[i]), gap) \o gap]
      body == Separated(members, <<COMMA>>)
  IN IF ~IsContainer(v) THEN gap \o LeafByOthers(v)
     ELSE IF v.type = "array" THEN gap \o <<LBRACKET>> \o body \o <<RBRACKET>>
     ELSE gap \o <<LBRACE>> \o body \o (IF v.map = <<>> THEN gap ELSE <<>>) \o <<RBRACE>>

(* Reader::parse.                                                          *)
Parse(text, what) ==
  /\ pc = "building"
  /\ doc' = text /\ intact' = what
  /\ nodes' = <<>> /\ pos' = 1 /\ pc' = "value" /\ errors' = 0 /\ result' = NullValue /\ ok' = TRUE
  /\ UNCHANGED program
SendFast == Parse(FastWrite(root), "whole")
SendStyled == IsContainer(root) /\ Parse(StyledWrite(root), "whole")
\* (of data that is UTF-8: not of what a damaged document said)
SendByOthers == intact = "whole" /\ \E gap \in Gaps : Parse(TextByOthers(root, gap) \o gap, "foreign")
\* the closing bracket, and the line end behind it, are not there
Damaged == ops <= MaxDamaged /\ IsContainer(root)
Spellings == {FastWrite(root), TextByOthers(root, <<>>) \o <<NEWLINE>>}
SendCut == Damaged /\ \E text \in Spellings : \E n \in 0..Len(text) - 2 : Parse(SubSeq(text, 1, n), "cut")
SendDamaged == Damaged /\ \E text \in Spellings : \E i \in 1..Len(text) - 1 : Parse(RemoveAt(text, i), "damaged")

----------------------------------------------------------------------------
(* The reader.                                                             *)

Top == nodes[Len(nodes)]
SetTop(node) == [nodes EXCEPT ![Len(nodes)] = node]
Node(v, key) == [v |-> v, key |-> key]

(* A value is complete: it is assigned to currentValue().                  *)
Deliver(v, stack, end) ==
  /\ pos' = end
  /\ IF stack = <<>> THEN /\ result' = v /\ pc' = "done" /\ nodes' = <<>>
     ELSE LET node == stack[Len(stack)]
          IN /\ nodes' = [stack EXCEPT ![Len(stack)] = Node(Put(node.v, node.key, v), node.key)]
             /\ pc' = (IF node.v.type = "array" THEN "after element" ELSE "after member")
             /\ UNCHANGED result

(* addError; whoever reads a container goes on in recoverFromError.        *)
\* faulty: an error in a container is not counted
FailUncounted(end) == /\ ok' = FALSE /\ errors' = errors + (IF nodes = <<>> THEN 1 ELSE 0) /\ pos' = end
                      /\ pc' = (IF nodes = <<>> THEN "done" ELSE "recover")
                      /\ UNCHANGED <<nodes, result>>
Fail(end) == /\ ok' = FALSE /\ errors' = errors + 1 /\ pos' = end
             /\ pc' = (IF nodes = <<>> THEN "done" ELSE "recover")
             /\ UNCHANGED <<nodes, result>>

Open(v, key, next, end) == /\ nodes' = Append(nodes, Node(v, key)) /\ pc' = next /\ pos' = end
                           /\ UNCHANGED result

(* readValue; readArray looks for the empty array past spaces only.        *)
Literal(type) == CASE type = "true" -> BoolValue(TRUE) [] type = "false" -> BoolValue(FALSE) [] OTHER -> NullValue
ReadValue ==
  /\ pc = "value"
  /\ UNCHANGED <<program, doc, intact>>
  /\ \E t \in {SkipCommentTokens(doc, pos)} :
       \/ /\ t.type = "objectBegin"
          /\ Open(ObjectValue, <<>>, "name", t.end)
          /\ UNCHANGED <<ok, errors>>
       \/ /\ t.type = "arrayBegin"
          /\ LET first == SkipSpaces(doc, t.end)
             IN IF ByteAt(doc, first) = RBRACKET THEN Deliver(ArrayValue, nodes, first + 1)
                ELSE Open(Put(ArrayValue, 0, NullValue), 0, "value", first)
          /\ UNCHANGED <<ok, errors>>
       \/ /\ t.type \in {"number", "string"}
          /\ \E d \in {IF t.type = "number" THEN DecodeNumber(t.text) ELSE DecodeString(t.text)} :
               IF d.ok THEN Deliver(d.v, nodes, t.end) /\ UNCHANGED <<ok, errors>> ELSE Fail(t.end)
       \/ /\ t.type \in {"true", "false", "null"}
          /\ Deliver(Literal(t.type), nodes, t.end)
          /\ UNCHANGED <<ok, errors>>
       \/ /\ t.type \in {"objectEnd", "arrayEnd", "arraySeparator", "memberSeparator", "endOfStream", "error"}
          /\ Fail(t.end)

(* readObject: a name and its colon, which no comment may precede; `}` is  *)
(* taken for the end while the name before it is empty (names hold no NUL).*)
ReadName ==
  /\ pc = "name"
  /\ UNCHANGED <<program, doc, intact>>
  /\ \E t \in {SkipCommentTokens(doc, pos)} :
       \/ /\ t.type = "objectEnd" /\ Top.key = <<>>
          /\ Deliver(Top.v, Front(nodes), t.end)
          /\ UNCHANGED <<ok, errors>>
       \/ /\ t.type = "string"
          /\ \E d \in {DecodeString(t.text)}, colon \in {ReadToken(doc, t.end)} :
               IF ~d.ok THEN Fail(t.end)
               ELSE IF colon.type # "memberSeparator" THEN Fail(colon.end)
               ELSE /\ nodes' = SetTop(Node(Reference(Top.v, "object", CString(d.v.str)), CString(d.v.str)))
                    /\ pc' = "value" /\ pos' = colon.end
                    /\ UNCHANGED <<ok, errors, result>>
       \/ /\ t.type # "string" /\ ~(t.type = "objectEnd" /\ Top.key = <<>>)
          /\ Fail(t.end)

(* Behind a member: once a comment was read, any token separates.          *)
AfterMember ==
  /\ pc = "after member"
  /\ UNCHANGED <<program, doc, intact>>
  /\ \E t \in {ReadToken(doc, pos)}, next \in {SkipCommentTokens(doc, pos)} :
       IF t.type \notin {"objectEnd", "arraySeparator", "comment"} THEN Fail(t.end)
       ELSE /\ IF next.type = "objectEnd" THEN Deliver(Top.v, Front(nodes), next.end)
               ELSE pc' = "name" /\ pos' = next.end /\ UNCHANGED <<nodes, result>>
            /\ UNCHANGED <<ok, errors>>

AfterElement ==
  /\ pc = "after element"
  /\ UNCHANGED <<program, doc, intact>>
  /\ \E t \in {SkipCommentTokens(doc, pos)} :
       \/ /\ t.type = "arrayEnd"
          /\ Deliver(Top.v, Front(nodes), t.end)
          /\ UNCHANGED <<ok, errors>>
       \/ /\ t.type = "arraySeparator"
          /\ nodes' = SetTop(Node(Put(Top.v, Top.key + 1, NullValue), Top.key + 1))
          /\ pc' = "value" /\ pos' = t.end
          /\ UNCHANGED <<ok, errors, result>>
       \/ /\ t.type \notin {"arrayEnd", "arraySeparator"}
          /\ Fail(t.end)

(* recoverFromError: skip to the end of the container, or of the document, *)
(* and return false to the container around it, which does the same.       *)
Leave(end) ==
  /\ pos' = end
  /\ IF Len(nodes) = 1 THEN /\ nodes' = <<>> /\ result' = Top.v /\ pc' = "done"
     ELSE LET outer == nodes[Len(nodes) - 1]
          IN /\ nodes' = Append(SubSeq(nodes, 1, Len(nodes) - 2), Node(Put(outer.v, outer.key, Top.v), outer.key))
             /\ UNCHANGED <<pc, result>>
Recover ==
  /\ pc = "recover"
  /\ UNCHANGED <<program, doc, intact, ok, errors>>
  /\ \E t \in {ReadToken(doc, pos)} :
       IF t.type \in {"endOfStream", IF Top.v.type = "array" THEN "arrayEnd" ELSE "objectEnd"} THEN Leave(t.end)
       ELSE pos' = t.end /\ UNCHANGED <<nodes, result, pc>>

(* A program that has read a document goes on with what it read.           *)
TakeOver == /\ pc = "done" /\ ok /\ intact = "damaged"
            /\ root' = result /\ pc' = "building" /\ ops' = MaxOps
            /\ UNCHANGED <<item, doc, intact, nodes, pos, errors, result, ok>>

Next == \/ Construct \/ Nest \/ SetMember \/ SetElement \/ AppendItem \/ LookUp
        \/ RemoveName \/ Empty \/ ResizeArray \/ ResizeAborts
        \/ SendFast \/ SendStyled \/ SendByOthers \/ SendCut \/ SendDamaged
        \/ ReadValue \/ ReadName \/ AfterMember \/ AfterElement \/ Recover \/ TakeOver
Spec == Init /\ [][Next]_vars

----------------------------------------------------------------------------
(* Properties.                                                             *)

(* A number that survives a document: one that another program spelled     *)
(* with all its digits, if a double holds it; of these writers any         *)
(* integer, and a real number of no more digits than are printed.          *)
FewDigits(n) == \E m \in 0..10 ^ Precision - 1, k \in 0..3 : Abs(n) \in {m * Scale * 10 ^ k, m * (Scale \div 10 ^ k)}
Survives(v) == CASE intact = "foreign" -> Rounded(Scaled(v)) = Scaled(v)
                 [] intact # "foreign" /\ v.type = "real" -> FewDigits(v.num)
                 [] OTHER -> TRUE
SameNumber(v, w) == /\ Abs(Scaled(w) - Scaled(v)) <= Abs(Scaled(v)) \div 10 ^ (Precision - 1)
                    /\ Survives(v) => Scaled(w) = Scaled(v)

(* v and w are the same data, as far as a document can tell.               *)
Numbers == {"int", "uint", "real"}
RECURSIVE SameData(_, _)
SameData(v, w) ==
  CASE v.type \in Numbers -> w.type \in Numbers /\ SameNumber(v, w)
    [] v.type = "array" -> w.type = "array" /\ Size(w) = Size(v) /\ \A i \in 0..Size(v) - 1 : SameData(At(v, i), At(w, i))
    [] v.type = "object" -> w.type = "object" /\ DOMAIN w.map = DOMAIN v.map /\ \A k \in DOMAIN v.map : SameData(v.map[k], w.map[k])
    [] OTHER -> Equal(v, w)

\* an infinite number is written as no document may have it
RECURSIVE Finite(_)
Finite(v) == IF IsContainer(v) THEN \A k \in DOMAIN v.map : Finite(v.map[k]) ELSE Abs(v.num) # Infinity

(* What any writer wrote of a value the API code can build, or of one it   *)
(* read from a damaged document, the reader accepts and reads as the same  *)
(* data: writers, tokens, decoders and the members' order agree; a number  *)
(* that does not survive %.16g or a double keeps its first fifteen digits. *)
RoundTrip == pc = "done" /\ intact \in {"whole", "foreign"} /\ Finite(root) => ok /\ SameData(root, result)

(* readValue, readObject, readArray, addError, recoverFromError: parse     *)
(* returns false exactly when it has an error to tell, one and not one for *)
(* every container it leaves, and a document cut off in the middle (a body *)
(* that ended early) is never taken for a whole one.                       *)
RefusalsExplained ==
  pc = "done" => /\ errors = IF ok THEN 0 ELSE 1
                 /\ intact = "cut" => ~ok

(* isInt.., asInt.., isConvertibleTo: a type a value says it has it        *)
(* converts to, to the same number and without overflow; operator< and     *)
(* operator== put any two values in one order.                             *)
Faithful(is, as, v) == is => as.legal /\ as.defined /\ Scale * as.num = Scaled(v)
AccessorsAgreeOn(v) ==
  /\ Faithful(IsInt(v), AsInt(v), v) /\ Faithful(IsUInt(v), AsUInt(v), v)
  /\ Faithful(IsInt64(v), AsInt64(v), v) /\ Faithful(IsUInt64(v), AsUInt64(v), v)
  /\ IsConvertibleTo(v, "int") => AsInt(v).legal
  /\ IsConvertibleTo(v, "uint") => AsUInt(v).legal
  /\ IsConvertibleTo(v, "real") => AsDouble(v).legal
  /\ IsConvertibleTo(v, "bool") => AsBool(v).legal
OneOrder(v, w) == Cardinality({r \in {1, 2, 3} : CASE r = 1 -> Less(v, w) [] r = 2 -> Less(w, v) [] r = 3 -> Equal(v, w)}) = 1
ValuesAgree == pc = "building" => AccessorsAgreeOn(item) /\ OneOrder(root, item)
=============================================================================
