---------------------------- MODULE RedisCommand ---------------------------
(***************************************************************************)
(* How a command becomes bytes, RedisPool/hiredis.c: redisvFormatCommand   *)
(* walks a format string, redisFormatSdsCommandArgv takes the arguments as *)
(* they are, and both compute the length before they write.                *)
(*                                                                         *)
(* Modelled: literal bytes, spaces, %s, %%, and the integer conversions    *)
(* with an optional l or ll.  The callers in CachePool.cpp write %s, %d    *)
(* and %ld only; flags, widths, precisions, doubles and %b are left out.   *)
(***************************************************************************)
EXTENDS RedisReader

PERCENT == 37
LOWER_D == 100
LOWER_L == 108
LOWER_S == 115

(* What sprintf writes for a %d.                                           *)
Decimal(n) ==
  LET digits[k \in Nat] == IF k < 10 THEN <<ZERO + k>> ELSE Append(digits[k \div 10], ZERO + (k % 10))
  IN IF n < 0 THEN <<MINUS>> \o digits[-n] ELSE digits[n]

(* A walk over the format: at byte `at`, with the finished arguments, the  *)
(* current one, whether anything touched it, and the values still to use.  *)
Walk(values) == [at |-> 1, argv |-> <<>>, cur |-> <<>>, touched |-> FALSE, values |-> values, ok |-> TRUE]

Literal(w, b) == [w EXCEPT !.at = @ + 1, !.cur = Append(@, b), !.touched = TRUE]
Push(w) == IF w.touched THEN [w EXCEPT !.argv = Append(@, w.cur), !.cur = <<>>, !.touched = FALSE] ELSE w

(* A conversion of n bytes takes a value and appends its text.             *)
Convert(w, n, text) ==
  [w EXCEPT !.at = @ + n, !.cur = @ \o text, !.touched = TRUE, !.values = Tail(@)]

(* The number of bytes of an integer conversion at c, 0 for no conversion. *)
IntegerConversion(fmt, c) ==
  LET size == Min({n \in 0..2 : c + 1 + n > Len(fmt) \/ fmt[c + 1 + n] # LOWER_L} \cup {2})
  IN IF c + 1 + size <= Len(fmt) /\ fmt[c + 1 + size] = LOWER_D THEN 2 + size ELSE 0

FormatStep(fmt, w) ==
  LET b == fmt[w.at]
      n == IntegerConversion(fmt, w.at)
  IN IF b # PERCENT \/ w.at = Len(fmt)
     THEN IF b = SP THEN [Push(w) EXCEPT !.at = @ + 1] ELSE Literal(w, b)
     ELSE CASE fmt[w.at + 1] = LOWER_S -> Convert(w, 2, Head(w.values))
            [] fmt[w.at + 1] = PERCENT -> [Literal(w, PERCENT) EXCEPT !.at = w.at + 2]
            [] OTHER -> IF n > 0 THEN Convert(w, n, Decimal(Head(w.values)))
                        ELSE [w EXCEPT !.ok = FALSE, !.at = Len(fmt) + 1]

FormatTurn(fmt, w) == IF w.at > Len(fmt) THEN w ELSE FormatStep(fmt, w)

(* The arguments a format makes; ok is FALSE for an invalid format (-2).   *)
FormatArguments(fmt, values) ==
  LET walk[n \in 0..Len(fmt)] == IF n = 0 THEN Walk(values) ELSE FormatTurn(fmt, walk[n - 1])
  IN Push(walk[Len(fmt)])

(* The bytes of a command.  (The length that the code computes for them    *)
(* beforehand, and asserts, is left out.)                                  *)
Encode(argv) ==
  FoldLeft(LAMBDA cmd, arg : cmd \o <<DOLLAR>> \o Decimal(Len(arg)) \o CRLF \o arg \o CRLF,
           <<STAR>> \o Decimal(Len(argv)) \o CRLF, argv)

----------------------------------------------------------------------------
(* What the Redis server reads, for the environment: the arguments of the  *)
(* first command in a buffer, and the bytes it takes; 0 for none yet.      *)
ServerBulk(s) ==
  LET end == SeekNewline(s.bytes)
      len == String2ll(SubSeq(s.bytes, 2, end - 1)).value
      used == end + 1 + len + 2
  IN IF ~s.ok \/ end = 0 \/ used > Len(s.bytes) THEN [s EXCEPT !.ok = FALSE]
     ELSE [ok |-> TRUE, bytes |-> SubSeq(s.bytes, used + 1, Len(s.bytes)),
           argv |-> Append(s.argv, SubSeq(s.bytes, end + 2, end + 1 + len))]

ServerReads(bytes) ==
  LET end == SeekNewline(bytes)
      n == IF end = 0 THEN 0 ELSE String2ll(SubSeq(bytes, 2, end - 1)).value
      start == [ok |-> end # 0, argv |-> <<>>, bytes |-> SubSeq(bytes, end + 2, Len(bytes))]
      after[k \in 0..n] == IF k = 0 THEN start ELSE ServerBulk(after[k - 1])
      read == after[n]
  IN [used |-> IF read.ok THEN Len(bytes) - Len(read.bytes) ELSE 0,
      argv |-> IF read.ok THEN read.argv ELSE <<>>]
=============================================================================
