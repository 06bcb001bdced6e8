---------------------------- MODULE DebugPrintf ----------------------------
(***************************************************************************)
(* The formatted output of debug.c as functions.  A text is a sequence of  *)
(* characters; a uint32_t or int32_t is a number below Word.               *)
(*                                                                         *)
(* A definition marked "Fault" is a wrong version of one further down; the *)
(* specification does not use it.                                          *)
(***************************************************************************)
EXTENDS Integers, Sequences, SequencesExt

CONSTANTS
    Word,       \* 2^32
    BufLen      \* sizeof(buf)
ASSUME FormatAssumption ==
    Word \in Nat \ {0} /\ Word % 2 = 0 /\ BufLen \in Nat /\ BufLen > 2

(* The buffer has a place for every binary digit: the largest number has    *)
(* been halved to zero when it is full.                                     *)
ASSUME RoomAssumption ==
    LET halved[k \in 0 .. BufLen - 1] ==
            IF k = 0 THEN Word - 1 ELSE halved[k - 1] \div 2
    IN  halved[BufLen - 1] = 0

Map == <<"0", "1", "2", "3", "4", "5", "6", "7", "8", "9",
         "a", "b", "c", "d", "e", "f">>
Numerals == {Map[k] : k \in 1 .. 10}
Digit(c) == (CHOOSE k \in 1 .. 16 : Map[k] = c) - 1

(* Fault: the loop tests before it converts.                                *)
StopsAtZero(value, radix, room, map) ==
    LET digits[v \in Nat, r \in Nat] ==
            IF v = 0 \/ r = 0 THEN <<>>
            ELSE Append(digits[v \div radix, r - 1], map[v % radix])
    IN  digits[value, room]

(* The least significant digit first, from the end of the buffer; `room':   *)
(* characters before it.  digits[r] converts when r of them are left.       *)
Digits(value, radix, room, map) ==
    LET digits[r \in 1 .. room] ==
            [v \in Nat |->
                IF v \div radix = 0 \/ r = 1 THEN <<map[v % radix]>>
                ELSE Append(digits[r - 1][v \div radix], map[v % radix])]
    IN  digits[room][value]

Characters == [d \in 0 .. 15 |-> Map[d + 1]]
format32_unsigned(value, radix) == Digits(value, radix, BufLen - 1, Characters)

MostNegative == Word \div 2
Signed(value) == IF value < MostNegative THEN value ELSE value - Word

(* The negation of the most negative number overflows.  When it wraps, the  *)
(* remainders are negative and the table is read before its beginning;      *)
(* otherwise the compiler has relied on there being no overflow and the     *)
(* digits are right.                                                        *)
Outside == [d \in 0 .. 15 |-> IF d = 0 THEN "0" ELSE "?"]
format32_signed(value, radix, wraps) ==
    IF Signed(value) >= 0 THEN format32_unsigned(value, radix)
    ELSE LET map == IF value = MostNegative /\ wraps THEN Outside ELSE Characters
             text == Digits(-Signed(value), radix, BufLen - 1, map)
         IN  IF Len(text) < BufLen - 1 THEN <<"-">> \o text ELSE text
----------------------------------------------------------------------------
(* debug_printf, one character of the format after the other.               *)

(* What a conversion prints.  (%X prints like %x here: case is layout.)     *)
Converted(c, args, wraps) ==
    CASE c = "%" -> <<"%">>
      [] c = "b" -> format32_unsigned(Head(args), 2)
      [] c \in {"x", "X", "p"} -> format32_unsigned(Head(args), 16)
      [] c = "u" -> format32_unsigned(Head(args), 10)
      [] c = "d" -> format32_signed(Head(args), 10, wraps)
      [] c = "c" -> <<Head(args)>>
      [] c = "s" -> Head(args)
      [] OTHER -> <<>>

(* The width it is padded to.                                               *)
Width(st, c) ==
    CASE c = "p" -> 8
      [] c \in {"b", "x", "X", "d", "u"} -> st.numpad
      [] OTHER -> 0

Padding(n, c) == [k \in 1 .. n |-> c]

Convert(st, c, wraps) ==
    LET text == Converted(c, st.args, wraps)
        charpad == IF c = "p" THEN "0" ELSE st.charpad
        pads == Width(st, c) - Len(text)
    IN  [state |-> "copy", charpad |-> charpad, numpad |-> 0,
         args |-> IF c \in {"b", "x", "X", "p", "u", "d", "c", "s"}
                  THEN Tail(st.args) ELSE st.args,
         out |-> st.out \o Padding(IF pads > 0 THEN pads ELSE 0, charpad) \o text]

Step(st, c, wraps) ==
    CASE st.state = "copy" /\ c = "%" ->
            [st EXCEPT !.state = "format", !.numpad = 0]
      [] st.state = "copy" /\ c # "%" ->
            [st EXCEPT !.out = Append(@, c)]
      [] st.state = "format" /\ c \in {" ", "0"} ->
            [st EXCEPT !.state = "padding", !.charpad = c]
      [] st.state = "padding" /\ c \in Numerals ->
            [st EXCEPT !.numpad = @ * 10 + Digit(c)]
      [] OTHER -> Convert(st, c, wraps)

debug_printf(fmt, args, wraps) ==
    LET step(st, c) == Step(st, c, wraps)
    IN  FoldLeft(step, [state |-> "copy", charpad |-> " ", numpad |-> 0,
                        args |-> args, out |-> <<>>], fmt).out
----------------------------------------------------------------------------
(* What a printed number says: its characters, each worth its place.        *)

NumberIn(text, radix) ==
    LET add(n, c) == n * radix + Digit(c)
    IN  FoldLeft(add, 0, text)

SignedNumberIn(text, radix) ==
    IF Head(text) = "-" THEN -NumberIn(Tail(text), radix) ELSE NumberIn(text, radix)
============================================================================
