------------------------------ MODULE JsonScalar ------------------------------
(***************************************************************************)
(* parse_value() of utils/cJSON.c for a value that is no array or object,  *)
(* the settings the bootstrap makes of a number (int_to_string() of        *)
(* common.c), and print_string_ptr(), which writes a string back.          *)
(***************************************************************************)
EXTENDS JsonString, Integers

CONSTANTS
  NumberSize,  \* sizeof(number_c_string)
  IntMax       \* INT_MAX; INT_MIN is one more below zero

\* An int can hold 1 and has at most ten digits.
ASSUME SizesAssumption ==
  /\ NumberSize \in Nat \ {0}
  /\ IntMax \in Nat \ {0} /\ IntMax \div 1000000000 < 10

VARIABLES
  type,      \* item->type
  valueint,  \* item->valueint
  setting,   \* what int_to_string returns: its digits, and the size of their block
  printed    \* the string written back, with quotes and terminator

vars == <<stringVars, type, valueint, setting, printed>>

IntMin == -IntMax - 1
Minus == 45
Plus  == 43
Point == 46
Zero  == 48
LetterE == {69, 101}
Decimal == Zero .. Zero + 9

NoSetting == [digits |-> <<>>, size |-> 0]

Init ==
  /\ StringInit
  /\ type = "none" /\ valueint = 0 /\ setting = NoSetting /\ printed = <<>>

-----------------------------------------------------------------------------
(* Numbers *)

\* How many elements of s from place i on are in S.
Span(s, i, S) ==
  CHOOSE n \in 0 .. Len(s) - i + 1 :
    /\ \A k \in i .. i + n - 1 : s[k] \in S
    /\ i + n > Len(s) \/ s[i + n] \notin S

IsAt(s, i, S) == i <= Len(s) /\ s[i] \in S

\* The value of decimal digits, at most top, and whether it is more than that.
Saturated(digits, top) ==
  LET V[n \in 0 .. Len(digits)] ==
        IF n = 0 THEN [value |-> 0, more |-> FALSE]
        ELSE LET d == digits[n] - Zero
                 head == V[n - 1]
             IN IF head.more \/ head.value > (top - d) \div 10 THEN [value |-> top, more |-> TRUE]
                ELSE [value |-> 10 * head.value + d, more |-> FALSE]
  IN V[Len(digits)]

\* strtod: the length of the longest prefix that is a number, its digits, and the
\* place of the decimal point among them.  An exponent beyond 99 moves it out of sight of
\* NumberSize digits as well as 99 does.  Rounding to a double is left out.
Strtod(s) ==
  LET sign  == IF IsAt(s, 1, {Minus, Plus}) THEN 1 ELSE 0
      whole == Span(s, sign + 1, Decimal)
      point == IF IsAt(s, sign + whole + 1, {Point}) THEN 1 ELSE 0
      frac  == IF point = 1 THEN Span(s, sign + whole + 2, Decimal) ELSE 0
      base  == sign + whole + point + frac
      esign == IF IsAt(s, base + 2, {Minus, Plus}) THEN 1 ELSE 0
      edigs == IF IsAt(s, base + 1, LetterE) THEN Span(s, base + 2 + esign, Decimal) ELSE 0
      power == Saturated(SubSeq(s, base + 2 + esign, base + 1 + esign + edigs), 99).value
  IN [length   |-> IF whole + frac = 0 THEN 0 ELSE IF edigs = 0 THEN base ELSE base + 1 + esign + edigs,
      negative |-> IsAt(s, 1, {Minus}),
      digits   |-> SubSeq(s, sign + 1, sign + whole) \o SubSeq(s, sign + whole + point + 1, base),
      point    |-> whole + (IF edigs = 0 THEN 0 ELSE IF IsAt(s, base + 2, {Minus}) THEN -power ELSE power)]

\* (int)number, or the end of the range it is beyond.
Truncated(number) ==
  LET whole == IF number.point > 0 THEN number.point ELSE 0
      size == Saturated([i \in 1 .. whole |->
                           IF i <= Len(number.digits) THEN number.digits[i] ELSE Zero], IntMax)
  IN IF ~number.negative THEN size.value ELSE IF size.more THEN IntMin ELSE -size.value

NumberBytes == Decimal \cup {Minus, Plus, Point} \cup LetterE

\* Mutant: values beyond the range wrap around instead of being clamped.
ParseNumberWrapped ==
  LET run    == Span(text, 1, NumberBytes)
      number == Strtod(SubSeq(text, 1, IF run < NumberSize THEN run ELSE NumberSize - 1))
  IN /\ at = "value" /\ Byte(0) \in Decimal \cup {Minus}
     /\ IF number.length = 0 THEN at' = "failed" /\ UNCHANGED <<type, valueint, offset>>
        ELSE /\ type' = "number"
             /\ valueint' = IF Truncated(number) = IntMax THEN IntMin ELSE Truncated(number)
             /\ offset' = number.length /\ at' = "parsed"
     /\ UNCHANGED <<text, input_end, input_pointer, skipped_bytes, allocated, output, setting, printed>>

ParseNumber ==
  LET run    == Span(text, 1, NumberBytes)
      number == Strtod(SubSeq(text, 1, IF run < NumberSize THEN run ELSE NumberSize - 1))
  IN /\ at = "value" /\ Byte(0) \in Decimal \cup {Minus}
     /\ IF number.length = 0 THEN at' = "failed" /\ UNCHANGED <<type, valueint, offset>>
        ELSE /\ type' = "number" /\ valueint' = Truncated(number)
             /\ offset' = number.length /\ at' = "parsed"
     /\ UNCHANGED <<text, input_end, input_pointer, skipped_bytes, allocated, output, setting, printed>>

-----------------------------------------------------------------------------
(* The other values *)

Word ==
  [null |-> <<110, 117, 108, 108>>, false |-> <<102, 97, 108, 115, 101>>, true |-> <<116, 114, 117, 101>>]

Starts(w) == Len(Word[w]) <= Length /\ SubSeq(text, 1, Len(Word[w])) = Word[w]

ParseWord(w) ==
  /\ at = "value" /\ Starts(w)
  /\ type' = w /\ valueint' = IF w = "true" THEN 1 ELSE 0
  /\ offset' = Len(Word[w]) /\ at' = "parsed"
  /\ UNCHANGED <<text, input_end, input_pointer, skipped_bytes, allocated, output, setting, printed>>

StartString ==
  /\ at = "value" /\ Byte(0) = Quote
  /\ at' = "scan"
  /\ UNCHANGED <<text, input_end, input_pointer, skipped_bytes, allocated, output, offset, type, valueint,
                 setting, printed>>

NoValue ==
  /\ at = "value" /\ Byte(0) \notin Decimal \cup {Minus, Quote}
  /\ ~\E w \in DOMAIN Word : Starts(w)
  /\ at' = "failed"
  /\ UNCHANGED <<text, input_end, input_pointer, skipped_bytes, allocated, output, offset, type, valueint,
                 setting, printed>>

StringStep ==
  /\ ParseString
  /\ type' = IF at' = "parsed" THEN "string" ELSE type
  /\ UNCHANGED <<valueint, setting, printed>>

-----------------------------------------------------------------------------
(* What becomes of a parsed value *)

\* The number of digits that repeated division finds, none in 0.
DigitCount(n) ==
  LET C[k \in 0 .. 10] == IF k = 0 THEN n ELSE C[k - 1] \div 10
  IN CHOOSE k \in 0 .. 10 : C[k] = 0 /\ \A j \in 0 .. k - 1 : C[j] # 0

\* sprintf("%d", n)
Formatted(n) ==
  LET count == IF n = 0 THEN 1 ELSE DigitCount(n)
      Rest[k \in 0 .. count] == IF k = 0 THEN n ELSE Rest[k - 1] \div 10
  IN [i \in 1 .. count |-> Zero + (Rest[count - i] % 10)]

\* int_to_string
IntToString ==
  /\ at = "parsed" /\ type = "number"
  /\ IF valueint < 0 THEN at' = "fatal" /\ UNCHANGED setting
     ELSE /\ setting' = [digits |-> Formatted(valueint), size |-> DigitCount(valueint) + 1]
          /\ at' = "set"
  /\ UNCHANGED <<stringRest, type, valueint, printed>>

ShortEscape ==
  [b \in {8, 9, 10, 12, 13} |->
     CASE b = 8 -> 98 [] b = 9 -> 116 [] b = 10 -> 110 [] b = 12 -> 102 [] b = 13 -> 114]

\* Mutant: a control character counts like an escaped quote.
ExtraShort(b) == IF b \in {Quote, Backslash} \/ b < 32 THEN 1 ELSE 0

\* The bytes the first pass adds for the escape of b.
Extra(b) == IF b \in {Quote, Backslash} \cup DOMAIN ShortEscape THEN 1 ELSE IF b < 32 THEN 5 ELSE 0

Hex(n) == IF n < 10 THEN Zero + n ELSE 87 + n

\* The bytes the second pass writes for b.
Written(b) ==
  IF b > 31 /\ b \notin {Quote, Backslash} THEN <<b>>
  ELSE IF b \in {Quote, Backslash} THEN <<Backslash, b>>
  ELSE IF b \in DOMAIN ShortEscape THEN <<Backslash, ShortEscape[b]>>
  ELSE <<Backslash, LetterU, Zero, Zero, Hex(b \div 16), Hex(b % 16)>>

\* The string ends at its first NUL, which a literal may spell.
CString(bytes) == SubSeq(bytes, 1, Span(bytes, 1, 1 .. 255))

\* print_string_ptr: the closing quote goes where the first pass counted it to be.
PrintString ==
  LET input == CString(output)
      Count[n \in 0 .. Len(input)] == IF n = 0 THEN 0 ELSE Count[n - 1] + 1 + Extra(input[n])
      Body[n \in 0 .. Len(input)] == IF n = 0 THEN <<Quote>> ELSE Body[n - 1] \o Written(input[n])
      length == Count[Len(input)]
      body   == Body[Len(input)]
  IN /\ at = "parsed" /\ type = "string"
     /\ printed' = [i \in 1 .. length + 3 |-> IF i = length + 2 THEN Quote
                                              ELSE IF i = length + 3 THEN NUL
                                              ELSE IF i <= Len(body) THEN body[i] ELSE NUL]
     /\ at' = "printed"
     /\ UNCHANGED <<stringRest, type, valueint, setting>>

Next ==
  \/ \E w \in DOMAIN Word : ParseWord(w)
  \/ StartString \/ StringStep \/ ParseNumber \/ NoValue
  \/ IntToString \/ PrintString

Spec == Init /\ [][Next]_vars

=============================================================================
