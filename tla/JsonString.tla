------------------------------ MODULE JsonString ------------------------------
(***************************************************************************)
(* parse_string() of utils/cJSON.c, byte by byte: a first pass finds the   *)
(* closing quote and bounds the size of the result, a second one copies    *)
(* the bytes, unescapes them and turns UTF-16 into UTF-8.  Bytes are their *)
(* ASCII codes.                                                            *)
(***************************************************************************)
EXTENDS Naturals, Sequences

CONSTANTS
  Texts,  \* the texts of values that are no array or object, without the terminator
  Faults  \* subset of {"malloc"}

\* No byte of a text is the terminator.
ASSUME BytesAssumption == \A t \in Texts : t \in Seq(1 .. 255)

Quote     == 34
Backslash == 92
Slash     == 47
LetterU   == 117
NUL       == 0

VARIABLES
  text,           \* the bytes of the buffer, for a string the opening quote first
  input_end,      \* index of the byte the first pass is at
  input_pointer,  \* index of the byte the second pass is at
  skipped_bytes,
  allocated,      \* size of output, 0 before it is allocated and after it is freed
  output,         \* the bytes written to it
  offset,         \* buffer.offset
  at

stringRest == <<text, input_end, input_pointer, skipped_bytes, allocated, output, offset>>
stringVars == <<stringRest, at>>

\* buffer.length, and a byte by its index from 0.
Length == Len(text)
Byte(i) == text[i + 1]

StringInit ==
  /\ \E t \in Texts : text = t \o <<NUL>>
  /\ input_end = 1 /\ input_pointer = 1 /\ skipped_bytes = 0
  /\ allocated = 0 /\ output = <<>> /\ offset = 0
  /\ at = "value"

-----------------------------------------------------------------------------
(* UTF-16 to UTF-8 *)

Digits == (48 .. 57) \cup (65 .. 70) \cup (97 .. 102)

Digit(b) == IF b \in 48 .. 57 THEN b - 48 ELSE IF b \in 65 .. 70 THEN b - 55 ELSE b - 87

\* parse_hex4 at index i: 0 if a byte is no digit.
Hex4(i) ==
  IF \A k \in 0 .. 3 : Byte(i + k) \in Digits
  THEN 4096 * Digit(Byte(i)) + 256 * Digit(Byte(i + 1)) + 16 * Digit(Byte(i + 2)) + Digit(Byte(i + 3))
  ELSE 0

High(code) == code \in 55296 .. 56319   \* 0xD800 .. 0xDBFF
Low(code)  == code \in 56320 .. 57343   \* 0xDC00 .. 0xDFFF

\* The result of utf16_literal_to_utf8 at index i: the bytes it reads, none if it
\* fails, and the code point.
Literal(i) ==
  LET first  == Hex4(i + 2)
      second == Hex4(i + 8)
      failed == [length |-> 0, codepoint |-> 0]
  IN IF input_end - i < 6 \/ (input_end - i >= 6 /\ Low(first)) THEN failed
     ELSE IF ~High(first) THEN [length |-> 6, codepoint |-> first]
     ELSE IF input_end - (i + 6) < 6 THEN failed
     ELSE IF Byte(i + 6) # Backslash \/ Byte(i + 7) # LetterU \/ ~Low(second) THEN failed
     ELSE [length |-> 12, codepoint |-> 65536 + 1024 * (first % 1024) + (second % 1024)]

Utf8Length(codepoint) ==
  IF codepoint < 128 THEN 1 ELSE IF codepoint < 2048 THEN 2 ELSE IF codepoint < 65536 THEN 3 ELSE 4

FirstByteMark == <<0, 192, 224, 240>>

\* Mutant: the mark of the first byte is one entry off.
Utf8Shifted(codepoint) ==
  LET n == Utf8Length(codepoint)
      rest[k \in 0 .. n] == IF k = 0 THEN codepoint ELSE rest[k - 1] \div 64
  IN [p \in 1 .. n |-> IF p > 1 THEN 128 + (rest[n - p] % 64)
                       ELSE IF n > 1 THEN (FirstByteMark[n - 1] + rest[n - 1]) % 256 ELSE codepoint]

\* Mutant: the bytes after the first are not masked.
Utf8Unmasked(codepoint) ==
  LET n == Utf8Length(codepoint)
      rest[k \in 0 .. n] == IF k = 0 THEN codepoint ELSE rest[k - 1] \div 64
  IN [p \in 1 .. n |-> IF p > 1 THEN 128 + rest[n - p]
                       ELSE IF n > 1 THEN (FirstByteMark[n] + rest[n - 1]) % 256 ELSE codepoint]

\* Six bits at a time from the last byte; the mark of the length in the first.
Utf8(codepoint) ==
  LET n == Utf8Length(codepoint)
      rest[k \in 0 .. n] == IF k = 0 THEN codepoint ELSE rest[k - 1] \div 64
  IN [p \in 1 .. n |-> IF p > 1 THEN 128 + (rest[n - p] % 64)
                       ELSE IF n > 1 THEN (FirstByteMark[n] + rest[n - 1]) % 256 ELSE codepoint]

-----------------------------------------------------------------------------
(* The first pass *)

Scan ==
  /\ at = "scan" /\ input_end < Length /\ Byte(input_end) # Quote
  /\ IF Byte(input_end) # Backslash
     THEN input_end' = input_end + 1 /\ UNCHANGED <<skipped_bytes, at>>
     ELSE IF input_end + 1 >= Length
     THEN at' = "fail" /\ UNCHANGED <<input_end, skipped_bytes>>
     ELSE input_end' = input_end + 2 /\ skipped_bytes' = skipped_bytes + 1 /\ UNCHANGED at
  /\ UNCHANGED <<text, input_pointer, allocated, output, offset>>

Unterminated ==
  /\ at = "scan" /\ input_end >= Length
  /\ at' = "fail"
  /\ UNCHANGED <<text, input_end, input_pointer, skipped_bytes, allocated, output, offset>>

\* Mutant: the escaped bytes are left out as well.
AllocateLess ==
  /\ at = "scan" /\ input_end < Length /\ Byte(input_end) = Quote
  /\ allocated' = input_end - 2 * skipped_bytes + 1
  /\ at' = "copy"
  /\ UNCHANGED <<text, input_end, input_pointer, skipped_bytes, output, offset>>

\* The distance to the opening quote at index 0, less the backslashes, and a byte
\* for the terminator.
Allocate ==
  /\ at = "scan" /\ input_end < Length /\ Byte(input_end) = Quote
  /\ allocated' = input_end - skipped_bytes + 1
  /\ at' = "copy"
  /\ UNCHANGED <<text, input_end, input_pointer, skipped_bytes, output, offset>>

OutOfMemory ==
  /\ "malloc" \in Faults
  /\ at = "scan" /\ input_end < Length /\ Byte(input_end) = Quote
  /\ offset' = input_pointer /\ at' = "starved"
  /\ UNCHANGED <<text, input_end, input_pointer, skipped_bytes, allocated, output>>

-----------------------------------------------------------------------------
(* The second pass *)

Copy ==
  /\ at = "copy" /\ input_pointer < input_end /\ Byte(input_pointer) # Backslash
  /\ output' = Append(output, Byte(input_pointer))
  /\ input_pointer' = input_pointer + 1
  /\ UNCHANGED <<text, input_end, skipped_bytes, allocated, offset, at>>

\* What follows a backslash, and the byte it stands for.
Escapes ==
  [b \in {98, 102, 110, 114, 116} |->   \* b f n r t
     CASE b = 98 -> 8 [] b = 102 -> 12 [] b = 110 -> 10 [] b = 114 -> 13 [] b = 116 -> 9]
Itself  == {Quote, Backslash, Slash}

\* The escaped byte is the next one, which may be the closing quote: the check
\* before it asks for one byte, not two.
CopyEscape ==
  LET b == Byte(input_pointer + 1)
  IN /\ at = "copy" /\ input_pointer < input_end /\ Byte(input_pointer) = Backslash
     /\ b \in DOMAIN Escapes \cup Itself
     /\ output' = Append(output, IF b \in Itself THEN b ELSE Escapes[b])
     /\ input_pointer' = input_pointer + 2
     /\ UNCHANGED <<text, input_end, skipped_bytes, allocated, offset, at>>

CopyUnicode ==
  LET literal == Literal(input_pointer)
  IN /\ at = "copy" /\ input_pointer < input_end /\ Byte(input_pointer) = Backslash
     /\ Byte(input_pointer + 1) = LetterU
     /\ IF literal.length = 0 THEN at' = "fail" /\ UNCHANGED <<output, input_pointer>>
        ELSE /\ output' = output \o Utf8(literal.codepoint)
             /\ input_pointer' = input_pointer + literal.length
             /\ UNCHANGED at
     /\ UNCHANGED <<text, input_end, skipped_bytes, allocated, offset>>

UnknownEscape ==
  /\ at = "copy" /\ input_pointer < input_end /\ Byte(input_pointer) = Backslash
  /\ Byte(input_pointer + 1) \notin DOMAIN Escapes \cup Itself \cup {LetterU}
  /\ at' = "fail"
  /\ UNCHANGED <<text, input_end, input_pointer, skipped_bytes, allocated, output, offset>>

Terminate ==
  /\ at = "copy" /\ input_pointer >= input_end
  /\ output' = Append(output, NUL)
  /\ offset' = input_end + 1
  /\ at' = "parsed"
  /\ UNCHANGED <<text, input_end, input_pointer, skipped_bytes, allocated>>

Fail ==
  /\ at = "fail"
  /\ allocated' = 0 /\ output' = <<>>
  /\ offset' = input_pointer /\ at' = "failed"
  /\ UNCHANGED <<text, input_end, input_pointer, skipped_bytes>>

ParseString ==
  \/ Scan \/ Unterminated \/ Allocate \/ OutOfMemory
  \/ Copy \/ CopyEscape \/ CopyUnicode \/ UnknownEscape \/ Terminate
  \/ Fail

=============================================================================
