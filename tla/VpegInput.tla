------------------------------ MODULE VpegInput ------------------------------
(***************************************************************************)
(* The text that a parser reads (compiler/stage0/vpeg_context.cpp): bytes   *)
(* become characters as they are asked for, lines are counted on the way,   *)
(* and caught strings become bytes again.  A character is its code point.   *)
(***************************************************************************)
EXTENDS Integers, Sequences, FiniteSets, TLC

CR == 13
LF == 10
SPACE == 32
EndOfText == -1          \* char32_t(-1)

-----------------------------------------------------------------------------
(* Reading.                                                                 *)

\* newlines maps the position where a line begins to the lines before it.
AtStart(bytes) ==
    [rest |-> bytes, buffer |-> <<>>, newlines |-> 0 :> 0, cr_flag |-> FALSE, current_line |-> 1]

\* The bits of the first byte, and how many bytes follow it.
LeadBits(c0) == IF c0 < 192 THEN c0 ELSE IF c0 < 224 THEN c0 % 32 ELSE IF c0 < 240 THEN c0 % 16 ELSE c0 % 8
Following(c0) == IF c0 < 192 THEN 0 ELSE IF c0 < 224 THEN 1 ELSE IF c0 < 240 THEN 2 ELSE 3

\* fgetc_fun as a byte; EOF is 255.
ByteAt(bytes, k) == IF k \in DOMAIN bytes THEN bytes[k] ELSE 255

CodePoint(bytes) ==
    LET bits[n \in 0 .. 3] ==
            IF n = 0 THEN LeadBits(bytes[1]) ELSE 64 * bits[n - 1] + (ByteAt(bytes, n + 1) % 64)
    IN  bits[Following(bytes[1])]

\* Mutant of CountLines: a line feed leaves the mark of a carriage return.
CountLines_MarkStays(r, c) ==
    IF c = LF
    THEN [r EXCEPT !.newlines = (Len(r.buffer) + 1 :> r.current_line) @@ @, !.current_line = @ + 1]
    ELSE IF r.cr_flag
    THEN [r EXCEPT !.newlines = (Len(r.buffer) :> r.current_line) @@ @, !.current_line = @ + 1,
                   !.cr_flag = (c = CR)]
    ELSE [r EXCEPT !.cr_flag = (c = CR)]

\* A line begins after a line feed, and after a carriage return that none
\* follows, which is known when the next character has been read.
CountLines(r, c) ==
    IF c = LF
    THEN [r EXCEPT !.newlines = (Len(r.buffer) + 1 :> r.current_line) @@ @, !.current_line = @ + 1,
                   !.cr_flag = FALSE]
    ELSE IF r.cr_flag
    THEN [r EXCEPT !.newlines = (Len(r.buffer) :> r.current_line) @@ @, !.current_line = @ + 1,
                   !.cr_flag = (c = CR)]
    ELSE [r EXCEPT !.cr_flag = (c = CR)]

\* peek_character with read_character.
read_character(r) ==
    IF r.rest = <<>> THEN [r EXCEPT !.buffer = Append(@, EndOfText)]
    ELSE LET c == CodePoint(r.rest)
             after == 2 + Following(r.rest[1])
         IN  [CountLines(r, c) EXCEPT !.buffer = Append(@, c),
                                      !.rest = SubSeq(@, after, Len(@))]

\* What has been read when n characters were asked for.
HavingRead(bytes, n) ==
    LET read[k \in 0 .. n] == IF k = 0 THEN AtStart(bytes) ELSE read_character(read[k - 1])
    IN  read[n]

\* The line and column of a position, from 1.
get_line_column(r, pos) ==
    LET begun == {p \in DOMAIN r.newlines : p <= pos}
        lpos == CHOOSE p \in begun : \A q \in begun : q <= p
    IN  <<r.newlines[lpos] + 1, pos - lpos + 1>>

-----------------------------------------------------------------------------
(* Caught strings.                                                          *)

\* The bytes of a character: n of them follow the first, six bits in each.
Encoded(c) ==
    LET n == IF c <= 127 THEN 0 ELSE IF c <= 2047 THEN 1 ELSE IF c <= 65535 THEN 2 ELSE 3
        first == IF n = 0 THEN c ELSE ((30 * 2 ^ (6 - n)) % 256) + ((c \div 64 ^ n) % 2 ^ (6 - n))
    IN  <<first>> \o [j \in 1 .. n |-> 128 + ((c \div 64 ^ (n - j)) % 64)]

\* Mutant of SizeOf: the last character of two bytes is counted as one of three.
SizeOf_Below(c) ==
    IF c <= 2047 - 1 THEN (IF c <= 127 THEN 1 ELSE 2) ELSE (IF c <= 65535 THEN 3 ELSE 4)

\* The bytes that the string is made with for a character, before any is written.
SizeOf(c) == IF c <= 2047 THEN (IF c <= 127 THEN 1 ELSE 2) ELSE (IF c <= 65535 THEN 3 ELSE 4)

\* One loop finds the length of the string, which is made of spaces, the other
\* writes the bytes: with fewer than that spaces stay behind, with more the rest
\* is written past its end.
take_string(r, from, to) ==
    LET len[k \in from .. to] ==
            IF k = from THEN 0 ELSE len[k - 1] + SizeOf(r.buffer[k])
        bytes[k \in from .. to] ==
            IF k = from THEN <<>> ELSE bytes[k - 1] \o Encoded(r.buffer[k])
    IN  [i \in 1 .. len[to] |-> IF i \in DOMAIN bytes[to] THEN bytes[to][i] ELSE SPACE]

-----------------------------------------------------------------------------
(* What a text is, whoever reads it.                                        *)

\* UTF-8, as in RFC 3629.
Utf8Char(c) ==
    CASE c \in 0 .. 127 -> <<c>>
      [] c \in 128 .. 2047 -> <<192 + (c \div 64), 128 + (c % 64)>>
      [] c \in 2048 .. 65535 -> <<224 + (c \div 4096), 128 + ((c \div 64) % 64), 128 + (c % 64)>>
      [] c \in 65536 .. 1114111 ->
            <<240 + (c \div 262144), 128 + ((c \div 4096) % 64), 128 + ((c \div 64) % 64), 128 + (c % 64)>>

Utf8(text) ==
    LET bytes[k \in 0 .. Len(text)] == IF k = 0 THEN <<>> ELSE bytes[k - 1] \o Utf8Char(text[k])
    IN  bytes[Len(text)]

\* The lines that end before a position: with LF, CR or both.
LineEnds(text, pos) ==
    {q \in 1 .. pos : text[q] = LF \/ (text[q] = CR /\ (q = Len(text) \/ text[q + 1] # LF))}

PlaceOf(text, pos) ==
    LET ends == LineEnds(text, pos)
        last == CHOOSE q \in ends \cup {0} : \A p \in ends : p <= q
    IN  <<Cardinality(ends) + 1, pos - last + 1>>

\* However far a text has been read: the characters are those that were
\* written, what is caught comes back as it was written, and every character
\* that was read is at the line and column where an editor would show it.
ReadAsWritten(text) ==
    \A n \in 0 .. Len(text) :
        LET r == HavingRead(Utf8(text), n)
        IN  /\ r.buffer = SubSeq(text, 1, n)
            /\ \A k \in 0 .. n : take_string(r, k, n) = Utf8(SubSeq(text, k + 1, n))
            /\ \A pos \in 0 .. n - 1 : get_line_column(r, pos) = PlaceOf(text, pos)
=============================================================================
