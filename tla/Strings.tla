------------------------------- MODULE Strings -------------------------------
(***************************************************************************)
(* The string routines of the kernel (common/string.c, memory/memory.c)    *)
(* and of programs (stdlib/string.c), which are two copies that differ.    *)
(*                                                                         *)
(* A string is the sequence of its character codes up to its NUL; a        *)
(* character past the end of one reads as the NUL.                         *)
(***************************************************************************)
EXTENDS Integers, Sequences, SequencesExt

CONSTANTS
    Long                \* 2^32: the values of a long

ASSUME StringsAssumption == Long \in Nat \ {0} /\ Long % 2 = 0

NUL == 0
strlen(s) == Len(s)
At(s, i) == IF i \in DOMAIN s THEN s[i] ELSE NUL

strnlen(s, max_len) == IF Len(s) < max_len THEN Len(s) ELSE max_len
strnlen_terminator(s, max, terminator) ==
    LET stops == {i \in 1 .. max : At(s, i) \in {NUL, terminator}}
    IN  IF stops = {} THEN max ELSE (CHOOSE i \in stops : \A j \in stops : i <= j) - 1

strncpy(src, n) == Append(SubSeq(src, 1, strnlen(src, n - 1)), NUL)

\* In programs n is unsigned: one less than 0 is no bound at all.
user_strncpy(src, n) == Append(SubSeq(src, 1, strnlen(src, (n - 1) % Long)), NUL)

\* The difference of the first characters that differ, 0 when a NUL or n
\* characters come first.
Differing(s, t, n) == {i \in 1 .. n : At(s, i) # At(t, i)}
strncmp(s, t, n) ==
    IF Differing(s, t, n) = {} THEN 0
    ELSE LET i == CHOOSE i \in Differing(s, t, n) : \A j \in Differing(s, t, n) : i <= j
         IN  At(s, i) - At(t, i)

\* Mutated: the shorter string decides.
StrcmpShorter(s, t) == strncmp(s, t, IF Len(s) < Len(t) THEN Len(s) ELSE Len(t))

\* The comparison ends with the first string, wherever the second goes on.
strcmp(s, t) == strncmp(s, t, strlen(s))

tolower(c) == IF c \in 65 .. 90 THEN c + 32 ELSE c
istrncmp(s, t, n) ==
    LET differing == {i \in 1 .. n : tolower(At(s, i)) # tolower(At(t, i))}
    IN  IF differing = {} THEN 0
        ELSE LET i == CHOOSE i \in differing : \A j \in differing : i <= j
             IN  At(s, i) - At(t, i)

----------------------------------------------------------------------------
\* Numbers.  Division truncates towards zero, and a long wraps round.

Signed(n) == IF n % Long >= Long \div 2 THEN (n % Long) - Long ELSE n % Long
CQuotient(n, base) == IF n < 0 THEN -((-n) \div base) ELSE n \div base
CRemainder(n, base) == n - base * CQuotient(n, base)

Minus == 45
Digit(rem) == IF rem > 9 THEN (rem - 10) + 97 ELSE rem + 48
is_digit(c) == c \in 48 .. 57
to_numeric_digit(c) == c - 48

strrev(s) == Reverse(s)

\* The digits of num, a long, the last one first.
Digits(num, base) ==
    LET digits[n \in -Long .. Long] ==
            IF n = 0 THEN << >>
            ELSE <<Digit(CRemainder(n, base))>> \o digits[CQuotient(n, base)]
    IN  digits[num]

itoa(num, base) ==
    LET negative == num < 0 /\ base = 10
    IN  IF num = 0 THEN <<Digit(0)>>
        ELSE strrev(Digits(IF negative THEN Signed(-num) ELSE num, base)
                      \o (IF negative THEN <<Minus>> ELSE << >>))

uitoa(num, base) == IF num = 0 THEN <<Digit(0)>> ELSE strrev(Digits(num, base))

----------------------------------------------------------------------------
(* Formats.  A format is a sequence of one-character strings; what it       *)
(* prints is a sequence of pieces: a character of the format, a percent     *)
(* sign, an argument taken as a character or a string, or what itoa or      *)
(* uitoa make of it.  An argument is the place of its first word in the     *)
(* list of arguments.                                                       *)

Taken(how, words, length) == [how |-> how, words |-> words, length |-> length]

\* A letter that is none of the table's is skipped, its argument is not taken.
Skip(length) == Taken("nothing", 0, length)

\* Mutated: of a long long only one word is taken.
NarrowLongLong(c) ==
    CASE c \in {"d", "i", "u"} -> Taken("itoa 10", 1, 3)
      [] c \in {"x", "p"}      -> Taken("uitoa 16", 1, 3)
      [] c = "b"               -> Taken("uitoa 2", 1, 3)
      [] OTHER                 -> Skip(3)

\* After one l or two; a long long is two words long.
kvsprintf_ll(c) ==
    CASE c \in {"d", "i", "u"} -> Taken("itoa 10", 2, 3)
      [] c \in {"x", "p"}      -> Taken("uitoa 16", 2, 3)
      [] c = "b"               -> Taken("uitoa 2", 2, 3)
      [] OTHER                 -> Skip(3)

kvsprintf_l(c) ==
    CASE c \in {"d", "i", "u"} -> Taken("itoa 10", 1, 2)
      [] c \in {"x", "p"}      -> Taken("uitoa 16", 1, 2)
      [] c = "b"               -> Taken("uitoa 2", 1, 2)
      [] OTHER                 -> Skip(2)

vsprintf_l(c) ==
    CASE c \in {"d", "i"} -> Taken("itoa 10", 1, 2)
      [] c = "x"          -> Taken("uitoa 16", 1, 2)
      [] c = "b"          -> Taken("uitoa 2", 1, 2)
      [] OTHER            -> Skip(2)

Directive(c) ==
    CASE c = "%"          -> Taken("percent", 0, 1)
      [] c = "c"          -> Taken("char", 1, 1)
      [] c = "s"          -> Taken("string", 1, 1)
      [] c \in {"d", "i"} -> Taken("itoa 10", 1, 1)
      [] c \in {"x", "p"} -> Taken("uitoa 16", 1, 1)
      [] c = "b"          -> Taken("uitoa 2", 1, 1)
      [] OTHER            -> Skip(1)

\* The directive behind a percent sign, of the kernel and of programs.
kernel_directive(rest) ==
    CASE Head(rest) = "u" -> Taken("itoa 10", 1, 1)
      [] Head(rest) = "l" ->
            IF Len(rest) > 1 /\ rest[2] = "l"
            THEN kvsprintf_ll(IF Len(rest) > 2 THEN rest[3] ELSE "")
            ELSE kvsprintf_l(IF Len(rest) > 1 THEN rest[2] ELSE "")
      [] OTHER            -> Directive(Head(rest))

user_directive(rest) ==
    IF Head(rest) = "l" THEN vsprintf_l(IF Len(rest) > 1 THEN rest[2] ELSE "")
    ELSE Directive(Head(rest))

directive(kernel, rest) == IF kernel THEN kernel_directive(rest) ELSE user_directive(rest)

\* A format that ends within a directive is read on past its NUL.
PastEnd == <<"past the end">>

Piece(how, word) ==
    CASE how = "nothing" -> << >>
      [] how = "percent" -> <<<<"literal", "%">>>>
      [] OTHER           -> <<<<how, word>>>>

\* One turn of the loop over a format, from place i and the argument that begins at
\* word.
Turn(kernel, fmt, s) ==
    LET rest == SubSeq(fmt, s.i + 1, Len(fmt))
        taken == directive(kernel, rest)
    IN  IF s.i > Len(fmt) THEN s
        ELSE IF fmt[s.i] # "%"
        THEN [s EXCEPT !.i = @ + 1, !.out = Append(@, <<"literal", fmt[s.i]>>)]
        ELSE IF rest = << >> \/ taken.length > Len(rest)
        THEN [s EXCEPT !.i = Len(fmt) + 1, !.out = Append(@, PastEnd)]
        ELSE [i |-> s.i + 1 + taken.length, word |-> s.word + taken.words,
              out |-> s.out \o Piece(taken.how, s.word)]

Printed(kernel, fmt) ==
    LET turn[n \in 0 .. Len(fmt)] ==
            IF n = 0 THEN [i |-> 1, word |-> 1, out |-> << >>] ELSE Turn(kernel, fmt, turn[n - 1])
    IN  turn[Len(fmt)].out

kvsprintf(fmt) == Printed(TRUE, fmt)
vsprintf(fmt) == Printed(FALSE, fmt)
=============================================================================
