-------------------------------- MODULE Calls --------------------------------
(***************************************************************************)
(* The string routines, called one after another, and what their callers   *)
(* go by: comparisons, copies, numbers and formats.                        *)
(***************************************************************************)
EXTENDS Strings

CONSTANTS
    Sample,             \* the strings that are compared and copied
    Bound,              \* how many characters of them
    Terminator,
    Number, Base,       \* the numbers that are printed, and in which bases
    Literal,            \* the characters of a format that print themselves
    Formats             \* what is printed: sequences of directives

\* What a format may be made of, and how a reader of it takes it: each directive with
\* its text, the words of its argument and the conversion.
Plain == {[text |-> <<c>>, words |-> 0, how |-> "literal"] : c \in Literal}

Percent(letters, words, how) ==
    {[text |-> <<"%">> \o l, words |-> words, how |-> how] : l \in letters}

\* What both know, and what only the kernel does.
Known ==
    Plain \cup Percent({<<"%">>}, 0, "percent")
          \cup Percent({<<"s">>}, 1, "string")
          \cup Percent({<<"c">>}, 1, "char")
          \cup Percent({<<"d">>, <<"i">>, <<"l", "d">>, <<"l", "i">>}, 1, "itoa 10")
          \cup Percent({<<"x">>, <<"p">>, <<"l", "x">>}, 1, "uitoa 16")
          \cup Percent({<<"b">>, <<"l", "b">>}, 1, "uitoa 2")
KernelOnly ==
    Percent({<<"u">>, <<"l", "u">>}, 1, "unsigned")
        \cup Percent({<<"l", "p">>}, 1, "uitoa 16")
        \cup Percent({<<"l", "l", "d">>, <<"l", "l", "i">>}, 2, "itoa 10")
        \cup Percent({<<"l", "l", "u">>}, 2, "unsigned")
        \cup Percent({<<"l", "l", "x">>, <<"l", "l", "p">>}, 2, "uitoa 16")
        \cup Percent({<<"l", "l", "b">>}, 2, "uitoa 2")

ASSUME CallsAssumption ==
    /\ Sample \subseteq Seq(Nat \ {NUL}) /\ Bound \subseteq 0 .. (Long - 1) /\ Terminator \in Nat
    /\ Number \subseteq Int /\ Base \subseteq 2 .. 36
    /\ "%" \notin Literal
    /\ Formats \subseteq Seq(Known \cup KernelOnly)

VARIABLE call           \* the routine, its arguments and results

Idle == [op |-> "none"]

----------------------------------------------------------------------------
\* The text of a sequence of directives.
Spelled(tokens) ==
    LET text[n \in 0 .. Len(tokens)] == IF n = 0 THEN << >> ELSE text[n - 1] \o tokens[n].text
    IN  text[Len(tokens)]

Convert ==
    \E n \in Number, base \in Base :
        call' = [op |-> "convert", n |-> n, base |-> base,
                 itoa |-> itoa(Signed(n), base), uitoa |-> uitoa(n % Long, base)]

Compare ==
    \E s \in Sample, t \in Sample, n \in Bound :
        call' = [op |-> "compare", s |-> s, t |-> t, n |-> n,
                 strncmp |-> strncmp(s, t, n), istrncmp |-> istrncmp(s, t, n),
                 strcmp |-> strcmp(s, t)]

Copy ==
    \E s \in Sample, n \in Bound \ {0} :
        call' = [op |-> "copy", s |-> s, n |-> n,
                 strncpy |-> strncpy(s, n), user_strncpy |-> user_strncpy(s, n),
                 strnlen_terminator |-> strnlen_terminator(s, n, Terminator)]

Print_ ==
    \E tokens \in Formats :
        call' = [op |-> "print", tokens |-> tokens,
                 kvsprintf |-> kvsprintf(Spelled(tokens)), vsprintf |-> vsprintf(Spelled(tokens))]

CallsInit == call = Idle
Ask == call = Idle /\ (Convert \/ Compare \/ Copy \/ Print_)
Return == call # Idle /\ call' = Idle
CallsNext == Ask \/ Return
CallsSpec == CallsInit /\ [][CallsNext]_call

----------------------------------------------------------------------------
\* The routine that stands for a conversion: there is none that is unsigned in base
\* ten, and the signed one agrees with it below half of a long only (NumbersReadBack).
Conversion(how) == IF how = "unsigned" THEN "itoa 10" ELSE how

\* What a reader of the format expects: each directive with its own argument.
WordsBefore(tokens, i) ==
    LET words[n \in 0 .. Len(tokens)] == IF n = 0 THEN 0 ELSE words[n - 1] + tokens[n].words
    IN  words[i - 1]
Meant(tokens, i) ==
    CASE tokens[i].how = "literal" -> <<"literal", tokens[i].text[1]>>
      [] tokens[i].how = "percent" -> <<"literal", "%">>
      [] OTHER -> <<Conversion(tokens[i].how), WordsBefore(tokens, i) + 1>>
Expected(tokens) == [i \in 1 .. Len(tokens) |-> Meant(tokens, i)]

\* Each directive is printed with its own argument: by the kernel, however wide the
\* ones before it are, and by a program up to the first that only the kernel knows,
\* which leaves its argument to the next one.
FormatAgrees(c) ==
    /\ c.kvsprintf = Expected(c.tokens)
    /\ \A n \in DOMAIN c.tokens :
          (\A i \in 1 .. n : c.tokens[i] \in Known) =>
              SubSeq(c.vsprintf, 1, n) = SubSeq(Expected(c.tokens), 1, n)

First_(s, n) == SubSeq(s, 1, strnlen(s, n))
Lower(s) == [i \in DOMAIN s |-> tolower(s[i])]

\* The order of a dictionary.
Precedes(s, t) ==
    \E k \in 1 .. Len(t) :
        /\ k - 1 <= Len(s)
        /\ \A i \in 1 .. (k - 1) : s[i] = t[i]
        /\ k <= Len(s) => s[k] < t[k]

\* Comparisons have the sign of the dictionary's order of the first n characters, or
\* are zero only for what differs in the case of letters; strcmp has that of the whole
\* strings, unless the second one goes on where the first has ended (ZeroMeansEqual).
ComparisonsOrdered(c) ==
    LET s == First_(c.s, c.n)
        t == First_(c.t, c.n)
    IN  /\ c.strncmp < 0 <=> Precedes(s, t)
        /\ c.strncmp > 0 <=> Precedes(t, s)
        /\ c.istrncmp = 0 <=> Lower(s) = Lower(t)
        /\ ~IsPrefix(c.s, c.t) \/ c.s = c.t =>
               /\ c.strcmp < 0 <=> Precedes(c.s, c.t)
               /\ c.strcmp > 0 <=> Precedes(c.t, c.s)

\* string.c:515 of the kernel and :138 of programs, on strcmp: "0 -> str1==str2".  Does
\* not hold: the comparison ends with the first string.
ZeroMeansEqual == call.op = "compare" /\ call.strcmp = 0 => call.s = call.t

\* A copy is what fits with its NUL, the same in the kernel and in programs; a length
\* up to a terminator counts what is in front of the first.
CopiesFit(c) ==
    /\ c.strncpy = Append(First_(c.s, c.n - 1), NUL)
    /\ c.user_strncpy = c.strncpy
    /\ c.strnlen_terminator <= Len(First_(c.s, c.n))
    /\ \A i \in 1 .. c.strnlen_terminator : c.s[i] # Terminator
    /\ c.strnlen_terminator < Len(First_(c.s, c.n)) => c.s[c.strnlen_terminator + 1] = Terminator

Numeric(c) == IF is_digit(c) THEN to_numeric_digit(c) ELSE c - 87
Value(digits, base) ==
    LET value[n \in 0 .. Len(digits)] ==
            IF n = 0 THEN 0 ELSE value[n - 1] * base + Numeric(digits[n])
    IN  value[Len(digits)]
ReadBack(s, base) == IF s[1] = Minus THEN -Value(Tail(s), base) ELSE Value(s, base)

\* A number of any base reads back from what itoa makes of it, but for a negative one
\* in another base than ten and for the least one, whose sign cannot be changed; every
\* unsigned one does from uitoa, and below half of a long the two make the same of it.
NumbersReadBack(c) ==
    /\ ReadBack(c.uitoa, c.base) = c.n % Long
    /\ Signed(c.n) >= 0 \/ (c.base = 10 /\ Signed(c.n) # -(Long \div 2)) =>
           ReadBack(c.itoa, c.base) = Signed(c.n)
    /\ Signed(c.n) >= 0 => c.itoa = c.uitoa

\* What the two string libraries do that their callers go by: formats, comparisons,
\* copies and numbers.
StringsAgree ==
    /\ call.op = "print" => FormatAgrees(call)
    /\ call.op = "compare" => ComparisonsOrdered(call)
    /\ call.op = "copy" => CopiesFit(call)
    /\ call.op = "convert" => NumbersReadBack(call)
=============================================================================
