-------------------------------- MODULE Zofia --------------------------------
(***************************************************************************)
(* The command line (userland/zofia/zofia.cpp): how the keys make a line   *)
(* and what a line does.  The names of the built-in commands are any.      *)
(***************************************************************************)
EXTENDS Path, FiniteSets

CONSTANTS
    BufferLength,                   \* 1024
    Int3, Ping, Red, Clear, Cat,    \* the built-in commands, the last with its space
    Key,                            \* the characters that getc returns
    KeysTyped                       \* bound: keys of a line

ASSUME ZofiaAssumption ==
    /\ BufferLength \in Nat \ {0} /\ Key \subseteq Nat \ {NUL} /\ KeysTyped \in Nat
    /\ {Int3, Ping, Cat} \subseteq Seq(Nat \ {NUL})

VARIABLES
    line,               \* what was typed of a line, and whether the line is done
    typed,              \* history: its keys but for the return
    ran                 \* history: the line before and what it did, until the next key

zofia == <<line, typed, ran>>

NoLine == [buffer |-> << >>, done |-> FALSE]
NotYet == [line |-> << >>, does |-> << >>, execprocess |-> << >>]

Backspace == 8
Return_key == 13

\* Mutated: a backspace on an empty line is a character like any other.
BackspaceStored(l, c) ==
    CASE c = Backspace /\ l.buffer # << >> -> [l EXCEPT !.buffer = Front(@)]
      [] c = Return_key -> [l EXCEPT !.done = TRUE]
      [] OTHER -> [buffer |-> Append(l.buffer, c), done |-> Len(l.buffer) + 1 = BufferLength]

\* One key of a line that is not done.  A full line is done without a return,
\* and its NUL is written behind the array.
type_key(l, c) ==
    CASE c = Backspace /\ l.buffer = << >> -> l
      [] c = Backspace /\ l.buffer # << >> -> [l EXCEPT !.buffer = Front(@)]
      [] c = Return_key -> [l EXCEPT !.done = TRUE]
      [] OTHER -> [buffer |-> Append(l.buffer, c), done |-> Len(l.buffer) + 1 = BufferLength]

\* A command is recognised by the characters of its name, whatever follows.
Is(name, str) == strcmp(name, str) = 0

\* The steps of cat up to the one that fails, which leaves the descriptor open and the
\* memory taken.
CatSteps == <<"fopen", "fstat", "fread", "puts", "fclose">>
cat(fails) ==
    SelectSeq(CatSteps, LAMBDA s : fails = "none" \/
        \E i, j \in DOMAIN CatSteps : CatSteps[i] = s /\ CatSteps[j] = fails /\ i <= j)

\* What a line does: a built-in command, and then, but for the first two and a cat
\* that failed, the program of that name.
process_command(str, fails) ==
    LET path == Drive \o str
        built_in == (IF Is(Red, str) THEN <<"red">> ELSE << >>)
                      \o (IF Is(Clear, str) THEN <<"clear">> ELSE << >>)
                      \o (IF Is(Cat, str) THEN cat(fails) ELSE << >>)
    IN  CASE Is(Int3, str) -> [does |-> <<"int3">>, execprocess |-> << >>]
          [] ~Is(Int3, str) /\ Is(Ping, str) -> [does |-> <<"puts">>, execprocess |-> << >>]
          [] OTHER -> [does |-> built_in,
                       execprocess |-> IF Is(Cat, str) /\ fails # "none" THEN << >> ELSE path]
----------------------------------------------------------------------------
ZofiaInit == line = NoLine /\ typed = << >> /\ ran = NotYet

\* The breakpoint ends the program.
Ended == ran.does = <<"int3">>

getc(c) ==
    /\ ~line.done /\ ~Ended
    /\ Len(typed) < KeysTyped
    /\ line' = type_key(line, c)
    /\ typed' = IF c = Return_key THEN typed ELSE Append(typed, c)
    /\ ran' = NotYet

run(fails) ==
    /\ line.done /\ ~Ended
    /\ LET did == process_command(line.buffer, fails)
       IN  ran' = [line |-> line.buffer, does |-> did.does, execprocess |-> did.execprocess]
    /\ line' = NoLine
    /\ typed' = << >>

ZofiaStopped == (Ended \/ Len(typed) = KeysTyped) /\ UNCHANGED zofia

ZofiaNext ==
    \/ \E c \in Key : getc(c)
    \/ \E fails \in {"none", "fopen", "fstat", "fread", "fclose"} : run(fails)
    \/ ZofiaStopped

ZofiaSpec == ZofiaInit /\ [][ZofiaNext]_zofia

----------------------------------------------------------------------------
\* The backspaces among the keys i .. j of a line.
Backspaces(keys, i, j) == {k \in i .. j : keys[k] = Backspace}

\* A character stays unless a later backspace is its own: so many keys on, half of
\* them have been backspaces.
Stays(keys, i) ==
    /\ keys[i] # Backspace
    /\ \A j \in i .. Len(keys) : 2 * Cardinality(Backspaces(keys, i, j)) < j - i + 1

\* The characters of a line are, in their order, those whose backspace did not come.
Edited(buffer, keys) ==
    \E at \in [1 .. Len(buffer) -> 1 .. Len(keys)] :
        /\ \A k \in 1 .. Len(buffer) : Stays(keys, at[k]) /\ buffer[k] = keys[at[k]]
        /\ \A k, l \in 1 .. Len(buffer) : k < l => at[k] < at[l]
        /\ \A i \in 1 .. Len(keys) : Stays(keys, i) => \E k \in 1 .. Len(buffer) : at[k] = i

\* A line that fits its array is the characters whose backspace did not come; it
\* becomes the path of a program, unless it begins with the name of a command that
\* ends there or shows a file that cannot be read.
LineEdited ==
    /\ Edited(line.buffer, typed)
    /\ Len(line.buffer) <= BufferLength
    /\ ran # NotYet =>
          \/ ran.execprocess = Drive \o ran.line
          \/ /\ ran.execprocess = << >>
             /\ \E name \in {Int3, Ping, Cat} : IsPrefix(name, ran.line)
=============================================================================
