------------------------------- MODULE Window -------------------------------
(***************************************************************************)
(* The shell as a window server and its clients (userland/shell,           *)
(* userland/wintest) over the pipe "0:/ipc/WindowServer", which is a queue *)
(* as Fifo describes it.  Every system call is a step; the timer may give  *)
(* the processor to anybody in between.                                    *)
(*                                                                         *)
(* The unit of the stream is four bytes, of which all messages and the     *)
(* capacity are multiples, except that a name is a unit per character.     *)
(* Where a value decides what the shell does next and is not what it takes *)
(* it for, the shell is lost, and the model ends.  Mouse, dragging and the *)
(* layout of the screen are left out, and CLOSE, which no program sends.   *)
(***************************************************************************)
EXTENDS Queue

CONSTANTS
    Client,         \* the process identifiers of the clients
    Height, Width,  \* functions: the sizes of their windows
    NameLength      \* the characters of a name

ASSUME WindowAssumption ==
    /\ Height \in [Client -> Nat \ {0}]
    /\ Width \in [Client -> Nat \ {0}]
    /\ NameLength \in Nat
    /\ Capacity \in Nat \ {0}

VARIABLES
    queue,          \* the pipe
    step, colour,   \* the clients: what each writes next, and in which colour
    pc,             \* the place of the shell in its loop
    preamble, char, set_size,       \* its buffers for what it reads
    name, size, fd, dirty,          \* its windows
    shown,          \* what the screen shows of each window
    early,          \* history: the shell read a message that was not there yet
    mixed,          \* history: a client wrote into a message of another
    dropped         \* history: the pipe ran over

clients == <<step, colour>>
buffers == <<preamble, char, set_size>>
windows == <<name, size, fd, dirty>>
histories == <<early, mixed, dropped>>
window_vars == <<queue, clients, pc, buffers, windows, shown, histories>>

Type == {"REGISTER", "SET_SIZE", "FRAMEBUFFER_DATA"}
Unit == [pid : Client, field : Type \cup {"pid", "char", "NUL", "height", "width", "pixel", "junk"},
         value : Nat]
U(c, field, value) == [pid |-> c, field |-> field, value |-> value]

----------------------------------------------------------------------------
\* The clients.

Preamble(c, type) == <<U(c, "pid", 0), U(c, type, 0)>>

Name(c) == [i \in 1 .. NameLength |-> U(c, "char", i)] \o <<U(c, "NUL", 0)>>

Pixels(c, k) == [i \in 1 .. (Height[c] * Width[c]) |-> U(c, "pixel", 2 * i + k)]

\* What each of the writes hands over: a frame goes in one piece, the other
\* messages in two.
Message(c) ==
    CASE step[c] = "register" -> Preamble(c, "REGISTER")
      [] step[c] = "name"     -> Name(c)
      [] step[c] = "set_size" -> Preamble(c, "SET_SIZE")
      [] step[c] = "size"     -> <<U(c, "height", Height[c]), U(c, "width", Width[c])>>
      [] step[c] = "frame"    -> Preamble(c, "FRAMEBUFFER_DATA") \o Pixels(c, colour[c])

Following == [register |-> "name", name |-> "set_size", set_size |-> "size",
              size |-> "frame", frame |-> "frame"]

MidMessage(c) == step[c] \in {"name", "size"}

write(c) ==
    /\ pc # "lost"
    /\ queue' = Put(queue, <<Message(c)>>)
    /\ step' = [step EXCEPT ![c] = Following[@]]
    /\ colour' = IF step[c] = "frame" THEN [colour EXCEPT ![c] = 1 - @] ELSE colour
    /\ mixed' = (mixed \/ \E d \in Client \ {c} : MidMessage(d))
    /\ dropped' = (dropped \/ Len(queue) + Len(Message(c)) > Capacity)
    /\ UNCHANGED <<pc, buffers, windows, shown, early>>

----------------------------------------------------------------------------
\* The shell.  A read that finds less than it asks for leaves the buffer as it
\* was, and the shell does not look at the status.

Enough(n) == Len(queue) >= n
Took(n) == queue' = SubSeq(queue, n + 1, Len(queue))
Early == early' = TRUE /\ UNCHANGED <<queue, mixed, dropped>>

\* One turn of the loop: is there anything in the pipe?
poll ==
    /\ pc = "poll"
    /\ pc' = IF queue = << >> THEN "draw" ELSE "preamble"
    /\ UNCHANGED <<queue, clients, buffers, windows, shown, histories>>

Branch(type) ==
    CASE type = "REGISTER" -> "name" [] type = "SET_SIZE" -> "size" [] OTHER -> "frame"

IsPreamble(s) == s # << >> /\ s[1].field = "pid" /\ s[2].field \in Type

\* The message type chooses what follows; a registration gets an empty name.
read_preamble ==
    /\ pc = "preamble"
    /\ IF Enough(2) THEN preamble' = SubSeq(queue, 1, 2) /\ Took(2)
       ELSE UNCHANGED <<preamble, queue>>
    /\ IF IsPreamble(preamble')
       THEN /\ pc' = Branch(preamble'[2].field)
            /\ name' = IF pc' = "name" THEN [name EXCEPT ![preamble'[1].pid] = << >>] ELSE name
       ELSE /\ pc' = "lost"
            /\ UNCHANGED name
    /\ UNCHANGED <<clients, char, set_size, size, fd, dirty, shown, histories>>

Window == preamble[1].pid

\* Mutated: a name is one character.
OneChar(u) == TRUE

IsLastChar(u) == u.field = "NUL"

\* Mutated: the terminating NUL is not stored.
Unterminated(s, u) == IF u.field = "NUL" THEN s ELSE Append(s, u)

Stored(s, u) == Append(s, u)

\* The name, up to its NUL.  Without bytes, the last character read counts once
\* more; what that adds to the name is left out.
read_char ==
    /\ pc = "name"
    /\ IF Enough(1)
       THEN /\ char' = Head(queue)
            /\ Took(1)
            /\ name' = [name EXCEPT ![Window] = Stored(@, char')]
            /\ UNCHANGED histories
       ELSE /\ Early
            /\ UNCHANGED <<char, name>>
    /\ pc' = IF char'.field \notin {"char", "NUL", "junk"} THEN "lost"
             ELSE IF IsLastChar(char') THEN "draw" ELSE "name"
    /\ UNCHANGED <<clients, preamble, set_size, size, fd, dirty, shown>>

IsSize(s) == s # << >> /\ s[1].field = "height" /\ s[2].field = "width"

\* The size, and new memory for the frame, not cleared.
read_size ==
    /\ pc = "size"
    /\ IF Enough(2) THEN set_size' = SubSeq(queue, 1, 2) /\ Took(2) /\ UNCHANGED histories
       ELSE Early /\ UNCHANGED set_size
    /\ IF IsSize(set_size')
       THEN LET n == set_size'[1].value * set_size'[2].value
            IN  /\ size' = [size EXCEPT ![Window] = n]
                /\ fd' = [fd EXCEPT ![Window] = [i \in 1 .. n |-> U(Window, "junk", 0)]]
                /\ pc' = "draw"
       ELSE pc' = "lost" /\ UNCHANGED <<size, fd>>
    /\ UNCHANGED <<clients, preamble, char, name, dirty, shown>>

\* Mutated: the last pixel is left in the pipe.
OneShort(n) == n - 1

\* The bytes of a frame of the window's size.
FrameUnits(n) == n

\* A frame for a window without a size is of a size that nobody set.
read_frame ==
    LET n == FrameUnits(size[Window])
    IN  /\ pc = "frame"
        /\ IF size[Window] = 0
           THEN /\ pc' = "lost"
                /\ UNCHANGED <<queue, fd, dirty, histories>>
           ELSE /\ IF Enough(n)
                   THEN /\ fd' = [fd EXCEPT ![Window] = SubSeq(queue, 1, n)]
                        /\ Took(n)
                        /\ UNCHANGED histories
                   ELSE Early /\ UNCHANGED fd
                /\ dirty' = [dirty EXCEPT ![Window] = TRUE]
                /\ pc' = "draw"
        /\ UNCHANGED <<clients, buffers, name, size, shown>>

Drawn == {c \in Client : fd[c] # << >> /\ dirty[c]}

\* The windows that have memory and are dirty are drawn.
draw ==
    /\ pc = "draw"
    /\ shown' = [c \in Client |-> IF c \in Drawn THEN fd[c] ELSE shown[c]]
    /\ dirty' = [c \in Client |-> dirty[c] /\ c \notin Drawn]
    /\ pc' = "poll"
    /\ UNCHANGED <<queue, clients, buffers, name, size, fd, histories>>

Lost == pc = "lost" /\ UNCHANGED window_vars

----------------------------------------------------------------------------
\* `new' clears nothing: the flags of the windows and the character are what
\* was in memory.
WindowInit ==
    /\ queue = << >>
    /\ step = [c \in Client |-> "register"] /\ colour = [c \in Client |-> 0]
    /\ pc = "poll"
    /\ preamble = << >> /\ set_size = << >>
    /\ char \in {U(CHOOSE c \in Client : TRUE, field, 0) : field \in {"junk", "NUL"}}
    /\ name = [c \in Client |-> << >>]
    /\ size = [c \in Client |-> 0]
    /\ fd = [c \in Client |-> << >>]
    /\ dirty \in [Client -> BOOLEAN]
    /\ shown = [c \in Client |-> << >>]
    /\ early = FALSE /\ mixed = FALSE /\ dropped = FALSE

Shell == poll \/ read_preamble \/ read_char \/ read_size \/ read_frame \/ draw

WindowNext == Shell \/ Lost \/ \E c \in Client : write(c)

WindowSpec == WindowInit /\ [][WindowNext]_window_vars

----------------------------------------------------------------------------
Undisturbed == ~early /\ ~mixed /\ ~dropped

\* The shell loses the boundaries of the messages only when a body was not
\* there when it read the preamble (shell.cpp:116-133), when a client wrote
\* between the two writes of another (wintest.cpp:30-41), or when the pipe ran
\* over.
SyncKept == pc = "lost" => ~Undisturbed

\* Until then the screen shows in each window one frame of the window's own
\* client, whole; or, before the first frame, the memory as it was.
ShownWhole ==
    Undisturbed =>
        \A c \in Client : shown[c] # << >> =>
            \/ \E k \in {0, 1} : shown[c] = Pixels(c, k)
            \/ \A i \in DOMAIN shown[c] : shown[c][i].field = "junk"

\* And a window has been given its client's name, whole, when it has a size.
NamesWhole ==
    Undisturbed => \A c \in Client : size[c] # 0 => name[c] = Name(c)
=============================================================================
