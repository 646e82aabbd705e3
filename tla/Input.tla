-------------------------------- MODULE Input --------------------------------
(***************************************************************************)
(* Keyboard and mouse: the two handlers (drivers/ps2keyboard,              *)
(* drivers/ps2mouse), the acknowledgement of interrupts (drivers/pic), and *)
(* the key ring of the current process (task/process.cpp).                 *)
(*                                                                         *)
(* The hardware is external: both devices share the one output buffer of   *)
(* the controller, which asks for IRQ 1 or IRQ 12 while a byte of that     *)
(* device is in it, and is filled again at any moment after a read.  A     *)
(* handler is not interrupted, but the controller may act between its      *)
(* reads: a handler that reads twice is two steps.                         *)
(*                                                                         *)
(* Of a mouse byte the model keeps which field of its packet it is, its    *)
(* validity bit (3) and whether it has an overflow bit (6 or 7).           *)
(***************************************************************************)
EXTENDS Naturals, Sequences

CONSTANTS
    Key,            \* the keys that are used, from AllKeys
    BufferSize,     \* PROCESS_KEYBOARD_BUFFER_SIZE
    Packets,        \* the packets that the mouse may send
    Empty,          \* an output buffer without a byte
    Backlog         \* bound: scan codes the keyboard keeps back

Shifts == {"LeftShift", "RightShift"}
AllKeys == Shifts \cup {"CapsLock", "A", "1", "F1"}

Code == [key : Key, release : BOOLEAN]
MouseByte == [field : 0 .. 2, valid : BOOLEAN, overflow : BOOLEAN]
Byte == [device : {"keyboard"}, data : Code] \cup [device : {"mouse"}, data : MouseByte]

ASSUME InputAssumption ==
    /\ Key \subseteq AllKeys
    /\ \A p \in Packets : /\ p \in Seq(MouseByte) /\ Len(p) = 3
                          /\ \A i \in 1 .. 3 : p[i].field = i - 1
                          /\ p[1].valid
    /\ BufferSize \in Nat \ {0}
    /\ Backlog \in Nat \ {0}
    /\ Empty \notin Code \cup Byte

VARIABLES
    down, keys,         \* the keyboard: shifts held, scan codes not delivered
    motion,             \* the mouse: bytes not delivered
    output,             \* the output buffer of the controller
    in_service,         \* the lines the PICs regard as being handled
    pc, scancode,       \* the handler under way, and its local variable
    shift, capslock,
    mouse_byte,         \* the bytes of the packet so far; mouse_cycle of them
    buffer, head, tail, \* the ring, its counters modulo its size
    typed,              \* history: the keys pushed and not popped, in order
    overrun,            \* history: a key was pushed to a full ring
    lost,               \* history: the devices of which a byte was thrown away
    overflow,           \* history: a packet with an overflow bit was completed
    torn                \* history: a packet was put together of other bytes than a packet's three

keyboard == <<down, keys>>
modifiers == <<shift, capslock>>
ring == <<buffer, head, tail, typed, overrun>>
assembler == <<mouse_byte, overflow, torn>>
vars == <<keyboard, motion, output, in_service, pc, scancode, modifiers, assembler, ring, lost>>

NUL == "nul"
Slot == 0 .. (BufferSize - 1)


----------------------------------------------------------------------------
\* The hardware.

\* A key goes down, or its code is repeated.
press(k) ==
    /\ Len(keys) < Backlog
    /\ down' = down \cup ({k} \cap Shifts)
    /\ keys' = Append(keys, [key |-> k, release |-> FALSE])
    /\ UNCHANGED <<motion, output, in_service, pc, scancode, modifiers, assembler, ring, lost>>

release(k) ==
    /\ Len(keys) < Backlog
    /\ k \in Shifts => k \in down
    /\ down' = down \ {k}
    /\ keys' = Append(keys, [key |-> k, release |-> TRUE])
    /\ UNCHANGED <<motion, output, in_service, pc, scancode, modifiers, assembler, ring, lost>>

\* The mouse reports a motion or a button.
move ==
    /\ motion = << >>
    /\ motion' \in Packets
    /\ UNCHANGED <<keyboard, output, in_service, pc, scancode, modifiers, assembler, ring, lost>>

deliver_key ==
    /\ output = Empty
    /\ keys # << >>
    /\ output' = [device |-> "keyboard", data |-> Head(keys)]
    /\ keys' = Tail(keys)
    /\ UNCHANGED <<down, motion, in_service, pc, scancode, modifiers, assembler, ring, lost>>

deliver_motion ==
    /\ output = Empty
    /\ motion # << >>
    /\ output' = [device |-> "mouse", data |-> Head(motion)]
    /\ motion' = Tail(motion)
    /\ UNCHANGED <<keyboard, in_service, pc, scancode, modifiers, assembler, ring, lost>>

Holds(device) == output # Empty /\ output.device = device

\* A line interrupts when no line of its own or a higher priority is being
\* handled; those of the second PIC arrive on line 2 of the first.
Accepts(irq) ==
    IF irq >= 8 THEN \A i \in in_service : i > 2 /\ i > irq ELSE \A i \in in_service : i > irq
Taken(irq) == in_service \cup IF irq >= 8 THEN {2, irq} ELSE {irq}

\* An end of interrupt, not naming a line, ends the most urgent one of its PIC.
Ended(lines) == {i \in lines : \E j \in lines : j < i}

\* Mutated: the second PIC is not told.
MasterOnly(irq, lines) == Ended({i \in lines : i < 8}) \cup {i \in lines : i >= 8}

pic_EOI(irq, lines) ==
    LET first == {i \in lines : i < 8}
        second == {i \in lines : i >= 8}
    IN  Ended(first) \cup IF irq >= 8 THEN Ended(second) ELSE second

----------------------------------------------------------------------------
\* The ring of the current process.

\* Mutated: the counter stays at the last slot.
NextOrStay(i) == IF i + 1 < BufferSize THEN i + 1 ELSE i

After(i) == (i + 1) % BufferSize

process_pushkey(c) ==
    /\ buffer' = [buffer EXCEPT ![tail] = c]
    /\ tail' = After(tail)
    /\ overrun' = (overrun \/ Len(typed) = BufferSize)
    /\ typed' = IF overrun' THEN << >> ELSE Append(typed, c)
    /\ UNCHANGED head

\* The program asks for a key, and gets none when the slot at the head is free.
process_popkey ==
    /\ pc = "user"
    /\ IF buffer[head] = NUL THEN UNCHANGED ring
       ELSE /\ buffer' = [buffer EXCEPT ![head] = NUL]
            /\ head' = After(head)
            /\ typed' = IF overrun THEN typed ELSE Tail(typed)
            /\ UNCHANGED <<tail, overrun>>
    /\ UNCHANGED <<keyboard, motion, output, in_service, pc, scancode, modifiers, assembler, lost>>

----------------------------------------------------------------------------
\* The timer, with its line the most urgent one.
timer_interrupt ==
    /\ pc = "user"
    /\ Accepts(0)
    /\ in_service' = pic_EOI(0, Taken(0))
    /\ UNCHANGED <<keyboard, motion, output, pc, scancode, modifiers, assembler, ring, lost>>

\* The keyboard handler: acknowledge, and read the scan code.
keyboard_interrupt ==
    /\ pc = "user"
    /\ Holds("keyboard")
    /\ Accepts(1)
    /\ in_service' = pic_EOI(0, Taken(1))
    /\ scancode' = output.data
    /\ output' = Empty
    /\ pc' = "keyboard"
    /\ UNCHANGED <<keyboard, motion, modifiers, assembler, ring, lost>>

\* The letters are the only ones that caps lock changes, and that shift does not.
ps2keyboard_scancode_to_char(k) ==
    CASE k = "A" -> IF capslock THEN "A" ELSE "a"
      [] k = "1" -> IF shift THEN "!" ELSE "1"
      [] OTHER -> NUL

\* Mutated: only the left shift can be let go.
LeftReleased(code) == code.release /\ code.key = "LeftShift"

ShiftReleased(code) == code.release /\ code.key \in Shifts
ShiftPressed(code) == ~code.release /\ code.key \in Shifts

\* The rest of the handler.  It reads once more, to ignore the byte it gets: the
\* same one again, or whatever a device has put in the buffer since.
keyboard_handler ==
    LET k == scancode.key
        char == ps2keyboard_scancode_to_char(k)
    IN  /\ pc = "keyboard"
        /\ pc' = "user"
        /\ scancode' = Empty
        /\ output' = Empty
        /\ lost' = lost \cup {d \in {"keyboard", "mouse"} : Holds(d)}
        /\ shift' = (ShiftPressed(scancode) \/ (shift /\ ~ShiftReleased(scancode)))
        /\ capslock' = IF k = "CapsLock" /\ ~scancode.release THEN ~capslock ELSE capslock
        /\ IF ~scancode.release /\ char # NUL
           THEN process_pushkey(char)
           ELSE UNCHANGED ring
        /\ UNCHANGED <<keyboard, motion, in_service, assembler>>

mouse_interrupt ==
    /\ pc = "user"
    /\ Holds("mouse")
    /\ Accepts(12)
    /\ in_service' = Taken(12)
    /\ pc' = "mouse"
    /\ UNCHANGED <<keyboard, motion, output, scancode, modifiers, assembler, ring, lost>>

\* Mutated: mouse_cycle is not reset.
KeepWaiting(b) == mouse_byte

\* The three bytes of a packet: one with an overflow bit is dropped, and the
\* assembler goes on waiting for a third byte.
Completed(b) == IF mouse_byte[1].overflow THEN mouse_byte ELSE << >>

Whole(p) == \A i \in 1 .. 3 : p[i].field = i - 1

\* One turn of the loop of the mouse handler with a byte of the mouse.  A first
\* byte that is not valid ends the handler, and nobody acknowledges.
mouse_handler ==
    LET b == output.data
        n == Len(mouse_byte)
    IN  /\ pc = "mouse"
        /\ Holds("mouse")
        /\ output' = Empty
        /\ pc' = IF n = 0 /\ ~b.valid THEN "user" ELSE "mouse"
        /\ mouse_byte' = IF n = 2 THEN Completed(b)
                         ELSE IF n = 0 /\ ~b.valid THEN mouse_byte
                         ELSE Append(mouse_byte, b)
        /\ overflow' = (overflow \/ (n = 2 /\ mouse_byte[1].overflow))
        /\ torn' = (torn \/ (n = 2 /\ ~mouse_byte[1].overflow /\ ~Whole(Append(mouse_byte, b))))
        /\ UNCHANGED <<keyboard, motion, in_service, scancode, modifiers, ring, lost>>

\* One turn with a byte of the keyboard, which is read and thrown away.
mouse_handler_drops ==
    /\ pc = "mouse"
    /\ Holds("keyboard")
    /\ output' = Empty
    /\ lost' = lost \cup {"keyboard"}
    /\ UNCHANGED <<keyboard, motion, in_service, pc, scancode, modifiers, assembler, ring>>

\* Mutated: the end of the loop is the end of the handler.
NoAcknowledgement ==
    /\ pc = "mouse"
    /\ output = Empty
    /\ pc' = "user"
    /\ UNCHANGED <<keyboard, motion, output, in_service, scancode, modifiers, assembler, ring, lost>>

mouse_handler_ends ==
    /\ pc = "mouse"
    /\ output = Empty
    /\ in_service' = pic_EOI(12, in_service)
    /\ pc' = "user"
    /\ UNCHANGED <<keyboard, motion, output, scancode, modifiers, assembler, ring, lost>>

----------------------------------------------------------------------------
Init ==
    /\ down = {} /\ keys = << >>
    /\ motion = << >>
    /\ output = Empty
    /\ in_service = {}
    /\ pc = "user" /\ scancode = Empty
    /\ shift = FALSE /\ capslock = FALSE
    /\ mouse_byte = << >> /\ overflow = FALSE /\ torn = FALSE
    /\ buffer = [i \in Slot |-> NUL] /\ head = 0 /\ tail = 0
    /\ typed = << >> /\ overrun = FALSE
    /\ lost = {}

Handlers ==
    \/ keyboard_interrupt \/ keyboard_handler
    \/ mouse_interrupt \/ mouse_handler \/ mouse_handler_drops \/ mouse_handler_ends

Next ==
    \/ \E k \in Key : press(k)
    \/ \E k \in Key : release(k)
    \/ move
    \/ deliver_key
    \/ deliver_motion
    \/ timer_interrupt
    \/ process_popkey
    \/ Handlers

\* An interrupt that the PICs let through is taken, and its handler goes on.
Spec == Init /\ [][Next]_vars /\ WF_vars(Handlers)

----------------------------------------------------------------------------
\* While no key was pushed to a full ring, the ring holds exactly the keys
\* typed and not yet read, in order from its head (process.cpp:245-265): a free
\* slot at the head, for which popkey answers 0, means that there is no key.
KeysInOrder ==
    ~overrun =>
        /\ \A i \in DOMAIN typed : buffer[(head + i - 1) % BufferSize] = typed[i]
        /\ \A i \in Len(typed) .. (BufferSize - 1) : buffer[(head + i) % BufferSize] = NUL
        /\ tail = (head + Len(typed)) % BufferSize

\* No packet written to the pipe mixes bytes of different packets, as long
\* as the keyboard handler (ps2keyboard.c:102) has eaten none of them; an
\* overflow silences the mouse, it does not tear.
PacketsWhole == "mouse" \notin lost => ~torn

\* No line stays in service when the handlers are through, as long as no byte
\* of the mouse was thrown away: the return of PS2Mouse.cpp:30 that skips the
\* acknowledgement is not reached by what a mouse sends.
LinesReleased == pc = "user" /\ "mouse" \notin lost => in_service = {}

\* A shift that was let go does not stay on, once all codes are through and
\* none was thrown away.
ShiftLetGo ==
    pc = "user" /\ output = Empty /\ keys = << >> /\ "keyboard" \notin lost /\ shift
        => down # {}

\* The buffer that both devices share is emptied again, whichever of them fills
\* it, unless a byte of the mouse was thrown away.
BufferDrained == output # Empty ~> (output = Empty \/ "mouse" \in lost)
==============================================================================
