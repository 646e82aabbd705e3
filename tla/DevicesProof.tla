----------------------------- MODULE DevicesProof -----------------------------
(***************************************************************************)
(* Proofs about the devices that a user sees.  The two input handlers, for *)
(* every set of keys, every size of the ring and every packet: the ring    *)
(* keeps the order of the keys, no packet is torn, no line stays in        *)
(* service, and no shift stays on.  The text output, for every size of the *)
(* screen: what is printed is what it shows.  The canvas, for every size   *)
(* of it and of a picture: the picture appears as its file has it.         *)
(***************************************************************************)
EXTENDS Input, Console, Canvas, TLAPS, SequenceTheorems

----------------------------------------------------------------------------
\* Keyboard and mouse.

KeyChar == {"A", "a", "1", "!"}
Device == {"keyboard", "mouse"}

TypeOK ==
    /\ down \subseteq Shifts /\ keys \in Seq(Code)
    /\ motion \in Seq(MouseByte)
    /\ output \in Byte \cup {Empty}
    /\ pc \in {"user", "keyboard", "mouse"}
    /\ scancode \in Code \cup {Empty}
    /\ pc = "keyboard" => scancode \in Code
    /\ shift \in BOOLEAN /\ capslock \in BOOLEAN
    /\ mouse_byte \in Seq(MouseByte) /\ Len(mouse_byte) \in 0 .. 2
    /\ overflow \in BOOLEAN /\ torn \in BOOLEAN
    /\ buffer \in [Slot -> KeyChar \cup {NUL}]
    /\ head \in Slot /\ tail \in Slot
    /\ typed \in Seq(KeyChar) /\ Len(typed) <= BufferSize
    /\ overrun \in BOOLEAN
    /\ lost \subseteq Device

----------------------------------------------------------------------------
\* The bytes between the mouse and its handler.

\* The field of the byte that the mouse delivers next.
NextField == IF motion = << >> THEN 0 ELSE 3 - Len(motion)

\* What is on its way is the rest of a packet, and the byte in the controller
\* the one before it.
MotionInOrder ==
    /\ Len(motion) <= 3
    /\ \A i \in DOMAIN motion : /\ motion[i].field = 2 - Len(motion) + i
                                /\ motion[i].field = 0 => motion[i].valid
    /\ Holds("mouse") => /\ output.data.field = 0 => output.data.valid
                         /\ NextField = IF output.data.field = 2 THEN 0 ELSE output.data.field + 1

\* The assembler stays where a packet with an overflow bit left it.
Stuck == Len(mouse_byte) = 2 /\ mouse_byte[1].overflow

\* The handler waits for the byte that comes next.
Aligned ==
    /\ \A i \in DOMAIN mouse_byte : mouse_byte[i].field = i - 1
    /\ ~Stuck => Len(mouse_byte) = IF Holds("mouse") THEN output.data.field ELSE NextField

\* The lines of the mouse are in service while its handler runs, and no others.
LinesPaired ==
    /\ in_service \in {{}, {2, 12}}
    /\ pc = "mouse" => in_service = {2, 12}

\* The inductive invariant of the mouse.
MouseInv ==
    /\ MotionInOrder
    /\ LinesPaired
    /\ "mouse" \notin lost => Aligned /\ ~torn /\ (pc # "mouse" => in_service = {})

----------------------------------------------------------------------------
\* The codes between the keyboard and the flag of the shifts.

NoShift(codes) == \A i \in DOMAIN codes : codes[i].key \notin Shifts

\* The last code of a shift among some is that of one pressed.
LastPressed(codes) ==
    \E i \in DOMAIN codes :
        /\ ShiftPressed(codes[i])
        /\ \A j \in DOMAIN codes : j > i => codes[j].key \notin Shifts

NoneInOutput == Holds("keyboard") => output.data.key \notin Shifts
NoneInHandler == pc = "keyboard" => scancode.key \notin Shifts

\* Of the codes not handled yet and the flag, the last word on shifts is a
\* pressed one only while a shift is held.
ShiftInv ==
    "keyboard" \notin lost =>
        /\ LastPressed(keys) => down # {}
        /\ NoShift(keys) /\ Holds("keyboard") /\ ShiftPressed(output.data) => down # {}
        /\ NoShift(keys) /\ NoneInOutput /\ pc = "keyboard" /\ ShiftPressed(scancode) => down # {}
        /\ NoShift(keys) /\ NoneInOutput /\ NoneInHandler /\ shift => down # {}

IInv == TypeOK /\ KeysInOrder /\ MouseInv /\ ShiftInv

----------------------------------------------------------------------------
\* Lemmas.

LEMMA RingFacts == BufferSize \in Nat /\ BufferSize > 0 /\ 0 \in Slot
PROOF
  BY InputAssumption DEF Slot

\* Indexes of the ring wrap once at most.
LEMMA Wrap ==
    ASSUME NEW h \in Slot, NEW i \in 0 .. BufferSize
    PROVE  (h + i) % BufferSize = IF h + i < BufferSize THEN h + i ELSE h + i - BufferSize
PROOF
  <1>1. h \in Nat /\ i \in Nat /\ h < BufferSize /\ i <= BufferSize
    BY RingFacts DEF Slot
  <1>2. CASE h + i < BufferSize
    BY <1>1, <1>2, RingFacts
  <1>3. CASE h + i >= BufferSize
    <2>1. h + i = BufferSize + (h + i - BufferSize) /\ h + i - BufferSize \in 0 .. (BufferSize - 1)
      BY <1>1, <1>3, RingFacts
    <2> QED  BY <2>1, <1>1, RingFacts
  <1> QED  BY <1>1, <1>2, <1>3, RingFacts

LEMMA ByteFacts ==
    /\ Empty \notin Byte /\ Empty \notin Code
    /\ \A b \in Byte : b.device = "keyboard" => b.data \in Code
    /\ \A b \in Byte : b.device = "mouse" => b.data \in MouseByte
PROOF
  BY InputAssumption DEF Byte

\* The kinds of character that reach the ring.
LEMMA CharFacts ==
    ASSUME NEW k PROVE ps2keyboard_scancode_to_char(k) \in KeyChar \cup {NUL}
PROOF
  BY DEF ps2keyboard_scancode_to_char, KeyChar

LEMMA AfterIn ==
    ASSUME NEW i \in Slot PROVE After(i) \in Slot /\ After(i) = IF i + 1 < BufferSize THEN i + 1 ELSE 0
PROOF
  <1>1. i \in Nat /\ i < BufferSize /\ 1 \in 0 .. BufferSize
    BY RingFacts DEF Slot
  <1>2. After(i) = IF i + 1 < BufferSize THEN i + 1 ELSE i + 1 - BufferSize
    BY <1>1, Wrap DEF After
  <1> QED  BY <1>1, <1>2, RingFacts DEF Slot

LEMMA NonEmpty ==
    ASSUME NEW S, NEW s \in Seq(S), s # << >>
    PROVE  /\ Len(s) \in Nat /\ 1 \in DOMAIN s /\ Head(s) = s[1]
           /\ \A n \in Nat : Len(s) <= n => Len(s) \in 1 .. n
PROOF
  <1>1. Len(s) \in Nat /\ DOMAIN s = 1 .. Len(s) /\ Len(s) # 0
    BY EmptySeq, LenProperties
  <1> QED  BY <1>1, HeadTailProperties

----------------------------------------------------------------------------
\* The ring.

\* Place i of the ring, counted from its head h.
At(h, i) == IF h + i < BufferSize THEN h + i ELSE h + i - BufferSize

\* The ring holds the keys `typed' from its head on, and nothing else.
HoldsKeys(buf, h, t, ks) ==
    /\ \A i \in 0 .. (Len(ks) - 1) : buf[At(h, i)] = ks[i + 1]
    /\ \A i \in Len(ks) .. (BufferSize - 1) : buf[At(h, i)] = NUL
    /\ t = At(h, Len(ks))

LEMMA AtFacts ==
    ASSUME NEW h \in Slot
    PROVE  /\ \A i \in 0 .. BufferSize : At(h, i) \in Slot
           /\ \A i, j \in 0 .. (BufferSize - 1) : At(h, i) = At(h, j) => i = j
           /\ At(h, 0) = h
           /\ \A i \in 0 .. (BufferSize - 1) : At(After(h), i) = At(h, i + 1)
           /\ At(h, BufferSize) = h
           /\ \A i \in 0 .. (BufferSize - 1) : After(At(h, i)) = At(h, i + 1)
PROOF
  <1>1. h \in Nat /\ h < BufferSize
    BY RingFacts DEF Slot
  <1>2. \A i \in 0 .. BufferSize : At(h, i) \in Slot
    BY <1>1, RingFacts DEF At, Slot
  <1>3. After(h) = IF h + 1 < BufferSize THEN h + 1 ELSE 0
    BY AfterIn
  <1>4. \A i \in 0 .. (BufferSize - 1) : After(At(h, i)) = At(h, i + 1)
    <2> TAKE i \in 0 .. (BufferSize - 1)
    <2>1. At(h, i) \in Slot /\ i \in 0 .. BufferSize
      BY <1>2, RingFacts
    <2>2. After(At(h, i)) = IF At(h, i) + 1 < BufferSize THEN At(h, i) + 1 ELSE 0
      BY <2>1, AfterIn
    <2> QED  BY <1>1, <2>2, RingFacts DEF At
  <1> QED  BY <1>1, <1>2, <1>3, <1>4, RingFacts DEF At

LEMMA RingForm ==
    ASSUME NEW h \in Slot, NEW t, NEW buf, NEW ks \in Seq(KeyChar), Len(ks) <= BufferSize
    PROVE  (/\ \A i \in DOMAIN ks : buf[(h + i - 1) % BufferSize] = ks[i]
            /\ \A i \in Len(ks) .. (BufferSize - 1) : buf[(h + i) % BufferSize] = NUL
            /\ t = (h + Len(ks)) % BufferSize)
           <=> HoldsKeys(buf, h, t, ks)
PROOF
  <1>1. Len(ks) \in 0 .. BufferSize /\ DOMAIN ks = 1 .. Len(ks) /\ h \in Nat
    BY RingFacts DEF Slot
  <1>2. \A i \in 0 .. BufferSize : (h + i) % BufferSize = At(h, i)
    BY Wrap DEF At
  <1>3. \A i \in 1 .. Len(ks) : (h + i - 1) % BufferSize = At(h, i - 1)
    <2> TAKE i \in 1 .. Len(ks)
    <2>1. i - 1 \in 0 .. BufferSize /\ h + i - 1 = h + (i - 1)
      BY <1>1, RingFacts
    <2> QED  BY <2>1, <1>2
  <1>4. (\A i \in DOMAIN ks : buf[(h + i - 1) % BufferSize] = ks[i])
        <=> \A i \in 0 .. (Len(ks) - 1) : buf[At(h, i)] = ks[i + 1]
    <2>1. ASSUME \A i \in DOMAIN ks : buf[(h + i - 1) % BufferSize] = ks[i],
                 NEW i \in 0 .. (Len(ks) - 1)
          PROVE  buf[At(h, i)] = ks[i + 1]
      <3>1. i + 1 \in 1 .. Len(ks) /\ (i + 1) - 1 = i
        BY <1>1
      <3> QED  BY <3>1, <2>1, <1>1, <1>3
    <2>2. ASSUME \A i \in 0 .. (Len(ks) - 1) : buf[At(h, i)] = ks[i + 1],
                 NEW i \in DOMAIN ks
          PROVE  buf[(h + i - 1) % BufferSize] = ks[i]
      <3>1. i - 1 \in 0 .. (Len(ks) - 1) /\ (i - 1) + 1 = i
        BY <1>1
      <3> QED  BY <3>1, <2>2, <1>1, <1>3
    <2> QED  BY <2>1, <2>2
  <1>5. \A i \in Len(ks) .. (BufferSize - 1) : (h + i) % BufferSize = At(h, i)
    BY <1>1, <1>2, RingFacts
  <1>6. (h + Len(ks)) % BufferSize = At(h, Len(ks))
    BY <1>1, <1>2
  <1> QED  BY <1>4, <1>5, <1>6 DEF HoldsKeys

LEMMA OrderForm ==
    ASSUME TypeOK
    PROVE  KeysInOrder <=> (~overrun => HoldsKeys(buffer, head, tail, typed))
PROOF
  BY RingForm DEF KeysInOrder, TypeOK

LEMMA OrderFormPrimed ==
    ASSUME TypeOK'
    PROVE  KeysInOrder' <=> (~overrun' => HoldsKeys(buffer', head', tail', typed'))
PROOF
  BY RingForm DEF KeysInOrder, TypeOK

\* A push behind the last key.
LEMMA PushHolds ==
    ASSUME NEW h \in Slot, NEW t \in Slot, NEW buf \in [Slot -> KeyChar \cup {NUL}],
           NEW ks \in Seq(KeyChar), Len(ks) < BufferSize, NEW c \in KeyChar,
           HoldsKeys(buf, h, t, ks)
    PROVE  HoldsKeys([buf EXCEPT ![t] = c], h, After(t), Append(ks, c))
PROOF
  <1> DEFINE n == Len(ks)
             buf2 == [buf EXCEPT ![t] = c]
             ks2 == Append(ks, c)
  <1>1. n \in 0 .. (BufferSize - 1) /\ Len(ks2) = n + 1 /\ t = At(h, n)
    BY RingFacts DEF HoldsKeys
  <1>2. After(t) = At(h, n + 1)
    BY <1>1, AtFacts
  <1>3. ASSUME NEW i \in 0 .. (BufferSize - 1), i # n
        PROVE  buf2[At(h, i)] = buf[At(h, i)]
    BY <1>1, <1>3, AtFacts
  <1>4. ASSUME NEW i \in 0 .. (Len(ks2) - 1) PROVE buf2[At(h, i)] = ks2[i + 1]
    <2>1. CASE i = n
      BY <2>1, <1>1
    <2>2. CASE i # n
      <3>1. i \in 0 .. (n - 1) /\ i \in 0 .. (BufferSize - 1) /\ i + 1 \in 1 .. n
        BY <2>2, <1>1, RingFacts
      <3>2. buf2[At(h, i)] = buf[At(h, i)] /\ ks2[i + 1] = ks[i + 1]
        BY <3>1, <2>2, <1>3
      <3> QED  BY <3>1, <3>2 DEF HoldsKeys
    <2> QED  BY <2>1, <2>2
  <1>5. ASSUME NEW i \in Len(ks2) .. (BufferSize - 1) PROVE buf2[At(h, i)] = NUL
    <2>1. i \in n .. (BufferSize - 1) /\ i \in 0 .. (BufferSize - 1) /\ i # n
      BY <1>1, RingFacts
    <2> QED  BY <2>1, <1>3 DEF HoldsKeys
  <1> QED  BY <1>1, <1>2, <1>4, <1>5 DEF HoldsKeys

\* A pop of the first key.
LEMMA PopHolds ==
    ASSUME NEW h \in Slot, NEW t, NEW buf \in [Slot -> KeyChar \cup {NUL}],
           NEW ks \in Seq(KeyChar), Len(ks) <= BufferSize, buf[h] # NUL,
           HoldsKeys(buf, h, t, ks)
    PROVE  /\ ks # << >>
           /\ HoldsKeys([buf EXCEPT ![h] = NUL], After(h), t, Tail(ks))
PROOF
  <1> DEFINE n == Len(ks)
             buf2 == [buf EXCEPT ![h] = NUL]
             ks2 == Tail(ks)
  <1>1. n > 0
    <2> SUFFICES ASSUME n = 0 PROVE FALSE
      OBVIOUS
    <2>1. 0 \in Len(ks) .. (BufferSize - 1)
      BY RingFacts
    <2>2. buf[At(h, 0)] = NUL
      BY <2>1 DEF HoldsKeys
    <2> QED  BY <2>2, AtFacts
  <1>2. n \in 1 .. BufferSize /\ ks # << >> /\ Len(ks2) = n - 1 /\ \A i \in 1 .. (n - 1) : ks2[i] = ks[i + 1]
    BY <1>1, RingFacts
  <1>3. t = At(After(h), n - 1)
    <2>1. n - 1 \in 0 .. (BufferSize - 1) /\ (n - 1) + 1 = n
      BY <1>2, RingFacts
    <2>2. At(After(h), n - 1) = At(h, n)
      BY <2>1, AtFacts
    <2> QED  BY <2>2 DEF HoldsKeys
  <1>4. ASSUME NEW i \in 0 .. (BufferSize - 2)
        PROVE  buf2[At(After(h), i)] = buf[At(h, i + 1)]
    <2>1. i \in 0 .. (BufferSize - 1) /\ i + 1 \in 0 .. (BufferSize - 1) /\ 0 \in 0 .. (BufferSize - 1) /\ i + 1 # 0
      BY RingFacts
    <2>2. At(h, i + 1) # h /\ At(h, i + 1) \in Slot
      BY <2>1, AtFacts, RingFacts
    <2>3. At(After(h), i) = At(h, i + 1)
      BY <2>1, AtFacts
    <2> QED  BY <2>2, <2>3
  <1>5. ASSUME NEW i \in 0 .. (Len(ks2) - 1) PROVE buf2[At(After(h), i)] = ks2[i + 1]
    <2>1. i \in 0 .. (BufferSize - 2) /\ i + 1 \in 1 .. (n - 1) /\ i + 1 \in 0 .. (n - 1)
      BY <1>2, RingFacts
    <2>2. buf[At(h, i + 1)] = ks[(i + 1) + 1]
      BY <2>1 DEF HoldsKeys
    <2> QED  BY <2>1, <2>2, <1>2, <1>4
  <1>6. ASSUME NEW i \in Len(ks2) .. (BufferSize - 1) PROVE buf2[At(After(h), i)] = NUL
    <2>1. CASE i = BufferSize - 1
      <3>1. i \in 0 .. (BufferSize - 1) /\ i + 1 = BufferSize
        BY <2>1, RingFacts
      <3>2. At(After(h), i) = h
        BY <3>1, AtFacts
      <3> QED  BY <3>2
    <2>2. CASE i # BufferSize - 1
      <3>1. i \in 0 .. (BufferSize - 2) /\ i + 1 \in n .. (BufferSize - 1)
        BY <2>2, <1>2, RingFacts
      <3>2. buf[At(h, i + 1)] = NUL
        BY <3>1 DEF HoldsKeys
      <3> QED  BY <3>1, <3>2, <1>4
    <2> QED  BY <2>1, <2>2
  <1> QED  BY <1>2, <1>3, <1>5, <1>6 DEF HoldsKeys

----------------------------------------------------------------------------
\* Types.

LEMMA TypeInit == Init => TypeOK
PROOF
  BY RingFacts DEF Init, TypeOK, KeyChar

\* What a push to the ring leaves.
LEMMA PushTyped ==
    ASSUME TypeOK, NEW c \in KeyChar, process_pushkey(c)
    PROVE  /\ buffer' \in [Slot -> KeyChar \cup {NUL}]
           /\ head' \in Slot /\ tail' \in Slot
           /\ typed' \in Seq(KeyChar) /\ Len(typed') <= BufferSize
           /\ overrun' \in BOOLEAN
PROOF
  <1>1. buffer' \in [Slot -> KeyChar \cup {NUL}]
    BY DEF TypeOK, process_pushkey
  <1>2. head' \in Slot /\ tail' \in Slot
    BY AfterIn DEF TypeOK, process_pushkey
  <1>3. overrun' \in BOOLEAN
    BY DEF TypeOK, process_pushkey
  <1>4. typed' \in Seq(KeyChar) /\ Len(typed') <= BufferSize
    <2>1. CASE overrun'
      BY <2>1, RingFacts DEF process_pushkey
    <2>2. CASE ~overrun'
      <3>1. typed' = Append(typed, c) /\ Len(typed) # BufferSize
        BY <2>2 DEF process_pushkey
      <3> QED  BY <3>1, RingFacts DEF TypeOK
    <2> QED  BY <2>1, <2>2
  <1> QED  BY <1>1, <1>2, <1>3, <1>4

LEMMA TypeStep ==
    ASSUME TypeOK, KeysInOrder, [Next]_vars
    PROVE  TypeOK'
PROOF
  <1>1. ASSUME NEW k \in Key, press(k) PROVE TypeOK'
    <2>1. [key |-> k, release |-> FALSE] \in Code
      BY DEF Code
    <2> QED  BY <1>1, <2>1 DEF press, TypeOK, modifiers, assembler, ring, Shifts
  <1>2. ASSUME NEW k \in Key, release(k) PROVE TypeOK'
    <2>1. [key |-> k, release |-> TRUE] \in Code
      BY DEF Code
    <2> QED  BY <1>2, <2>1 DEF release, TypeOK, modifiers, assembler, ring
  <1>3. CASE move
    BY <1>3, InputAssumption DEF move, TypeOK, keyboard, modifiers, assembler, ring
  <1>4. CASE deliver_key
    <2>1. Head(keys) \in Code /\ Tail(keys) \in Seq(Code)
      BY <1>4 DEF deliver_key, TypeOK
    <2>2. output' \in Byte
      BY <1>4, <2>1 DEF deliver_key, Byte
    <2> QED  BY <1>4, <2>1, <2>2 DEF deliver_key, TypeOK, modifiers, assembler, ring
  <1>5. CASE deliver_motion
    <2>1. Head(motion) \in MouseByte /\ Tail(motion) \in Seq(MouseByte)
      BY <1>5 DEF deliver_motion, TypeOK
    <2>2. output' \in Byte
      BY <1>5, <2>1 DEF deliver_motion, Byte
    <2> QED  BY <1>5, <2>1, <2>2 DEF deliver_motion, TypeOK, keyboard, modifiers, assembler, ring
  <1>6. CASE timer_interrupt
    BY <1>6 DEF timer_interrupt, TypeOK, keyboard, modifiers, assembler, ring
  <1>7. CASE process_popkey
    <2>1. CASE buffer[head] = NUL
      BY <1>7, <2>1 DEF process_popkey, TypeOK, keyboard, modifiers, assembler, ring
    <2>2. CASE buffer[head] # NUL
      <3>1. buffer' \in [Slot -> KeyChar \cup {NUL}] /\ head' \in Slot /\ UNCHANGED <<tail, overrun>>
        BY <1>7, <2>2, AfterIn DEF process_popkey, TypeOK
      <3>2. typed' \in Seq(KeyChar) /\ Len(typed') <= BufferSize
        <4>1. CASE overrun
          BY <1>7, <2>2, <4>1 DEF process_popkey, TypeOK
        <4>2. CASE ~overrun
          <5>1. typed # << >>
            BY <2>2, <4>2, OrderForm, PopHolds DEF TypeOK
          <5>2. typed' = Tail(typed)
            BY <1>7, <2>2, <4>2 DEF process_popkey
          <5> QED  BY <5>1, <5>2, RingFacts DEF TypeOK
        <4> QED  BY <4>1, <4>2
      <3> QED  BY <1>7, <3>1, <3>2 DEF process_popkey, TypeOK, keyboard, modifiers, assembler
    <2> QED  BY <2>1, <2>2
  <1>8. CASE keyboard_interrupt
    <2>1. scancode' \in Code
      BY <1>8, ByteFacts DEF keyboard_interrupt, Holds, TypeOK
    <2> QED  BY <1>8, <2>1 DEF keyboard_interrupt, TypeOK, keyboard, modifiers, assembler, ring
  <1>9. CASE keyboard_handler
    <2>1. scancode.release \in BOOLEAN
      BY <1>9 DEF keyboard_handler, TypeOK, Code
    <2>2. /\ buffer' \in [Slot -> KeyChar \cup {NUL}]
          /\ head' \in Slot /\ tail' \in Slot
          /\ typed' \in Seq(KeyChar) /\ Len(typed') <= BufferSize
          /\ overrun' \in BOOLEAN
      <3> DEFINE c == ps2keyboard_scancode_to_char(scancode.key)
      <3>1. CASE ~scancode.release /\ c # NUL
        <4>1. c \in KeyChar /\ process_pushkey(c)
          BY <1>9, <3>1, CharFacts DEF keyboard_handler
        <4> QED  BY <4>1, PushTyped
      <3>2. CASE ~(~scancode.release /\ c # NUL)
        BY <1>9, <3>2 DEF keyboard_handler, ring, TypeOK
      <3> QED  BY <3>1, <3>2
    <2>3. lost' \subseteq Device
      BY <1>9 DEF keyboard_handler, TypeOK, Device
    <2>4. shift' \in BOOLEAN /\ capslock' \in BOOLEAN
      BY <1>9, <2>1 DEF keyboard_handler, TypeOK, ShiftPressed, ShiftReleased
    <2>5. /\ down' \subseteq Shifts /\ keys' \in Seq(Code) /\ motion' \in Seq(MouseByte)
          /\ output' \in Byte \cup {Empty} /\ scancode' \in Code \cup {Empty} /\ pc' = "user"
          /\ mouse_byte' \in Seq(MouseByte) /\ Len(mouse_byte') \in 0 .. 2
          /\ overflow' \in BOOLEAN /\ torn' \in BOOLEAN
      BY <1>9 DEF keyboard_handler, TypeOK, keyboard, assembler
    <2> QED  BY <2>2, <2>3, <2>4, <2>5 DEF TypeOK
  <1>10. CASE mouse_interrupt
    BY <1>10 DEF mouse_interrupt, TypeOK, keyboard, modifiers, assembler, ring
  <1>11. CASE mouse_handler
    <2> DEFINE b == output.data
               n == Len(mouse_byte)
    <2>1. b \in MouseByte
      BY <1>11, ByteFacts DEF mouse_handler, Holds, TypeOK
    <2>2. mouse_byte' \in Seq(MouseByte) /\ Len(mouse_byte') \in 0 .. 2
      <3>1. CASE n = 2
        BY <1>11, <3>1 DEF mouse_handler, Completed, TypeOK
      <3>2. CASE n = 0 /\ ~b.valid
        BY <1>11, <3>2 DEF mouse_handler, TypeOK
      <3>3. CASE n # 2 /\ ~(n = 0 /\ ~b.valid)
        <4>1. mouse_byte' = Append(mouse_byte, b)
          BY <1>11, <3>3 DEF mouse_handler
        <4>2. mouse_byte \in Seq(MouseByte) /\ Len(mouse_byte) \in 0 .. 1
          <5>1. Len(mouse_byte) # 2
            BY <3>3
          <5> QED  BY <5>1 DEF TypeOK
        <4>3. mouse_byte' \in Seq(MouseByte)
          BY <4>1, <4>2, <2>1
        <4>4. Len(mouse_byte') \in 0 .. 2
          BY <4>1, <4>2, <2>1
        <4> QED  BY <4>3, <4>4
      <3> QED  BY <3>1, <3>2, <3>3
    <2>3. overflow' \in BOOLEAN /\ torn' \in BOOLEAN
      BY <1>11 DEF mouse_handler, TypeOK
    <2>4. pc' \in {"user", "mouse"}
      BY <1>11 DEF mouse_handler
    <2> QED  BY <1>11, <2>2, <2>3, <2>4 DEF mouse_handler, TypeOK, keyboard, modifiers, ring
  <1>12. CASE mouse_handler_drops
    BY <1>12 DEF mouse_handler_drops, TypeOK, keyboard, modifiers, assembler, ring, Device
  <1>13. CASE mouse_handler_ends
    BY <1>13 DEF mouse_handler_ends, TypeOK, keyboard, modifiers, assembler, ring
  <1>14. CASE UNCHANGED vars
    BY <1>14 DEF vars, TypeOK, keyboard, modifiers, assembler, ring
  <1> QED
    BY <1>1, <1>2, <1>3, <1>4, <1>5, <1>6, <1>7, <1>8, <1>9, <1>10, <1>11, <1>12, <1>13, <1>14
    DEF Next, Handlers

----------------------------------------------------------------------------
\* The keys.

LEMMA KeysInit == Init => KeysInOrder
PROOF
  <1> SUFFICES ASSUME Init PROVE KeysInOrder
    OBVIOUS
  <1>1. TypeOK
    BY TypeInit
  <1>2. Len(typed) = 0 /\ head = 0 /\ tail = 0 /\ buffer = [i \in Slot |-> NUL] /\ ~overrun
    BY DEF Init
  <1>3. HoldsKeys(buffer, head, tail, typed)
    BY <1>2, AtFacts, RingFacts DEF HoldsKeys
  <1> QED  BY <1>1, <1>3, OrderForm

LEMMA KeysStep ==
    ASSUME TypeOK, TypeOK', KeysInOrder, [Next]_vars
    PROVE  KeysInOrder'
PROOF
  <1> SUFFICES ASSUME ~overrun' PROVE HoldsKeys(buffer', head', tail', typed')
    BY OrderFormPrimed
  <1>1. ASSUME UNCHANGED ring PROVE HoldsKeys(buffer', head', tail', typed')
    BY <1>1, OrderForm DEF ring
  <1>2. CASE process_popkey
    <2>1. CASE buffer[head] = NUL
      BY <1>1, <1>2, <2>1 DEF process_popkey
    <2>2. CASE buffer[head] # NUL
      <3>1. /\ buffer' = [buffer EXCEPT ![head] = NUL] /\ head' = After(head)
            /\ tail' = tail /\ ~overrun /\ typed' = Tail(typed)
        BY <1>2, <2>2 DEF process_popkey
      <3>2. HoldsKeys(buffer, head, tail, typed)
        BY <3>1, OrderForm
      <3>3. HoldsKeys([buffer EXCEPT ![head] = NUL], After(head), tail, Tail(typed))
        BY <2>2, <3>2, PopHolds DEF TypeOK
      <3> QED  BY <3>1, <3>3
    <2> QED  BY <2>1, <2>2
  <1>3. CASE keyboard_handler
    <2> DEFINE c == ps2keyboard_scancode_to_char(scancode.key)
    <2>1. CASE ~(~scancode.release /\ c # NUL)
      BY <1>1, <1>3, <2>1 DEF keyboard_handler
    <2>2. CASE ~scancode.release /\ c # NUL
      <3>1. process_pushkey(c) /\ c \in KeyChar
        BY <1>3, <2>2, CharFacts DEF keyboard_handler
      <3>2. /\ buffer' = [buffer EXCEPT ![tail] = c] /\ head' = head /\ tail' = After(tail)
            /\ ~overrun /\ Len(typed) # BufferSize /\ typed' = Append(typed, c)
        BY <3>1 DEF process_pushkey
      <3>3. HoldsKeys(buffer, head, tail, typed) /\ Len(typed) < BufferSize
        BY <3>2, OrderForm, RingFacts DEF TypeOK
      <3>4. HoldsKeys([buffer EXCEPT ![tail] = c], head, After(tail), Append(typed, c))
        BY <3>1, <3>3, PushHolds DEF TypeOK
      <3> QED  BY <3>2, <3>4
    <2> QED  BY <2>1, <2>2
  <1>4. CASE (\E k \in Key : press(k) \/ release(k)) \/ move \/ deliver_key \/ deliver_motion
    BY <1>1, <1>4 DEF press, release, move, deliver_key, deliver_motion
  <1>5. CASE timer_interrupt \/ keyboard_interrupt \/ mouse_interrupt \/ mouse_handler
    BY <1>1, <1>5 DEF timer_interrupt, keyboard_interrupt, mouse_interrupt, mouse_handler
  <1>6. CASE mouse_handler_drops \/ mouse_handler_ends \/ UNCHANGED vars
    BY <1>1, <1>6 DEF mouse_handler_drops, mouse_handler_ends, vars
  <1> QED
    BY <1>2, <1>3, <1>4, <1>5, <1>6 DEF Next, Handlers

----------------------------------------------------------------------------
\* The mouse.

LEMMA MouseInit == Init => MouseInv
PROOF
  BY DEF Init, MouseInv, MotionInOrder, LinesPaired, Aligned, Stuck, NextField, Holds

\* Its lines.
LEMMA LinesStep ==
    ASSUME MouseInv, [Next]_vars
    PROVE  LinesPaired'
PROOF
  <1> USE DEF LinesPaired
  <1>1. in_service \in {{}, {2, 12}} /\ (pc = "mouse" => in_service = {2, 12})
    BY DEF MouseInv
  <1>2. CASE (\E k \in Key : press(k) \/ release(k)) \/ move \/ deliver_key \/ deliver_motion
    BY <1>1, <1>2 DEF press, release, move, deliver_key, deliver_motion
  <1>3. ASSUME NEW lines \in {{}, {2, 12}}, NEW irq \in {0, 1}
        PROVE  pic_EOI(0, lines \cup {irq}) = lines
    BY <1>3 DEF pic_EOI, Ended
  <1>4. CASE timer_interrupt
    <2>1. in_service' = pic_EOI(0, in_service \cup {0})
      BY <1>4 DEF timer_interrupt, Taken
    <2> QED  BY <1>1, <1>3, <1>4, <2>1 DEF timer_interrupt
  <1>5. CASE keyboard_interrupt
    <2>1. in_service' = pic_EOI(0, in_service \cup {1})
      BY <1>5 DEF keyboard_interrupt, Taken
    <2> QED  BY <1>1, <1>3, <1>5, <2>1 DEF keyboard_interrupt
  <1>6. CASE mouse_interrupt
    <2>1. in_service = {}
      BY <1>1, <1>6 DEF mouse_interrupt, Accepts
    <2> QED  BY <1>6, <2>1 DEF mouse_interrupt, Taken
  <1>7. CASE mouse_handler_ends
    <2>1. pic_EOI(12, {2, 12}) = {}
      BY DEF pic_EOI, Ended
    <2> QED  BY <1>1, <1>7, <2>1 DEF mouse_handler_ends
  <1>8. CASE process_popkey \/ keyboard_handler \/ mouse_handler \/ mouse_handler_drops \/ UNCHANGED vars
    BY <1>1, <1>8 DEF process_popkey, keyboard_handler, mouse_handler, mouse_handler_drops, vars
  <1> QED
    BY <1>2, <1>4, <1>5, <1>6, <1>7, <1>8 DEF Next, Handlers

\* Its bytes.
LEMMA MotionKept ==
    ASSUME MotionInOrder, motion' = motion, Holds("mouse")' => output' = output
    PROVE  MotionInOrder' /\ NextField' = NextField
PROOF
  BY DEF MotionInOrder, NextField, Holds

LEMMA MotionStep ==
    ASSUME TypeOK, MotionInOrder, [Next]_vars
    PROVE  MotionInOrder'
PROOF
  <1>1. CASE move
    <2>1. /\ motion = << >> /\ motion' \in Seq(MouseByte) /\ Len(motion') = 3
          /\ \A i \in 1 .. 3 : motion'[i].field = i - 1
          /\ motion'[1].valid /\ output' = output
      BY <1>1, InputAssumption DEF move
    <2>2. NextField = 0 /\ NextField' = 0
      BY <2>1 DEF NextField
    <2>3. \A i \in DOMAIN motion' : /\ motion'[i].field = 2 - Len(motion') + i
                                    /\ motion'[i].field = 0 => motion'[i].valid
      <3> TAKE i \in DOMAIN motion'
      <3>1. i \in 1 .. 3
        BY <2>1
      <3> QED  BY <2>1, <3>1
    <2> QED  BY <2>1, <2>2, <2>3 DEF MotionInOrder, Holds
  <1>2. CASE deliver_motion
    <2> DEFINE n == Len(motion)
    <2>1. /\ motion \in Seq(MouseByte) /\ n \in 1 .. 3 /\ motion # << >>
          /\ motion' = Tail(motion) /\ output'.data = Head(motion)
      <3>1. motion \in Seq(MouseByte) /\ motion # << >> /\ n <= 3
        BY <1>2 DEF deliver_motion, MotionInOrder, TypeOK
      <3>2. n \in 1 .. 3
        <4>1. 3 \in Nat
          OBVIOUS
        <4> QED  BY <3>1, <4>1, NonEmpty, Zenon
      <3> QED  BY <1>2, <3>1, <3>2 DEF deliver_motion
    <2>2. /\ Len(motion') = n - 1 /\ DOMAIN motion' = 1 .. (n - 1)
          /\ \A i \in 1 .. (n - 1) : motion'[i] = motion[i + 1]
      BY <2>1
    <2>3. motion[1].field = 3 - n /\ (motion[1].field = 0 => motion[1].valid)
      <3>1. 1 \in DOMAIN motion
        BY <2>1
      <3> QED  BY <3>1, <2>1 DEF MotionInOrder
    <2>4. \A i \in DOMAIN motion' : /\ motion'[i].field = 2 - Len(motion') + i
                                    /\ motion'[i].field = 0 => motion'[i].valid
      <3> TAKE i \in DOMAIN motion'
      <3>1. i + 1 \in DOMAIN motion /\ i \in 1 .. (n - 1)
        BY <2>1, <2>2
      <3>2. motion[i + 1].field = 2 - n + (i + 1) /\ (motion[i + 1].field = 0 => motion[i + 1].valid)
        BY <3>1 DEF MotionInOrder
      <3> QED  BY <2>1, <2>2, <3>1, <3>2
    <2>5. NextField' = IF n = 1 THEN 0 ELSE 4 - n
      BY <2>1, <2>2 DEF NextField
    <2>6. Head(motion) = motion[1]
      BY <2>1
    <2> QED  BY <2>1, <2>2, <2>3, <2>4, <2>5, <2>6 DEF MotionInOrder
  <1>3. CASE deliver_key
    BY <1>3, MotionKept DEF deliver_key, Holds
  <1>4. CASE (\E k \in Key : press(k) \/ release(k)) \/ timer_interrupt \/ process_popkey
    BY <1>4, MotionKept DEF press, release, timer_interrupt, process_popkey
  <1>5. CASE Handlers
    BY <1>5, MotionKept DEF Handlers, keyboard_interrupt, keyboard_handler, mouse_interrupt,
         mouse_handler, mouse_handler_drops, mouse_handler_ends, Holds
  <1>6. CASE UNCHANGED vars
    BY <1>6, MotionKept DEF vars
  <1> QED
    BY <1>1, <1>2, <1>3, <1>4, <1>5, <1>6 DEF Next

\* What holds as long as no byte of the mouse was thrown away.
Clean == Aligned /\ ~torn /\ (pc # "mouse" => in_service = {})

\* A step that touches neither the assembler nor the byte that it gets next.
LEMMA AlignedKept ==
    ASSUME Aligned, motion' = motion, mouse_byte' = mouse_byte,
           Holds("mouse")' <=> Holds("mouse"), Holds("mouse") => output' = output
    PROVE  Aligned'
PROOF
  BY DEF Aligned, Stuck, NextField, Holds

LEMMA WholeIs ==
    ASSUME NEW bytes \in Seq(MouseByte), Len(bytes) = 2, NEW b \in MouseByte,
           bytes[1].field = 0, bytes[2].field = 1, b.field = 2
    PROVE  Whole(Append(bytes, b))
PROOF
  <1> DEFINE all == Append(bytes, b)
  <1>1. all[1] = bytes[1]
    OBVIOUS
  <1>2. all[2] = bytes[2]
    OBVIOUS
  <1>3. all[3] = b
    <2>1. \A n : n = Len(bytes) + 1 => all[n] = b
      BY ONLY bytes \in Seq(MouseByte), b \in MouseByte
    <2>2. 3 = Len(bytes) + 1
      OBVIOUS
    <2> QED  BY ONLY <2>1, <2>2
  <1>4. all[1].field = 0 /\ all[2].field = 1 /\ all[3].field = 2
    BY <1>1, <1>2, <1>3
  <1> HIDE DEF all
  <1>5. \A i \in 1 .. 3 : all[i].field = i - 1
    BY <1>4
  <1> QED  BY <1>5 DEF Whole, all

\* One turn of the loop of the mouse handler.
LEMMA HandlerClean ==
    ASSUME TypeOK, MotionInOrder, Clean, mouse_handler
    PROVE  Aligned' /\ ~torn' /\ pc' = "mouse"
PROOF
  <1> DEFINE b == output.data
             n == Len(mouse_byte)
  <1>1. /\ Aligned /\ ~torn /\ Holds("mouse") /\ output' = Empty /\ motion' = motion
        /\ mouse_byte \in Seq(MouseByte) /\ n \in 0 .. 2
    BY DEF mouse_handler, Clean, TypeOK, keyboard
  <1>2. b.field \in 0 .. 2 /\ ~Holds("mouse")'
    BY <1>1, ByteFacts DEF Holds, TypeOK, MouseByte
  <1>3. /\ NextField' = NextField
        /\ NextField = IF b.field = 2 THEN 0 ELSE b.field + 1
        /\ b.field = 0 => b.valid
    BY <1>1 DEF MotionInOrder, NextField
  <1>4. ~Stuck => n = b.field
    BY <1>1 DEF Aligned
  <1>5. ~(n = 0 /\ ~b.valid)
    BY <1>3, <1>4 DEF Stuck
  <1>6. pc' = "mouse"
    BY <1>5 DEF mouse_handler
  <1>7. CASE n = 2 /\ mouse_byte[1].overflow
    <2>1. mouse_byte' = mouse_byte /\ ~torn'
      BY <1>7, <1>1 DEF mouse_handler, Completed
    <2> QED  BY <2>1, <1>1, <1>6, <1>7 DEF Aligned, Stuck
  <1>8. CASE n = 2 /\ ~mouse_byte[1].overflow
    <2>1. mouse_byte' = << >> /\ b.field = 2
      BY <1>8, <1>4 DEF mouse_handler, Completed, Stuck
    <2>2. Whole(Append(mouse_byte, b))
      <3>1. b \in MouseByte
        BY <1>1, ByteFacts DEF Holds, TypeOK
      <3>2. Len(mouse_byte) = 2 /\ 1 \in DOMAIN mouse_byte /\ 2 \in DOMAIN mouse_byte
        BY <1>1, <1>8
      <3>3. mouse_byte[1].field = 0 /\ mouse_byte[2].field = 1
        BY <1>1, <3>2 DEF Aligned
      <3> QED  BY <1>1, <2>1, <3>1, <3>2, <3>3, WholeIs
    <2>3. ~torn'
      BY <1>1, <2>2 DEF mouse_handler
    <2>4. Aligned'
      BY <2>1, <1>2, <1>3 DEF Aligned
    <2> QED  BY <2>3, <2>4, <1>6
  <1>9. CASE n # 2
    <2>1. mouse_byte' = Append(mouse_byte, b)
      BY <1>9, <1>5 DEF mouse_handler
    <2>5. b.field = n /\ ~torn'
      BY <1>1, <1>9, <1>4 DEF mouse_handler, Stuck
    <2>2. /\ DOMAIN mouse_byte' = 1 .. (n + 1) /\ Len(mouse_byte') = n + 1
          /\ \A i \in 1 .. n : mouse_byte'[i] = mouse_byte[i]
          /\ mouse_byte'[n + 1] = b
      BY <2>1, <1>1
    <2>3. \A i \in DOMAIN mouse_byte' : mouse_byte'[i].field = i - 1
      <3> TAKE i \in DOMAIN mouse_byte'
      <3>1. CASE i = n + 1
        BY <3>1, <2>1, <2>2, <2>5, <1>1
      <3>2. CASE i # n + 1
        <4>1. i \in 1 .. n
          BY <3>2, <2>2, <1>1
        <4> QED  BY <4>1, <2>2, <1>1 DEF Aligned
      <3> QED  BY <3>1, <3>2
    <2>4. Len(mouse_byte') = NextField'
      BY <1>1, <1>3, <1>9, <2>2, <2>5
    <2> QED  BY <2>5, <2>3, <2>4, <1>1, <1>2, <1>6 DEF Aligned
  <1> QED  BY <1>7, <1>8, <1>9

LEMMA CleanStep ==
    ASSUME TypeOK, MouseInv, "mouse" \notin lost', [Next]_vars
    PROVE  Clean'
PROOF
  <1>1. MotionInOrder /\ LinesPaired
    BY DEF MouseInv
  <1>2. lost \subseteq lost'
    BY DEF Next, Handlers, vars, press, release, move, deliver_key, deliver_motion, timer_interrupt,
       process_popkey, keyboard_interrupt, keyboard_handler, mouse_interrupt, mouse_handler,
       mouse_handler_drops, mouse_handler_ends
  <1>3. Clean
    BY <1>2 DEF MouseInv, Clean
  <1>4. Aligned /\ ~torn /\ (pc # "mouse" => in_service = {})
    BY <1>3 DEF Clean
  <1>5. CASE move
    <2>1. motion = << >> /\ Len(motion') = 3 /\ motion' # << >>
      BY <1>5, InputAssumption DEF move
    <2>2. NextField' = NextField
      BY <2>1 DEF NextField
    <2>3. Aligned'
      BY <1>4, <1>5, <2>2 DEF move, assembler, Aligned, Stuck, Holds
    <2> QED  BY <1>4, <1>5, <2>3 DEF move, assembler, Clean
  <1>6. CASE deliver_motion
    <2> DEFINE n == Len(motion)
    <2>1. /\ n \in 1 .. 3 /\ motion # << >> /\ ~Holds("mouse") /\ Holds("mouse")'
          /\ output'.data = motion[1] /\ 1 \in DOMAIN motion /\ mouse_byte' = mouse_byte
      <3>1. motion \in Seq(MouseByte) /\ motion # << >> /\ Len(motion) <= 3
        BY <1>6, <1>1 DEF deliver_motion, TypeOK, MotionInOrder
      <3>2. Head(motion) = motion[1] /\ 1 \in DOMAIN motion /\ Len(motion) \in 1 .. 3
        <4>1. 3 \in Nat
          OBVIOUS
        <4> QED  BY <3>1, <4>1, NonEmpty, Zenon
      <3>3. output' = [device |-> "mouse", data |-> Head(motion)] /\ output = Empty
        BY <1>6 DEF deliver_motion
      <3>4. output' \in Byte
        BY <3>1, <3>2, <3>3 DEF Byte
      <3> QED  BY <1>6, <3>1, <3>2, <3>3, <3>4, ByteFacts DEF Holds, deliver_motion, assembler
    <2>2. motion[1].field = 3 - n
      BY <1>1, <2>1 DEF MotionInOrder
    <2>3. NextField = 3 - n
      BY <2>1 DEF NextField
    <2>4. Aligned'
      BY <1>4, <2>1, <2>2, <2>3 DEF Aligned, Stuck
    <2> QED  BY <1>4, <1>6, <2>4 DEF deliver_motion, assembler, Clean
  <1>7. CASE deliver_key
    <2>1. ~Holds("mouse") /\ ~Holds("mouse")'
      BY <1>7 DEF deliver_key, Holds
    <2>2. Aligned'
      BY <1>4, <1>7, <2>1, AlignedKept DEF deliver_key, assembler
    <2> QED  BY <1>4, <1>7, <2>2 DEF deliver_key, assembler, Clean
  <1>8. CASE mouse_handler
    <2>1. Aligned' /\ ~torn' /\ pc' = "mouse"
      BY <1>1, <1>3, <1>8, HandlerClean
    <2> QED  BY <2>1 DEF Clean
  <1>9. CASE keyboard_interrupt
    <2>1. ~Holds("mouse") /\ ~Holds("mouse")' /\ motion' = motion /\ mouse_byte' = mouse_byte /\ torn' = torn
      BY <1>9 DEF keyboard_interrupt, Holds, assembler
    <2>2. Aligned'
      BY <1>4, <2>1, AlignedKept
    <2>3. pc # "mouse" /\ in_service = {}
      BY <1>4, <1>9 DEF keyboard_interrupt
    <2>4. in_service' = {}
      BY <1>9, <2>3 DEF keyboard_interrupt, Taken, pic_EOI, Ended
    <2> QED  BY <1>4, <2>1, <2>2, <2>4 DEF Clean
  <1>10. CASE keyboard_handler
    <2>1. ~Holds("mouse") /\ ~Holds("mouse")' /\ motion' = motion /\ mouse_byte' = mouse_byte /\ torn' = torn
      BY <1>10 DEF keyboard_handler, Holds, assembler
    <2>2. Aligned'
      BY <1>4, <2>1, AlignedKept
    <2> QED  BY <1>4, <1>10, <2>1, <2>2 DEF keyboard_handler, Clean
  <1>11. CASE mouse_handler_drops
    <2>1. ~Holds("mouse") /\ ~Holds("mouse")' /\ motion' = motion /\ mouse_byte' = mouse_byte /\ torn' = torn
      BY <1>11 DEF mouse_handler_drops, Holds, assembler
    <2>2. Aligned'
      BY <1>4, <2>1, AlignedKept
    <2> QED  BY <1>4, <1>11, <2>1, <2>2 DEF mouse_handler_drops, Clean
  <1>12. CASE mouse_interrupt
    <2>1. Aligned'
      BY <1>4, <1>12, AlignedKept DEF mouse_interrupt, assembler, Holds
    <2> QED  BY <1>4, <1>12, <2>1 DEF mouse_interrupt, assembler, Clean
  <1>13. CASE mouse_handler_ends
    <2>1. Aligned'
      BY <1>4, <1>13, AlignedKept DEF mouse_handler_ends, assembler, Holds
    <2>2. in_service' = {}
      BY <1>1, <1>13 DEF mouse_handler_ends, LinesPaired, pic_EOI, Ended
    <2> QED  BY <1>4, <1>13, <2>1, <2>2 DEF mouse_handler_ends, assembler, Clean
  <1>14. CASE timer_interrupt
    <2>1. Aligned'
      BY <1>4, <1>14, AlignedKept DEF timer_interrupt, assembler, Holds
    <2>2. in_service' = {}
      BY <1>4, <1>14 DEF timer_interrupt, Taken, pic_EOI, Ended
    <2> QED  BY <1>4, <1>14, <2>1, <2>2 DEF timer_interrupt, assembler, Clean
  <1>15. CASE (\E k \in Key : press(k) \/ release(k)) \/ process_popkey \/ UNCHANGED vars
    <2>1. UNCHANGED <<motion, output, in_service, pc, assembler>>
      BY <1>15 DEF press, release, process_popkey, vars
    <2>2. Aligned'
      BY <1>4, <2>1, AlignedKept DEF assembler, Holds
    <2> QED  BY <1>4, <2>1, <2>2 DEF assembler, Clean
  <1> QED
    BY <1>5, <1>6, <1>7, <1>8, <1>9, <1>10, <1>11, <1>12, <1>13, <1>14, <1>15 DEF Next, Handlers

LEMMA MouseStep ==
    ASSUME TypeOK, MouseInv, [Next]_vars
    PROVE  MouseInv'
PROOF
  <1>1. MotionInOrder' /\ LinesPaired'
    BY MotionStep, LinesStep DEF MouseInv
  <1>2. "mouse" \notin lost' => Clean'
    BY CleanStep
  <1> QED  BY <1>1, <1>2 DEF MouseInv, Clean

----------------------------------------------------------------------------
\* The shifts.

LEMMA ShiftInit == Init => ShiftInv
PROOF
  BY DEF Init, ShiftInv, LastPressed, Holds

\* A code behind the others has the last word when it is one of a shift.
LEMMA AppendShifts ==
    ASSUME NEW ks \in Seq(Code), NEW c \in Code
    PROVE  /\ LastPressed(Append(ks, c)) =>
                 ShiftPressed(c) \/ (c.key \notin Shifts /\ LastPressed(ks))
           /\ NoShift(Append(ks, c)) => NoShift(ks) /\ c.key \notin Shifts
PROOF
  <1> DEFINE n == Len(ks)
             all == Append(ks, c)
  <1>1. /\ n \in Nat /\ DOMAIN ks = 1 .. n /\ DOMAIN all = 1 .. (n + 1)
        /\ \A i \in 1 .. n : all[i] = ks[i]
        /\ all[n + 1] = c
    OBVIOUS
  <1>2. n + 1 \in DOMAIN all /\ \A i \in 1 .. n : i \in DOMAIN all /\ n + 1 > i
    BY <1>1
  <1> HIDE DEF all, n
  <1>3. ASSUME LastPressed(all), ~ShiftPressed(c) PROVE c.key \notin Shifts /\ LastPressed(ks)
    <2>1. PICK i \in DOMAIN all : /\ ShiftPressed(all[i])
                                  /\ \A j \in DOMAIN all : j > i => all[j].key \notin Shifts
      BY <1>3 DEF LastPressed
    <2>2. i # n + 1
      BY <1>1, <1>3, <2>1
    <2>3. i \in 1 .. n
      BY <1>1, <2>2
    <2>4. \A j \in DOMAIN ks : j > i => ks[j].key \notin Shifts
      BY <1>1, <1>2, <2>1
    <2>5. c.key \notin Shifts
      BY <1>1, <1>2, <2>1, <2>3
    <2> QED  BY <1>1, <2>1, <2>3, <2>4, <2>5 DEF LastPressed
  <1>4. ASSUME NoShift(all) PROVE NoShift(ks) /\ c.key \notin Shifts
    BY <1>1, <1>2, <1>4 DEF NoShift
  <1> QED  BY <1>3, <1>4 DEF all

\* The first code taken from the others.
LEMMA TailShifts ==
    ASSUME NEW ks \in Seq(Code), ks # << >>
    PROVE  /\ LastPressed(Tail(ks)) => LastPressed(ks)
           /\ NoShift(Tail(ks)) /\ ShiftPressed(Head(ks)) => LastPressed(ks)
           /\ NoShift(Tail(ks)) /\ Head(ks).key \notin Shifts => NoShift(ks)
PROOF
  <1> DEFINE n == Len(ks)
             rest == Tail(ks)
  <1>1. n \in Nat /\ DOMAIN ks = 1 .. n /\ 1 \in DOMAIN ks /\ Head(ks) = ks[1]
    BY NonEmpty
  <1>2. DOMAIN rest = 1 .. (n - 1) /\ \A i \in 1 .. (n - 1) : rest[i] = ks[i + 1]
    BY <1>1
  <1>3. \A i \in DOMAIN rest : i + 1 \in DOMAIN ks /\ rest[i] = ks[i + 1]
    BY <1>1, <1>2
  <1>4. \A j \in DOMAIN ks : j > 1 => j - 1 \in DOMAIN rest /\ rest[j - 1] = ks[j]
    BY <1>1, <1>2
  <1> HIDE DEF n, rest
  <1>5. ASSUME LastPressed(rest) PROVE LastPressed(ks)
    <2>1. PICK i \in DOMAIN rest : /\ ShiftPressed(rest[i])
                                   /\ \A j \in DOMAIN rest : j > i => rest[j].key \notin Shifts
      BY <1>5 DEF LastPressed
    <2>2. i \in Nat
      BY <1>2
    <2>3. ASSUME NEW j \in DOMAIN ks, j > i + 1 PROVE ks[j].key \notin Shifts
      <3>1. j \in Nat /\ j > 1 /\ j - 1 > i
        BY <1>1, <2>2, <2>3
      <3> QED  BY <1>4, <2>1, <3>1
    <2> QED  BY <1>3, <2>1, <2>3 DEF LastPressed
  <1>6. ASSUME NoShift(rest) PROVE \A j \in DOMAIN ks : j > 1 => ks[j].key \notin Shifts
    BY <1>4, <1>6 DEF NoShift
  <1>7. ASSUME NoShift(rest), ShiftPressed(Head(ks)) PROVE LastPressed(ks)
    BY <1>1, <1>6, <1>7 DEF LastPressed
  <1>8. ASSUME NoShift(rest), Head(ks).key \notin Shifts PROVE NoShift(ks)
    <2> SUFFICES ASSUME NEW j \in DOMAIN ks PROVE ks[j].key \notin Shifts
      BY DEF NoShift
    <2>1. CASE j = 1
      BY <1>1, <1>8, <2>1
    <2>2. CASE j # 1
      <3>1. j > 1
        BY <1>1, <2>2
      <3> QED  BY <1>6, <1>8, <3>1
    <2> QED  BY <2>1, <2>2
  <1> QED  BY <1>5, <1>7, <1>8 DEF rest

\* A step that moves no code of the keyboard and changes no shift.
LEMMA ShiftKept ==
    ASSUME ShiftInv, UNCHANGED <<down, keys, shift, scancode, lost>>,
           Holds("keyboard")' <=> Holds("keyboard"),
           Holds("keyboard") => output' = output,
           pc' = "keyboard" <=> pc = "keyboard"
    PROVE  ShiftInv'
PROOF
  BY DEF ShiftInv, NoneInOutput, NoneInHandler, NoShift, LastPressed, ShiftPressed, Holds

LEMMA ShiftStep ==
    ASSUME TypeOK, ShiftInv, [Next]_vars
    PROVE  ShiftInv'
PROOF
  <1>1. ASSUME NEW k \in Key, press(k) PROVE ShiftInv'
    <2> DEFINE c == [key |-> k, release |-> FALSE]
    <2>1. c \in Code /\ keys \in Seq(Code) /\ keys' = Append(keys, c) /\ c.key = k
      BY <1>1 DEF press, Code, TypeOK
    <2>2. UNCHANGED <<output, pc, scancode, shift, lost>> /\ down' = down \cup ({k} \cap Shifts)
      BY <1>1 DEF press, modifiers
    <2>3. CASE k \in Shifts
      BY <2>2, <2>3 DEF ShiftInv
    <2>4. CASE k \notin Shifts
      <3>1. down' = down /\ ~ShiftPressed(c)
        BY <2>1, <2>2, <2>4 DEF ShiftPressed
      <3>2. (LastPressed(keys') => LastPressed(keys)) /\ (NoShift(keys') => NoShift(keys))
        BY <2>1, <3>1, AppendShifts
      <3> QED  BY <2>2, <3>1, <3>2 DEF ShiftInv, NoneInOutput, NoneInHandler, Holds
    <2> QED  BY <2>3, <2>4
  <1>2. ASSUME NEW k \in Key, release(k) PROVE ShiftInv'
    <2> DEFINE c == [key |-> k, release |-> TRUE]
    <2>1. c \in Code /\ keys \in Seq(Code) /\ keys' = Append(keys, c) /\ c.key = k
      BY <1>2 DEF release, Code, TypeOK
    <2>2. UNCHANGED <<output, pc, scancode, shift, lost>> /\ down' = down \ {k}
      BY <1>2 DEF release, modifiers
    <2>3. ~ShiftPressed(c)
      BY DEF ShiftPressed
    <2>4. CASE k \in Shifts
      <3>1. ~LastPressed(keys') /\ ~NoShift(keys')
        BY <2>1, <2>3, <2>4, AppendShifts
      <3> QED  BY <3>1 DEF ShiftInv
    <2>5. CASE k \notin Shifts
      <3>1. down' = down
        BY <2>2, <2>5 DEF TypeOK
      <3>2. (LastPressed(keys') => LastPressed(keys)) /\ (NoShift(keys') => NoShift(keys))
        BY <2>1, <2>3, AppendShifts
      <3> QED  BY <2>2, <3>1, <3>2 DEF ShiftInv, NoneInOutput, NoneInHandler, Holds
    <2> QED  BY <2>4, <2>5
  <1>3. CASE deliver_key
    <2>1. /\ keys \in Seq(Code) /\ keys # << >> /\ keys' = Tail(keys)
          /\ UNCHANGED <<down, pc, scancode, shift, lost>>
      BY <1>3 DEF deliver_key, TypeOK, modifiers
    <2>2. ~Holds("keyboard") /\ output'.data = Head(keys)
      BY <1>3 DEF deliver_key, Holds
    <2>3. Holds("keyboard")'
      <3>1. Head(keys) \in Code
        BY <2>1
      <3>2. output' \in Byte /\ output'.device = "keyboard"
        BY <1>3, <3>1 DEF deliver_key, Byte
      <3> QED  BY <3>2, ByteFacts DEF Holds
    <2>4. LastPressed(keys') => LastPressed(keys)
      BY <2>1, TailShifts
    <2>5. NoShift(keys') /\ ShiftPressed(output'.data) => LastPressed(keys)
      BY <2>1, <2>2, TailShifts
    <2>6. NoShift(keys') /\ NoneInOutput' => NoShift(keys) /\ NoneInOutput
      BY <2>1, <2>2, <2>3, TailShifts DEF NoneInOutput
    <2>7. NoneInHandler' => NoneInHandler
      BY <2>1 DEF NoneInHandler
    <2> QED  BY <2>1, <2>4, <2>5, <2>6, <2>7 DEF ShiftInv
  <1>4. CASE keyboard_interrupt
    <2>1. /\ Holds("keyboard") /\ ~Holds("keyboard")' /\ scancode' = output.data
          /\ UNCHANGED <<down, keys, shift, lost>> /\ pc = "user"
      BY <1>4 DEF keyboard_interrupt, Holds, keyboard, modifiers
    <2>2. NoneInHandler' /\ pc' = "keyboard" => NoneInOutput
      BY <2>1 DEF NoneInHandler, NoneInOutput
    <2>3. NoneInHandler /\ NoneInOutput' /\ pc' = "keyboard"
      BY <1>4, <2>1 DEF NoneInHandler, NoneInOutput, keyboard_interrupt
    <2> QED  BY <2>1, <2>2, <2>3 DEF ShiftInv
  <1>5. CASE keyboard_handler
    <2> SUFFICES ASSUME "keyboard" \notin lost', NoShift(keys), shift' PROVE down # {}
      <3>1. pc' = "user" /\ ~Holds("keyboard")' /\ down' = down /\ keys' = keys /\ lost \subseteq lost'
        BY <1>5 DEF keyboard_handler, Holds, keyboard
      <3> QED  BY <3>1 DEF ShiftInv
    <2>1. ~Holds("keyboard") /\ "keyboard" \notin lost /\ pc = "keyboard"
      BY <1>5 DEF keyboard_handler
    <2>2. NoneInOutput
      BY <2>1 DEF NoneInOutput
    <2>3. scancode.release \in BOOLEAN
      BY <2>1 DEF TypeOK, Code
    <2>4. CASE ShiftPressed(scancode)
      BY <2>1, <2>2, <2>4 DEF ShiftInv
    <2>5. CASE ~ShiftPressed(scancode)
      <3>1. shift /\ ~ShiftReleased(scancode)
        BY <1>5, <2>5 DEF keyboard_handler
      <3>2. NoneInHandler
        BY <2>3, <2>5, <3>1 DEF NoneInHandler, ShiftPressed, ShiftReleased
      <3> QED  BY <2>1, <2>2, <3>1, <3>2 DEF ShiftInv
    <2> QED  BY <2>4, <2>5
  <1>6. CASE mouse_handler_drops
    BY <1>6 DEF mouse_handler_drops, ShiftInv
  <1>7. CASE mouse_handler
    BY <1>7, ShiftKept DEF mouse_handler, Holds, keyboard, modifiers
  <1>8. CASE deliver_motion
    BY <1>8, ShiftKept DEF deliver_motion, Holds, keyboard, modifiers
  <1>9. CASE move \/ timer_interrupt \/ process_popkey
    BY <1>9, ShiftKept DEF move, timer_interrupt, process_popkey, keyboard, modifiers, Holds
  <1>10. CASE mouse_interrupt \/ mouse_handler_ends
    BY <1>10, ShiftKept DEF mouse_interrupt, mouse_handler_ends, Holds, keyboard, modifiers
  <1>11. CASE UNCHANGED vars
    BY <1>11, ShiftKept DEF vars, keyboard, modifiers, Holds
  <1> QED
    BY <1>1, <1>2, <1>3, <1>4, <1>5, <1>6, <1>7, <1>8, <1>9, <1>10, <1>11 DEF Next, Handlers

----------------------------------------------------------------------------
\* The invariant, and what follows from it.

\* The four parts together are inductive: process_popkey keeps the types only
\* in a ring whose keys are in order.
THEOREM InputInductive == Spec => []IInv
PROOF
  <1>1. Init => IInv
    BY TypeInit, KeysInit, MouseInit, ShiftInit DEF IInv
  <1>2. IInv /\ [Next]_vars => IInv'
    <2> SUFFICES ASSUME IInv, [Next]_vars PROVE IInv'
      OBVIOUS
    <2>1. TypeOK'
      BY TypeStep DEF IInv
    <2>2. KeysInOrder'
      BY <2>1, KeysStep DEF IInv
    <2>3. MouseInv' /\ ShiftInv'
      BY MouseStep, ShiftStep DEF IInv
    <2> QED  BY <2>1, <2>2, <2>3 DEF IInv
  <1> QED  BY <1>1, <1>2, PTL DEF Spec

\* For every size of the ring, its order is that of the keys typed, and a free
\* slot at its head means that there is none (process.cpp:245-265).
THEOREM InputKeysInOrder == Spec => []KeysInOrder
PROOF
  <1>1. IInv => KeysInOrder
    BY DEF IInv
  <1> QED  BY <1>1, InputInductive, PTL

\* Whatever packets the mouse sends, the pipe gets none mixed of two as long as
\* the keyboard handler has eaten no byte of the mouse (ps2keyboard.c:102).
THEOREM InputPacketsWhole == Spec => []PacketsWhole
PROOF
  <1>1. IInv => PacketsWhole
    BY DEF IInv, MouseInv, PacketsWhole
  <1> QED  BY <1>1, InputInductive, PTL

\* Until then every interrupt is acknowledged: the return of PS2Mouse.cpp:30
\* that skips it is not reached.
THEOREM InputLinesReleased == Spec => []LinesReleased
PROOF
  <1>1. IInv => LinesReleased
    BY DEF IInv, MouseInv, LinesReleased
  <1> QED  BY <1>1, InputInductive, PTL

\* A shift that was let go is off when all codes are handled and none was
\* thrown away, in whatever order both shifts are pressed and let go.
THEOREM InputShiftLetGo == Spec => []ShiftLetGo
PROOF
  <1>1. IInv => ShiftLetGo
    BY DEF IInv, ShiftInv, ShiftLetGo, NoShift, NoneInOutput, NoneInHandler, Holds
  <1> QED  BY <1>1, InputInductive, PTL

----------------------------------------------------------------------------
\* The console.

\* Where the cell of row y and column x is in the video memory.
CellAt(y, x) == y * WIDTH + x

\* What a text has there.
CellOf(lines, y, x) ==
    IF y < Len(lines) /\ x < Len(lines[y + 1]) THEN lines[y + 1][x + 1] ELSE Blank

Shows(mem, lines) ==
    \A y \in 0 .. (HEIGHT - 1), x \in 0 .. (WIDTH - 1) : mem[CellAt(y, x)] = CellOf(lines, y, x)

\* A text that fits the screen, of cells from S.
IsText(lines, S) ==
    /\ lines \in Seq(Seq(S))
    /\ Len(lines) \in 1 .. HEIGHT
    /\ \A i \in 1 .. Len(lines) : Len(lines[i]) <= WIDTH

ConsoleType(S) ==
    /\ device \in {"text_mode", "vbe", "framebuffer"}
    /\ video_mem \in [Cell -> S]
    /\ paper \in [lines : Seq(Seq(S)), column : 0 .. WIDTH]
    /\ IsText(paper.lines, S)
    /\ paper.column <= Len(paper.lines[Len(paper.lines)])

\* The inductive invariant of the console.
ConsoleInv == (\E S : ConsoleType(S)) /\ ScreenShowsTail

LEMMA SizeFacts ==
    WIDTH \in Nat /\ WIDTH > 0 /\ HEIGHT \in Nat /\ HEIGHT > 0 /\ WIDTH * HEIGHT \in Nat
PROOF
  BY ConsoleAssumption

LEMMA PlaceInCell ==
    ASSUME NEW y \in 0 .. (HEIGHT - 1), NEW x \in 0 .. (WIDTH - 1)
    PROVE  CellAt(y, x) \in Cell
PROOF
  <1>1. y \in Nat /\ x \in Nat /\ y + 1 <= HEIGHT /\ x + 1 <= WIDTH
    BY SizeFacts
  <1>2. (y + 1) * WIDTH <= HEIGHT * WIDTH
    BY <1>1, SizeFacts
  <1>3. (y + 1) * WIDTH = y * WIDTH + WIDTH /\ HEIGHT * WIDTH = WIDTH * HEIGHT /\ y * WIDTH \in Nat
    BY <1>1, SizeFacts
  <1> QED  BY <1>1, <1>2, <1>3, SizeFacts DEF CellAt, Cell

\* No two cells are at the same place.
LEMMA PlacesApart ==
    ASSUME NEW y \in 0 .. (HEIGHT - 1), NEW x \in 0 .. (WIDTH - 1),
           NEW z \in 0 .. (HEIGHT - 1), NEW w \in 0 .. (WIDTH - 1),
           CellAt(y, x) = CellAt(z, w)
    PROVE  y = z /\ x = w
PROOF
  <1>1. \A a, b \in Nat : a < b => a * WIDTH + WIDTH <= b * WIDTH
    <2>1. ASSUME NEW a \in Nat, NEW b \in Nat, a < b PROVE a * WIDTH + WIDTH <= b * WIDTH
      <3>1. (a + 1) * WIDTH <= b * WIDTH
        BY <2>1, SizeFacts
      <3>2. (a + 1) * WIDTH = a * WIDTH + WIDTH
        BY SizeFacts
      <3> QED  BY <3>1, <3>2
    <2> QED  BY <2>1
  <1>2. /\ y \in Nat /\ z \in Nat /\ x \in Nat /\ w \in Nat /\ x < WIDTH /\ w < WIDTH
        /\ y * WIDTH \in Nat /\ z * WIDTH \in Nat
    BY SizeFacts
  <1>3. y * WIDTH + x = z * WIDTH + w
    BY DEF CellAt
  <1>4. ~(y < z)
    BY <1>1, <1>2, <1>3, SizeFacts
  <1>5. ~(z < y)
    BY <1>1, <1>2, <1>3, SizeFacts
  <1>6. y = z
    BY <1>2, <1>4, <1>5
  <1> QED  BY <1>2, <1>3, <1>6

\* One row further down.
LEMMA PlaceBelow ==
    ASSUME NEW y \in 0 .. (HEIGHT - 1), NEW x \in 0 .. (WIDTH - 1)
    PROVE  /\ CellAt(y, x) < WIDTH * (HEIGHT - 1) <=> y < HEIGHT - 1
           /\ CellAt(y, x) + WIDTH * 1 = CellAt(y + 1, x)
PROOF
  <1>1. y \in Nat /\ x \in Nat /\ x < WIDTH /\ y <= HEIGHT - 1 /\ y * WIDTH \in Nat
    BY SizeFacts
  <1>2. (y + 1) * WIDTH = y * WIDTH + WIDTH /\ WIDTH * (HEIGHT - 1) = (HEIGHT - 1) * WIDTH
    BY <1>1, SizeFacts
  <1>3. ASSUME y < HEIGHT - 1 PROVE CellAt(y, x) < WIDTH * (HEIGHT - 1)
    <2>1. (y + 1) * WIDTH <= (HEIGHT - 1) * WIDTH
      BY <1>1, <1>3, SizeFacts
    <2> QED  BY <1>1, <1>2, <2>1, SizeFacts DEF CellAt
  <1>4. ASSUME y = HEIGHT - 1 PROVE ~(CellAt(y, x) < WIDTH * (HEIGHT - 1))
    BY <1>1, <1>2, <1>4, SizeFacts DEF CellAt
  <1>5. CellAt(y, x) + WIDTH * 1 = CellAt(y + 1, x)
    BY <1>1, <1>2, SizeFacts DEF CellAt
  <1> QED  BY <1>1, <1>3, <1>4, <1>5, SizeFacts

LEMMA SeqGrows ==
    ASSUME NEW S, NEW T, S \subseteq T
    PROVE  Seq(S) \subseteq Seq(T)
PROOF
  OBVIOUS

LEMMA TextGrows ==
    ASSUME NEW S, NEW T, S \subseteq T, NEW lines, IsText(lines, S)
    PROVE  IsText(lines, T)
PROOF
  <1>1. Seq(S) \subseteq Seq(T)
    BY SeqGrows
  <1>2. Seq(Seq(S)) \subseteq Seq(Seq(T))
    BY <1>1, SeqGrows
  <1> QED  BY <1>2 DEF IsText

\* What a line feed makes of the text: the screen has one more row of it, or
\* all rows move up.
LEMMA LineAppended ==
    ASSUME NEW S, NEW lines, IsText(lines, S), NEW last \in Seq(S), Len(last) <= WIDTH
    PROVE  LET n == Len(lines)
               new == LastLines(Append(lines, last))
           IN  /\ IsText(new, S)
               /\ n < HEIGHT => /\ Len(new) = n + 1 /\ new[n + 1] = last
                                /\ \A i \in 1 .. n : new[i] = lines[i]
               /\ n = HEIGHT => /\ Len(new) = n /\ new[n] = last
                                /\ \A i \in 1 .. (n - 1) : new[i] = lines[i + 1]
PROOF
  <1> DEFINE n == Len(lines)
             more == Append(lines, last)
             new == LastLines(more)
  <1>1. /\ lines \in Seq(Seq(S)) /\ n \in 1 .. HEIGHT /\ n \in Nat
        /\ \A i \in 1 .. n : Len(lines[i]) <= WIDTH
    BY SizeFacts DEF IsText
  <1>2. /\ more \in Seq(Seq(S)) /\ Len(more) = n + 1 /\ more[n + 1] = last
        /\ \A i \in 1 .. n : more[i] = lines[i]
    BY <1>1
  <1> HIDE DEF more, n
  <1>3. CASE n < HEIGHT
    <2>1. new = SubSeq(more, 1, n + 1)
      <3>1. ~(Len(more) > HEIGHT) /\ 1 + 0 = 1
        BY <1>1, <1>2, <1>3, SizeFacts
      <3> QED  BY <1>2, <3>1 DEF LastLines
    <2>2. new = more
      BY <1>1, <1>2, <2>1
    <2>3. \A i \in 1 .. (n + 1) : i \in 1 .. n \/ i = n + 1
      BY <1>1
    <2>4. IsText(more, S)
      <3>1. \A i \in 1 .. (n + 1) : Len(more[i]) <= WIDTH
        BY <1>1, <1>2, <2>3, Zenon
      <3>2. n + 1 \in 1 .. HEIGHT
        BY <1>1, <1>3, SizeFacts
      <3> QED  BY <1>2, <3>1, <3>2 DEF IsText
    <2> QED  BY <1>1, <1>2, <1>3, <2>2, <2>4 DEF more, n
  <1>4. CASE n = HEIGHT
    <2>1. new = SubSeq(more, 2, n + 1)
      <3>1. Len(more) > HEIGHT /\ Len(more) - HEIGHT = 1 /\ 1 + 1 = 2 /\ Len(more) = n + 1
        BY <1>1, <1>2, <1>4, SizeFacts
      <3> QED  BY <3>1 DEF LastLines
    <2>2. /\ new \in Seq(Seq(S)) /\ Len(new) = n
          /\ \A i \in 1 .. n : new[i] = more[i + 1]
      BY <1>1, <1>2, <2>1
    <2> HIDE DEF new
    <2>3. new[n] = last /\ \A i \in 1 .. (n - 1) : new[i] = lines[i + 1]
      <3>1. n \in 1 .. n /\ \A i \in 1 .. (n - 1) : i \in 1 .. n /\ i + 1 \in 1 .. n
        BY <1>1
      <3> QED  BY <1>2, <2>2, <3>1
    <2>4. \A i \in 1 .. n : i \in 1 .. (n - 1) \/ i = n
      BY <1>1
    <2>5. \A i \in 1 .. n : Len(new[i]) <= WIDTH
      <3>1. ASSUME NEW i \in 1 .. n PROVE Len(new[i]) <= WIDTH
        <4>1. CASE i = n
          BY <2>3, <4>1
        <4>2. CASE i \in 1 .. (n - 1)
          <5>1. i + 1 \in 1 .. n /\ new[i] = lines[i + 1]
            BY <1>1, <2>3, <4>2
          <5> QED  BY <1>1, <5>1
        <4> QED  BY <2>4, <4>1, <4>2
      <3> QED  BY <3>1
    <2>6. IsText(new, S)
      BY <1>1, <2>2, <2>5 DEF IsText
    <2> QED  BY <1>1, <1>4, <2>2, <2>3, <2>6 DEF new, more, n
  <1>5. n < HEIGHT \/ n = HEIGHT
    BY <1>1, SizeFacts
  <1> QED  BY <1>3, <1>4, <1>5 DEF more, n

\* The screen after a line feed: the row of the new line is blank.
LEMMA Fed ==
    ASSUME NEW S, NEW lines, IsText(lines, S),
           NEW mem \in [Cell -> S], Shows(mem, lines)
    PROVE  LET new == LastLines(Append(lines, << >>))
           IN  /\ Len(lines) < HEIGHT => Shows(mem, new)
               /\ Len(lines) = HEIGHT => Shows(Scrolled(mem, 1), new)
PROOF
  <1> DEFINE n == Len(lines)
             new == LastLines(Append(lines, << >>))
  <1>1. << >> \in Seq(S) /\ Len(<< >>) = 0 /\ Len(<< >>) <= WIDTH
    BY SizeFacts
  <1>2. /\ n < HEIGHT => /\ Len(new) = n + 1 /\ new[n + 1] = << >>
                         /\ \A i \in 1 .. n : new[i] = lines[i]
        /\ n = HEIGHT => /\ Len(new) = n /\ new[n] = << >>
                         /\ \A i \in 1 .. (n - 1) : new[i] = lines[i + 1]
    <2>1. ASSUME NEW last \in Seq(S), last = << >>
          PROVE  LET more == LastLines(Append(lines, last))
                 IN  /\ n < HEIGHT => /\ Len(more) = n + 1 /\ more[n + 1] = last
                                      /\ \A i \in 1 .. n : more[i] = lines[i]
                     /\ n = HEIGHT => /\ Len(more) = n /\ more[n] = last
                                      /\ \A i \in 1 .. (n - 1) : more[i] = lines[i + 1]
      <3>1. Len(last) <= WIDTH
        BY <1>1, <2>1
      <3> QED  BY <3>1, LineAppended
    <2> QED  BY <1>1, <2>1, Zenon
  <1>3. n \in 1 .. HEIGHT
    BY DEF IsText
  <1> HIDE DEF n, new
  <1>4. ASSUME n < HEIGHT, NEW y \in 0 .. (HEIGHT - 1), NEW x \in 0 .. (WIDTH - 1)
        PROVE  CellOf(new, y, x) = CellOf(lines, y, x)
    <2>1. y \in Nat /\ x \in Nat
      BY SizeFacts
    <2>2. CASE y < n
      <3>1. y + 1 \in 1 .. n /\ y < Len(new)
        BY <1>2, <1>3, <1>4, <2>1, <2>2
      <3>2. new[y + 1] = lines[y + 1]
        BY <1>2, <1>4, <3>1
      <3> QED  BY <2>2, <3>1, <3>2 DEF CellOf, n
    <2>3. CASE y = n
      <3>1. new[y + 1] = << >> /\ ~(x < Len(new[y + 1])) /\ ~(y < Len(lines))
        BY <1>1, <1>2, <1>3, <1>4, <2>1, <2>3 DEF n
      <3> QED  BY <3>1 DEF CellOf
    <2>4. CASE y > n
      <3>1. ~(y < Len(new)) /\ ~(y < Len(lines))
        BY <1>2, <1>3, <1>4, <2>1, <2>4 DEF n
      <3> QED  BY <3>1 DEF CellOf
    <2> QED  BY <1>3, <2>1, <2>2, <2>3, <2>4
  <1>5. ASSUME n = HEIGHT, NEW y \in 0 .. (HEIGHT - 1), NEW x \in 0 .. (WIDTH - 1)
        PROVE  Scrolled(mem, 1)[CellAt(y, x)] = CellOf(new, y, x)
    <2>1. y \in Nat /\ x \in Nat /\ CellAt(y, x) \in Cell
      BY SizeFacts, PlaceInCell
    <2>2. Scrolled(mem, 1)[CellAt(y, x)] =
              IF y < HEIGHT - 1 THEN mem[CellAt(y + 1, x)] ELSE Blank
      <3>1. Scrolled(mem, 1)[CellAt(y, x)] =
                IF CellAt(y, x) < WIDTH * (HEIGHT - 1) THEN mem[CellAt(y, x) + WIDTH * 1] ELSE Blank
        BY <2>1, Zenon DEF Scrolled
      <3> QED  BY <3>1, PlaceBelow
    <2>3. CASE y < HEIGHT - 1
      <3>1. y + 1 \in 0 .. (HEIGHT - 1) /\ y + 1 \in 1 .. (n - 1) /\ y + 1 + 1 = y + 2
        BY <1>5, <2>1, <2>3, SizeFacts
      <3>2. mem[CellAt(y + 1, x)] = CellOf(lines, y + 1, x)
        BY <3>1 DEF Shows
      <3>3. new[y + 1] = lines[y + 1 + 1] /\ y < Len(new) /\ y + 1 < Len(lines)
        BY <1>2, <1>3, <1>5, <2>1, <2>3, <3>1 DEF n
      <3> QED  BY <2>2, <2>3, <3>2, <3>3 DEF CellOf
    <2>4. CASE ~(y < HEIGHT - 1)
      <3>1. y + 1 = n /\ new[y + 1] = << >> /\ ~(x < Len(new[y + 1]))
        BY <1>1, <1>2, <1>3, <1>5, <2>1, <2>4, SizeFacts
      <3> QED  BY <2>2, <2>4, <3>1 DEF CellOf
    <2> QED  BY <2>3, <2>4
  <1> QED  BY <1>4, <1>5 DEF Shows, n, new

\* A character in the last line of a text, and on the screen.
TextWith(lines, column, c, color) == [lines EXCEPT ![Len(lines)] = Over(@, column, c, color)]
ScreenWith(mem, y, x, c, color) == [mem EXCEPT ![y * WIDTH + x] = Drawn(@, c, color)]

\* The screen after a character: it is drawn where the text has it, over what was there.
LEMMA GlyphShown ==
    ASSUME NEW S, NEW lines, IsText(lines, S),
           NEW mem \in [Cell -> S], Shows(mem, lines),
           NEW column \in 0 .. (WIDTH - 1), column <= Len(lines[Len(lines)]),
           NEW c, NEW color
    PROVE  LET new == TextWith(lines, column, c, color)
               screen == ScreenWith(mem, Len(lines) - 1, column, c, color)
           IN  /\ Shows(screen, new)
               /\ Len(new) = Len(lines) /\ column + 1 <= Len(new[Len(new)])
               /\ \E T : IsText(new, T) /\ screen \in [Cell -> T]
PROOF
  <1> DEFINE n == Len(lines)
             last == lines[n]
             place == CellAt(n - 1, column)
             old == mem[place]
             glyph == Drawn(old, c, color)
             new == [lines EXCEPT ![n] = Over(@, column, c, color)]
             screen == [mem EXCEPT ![(n - 1) * WIDTH + column] = Drawn(@, c, color)]
             T == S \cup {glyph}
  <1>1. /\ lines \in Seq(Seq(S)) /\ n \in 1 .. HEIGHT /\ n \in Nat /\ n - 1 \in 0 .. (HEIGHT - 1)
        /\ \A i \in 1 .. n : Len(lines[i]) <= WIDTH
    BY SizeFacts DEF IsText
  <1>2. /\ last \in Seq(S) /\ Len(last) \in Nat /\ Len(last) <= WIDTH
        /\ column \in Nat /\ column < WIDTH /\ column <= Len(last) /\ n - 1 + 1 = n
    BY <1>1, SizeFacts
  <1>3. place \in Cell /\ place = (n - 1) * WIDTH + column
    BY <1>1, PlaceInCell DEF CellAt
  <1>4. old = IF column < Len(last) THEN last[column + 1] ELSE Blank
    <2>1. old = CellOf(lines, n - 1, column)
      BY <1>1 DEF Shows
    <2> QED  BY <1>1, <1>2, <2>1 DEF CellOf
  <1>5. screen = [mem EXCEPT ![place] = glyph]
    BY <1>3
  <1>6. last \in Seq(T) /\ glyph \in T /\ lines \in Seq(Seq(T)) /\ mem \in [Cell -> T]
    <2> HIDE DEF last, glyph
    <2>1. S \subseteq T /\ glyph \in T
      OBVIOUS
    <2> HIDE DEF T
    <2>2. Seq(S) \subseteq Seq(T)
      BY <2>1, SeqGrows
    <2>3. Seq(Seq(S)) \subseteq Seq(Seq(T))
      BY <2>2, SeqGrows
    <2> QED  BY <1>1, <1>2, <2>1, <2>2, <2>3
  <1> DEFINE longer == Over(last, column, c, color)
  \* The line has the glyph in its column, and is otherwise as it was.
  <1>7. /\ longer \in Seq(T) /\ Len(longer) <= WIDTH
        /\ column + 1 <= Len(longer) /\ longer[column + 1] = glyph
        /\ \A x \in 0 .. (WIDTH - 1) : x # column =>
               /\ x < Len(longer) <=> x < Len(last)
               /\ x < Len(last) => longer[x + 1] = last[x + 1]
    <2>1. CASE column < Len(last)
      <3>1. longer = [last EXCEPT ![column + 1] = glyph]
        BY <1>4, <2>1 DEF Over
      <3> HIDE DEF longer, glyph, last, T
      <3>2. column + 1 \in 1 .. Len(last)
        BY <1>2, <2>1
      <3>3. longer \in Seq(T) /\ Len(longer) = Len(last) /\ longer[column + 1] = glyph
            /\ \A i \in 1 .. Len(last) : i # column + 1 => longer[i] = last[i]
        BY <1>6, <3>1, <3>2
      <3>4. \A x \in 0 .. (WIDTH - 1) : x # column /\ x < Len(last) =>
                x + 1 \in 1 .. Len(last) /\ x + 1 # column + 1
        BY <1>2, SizeFacts
      <3> QED  BY <1>2, <3>2, <3>3, <3>4
    <2>2. CASE ~(column < Len(last))
      <3>1. glyph = <<<<c, color>>>>
        BY <1>4, <2>2 DEF Drawn
      <3>2. longer = Append(last, glyph)
        BY <2>2, <3>1 DEF Over
      <3> HIDE DEF longer, glyph, last, T
      <3>3. column = Len(last)
        BY <1>2, <2>2
      <3>4. longer \in Seq(T) /\ Len(longer) = Len(last) + 1 /\ longer[Len(last) + 1] = glyph
            /\ \A i \in 1 .. Len(last) : longer[i] = last[i]
        BY <1>6, <3>2
      <3>5. \A x \in 0 .. (WIDTH - 1) :
                /\ x < Len(last) => x + 1 \in 1 .. Len(last)
                /\ x # column => (x < Len(last) + 1 <=> x < Len(last))
        BY <1>2, <3>3, SizeFacts
      <3>6. Len(longer) <= WIDTH /\ column + 1 <= Len(longer) /\ longer[column + 1] = glyph
        <4>1. longer[column + 1] = glyph
          BY <3>3, <3>4, Zenon
        <4>2. Len(longer) = column + 1 /\ column + 1 <= WIDTH
          BY <1>2, <3>3, <3>4, SizeFacts
        <4> QED  BY <1>2, <4>1, <4>2
      <3>7. \A x \in 0 .. (WIDTH - 1) : x # column =>
                /\ x < Len(longer) <=> x < Len(last)
                /\ x < Len(last) => longer[x + 1] = last[x + 1]
        <4>1. \A x \in 0 .. (WIDTH - 1) : x < Len(last) => longer[x + 1] = last[x + 1]
          BY <3>4, <3>5
        <4> QED  BY <3>4, <3>5, <4>1
      <3> QED  BY <3>4, <3>6, <3>7
    <2> QED  BY <2>1, <2>2
  <1>8. new = [lines EXCEPT ![n] = longer]
    OBVIOUS
  <1> HIDE DEF longer, glyph, last, place, screen, new, old, T
  <1>9. /\ new \in Seq(Seq(T)) /\ Len(new) = n /\ new[n] = longer
        /\ \A i \in 1 .. n : i # n => new[i] = lines[i]
    <2> HIDE DEF n
    <2>1. n \in 1 .. Len(lines)
      BY <1>1 DEF n
    <2>2. Len(lines) = n
      BY DEF n
    <2> QED  BY <1>6, <1>7, <1>8, <2>1, <2>2
  <1>10. IsText(new, T)
    <2>1. ASSUME NEW i \in 1 .. n PROVE Len(new[i]) <= WIDTH
      BY <1>1, <1>7, <1>9
    <2> QED  BY <1>1, <1>9, <2>1 DEF IsText
  <1>11. screen \in [Cell -> T]
    BY <1>5, <1>6
  <1>12. ASSUME NEW y \in 0 .. (HEIGHT - 1), NEW x \in 0 .. (WIDTH - 1)
         PROVE  screen[CellAt(y, x)] = CellOf(new, y, x)
    <2>1. y \in Nat /\ x \in Nat /\ CellAt(y, x) \in Cell /\ x < WIDTH
      BY SizeFacts, PlaceInCell
    <2>2. mem[CellAt(y, x)] = CellOf(lines, y, x)
      BY DEF Shows
    <2>3. CASE y = n - 1 /\ x = column
      <3>1. screen[CellAt(y, x)] = glyph
        BY <1>3, <1>5, <2>3 DEF place
      <3>2. y < Len(new) /\ y + 1 = n /\ x < Len(new[y + 1]) /\ new[y + 1][x + 1] = glyph
        BY <1>1, <1>7, <1>9, <2>1, <2>3, SMTT(30)
      <3> QED  BY <3>1, <3>2 DEF CellOf
    <2>4. CASE ~(y = n - 1 /\ x = column)
      <3>1. CellAt(y, x) # place
        BY <1>1, <2>4, PlacesApart DEF place
      <3>2. screen[CellAt(y, x)] = mem[CellAt(y, x)]
        BY <1>5, <2>1, <3>1
      <3>3. CellOf(new, y, x) = CellOf(lines, y, x)
        <4>1. CASE y = n - 1
          <5>1. y < Len(new) /\ y < Len(lines) /\ y + 1 = n /\ x # column
            BY <1>1, <1>9, <2>1, <2>4, <4>1 DEF n
          <5> QED  BY <1>7, <1>9, <5>1 DEF CellOf, last
        <4>2. CASE y < n - 1
          <5>1. y + 1 \in 1 .. n /\ y + 1 # n /\ y < Len(new) /\ y < Len(lines)
            BY <1>1, <1>9, <2>1, <4>2 DEF n
          <5> QED  BY <1>9, <5>1 DEF CellOf
        <4>3. CASE y > n - 1
          <5>1. ~(y < Len(new)) /\ ~(y < Len(lines))
            BY <1>1, <1>9, <2>1, <4>3 DEF n
          <5> QED  BY <5>1 DEF CellOf
        <4> QED  BY <1>1, <2>1, <4>1, <4>2, <4>3
      <3> QED  BY <2>2, <3>2, <3>3
    <2> QED  BY <2>3, <2>4
  <1>13. Shows(screen, new) /\ Len(new) = n /\ column + 1 <= Len(new[Len(new)])
    BY <1>7, <1>9, <1>12 DEF Shows
  <1> QED  BY <1>10, <1>11, <1>13 DEF new, screen, n, TextWith, ScreenWith

\* A full row is left when the next character comes: what the text has in its new
\* line is that character, and so has a blank line in which it is drawn.
LEMMA FedAndDrawn ==
    ASSUME NEW S, NEW lines, IsText(lines, S), NEW c, NEW color
    PROVE  LET fed == LastLines(Append(lines, << >>))
           IN  LastLines(Append(lines, <<<<<<c, color>>>>>>)) =
                   TextWith(fed, 0, c, color)
PROOF
  <1> DEFINE n == Len(lines)
             first == <<<<<<c, color>>>>>>
             T == S \cup {<<<<c, color>>>>}
             fed == LastLines(Append(lines, << >>))
             new == LastLines(Append(lines, first))
             m == Len(fed)
  <1>1. IsText(lines, T)
    BY TextGrows
  <1>2. << >> \in Seq(T) /\ Len(<< >>) <= WIDTH /\ first \in Seq(T) /\ Len(first) <= WIDTH
    BY SizeFacts
  <1>3. Over(<< >>, 0, c, color) = first
    BY DEF Over
  <1>4. n \in 1 .. HEIGHT
    BY DEF IsText
  <1> DEFINE Grown(l, more) ==
                 /\ IsText(more, T)
                 /\ n < HEIGHT => /\ Len(more) = n + 1 /\ more[n + 1] = l
                                  /\ \A i \in 1 .. n : more[i] = lines[i]
                 /\ n = HEIGHT => /\ Len(more) = n /\ more[n] = l
                                  /\ \A i \in 1 .. (n - 1) : more[i] = lines[i + 1]
  <1> HIDE DEF T
  <1>5. \A l \in Seq(T) : Len(l) <= WIDTH => Grown(l, LastLines(Append(lines, l)))
    <2>1. ASSUME NEW l \in Seq(T), Len(l) <= WIDTH
          PROVE  Grown(l, LastLines(Append(lines, l)))
      BY <1>1, <2>1, LineAppended
    <2> HIDE DEF Grown
    <2> QED  BY <2>1
  <1> HIDE DEF Grown
  <1>6. Grown(<< >>, fed)
    BY <1>2, <1>5, Zenon
  <1>7. Grown(first, new)
    <2> HIDE DEF first
    <2> QED  BY <1>2, <1>5
  <1> HIDE DEF first, fed, new, n
  <1>8. /\ fed \in Seq(Seq(T)) /\ new \in Seq(Seq(T)) /\ Len(new) = m /\ m \in 1 .. HEIGHT
        /\ fed[m] = << >> /\ new[m] = first
        /\ \A i \in 1 .. (m - 1) : new[i] = fed[i]
    <2>1. CASE n < HEIGHT
      <3>1. m = n + 1 /\ m - 1 = n
        BY <1>4, <1>6, <2>1, SizeFacts DEF Grown
      <3> QED  BY <1>4, <1>6, <1>7, <2>1, <3>1, SizeFacts DEF Grown, IsText
    <2>2. CASE n = HEIGHT
      BY <1>4, <1>6, <1>7, <2>2, SizeFacts DEF Grown, IsText
    <2> QED  BY <1>4, <2>1, <2>2, SizeFacts
  <1>9. [fed EXCEPT ![m] = Over(@, 0, c, color)] = [fed EXCEPT ![m] = first]
    BY <1>3, <1>8
  <1>10. new = [fed EXCEPT ![m] = first]
    <2> DEFINE other == [fed EXCEPT ![m] = first]
    <2>1. other \in Seq(Seq(T)) /\ Len(other) = m
      <3>1. first \in Seq(T) /\ m \in 1 .. Len(fed)
        BY <1>2, <1>8 DEF first
      <3> QED  BY <1>8, <3>1
    <2>2. ASSUME NEW i \in 1 .. m PROVE new[i] = other[i]
      <3>1. i = m \/ i \in 1 .. (m - 1)
        BY <1>8
      <3>2. i \in DOMAIN fed
        BY <1>8
      <3> QED  BY <1>8, <3>1, <3>2
    <2> HIDE DEF other
    <2> DEFINE left == [i \in 1 .. m |-> new[i]]
               right == [i \in 1 .. m |-> other[i]]
    <2>3. new = left /\ other = right
      <3>1. \A s \in Seq(Seq(T)) : s = [i \in 1 .. Len(s) |-> s[i]]
        OBVIOUS
      <3> QED  BY <1>8, <2>1, <3>1
    <2>4. left = right
      BY <2>2, Zenon
    <2> HIDE DEF left, right
    <2> QED  BY <2>3, <2>4 DEF other
  <1> QED  BY <1>9, <1>10 DEF new, fed, first, TextWith

----------------------------------------------------------------------------
\* The invariant, as the lemmas speak of it.
LEMMA TailIsShown ==
    ScreenShowsTail <=> /\ current_y = Len(paper.lines) - 1
                        /\ current_x = paper.column
                        /\ Shows(video_mem, paper.lines)
PROOF
  BY DEF ScreenShowsTail, Shows, CellAt, CellOf

LEMMA InvFacts ==
    ASSUME ConsoleInv
    PROVE  \E S : /\ ConsoleType(S)
                  /\ current_y = Len(paper.lines) - 1 /\ current_x = paper.column
                  /\ Shows(video_mem, paper.lines)
PROOF
  <1>1. PICK S : ConsoleType(S)
    BY DEF ConsoleInv
  <1>2. ScreenShowsTail
    BY DEF ConsoleInv
  <1> QED  BY <1>1, <1>2, TailIsShown

LEMMA InitConsoleInv == ConsoleInit => ConsoleInv
PROOF
  <1> SUFFICES ASSUME ConsoleInit PROVE ConsoleInv
    OBVIOUS
  <1> DEFINE S == {Blank}
  <1>1. /\ paper.lines = <<<< >>>> /\ paper.column = 0 /\ paper = [lines |-> <<<< >>>>, column |-> 0]
        /\ Len(paper.lines) = 1 /\ paper.lines[1] = << >> /\ Len(<< >>) = 0
    BY DEF ConsoleInit, Fresh
  <1>2. /\ << >> \in Seq(S) /\ <<<< >>>> \in Seq(Seq(S)) /\ 0 \in 0 .. WIDTH /\ 1 \in 1 .. HEIGHT
    BY SizeFacts
  <1>3. IsText(paper.lines, S)
    <2>1. \A i \in 1 .. 1 : i = 1
      OBVIOUS
    <2> QED  BY <1>1, <1>2, <2>1, SizeFacts DEF IsText
  <1>4. video_mem \in [Cell -> S]
    BY DEF ConsoleInit
  <1>5. paper \in [lines : Seq(Seq(S)), column : 0 .. WIDTH]
    BY <1>1, <1>2
  <1>6. ConsoleType(S)
    BY <1>1, <1>3, <1>4, <1>5 DEF ConsoleType, ConsoleInit
  <1>7. Shows(video_mem, paper.lines)
    <2>1. ASSUME NEW y \in 0 .. (HEIGHT - 1), NEW x \in 0 .. (WIDTH - 1)
          PROVE  video_mem[CellAt(y, x)] = CellOf(paper.lines, y, x)
      <3>1. video_mem[CellAt(y, x)] = Blank
        BY PlaceInCell DEF ConsoleInit
      <3>2. ~(y < Len(paper.lines) /\ x < Len(paper.lines[y + 1]))
        <4>1. y \in Nat /\ x \in Nat
          BY SizeFacts
        <4>2. y < 1 => y + 1 = 1
          BY <4>1
        <4> QED  BY <1>1, <4>1, <4>2
      <3> QED  BY <3>1, <3>2 DEF CellOf
    <2> QED  BY <2>1 DEF Shows
  <1>8. current_y = Len(paper.lines) - 1 /\ current_x = paper.column
    BY <1>1 DEF ConsoleInit
  <1> QED  BY <1>6, <1>7, <1>8, TailIsShown DEF ConsoleInv

\* What a step has to arrive at.
LEMMA Arrived ==
    ASSUME NEW T, NEW lines, NEW column \in 0 .. WIDTH,
           device' \in {"text_mode", "vbe", "framebuffer"},
           paper' = [lines |-> lines, column |-> column],
           IsText(lines, T), column <= Len(lines[Len(lines)]),
           video_mem' \in [Cell -> T], Shows(video_mem', lines),
           current_y' = Len(lines) - 1, current_x' = column
    PROVE  ConsoleInv'
PROOF
  <1>1. paper'.lines = lines /\ paper'.column = column
    OBVIOUS
  <1>2. paper' \in [lines : Seq(Seq(T)), column : 0 .. WIDTH]
    BY DEF IsText
  <1>3. ConsoleType(T)'
    BY <1>1, <1>2 DEF ConsoleType, IsText
  <1>4. ScreenShowsTail'
    BY <1>1 DEF ScreenShowsTail, Shows, CellAt, CellOf
  <1> QED  BY <1>3, <1>4 DEF ConsoleInv

\* A line feed of the text, on the screen.
LEMMA FeedKeeps ==
    ASSUME ConsoleInv
    PROVE  \E S : LET fed == LastLines(Append(paper.lines, << >>))
                      full == current_y + 1 = HEIGHT
                      mem == IF full THEN Scrolled(video_mem, 1) ELSE video_mem
                  IN  /\ IsText(paper.lines, S) /\ IsText(fed, S) /\ mem \in [Cell -> S] /\ Shows(mem, fed)
                      /\ Len(fed) - 1 = (IF full THEN HEIGHT - 1 ELSE current_y + 1)
                      /\ fed[Len(fed)] = << >>
PROOF
  <1> DEFINE n == Len(paper.lines)
             fed == LastLines(Append(paper.lines, << >>))
             full == current_y + 1 = HEIGHT
             mem == IF full THEN Scrolled(video_mem, 1) ELSE video_mem
  <1>1. PICK S : /\ ConsoleType(S)
                 /\ current_y = n - 1 /\ current_x = paper.column
                 /\ Shows(video_mem, paper.lines)
    BY InvFacts
  <1> DEFINE T == S \cup {Blank}
  <1>2. IsText(paper.lines, T) /\ video_mem \in [Cell -> T] /\ Blank \in T
    <2>1. IsText(paper.lines, S) /\ video_mem \in [Cell -> S]
      BY <1>1 DEF ConsoleType
    <2>2. S \subseteq T
      OBVIOUS
    <2> QED  BY <2>1, <2>2, TextGrows
  <1> HIDE DEF T
  <1>3. n \in 1 .. HEIGHT /\ n \in Nat
    BY <1>2, SizeFacts DEF IsText
  <1>4. full <=> n = HEIGHT
    BY <1>1, <1>3, SizeFacts
  <1>5. /\ IsText(fed, T)
        /\ n < HEIGHT => Len(fed) = n + 1 /\ fed[n + 1] = << >>
        /\ n = HEIGHT => Len(fed) = n /\ fed[n] = << >>
    <2>1. ASSUME NEW last \in Seq(T), last = << >>
          PROVE  /\ IsText(LastLines(Append(paper.lines, last)), T)
                 /\ n < HEIGHT => /\ Len(LastLines(Append(paper.lines, last))) = n + 1
                                  /\ LastLines(Append(paper.lines, last))[n + 1] = last
                 /\ n = HEIGHT => /\ Len(LastLines(Append(paper.lines, last))) = n
                                  /\ LastLines(Append(paper.lines, last))[n] = last
      <3>1. Len(last) <= WIDTH
        BY <2>1, SizeFacts
      <3> QED  BY <1>2, <3>1, LineAppended
    <2>2. << >> \in Seq(T)
      OBVIOUS
    <2> QED  BY <2>1, <2>2, Zenon
  <1>6. /\ n < HEIGHT => Shows(video_mem, fed)
        /\ n = HEIGHT => Shows(Scrolled(video_mem, 1), fed)
    BY <1>1, <1>2, Fed
  <1>7. Scrolled(video_mem, 1) \in [Cell -> T]
    <2>1. ASSUME NEW i \in Cell, i < WIDTH * (HEIGHT - 1) PROVE i + WIDTH * 1 \in Cell
      <3>1. WIDTH * (HEIGHT - 1) + WIDTH = WIDTH * HEIGHT /\ WIDTH * (HEIGHT - 1) \in Int
        BY SizeFacts
      <3> QED  BY <2>1, <3>1, SizeFacts DEF Cell
    <2> QED  BY <1>2, <2>1 DEF Scrolled
  <1> HIDE DEF fed, n
  <1>8. CASE full
    <2>1. mem = Scrolled(video_mem, 1) /\ n = HEIGHT /\ Len(fed) = n /\ fed[Len(fed)] = << >>
      BY <1>4, <1>5, <1>8
    <2> QED  BY <1>2, <1>5, <1>6, <1>7, <1>8, <2>1 DEF fed
  <1>9. CASE ~full
    <2>1. mem = video_mem /\ n < HEIGHT /\ Len(fed) = n + 1 /\ fed[Len(fed)] = << >>
      BY <1>3, <1>4, <1>5, <1>9, SizeFacts
    <2>2. Len(fed) - 1 = current_y + 1
      BY <1>1, <1>3, <2>1
    <2> QED  BY <1>2, <1>5, <1>6, <1>9, <2>1, <2>2 DEF fed
  <1> QED  BY <1>8, <1>9

\* Each character keeps the screen the end of the text.
LEMMA PrintKeeps ==
    ASSUME ConsoleInv, NEW c \in Char \cup {"\n", "\r"}, print_char(c)
    PROVE  ConsoleInv'
PROOF
  <1> DEFINE n == Len(paper.lines)
             lines == paper.lines
             color == current_fg
             fed == LastLines(Append(lines, << >>))
             full == current_y + 1 = HEIGHT
             moved == IF full THEN Scrolled(video_mem, 1) ELSE video_mem
  <1>1. PICK S : /\ ConsoleType(S)
                 /\ current_y = n - 1 /\ current_x = paper.column
                 /\ Shows(video_mem, lines)
    BY InvFacts
  <1>2. /\ device \in {"text_mode", "vbe", "framebuffer"}
        /\ IsText(lines, S) /\ n \in 1 .. HEIGHT /\ n \in Nat
        /\ paper \in [lines : Seq(Seq(S)), column : 0 .. WIDTH]
        /\ video_mem \in [Cell -> S] /\ paper.column <= Len(lines[n])
        /\ Len(lines[n]) <= WIDTH
    BY <1>1, SizeFacts DEF ConsoleType, IsText
  <1>3. PICK R : /\ IsText(lines, R) /\ IsText(fed, R) /\ moved \in [Cell -> R] /\ Shows(moved, fed)
                 /\ Len(fed) - 1 = (IF full THEN HEIGHT - 1 ELSE current_y + 1)
                 /\ fed[Len(fed)] = << >>
    BY FeedKeeps
  <1>4. device' = device /\ paper' = Written(paper, c, color) /\ print_char_color(c, color)
    BY DEF print_char
  <1>5. "\n" \notin Char /\ "\r" \notin Char
    BY ConsoleAssumption
  <1>6. /\ current_x \in 0 .. WIDTH /\ current_x \in Nat /\ current_y \in 0 .. (HEIGHT - 1)
        /\ \A i \in 0 .. HEIGHT : AtEnd(i, HEIGHT) <=> i = HEIGHT
        /\ AtEnd(current_x, WIDTH) <=> current_x = WIDTH
    <2>1. current_x \in 0 .. WIDTH /\ current_x \in Nat /\ current_y \in 0 .. (HEIGHT - 1)
      BY <1>1, <1>2, SizeFacts
    <2> QED  BY <1>2, <2>1, SizeFacts DEF AtEnd
  <1>7. AtEnd(current_y + 1, HEIGHT) <=> full
    BY <1>6, SizeFacts
  <1>8. ~AtEnd(current_y, HEIGHT)
    BY <1>6, SizeFacts
  <1> HIDE DEF n, lines, color, fed, full, moved
  <1>9. CASE c = "\n"
    <2>1. NextLine(c) /\ Row(c) = current_y + 1
      BY <1>9 DEF NextLine, Row
    <2>2. /\ current_y' = (IF full THEN HEIGHT - 1 ELSE current_y + 1)
          /\ current_x' = 0 /\ video_mem' = moved
      BY <1>4, <1>7, <1>9, <2>1 DEF print_char_color, Column, moved
    <2>3. paper' = [lines |-> fed, column |-> 0]
      BY <1>4, <1>5, <1>9 DEF Written, fed, lines
    <2>4. 0 \in 0 .. WIDTH /\ 0 <= Len(fed[Len(fed)]) /\ current_y' = Len(fed) - 1
      BY <1>3, <2>2, SizeFacts
    <2> QED  BY <1>2, <1>3, <1>4, <2>2, <2>3, <2>4, Arrived
  <1>10. CASE c = "\r"
    <2>1. ~NextLine(c) /\ Row(c) = current_y /\ Column(c) = 0
      BY <1>10 DEF NextLine, Row, Column
    <2>2. current_y' = current_y /\ current_x' = 0 /\ video_mem' = video_mem
      BY <1>4, <1>8, <1>10, <2>1 DEF print_char_color
    <2>3. paper' = [lines |-> lines, column |-> 0]
      BY <1>2, <1>4, <1>5, <1>10 DEF Written, lines
    <2>4. 0 \in 0 .. WIDTH /\ 0 <= Len(lines[Len(lines)]) /\ current_y' = Len(lines) - 1
      BY <1>1, <1>2, <2>2, SizeFacts DEF n, lines
    <2> QED  BY <1>1, <1>2, <1>4, <2>2, <2>3, <2>4, Arrived
  <1>11. CASE c \in Char /\ current_x = WIDTH
    <2>1. NextLine(c) /\ Row(c) = current_y + 1 /\ Column(c) = 0 /\ c \notin {"\n", "\r"}
      BY <1>5, <1>6, <1>11 DEF NextLine, Row, Column
    <2> DEFINE new == TextWith(fed, 0, c, color)
               screen == ScreenWith(moved, Len(fed) - 1, 0, c, color)
    <2>2. /\ current_y' = Len(fed) - 1 /\ current_x' = 1 /\ video_mem' = screen
      BY <1>3, <1>4, <1>7, <2>1 DEF print_char_color, moved, ScreenWith
    <2>3. paper' = [lines |-> LastLines(Append(lines, <<<<<<c, color>>>>>>)), column |-> 1]
      <3>1. paper.column = WIDTH /\ c # "\n" /\ c # "\r" /\ ~(paper.column < WIDTH)
        BY <1>1, <1>5, <1>11, SizeFacts
      <3> QED  BY <1>4, <1>11, <3>1 DEF Written, lines
    <2>4. LastLines(Append(lines, <<<<<<c, color>>>>>>)) = new
      BY <1>3, FedAndDrawn DEF fed
    <2>5. 0 \in 0 .. (WIDTH - 1) /\ 0 <= Len(fed[Len(fed)]) /\ 1 \in 0 .. WIDTH /\ 0 + 1 = 1
      BY <1>3, SizeFacts
    <2>6. /\ Shows(screen, new) /\ Len(new) = Len(fed) /\ 0 + 1 <= Len(new[Len(new)])
          /\ \E T : IsText(new, T) /\ screen \in [Cell -> T]
      BY <1>3, <2>5, GlyphShown
    <2> HIDE DEF new, screen
    <2>7. PICK T : IsText(new, T) /\ screen \in [Cell -> T]
      BY <2>6
    <2> QED  BY <1>2, <1>4, <2>2, <2>3, <2>4, <2>5, <2>6, <2>7, Arrived
  <1>12. CASE c \in Char /\ current_x # WIDTH
    <2>1. ~NextLine(c) /\ Row(c) = current_y /\ Column(c) = current_x /\ c \notin {"\n", "\r"}
      BY <1>5, <1>6, <1>12 DEF NextLine, Row, Column
    <2> DEFINE new == TextWith(lines, current_x, c, color)
               screen == ScreenWith(video_mem, Len(lines) - 1, current_x, c, color)
    <2>2. /\ current_y' = Len(lines) - 1 /\ current_x' = current_x + 1 /\ video_mem' = screen
      BY <1>1, <1>4, <1>8, <2>1 DEF print_char_color, ScreenWith, n, lines
    <2>3. current_x < WIDTH /\ current_x \in 0 .. (WIDTH - 1) /\ current_x + 1 \in 0 .. WIDTH
      BY <1>6, <1>12, SizeFacts
    <2>4. paper' = [lines |-> new, column |-> current_x + 1]
      BY <1>1, <1>4, <1>5, <1>12, <2>1, <2>3 DEF Written, lines, TextWith
    <2>5. current_x <= Len(lines[Len(lines)])
      BY <1>1, <1>2 DEF n, lines
    <2>6. /\ Shows(screen, new) /\ Len(new) = Len(lines) /\ current_x + 1 <= Len(new[Len(new)])
          /\ \E T : IsText(new, T) /\ screen \in [Cell -> T]
      BY <1>1, <1>2, <2>3, <2>5, GlyphShown, SMTT(30)
    <2> HIDE DEF new, screen
    <2>7. PICK T : IsText(new, T) /\ screen \in [Cell -> T]
      BY <2>6
    <2> QED  BY <1>2, <1>4, <2>2, <2>3, <2>4, <2>6, <2>7, Arrived
  <1> QED  BY <1>9, <1>10, <1>11, <1>12

\* A cleared screen shows a fresh text.
LEMMA FreshShown ==
    ASSUME device' \in {"text_mode", "vbe", "framebuffer"},
           video_mem' = [i \in Cell |-> Blank], paper' = Fresh,
           current_x' = 0, current_y' = 0
    PROVE  ConsoleInv'
PROOF
  <1> DEFINE lines == <<<< >>>>
             S == {Blank}
  <1>1. Len(lines) = 1 /\ lines[1] = << >> /\ Len(<< >>) = 0 /\ lines \in Seq(Seq(S))
    OBVIOUS
  <1>2. IsText(lines, S)
    <2>1. 1 \in 1 .. HEIGHT /\ \A i \in 1 .. 1 : i = 1
      BY SizeFacts
    <2> QED  BY <1>1, <2>1, SizeFacts DEF IsText
  <1>3. Shows(video_mem', lines)
    <2>1. ASSUME NEW y \in 0 .. (HEIGHT - 1), NEW x \in 0 .. (WIDTH - 1)
          PROVE  video_mem'[CellAt(y, x)] = CellOf(lines, y, x)
      <3>1. video_mem'[CellAt(y, x)] = Blank
        BY PlaceInCell
      <3>2. ~(y < Len(lines) /\ x < Len(lines[y + 1]))
        <4>1. y \in Nat /\ x \in Nat
          BY SizeFacts
        <4>2. y < 1 => y + 1 = 1
          BY <4>1
        <4> QED  BY <1>1, <4>1, <4>2
      <3> QED  BY <3>1, <3>2 DEF CellOf
    <2> QED  BY <2>1 DEF Shows
  <1>4. paper' = [lines |-> lines, column |-> 0]
    BY DEF Fresh
  <1>5. 0 \in 0 .. WIDTH /\ 0 <= Len(lines[Len(lines)]) /\ 0 = Len(lines) - 1
    BY <1>1, SizeFacts
  <1>6. video_mem' \in [Cell -> S]
    OBVIOUS
  <1> HIDE DEF lines, S
  <1> QED  BY <1>2, <1>3, <1>4, <1>5, <1>6, Arrived

\* The screen of the kernel's graphical console is cleared under its cursor, which stays.
LEMMA ClearVbeKeeps ==
    ASSUME ConsoleInv, clear_vbe
    PROVE  ConsoleInv'
PROOF
  <1> DEFINE S == {Blank}
             last == [j \in 1 .. current_x |-> Blank]
             lines == [i \in 1 .. (current_y + 1) |-> IF i <= current_y THEN << >> ELSE last]
  <1>1. PICK R : /\ ConsoleType(R)
                 /\ current_y = Len(paper.lines) - 1 /\ current_x = paper.column
                 /\ Shows(video_mem, paper.lines)
    BY InvFacts
  <1>2. current_x \in 0 .. WIDTH /\ current_x \in Nat /\ current_y \in Nat /\ current_y + 1 \in 1 .. HEIGHT
    BY <1>1, SizeFacts DEF ConsoleType, IsText
  <1>3. /\ << >> \in Seq(S) /\ Len(<< >>) = 0 /\ last \in Seq(S) /\ Len(last) = current_x
        /\ \A j \in 1 .. current_x : last[j] = Blank
    BY <1>2
  <1> HIDE DEF last, S
  <1>4. /\ lines \in Seq(Seq(S)) /\ Len(lines) = current_y + 1
        /\ \A i \in 1 .. (current_y + 1) : lines[i] = IF i <= current_y THEN << >> ELSE last
    BY <1>2, <1>3
  <1> HIDE DEF lines
  <1>5. IsText(lines, S)
    <2>1. ASSUME NEW i \in 1 .. Len(lines) PROVE Len(lines[i]) <= WIDTH
      <3>1. lines[i] = << >> \/ lines[i] = last
        BY <1>4
      <3> QED  BY <1>2, <1>3, <3>1, SizeFacts
    <2> QED  BY <1>2, <1>4, <2>1 DEF IsText
  <1>6. Shows(video_mem', lines)
    <2>1. ASSUME NEW y \in 0 .. (HEIGHT - 1), NEW x \in 0 .. (WIDTH - 1)
          PROVE  video_mem'[CellAt(y, x)] = CellOf(lines, y, x)
      <3>1. video_mem'[CellAt(y, x)] = Blank
        BY PlaceInCell DEF clear_vbe
      <3>2. ASSUME y < Len(lines), x < Len(lines[y + 1]) PROVE lines[y + 1][x + 1] = Blank
        <4>1. y \in Nat /\ x \in Nat /\ y + 1 \in 1 .. (current_y + 1)
          BY <1>2, <1>4, <3>2, SizeFacts
        <4>2. lines[y + 1] = last
          BY <1>3, <1>4, <3>2, <4>1
        <4>3. x + 1 \in 1 .. current_x
          BY <1>2, <1>3, <3>2, <4>1, <4>2
        <4> QED  BY <1>3, <4>2, <4>3
      <3> QED  BY <3>1, <3>2 DEF CellOf
    <2> QED  BY <2>1 DEF Shows
  <1>7. current_x <= Len(lines[Len(lines)])
    <2>1. lines[current_y + 1] = last
      BY <1>2, <1>4
    <2> QED  BY <1>2, <1>3, <1>4, <2>1
  <1>8. paper' = [lines |-> lines, column |-> current_x]
    BY DEF clear_vbe, lines, last
  <1>9. /\ current_y' = Len(lines) - 1 /\ current_x' = current_x
        /\ device' \in {"text_mode", "vbe", "framebuffer"}
    BY <1>1, <1>2, <1>4 DEF clear_vbe, cursor, ConsoleType
  <1>10. video_mem' \in [Cell -> S]
    BY DEF clear_vbe, S
  <1> QED  BY <1>2, <1>5, <1>6, <1>7, <1>8, <1>9, <1>10, Arrived

LEMMA NextConsoleInv == ConsoleInv /\ [ConsoleNext]_console => ConsoleInv'
PROOF
  <1> SUFFICES ASSUME ConsoleInv, [ConsoleNext]_console PROVE ConsoleInv'
    OBVIOUS
  <1>1. device \in {"text_mode", "vbe", "framebuffer"}
    BY InvFacts DEF ConsoleType
  <1>2. ASSUME UNCHANGED <<device, video_mem, cursor, paper>> PROVE ConsoleInv'
    <2>1. /\ device' = device /\ video_mem' = video_mem /\ paper' = paper
          /\ current_x' = current_x /\ current_y' = current_y
      BY <1>2 DEF cursor
    <2>2. PICK S : ConsoleType(S)
      BY DEF ConsoleInv
    <2>3. ConsoleType(S)'
      BY <2>1, <2>2 DEF ConsoleType
    <2>4. ScreenShowsTail'
      BY <2>1 DEF ConsoleInv, ScreenShowsTail
    <2> QED  BY <2>3, <2>4 DEF ConsoleInv
  <1>3. ASSUME NEW c \in Char \cup {"\n", "\r"}, print_char(c) PROVE ConsoleInv'
    BY <1>3, PrintKeeps
  <1>4. ASSUME NEW i \in DOMAIN Color, set_text_color(Color[i]) PROVE ConsoleInv'
    BY <1>2, <1>4 DEF set_text_color
  <1>5. CASE clear_text_mode
    BY <1>1, <1>5, FreshShown DEF clear_text_mode
  <1>6. CASE clear_vbe
    BY <1>6, ClearVbeKeeps
  <1>7. CASE clear_framebuffer
    BY <1>1, <1>7, FreshShown DEF clear_framebuffer
  <1>8. CASE UNCHANGED console
    BY <1>2, <1>8 DEF console
  <1> QED  BY <1>3, <1>4, <1>5, <1>6, <1>7, <1>8 DEF ConsoleNext

\* However it is printed (text_mode.cpp:58-87, vbe_graphics.cpp:81-96,
\* framebuffer.cpp:124-145), the screen shows the end of the text, for every size.
THEOREM ConsoleShowsTail == ConsoleSpec => []ScreenShowsTail
PROOF
  <1>1. ConsoleInv => ScreenShowsTail
    BY DEF ConsoleInv
  <1> QED  BY <1>1, InitConsoleInv, NextConsoleInv, PTL DEF ConsoleSpec

----------------------------------------------------------------------------
\* The picture.

\* The bytes of a pixel that are looked at.
Visible(c) == IF c.kind = "framebuffer" THEN c.bpp \div 8 ELSE 3

\* Pixel (x, y) is drawn before pixel (u, v), and stored in front of it.
Earlier(x, y, u, v) == y < v \/ (y = v /\ x < u)

IsCanvas(c) ==
    /\ c = [kind |-> c.kind, w |-> c.w, h |-> c.h, bpp |-> c.bpp, pitch |-> c.pitch, line |-> c.line, bytes |-> c.bytes]
    /\ c.kind \in {"framebuffer", "vbe"}
    /\ c.w \in Nat /\ c.h \in Nat /\ c.bpp \in {24, 32} /\ c.pitch \in Nat
    /\ c.w * (c.bpp \div 8) <= c.pitch
    /\ c.line \in Nat /\ c.pitch <= c.line
    /\ DOMAIN c.bytes = 0 .. (c.h * c.line)

\* The byte may be the fourth of the pixel in front of it.
Spilled(c, x, y, i) == c.kind = "vbe" /\ c.bpp = 24 /\ i = 1

ByteShown(x, y, i) ==
    \/ canvas.bytes[pixel_offset(canvas, x, y) + i - 1] = ToShow(x, y, i)
    \/ Spilled(canvas, x, y, i) /\ ~Seen(x, y)

BytesShown ==
    \A x \in 0 .. (canvas.w - 1), y \in 0 .. (canvas.h - 1), i \in 1 .. Visible(canvas) : ByteShown(x, y, i)

PaintPlaces ==
    /\ IsCanvas(canvas)
    /\ bmp \in Picture
    /\ px \in 0 .. bmp.width /\ py \in 0 .. bmp.height
    /\ py = bmp.height => px = 0

PaintInv == PaintPlaces /\ BytesShown

\* Sizes of a row of a file: the least multiple of four.
LEMMA StrideOf ==
    ASSUME NEW width \in Nat, NEW stride \in Nat, Padded(stride, width * 3)
    PROVE  stride = row_stride(width)
PROOF
  <1>1. stride % 4 = 0 /\ width * 3 <= stride /\ stride < width * 3 + 4
    BY DEF Padded
  <1> QED  BY <1>1 DEF row_stride

LEMMA StrideWhole ==
    ASSUME NEW width \in Nat, NEW stride \in Nat, Padded(stride, width * 4)
    PROVE  stride = 4 * width
PROOF
  <1>1. stride % 4 = 0 /\ width * 4 <= stride /\ stride < width * 4 + 4
    BY DEF Padded
  <1> QED  BY <1>1

\* What is read of a picture are the channels that the format says.
LEMMA ColourRead ==
    ASSUME NEW p \in Picture, NEW x \in 0 .. (p.width - 1), NEW y \in 0 .. (p.height - 1),
           NEW i \in 1 .. 4
    PROVE  bmp_get_pixel(p, x, y)[i]
              = IF i = 4 /\ p.bit_count = 24 THEN Opaque ELSE p.shows[x][y][i]
PROOF
  <1> DEFINE row == p.height - 1 - y
             n == p.bit_count \div 8
  <1>1. /\ p.width \in Nat /\ p.height \in Nat /\ p.bit_count \in {24, 32}
        /\ p.offset \in Nat /\ p.stride \in Nat
        /\ Padded(p.stride, p.width * n)
        /\ Stored(p)
    BY CanvasAssumption
  <1>2. \A k \in 1 .. n : p.bytes[p.offset + row * p.stride + x * n + k] = p.shows[x][y][k]
    BY <1>1 DEF Stored
  <1>3. x \in Nat /\ y \in Nat /\ row \in Nat /\ ~(x >= p.width) /\ ~(y >= p.height) /\ x < p.width /\ y < p.height
    BY <1>1
  <1>4. CASE p.bit_count = 24
    <2>1. n = 3
      BY <1>4
    <2>2. p.stride = row_stride(p.width)
      BY <1>1, <2>1, StrideOf
    <2> DEFINE at == row * row_stride(p.width) + x * 3
    <2>3. at \in Int
      BY <1>1, <1>3, <2>2
    <2>4. \A k \in 1 .. 3 : p.bytes[p.offset + at + k] = p.shows[x][y][k]
      <3>1. TAKE k \in 1 .. 3
      <3>2. p.offset + row * p.stride + x * n + k = p.offset + at + k
        BY <1>1, <1>3, <2>1, <2>2
      <3> QED  BY <1>2, <2>1, <3>2
    <2>5. bmp_get_pixel(p, x, y)
             = <<p.bytes[p.offset + at + 1], p.bytes[p.offset + (at + 1) + 1],
                 p.bytes[p.offset + (at + 2) + 1], Opaque>>
      BY <1>3, <1>4 DEF bmp_get_pixel
    <2> HIDE DEF at
    <2>6. p.offset + (at + 1) + 1 = p.offset + at + 2 /\ p.offset + (at + 2) + 1 = p.offset + at + 3
      BY <1>1, <2>3
    <2> QED  BY <1>4, <2>4, <2>5, <2>6
  <1>5. CASE p.bit_count = 32
    <2>1. n = 4
      BY <1>5
    <2>2. p.stride = 4 * p.width
      BY <1>1, <2>1, StrideWhole
    <2> DEFINE at == 4 * (row * p.width + x)
    <2>3. at \in Int
      BY <1>1, <1>3
    <2>4. \A k \in 1 .. 4 : p.bytes[p.offset + at + k] = p.shows[x][y][k]
      <3>1. TAKE k \in 1 .. 4
      <3>2. row * p.stride + x * n = at
        <4>1. row * (4 * p.width) = 4 * (row * p.width)
          BY <1>1, <1>3
        <4> QED  BY <1>1, <1>3, <2>1, <2>2, <4>1
      <3>3. row * p.stride \in Int /\ x * n \in Int
        BY <1>1, <1>3, <2>1
      <3>4. p.offset + row * p.stride + x * n + k = p.offset + at + k
        BY <1>1, <3>2, <3>3
      <3> QED  BY <1>2, <2>1, <3>4
    <2>5. bmp_get_pixel(p, x, y)
             = <<p.bytes[p.offset + at + 1], p.bytes[p.offset + (at + 1) + 1],
                 p.bytes[p.offset + (at + 2) + 1], p.bytes[p.offset + (at + 3) + 1]>>
      BY <1>3, <1>5 DEF bmp_get_pixel
    <2> HIDE DEF at
    <2>6. /\ p.offset + (at + 1) + 1 = p.offset + at + 2
          /\ p.offset + (at + 2) + 1 = p.offset + at + 3
          /\ p.offset + (at + 3) + 1 = p.offset + at + 4
      BY <1>1, <2>3
    <2> QED  BY <1>5, <2>4, <2>5, <2>6
  <1> QED  BY <1>1, <1>4, <1>5

\* A pixel's bytes lie in front of those of every pixel that is drawn after it.
LEMMA PixelsApart ==
    ASSUME NEW c, IsCanvas(c),
           NEW x \in Nat, NEW y \in Nat, NEW u \in Nat, NEW v \in Nat,
           x < c.w, Earlier(x, y, u, v)
    PROVE  pixel_offset(c, x, y) + c.bpp \div 8 <= pixel_offset(c, u, v)
PROOF
  <1> DEFINE n == c.bpp \div 8
             p == c.pitch
  <1>1. n \in Nat /\ p \in Nat /\ c.w \in Nat /\ c.w * n <= p
    BY DEF IsCanvas
  <1>2. pixel_offset(c, x, y) = y * p + x * n /\ pixel_offset(c, u, v) = v * p + u * n
    BY DEF pixel_offset
  <1> HIDE DEF n, p
  <1>3. y * p \in Nat /\ v * p \in Nat /\ x * n \in Nat /\ u * n \in Nat
    BY <1>1
  <1>4. CASE y = v /\ x < u
    <2>1. (u - x - 1) \in Nat /\ (u - x - 1) * n \in Nat
      BY <1>1, <1>4
    <2>2. u * n = x * n + n + (u - x - 1) * n
      BY <1>1
    <2> QED  BY <1>1, <1>2, <1>3, <1>4, <2>1, <2>2 DEF n
  <1>5. CASE y < v
    <2>1. v - y - 1 \in Nat /\ (v - y - 1) * p \in Nat
      BY <1>1, <1>5
    <2>2. v * p = y * p + p + (v - y - 1) * p
      BY <1>1
    <2>3. c.w - x - 1 \in Nat /\ (c.w - x - 1) * n \in Nat
      BY <1>1
    <2>4. c.w * n = x * n + n + (c.w - x - 1) * n
      BY <1>1
    <2>5. x * n + n <= p
      BY <1>1, <1>3, <2>3, <2>4
    <2> DEFINE K == (v - y - 1) * p
    <2>6. K \in Nat /\ v * p = y * p + p + K
      BY <2>1, <2>2
    <2> HIDE DEF K
    <2>7. y * p + x * n + n <= v * p + u * n
      BY <1>1, <1>3, <2>5, <2>6
    <2> QED  BY <1>2, <2>7 DEF n
  <1> QED  BY <1>4, <1>5 DEF Earlier

\* How many bytes are written and looked at.
LEMMA BytesOf ==
    ASSUME NEW c, IsCanvas(c)
    PROVE  /\ c.bpp \div 8 \in {3, 4}
           /\ Visible(c) \in {3, 4} /\ Visible(c) <= c.bpp \div 8
           /\ Bytes(c.kind, c.bpp) \in {3, 4} /\ Visible(c) <= Bytes(c.kind, c.bpp)
           /\ Bytes(c.kind, c.bpp) <= c.bpp \div 8
                  \/ (c.kind = "vbe" /\ c.bpp = 24 /\ Bytes(c.kind, c.bpp) = c.bpp \div 8 + 1)
PROOF
  <1>1. c.kind \in {"framebuffer", "vbe"} /\ c.bpp \in {24, 32}
    BY DEF IsCanvas
  <1>2. c.bpp = 24 => c.bpp \div 8 = 3
    OBVIOUS
  <1>3. c.bpp = 32 => c.bpp \div 8 = 4
    OBVIOUS
  <1>4. 24 # 32 /\ "vbe" # "framebuffer"
    OBVIOUS
  <1>5. CASE c.bpp = 24
    <2>1. Bytes(c.kind, c.bpp) = IF c.kind = "vbe" THEN 4 ELSE 3
      BY <1>4, <1>5 DEF Bytes
    <2> QED  BY <1>1, <1>2, <1>4, <1>5, <2>1 DEF Visible
  <1>6. CASE c.bpp = 32
    <2>1. Bytes(c.kind, c.bpp) = IF c.kind = "vbe" THEN 3 ELSE 4
      BY <1>4, <1>6 DEF Bytes
    <2> QED  BY <1>1, <1>3, <1>4, <1>6, <2>1 DEF Visible
  <1> QED  BY <1>1, <1>5, <1>6

LEMMA PixelsWithin ==
    ASSUME NEW c, IsCanvas(c), NEW x \in Nat, NEW y \in Nat, x < c.w, y < c.h
    PROVE  /\ pixel_offset(c, x, y) \in Nat
           /\ \A i \in 1 .. Bytes(c.kind, c.bpp) :
                 /\ pixel_offset(c, x, y) + i - 1 \in DOMAIN c.bytes
                 /\ pixel_offset(c, x, y) + i - 1 \in Painted(c, x, y)
PROOF
  <1>1. c.h \in Nat /\ c.w \in Nat /\ c.pitch \in Nat /\ c.bpp \div 8 \in Nat
    BY BytesOf DEF IsCanvas
  <1>2. Earlier(x, y, 0, c.h)
    BY DEF Earlier
  <1>3. pixel_offset(c, x, y) + c.bpp \div 8 <= pixel_offset(c, 0, c.h)
    BY <1>1, <1>2, PixelsApart
  <1>4. pixel_offset(c, 0, c.h) = c.h * c.pitch
    BY <1>1 DEF pixel_offset
  <1>5. y * c.pitch \in Nat /\ x * (c.bpp \div 8) \in Nat
    BY <1>1
  <1>6. pixel_offset(c, x, y) \in Nat
    BY <1>5 DEF pixel_offset
  <1>7. c.h * c.pitch \in Nat /\ c.h * c.line \in Nat /\ c.h * c.pitch <= c.h * c.line
    <2>1. c.line - c.pitch \in Nat /\ c.line \in Nat
      BY <1>1 DEF IsCanvas
    <2>2. c.h * c.pitch \in Nat /\ c.h * c.line \in Nat /\ c.h * (c.line - c.pitch) \in Nat
      BY <1>1, <2>1
    <2>3. c.h * c.line = c.h * c.pitch + c.h * (c.line - c.pitch)
      BY <1>1, <2>1
    <2> DEFINE a == c.h * c.pitch
               b == c.h * c.line
               d == c.h * (c.line - c.pitch)
    <2>4. a \in Nat /\ b \in Nat /\ d \in Nat /\ b = a + d
      BY <2>2, <2>3
    <2> HIDE DEF a, b, d
    <2>5. a <= b
      BY <2>4
    <2> QED  BY <2>2, <2>5 DEF a, b
  <1> DEFINE o == pixel_offset(c, x, y)
             b == Bytes(c.kind, c.bpp)
             n == c.bpp \div 8
             m == c.h * c.line
  <1>8. o \in Nat /\ b \in Nat /\ n \in Nat /\ m \in Nat /\ o + n <= m /\ b <= n + 1
    BY <1>1, <1>3, <1>4, <1>6, <1>7, BytesOf
  <1>9. Painted(c, x, y) = o .. (o + b - 1) /\ DOMAIN c.bytes = 0 .. m
    BY DEF Painted, IsCanvas
  <1> HIDE DEF o, b, n, m
  <1>10. ASSUME NEW i \in 1 .. b
         PROVE  o + i - 1 \in 0 .. m /\ o + i - 1 \in o .. (o + b - 1)
    BY <1>8
  <1> QED  BY <1>6, <1>9, <1>10 DEF o, b

\* What drawing a pixel does to each byte that is looked at.
LEMMA PixelDrawn ==
    ASSUME NEW c, IsCanvas(c),
           NEW u \in Nat, NEW v \in Nat, u < c.w, v < c.h, NEW colour,
           NEW x \in 0 .. (c.w - 1), NEW y \in 0 .. (c.h - 1), NEW i \in 1 .. Visible(c)
    PROVE  LET old == c.bytes[pixel_offset(c, x, y) + i - 1]
               new == draw_pixel(c, u, v, colour).bytes[pixel_offset(c, x, y) + i - 1]
           IN  /\ x = u /\ y = v => new = colour[i]
               /\ Earlier(x, y, u, v) => new = old
               /\ Earlier(u, v, x, y) => new = old \/ Spilled(c, x, y, i)
PROOF
  <1> DEFINE o == pixel_offset(c, x, y)
             q == pixel_offset(c, u, v)
             b == Bytes(c.kind, c.bpp)
             n == c.bpp \div 8
             k == o + i - 1
  <1>1. c.w \in Nat /\ c.h \in Nat /\ x \in Nat /\ y \in Nat /\ x < c.w /\ y < c.h
    <2>1. c.w \in Nat /\ c.h \in Nat
      BY DEF IsCanvas
    <2> QED  BY <2>1
  <1>2. /\ n \in {3, 4} /\ b \in {3, 4} /\ i \in 1 .. b /\ i <= n
        /\ b <= n \/ (c.kind = "vbe" /\ c.bpp = 24 /\ n = 3 /\ b = 4)
    <2>1. Visible(c) \in Nat
      BY BytesOf
    <2>2. c.bpp = 24 => n = 3
      OBVIOUS
    <2> QED  BY <2>1, <2>2, BytesOf
  <1>3. o \in Nat /\ k \in DOMAIN c.bytes
    BY <1>1, <1>2, PixelsWithin
  <1>4. q \in Nat
    BY PixelsWithin
  <1>5. draw_pixel(c, u, v, colour)
           = [c EXCEPT !.bytes = [j \in DOMAIN c.bytes |->
                IF j \in Painted(c, u, v) THEN colour[j - q + 1] ELSE c.bytes[j]]]
    BY <1>1 DEF draw_pixel
  <1>6. draw_pixel(c, u, v, colour).bytes
           = [j \in DOMAIN c.bytes |-> IF j \in Painted(c, u, v) THEN colour[j - q + 1] ELSE c.bytes[j]]
    BY <1>5 DEF IsCanvas
  <1>7. draw_pixel(c, u, v, colour).bytes[k]
           = IF k \in Painted(c, u, v) THEN colour[k - q + 1] ELSE c.bytes[k]
    BY <1>3, <1>6
  <1>8. Painted(c, u, v) = q .. (q + b - 1)
    BY DEF Painted
  <1>9. x = u /\ y = v => o = q
    OBVIOUS
  <1>10. Earlier(x, y, u, v) => o + n <= q
    BY <1>1, PixelsApart
  <1>11. Earlier(u, v, x, y) => q + n <= o
    BY <1>1, PixelsApart
  <1>12. Spilled(c, x, y, i) <=> c.kind = "vbe" /\ c.bpp = 24 /\ i = 1
    BY DEF Spilled
  <1>13. draw_pixel(c, u, v, colour).bytes[k] = IF k \in q .. (q + b - 1) THEN colour[k - q + 1] ELSE c.bytes[k]
    BY <1>7, <1>8
  <1> HIDE DEF o, q, b, n
  <1>14. x = u /\ y = v => k \in q .. (q + b - 1) /\ k - q + 1 = i
    BY <1>2, <1>3, <1>4, <1>9
  <1>15. Earlier(x, y, u, v) => k \notin q .. (q + b - 1)
    BY <1>2, <1>3, <1>4, <1>10
  <1>16. Earlier(u, v, x, y) => k \notin q .. (q + b - 1) \/ Spilled(c, x, y, i)
    BY <1>2, <1>3, <1>4, <1>11, <1>12
  <1> QED  BY <1>13, <1>14, <1>15, <1>16 DEF o

\* A canvas keeps its shape.
LEMMA CanvasKept ==
    ASSUME NEW c, IsCanvas(c), NEW u, NEW v, NEW colour
    PROVE  LET d == draw_pixel(c, u, v, colour)
           IN  /\ IsCanvas(d)
               /\ d.kind = c.kind /\ d.w = c.w /\ d.h = c.h /\ d.bpp = c.bpp /\ d.pitch = c.pitch /\ d.line = c.line
PROOF
  <1>1. CASE u >= c.w \/ v >= c.h
    BY <1>1 DEF draw_pixel
  <1>2. CASE ~(u >= c.w \/ v >= c.h)
    <2> DEFINE bytes == [i \in DOMAIN c.bytes |->
                            IF i \in Painted(c, u, v) THEN colour[i - pixel_offset(c, u, v) + 1] ELSE c.bytes[i]]
    <2>1. draw_pixel(c, u, v, colour) = [c EXCEPT !.bytes = bytes]
      BY <1>2 DEF draw_pixel
    <2>2. DOMAIN bytes = DOMAIN c.bytes
      OBVIOUS
    <2> HIDE DEF bytes
    <2>3. [c EXCEPT !.bytes = bytes]
             = [kind |-> c.kind, w |-> c.w, h |-> c.h, bpp |-> c.bpp, pitch |-> c.pitch, line |-> c.line, bytes |-> bytes]
      <3>1. c = [kind |-> c.kind, w |-> c.w, h |-> c.h, bpp |-> c.bpp, pitch |-> c.pitch, line |-> c.line, bytes |-> c.bytes]
        BY DEF IsCanvas
      <3>2. DOMAIN c = {"kind", "w", "h", "bpp", "pitch", "line", "bytes"}
        BY <3>1
      <3>3. [c EXCEPT !.bytes = bytes] = [n \in DOMAIN c |-> IF n = "bytes" THEN bytes ELSE c[n]]
        BY <3>1
      <3> QED  BY <3>2, <3>3
    <2> QED  BY <2>1, <2>2, <2>3 DEF IsCanvas
  <1> QED  BY <1>1, <1>2

\* What is shown says of the picture what pixel and byte are to show.
LEMMA PaintingShown ==
    ASSUME PaintInv
    PROVE  PictureShown
PROOF
  <1>1. IsCanvas(canvas) /\ BytesShown
    BY DEF PaintInv, PaintPlaces
  <1> DEFINE n == canvas.bpp \div 8
  <1>2. canvas.kind = "framebuffer" => Visible(canvas) = n /\ Bytes("framebuffer", canvas.bpp) = n
    <2>1. canvas.bpp = 24 => n = 3
      OBVIOUS
    <2>2. canvas.bpp = 32 => n = 4
      OBVIOUS
    <2>3. canvas.bpp \in {24, 32}
      BY <1>1 DEF IsCanvas
    <2>4. canvas.bpp = 24 => Bytes("framebuffer", canvas.bpp) = 3
      BY DEF Bytes
    <2>5. canvas.bpp = 32 => Bytes("framebuffer", canvas.bpp) = 4
      BY DEF Bytes
    <2> QED  BY <2>1, <2>2, <2>3, <2>4, <2>5 DEF Visible
  <1>3. canvas.kind = "vbe" => Visible(canvas) = 3
    BY DEF Visible
  <1>4. n \in {3, 4}
    BY <1>1, BytesOf
  <1>5. SUFFICES ASSUME NEW x \in 0 .. (canvas.w - 1), NEW y \in 0 .. (canvas.h - 1)
                 PROVE  /\ canvas.kind = "framebuffer" =>
                               framebuffer_get_pixel(canvas, x, y)
                                  = [i \in 1 .. 4 |-> IF i <= n THEN ToShow(x, y, i) ELSE 0]
                        /\ canvas.kind = "vbe" =>
                               \A i \in 1 .. 3 :
                                  \/ /\ canvas.bytes[pixel_offset(canvas, x, y) + i - 1] = ToShow(x, y, i)
                                     /\ canvas.line = canvas.pitch => Scanned(x, y)[i] = ToShow(x, y, i)
                                  \/ canvas.bpp = 24 /\ i = 1 /\ ~Seen(x, y)
    BY DEF PictureShown
  <1>6. \A i \in 1 .. Visible(canvas) : ByteShown(x, y, i)
    BY <1>1 DEF BytesShown
  <1>7. CASE canvas.kind = "framebuffer"
    <2>1. ~(x >= canvas.w) /\ ~(y >= canvas.h)
      BY <1>1 DEF IsCanvas
    <2>2. framebuffer_get_pixel(canvas, x, y)
             = [i \in 1 .. 4 |-> IF i <= n THEN canvas.bytes[pixel_offset(canvas, x, y) + i - 1] ELSE 0]
      BY <1>2, <1>7, <2>1 DEF framebuffer_get_pixel
    <2>3. ASSUME NEW i \in 1 .. 4, i <= n
          PROVE  canvas.bytes[pixel_offset(canvas, x, y) + i - 1] = ToShow(x, y, i)
      <3>1. ByteShown(x, y, i)
        BY <1>2, <1>4, <1>6, <1>7, <2>3
      <3> QED  BY <1>7, <3>1 DEF ByteShown, Spilled
    <2> HIDE DEF n
    <2> QED  BY <1>7, <2>2, <2>3
  <1>8. CASE canvas.kind = "vbe"
    <2>1. ASSUME NEW i \in 1 .. 3, canvas.line = canvas.pitch
          PROVE  Scanned(x, y)[i] = canvas.bytes[pixel_offset(canvas, x, y) + i - 1]
      BY <2>1 DEF Scanned, pixel_offset
    <2> QED  BY <1>3, <1>6, <1>8, <2>1 DEF ByteShown, Spilled
  <1>9. canvas.kind \in {"framebuffer", "vbe"}
    BY <1>1 DEF IsCanvas
  <1> QED  BY <1>7, <1>8, <1>9

NothingShown(c) ==
    \A x \in 0 .. (c.w - 1), y \in 0 .. (c.h - 1), i \in 1 .. Visible(c) :
        c.bytes[pixel_offset(c, x, y) + i - 1] = 0

\* A canvas is blank when it is made, with nothing in front of a pixel to spill.
LEMMA CanvasCleared ==
    ASSUME NEW kind \in {"framebuffer", "vbe"}, NEW w \in Nat, NEW h \in Nat,
           NEW bpp \in {24, 32}, NEW line \in Nat, w * (bpp \div 8) <= line
    PROVE  LET c == Cleared(kind, w, h, bpp, line)
           IN  IsCanvas(c) /\ NothingShown(c)
PROOF
  <1> DEFINE pitch == w * (bpp \div 8)
             before == [kind |-> kind, w |-> w, h |-> h, bpp |-> bpp, pitch |-> pitch, line |-> line,
                        bytes |-> [i \in 0 .. (h * line) |-> Unwritten]]
             bytes == [i \in 0 .. (h * line) |->
                         IF \E x \in 0 .. (w - 1), y \in 0 .. (h - 1) : i \in Painted(before, x, y)
                         THEN 0 ELSE Unwritten]
             c == [kind |-> kind, w |-> w, h |-> h, bpp |-> bpp, pitch |-> pitch, line |-> line, bytes |-> bytes]
  <1>1. Cleared(kind, w, h, bpp, line) = c
    <2>1. Cleared(kind, w, h, bpp, line) = clear_screen(before)
      BY DEF Cleared
    <2>2. [i \in DOMAIN before.bytes |->
              IF \E x \in 0 .. (before.w - 1), y \in 0 .. (before.h - 1) : i \in Painted(before, x, y)
              THEN 0 ELSE before.bytes[i]] = bytes
      OBVIOUS
    <2>3. clear_screen(before) = [before EXCEPT !.bytes = bytes]
      BY <2>2, Zenon DEF clear_screen
    <2> HIDE DEF bytes
    <2>4. [before EXCEPT !.bytes = bytes] = c
      OBVIOUS
    <2> QED  BY <2>1, <2>3, <2>4
  <1>2. IsCanvas(c)
    <2>1. pitch \in Nat /\ pitch <= line
      <3>1. bpp \div 8 \in {3, 4}
        OBVIOUS
      <3> QED  BY <3>1
    <2>2. c.w * (c.bpp \div 8) <= c.pitch
      BY <2>1
    <2> HIDE DEF pitch
    <2> QED  BY <2>1, <2>2 DEF IsCanvas
  <1>3. ASSUME NEW x \in 0 .. (w - 1), NEW y \in 0 .. (h - 1), NEW i \in 1 .. Visible(c)
        PROVE  c.bytes[pixel_offset(c, x, y) + i - 1] = 0
    <2>1. x \in Nat /\ y \in Nat /\ x < c.w /\ y < c.h
      OBVIOUS
    <2>2. i \in 1 .. Bytes(c.kind, c.bpp)
      <3> HIDE DEF c
      <3>1. Visible(c) \in Nat /\ Bytes(c.kind, c.bpp) \in Nat /\ Visible(c) <= Bytes(c.kind, c.bpp)
        BY <1>2, BytesOf
      <3> QED  BY <3>1
    <2>3. /\ pixel_offset(c, x, y) + i - 1 \in DOMAIN c.bytes
          /\ pixel_offset(c, x, y) + i - 1 \in Painted(c, x, y)
      <3> HIDE DEF c
      <3> QED  BY <1>2, <2>1, <2>2, PixelsWithin
    <2>4. Painted(c, x, y) = Painted(before, x, y)
      BY DEF Painted, pixel_offset
    <2> DEFINE k == pixel_offset(c, x, y) + i - 1
    <2>5. k \in 0 .. (h * line) /\ k \in Painted(before, x, y)
      BY <2>3, <2>4
    <2> HIDE DEF k, before
    <2>6. bytes[k] = 0
      BY <2>5
    <2> QED  BY <2>6 DEF k
  <1> HIDE DEF bytes
  <1>4. c.w = w /\ c.h = h
    OBVIOUS
  <1>5. NothingShown(c)
    BY <1>3, <1>4 DEF NothingShown
  <1> HIDE DEF c
  <1> QED  BY <1>1, <1>2, <1>5

LEMMA PaintStarts ==
    ASSUME PaintInit
    PROVE  PaintInv
PROOF
  <1>1. PICK s \in Screen :
            canvas = IF s.kind = "framebuffer" THEN FramebufferGraphics(s.w, s.h, s.bpp)
                                               ELSE VBEGraphics(s.w, s.h, s.bpp, s.line)
    BY DEF PaintInit
  <1>2. /\ s.kind \in {"framebuffer", "vbe"}
        /\ s.w \in Nat /\ s.h \in Nat /\ s.bpp \in {24, 32} /\ s.line \in Nat
        /\ s.line >= s.w * (s.bpp \div 8)
    BY CanvasAssumption
  <1>3. PICK line \in Nat : s.w * (s.bpp \div 8) <= line /\ canvas = Cleared(s.kind, s.w, s.h, s.bpp, line)
    <2>1. s.bpp \div 8 \in Nat
      BY <1>2
    <2>2. s.w * (s.bpp \div 8) \in Nat
      BY <1>2, <2>1
    <2> DEFINE least == s.w * (s.bpp \div 8)
    <2>3. least \in Nat /\ least <= least /\ least <= s.line
      BY <1>2, <2>2
    <2>4. CASE s.kind = "framebuffer"
      <3>1. canvas = Cleared(s.kind, s.w, s.h, s.bpp, least)
        BY <1>1, <2>4 DEF FramebufferGraphics
      <3> HIDE DEF least
      <3> QED  BY <2>3, <3>1 DEF least
    <2>5. CASE s.kind # "framebuffer"
      <3>1. canvas = Cleared(s.kind, s.w, s.h, s.bpp, s.line)
        BY <1>1, <1>2, <2>5 DEF VBEGraphics
      <3> QED  BY <1>2, <2>3, <3>1
    <2> QED  BY <2>4, <2>5
  <1>4. IsCanvas(canvas) /\ NothingShown(canvas)
    <2> DEFINE w == s.w
               h == s.h
               bpp == s.bpp
               kind == s.kind
    <2>1. kind \in {"framebuffer", "vbe"} /\ w \in Nat /\ h \in Nat /\ bpp \in {24, 32} /\ w * (bpp \div 8) <= line
      BY <1>2, <1>3
    <2>2. canvas = Cleared(kind, w, h, bpp, line)
      BY <1>3
    <2> HIDE DEF w, h, bpp, kind
    <2> QED  BY <2>1, <2>2, CanvasCleared
  <1>5. bmp \in Picture /\ px = 0 /\ py = 0 /\ bmp.width \in Nat /\ bmp.height \in Nat
    BY CanvasAssumption DEF PaintInit
  <1>6. ASSUME NEW x \in 0 .. (canvas.w - 1), NEW y \in 0 .. (canvas.h - 1)
        PROVE  ~Seen(x, y)
    BY <1>4, <1>5 DEF Seen, IsCanvas
  <1>7. BytesShown
    BY <1>4, <1>6 DEF NothingShown, BytesShown, ByteShown, ToShow
  <1>8. PaintPlaces
    BY <1>4, <1>5 DEF PaintPlaces
  <1> QED  BY <1>7, <1>8 DEF PaintInv

LEMMA PaintKept ==
    ASSUME PaintInv, [draw_background]_painting
    PROVE  PaintInv'
PROOF
  <1>1. CASE UNCHANGED painting
    BY <1>1 DEF painting, PaintInv, PaintPlaces, BytesShown, ByteShown, ToShow, Seen
  <1>2. CASE draw_background
    <2>1. IsCanvas(canvas) /\ BytesShown /\ bmp \in Picture /\ bmp' = bmp /\ py < bmp.height
      BY <1>2 DEF PaintInv, PaintPlaces, draw_background
    <2>2. /\ bmp.width \in Nat /\ bmp.height \in Nat /\ px \in Nat /\ py \in Nat
          /\ px <= bmp.width /\ canvas.w \in Nat /\ canvas.h \in Nat
      BY <2>1, CanvasAssumption DEF PaintInv, PaintPlaces, IsCanvas
    \* At the end of a row as many pixels are seen as before.
    <2>3. CASE px >= bmp.width /\ px' = 0 /\ py' = py + 1 /\ canvas' = canvas
      <3>1. px = bmp.width
        BY <2>2, <2>3
      <3>2. \A x \in Nat, y \in Nat : Seen(x, y)' <=> Seen(x, y)
        BY <2>1, <2>2, <2>3, <3>1 DEF Seen
      <3>3. ASSUME NEW x \in 0 .. (canvas.w - 1), NEW y \in 0 .. (canvas.h - 1), NEW i \in 1 .. Visible(canvas)
            PROVE  ByteShown(x, y, i)'
        <4>1. x \in Nat /\ y \in Nat /\ ByteShown(x, y, i)
          BY <2>1 DEF BytesShown
        <4>2. Seen(x, y)' <=> Seen(x, y)
          BY <3>2, <4>1
        <4> QED  BY <2>1, <2>3, <4>1, <4>2 DEF ByteShown, ToShow
      <3>4. BytesShown'
        BY <2>3, <3>3 DEF BytesShown
      <3>5. PaintPlaces'
        BY <2>1, <2>2, <2>3 DEF PaintPlaces
      <3> QED  BY <3>4, <3>5 DEF PaintInv
    <2>4. CASE /\ px < bmp.width
               /\ canvas' = draw_pixel(canvas, px, py, bmp_get_pixel(bmp, px, py))
               /\ px' = px + 1 /\ py' = py
      <3> DEFINE colour == bmp_get_pixel(bmp, px, py)
      <3>1. \A i \in 1 .. 4 : colour[i] = IF i = 4 /\ bmp.bit_count = 24 THEN Opaque ELSE bmp.shows[px][py][i]
        <4>1. px \in 0 .. (bmp.width - 1) /\ py \in 0 .. (bmp.height - 1)
          BY <2>1, <2>2, <2>4
        <4> QED  BY <2>1, <4>1, ColourRead
      <3>2. /\ IsCanvas(canvas')
            /\ canvas'.kind = canvas.kind /\ canvas'.w = canvas.w /\ canvas'.h = canvas.h
            /\ canvas'.bpp = canvas.bpp /\ canvas'.pitch = canvas.pitch /\ canvas'.line = canvas.line
        BY <2>1, <2>4, CanvasKept
      <3>3. PaintPlaces'
        BY <2>1, <2>2, <2>4, <3>2 DEF PaintPlaces
      <3>4. ASSUME NEW x \in Nat, NEW y \in Nat
            PROVE  /\ Seen(x, y) => Earlier(x, y, px, py)
                   /\ Seen(x, y)' <=> Seen(x, y) \/ (x = px /\ y = py)
                   /\ (x = px /\ y = py) \/ Earlier(x, y, px, py) \/ Earlier(px, py, x, y)
        BY <2>1, <2>2, <2>4 DEF Seen, Earlier
      <3>5. ASSUME NEW x \in 0 .. (canvas.w - 1), NEW y \in 0 .. (canvas.h - 1), NEW i \in 1 .. Visible(canvas)
            PROVE  ByteShown(x, y, i)'
        <4> DEFINE k == pixel_offset(canvas, x, y) + i - 1
        <4>1. x \in Nat /\ y \in Nat /\ x < canvas.w /\ y < canvas.h /\ i \in 1 .. 4
          BY <2>1, <2>2, BytesOf
        <4>2. ByteShown(x, y, i)
          BY <2>1 DEF BytesShown
        <4>3. /\ pixel_offset(canvas, x, y)' = pixel_offset(canvas, x, y)
              /\ Spilled(canvas, x, y, i)' <=> Spilled(canvas, x, y, i)
          BY <3>2 DEF pixel_offset, Spilled
        <4>4. CASE px >= canvas.w \/ py >= canvas.h
          <5>1. canvas' = canvas
            BY <2>4, <4>4 DEF draw_pixel
          <5>2. ~(x = px /\ y = py)
            BY <2>2, <4>1, <4>4
          <5>3. Seen(x, y)' <=> Seen(x, y)
            BY <3>4, <4>1, <5>2
          <5> QED  BY <2>1, <4>2, <5>1, <5>3 DEF ByteShown, ToShow
        <4>5. CASE px < canvas.w /\ py < canvas.h
          <5>1. /\ x = px /\ y = py => canvas'.bytes[k] = colour[i]
                /\ Earlier(x, y, px, py) => canvas'.bytes[k] = canvas.bytes[k]
                /\ Earlier(px, py, x, y) => canvas'.bytes[k] = canvas.bytes[k] \/ Spilled(canvas, x, y, i)
            BY <2>1, <2>2, <2>4, <4>5, PixelDrawn
          <5> HIDE DEF colour, k
          <5>2. ByteShown(x, y, i) <=> canvas.bytes[k] = ToShow(x, y, i) \/ (Spilled(canvas, x, y, i) /\ ~Seen(x, y))
            BY DEF ByteShown, k
          <5>3. ByteShown(x, y, i)' <=> canvas'.bytes[k] = ToShow(x, y, i)' \/ (Spilled(canvas, x, y, i) /\ ~Seen(x, y)')
            BY <4>3 DEF ByteShown, k
          <5>4. CASE x = px /\ y = py
            <6>1. ToShow(x, y, i)' = colour[i]
              BY <2>1, <3>1, <3>4, <4>1, <5>4 DEF ToShow
            <6> QED  BY <5>1, <5>3, <5>4, <6>1
          <5>5. CASE ~(x = px /\ y = py)
            <6>1. Seen(x, y)' <=> Seen(x, y)
              BY <3>4, <4>1, <5>5
            <6>2. ToShow(x, y, i)' = ToShow(x, y, i)
              BY <2>1, <6>1 DEF ToShow
            <6>3. CASE Earlier(x, y, px, py)
              BY <4>2, <5>1, <5>2, <5>3, <6>1, <6>2, <6>3
            <6>4. CASE Earlier(px, py, x, y)
              <7>1. ~Seen(x, y)
                <8>1. ~Earlier(x, y, px, py)
                  BY <2>2, <4>1, <6>4 DEF Earlier
                <8> QED  BY <3>4, <4>1, <8>1
              <7> QED  BY <4>2, <5>1, <5>2, <5>3, <6>1, <6>2, <6>4, <7>1
            <6> QED  BY <3>4, <4>1, <5>5, <6>3, <6>4
          <5> QED  BY <5>4, <5>5
        <4> QED  BY <2>2, <4>4, <4>5
      <3>6. Visible(canvas)' = Visible(canvas)
        BY <3>2 DEF Visible
      <3>7. BytesShown'
        BY <3>2, <3>5, <3>6 DEF BytesShown
      <3> QED  BY <3>3, <3>7 DEF PaintInv
    <2> QED  BY <1>2, <2>3, <2>4 DEF draw_background
  <1> QED  BY <1>1, <1>2

\* Whatever canvas and picture, of any size, each pixel that was drawn has the channels
\* that the format says, upright, and none of the others changes but for the spilled byte.
THEOREM CanvasPictureShown == PaintSpec => []PictureShown
PROOF
  <1>1. PaintInit => PaintInv
    BY PaintStarts
  <1>2. PaintInv /\ [draw_background]_painting => PaintInv'
    BY PaintKept
  <1>3. PaintInv => PictureShown
    BY PaintingShown
  <1> QED  BY <1>1, <1>2, <1>3, PTL DEF PaintSpec
==============================================================================
