-------------------------------- MODULE Desktop --------------------------------
(***************************************************************************)
(* What the shell draws (userland/shell/shell.cpp): the background, one    *)
(* window that can be dragged by its title bar, and the cursor of the      *)
(* mouse.  The shell draws into a buffer of its own (graphics/             *)
(* framebuffer.cpp) and copies rows of it to the file of the frame buffer  *)
(* (MemoryFS), each with a seek and a write.                               *)
(*                                                                         *)
(* A pixel is one unit of a buffer and a colour: "bg" of the background,   *)
(* "bar" and "name" of a title bar, "cursor", a colour of a client, or     *)
(* Black outside of the screen.  Coordinates are counted modulo Wide.      *)
(***************************************************************************)
EXTENDS MemoryFS

CONSTANTS
    Width, Height,                  \* of the screen
    WindowWidth, WindowHeight, TitleHeight, NameWidth,
    CursorSize,                     \* the cursor is a square
    Transparent,                    \* <<x, y>> of the cursor that are not drawn
    Content,                        \* colours of the client
    Motion,                         \* <<x, y>> of the packets of the mouse
    Place,                          \* where memory happens to put a window first
    Rounds,                         \* how many rounds of the loop are followed
    Black

\* The title bar has a row, which is long enough for the name, and the cursor is
\* not larger than a window; nothing else is drawn in the cursor's colour.
ASSUME DesktopAssumption ==
    /\ {Width, Height, WindowWidth, WindowHeight, TitleHeight, NameWidth, CursorSize, Rounds} \subseteq Nat
    /\ Width * Height = BufferSize
    /\ TitleHeight > 0 /\ NameWidth <= WindowWidth
    /\ CursorSize <= WindowWidth /\ CursorSize <= WindowHeight + TitleHeight
    /\ Motion \subseteq Int \X Int /\ Place \subseteq (0 .. (Wide - 1)) \X (0 .. (Wide - 1))
    /\ "cursor" \notin Content \cup {Black}

VARIABLES
    buffer,         \* what the shell has drawn, by offset
    mouse,          \* mouse_x, mouse_y
    under,          \* under_cursor_buffer
    window,         \* the window of the client
    rounds,         \* of the loop so far
    strayed         \* history: a row did not end inside the screen

desktop_vars == <<fb, expected, buffer, mouse, under, window, rounds, strayed>>

----------------------------------------------------------------------------
\* Drawing, on a record d of the two buffers and the history.
Modulo(n) == n % Wide
get_offset(x, y) == Modulo(Width * y + x)
OnScreen(x, y) == x < Width /\ y < Height

get_pixel(d, x, y) == IF OnScreen(x, y) THEN d.buffer[get_offset(x, y)] ELSE Black

\* Pixels, a function from coordinates to colours; what is off screen is not drawn.
Draw(d, pixels) ==
    LET at == {p \in DOMAIN pixels : OnScreen(p[1], p[2])}
    IN  [d EXCEPT !.buffer = [i \in DOMAIN @ |->
            IF \E p \in at : get_offset(p[1], p[2]) = i
            THEN pixels[CHOOSE p \in at : get_offset(p[1], p[2]) = i]
            ELSE @[i]]]

Rectangle(x, y, w, h) ==
    {<<Modulo(x + i), Modulo(y + j)>> : i \in 0 .. (w - 1), j \in 0 .. (h - 1)}

Filled(x, y, w, h, colour) == [p \in Rectangle(x, y, w, h) |-> colour]

\* Mutated: the row goes wherever the position is.
WriteOnly(d, x, y, w) ==
    LET off == get_offset(x, y)
    IN  IF off + w > BufferSize THEN [d EXCEPT !.strayed = TRUE]
        ELSE [d EXCEPT !.fb = write(@, [i \in 1 .. w |-> d.buffer[off + i - 1]])]

\* One row of the buffer to the screen.  A seek may be refused, which nobody
\* looks at, and behind the buffer lies other memory.
WriteRow(d, x, y, w) ==
    LET off == get_offset(x, y)
        to == seek(d.fb, off, "SEEK_SET")
        row == [i \in 1 .. w |->
                  IF off + i - 1 < BufferSize THEN d.buffer[off + i - 1] ELSE Black]
    IN  [d EXCEPT !.fb = write(IF to = Refused THEN @ ELSE [@ EXCEPT !.idx = to], row),
                  !.strayed = @ \/ off + w > BufferSize]

WriteRows(d, x, y, w, h) ==
    LET after[j \in 0 .. h] ==
            IF j = 0 THEN d ELSE WriteRow(after[j - 1], x, Modulo(y + j - 1), w)
    IN  after[h]

\* A row of the client is copied, and not drawn: it goes on in the next line.
CopyRow(d, x, y, w, colour) ==
    LET off == get_offset(x, y)
    IN  [d EXCEPT !.buffer = [i \in DOMAIN @ |-> IF i \in off .. (off + w - 1) THEN colour ELSE @[i]],
                  !.strayed = @ \/ off + w > BufferSize]

----------------------------------------------------------------------------
\* A frame of the client is drawn unless its window is being moved.
draw_title(d, w) ==
    LET bar == Draw(d, Filled(w.x, w.y, WindowWidth, TitleHeight, "bar"))
    IN  WriteRows(Draw(bar, Filled(w.x, w.y, NameWidth, 1, "name")),
                  w.x, w.y, WindowWidth, TitleHeight)

content_row(d, w, y) == WriteRow(CopyRow(d, w.x, y, WindowWidth, w.fd), w.x, y, WindowWidth)

draw_content(d, w) ==
    LET after[j \in 0 .. WindowHeight] ==
            IF j = 0 THEN d ELSE content_row(after[j - 1], w, Modulo(w.y + TitleHeight + j - 1))
    IN  after[WindowHeight]

draw_window(d, w) ==
    IF w.dirty /\ ~w.moving THEN draw_content(draw_title(d, w), w) ELSE d

\* A packet with the button down on the title bar drags the window by the
\* packet's motion; one with the button up drops it.
OnTitle(w) ==
    /\ mouse[1] > w.x /\ mouse[1] - w.x < WindowWidth
    /\ mouse[2] > w.y /\ mouse[2] - w.y < TitleHeight

Dragged(w, dx, dy, button) ==
    IF button /\ OnTitle(w)
    THEN [w EXCEPT !.old_x = IF w.moving THEN @ ELSE w.x,
                   !.old_y = IF w.moving THEN @ ELSE w.y,
                   !.moving = TRUE,
                   !.x = Modulo(@ + dx), !.y = Modulo(@ + dy)]
    ELSE w

Drops(w, button) == ~button /\ w.moving

\* The background over where the window was, and what the cursor will be
\* replaced with: read where the window was, too, and not where the cursor is.
erase_window(d, w) ==
    LET height == WindowHeight + TitleHeight
    IN  WriteRows(Draw(d, [p \in Rectangle(w.old_x, w.old_y, WindowWidth, height) |->
                             IF OnScreen(p[1], p[2]) THEN "bg" ELSE Black]),
                  w.old_x, w.old_y, WindowWidth, height)

Square == (0 .. (CursorSize - 1)) \X (0 .. (CursorSize - 1))
Saved(d, x, y) == [p \in Square |-> get_pixel(d, Modulo(x + p[1]), Modulo(y + p[2]))]

Shifted(pixels, x, y) ==
    [p \in {<<x + q[1], y + q[2]>> : q \in DOMAIN pixels} |-> pixels[<<p[1] - x, p[2] - y>>]]

\* Mutated: what is transparent is put back, nothing else.
RestoreTransparent(d, pixels) ==
    WriteRows(Draw(d, Shifted([p \in Transparent |-> pixels[p]], mouse[1], mouse[2])),
              mouse[1], mouse[2], CursorSize, CursorSize)

restore_under(d, pixels) ==
    WriteRows(Draw(d, Shifted(pixels, mouse[1], mouse[2])),
              mouse[1], mouse[2], CursorSize, CursorSize)

draw_cursor(d, x, y) ==
    Draw(d, Shifted([p \in Square \ Transparent |-> "cursor"], x, y))

\* The cursor may stand one behind the last column and the last row.
Clamped(n, limit) == IF n < 1 THEN 1 ELSE IF n >= limit THEN limit ELSE n

----------------------------------------------------------------------------
Drawing == [fb |-> fb, buffer |-> buffer, strayed |-> strayed]
Becomes(d) ==
    fb' = d.fb /\ buffer' = d.buffer /\ strayed' = d.strayed /\ UNCHANGED expected

\* Nothing is drawn yet; a window lies wherever memory happens to say.
DesktopInit ==
    /\ MemoryFSInit
    /\ mouse = <<Width \div 2, Height \div 2>>
    /\ buffer = [i \in 0 .. (BufferSize - 1) |-> Black]
    /\ under = [p \in Square |-> Black]
    /\ strayed = FALSE /\ rounds = 0
    /\ \E at \in Place, c \in Content, dirty \in BOOLEAN :
          window = [x |-> at[1], y |-> at[2], fd |-> c, dirty |-> dirty,
                    old_x |-> 0, old_y |-> 0, moving |-> FALSE]

\* The background, the cursor on it, and all of it in one write, which takes the
\* whole file: nobody must have moved the position.
set_up ==
    LET bg == [Drawing EXCEPT !.buffer = [i \in DOMAIN @ |-> "bg"]]
        drawn == draw_cursor(bg, mouse[1], mouse[2])
    IN  /\ rounds = 0 /\ rounds' = 1
        /\ under' = Saved(bg, mouse[1], mouse[2])
        /\ Becomes([drawn EXCEPT !.fb = write(@, [i \in 1 .. BufferSize |-> drawn.buffer[i - 1]])])
        /\ UNCHANGED <<mouse, window>>

\* A round of the loop that finds a frame of the client and no packet of the
\* mouse; the frame of a window that is being moved waits.
frame(colour) ==
    LET w == [window EXCEPT !.fd = colour, !.dirty = TRUE]
    IN  /\ rounds \in 1 .. (Rounds - 1) /\ rounds' = rounds + 1
        /\ Becomes(draw_window(Drawing, w))
        /\ window' = [w EXCEPT !.dirty = w.moving]
        /\ UNCHANGED <<mouse, under>>

\* A round with a packet: a frame that waits is drawn, the window dragged or
\* dropped, and the cursor moved.
packet(dx, dy, button) ==
    LET waiting == draw_window(Drawing, window)
        w == Dragged([window EXCEPT !.dirty = window.moving /\ window.dirty], dx, dy, button)
        drops == Drops(w, button)
        erased == IF drops THEN erase_window(waiting, w) ELSE waiting
        pixels == IF drops THEN Saved(erased, w.old_x, w.old_y) ELSE under
        restored == restore_under(erased, pixels)
        x == Clamped(mouse[1] + dx, Width)
        y == Clamped(mouse[2] + dy, Height)
    IN  /\ rounds \in 1 .. (Rounds - 1) /\ rounds' = rounds + 1
        /\ Becomes(WriteRows(draw_cursor(restored, x, y), x, y, CursorSize, CursorSize))
        /\ under' = Saved(restored, x, y)
        /\ mouse' = <<x, y>>
        /\ window' = [w EXCEPT !.moving = @ /\ ~drops]

DesktopNext ==
    \/ set_up
    \/ \E colour \in Content : frame(colour)
    \/ \E move \in Motion, button \in BOOLEAN : packet(move[1], move[2], button)

DesktopSpec == DesktopInit /\ [][DesktopNext]_desktop_vars

----------------------------------------------------------------------------
\* Once it is set up the screen shows what the shell has drawn, although only rows are copied and
\* every copy goes through a position that a refused seek leaves where it was:
\* until a row begins or ends behind the last pixel (shell.cpp:233-236, 271-273),
\* which the cursor's does at the lower edge.
ScreenShowsBuffer == rounds > 0 /\ ~strayed => fb.data = buffer

\* A moving mouse leaves no trail: what looks like the cursor is the cursor, over
\* windows drawn above it, drags and drops, and clamping at the edges.
OneCursor ==
    \A x \in 0 .. (Width - 1), y \in 0 .. (Height - 1) :
        get_pixel(Drawing, x, y) = "cursor" => <<x - mouse[1], y - mouse[2]>> \in Square
===============================================================================
