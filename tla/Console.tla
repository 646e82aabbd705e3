------------------------------- MODULE Console -------------------------------
(***************************************************************************)
(* Printing text (drivers/graphics/text_mode, drivers/graphics/vbe and     *)
(* stdlib/graphics/framebuffer.cpp): the cursor, the wrap at the end of a  *)
(* row and the scroll at the end of the screen, in their three variants.   *)
(*                                                                         *)
(* The video memory is an array of cells, row by row; in the graphical     *)
(* variants a cell is the pixels of one character and holds the glyphs      *)
(* that were drawn over each other there, the topmost last.                *)
(***************************************************************************)
EXTENDS Integers, Sequences

CONSTANTS
    WIDTH, HEIGHT,      \* in characters
    Char,               \* printable characters
    Color               \* colours of text; the first is the initial one

ASSUME ConsoleAssumption ==
    /\ WIDTH \in Nat \ {0} /\ HEIGHT \in Nat \ {0}
    /\ Color \in Seq(STRING) /\ Len(Color) > 0
    /\ {"\n", "\r"} \cap Char = {}

VARIABLES
    device,             \* "text_mode", "vbe" or "framebuffer"
    video_mem,          \* the cells
    current_x, current_y, current_fg,
    paper               \* history: the last HEIGHT lines of the text since the last clear

cursor == <<current_x, current_y>>
console == <<device, video_mem, cursor, current_fg, paper>>

Cell == 0 .. (WIDTH * HEIGHT - 1)
Blank == << >>

----------------------------------------------------------------------------
\* The rows move up by amount, the last ones become blank.
Scrolled(mem, amount) ==
    [i \in Cell |-> IF i < WIDTH * (HEIGHT - amount) THEN mem[i + WIDTH * amount] ELSE Blank]

\* Text mode compares with equality, the others with an order.
AtEnd(i, limit) == IF device = "text_mode" THEN i = limit ELSE i >= limit

\* Mutated: the row is left as soon as it is full.
EagerLine(c) == c = "\n" \/ AtEnd(current_x, WIDTH)

\* Where the cursor is when c has been looked at, and whether the screen
\* scrolls; a full row is left only when the next character comes.
NextLine(c) == c = "\n" \/ (c # "\r" /\ AtEnd(current_x, WIDTH))

Column(c) == IF c \in {"\n", "\r"} \/ NextLine(c) THEN 0 ELSE current_x
Row(c) == IF NextLine(c) THEN current_y + 1 ELSE current_y

\* In text mode a character replaces the cell, elsewhere its glyph is drawn over
\* those that are there.
Drawn(old, c, color) ==
    IF device = "text_mode" \/ old = Blank THEN <<<<c, color>>>>
    ELSE Append(SelectSeq(old, LAMBDA glyph : glyph[1] # c), <<c, color>>)

print_char_color(c, color) ==
    LET scrolls == AtEnd(Row(c), HEIGHT)
        x == IF scrolls THEN 0 ELSE Column(c)
        y == IF scrolls THEN HEIGHT - 1 ELSE Row(c)
        mem == IF scrolls THEN Scrolled(video_mem, 1) ELSE video_mem
    IN  /\ current_y' = y
        /\ IF c \in {"\n", "\r"}
           THEN current_x' = x /\ video_mem' = mem
           ELSE /\ current_x' = x + 1
                /\ video_mem' = [mem EXCEPT ![y * WIDTH + x] = Drawn(@, c, color)]

----------------------------------------------------------------------------
(* The paper: a sequence of lines, each a sequence of cells, and the place  *)
(* where the next character goes, as a reader would have it.                *)

Fresh == [lines |-> <<<< >>>>, column |-> 0]

Over(line, column, c, color) ==
    IF column < Len(line) THEN [line EXCEPT ![column + 1] = Drawn(@, c, color)]
    ELSE Append(line, <<<<c, color>>>>)

\* Of a text, as much as fits the screen.
LastLines(lines) ==
    SubSeq(lines, 1 + (IF Len(lines) > HEIGHT THEN Len(lines) - HEIGHT ELSE 0), Len(lines))

Written(p, c, color) ==
    LET last == Len(p.lines)
    IN  CASE c = "\n" -> [lines |-> LastLines(Append(p.lines, << >>)), column |-> 0]
          [] c = "\r" -> [p EXCEPT !.column = 0]
          [] c \in Char /\ p.column = WIDTH ->
                [lines |-> LastLines(Append(p.lines, <<<<<<c, color>>>>>>)), column |-> 1]
          [] c \in Char /\ p.column < WIDTH ->
                [lines |-> [p.lines EXCEPT ![last] = Over(@, p.column, c, color)],
                 column |-> p.column + 1]

----------------------------------------------------------------------------
ConsoleInit ==
    /\ device \in {"text_mode", "vbe", "framebuffer"}
    /\ video_mem = [i \in Cell |-> Blank]
    /\ current_x = 0 /\ current_y = 0
    /\ current_fg = Color[1]
    /\ paper = Fresh

print_char(c) ==
    /\ print_char_color(c, current_fg)
    /\ paper' = Written(paper, c, current_fg)
    /\ UNCHANGED <<device, current_fg>>

set_text_color(color) ==
    /\ current_fg' = color
    /\ UNCHANGED <<device, video_mem, cursor, paper>>

\* All clear the memory.  Only text mode and programs put the cursor back, and
\* programs the colour, too.
clear_text_mode ==
    /\ device = "text_mode"
    /\ current_x' = 0 /\ current_y' = 0
    /\ video_mem' = [i \in Cell |-> Blank]
    /\ paper' = Fresh
    /\ UNCHANGED <<device, current_fg>>

\* The lines above the cursor are blank now, and the next line goes below them.
clear_vbe ==
    /\ device = "vbe"
    /\ video_mem' = [i \in Cell |-> Blank]
    /\ paper' = [lines |-> [i \in 1 .. (current_y + 1) |->
                               IF i <= current_y THEN << >> ELSE [j \in 1 .. current_x |-> Blank]],
                 column |-> current_x]
    /\ UNCHANGED <<device, cursor, current_fg>>

clear_framebuffer ==
    /\ device = "framebuffer"
    /\ video_mem' = [i \in Cell |-> Blank]
    /\ current_x' = 0 /\ current_y' = 0
    /\ current_fg' = Color[1]
    /\ paper' = Fresh
    /\ UNCHANGED device

ConsoleNext ==
    \/ \E c \in Char \cup {"\n", "\r"} : print_char(c)
    \/ \E i \in DOMAIN Color : set_text_color(Color[i])
    \/ clear_text_mode
    \/ clear_vbe
    \/ clear_framebuffer

ConsoleSpec == ConsoleInit /\ [][ConsoleNext]_console

----------------------------------------------------------------------------
\* Whatever is printed in whatever order, with rows filled exactly, lines
\* returned to and screens cleared, the screen shows the end of the text, each
\* character in its place, nothing beside or below it, and the cursor is where the
\* text goes on.
ScreenShowsTail ==
    /\ current_y = Len(paper.lines) - 1
    /\ current_x = paper.column
    /\ \A y \in 0 .. (HEIGHT - 1), x \in 0 .. (WIDTH - 1) :
          video_mem[y * WIDTH + x] =
              IF y < Len(paper.lines) /\ x < Len(paper.lines[y + 1])
              THEN paper.lines[y + 1][x + 1] ELSE Blank
=============================================================================
