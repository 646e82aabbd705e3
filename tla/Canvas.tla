------------------------------- MODULE Canvas -------------------------------
(***************************************************************************)
(* Pixels: the two kinds of frame buffer (drivers/graphics/vbe and         *)
(* stdlib/graphics/framebuffer.cpp) and the picture that the shell draws   *)
(* on its own, its background (stdlib/format/bmp/BMPFile.cpp, shell.cpp).  *)
(* The shell draws on a program's buffer; the kernel's, whose draw_pixel   *)
(* is another one, is put to the same test.                                *)
(*                                                                         *)
(* A colour is the sequence of its bytes blue, green, red and alpha.  A    *)
(* canvas is a record of its kind, its geometry and its bytes, which are   *)
(* one more than it has rows for; a picture of its header and its bytes.   *)
(* Its rows are drawn `pitch' bytes apart, and shown `line' bytes apart.   *)
(***************************************************************************)
EXTENDS Integers, Sequences

CONSTANTS
    Screen,             \* the sizes of canvases: [kind, w, h, bpp, line]
    Unwritten,          \* what the memory of a canvas holds at first
    Picture             \* the files, with the channels that each pixel is to have: `shows'

VARIABLES
    canvas,             \* what is drawn on
    bmp,                \* the picture
    px, py              \* the pixel that is drawn next

painting == <<canvas, bmp, px, py>>

\* A row of a file is filled up to a multiple of four bytes.
Padded(stride, bytes) == stride % 4 = 0 /\ bytes <= stride /\ stride < bytes + 4

\* What the format says of a file: its rows are stored from the bottom, the pixels of
\* a row from the left, the channels of a pixel in the order of a colour.
Stored(p) ==
    \A x \in 0 .. (p.width - 1), y \in 0 .. (p.height - 1), i \in 1 .. (p.bit_count \div 8) :
        LET place == p.offset + (p.height - 1 - y) * p.stride + x * (p.bit_count \div 8) + i
        IN  place \in DOMAIN p.bytes /\ p.bytes[place] = p.shows[x][y][i]

\* Of the depths, those that pixels are read and drawn in.  The card of the
\* kernel's screen may leave room between its rows: its bytes of a line.
ASSUME CanvasAssumption ==
    /\ \A s \in Screen :
          /\ s.kind \in {"framebuffer", "vbe"}
          /\ s.w \in Nat /\ s.h \in Nat /\ s.bpp \in {24, 32} /\ s.line \in Nat
          /\ s.line >= s.w * (s.bpp \div 8)
    /\ \A p \in Picture :
          /\ p.width \in Nat /\ p.height \in Nat /\ p.bit_count \in {24, 32}
          /\ p.offset \in Nat /\ p.stride \in Nat
          /\ Padded(p.stride, p.width * (p.bit_count \div 8))
          /\ Stored(p)

Colourless == <<0, 0, 0, 0>>
Opaque == 255

----------------------------------------------------------------------------
\* How many bytes of a colour are written: the kernel's has the two cases swapped.
Bytes(kind, bpp) ==
    CASE bpp = 32 -> IF kind = "vbe" THEN 3 ELSE 4
      [] bpp = 24 -> IF kind = "vbe" THEN 4 ELSE 3
      [] OTHER    -> 0

pixel_offset(c, x, y) == y * c.pitch + x * (c.bpp \div 8)
Painted(c, x, y) == pixel_offset(c, x, y) .. (pixel_offset(c, x, y) + Bytes(c.kind, c.bpp) - 1)

draw_pixel(c, x, y, colour) ==
    IF x >= c.w \/ y >= c.h THEN c
    ELSE [c EXCEPT !.bytes = [i \in DOMAIN @ |->
            IF i \in Painted(c, x, y) THEN colour[i - pixel_offset(c, x, y) + 1] ELSE @[i]]]

framebuffer_get_pixel(c, x, y) ==
    IF x >= c.w \/ y >= c.h THEN Colourless
    ELSE [i \in 1 .. 4 |-> IF i <= Bytes("framebuffer", c.bpp)
                           THEN c.bytes[pixel_offset(c, x, y) + i - 1] ELSE 0]

\* Every pixel is drawn in no colour.
clear_screen(c) ==
    [c EXCEPT !.bytes = [i \in DOMAIN @ |->
        IF \E x \in 0 .. (c.w - 1), y \in 0 .. (c.h - 1) : i \in Painted(c, x, y) THEN 0 ELSE @[i]]]

Cleared(kind, w, h, bpp, line) ==
    clear_screen([kind |-> kind, w |-> w, h |-> h, bpp |-> bpp,
                  pitch |-> w * (bpp \div 8), line |-> line,
                  bytes |-> [i \in 0 .. (h * line) |-> Unwritten]])

\* A program allots its rows; the kernel is given the memory of the card, and is not
\* told of its lines.
FramebufferGraphics(w, h, bpp) == Cleared("framebuffer", w, h, bpp, w * (bpp \div 8))
VBEGraphics(w, h, bpp, line) == Cleared("vbe", w, h, bpp, line)

----------------------------------------------------------------------------
\* Mutated: the rows are not padded.
Unpadded(width) == 3 * width

\* The bytes of a row of a picture with 24 bits, a multiple of four.
row_stride(width) == 4 * ((3 * width + 3) \div 4)

\* The rows of a file are stored from the bottom.
bmp_get_pixel(p, x, y) ==
    LET row == p.height - 1 - y
        raster(i) == p.bytes[p.offset + i + 1]
        at24 == row * row_stride(p.width) + x * 3
        at32 == 4 * (row * p.width + x)
    IN  CASE x >= p.width \/ y >= p.height -> Colourless
          [] x < p.width /\ y < p.height /\ p.bit_count = 24 ->
               <<raster(at24), raster(at24 + 1), raster(at24 + 2), Opaque>>
          [] x < p.width /\ y < p.height /\ p.bit_count = 32 ->
               <<raster(at32), raster(at32 + 1), raster(at32 + 2), raster(at32 + 3)>>
          [] OTHER -> Colourless

----------------------------------------------------------------------------
PaintInit ==
    /\ \E s \in Screen :
          canvas = IF s.kind = "framebuffer" THEN FramebufferGraphics(s.w, s.h, s.bpp)
                                             ELSE VBEGraphics(s.w, s.h, s.bpp, s.line)
    /\ bmp \in Picture
    /\ px = 0 /\ py = 0

\* The background: row by row, each from the left.
draw_background ==
    /\ py < bmp.height
    /\ \/ /\ px < bmp.width
          /\ canvas' = draw_pixel(canvas, px, py, bmp_get_pixel(bmp, px, py))
          /\ px' = px + 1
          /\ UNCHANGED py
       \/ /\ px >= bmp.width
          /\ px' = 0 /\ py' = py + 1
          /\ UNCHANGED canvas
    /\ UNCHANGED bmp

PaintSpec == PaintInit /\ [][draw_background]_painting

----------------------------------------------------------------------------
\* The pixel was drawn.
Seen(x, y) == x < bmp.width /\ (y < py \/ (y = py /\ x < px))

\* What a pixel of the canvas is to hold in one of its bytes.
ToShow(x, y, i) ==
    IF ~Seen(x, y) THEN 0
    ELSE IF i = 4 /\ bmp.bit_count = 24 THEN Opaque ELSE bmp.shows[x][y][i]

\* What the card shows of a pixel.
Scanned(x, y) == [i \in 1 .. 3 |-> canvas.bytes[y * canvas.line + x * (canvas.bpp \div 8) + i - 1]]

\* A picture whose rows are stored from the bottom and padded is drawn upright, pixel
\* by pixel, cut at the edges of the canvas; what is beside it or not drawn yet stays
\* blank, but for the byte that the kernel's 24-bit canvas writes behind each pixel.
\* On the kernel's screen it is also shown so if there is no room between the rows.
PictureShown ==
    \A x \in 0 .. (canvas.w - 1), y \in 0 .. (canvas.h - 1) :
        /\ canvas.kind = "framebuffer" =>
               framebuffer_get_pixel(canvas, x, y)
                  = [i \in 1 .. 4 |-> IF i <= canvas.bpp \div 8 THEN ToShow(x, y, i) ELSE 0]
        /\ canvas.kind = "vbe" =>
               \A i \in 1 .. 3 :
                  \/ /\ canvas.bytes[pixel_offset(canvas, x, y) + i - 1] = ToShow(x, y, i)
                     /\ canvas.line = canvas.pitch => Scanned(x, y)[i] = ToShow(x, y, i)
                  \/ canvas.bpp = 24 /\ i = 1 /\ ~Seen(x, y)

\* GitBoot.hpp:36 of the pitch that the card tells: "Bytes per scanline".  What the
\* kernel has drawn of a picture is what the card shows there; does not hold where
\* the card leaves room between its rows, since setup computes the pitch itself.
ShownWhereDrawn ==
    canvas.kind = "vbe" =>
        \A x \in 0 .. (canvas.w - 1), y \in 0 .. (canvas.h - 1) :
            Seen(x, y) => \A i \in 1 .. 3 : Scanned(x, y)[i] = ToShow(x, y, i)
=============================================================================
