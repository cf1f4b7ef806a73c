-------------------------------- MODULE Picture --------------------------------
(***************************************************************************)
(* The drawing of src/ppu.c: ppu_draw_scanline with the registers and OAM   *)
(* the program has set when a line ends.  A pixel is known by where its      *)
(* colour comes from, the address of a row of a tile, a bit of its two bytes *)
(* and a palette; which colour they give is not looked at, only whether a    *)
(* sprite is transparent there.  frame_buffer is the linear array of the     *)
(* code; a store outside it changes no pixel.                                *)
(***************************************************************************)
EXTENDS Integers, Sequences, FiniteSetsExt

CONSTANTS
  WIDTH, HEIGHT,  (* 160 and 144                                             *)
  TILES,          (* tiles in a row or column of a tile map, 32; 8 * TILES   *)
                  (* is also where the uint8_t of positions wraps            *)
  TileMap,        (* the tile numbers in VRAM, by address                    *)
  Clear,          (* <<row, bit>> where a tile has colour 0                  *)
  RegisterStores, (* values the registers get                                *)
  OamStores,      (* sprites OAM gets; the others of the 40 are off screen   *)
  MaxStores       (* bound on the stores within one frame                    *)

TM_AREA_A    == \h8000
TM_AREA_B    == \h8800
BGWIN_AREA_A == \h9C00
BGWIN_AREA_B == \h9800
TILE_SIZE    == 16

Lines == 0 .. HEIGHT - 1
Cells == 0 .. WIDTH * HEIGHT - 1

(* A pixel left from an earlier frame.                                        *)
Old == [row |-> 0, bit |-> 0, palette |-> 3]

(* LCDC by its bits, BGWIN_ENABLE, OBJ_ENABLE, OBJ_SIZE, BG_TM_AREA,          *)
(* BGWIN_TD_AREA, WIN_ENABLE, WIN_TM_AREA, and the scroll registers.          *)
Registers ==
  [bgwin : BOOLEAN, obj : BOOLEAN, tall : BOOLEAN, bg_a : BOOLEAN, data_a : BOOLEAN,
   win : BOOLEAN, win_a : BOOLEAN, scy : Nat, scx : Nat, winy : Nat, winx : Nat]

OAMEntry ==
  [y_pos : Nat, x_pos : Nat, tile_idx : 0 .. 255, x_flip : BOOLEAN, y_flip : BOOLEAN, palette : 1 .. 2]

ASSUME PictureAssumption ==
  /\ {WIDTH, HEIGHT, TILES} \subseteq Nat \ {0}
  /\ \A addr \in DOMAIN TileMap : TileMap[addr] \in 0 .. 255
  /\ \A area \in {BGWIN_AREA_A, BGWIN_AREA_B}, k \in 0 .. TILES * TILES - 1 : area + k \in DOMAIN TileMap
  /\ RegisterStores \subseteq Registers
  /\ OamStores \subseteq Seq(OAMEntry)
  /\ MaxStores \in Nat

VARIABLES
  registers, oam,
  scln,          (* LY: the line to be drawn                                  *)
  frame_buffer,
  shown,         (* history: with what each line of this frame was drawn      *)
  stores         (* stores made in this frame, at most MaxStores              *)

vars == <<registers, oam, scln, frame_buffer, shown, stores>>

Init ==
  /\ registers \in RegisterStores
  /\ oam \in OamStores
  /\ scln = 0
  /\ frame_buffer = [c \in Cells |-> Old]
  /\ shown = <<>>
  /\ stores = 0

------------------------------------------------------------------------------
(* Background and window. *)

(* tile_id is an int8_t here, whatever tile_unsigned said.                    *)
locate_tile(tile_id, reg) ==
  LET signed == IF tile_id < 128 THEN tile_id ELSE tile_id - 256
  IN  IF reg.data_a THEN TM_AREA_A + signed * TILE_SIZE
      ELSE TM_AREA_B + (signed + 128) * TILE_SIZE

Position(n) == n % (8 * TILES)

(* The window has the whole line once it has begun.                           *)
OnWindow(reg, y) == reg.win /\ reg.winy <= y

Map(reg, y) ==
  IF (IF OnWindow(reg, y) THEN reg.win_a ELSE reg.bg_a) THEN BGWIN_AREA_A ELSE BGWIN_AREA_B

(* Mutant: the window shows the line of its map that the screen is at.       *)
BackgroundPixel_screen_line(reg, y, x) ==
  LET y_pos == IF OnWindow(reg, y) THEN y ELSE Position(reg.scy + y)
      x_pos == IF OnWindow(reg, y) THEN Position(x - (reg.winx - 7)) ELSE Position(x + reg.scx)
      tile  == TileMap[Map(reg, y) + (y_pos \div 8) * TILES + x_pos \div 8]
  IN  [row |-> locate_tile(tile, reg) + 2 * (y_pos % 8), bit |-> 7 - (x_pos % 8), palette |-> 0]

BackgroundPixel(reg, y, x) ==
  LET y_pos == IF OnWindow(reg, y) THEN y - reg.winy ELSE Position(reg.scy + y)
      x_pos == IF OnWindow(reg, y) THEN Position(x - (reg.winx - 7)) ELSE Position(x + reg.scx)
      tile  == TileMap[Map(reg, y) + (y_pos \div 8) * TILES + x_pos \div 8]
  IN  [row |-> locate_tile(tile, reg) + 2 * (y_pos % 8), bit |-> 7 - (x_pos % 8), palette |-> 0]

ppu_draw_bg(buffer) ==
  [c \in Cells |-> IF c \div WIDTH = scln THEN BackgroundPixel(registers, scln, c % WIDTH) ELSE buffer[c]]

------------------------------------------------------------------------------
(* Sprites. *)

y_size(reg) == IF reg.tall THEN 16 ELSE 8

OnLine(reg, entry, y) == y - (entry.y_pos - 16) \in 0 .. y_size(reg) - 1

(* "<= 8", and the row within the sprite added to the second tile too.       *)
SpriteTile(reg, entry, y) ==
  LET even == entry.tile_idx - (entry.tile_idx % 2)
  IN  CASE ~reg.tall                   -> TM_AREA_A + entry.tile_idx * TILE_SIZE
        [] reg.tall /\ y - (entry.y_pos - 16) <= 8 -> TM_AREA_A + even * TILE_SIZE
        [] OTHER                       -> TM_AREA_A + (even + 1) * TILE_SIZE

SpritePixel(reg, entry, y, i) ==
  LET below == y - (entry.y_pos - 16)
      line  == IF entry.y_flip THEN y_size(reg) - below ELSE below
  IN  [row |-> SpriteTile(reg, entry, y) + 2 * line,
       bit |-> IF entry.x_flip THEN i ELSE 7 - i,
       palette |-> entry.palette]

Opaque(pixel) == <<pixel.row, pixel.bit>> \notin Clear

(* The cell of frame_buffer that column 0 of a sprite goes to.               *)
FirstCell(entry, y) == y * WIDTH + entry.x_pos - 8

Overlaid(entry, c) == SpritePixel(registers, entry, scln, c - FirstCell(entry, scln))

(* Mutant: colour 0 is drawn like the others.                                 *)
Drawn_opaque(c) ==
  {k \in DOMAIN oam : OnLine(registers, oam[k], scln) /\ c - FirstCell(oam[k], scln) \in 0 .. 7}

(* The sprites that are drawn into a cell.                                    *)
Drawn(c) ==
  {k \in DOMAIN oam :
     /\ OnLine(registers, oam[k], scln)
     /\ c - FirstCell(oam[k], scln) \in 0 .. 7
     /\ Opaque(Overlaid(oam[k], c))}

(* In the order of OAM, so that the last stays.                               *)
ppu_draw_sprites(buffer) ==
  [c \in Cells |-> IF Drawn(c) = {} THEN buffer[c] ELSE Overlaid(oam[Max(Drawn(c))], c)]

ppu_draw_scanline ==
  LET painted == IF registers.bgwin THEN ppu_draw_bg(frame_buffer) ELSE frame_buffer
  IN  /\ scln < HEIGHT
      /\ frame_buffer' = IF registers.obj THEN ppu_draw_sprites(painted) ELSE painted
      /\ shown' = [y \in DOMAIN shown \cup {scln} |->
                     IF y = scln THEN [registers |-> registers, oam |-> oam] ELSE shown[y]]
      /\ scln' = scln + 1
      /\ UNCHANGED <<registers, oam, stores>>

(* The last line is over, and LY goes on to line 1 of the next frame.  What  *)
(* this one leaves in frame_buffer is not told apart any further.            *)
FrameOver ==
  /\ scln = HEIGHT
  /\ scln' = 1
  /\ frame_buffer' = [c \in Cells |-> Old]
  /\ shown' = <<>>
  /\ stores' = 0
  /\ UNCHANGED <<registers, oam>>

(* mem_write_byte between two lines.                                          *)
Store ==
  /\ stores < MaxStores
  /\ stores' = stores + 1
  /\ \/ registers' \in RegisterStores /\ UNCHANGED oam
     \/ oam' \in OamStores /\ UNCHANGED registers
  /\ UNCHANGED <<scln, frame_buffer, shown>>

Next == ppu_draw_scanline \/ FrameOver \/ Store

Spec == Init /\ [][Next]_vars

------------------------------------------------------------------------------
(* What should be on the screen, told from the tiles and sprites: where each *)
(* of them lies, not what lies under a pixel.                                 *)

At(y, x) == frame_buffer[y * WIDTH + x]

Columns == 0 .. WIDTH - 1

(* A sprite of line y reaches the cell at x of line at.  Off the sides of     *)
(* the screen that is a cell of a neighbouring line.                          *)
Reaches(y, at, x) ==
  /\ shown[y].registers.obj
  /\ \E k \in DOMAIN shown[y].oam :
       /\ OnLine(shown[y].registers, shown[y].oam[k], y)
       /\ (at * WIDTH + x) - FirstCell(shown[y].oam[k], y) \in 0 .. 7

Undisturbed(y, x) == \A later \in DOMAIN shown : later > y => ~Reaches(later, y, x)

(* Where the data of a tile is: from TM_AREA_A on, or in TM_AREA_B with the   *)
(* numbers from 128 on first.                                                 *)
TileData(reg, tile) ==
  IF reg.data_a THEN TM_AREA_A + tile * TILE_SIZE
  ELSE TM_AREA_B + ((tile + 128) % 256) * TILE_SIZE

(* Screen line and column of pixel <<i, j>> of the tile at <<tx, ty>>.        *)
TileLine(reg, y, ty, j) ==
  IF OnWindow(reg, y) THEN reg.winy + 8 * ty + j ELSE Position(8 * ty + j - reg.scy)
TileColumn(reg, y, tx, i) ==
  IF OnWindow(reg, y) THEN reg.winx - 7 + 8 * tx + i ELSE Position(8 * tx + i - reg.scx)

(* The background is one plane, scrolled as a torus, and the window one whose *)
(* corner is at WINX - 7, WINY: every tile is shown in its place, where no    *)
(* sprite is in front, on every line already drawn, with the registers of    *)
(* that line and however the others were set.  (Not stated where the code    *)
(* departs from it: left of the window, and numbers from 128 on in area A.)   *)
BackgroundShown ==
  \A y \in DOMAIN shown :
    LET reg == shown[y].registers
    IN  reg.bgwin =>
      \A ty \in 0 .. TILES - 1, j \in 0 .. 7 : TileLine(reg, y, ty, j) = y =>
        \A tx \in 0 .. TILES - 1, i \in 0 .. 7 :
          LET x    == TileColumn(reg, y, tx, i)
              tile == TileMap[Map(reg, y) + ty * TILES + tx]
          IN  /\ x \in Columns
              /\ ~(reg.data_a /\ tile >= 128)
              /\ Undisturbed(y, x)
              /\ ~Reaches(y, y, x) \/ At(y, x).palette = 0
              => At(y, x) = [row |-> TileData(reg, tile) + 2 * j, bit |-> 7 - i, palette |-> 0]

(* The pixel at column i of a sprite's row, the tiles of a tall one being     *)
(* one behind the other.                                                      *)
ExpectedPixel(reg, entry, row, i) ==
  [row |-> TM_AREA_A + (IF reg.tall THEN entry.tile_idx - (entry.tile_idx % 2) ELSE entry.tile_idx) * TILE_SIZE
             + 2 * row,
   bit |-> IF entry.x_flip THEN i ELSE 7 - i,
   palette |-> entry.palette]

(* Sprites the code draws otherwise: upside down, and below row 8.            *)
Odd(entry, row) == entry.y_flip \/ row > 8

(* Each sprite is where OAM puts it: a pixel shows the last of the sprites    *)
(* that are not transparent there, and no sprite where all of them are,       *)
(* whatever other lines were drawn with and wherever their sprites are.       *)
SpritesShown ==
  \A y \in DOMAIN shown :
    LET reg     == shown[y].registers
        sprites == shown[y].oam
        Row(k)  == y - (sprites[k].y_pos - 16)
        Over(x) == {k \in DOMAIN sprites : OnLine(reg, sprites[k], y) /\ x - (sprites[k].x_pos - 8) \in 0 .. 7}
        Pixel(k, x) == ExpectedPixel(reg, sprites[k], Row(k), x - (sprites[k].x_pos - 8))
        Front(x) == {k \in Over(x) : Opaque(Pixel(k, x))}
    IN  \A x \in Columns :
          (reg.obj /\ Undisturbed(y, x) /\ \A k \in Over(x) : ~Odd(sprites[k], Row(k))) =>
            IF Front(x) # {} THEN At(y, x) = Pixel(Max(Front(x)), x)
            ELSE reg.bgwin => At(y, x).palette = 0

(* "the subsequent tile in memory serves as the bottom half of the sprite"    *)
(* (comment at ppu.c:179): row 8 + j of a tall sprite is row j of that tile.  *)
BottomHalfIsNextTile ==
  \A y \in DOMAIN shown :
    LET reg == shown[y].registers
    IN  \A k \in DOMAIN shown[y].oam :
          LET entry == shown[y].oam[k]
              row   == y - (entry.y_pos - 16)
          IN  reg.obj /\ reg.tall /\ ~entry.y_flip /\ row \in 8 .. 15 =>
                \A i \in 0 .. 7 : SpritePixel(reg, entry, y, i) = ExpectedPixel(reg, entry, row, i)
===============================================================================
