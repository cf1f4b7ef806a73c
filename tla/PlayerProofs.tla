----------------------------- MODULE PlayerProofs -----------------------------
(***************************************************************************)
(* Proofs about the two parts the player deals with: Picture, for screens,  *)
(* maps, sprites and stores of any kind, and Joypad, for any keys, any       *)
(* stores of the program and any use of the interrupt request register.      *)
(***************************************************************************)
EXTENDS Picture, Joypad, WellFoundedInduction, TLAPS

------------------------------------------------------------------------------
(* Rows and columns. *)

(* Products of integers are integers.                                        *)
LEMMA ProductIsInt == \A n, q \in Int : n * q \in Int
  OBVIOUS

(* Multiplication distributes.                                               *)
LEMMA Distributes == \A p, q, n \in Int : (p + q) * n = p * n + q * n
  OBVIOUS

(* Products of naturals are not negative.                                    *)
LEMMA Positive == \A p \in Nat, n \in Nat : p * n >= 0
  OBVIOUS

(* Different multiples of n are at least n apart.                            *)
LEMMA Apart ==
  ASSUME NEW n \in Nat \ {0}, NEW p \in Int, NEW q \in Int, p < q
  PROVE  p * n + n <= q * n
<1>1. q = (p + 1) + (q - p - 1)
  OBVIOUS
<1>2. q * n = (p + 1) * n + (q - p - 1) * n
  BY <1>1, Distributes
<1>3. (p + 1) * n = p * n + 1 * n
  BY Distributes
<1>4. (q - p - 1) * n >= 0
  BY Positive
<1>5. p * n \in Int /\ q * n \in Int /\ (p + 1) * n \in Int /\ (q - p - 1) * n \in Int /\ 1 * n = n
  BY ProductIsInt
<1> QED BY <1>2, <1>3, <1>4, <1>5

(* A number is its quotient times n, and its remainder.                      *)
LEMMA Divided ==
  ASSUME NEW n \in Nat \ {0}, NEW a \in Int
  PROVE  /\ a \div n \in Int /\ a % n \in 0 .. n - 1
         /\ a = (a \div n) * n + (a % n)
  OBVIOUS

(* A row and a column are the quotient and remainder of their cell.          *)
LEMMA Parts ==
  ASSUME NEW n \in Nat \ {0}, NEW q \in Int, NEW r \in 0 .. n - 1
  PROVE  (q * n + r) \div n = q /\ (q * n + r) % n = r
<1> DEFINE a == q * n + r
           d == a \div n
           m == a % n
<1>1. q * n \in Int /\ a \in Int
  BY ProductIsInt
<1>2. d \in Int /\ m \in 0 .. n - 1 /\ a = d * n + m
  BY <1>1, Divided
<1>3. d * n \in Int
  BY <1>2, ProductIsInt
<1>4. a = q * n + r
  OBVIOUS
<1> HIDE DEF a, d, m
<1>5. d = q
  <2>1. CASE d < q
    BY <2>1, <1>1, <1>2, <1>3, <1>4, Apart
  <2>2. CASE q < d
    BY <2>2, <1>1, <1>2, <1>3, <1>4, Apart
  <2> QED BY <2>1, <2>2, <1>2
<1>6. m = r
  BY <1>1, <1>2, <1>3, <1>4, <1>5
<1> QED BY <1>5, <1>6 DEF d, m, a

(* The last of some sprites is one of them.                                  *)
LEMMA MaxOf ==
  ASSUME NEW n \in Nat, NEW S \in SUBSET (1 .. n), S # {}
  PROVE  Max(S) \in S
<1> DEFINE T == {n - k : k \in S}
           R == OpToRel(<, Nat)
<1>1. T \subseteq Nat /\ T # {}
  <2>1. PICK k \in S : TRUE
    OBVIOUS
  <2>2. n - k \in T
    OBVIOUS
  <2>3. \A l \in S : n - l \in Nat
    OBVIOUS
  <2> QED BY <2>2, <2>3
<1>2. \A p, q \in Nat : p < q => <<p, q>> \in R
  BY DEF OpToRel
<1>3. \E x \in T : \A y \in T : ~(<<y, x>> \in R)
  <2> HIDE DEF T
  <2> QED BY <1>1, NatLessThanWellFounded, WFMin
<1>4. PICK x \in T : \A y \in T : ~(y < x)
  BY <1>1, <1>2, <1>3
<1>5. PICK k \in S : x = n - k
  OBVIOUS
<1>6. \A l \in S : k >= l
  <2> TAKE l \in S
  <2>1. n - l \in T
    OBVIOUS
  <2> QED BY <2>1, <1>4, <1>5
<1> QED BY <1>6 DEF Max

------------------------------------------------------------------------------
(* The frame. *)

(* The registers and sprites a line is drawn with are some that were         *)
(* stored, and the lines drawn are those above LY.                           *)
PictureTypes ==
  /\ registers \in RegisterStores
  /\ oam \in OamStores
  /\ scln \in 0 .. HEIGHT
  /\ DOMAIN shown \subseteq 0 .. scln - 1
  /\ \A y \in DOMAIN shown : shown[y].registers \in RegisterStores /\ shown[y].oam \in OamStores

(* Neither the screen nor a map is empty.                                    *)
LEMMA SizesArePositive == WIDTH \in Nat \ {0} /\ HEIGHT \in Nat \ {0} /\ TILES \in Nat \ {0}
  BY PictureAssumption

(* Drawing, the end of a frame and stores keep the types.                    *)
LEMMA TypeCorrectStep == PictureTypes /\ [Next]_vars => PictureTypes'
<1> SUFFICES ASSUME PictureTypes, [Next]_vars PROVE PictureTypes'
  OBVIOUS
<1> USE SizesArePositive DEF PictureTypes
<1>1. CASE ppu_draw_scanline
  <2>1. /\ registers' = registers /\ oam' = oam /\ scln' = scln + 1 /\ scln < HEIGHT
        /\ DOMAIN shown' = DOMAIN shown \cup {scln}
        /\ shown'[scln] = [registers |-> registers, oam |-> oam]
        /\ \A y \in DOMAIN shown : y # scln => shown'[y] = shown[y]
    BY <1>1 DEF ppu_draw_scanline
  <2> QED BY <2>1
<1>2. CASE FrameOver
  <2>1. DOMAIN shown' = {}
    BY <1>2 DEF FrameOver
  <2> QED BY <1>2, <2>1 DEF FrameOver
<1>3. CASE Store
  BY <1>3 DEF Store
<1>4. CASE UNCHANGED vars
  BY <1>4 DEF vars
<1> QED BY <1>1, <1>2, <1>3, <1>4 DEF Next

(* The sprites that are drawn into a cell of line y.                         *)
DrawnOn(reg, sprites, y, c) ==
  {k \in DOMAIN sprites :
     /\ OnLine(reg, sprites[k], y)
     /\ c - FirstCell(sprites[k], y) \in 0 .. 7
     /\ Opaque(SpritePixel(reg, sprites[k], y, c - FirstCell(sprites[k], y)))}

(* The cell of frame_buffer that has column x of line y.                     *)
Cell(y, x) == y * WIDTH + x

(* A sprite drawn into a cell of line at reaches it.                         *)
LEMMA DrawnReach ==
  ASSUME NEW reg, NEW sprites, NEW y, NEW at, NEW x, NEW k \in DrawnOn(reg, sprites, y, Cell(at, x))
  PROVE  /\ k \in DOMAIN sprites
         /\ OnLine(reg, sprites[k], y)
         /\ (at * WIDTH + x) - FirstCell(sprites[k], y) \in 0 .. 7
<1> DEFINE c == Cell(at, x)
<1>1. c = at * WIDTH + x
  BY DEF Cell
<1>2. k \in {n \in DOMAIN sprites :
     /\ OnLine(reg, sprites[n], y)
     /\ c - FirstCell(sprites[n], y) \in 0 .. 7
     /\ Opaque(SpritePixel(reg, sprites[n], y, c - FirstCell(sprites[n], y)))}
  BY DEF DrawnOn
<1>3. k \in DOMAIN sprites /\ OnLine(reg, sprites[k], y) /\ c - FirstCell(sprites[k], y) \in 0 .. 7
  <2> HIDE DEF c
  <2> QED BY <1>2
<1> HIDE DEF c
<1> QED BY <1>1, <1>3, Zenon

(* What the drawing of line y alone puts at column x.                        *)
LineDrawn(y, x) ==
  LET reg     == shown[y].registers
      sprites == shown[y].oam
      front   == DrawnOn(reg, sprites, y, Cell(y, x))
  IN  /\ reg.obj /\ front # {} =>
           At(y, x) = SpritePixel(reg, sprites[Max(front)], y, Cell(y, x) - FirstCell(sprites[Max(front)], y))
      /\ reg.bgwin /\ ~(reg.obj /\ front # {}) => At(y, x) = BackgroundPixel(reg, y, x)

(* The inductive invariant: on every line drawn so far, where no later line  *)
(* reached over the side of the screen, is what the drawing of that line     *)
(* put there.                                                                *)
LinesDrawn == \A y \in DOMAIN shown, x \in Columns : Undisturbed(y, x) => LineDrawn(y, x)

(* The cells of frame_buffer are those of the lines, each of one only.       *)
LEMMA CellOfLine ==
  ASSUME NEW y \in Lines, NEW x \in Columns
  PROVE  Cell(y, x) \in Cells /\ Cell(y, x) \div WIDTH = y /\ Cell(y, x) % WIDTH = x
<1>1. Cell(y, x) \div WIDTH = y /\ Cell(y, x) % WIDTH = x
  BY SizesArePositive, Parts DEF Lines, Columns, Cell
<1>2. y * WIDTH + WIDTH <= HEIGHT * WIDTH
  BY SizesArePositive, Apart DEF Lines
<1>3. y * WIDTH >= 0
  BY SizesArePositive, Positive DEF Lines
<1>4. HEIGHT * WIDTH = WIDTH * HEIGHT
  BY SizesArePositive
<1>5. y * WIDTH \in Int /\ HEIGHT * WIDTH \in Int
  BY SizesArePositive, ProductIsInt DEF Lines
<1> QED BY <1>1, <1>2, <1>3, <1>4, <1>5, SizesArePositive DEF Cells, Cell, Columns

(* What ppu_draw_scanline leaves at a pixel: the last sprite there, the      *)
(* background on its own line, or what was there.                            *)
LEMMA Painted ==
  ASSUME PictureTypes, ppu_draw_scanline, NEW y \in Lines, NEW x \in Columns
  PROVE  LET front   == DrawnOn(registers, oam, scln, Cell(y, x))
             painted == IF registers.bgwin /\ y = scln THEN BackgroundPixel(registers, scln, x)
                        ELSE At(y, x)
         IN  At(y, x)' = IF registers.obj /\ front # {}
                         THEN SpritePixel(registers, oam[Max(front)], scln,
                                          Cell(y, x) - FirstCell(oam[Max(front)], scln))
                         ELSE painted
<1> DEFINE c == Cell(y, x)
           painted == IF registers.bgwin THEN ppu_draw_bg(frame_buffer) ELSE frame_buffer
<1>1. c \in Cells /\ c \div WIDTH = y /\ c % WIDTH = x
  BY CellOfLine
<1>2. painted[c] = IF registers.bgwin /\ y = scln THEN BackgroundPixel(registers, scln, x) ELSE frame_buffer[c]
  BY <1>1 DEF ppu_draw_bg
<1>3. frame_buffer' = IF registers.obj THEN ppu_draw_sprites(painted) ELSE painted
  BY DEF ppu_draw_scanline
<1>4. Drawn(c) = DrawnOn(registers, oam, scln, c)
  BY DEF Drawn, DrawnOn, Overlaid
<1>5. ppu_draw_sprites(painted)[c] = IF Drawn(c) = {} THEN painted[c] ELSE Overlaid(oam[Max(Drawn(c))], c)
  <2> HIDE DEF c, painted
  <2> QED BY <1>1 DEF ppu_draw_sprites
<1>6. At(y, x) = frame_buffer[c] /\ At(y, x)' = frame_buffer'[c]
  BY DEF At, Cell
<1> HIDE DEF c, painted
<1>7. At(y, x)' = IF registers.obj /\ Drawn(c) # {} THEN Overlaid(oam[Max(Drawn(c))], c) ELSE painted[c]
  BY <1>3, <1>5, <1>6
<1>8. At(y, x)' = IF registers.obj /\ DrawnOn(registers, oam, scln, c) # {}
                  THEN SpritePixel(registers, oam[Max(DrawnOn(registers, oam, scln, c))], scln,
                                   c - FirstCell(oam[Max(DrawnOn(registers, oam, scln, c))], scln))
                  ELSE IF registers.bgwin /\ y = scln THEN BackgroundPixel(registers, scln, x) ELSE At(y, x)
  BY <1>2, <1>4, <1>6, <1>7 DEF Overlaid
<1> QED BY <1>8 DEF c

(* A line is drawn with its own registers, and leaves those above it but     *)
(* where its sprites reach over the side.                                    *)
LEMMA DrawingKeeps ==
  ASSUME PictureTypes, LinesDrawn, ppu_draw_scanline
  PROVE  LinesDrawn'
<1> SUFFICES ASSUME NEW y \in DOMAIN shown', NEW x \in Columns, Undisturbed(y, x)'
             PROVE  LineDrawn(y, x)'
  BY DEF LinesDrawn
<1>1. /\ scln \in Lines
      /\ DOMAIN shown' = DOMAIN shown \cup {scln}
      /\ shown'[scln] = [registers |-> registers, oam |-> oam]
      /\ \A line \in DOMAIN shown : line < scln /\ line \in Lines /\ shown'[line] = shown[line]
  BY SizesArePositive DEF ppu_draw_scanline, PictureTypes, Lines
<1>2. y \in Lines
  BY <1>1
<1> DEFINE c == Cell(y, x)
           front == DrawnOn(registers, oam, scln, c)
<1>3. At(y, x)' = IF registers.obj /\ front # {}
                  THEN SpritePixel(registers, oam[Max(front)], scln, c - FirstCell(oam[Max(front)], scln))
                  ELSE IF registers.bgwin /\ y = scln THEN BackgroundPixel(registers, scln, x)
                  ELSE At(y, x)
  BY <1>2, Painted
<1>4. CASE y = scln
  <2> HIDE DEF c
  <2> DEFINE reg == shown'[y].registers
             sprites == shown'[y].oam
             mine == DrawnOn(reg, sprites, y, c)
  <2>1. reg = registers /\ sprites = oam
    BY <1>1, <1>4
  <2>2. mine = front
    BY <2>1, <1>4
  <2> HIDE DEF reg, sprites, mine, front
  <2>3. /\ reg.obj /\ mine # {} =>
             At(y, x)' = SpritePixel(reg, sprites[Max(mine)], y, c - FirstCell(sprites[Max(mine)], y))
        /\ reg.bgwin /\ ~(reg.obj /\ mine # {}) => At(y, x)' = BackgroundPixel(reg, y, x)
    BY <1>3, <1>4, <2>1, <2>2
  <2> QED BY <2>3 DEF LineDrawn, reg, sprites, mine, c
<1>5. CASE y # scln
  <2>1. y \in DOMAIN shown /\ shown'[y] = shown[y] /\ y < scln
    BY <1>1, <1>5
  <2>2. ~(registers.obj /\ front # {})
    <3> SUFFICES ASSUME registers.obj, NEW k \in front PROVE FALSE
      OBVIOUS
    <3>1. scln \in DOMAIN shown' /\ scln > y
      BY <1>1, <2>1 DEF Lines
    <3>2. \A later \in DOMAIN shown' : later > y /\ shown'[later].registers.obj =>
            \A n \in DOMAIN shown'[later].oam :
              ~(OnLine(shown'[later].registers, shown'[later].oam[n], later)
                /\ (y * WIDTH + x) - FirstCell(shown'[later].oam[n], later) \in 0 .. 7)
      BY Zenon DEF Undisturbed, Reaches
    <3>3. shown'[scln].registers = registers /\ shown'[scln].oam = oam
      BY <1>1
    <3>4. k \in DOMAIN oam /\ OnLine(registers, oam[k], scln) /\ (y * WIDTH + x) - FirstCell(oam[k], scln) \in 0 .. 7
      BY DrawnReach
    <3> HIDE DEF front
    <3> QED BY <3>1, <3>2, <3>3, <3>4, Zenon
  <2>4. At(y, x)' = At(y, x)
    BY <1>3, <2>2, <1>5
  <2>5. Undisturbed(y, x)
    <3> SUFFICES ASSUME NEW later \in DOMAIN shown, later > y PROVE ~Reaches(later, y, x)
      BY DEF Undisturbed
    <3>1. ~Reaches(later, y, x)'
      BY <1>1 DEF Undisturbed
    <3> QED BY <3>1, <1>1 DEF Reaches
  <2>6. LineDrawn(y, x)
    BY <2>1, <2>5 DEF LinesDrawn
  <2> QED BY <2>1, <2>4, <2>6 DEF LineDrawn
<1> QED BY <1>4, <1>5

(* The invariant holds at first and is kept by every step.                   *)
LEMMA Inductive ==
  /\ Init => PictureTypes /\ LinesDrawn
  /\ PictureTypes /\ LinesDrawn /\ [Next]_vars => PictureTypes' /\ LinesDrawn'
<1>1. Init => PictureTypes /\ LinesDrawn
  BY SizesArePositive DEF Init, PictureTypes, LinesDrawn
<1>2. PictureTypes /\ LinesDrawn /\ [Next]_vars => LinesDrawn'
  <2> SUFFICES ASSUME PictureTypes, LinesDrawn, [Next]_vars PROVE LinesDrawn'
    OBVIOUS
  <2>1. CASE FrameOver
    <3>1. DOMAIN shown' = {}
      BY <2>1 DEF FrameOver
    <3> QED BY <3>1 DEF LinesDrawn
  <2>2. CASE UNCHANGED <<shown, frame_buffer>>
    BY <2>2 DEF LinesDrawn, Undisturbed, Reaches, LineDrawn, At
  <2> QED BY <2>1, <2>2, DrawingKeeps DEF Next, Store, vars
<1> QED BY <1>1, <1>2, TypeCorrectStep

------------------------------------------------------------------------------
(* Tiles. *)

(* Adding what was subtracted leads back to where one was, round the torus.  *)
LEMMA Wraps ==
  ASSUME NEW n \in Nat \ {0}, NEW a \in 0 .. n - 1, NEW s \in Int, NEW y, y = (a - s) % n
  PROVE  (y + s) % n = a
<1> DEFINE d == (a - s) \div n
<1>1. d \in Int /\ y \in 0 .. n - 1 /\ a - s = d * n + y
  BY Divided
<1> HIDE DEF d
<1>2. (0 - d) * n + d * n = 0 * n /\ 0 * n = 0
  BY <1>1, Distributes
<1>3. d * n \in Int /\ (0 - d) * n \in Int
  BY <1>1, ProductIsInt
<1>4. y + s = (0 - d) * n + a
  BY <1>1, <1>2, <1>3
<1>5. 0 - d \in Int
  BY <1>1
<1> QED BY <1>4, <1>5, Parts

(* A tile and a pixel of it are the quotient and remainder of a position.    *)
LEMMA TileParts ==
  ASSUME NEW t \in 0 .. TILES - 1, NEW k \in 0 .. 7
  PROVE  /\ 8 * t + k \in 0 .. 8 * TILES - 1
         /\ (8 * t + k) \div 8 = t /\ (8 * t + k) % 8 = k
  BY SizesArePositive

(* A pixel scrolled off its place and back again.                            *)
LEMMA Scrolled ==
  ASSUME NEW t \in 0 .. TILES - 1, NEW k \in 0 .. 7, NEW s \in Nat
  PROVE  /\ Position(Position(8 * t + k - s) + s) = 8 * t + k
         /\ Position(s + Position(8 * t + k - s)) = 8 * t + k
<1> DEFINE n == 8 * TILES
           a == 8 * t + k
           p == Position(a - s)
<1>1. n \in Nat \ {0} /\ a \in 0 .. n - 1 /\ s \in Int
  BY SizesArePositive, TileParts
<1>2. p = (a - s) % n
  BY DEF Position
<1>3. p \in Int
  BY <1>1, <1>2
<1>4. s + p = p + s
  BY <1>3
<1> HIDE DEF n, a, p
<1>5. (p + s) % n = a
  BY <1>1, <1>2, Wraps
<1>6. Position(p + s) = a /\ Position(s + p) = a
  BY <1>4, <1>5 DEF Position, n
<1> QED BY <1>6 DEF p, a

(* The line of the map that is shown on a line of the screen.                *)
LEMMA RowOfTile ==
  ASSUME NEW reg \in Registers, NEW y \in Int, NEW t \in 0 .. TILES - 1, NEW k \in 0 .. 7, TileLine(reg, y, t, k) = y
  PROVE  LET y_pos == IF OnWindow(reg, y) THEN y - reg.winy ELSE Position(reg.scy + y)
         IN  y_pos \div 8 = t /\ y_pos % 8 = k
<1>1. reg.winy \in Nat /\ reg.scy \in Nat
  BY DEF Registers
<1>2. CASE OnWindow(reg, y)
  <2>1. y - reg.winy = 8 * t + k
    BY <1>1, <1>2 DEF TileLine
  <2> QED BY <1>2, <2>1, TileParts
<1>3. CASE ~OnWindow(reg, y)
  <2>1. y = Position(8 * t + k - reg.scy)
    BY <1>3 DEF TileLine
  <2>2. Position(reg.scy + Position(8 * t + k - reg.scy)) = 8 * t + k
    BY <1>1, Scrolled
  <2>3. Position(reg.scy + y) = 8 * t + k
    BY <2>1, <2>2
  <2> QED BY <1>3, <2>3, TileParts
<1> QED BY <1>2, <1>3

(* The column of the map that is shown in a column of the screen.            *)
LEMMA ColumnOfTile ==
  ASSUME NEW reg \in Registers, NEW y \in Int, NEW t \in 0 .. TILES - 1, NEW k \in 0 .. 7
  PROVE  LET x     == TileColumn(reg, y, t, k)
             x_pos == IF OnWindow(reg, y) THEN Position(x - (reg.winx - 7)) ELSE Position(x + reg.scx)
         IN  x_pos \div 8 = t /\ x_pos % 8 = k
<1>1. reg.winx \in Nat /\ reg.scx \in Nat
  BY DEF Registers
<1> DEFINE x == TileColumn(reg, y, t, k)
<1>2. CASE OnWindow(reg, y)
  <2>1. x - (reg.winx - 7) = 0 * (8 * TILES) + (8 * t + k)
    BY <1>1, <1>2, SizesArePositive DEF TileColumn
  <2>2. Position(x - (reg.winx - 7)) = 8 * t + k
    <3> DEFINE n == 8 * TILES
               a == 8 * t + k
    <3>1. n \in Nat \ {0} /\ a \in 0 .. n - 1 /\ 0 \in Int
      BY TileParts, SizesArePositive
    <3>2. (0 * n + a) % n = a
      <4> HIDE DEF n, a
      <4> QED BY <3>1, Parts
    <3> QED BY <2>1, <3>2 DEF Position
  <2> QED BY <1>2, <2>2, TileParts
<1>3. CASE ~OnWindow(reg, y)
  <2>1. x = Position(8 * t + k - reg.scx)
    BY <1>3 DEF TileColumn
  <2>2. Position(Position(8 * t + k - reg.scx) + reg.scx) = 8 * t + k
    BY <1>1, Scrolled
  <2>3. Position(x + reg.scx) = 8 * t + k
    BY <2>1, <2>2
  <2> QED BY <1>3, <2>3, TileParts
<1> QED BY <1>2, <1>3

(* A place of either map has the number of a tile.                           *)
LEMMA InMap ==
  ASSUME NEW reg, NEW y, NEW ty \in 0 .. TILES - 1, NEW tx \in 0 .. TILES - 1
  PROVE  TileMap[Map(reg, y) + ty * TILES + tx] \in 0 .. 255
<1>1. ty * TILES + TILES <= TILES * TILES /\ ty * TILES >= 0 /\ ty * TILES \in Int /\ TILES * TILES \in Int
  BY SizesArePositive, Apart, Positive, ProductIsInt
<1>2. ty * TILES + tx \in 0 .. TILES * TILES - 1
  BY <1>1, SizesArePositive
<1>3. Map(reg, y) \in {BGWIN_AREA_A, BGWIN_AREA_B} /\ Map(reg, y) \in Int
  BY DEF Map, BGWIN_AREA_A, BGWIN_AREA_B
<1>4. Map(reg, y) + (ty * TILES + tx) \in DOMAIN TileMap
  BY <1>2, <1>3, PictureAssumption
<1>5. Map(reg, y) + (ty * TILES + tx) = Map(reg, y) + ty * TILES + tx
  BY <1>1, <1>3
<1> QED BY <1>4, <1>5, PictureAssumption

(* locate_tile finds the data of a tile, but for 128 and above in area A.    *)
LEMMA TileLocated ==
  ASSUME NEW reg, NEW tile \in 0 .. 255, ~(reg.data_a /\ tile >= 128)
  PROVE  locate_tile(tile, reg) = TileData(reg, tile)
  BY DEF locate_tile, TileData, TM_AREA_A, TM_AREA_B, TILE_SIZE

(* What ppu_draw_bg takes for a pixel is the pixel of the tile that lies     *)
(* there.                                                                    *)
LEMMA PixelOfTile ==
  ASSUME NEW reg \in Registers, NEW y \in Int, NEW ty \in 0 .. TILES - 1, NEW j \in 0 .. 7,
         NEW tx \in 0 .. TILES - 1, NEW i \in 0 .. 7, TileLine(reg, y, ty, j) = y,
         NEW tile, tile = TileMap[Map(reg, y) + ty * TILES + tx], ~(reg.data_a /\ tile >= 128)
  PROVE  BackgroundPixel(reg, y, TileColumn(reg, y, tx, i))
           = [row |-> TileData(reg, tile) + 2 * j, bit |-> 7 - i, palette |-> 0]
<1> DEFINE x     == TileColumn(reg, y, tx, i)
           y_pos == IF OnWindow(reg, y) THEN y - reg.winy ELSE Position(reg.scy + y)
           x_pos == IF OnWindow(reg, y) THEN Position(x - (reg.winx - 7)) ELSE Position(x + reg.scx)
<1>1. y_pos \div 8 = ty /\ y_pos % 8 = j
  BY RowOfTile
<1>2. x_pos \div 8 = tx /\ x_pos % 8 = i
  BY ColumnOfTile
<1>3. locate_tile(tile, reg) = TileData(reg, tile)
  <2>1. tile \in 0 .. 255
    BY InMap
  <2> HIDE DEF x, y_pos, x_pos
  <2> QED BY <2>1, TileLocated
<1>4. BackgroundPixel(reg, y, x)
        = [row |-> locate_tile(TileMap[Map(reg, y) + (y_pos \div 8) * TILES + x_pos \div 8], reg) + 2 * (y_pos % 8),
           bit |-> 7 - (x_pos % 8), palette |-> 0]
  BY DEF BackgroundPixel
<1> HIDE DEF x, y_pos, x_pos
<1>5. BackgroundPixel(reg, y, x) = [row |-> TileData(reg, tile) + 2 * j, bit |-> 7 - i, palette |-> 0]
  BY <1>1, <1>2, <1>3, <1>4
<1> QED BY <1>5 DEF x

(* If any sprite is drawn into a cell, the last one is a sprite of OAM.      *)
LEMMA FrontSprite ==
  ASSUME PictureTypes, NEW y \in DOMAIN shown, NEW c,
         DrawnOn(shown[y].registers, shown[y].oam, y, c) # {}
  PROVE  /\ Max(DrawnOn(shown[y].registers, shown[y].oam, y, c))
              \in DrawnOn(shown[y].registers, shown[y].oam, y, c)
         /\ shown[y].oam[Max(DrawnOn(shown[y].registers, shown[y].oam, y, c))] \in OAMEntry
<1> DEFINE sprites == shown[y].oam
           front   == DrawnOn(shown[y].registers, sprites, y, c)
<1>1. sprites \in Seq(OAMEntry)
  BY PictureAssumption DEF PictureTypes
<1>2. front \subseteq DOMAIN sprites
  BY Zenon DEF DrawnOn
<1> HIDE DEF sprites, front
<1>3. Len(sprites) \in Nat /\ DOMAIN sprites = 1 .. Len(sprites)
  BY <1>1
<1>4. front # {}
  BY DEF front, sprites
<1>5. Max(front) \in front
  BY <1>2, <1>3, <1>4, MaxOf
<1>6. sprites[Max(front)] \in OAMEntry
  BY <1>1, <1>2, <1>3, <1>5
<1> QED BY <1>5, <1>6 DEF front, sprites

(* BackgroundShown for one pixel of one tile.                                 *)
TileShown(y, ty, j, tx, i) ==
  LET reg  == shown[y].registers
      x    == TileColumn(reg, y, tx, i)
      tile == TileMap[Map(reg, y) + ty * TILES + tx]
  IN  /\ x \in Columns
      /\ ~(reg.data_a /\ tile >= 128)
      /\ Undisturbed(y, x)
      /\ ~Reaches(y, y, x) \/ At(y, x).palette = 0
      => At(y, x) = [row |-> TileData(reg, tile) + 2 * j, bit |-> 7 - i, palette |-> 0]

(* What LinesDrawn says of a line is what BackgroundShown says of its        *)
(* tiles.                                                                    *)
LEMMA BackgroundOfLine ==
  ASSUME PictureTypes, LinesDrawn
  PROVE  BackgroundShown
<1> SUFFICES ASSUME NEW y \in DOMAIN shown, shown[y].registers.bgwin
             PROVE  \A ty \in 0 .. TILES - 1, j \in 0 .. 7 : TileLine(shown[y].registers, y, ty, j) = y =>
                      \A tx \in 0 .. TILES - 1, i \in 0 .. 7 : TileShown(y, ty, j, tx, i)
  BY Zenon DEF BackgroundShown, TileShown
<1> SUFFICES ASSUME NEW ty \in 0 .. TILES - 1, NEW j \in 0 .. 7, TileLine(shown[y].registers, y, ty, j) = y,
                    NEW tx \in 0 .. TILES - 1, NEW i \in 0 .. 7
             PROVE  TileShown(y, ty, j, tx, i)
  BY Zenon
<1> DEFINE reg == shown[y].registers
           sprites == shown[y].oam
           x == TileColumn(reg, y, tx, i)
           tile == TileMap[Map(reg, y) + ty * TILES + tx]
           front == DrawnOn(reg, sprites, y, Cell(y, x))
<1> SUFFICES ASSUME x \in Columns, ~(reg.data_a /\ tile >= 128), Undisturbed(y, x),
                    ~Reaches(y, y, x) \/ At(y, x).palette = 0
             PROVE  At(y, x) = [row |-> TileData(reg, tile) + 2 * j, bit |-> 7 - i, palette |-> 0]
  BY Zenon DEF TileShown
<1>1. reg \in Registers /\ y \in Int
  BY PictureAssumption DEF PictureTypes
<1>2. LineDrawn(y, x)
  BY DEF LinesDrawn
<1>3. ~(reg.obj /\ front # {})
  <2> SUFFICES ASSUME reg.obj, front # {} PROVE FALSE
    OBVIOUS
  <2>1. Max(front) \in front /\ sprites[Max(front)] \in OAMEntry
    BY FrontSprite
  <2>2. Reaches(y, y, x)
    <3> DEFINE k == Max(front)
    <3>1. k \in DOMAIN sprites /\ OnLine(reg, sprites[k], y) /\ (y * WIDTH + x) - FirstCell(sprites[k], y) \in 0 .. 7
      <4> HIDE DEF k, sprites, reg, x
      <4> QED BY <2>1, DrawnReach DEF k
    <3> HIDE DEF k, x
    <3> QED BY <3>1, Zenon DEF Reaches
  <2>3. At(y, x).palette = 0
    BY <2>2
  <2> DEFINE top == sprites[Max(front)]
  <2>4. At(y, x) = SpritePixel(reg, top, y, Cell(y, x) - FirstCell(top, y))
    BY <1>2, Zenon DEF LineDrawn
  <2>5. SpritePixel(reg, top, y, Cell(y, x) - FirstCell(top, y)).palette = top.palette
    BY DEF SpritePixel
  <2>6. top.palette \in 1 .. 2
    BY <2>1 DEF OAMEntry
  <2> HIDE DEF top
  <2> QED BY <2>3, <2>4, <2>5, <2>6
<1>4. At(y, x) = BackgroundPixel(reg, y, x)
  BY <1>2, <1>3, Zenon DEF LineDrawn
<1>5. BackgroundPixel(reg, y, TileColumn(reg, y, tx, i))
           = [row |-> TileData(reg, tile) + 2 * j, bit |-> 7 - i, palette |-> 0]
  <2> HIDE DEF reg
  <2>1. TileLine(reg, y, ty, j) = y
    BY DEF reg
  <2> QED BY <1>1, <2>1, PixelOfTile
<1> QED BY <1>4, <1>5

------------------------------------------------------------------------------
(* The row read is the one at that height of the sprite, upright and down    *)
(* to row 8.                                                                 *)
LEMMA PixelOfSprite ==
  ASSUME NEW reg \in Registers, NEW entry \in OAMEntry, NEW y \in Int, NEW i \in Int,
         OnLine(reg, entry, y), ~Odd(entry, y - (entry.y_pos - 16))
  PROVE  SpritePixel(reg, entry, y, i) = ExpectedPixel(reg, entry, y - (entry.y_pos - 16), i)
<1> DEFINE row == y - (entry.y_pos - 16)
           even == entry.tile_idx - (entry.tile_idx % 2)
<1>1. ~entry.y_flip /\ row <= 8 /\ row \in Int /\ even \in Int /\ entry.tile_idx \in Int /\ reg.tall \in BOOLEAN
  BY DEF Odd, OAMEntry, Registers
<1>2. SpriteTile(reg, entry, y) = TM_AREA_A + (IF reg.tall THEN even ELSE entry.tile_idx) * TILE_SIZE
  <2>1. CASE reg.tall
    BY <1>1, <2>1, Zenon DEF SpriteTile
  <2>2. CASE ~reg.tall
    BY <1>1, <2>2, Zenon DEF SpriteTile
  <2> QED BY <2>1, <2>2
<1>3. SpritePixel(reg, entry, y, i)
        = [row |-> SpriteTile(reg, entry, y) + 2 * row, bit |-> IF entry.x_flip THEN i ELSE 7 - i,
           palette |-> entry.palette]
  BY <1>1, Zenon DEF SpritePixel
<1> HIDE DEF row, even
<1>4. SpritePixel(reg, entry, y, i)
        = [row |-> TM_AREA_A + (IF reg.tall THEN even ELSE entry.tile_idx) * TILE_SIZE + 2 * row,
           bit |-> IF entry.x_flip THEN i ELSE 7 - i, palette |-> entry.palette]
  BY <1>2, <1>3, Zenon
<1> QED BY <1>4, Zenon DEF ExpectedPixel, row, even

(* What LinesDrawn says of a line is what SpritesShown says of its sprites.  *)
LEMMA SpritesOfLine ==
  ASSUME PictureTypes, LinesDrawn
  PROVE  SpritesShown
<1> SUFFICES ASSUME NEW y \in DOMAIN shown, NEW x \in Columns
             PROVE  LET reg     == shown[y].registers
                        sprites == shown[y].oam
                        Row(k)  == y - (sprites[k].y_pos - 16)
                        Over(col) ==
                          {k \in DOMAIN sprites :
                             OnLine(reg, sprites[k], y) /\ col - (sprites[k].x_pos - 8) \in 0 .. 7}
                        Pixel(k, col) == ExpectedPixel(reg, sprites[k], Row(k), col - (sprites[k].x_pos - 8))
                        Front(col) == {k \in Over(col) : Opaque(Pixel(k, col))}
                    IN  (reg.obj /\ Undisturbed(y, x) /\ \A k \in Over(x) : ~Odd(sprites[k], Row(k))) =>
                          IF Front(x) # {} THEN At(y, x) = Pixel(Max(Front(x)), x)
                          ELSE reg.bgwin => At(y, x).palette = 0
  BY Zenon DEF SpritesShown
<1> DEFINE reg     == shown[y].registers
           sprites == shown[y].oam
           Row(k)  == y - (sprites[k].y_pos - 16)
           over    == {k \in DOMAIN sprites : OnLine(reg, sprites[k], y) /\ x - (sprites[k].x_pos - 8) \in 0 .. 7}
           Pixel(k) == ExpectedPixel(reg, sprites[k], Row(k), x - (sprites[k].x_pos - 8))
           front   == {k \in over : Opaque(Pixel(k))}
           c       == Cell(y, x)
           drawn   == DrawnOn(reg, sprites, y, c)
<1>0. SUFFICES ASSUME reg.obj, Undisturbed(y, x), \A k \in over : ~Odd(sprites[k], Row(k))
      PROVE  IF front # {} THEN At(y, x) = Pixel(Max(front)) ELSE reg.bgwin => At(y, x).palette = 0
  BY Zenon
<1>1. reg \in Registers /\ y \in Int /\ x \in Int /\ sprites \in Seq(OAMEntry)
  BY PictureAssumption, SizesArePositive DEF PictureTypes, Columns
<1>2. \A k \in DOMAIN sprites : sprites[k] \in OAMEntry
  BY <1>1
<1>3. \A k \in DOMAIN sprites : /\ c - FirstCell(sprites[k], y) = x - (sprites[k].x_pos - 8)
                                /\ x - (sprites[k].x_pos - 8) \in Int
  <2> TAKE k \in DOMAIN sprites
  <2>1. sprites[k].x_pos \in Nat
    BY <1>2 DEF OAMEntry
  <2>2. y * WIDTH \in Int
    BY <1>1, SizesArePositive, ProductIsInt
  <2> QED BY <2>1, <2>2, <1>1 DEF Cell, FirstCell
<1>4. \A k \in over : SpritePixel(reg, sprites[k], y, c - FirstCell(sprites[k], y)) = Pixel(k)
  <2> TAKE k \in over
  <2>1. k \in DOMAIN sprites /\ OnLine(reg, sprites[k], y) /\ ~Odd(sprites[k], Row(k))
    BY <1>0
  <2>2. sprites[k] \in OAMEntry
    BY <1>2, <2>1
  <2>3. c - FirstCell(sprites[k], y) = x - (sprites[k].x_pos - 8) /\ x - (sprites[k].x_pos - 8) \in Int
    BY <1>3, <2>1
  <2> HIDE DEF reg, sprites, c
  <2> QED BY <1>1, <2>1, <2>2, <2>3, PixelOfSprite
<1>5. drawn = front
  <2>1. over = {k \in DOMAIN sprites : OnLine(reg, sprites[k], y) /\ c - FirstCell(sprites[k], y) \in 0 .. 7}
    <3> HIDE DEF sprites, reg, c
    <3> QED BY <1>3
  <2>2. drawn = {k \in over : Opaque(SpritePixel(reg, sprites[k], y, c - FirstCell(sprites[k], y)))}
    <3> HIDE DEF sprites, reg, c, over
    <3> QED BY <2>1, Zenon DEF DrawnOn
  <2> HIDE DEF drawn, over, Pixel, sprites, reg, c
  <2> QED BY <1>4, <2>2
<1>6. LineDrawn(y, x)
  BY <1>0 DEF LinesDrawn
<1>7. CASE front # {}
  <2>1. Max(drawn) \in drawn
    BY <1>5, <1>7, FrontSprite
  <2>2. At(y, x) = SpritePixel(reg, sprites[Max(drawn)], y, c - FirstCell(sprites[Max(drawn)], y))
    BY <1>0, <1>5, <1>6, <1>7, Zenon DEF LineDrawn
  <2> HIDE DEF drawn, Pixel, over, sprites, reg, c
  <2>3. Max(drawn) \in over
    BY <1>5, <2>1
  <2>4. At(y, x) = Pixel(Max(drawn))
    BY <1>4, <2>2, <2>3
  <2> QED BY <1>5, <1>7, <2>4
<1>8. CASE front = {} /\ reg.bgwin
  <2>1. At(y, x) = BackgroundPixel(reg, y, x)
    BY <1>5, <1>6, <1>8, Zenon DEF LineDrawn
  <2>2. BackgroundPixel(reg, y, x).palette = 0
    BY DEF BackgroundPixel
  <2> QED BY <1>8, <2>1, <2>2
<1> QED BY <1>7, <1>8

(* At every step the lines above LY show what they were drawn with,          *)
(* whatever was stored since.                                                *)
THEOREM LinesAlwaysDrawn == Spec => [](PictureTypes /\ LinesDrawn)
  BY Inductive, PTL DEF Spec

(* Each tile of the background and the window is shown in its place with     *)
(* the registers of the line, for screens and maps of any size, any scroll   *)
(* and window positions, any sprites and any stores between the lines.       *)
THEOREM BackgroundAlwaysShown == Spec => []BackgroundShown
<1>1. PictureTypes /\ LinesDrawn => BackgroundShown
  BY BackgroundOfLine
<1> QED BY <1>1, LinesAlwaysDrawn, PTL

(* Each sprite is shown where OAM puts it, the last one in front and the     *)
(* transparent ones not at all, for any number of sprites, overlapping and   *)
(* reaching over the edges.                                                  *)
THEOREM SpritesAlwaysShown == Spec => []SpritesShown
<1>1. PictureTypes /\ LinesDrawn => SpritesShown
  BY SpritesOfLine
<1> QED BY <1>1, LinesAlwaysDrawn, PTL

------------------------------------------------------------------------------
(* Keys. *)

(* The registers keep to their bits.                                         *)
THEOREM TypeCorrect == JoypadSpec => []TypeOK
<1>1. JoypadInit => TypeOK
  BY DEF JoypadInit, TypeOK, KeyBits, Byte
<1>2. TypeOK /\ [JoypadNext]_joypadVars => TypeOK'
  <2> SUFFICES ASSUME TypeOK, [JoypadNext]_joypadVars PROVE TypeOK'
    OBVIOUS
  <2> USE JoypadAssumption DEF TypeOK
  <2>1. ASSUME NEW key \in Keys, Press(key) PROVE TypeOK'
    BY <2>1 DEF Press, SetInput, Set, Request, KeyBits
  <2>2. ASSUME NEW key \in Keys, Release(key) PROVE TypeOK'
    BY <2>2 DEF Release, SetInput, Set, Request, KeyBits
  <2>3. ASSUME NEW data \in JoypadWrites, WriteJoypad(data) PROVE TypeOK'
    BY <2>3 DEF WriteJoypad
  <2>4. CASE OthersWriteIrr
    BY <2>4 DEF OthersWriteIrr
  <2>5. CASE UNCHANGED joypadVars
    BY <2>5 DEF joypadVars
  <2> QED BY <2>1, <2>2, <2>3, <2>4, <2>5 DEF JoypadNext, key_callback
<1> QED BY <1>1, <1>2, PTL DEF JoypadSpec

------------------------------------------------------------------------------
(* The bits of a group are the keys of it that are not held, whichever group *)
(* the program had selected when they changed.                               *)
BitsAreKeys ==
  /\ jp_dpad_bits = {b \in KeyBits : <<DPAD, b>> \notin held}
  /\ jp_select_bits = {b \in KeyBits : <<SELECT, b>> \notin held}

(* A press clears its key's bit and a release sets it, and no other.         *)
LEMMA KeyChangesItsBit ==
  ASSUME TypeOK, BitsAreKeys, NEW key \in Keys, Press(key) \/ Release(key)
  PROVE  BitsAreKeys'
<1>1. PICK group \in {DPAD, SELECT}, bit \in KeyBits : key = <<group, bit>>
  BY JoypadAssumption
<1>2. DPAD # SELECT
  BY DEF DPAD, SELECT
<1>3. CASE Press(key)
  BY <1>1, <1>2, <1>3 DEF BitsAreKeys, Press, SetInput, Set
<1>4. CASE Release(key)
  BY <1>1, <1>2, <1>4 DEF BitsAreKeys, Release, SetInput, Set
<1> QED BY <1>3, <1>4

(* The bits follow the keys at every step.                                   *)
THEOREM BitsFollowKeys == JoypadSpec => []BitsAreKeys
<1>1. JoypadInit => BitsAreKeys
  BY DEF JoypadInit, BitsAreKeys, KeyBits
<1>2. TypeOK /\ BitsAreKeys /\ [JoypadNext]_joypadVars => BitsAreKeys'
  BY KeyChangesItsBit
     DEF JoypadNext, key_callback, WriteJoypad, OthersWriteIrr, joypadVars, BitsAreKeys
<1> QED BY <1>1, <1>2, TypeCorrect, PTL DEF JoypadSpec

(* A selected group reads as the keys of it that are held.                   *)
THEOREM SelectedGroupRead == JoypadSpec => []KeysReported
<1>1. TypeOK /\ BitsAreKeys => KeysReported
  <2> SUFFICES ASSUME TypeOK, BitsAreKeys, NEW group \in {DPAD, SELECT},
                      Selected(group), joyp \cap KeyBits = {}
               PROVE  Reported(group)
    BY DEF KeysReported
  <2>1. DPAD # SELECT
    BY DEF DPAD, SELECT
  <2>2. joyp \cap MaskBits = {}
    BY DEF MaskBits, KeyBits
  <2>3. jp_dpad_bits \subseteq KeyBits /\ jp_select_bits \subseteq KeyBits
    BY DEF TypeOK
  <2> QED BY <2>1, <2>2, <2>3 DEF Selected, Reported, input_read, BitsAreKeys
<1> QED BY <1>1, TypeCorrect, BitsFollowKeys, PTL

(* No key changes what the program reads without requesting the interrupt.  *)
THEOREM NoSilentChange == JoypadSpec => ChangesAnnounced
<1>1. [JoypadNext]_joypadVars => (input_read' # input_read /\ joyp' = joyp => "JOYPAD" \in irr')
  <2> SUFFICES ASSUME [JoypadNext]_joypadVars, input_read' # input_read, joyp' = joyp
               PROVE  "JOYPAD" \in irr'
    OBVIOUS
  <2>1. DPAD # SELECT
    BY DEF DPAD, SELECT
  <2>2. PICK key \in Keys : Press(key) \/ Release(key)
    BY DEF JoypadNext, key_callback, WriteJoypad, OthersWriteIrr, joypadVars, input_read
  <2>3. key[1] \in {DPAD, SELECT}
    BY JoypadAssumption
  <2>4. Request(key)
    BY <2>2 DEF Press, Release
  <2>5. key[1] \notin joyp
    BY <2>1, <2>2, <2>3 DEF Press, Release, SetInput, input_read
  <2> QED BY <2>4, <2>5 DEF Request
<1> QED BY <1>1, PTL DEF JoypadSpec, ChangesAnnounced
===============================================================================
