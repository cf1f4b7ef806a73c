------------------------------- MODULE MCPicture -------------------------------
(***************************************************************************)
(* Picture on a screen of 12 by 10 over maps of 4 by 4 tiles: wider than a  *)
(* tile, higher than half of a tall sprite, smaller than the map.            *)
(***************************************************************************)
EXTENDS Picture

(* No two places of the maps next to each other have the same tile, half of  *)
(* the numbers are from 128 on.                                                *)
MCTileMap ==
  [addr \in (BGWIN_AREA_A .. BGWIN_AREA_A + 15) \cup (BGWIN_AREA_B .. BGWIN_AREA_B + 15) |->
     ((addr % 16) * 37 + (IF addr >= BGWIN_AREA_A THEN 101 ELSE 0)) % 256]

(* A row in four is transparent at the left, another at bits 3 and 4.        *)
MCClear ==
  {rb \in (TM_AREA_A .. \h97FF) \X (0 .. 7) :
     \/ rb[1] % 8 = 0 /\ rb[2] >= 6
     \/ rb[1] % 8 = 2 /\ rb[2] \in {3, 4}}

Plain ==
  [bgwin |-> TRUE, obj |-> TRUE, tall |-> FALSE, bg_a |-> FALSE, data_a |-> FALSE,
   win |-> FALSE, win_a |-> TRUE, scy |-> 0, scx |-> 0, winy |-> 3, winx |-> 11]

MCRegisterStores ==
  {[Plain EXCEPT !.tall = TRUE],
   [Plain EXCEPT !.scy = 27, !.scx = 25, !.bg_a = TRUE],            (* wraps both ways *)
   [Plain EXCEPT !.scy = 5, !.scx = 3, !.data_a = TRUE, !.tall = TRUE],
   [Plain EXCEPT !.win = TRUE, !.scy = 2],                          (* window from (4, 3) on *)
   [Plain EXCEPT !.win = TRUE, !.winx = 3, !.win_a = FALSE, !.data_a = TRUE, !.obj = FALSE],
   [Plain EXCEPT !.bgwin = FALSE]}

Sprite(y_pos, x_pos, tile) ==
  [y_pos |-> y_pos, x_pos |-> x_pos, tile_idx |-> tile, x_flip |-> FALSE, y_flip |-> FALSE, palette |-> 1]

MCOamStores ==
  {<<Sprite(16, 9, 4), [Sprite(19, 12, 7) EXCEPT !.x_flip = TRUE, !.palette = 2]>>,  (* overlap *)
   <<Sprite(13, 4, 9), Sprite(18, 15, 5)>>,                                          (* across the edges *)
   <<Sprite(10, 10, 3), [Sprite(20, 8, 2) EXCEPT !.y_flip = TRUE]>>}                 (* cut off above *)
===============================================================================
