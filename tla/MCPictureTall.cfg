SPECIFICATION Spec
CONSTANTS
  WIDTH = 12
  HEIGHT = 10
  TILES = 4
  TileMap <- MCTileMap
  Clear <- MCClear
  RegisterStores <- MCRegisterStores
  OamStores <- MCOamStores
  MaxStores = 1
INVARIANTS
  BottomHalfIsNextTile
