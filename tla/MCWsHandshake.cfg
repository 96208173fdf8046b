CONSTANTS
  Conns = {c1, c2}
  Buffers = {b1, b2, b3, b4, b5}
  Upgrades <- MCUpgrades
  Lower <- LowerW
  NONE = NONE
SPECIFICATION Spec
INVARIANT
  HeadersPreserved
