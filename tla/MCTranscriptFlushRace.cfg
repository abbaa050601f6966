CONSTANTS
  Hooks = {h0, h1, h2, h3}
  Left = {h0}
  MaxTurns = 2
  Noise = {}
  MaxMisreads = 0
SPECIFICATION Spec
SYMMETRY Symmetry
PROPERTIES CursorForward
CHECK_DEADLOCK FALSE
