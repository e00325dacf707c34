\* One officer edits the board while its flushes and loads are in flight.
CONSTANTS
  note = note fir = fir
  c1 = c1 c2 = c2
  Card <- Cards
  Pinned <- Pins
  Call <- Calls
SPECIFICATION Spec
PROPERTY DismissalSticks
CHECK_DEADLOCK FALSE
