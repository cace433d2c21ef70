\* A cancelled reservation in front of a committed one.
CONSTANTS
  N_BUFFERS = 2
  GenMax = 7
  Sizes = {1}
  MaxUses = 2
  AllowCancel = TRUE
  AllowClear = FALSE
SPECIFICATION Spec
INVARIANT ReadySlotIsReadable
CHECK_DEADLOCK FALSE
