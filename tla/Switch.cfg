SPECIFICATION Spec
CONSTANTS
  Mod = 12
  Debounce = 3
  Hold = 4
  Patience = 8
  MaxLate = 1
INVARIANT HeldBeforeReset
PROPERTIES Debounced PressSeen
