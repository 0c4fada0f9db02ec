CONSTANTS
  Name = {1}
  Unset = 0
  Buys <- MCBuys
  Updates <- MCAnyUpdates
  MaxHeight = 4
  MaxTxs = 3
  MaxPops = 2
  MaxStarts = 1
  AnyCrash = FALSE
SPECIFICATION Spec
INVARIANTS
  MappingsAreReplay
