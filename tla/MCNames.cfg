CONSTANTS
  Name = {1, 2}
  Unset = 0
  Buys <- MCBuys
  Updates <- MCUpdates
  MaxHeight = 4
  MaxTxs = 3
  MaxPops = 2
  MaxStarts = 2
  AnyCrash = FALSE
SPECIFICATION Spec
INVARIANTS
  
  
  SettingsCoverRecords
