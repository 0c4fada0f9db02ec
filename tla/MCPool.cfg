SPECIFICATION Spec
CONSTANTS
  Fees <- MCFees
  Inputs <- MCInputs
  Needs <- MCNeeds
  Weight <- MCWeight
  Blink <- MCBlink
  m_txpool_max_weight = 2
  Old <- MCOld
  MaxHeight = 2
  MaxBlock = 2
  MaxPops = 1
INVARIANTS
  
  PoolLoads
  TemplateMineable
  PoolOrChain
PROPERTIES
  BlinkHolds
  UndoneTxsReturn
