SPECIFICATION Spec
CONSTANTS
  NSlots = 2
  SeqMod = 2
  NSeeds = 1
  Work = {13, 16}
  InFlight = 1
  MaxSess = 1
  MaxSeq = 3
  MaxLegacy = 0
  MaxRestarts = 0
  Env = {}
INVARIANT OwnData
