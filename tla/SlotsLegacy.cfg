SPECIFICATION Spec
CONSTANTS
  NSlots = 1
  SeqMod = 2
  NSeeds = 1
  Work = {10, 12, 13, 16}
  InFlight = 2
  MaxSess = 1
  MaxSeq = 3
  MaxLegacy = 1
  MaxRestarts = 0
  Env = {}
INVARIANTS OwnData
