SPECIFICATION Spec
CONSTANTS
  NSlots = 1
  SeqMod = 2
  NSeeds = 1
  Work = {10, 12, 13, 16}
  InFlight = 1
  MaxSess = 2
  MaxSeq = 2
  MaxLegacy = 0
  MaxRestarts = 0
  Env = {"early"}
PROPERTIES ConsecutivePostsDiffer
