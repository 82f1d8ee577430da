SPECIFICATION Spec
CONSTANTS
  NSlots = 1
  SeqMod = 2
  NSeeds = 1
  Work = {10, 12, 13, 16}
  InFlight = 1
  MaxSess = 2
  MaxSeq = 3
  MaxLegacy = 1
  MaxRestarts = 1
  Env = {"close"}
INVARIANTS ReplyIsMine OwnBlobs
PROPERTIES ImplementsExchange
