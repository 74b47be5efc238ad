SPECIFICATION Spec
CONSTANTS
  Calls = {c1, c2, c3, c4}
  PetIds = {"x"}
  PetDecisions <- MCPetDecisions
  RewardDecisions <- MCRewardDecisions
  AdoptCost = 1
  Cooldown = 2
  ExpPerLevel = 1
  LifeMax = 2
  LifeStart = 1
  MaxInt = 4
  Opening = 2
  MaxTime = 3
SYMMETRY CallSymmetry
CHECK_DEADLOCK FALSE
INVARIANTS TypeOK BalanceIsLedger PointsAreSettled CooldownAfterRecord
