CONSTANTS
  a1 = a1
  a2 = a2
  Task = {a1, a2}
  Cli = cli
  w = w
  h = h
  Profile = {w, h}
  Order <- MCOrder
  None = None
  Expiring = {w}
  Commands <- MCCommands
  MaxGen = 1
  main = main
  spare = spare
  ModelSpec = {main, spare}
  Key = {main, spare}
  Primary = main
  Plan <- MCPlan
  SpecOf <- MCSpecOf
  Instance <- MCSpecOf
  OAuth = {main}
  Blind = {spare}
  Images = {a2}
  Late = {spare}
  Forced <- MCForced
  Window = 1
SPECIFICATION RouterSpec
INVARIANTS NoLostUpdate PlansAndAnswersAreSound
PROPERTIES ForcedProfileIsUsed PrimaryComesUpAgain
CHECK_DEADLOCK FALSE
