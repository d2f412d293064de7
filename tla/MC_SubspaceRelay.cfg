\* The producers alone: deep sequences of setter calls on one struct.
CONSTANTS
  Spell <- MC_Spell
  Vals <- MC_Vals
  VoteVals <- MC_VoteVals
  Builders <- MC_Builders
  Names <- MC_Names
  OpsSpecs <- MC_OpsSpecs
  RulesStrs <- MC_RulesStrs
  OpNames <- MC_OpNames
  MaxTags = 6
  MaxRelay = 0
SPECIFICATION BuildSpec
INVARIANTS
  RoundTrip
