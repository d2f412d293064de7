\* Expected violation: the same envelope parsed twice reports different missing tags.
CONSTANTS
  Spell <- MC_Spell
  Vals <- MC_ParseVals
  VoteVals <- MC_ParseVoteVals
  Builders <- MC_Builders
  Names <- MC_Names
  OpsSpecs <- MC_ParseOpsSpecs
  RulesStrs <- MC_ParseRulesStrs
  OpNames <- MC_ParseOpNames
  MaxTags = 4
  MaxRelay = 3
SPECIFICATION Spec
PROPERTY
  ParseDeterministic
