\* Expected violation: two different subspaces with one subspace ID.
CONSTANTS
  Spell <- MC_Spell
  Vals <- MC_ParseVals
  VoteVals <- MC_ParseVoteVals
  Builders <- MC_Builders
  Names <- MC_CollideNames
  OpsSpecs <- MC_CollideOpsSpecs
  RulesStrs <- MC_ParseRulesStrs
  OpNames <- MC_ParseOpNames
  MaxTags = 4
  MaxRelay = 2
SPECIFICATION Spec
INVARIANT
  SubspaceIDInjective
