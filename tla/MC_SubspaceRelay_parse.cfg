\* Producers, untrusted producers and the consumer: every Parse call on
\* whatever the relay holds.
CONSTANTS
  Spell <- MC_Spell
  Vals <- MC_ParseVals
  VoteVals <- MC_FailVoteVals
  Builders <- MC_Builders
  Names <- MC_Names
  OpsSpecs <- MC_FailOpsSpecs
  RulesStrs <- MC_ParseRulesStrs
  OpNames <- MC_FailOpNames
  MaxTags = 4
  MaxRelay = 2
SPECIFICATION Spec
INVARIANTS
  TypeOK
  FailClosed
