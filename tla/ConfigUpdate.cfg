SPECIFICATION FairSpec
CONSTANTS
  Modules = {nginx}
  Filebeat = filebeat
  MaxEntries = 2
  MaxUpdates = 2
INVARIANTS TypeOK AnswerTells DamageHeals
PROPERTY FilebeatCatchesUp
