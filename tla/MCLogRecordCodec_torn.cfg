\* Every byte prefix of every log of up to two records.
CONSTANTS
    UserKeys <- MCUserKeys
    UserValues <- MCUserValues
    SeqNums = {0, 1, 130}
    MaxRecords = 2
SPECIFICATION Spec
INVARIANT TornTailIsEndOfLog
