SPECIFICATION FairSpec
CONSTANTS
    Lag = 2
    MaxU64 = 7
    First = 1
    Seqs <- MCSeqs
INVARIANTS
    AcceptedNeverLost
    PrefixAccounted
PROPERTIES
    WatermarkMonotone
    ImplementsContract
    SettleTerminates
