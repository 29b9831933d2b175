SPECIFICATION ChannelSpec
CONSTANTS
    Lag = 1
    MaxU64 = 40
    MaxSeq = 4
    First = 0
    MaxReports = 3
    Seqs <- MCSeqs
INVARIANTS
    CountsExact
    LedgerBalancedIfDisjoint
