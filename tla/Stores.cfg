SPECIFICATION Spec
CONSTANTS
    m1 = m1
    m2 = m2
    two = two
    four = four
    out = out
    bank = bank
    k1 = k1
    k2 = k2
    Mods <- MCMods
    Plates <- MCPlates
    Class <- MCClass
    Tables <- MCTables
    Copies <- MCCopies
    Listed = {out}
    Found <- MCFound
    Counts <- MCCounts
    Editable <- MCEditable
    Order <- MCOrder
    Threshold = 2
    MaxRuns = 2
    MaxLost = 1
    MaxEvents = 3
INVARIANTS
    LinksPlaced
    TablesRule
    EditsKept
CHECK_DEADLOCK FALSE
