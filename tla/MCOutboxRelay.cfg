CONSTANTS
    t1 = t1
    t2 = t2

    e1 = e1
    e2 = e2
    e3 = e3
    e4 = e4
    Relays = {r1, r2}
    Txs = {t1, t2}
    Events = {e1, e2, e3, e4}
    TxOf <- MCTxOf
    Kind <- MCKind
    Powers = {p1, p2}
    NoRelay = NoRelay
    Channel = Channel
    BatchSize = 2
    MaxFaults = 1
SPECIFICATION FairSpec
INVARIANT TypeOK
INVARIANT DuplicatesOnlyFromFaults
INVARIANT CausalOrder
PROPERTY ImplementsPromise
PROPERTY EventuallyRetired
