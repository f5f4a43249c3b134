CONSTANTS
    N = 3
    W = 3
    Main = Main
SPECIFICATION FairSpec
INVARIANTS OneTaskPerPage ResultSound PoolInv
PROPERTIES FirstFailureKept Returns KeepsItsPromise
