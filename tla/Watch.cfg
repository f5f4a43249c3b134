CONSTANTS
    Dir = {root, out, posts, later}
    Root = root
    Out = out
    MaxEdit = 3
SPECIFICATION FairSpec
INVARIANTS SavesAreRemembered WatchInv
PROPERTIES SavesAreBuilt RebuildsEnd
CHECK_DEADLOCK FALSE
