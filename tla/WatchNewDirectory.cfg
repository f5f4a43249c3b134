CONSTANTS
    Dir = {root, out, posts, later}
    Root = root
    Out = out
    MaxEdit = 3
SPECIFICATION Spec
INVARIANT NewDirectoriesArePickedUp
CHECK_DEADLOCK FALSE
