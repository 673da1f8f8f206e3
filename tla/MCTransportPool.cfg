\* Two sends, one permit: the permit is returned before the body is read.
SPECIFICATION Spec
CONSTANTS
    Sends = {s1, s2}
    MaxConnections = 1
    Configs <- TestConfigs
CHECK_DEADLOCK FALSE
INVARIANT ConnectionLimit
