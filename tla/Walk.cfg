SPECIFICATION Spec
CONSTANTS
    Width = 5
    Height = 4
    Speeds = {1, 2, 3}
    Detours = 1
CHECK_DEADLOCK FALSE
INVARIANTS
    StaysOnTheMap
PROPERTIES
    EachTickIsNearer
