CONSTANTS
    start = 2
    end = 8
SPECIFICATION Spec
INVARIANT HeapOrdered
PROPERTIES ImplementsPool
CHECK_DEADLOCK FALSE
