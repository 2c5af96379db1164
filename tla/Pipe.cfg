\* Two stages with threads and the tail.
SPECIFICATION Spec
CONSTANTS
    stages = 2
    MaxActive = 2
INVARIANT ResultIsEntered
CHECK_DEADLOCK FALSE
