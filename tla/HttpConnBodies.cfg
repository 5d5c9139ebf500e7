CONSTANTS
    Size = 16
    LineSize = 2
    HeaderSize = 2
    ContentSize = 3
    Room = 3
    Conversations <- PostThenPost
    Splits <- None
SPECIFICATION Spec
INVARIANT BodiesArrive
CHECK_DEADLOCK FALSE
