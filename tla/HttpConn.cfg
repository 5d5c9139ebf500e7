CONSTANTS
    Size = 14
    LineSize = 2
    HeaderSize = 2
    ContentSize = 3
    Room = 3
    Conversations <- Handled
    Splits <- InPieces
SPECIFICATION FairSpec
INVARIANT RingHoldsStream
INVARIANT HeardWhatWasSaid
INVARIANT ResponsesInOrder
PROPERTY AllAnswered
CHECK_DEADLOCK FALSE
