SPECIFICATION ClientSpec
CONSTANTS
  LLongMax = 127
  IntMax = 20
  StackTop = 3
  DiscardAt = 4
  Key <- MCKey
  Field <- MCField
  Values <- MCValues
  PlainKeys <- MCPlainKeys
  Password <- MCPassword
  Answers <- MCAnswers
  Addresses = 2
  WritePieces = {9}
  MaxCalls = 3
  MaxClock = 2
INVARIANTS ReplyIsMine FailsForAReason NeverWaitsInVain
CHECK_DEADLOCK FALSE
