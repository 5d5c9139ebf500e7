SPECIFICATION Spec
CONSTANTS
  a = "a"
  b = "b"
  Topics <- MCTopics
  Subscriptions <- MCSubscriptions
  Polite = TRUE
  MaxCommands = 3
  MaxMessages = 1
INVARIANTS OwnReply ExactlyOnce CleanMeansAnswered TopicsHeard
PROPERTY DisconnectEnds
