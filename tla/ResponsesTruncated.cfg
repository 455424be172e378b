SPECIFICATION EventSpec
CONSTANTS
  Streams <- MCStreams
  MaxEvent = 4
  DelimiterSlack = 4
  MaxFieldName = 2
  Modes = {"undecided", "unary", "sse", "ignore"}
  Salvages = TRUE
  RequestPieces = 3
  RequestCap = 2
  ResponseCap = 1
  MaxSends = 2
  MaxReads = 3
  MaxEvents = 4
  Events <- MCEvents
  Bodies <- MCBodies
  MaxItems = 2
  MaxParts = 1
  CaptureCap = 3
  ChatEvents <- MCChunks
  Replies <- MCReplies
  MaxChatEvents = 4
  maxChoices = 2
  chatCap = 4
  Answers <- MCGemini
  MaxAnswers = 4
  maxCandidates = 2
  geminiCap = 6
INVARIANTS
  NeverTruncated
CHECK_DEADLOCK FALSE
