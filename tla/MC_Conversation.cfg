SPECIFICATION ConversationSpec
CONSTANTS
    t1 = t1
    t2 = t2
    t3 = t3
    NoCallID = NoCallID
    Calls <- ThreeCalls
    Arguments = {"json", "precise", "empty", "broken"}
    MaxMessages = 5
    MaxChoices = 2
    MaxExtras = 2
SYMMETRY Interchangeable
CHECK_DEADLOCK FALSE
INVARIANTS
    AnswersComeBack
    ToolResultsFollowCalls
    HeadersMatch
