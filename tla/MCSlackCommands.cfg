\* Two commands, one of them delivered again, and one concurrent HTTP request.
SPECIFICATION Spec
CONSTANTS
    r1 = r1
    LastCommand = 2
    Requests <- MCRequests
    Asked <- MCAsked
    MaxBackoff = 2
    MaxAgain = 1
    MaxInbox = 2
    MaxFailures = 1
    MaxBoots = 2
INVARIANTS TypeOK ConfirmedIsDone PostedIsRecorded CommandsInOrder AnswerIsOwnUnlessOvertaken
PROPERTIES DeliveredIsAnswered Reconnects
