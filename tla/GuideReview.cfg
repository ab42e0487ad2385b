CONSTANTS
    Kinds = {"captions", "visual"}
    Suggestions = {s1, s2}
    MaxRuns = 2
    MaxTexts = 1
    MaxTrouble <- MCMaxTrouble
SPECIFICATION Spec
INVARIANTS OneBatchAtATime ScreenFollowsStore WorkerSettlesTask RunningHasWorker
PROPERTIES ReceiptIsTrue NothingUnseenIsOverwritten
SYMMETRY Symmetry
CHECK_DEADLOCK FALSE
