CONSTANTS
    Core = Core
    Derivatives = {Gif}
    MaxRevision = 2
    MaxOpens = 2
    Budgets <- MCBudgets
    MaxWorkers = 2
    MaxEvents = 1
    MaxSaves = 1
    Prompt = TRUE
SPECIFICATION Spec
INVARIANTS
    CurrentIsTrue
    UpdatingHasWorker
CHECK_DEADLOCK FALSE
