SPECIFICATION Spec
CONSTANTS
    Options = {"o1"}
    Forms = {"empty"}
    MaxPage = 1
    MaxActions = 0
    Channels = {"c1", "c2"}
    Models <- MCModels
    ConcurrencyLimit = 1
    MaxBatches = 2
    MaxDialogActions = 6
INVARIANTS MarksAreHeld SummaryIsComplete
PROPERTIES BatchesEnd StopIsObeyed
