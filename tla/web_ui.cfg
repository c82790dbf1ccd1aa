CONSTANTS
    States <- MCStates
    Models = {m1}
    Fetches = {f1, f2}
    MaxTurns = 1
    Null = Null
SPECIFICATION USpec
INVARIANTS HistoryAlternates ControlsAgree
PROPERTIES PageConverges ModelsOffered LateAnswersPass
