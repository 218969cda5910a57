SPECIFICATION Spec
CONSTANTS
    a = a
    b = b
    Reqs = {a, b}
    PromptLen = 2
    MaxTokens <- MCMaxTokens
    FullMask = FullMask
    Modes = {"sync", "async", "spec", "grammar", "pp", "syncpp"}
SYMMETRY Symmetry
INVARIANTS InputsAreOwnTokens StepsContinue OutputsComplete MasksAreOwn MatchersFollowOutput
