\* Every message of up to four atoms, every kind of registry file and every
\* answer of up to three lines.
CONSTANTS
    Atoms = {" ", "newline", "lang:en", "lang:xx", "lang:", "/fairytale",
             "/custom", "/surprise", "/family", "/start", "@bot", "dragon"}
    MaxAtoms = 4
    Hints <- SomeHints
    Files <- AllFiles
    Absent = Absent
    Required = TRUE
    MaxLines = 3
SPECIFICATION Spec
INVARIANTS
    TokenOnlyChoosesLanguage
    PromptIsNeverCut
    SameCastInBoth
    CastIsComplete
    NoMarkerInChat
    OneLanguage
CHECK_DEADLOCK FALSE
