CONSTANTS
    Placeholder = Placeholder
    Typed = Typed
    Old = Old
    OldAi = OldAi
    Mine = Mine
    proposal = proposal
    Proposals <- MCProposals
    RecheckTurns = 2
    MaxRecords = 3
    MaxHooks = 2
    MaxRestarts = 1
SPECIFICATION FairSpec
INVARIANTS RenameSurvives InheritedNameStaysOut
PROPERTIES RecheckIsSpaced DueRecheckIsMade
CHECK_DEADLOCK FALSE
