SPECIFICATION Spec
CONSTANTS
    Public <- PublicDef
    CommandRows <- CommandRowsDef
    AuthValues <- AuthValuesDef
    InitialAuth <- InitialAuthDef
    Slots = {1, 2}
    Scenes <- ScenesDef
    PpList = {"HierarchyChangeAuth"}
    MaxTries = 2
    MaxAudited = 2
    MaxCounter = 2
    MaxPolicy = 2
    Nothing = Nothing
INVARIANT AuthorisationShown
INVARIANT NoReplay
INVARIANT GuessesLimited
INVARIANT AuditsComplete
INVARIANT AssertionsHold
