CONSTANTS
    Thread = {t1, t2, t3}
    Db = {d1}
    Language = {"rust", "node", "python", "java", "csharp"}
SPECIFICATION Spec
INVARIANTS
    FailedStartCleansUp
    StartedIsBootstrapped
    ReportedCloseIsDone
    CloseReleasesAll
    OnlyNodeErrorsLost
SYMMETRY Symmetry
