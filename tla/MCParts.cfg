CONSTANTS
    Language = {"rust", "node", "python", "java", "csharp"}
    Span <- MCSpan
    Given <- MCGiven
    HeaderValue = {"span", "s", "own", "a", "b"}
    Binding = {"rust", "node", "csharp"}
    Untyped = {"node"}
    Threads = {h1, h2}
    Lang = {"python", "node", "java"}
    ManyThreads = {"java"}
    MaxObjects = 3
    MaxCalls = 4
    alice = alice  doc1 = doc1  root = root  marketing = marketing  team = team
    Users = {alice}
    Docs = {doc1}
    Folders = {root, marketing, team}
    Seed <- MCSeed
    Rels <- MCRels
    Requests = {r1, r2}
    Workers = 1
    MaxWrites = 2
    t1 = t1  t2 = t2  w = w  bad = bad  gomod = gomod  def = def
    Targets = {t1, t2, w, bad}
    Platform <- MCPlatform
    Files = {gomod, def}
    GoMod = gomod
    Def = def
    CrateVersion = 1
    EnvVersion = 2
    Scenarios <- AllScenarios
    OutDirs = {debug, release}
    ScriptDir = debug
    Pkgs = {api, validate}
    Api = api
    MaxUpdates = 2
    MaxBuilds = 4
SPECIFICATION Spec
INVARIANTS
    OwnHeadersKept
    CurrentSpanJoined
    OptionsHonoured
    CallsAreTyped
    InstancesSurvive
    AnswersAreCurrent
    LinkedIsChosen
    FailureExplained
    UpToDate
    BuiltFromFreshCopy
    ImportLibMatches
    OneGeneration
PROPERTIES
    Answered
    NoToolsNeeded
CHECK_DEADLOCK FALSE
