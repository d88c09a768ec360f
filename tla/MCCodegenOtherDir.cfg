CONSTANTS
    OutDirs = {debug, release}
    ScriptDir = debug
    Pkgs = {api, validate}
    Api = api
    MaxUpdates = 2
    MaxBuilds = 4
SPECIFICATION CodegenSpec
INVARIANTS
    MostRecentCopied
CHECK_DEADLOCK FALSE
