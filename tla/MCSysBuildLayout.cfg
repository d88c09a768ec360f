CONSTANTS
    t1 = t1  t2 = t2  w = w  bad = bad  gomod = gomod  def = def
    Targets = {t1, t2, w, bad}
    Platform <- MCPlatform
    Files = {gomod, def}
    GoMod = gomod
    Def = def
    CrateVersion = 1
    EnvVersion = 2
    Scenarios <- WrongLayout
SPECIFICATION SysBuildSpec
INVARIANTS
    LinkedIsChosen
CHECK_DEADLOCK FALSE
