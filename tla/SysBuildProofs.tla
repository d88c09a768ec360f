--------------------------- MODULE SysBuildProofs ---------------------------
(***************************************************************************)
(* What the build script of spicedb-embedded-sys promises, proved for any  *)
(* set of target directories, any files, and any scenarios, with as many   *)
(* runs, edits and staged prebuilds as one likes.                          *)
(***************************************************************************)
EXTENDS SysBuild, TLAPS

-----------------------------------------------------------------------------
\* The state of the system, and of a run.

Origins == {"none", "stub", "cut", "staged", "source", "release"}
StagedOrigins == {"none", "stub", "cut", "staged"}
Early == {"copysrc", "choose", "gobuild", "curl", "tar"}
Late == {"install", "implib", "target"}
Archives == {"none", "part", "corrupt", "tiny", "layout", "good"}
Paths == {"repo", "crate", "staged", "stageddef", "out"}
Sources == [Files -> Int]
Libs == [from : Origins, of : Sources]
StagedType == [lib : [from : StagedOrigins, of : Sources], def : Int, copying : BOOLEAN]

BuildType == [
    pc : {"idle"} \cup Early \cup Late,
    runs : Nat,
    todo : SUBSET Files,
    writing : SUBSET Files,
    fault : SUBSET FaultKinds,
    chosen : {"none", "prebuild", "source", "download"},
    atStart : Sources,
    out : Libs,
    outDef : Int,
    implib : Int,
    archive : Archives,
    loaded : Libs,
    result : {"none", "ok", "failed"},
    watched : SUBSET Paths,
    touched : SUBSET Paths,
    docs : BOOLEAN]

StateInv ==
    /\ scenario \in Scenarios
    /\ repo \in Sources /\ crate \in Sources
    /\ staged \in [Rids -> StagedType]
    /\ edits \in Nat /\ stages \in Nat
    /\ build \in [Targets -> BuildType]

\* A run is for a target the script supports and without DOCS_RS; it has
\* chosen its library when it installs it.
RunFine(t) ==
    /\ Running(t) => TargetRid(t) \in Rids /\ build[t].docs = FALSE
    /\ build[t].pc \in Early => build[t].chosen = "none"
    /\ build[t].pc \in Late => build[t].chosen # "none"
    /\ build[t].pc = "implib" => Windows(t)
    /\ ~Running(t) /\ build[t].result = "ok" /\ build[t].docs = FALSE => build[t].chosen # "none"

RunInv == \A t \in Targets : RunFine(t)

\* A step of one run leaves the runs in the other directories alone.
LEMMA OneRunSteps ==
    ASSUME StateInv, NEW t \in Targets, NEW pc, NEW new, new \subseteq BuildType, Step(t, pc, new)
    PROVE  /\ build[t].pc = pc
           /\ build'[t] \in new
           /\ build' \in [Targets -> BuildType]
           /\ \A u \in Targets : u # t => build'[u] = build[u]
           /\ UNCHANGED <<scenario, repo, staged, edits, stages, crate>>
<1>1. PICK b \in new : build' = [build EXCEPT ![t] = b]
  BY DEF Step
<1> QED
  BY <1>1 DEF Step, StateInv, envVars

LEMMA LibsTyped ==
    /\ NoSource \in Sources
    /\ NoLib \in Libs /\ Stub \in Libs /\ Cut \in Libs
    /\ \A v \in Nat : Release(v) \in Libs
    /\ ReleaseVersion \in Nat /\ ReleaseVersion = CrateVersion
  BY SysBuildAssumption DEF NoSource, Sources, NoLib, Stub, Cut, Release, Libs, Origins, Absent,
     ReleaseVersion, NoVersion

LEMMA NoBuildTyped == NoBuild \in BuildType
  BY LibsTyped DEF NoBuild, BuildType, Early, Late, Archives, Paths, Absent

LEMMA InitFine == SysBuildInit => StateInv /\ RunInv
<1> SUFFICES ASSUME SysBuildInit PROVE StateInv /\ RunInv
  OBVIOUS
<1>1. StateInv
  <2>1. [f \in Files |-> CrateVersion] \in Sources
    BY SysBuildAssumption DEF Sources
  <2>2. [lib |-> NoLib, def |-> Absent, copying |-> FALSE] \in StagedType
    BY LibsTyped DEF NoLib, StagedOrigins, Absent, StagedType
  <2> QED
    BY <2>1, <2>2, LibsTyped, NoBuildTyped DEF SysBuildInit, StateInv
<1>2. RunInv
  BY DEF SysBuildInit, RunInv, RunFine, NoBuild, Running, Early, Late
<1> QED
  BY <1>1, <1>2

-----------------------------------------------------------------------------
\* What each step of the script does to its own run.

OneRun(t) ==
    /\ build' \in [Targets -> BuildType]
    /\ \A u \in Targets : u # t => build'[u] = build[u]
    /\ UNCHANGED <<scenario, repo, staged, edits, stages, crate>>

Begun(t, faults, docsRs) ==
    /\ OneRun(t) /\ build[t].pc = "idle"
    /\ build[t].runs < scenario.runs
    /\ build'[t].runs = build[t].runs + 1
    /\ build'[t].fault = faults /\ build'[t].docs = docsRs /\ build'[t].chosen = "none"
    /\ build'[t].atStart = repo /\ build'[t].touched = {}
    /\ build'[t].out = build[t].out /\ build'[t].outDef = build[t].outDef
    /\ build'[t].implib = build[t].implib /\ build'[t].loaded = build[t].loaded
    /\ build'[t].archive = build[t].archive
    /\ \/ docsRs /\ build'[t].pc = "idle" /\ build'[t].result = "ok"
       \/ /\ ~docsRs /\ TargetRid(t) \notin Rids
          /\ build'[t].pc = "idle" /\ build'[t].result = "failed"
       \/ /\ ~docsRs /\ TargetRid(t) \in Rids
          /\ build'[t].pc = "copysrc" /\ build'[t].todo = EntriesToCopy
          /\ InRepo => "repo" \in build'[t].watched

LEMMA StartStep ==
    ASSUME StateInv, NEW t \in Targets, NEW faults \in SUBSET scenario.faults, NEW docsRs \in BOOLEAN,
           Start(t, faults, docsRs)
    PROVE  Begun(t, faults, docsRs)
<1> DEFINE b == [build[t] EXCEPT !.runs = @ + 1, !.fault = faults, !.docs = docsRs, !.chosen = "none",
                                 !.atStart = repo, !.touched = {}, !.watched = {}]
           new == IF docsRs THEN {[b EXCEPT !.result = "ok"]}
                  ELSE IF TargetRid(t) \notin Rids THEN {Panic(b)}
                  ELSE {[b EXCEPT !.pc = "copysrc", !.todo = EntriesToCopy,
                                  !.watched = IF InRepo THEN {"repo"} ELSE {}]}
<1>1. b \in BuildType
  <2>1. build[t] \in BuildType /\ repo \in Sources
    BY DEF StateInv
  <2>2. faults \in SUBSET FaultKinds
    BY SysBuildAssumption DEF StateInv, ScenarioType
  <2>3. \A n : n = build[t].runs + 1 =>
          [build[t] EXCEPT !.runs = n, !.fault = faults, !.docs = docsRs, !.chosen = "none",
                           !.atStart = repo, !.touched = {}, !.watched = {}] \in BuildType
    <3>1. build[t].runs + 1 \in Nat
      BY <2>1 DEF BuildType
    <3> QED
      BY <2>1, <2>2, <3>1 DEF BuildType
  <2> QED
    BY <2>3
<1>2. new \subseteq BuildType
  <2> HIDE DEF b
  <2>1. [b EXCEPT !.result = "ok"] \in BuildType /\ Panic(b) \in BuildType
    BY <1>1 DEF BuildType, Panic
  <2>2. \A W \in SUBSET Paths : [b EXCEPT !.pc = "copysrc", !.todo = EntriesToCopy, !.watched = W] \in BuildType
    BY <1>1 DEF BuildType, EntriesToCopy, Early
  <2>3. (IF InRepo THEN {"repo"} ELSE {}) \in SUBSET Paths
    BY DEF Paths
  <2> QED
    BY <2>1, <2>2, <2>3
<1>3. Step(t, "idle", new) /\ build[t].runs < scenario.runs
  BY DEF Start
<1>4. OneRun(t) /\ build[t].pc = "idle" /\ build'[t] \in new
  <2> HIDE DEF new
  <2> QED
    BY <1>2, <1>3, OneRunSteps DEF OneRun
<1>5. b \in BuildType /\ build[t] \in BuildType
  BY <1>1 DEF StateInv
<1>6. /\ b.runs = build[t].runs + 1 /\ b.fault = faults /\ b.docs = docsRs /\ b.chosen = "none"
      /\ b.atStart = repo /\ b.touched = {} /\ b.pc = build[t].pc
      /\ b.out = build[t].out /\ b.outDef = build[t].outDef /\ b.implib = build[t].implib
      /\ b.archive = build[t].archive /\ b.loaded = build[t].loaded
  BY <1>5 DEF BuildType
<1> HIDE DEF b
<1>7. CASE docsRs
  <2>1. build'[t] = [b EXCEPT !.result = "ok"]
    BY <1>4, <1>7
  <2>2. /\ build'[t].out = b.out /\ build'[t].outDef = b.outDef /\ build'[t].implib = b.implib
        /\ build'[t].archive = b.archive /\ build'[t].loaded = b.loaded /\ build'[t].runs = b.runs
        /\ build'[t].fault = b.fault /\ build'[t].docs = b.docs /\ build'[t].chosen = b.chosen
        /\ build'[t].atStart = b.atStart /\ build'[t].touched = b.touched /\ build'[t].pc = b.pc
        /\ build'[t].result = "ok"
    BY <2>1, <1>5 DEF BuildType
  <2> QED
    BY <2>2, <1>3, <1>4, <1>6, <1>7 DEF Begun
<1>8. CASE ~docsRs /\ TargetRid(t) \notin Rids
  <2>1. build'[t] = Panic(b)
    BY <1>4, <1>8
  <2>2. /\ build'[t].out = b.out /\ build'[t].outDef = b.outDef /\ build'[t].implib = b.implib
        /\ build'[t].archive = b.archive /\ build'[t].loaded = b.loaded /\ build'[t].runs = b.runs
        /\ build'[t].fault = b.fault /\ build'[t].docs = b.docs /\ build'[t].chosen = b.chosen
        /\ build'[t].atStart = b.atStart /\ build'[t].touched = b.touched
        /\ build'[t].result = "failed" /\ build'[t].pc = "idle"
    BY <2>1, <1>5 DEF BuildType, Panic
  <2> QED
    BY <2>2, <1>3, <1>4, <1>6, <1>8 DEF Begun
<1>9. CASE ~docsRs /\ TargetRid(t) \in Rids
  <2>1. build'[t] = [b EXCEPT !.pc = "copysrc", !.todo = EntriesToCopy,
                              !.watched = IF InRepo THEN {"repo"} ELSE {}]
    BY <1>4, <1>9
  <2>2. /\ build'[t].out = b.out /\ build'[t].outDef = b.outDef /\ build'[t].implib = b.implib
        /\ build'[t].archive = b.archive /\ build'[t].loaded = b.loaded /\ build'[t].runs = b.runs
        /\ build'[t].fault = b.fault /\ build'[t].docs = b.docs /\ build'[t].chosen = b.chosen
        /\ build'[t].atStart = b.atStart /\ build'[t].touched = b.touched
        /\ build'[t].pc = "copysrc" /\ build'[t].todo = EntriesToCopy
        /\ InRepo => "repo" \in build'[t].watched
    BY <2>1, <1>5 DEF BuildType
  <2> QED
    BY <2>2, <1>3, <1>4, <1>6, <1>9 DEF Begun
<1> QED
  BY <1>7, <1>8, <1>9

\* What most steps leave as it is.
Unmoved(t) ==
    /\ build'[t].runs = build[t].runs
    /\ build'[t].atStart = build[t].atStart /\ build'[t].docs = build[t].docs
    /\ build'[t].implib = build[t].implib /\ build'[t].loaded = build[t].loaded
    /\ "repo" \in build[t].watched => "repo" \in build'[t].watched
    /\ "repo" \in build[t].touched => "repo" \in build'[t].touched
Kept(t) == Unmoved(t) /\ build'[t].fault = build[t].fault
SameLib(t) ==
    /\ build'[t].out = build[t].out /\ build'[t].outDef = build[t].outDef
    /\ build'[t].archive = build[t].archive
SamePlace(t) ==
    /\ build'[t].pc = build[t].pc /\ build'[t].chosen = build[t].chosen
    /\ build'[t].result = build[t].result /\ build'[t].watched = build[t].watched

LEMMA CopyBeginsStep ==
    ASSUME StateInv, NEW t \in Targets, NEW f \in Files, CopyBegins(t, f)
    PROVE  /\ build[t].pc = "copysrc" /\ f \in build[t].todo
           /\ crate' = [crate EXCEPT ![f] = CutOff]
           /\ build' \in [Targets -> BuildType]
           /\ \A u \in Targets :
                 /\ Kept(u) /\ SameLib(u) /\ SamePlace(u)
                 /\ build'[u].touched = build[u].touched \cup {"crate"}
                 /\ build'[u].todo = build[u].todo
           /\ UNCHANGED <<scenario, repo, staged, edits, stages>>
<1>1. \A u \in Targets : build[u] \in BuildType
  BY DEF StateInv
<1>2. ASSUME NEW u \in Targets
      PROVE  [build[u] EXCEPT !.touched = @ \cup {"crate"}, !.writing = IF u = t THEN {f} ELSE @] \in BuildType
  <2>1. /\ build[u].touched \cup {"crate"} \in SUBSET Paths
        /\ (IF u = t THEN {f} ELSE build[u].writing) \in SUBSET Files
    BY <1>1 DEF BuildType, Paths
  <2> QED
    BY <1>1, <2>1 DEF BuildType
<1>3. \A u \in Targets : build'[u] = [build[u] EXCEPT
         !.touched = @ \cup {"crate"}, !.writing = IF u = t THEN {f} ELSE @]
  BY DEF CopyBegins
<1>4. \A u \in Targets :
         /\ Kept(u) /\ SameLib(u) /\ SamePlace(u)
         /\ build'[u].touched = build[u].touched \cup {"crate"}
         /\ build'[u].todo = build[u].todo
  <2> TAKE u \in Targets
  <2>1. build[u] \in BuildType
    BY <1>1
  <2>2. build'[u] = [build[u] EXCEPT !.touched = @ \cup {"crate"}, !.writing = IF u = t THEN {f} ELSE @]
    BY <1>3
  <2> QED
    BY <2>1, <2>2 DEF BuildType, Kept, Unmoved, SameLib, SamePlace
<1> QED
  BY <1>2, <1>4 DEF CopyBegins, envVars

LEMMA CopyWritesStep ==
    ASSUME StateInv, NEW t \in Targets, NEW f \in Files, CopyWrites(t, f)
    PROVE  /\ build[t].pc = "copysrc" /\ repo[f] # Absent
           /\ crate' = [crate EXCEPT ![f] = repo[f]]
           /\ build' \in [Targets -> BuildType]
           /\ \A u \in Targets :
                 /\ Kept(u) /\ SameLib(u) /\ SamePlace(u)
                 /\ build'[u].touched = build[u].touched \cup {"crate"}
                 /\ u = t => build'[u].todo = build[u].todo \ {f}
                 /\ u # t => build'[u].todo = build[u].todo
           /\ UNCHANGED <<scenario, repo, staged, edits, stages>>
<1> DEFINE Now(u) == [build[u] EXCEPT !.touched = @ \cup {"crate"}, !.writing = IF u = t THEN {} ELSE @,
                                      !.todo = IF u = t THEN @ \ {f} ELSE @]
<1>1. \A u \in Targets : build[u] \in BuildType
  BY DEF StateInv
<1>2. ASSUME NEW u \in Targets PROVE Now(u) \in BuildType
  <2>1. /\ build[u].touched \cup {"crate"} \in SUBSET Paths
        /\ (IF u = t THEN {} ELSE build[u].writing) \in SUBSET Files
        /\ (IF u = t THEN build[u].todo \ {f} ELSE build[u].todo) \in SUBSET Files
    BY <1>1 DEF BuildType, Paths
  <2>2. \A P \in SUBSET Paths, W \in SUBSET Files, T \in SUBSET Files :
           [build[u] EXCEPT !.touched = P, !.writing = W, !.todo = T] \in BuildType
    <3>1. build[u] \in BuildType
      BY <1>1
    <3> QED
      BY <3>1 DEF BuildType
  <2> QED
    BY <2>1, <2>2
<1>3. \A u \in Targets : build'[u] = Now(u)
  BY DEF CopyWrites
<1>4. \A u \in Targets :
         /\ Kept(u) /\ SameLib(u) /\ SamePlace(u)
         /\ build'[u].touched = build[u].touched \cup {"crate"}
         /\ u = t => build'[u].todo = build[u].todo \ {f}
         /\ u # t => build'[u].todo = build[u].todo
  <2> TAKE u \in Targets
  <2>1. build[u] \in BuildType
    BY <1>1
  <2>2. build'[u] = Now(u)
    BY <1>3
  <2> QED
    BY <2>1, <2>2 DEF BuildType, Kept, Unmoved, SameLib, SamePlace
<1>5. build' \in [Targets -> BuildType]
  <2>1. build' = [u \in Targets |-> Now(u)]
    BY DEF CopyWrites
  <2> HIDE DEF Now
  <2> QED
    BY <1>2, <2>1
<1> QED
  BY <1>4, <1>5 DEF CopyWrites, envVars

LEMMA CopyEndsStep ==
    ASSUME StateInv, NEW t \in Targets, CopyEnds(t)
    PROVE  /\ OneRun(t) /\ build[t].pc = "copysrc"
           /\ build[t].todo = {} \/ "copysrc" \in build[t].fault \/ \E f \in build[t].todo : repo[f] = Absent
           /\ Unmoved(t) /\ SameLib(t)
           /\ build'[t].pc = "choose" /\ build'[t].todo = {} /\ build'[t].chosen = build[t].chosen
           /\ build[t].todo = {} => build'[t].fault = build[t].fault
           /\ build[t].todo # {} => build'[t].fault = build[t].fault \cup {"copysrc"}
<1> DEFINE new == {[build[t] EXCEPT !.pc = "choose", !.todo = {}, !.writing = {},
                        !.fault = IF build[t].todo = {} THEN @ ELSE @ \cup {"copysrc"}]}
<1>1. build[t] \in BuildType
  BY DEF StateInv
<1>2. new \subseteq BuildType
  <2>1. (IF build[t].todo = {} THEN build[t].fault ELSE build[t].fault \cup {"copysrc"}) \in SUBSET FaultKinds
    BY <1>1 DEF BuildType, FaultKinds
  <2>2. \A F \in SUBSET FaultKinds :
          [build[t] EXCEPT !.pc = "choose", !.todo = {}, !.writing = {}, !.fault = F] \in BuildType
    BY <1>1 DEF BuildType, Early
  <2> QED
    BY <2>1, <2>2
<1>3. Step(t, "copysrc", new)
  BY DEF CopyEnds
<1>4. OneRun(t) /\ build[t].pc = "copysrc" /\ build'[t] \in new
  <2> HIDE DEF new
  <2> QED
    BY <1>2, <1>3, OneRunSteps DEF OneRun
<1> QED
  BY <1>1, <1>4 DEF CopyEnds, BuildType, Unmoved, SameLib

LEMMA ChooseStep ==
    ASSUME StateInv, NEW t \in Targets, Choose(t)
    PROVE  /\ OneRun(t) /\ build[t].pc = "choose"
           /\ Kept(t) /\ SameLib(t) /\ build'[t].todo = build[t].todo
           /\ IF BigEnough(staged[TargetRid(t)].lib)
              THEN build'[t].chosen = "prebuild" /\ build'[t].pc = "install"
              ELSE /\ build'[t].chosen = build[t].chosen
                   /\ build'[t].pc = IF crate[GoMod] # Absent THEN "gobuild" ELSE "curl"
<1> DEFINE new == IF BigEnough(staged[TargetRid(t)].lib)
                  THEN {[build[t] EXCEPT !.chosen = "prebuild", !.pc = "install"]}
                  ELSE {[build[t] EXCEPT !.pc = IF crate[GoMod] # Absent THEN "gobuild" ELSE "curl"]}
<1>1. build[t] \in BuildType
  BY DEF StateInv
<1>2. new \subseteq BuildType
  <2>1. /\ [build[t] EXCEPT !.chosen = "prebuild", !.pc = "install"] \in BuildType
        /\ \A pc \in {"gobuild", "curl"} : [build[t] EXCEPT !.pc = pc] \in BuildType
    BY <1>1 DEF BuildType, Early, Late
  <2> QED
    BY <2>1
<1>3. Step(t, "choose", new)
  BY DEF Choose
<1>4. OneRun(t) /\ build[t].pc = "choose" /\ build'[t] \in new
  <2> HIDE DEF new
  <2> QED
    BY <1>2, <1>3, OneRunSteps DEF OneRun
<1>5. CASE BigEnough(staged[TargetRid(t)].lib)
  BY <1>1, <1>4, <1>5 DEF BuildType, Kept, Unmoved, SameLib
<1>6. CASE ~BigEnough(staged[TargetRid(t)].lib)
  BY <1>1, <1>4, <1>6 DEF BuildType, Kept, Unmoved, SameLib
<1> QED
  BY <1>5, <1>6

LEMMA GoFailsStep ==
    ASSUME StateInv, NEW t \in Targets, GoFails(t)
    PROVE  /\ OneRun(t) /\ build[t].pc = "gobuild"
           /\ build'[t].fault = build[t].fault \cup {"go"}
           /\ Unmoved(t) /\ SameLib(t) /\ build'[t].chosen = build[t].chosen /\ build'[t].pc = "curl"
<1> DEFINE new == {[build[t] EXCEPT !.pc = "curl", !.fault = @ \cup {"go"}]}
<1>1. build[t] \in BuildType
  BY DEF StateInv
<1>2. new \subseteq BuildType
  <2>1. build[t].fault \cup {"go"} \in SUBSET FaultKinds
    BY <1>1 DEF BuildType, FaultKinds
  <2>2. \A F \in SUBSET FaultKinds : [build[t] EXCEPT !.pc = "curl", !.fault = F] \in BuildType
    BY <1>1 DEF BuildType, Early
  <2> QED
    BY <2>1, <2>2
<1>3. Step(t, "gobuild", new)
  BY DEF GoFails
<1>4. OneRun(t) /\ build[t].pc = "gobuild" /\ build'[t] \in new
  <2> HIDE DEF new
  <2> QED
    BY <1>2, <1>3, OneRunSteps DEF OneRun
<1> QED
  BY <1>1, <1>4 DEF BuildType, Unmoved, SameLib

LEMMA GoBuildsStep ==
    ASSUME StateInv, NEW t \in Targets, GoBuilds(t)
    PROVE  /\ OneRun(t) /\ build[t].pc = "gobuild" /\ "go" \notin build[t].fault
           /\ Kept(t)
           /\ build'[t].archive = build[t].archive
           /\ build'[t].touched = build[t].touched \cup {"out"}
           /\ build'[t].outDef =
                IF Windows(t) /\ crate[Def] # Absent /\ "ignored" \notin build[t].fault
                THEN crate[Def] ELSE build[t].outDef
           /\ \/ /\ "gotiny" \in build[t].fault
                 /\ build'[t].out = Stub /\ build'[t].pc = "curl" /\ build'[t].chosen = build[t].chosen
              \/ /\ build'[t].out = [from |-> "source", of |-> crate]
                 /\ build'[t].pc = "install" /\ build'[t].chosen = "source"
<1> DEFINE hasDef == Windows(t) /\ crate[Def] # Absent /\ "ignored" \notin build[t].fault
           b == [build[t] EXCEPT !.outDef = IF hasDef THEN crate[Def] ELSE @, !.touched = @ \cup {"out"}]
           small == [b EXCEPT !.out = Stub, !.pc = "curl"]
           built == [b EXCEPT !.out = [from |-> "source", of |-> crate], !.watched = @ \cup {"crate"},
                              !.chosen = "source", !.pc = "install"]
           new == {IF "gotiny" \in build[t].fault THEN small ELSE built}
<1>1. build[t] \in BuildType /\ crate \in Sources
  BY DEF StateInv
<1>2. b \in BuildType
  <2>1. /\ (IF hasDef THEN crate[Def] ELSE build[t].outDef) \in Int
        /\ build[t].touched \cup {"out"} \in SUBSET Paths
    BY <1>1, SysBuildAssumption DEF BuildType, Paths, Sources
  <2>2. \A d \in Int, P \in SUBSET Paths : [build[t] EXCEPT !.outDef = d, !.touched = P] \in BuildType
    BY <1>1 DEF BuildType
  <2> QED
    BY <2>1, <2>2
<1>3. /\ b.outDef = IF hasDef THEN crate[Def] ELSE build[t].outDef
      /\ b.touched = build[t].touched \cup {"out"}
      /\ b.runs = build[t].runs /\ b.fault = build[t].fault /\ b.atStart = build[t].atStart
      /\ b.docs = build[t].docs /\ b.implib = build[t].implib /\ b.loaded = build[t].loaded
      /\ b.archive = build[t].archive /\ b.chosen = build[t].chosen /\ b.watched = build[t].watched
  BY <1>1 DEF BuildType
<1>4. /\ Step(t, "gobuild", new) /\ "go" \notin build[t].fault
  BY DEF GoBuilds
<1> HIDE DEF b, hasDef
<1>5. small \in BuildType /\ built \in BuildType
  <2>1. /\ Stub \in Libs /\ [from |-> "source", of |-> crate] \in Libs
        /\ b.watched \cup {"crate"} \in SUBSET Paths
    BY <1>1, <1>2, LibsTyped DEF BuildType, Paths, Libs, Origins
  <2>2. \A lib \in Libs : [b EXCEPT !.out = lib, !.pc = "curl"] \in BuildType
    BY <1>2 DEF BuildType, Early
  <2>3. \A lib \in Libs, P \in SUBSET Paths :
           [b EXCEPT !.out = lib, !.watched = P, !.chosen = "source", !.pc = "install"] \in BuildType
    BY <1>2 DEF BuildType, Late
  <2> QED
    BY <2>1, <2>2, <2>3
<1>6. OneRun(t) /\ build[t].pc = "gobuild" /\ build'[t] \in new
  <2>1. new \subseteq BuildType
    BY <1>5
  <2> HIDE DEF new
  <2> QED
    BY <2>1, <1>4, OneRunSteps DEF OneRun
<1>7. CASE "gotiny" \in build[t].fault
  <2>1. build'[t] = small
    BY <1>6, <1>7
  <2> QED
    BY <2>1, <1>2, <1>3, <1>4, <1>6, <1>7 DEF Kept, Unmoved, BuildType, hasDef
<1>8. CASE "gotiny" \notin build[t].fault
  <2>1. build'[t] = built
    BY <1>6, <1>8
  <2> QED
    BY <2>1, <1>2, <1>3, <1>4, <1>6, <1>8 DEF Kept, Unmoved, BuildType, hasDef
<1> QED
  BY <1>7, <1>8

LEMMA CurlStep ==
    ASSUME StateInv, NEW t \in Targets, Curl(t)
    PROVE  /\ OneRun(t) /\ build[t].pc = "curl"
           /\ Kept(t)
           /\ build'[t].chosen = build[t].chosen
           /\ build'[t].out = build[t].out /\ build'[t].outDef = build[t].outDef
           /\ build'[t].archive = "layout" =>
                 build[t].archive = "layout" \/ "layout" \in build[t].fault
           /\ \/ /\ build[t].fault \cap {"curl", "html"} # {}
                 /\ build'[t].pc = "idle" /\ build'[t].result = "failed"
              \/ /\ build'[t].pc = "tar" /\ build'[t].archive \in {"corrupt", "layout", "tiny", "good"}
                 /\ build'[t].archive = "corrupt" => "tar" \in build[t].fault
                 /\ build'[t].archive \in {"tiny", "layout"} => build'[t].archive \in build[t].fault
<1> DEFINE b == build[t]
           fetched == CASE "tar" \in b.fault -> "corrupt" [] "layout" \in b.fault -> "layout"
                        [] "tiny" \in b.fault -> "tiny" [] OTHER -> "good"
           new == CASE "curl" \in b.fault -> {Panic([b EXCEPT !.archive = a]) : a \in {b.archive, "part"}}
                    [] "html" \in b.fault -> {Panic([b EXCEPT !.archive = "none"])}
                    [] OTHER -> {[b EXCEPT !.pc = "tar", !.archive = fetched]}
<1>1. b \in BuildType
  BY DEF StateInv
<1>2. /\ \A a \in Archives : Panic([b EXCEPT !.archive = a]) \in BuildType
      /\ \A a \in Archives : [b EXCEPT !.pc = "tar", !.archive = a] \in BuildType
      /\ b.archive \in Archives
  BY <1>1 DEF BuildType, Panic, Early
<1>3. /\ fetched \in {"corrupt", "layout", "tiny", "good"}
      /\ fetched = "corrupt" => "tar" \in b.fault
      /\ fetched \in {"tiny", "layout"} => fetched \in b.fault
  OBVIOUS
<1>4. Step(t, "curl", new)
  BY DEF Curl
<1> HIDE DEF fetched
<1>5. OneRun(t) /\ b.pc = "curl" /\ build'[t] \in new
  <2>1. new \subseteq BuildType
    BY <1>2, <1>3 DEF Archives
  <2> HIDE DEF new
  <2> QED
    BY <2>1, <1>4, OneRunSteps DEF OneRun
<1>6. CASE "curl" \in b.fault \/ "html" \in b.fault
  <2>1. PICK a \in {b.archive, "part", "none"} : build'[t] = Panic([b EXCEPT !.archive = a])
    BY <1>5, <1>6
  <2> QED
    BY <2>1, <1>1, <1>5, <1>6 DEF Panic, BuildType, Kept, Unmoved
<1>7. CASE "curl" \notin b.fault /\ "html" \notin b.fault
  <2>1. build'[t] = [b EXCEPT !.pc = "tar", !.archive = fetched]
    BY <1>5, <1>7
  <2> QED
    BY <2>1, <1>1, <1>3, <1>5 DEF BuildType, Kept, Unmoved
<1> QED
  BY <1>6, <1>7

LEMMA TarStep ==
    ASSUME StateInv, NEW t \in Targets, Tar(t)
    PROVE  /\ OneRun(t) /\ build[t].pc = "tar"
           /\ Kept(t)
           /\ build'[t].archive \in {build[t].archive, "none"}
           /\ \/ /\ build'[t].pc = "idle" /\ build'[t].result = "failed"
                 /\ build'[t].chosen = build[t].chosen
                 /\ build'[t].outDef = build[t].outDef
                 /\ build'[t].out \in {build[t].out, Stub, Cut}
                 /\ build[t].archive \in {"corrupt", "layout", "tiny"}
              \/ /\ build'[t].pc = "install" /\ build'[t].chosen = "download"
                 /\ build[t].archive = "layout" /\ BigEnough(build[t].out)
                 /\ build'[t].out = build[t].out /\ build'[t].outDef = build[t].outDef
              \/ /\ build'[t].pc = "install" /\ build'[t].chosen = "download"
                 /\ build'[t].out = Release(CrateVersion)
                 /\ build'[t].outDef = IF Windows(t) THEN CrateVersion ELSE build[t].outDef
<1> DEFINE b == build[t]
           done == [b EXCEPT !.archive = "none"]
           unpacked == [done EXCEPT !.touched = @ \ {"out"}]
           Checked(c) == IF BigEnough(c.out) THEN [c EXCEPT !.chosen = "download", !.pc = "install"]
                         ELSE Panic(c)
           released == [unpacked EXCEPT !.out = Release(ReleaseVersion),
                                        !.outDef = IF Windows(t) THEN ReleaseVersion ELSE @]
           new == CASE b.archive = "corrupt" -> {Panic([b EXCEPT !.out = lib]) : lib \in CutShort(t)}
                    [] b.archive = "layout" -> {Checked(done)}
                    [] b.archive = "tiny" -> {Checked([unpacked EXCEPT !.out = Stub])}
                    [] OTHER -> {Checked(released)}
           Alike(c) == /\ c.runs = build[t].runs /\ c.fault = build[t].fault
                       /\ c.atStart = build[t].atStart /\ c.docs = build[t].docs
                       /\ c.implib = build[t].implib /\ c.loaded = build[t].loaded
                       /\ "repo" \in build[t].watched => "repo" \in c.watched
                       /\ "repo" \in build[t].touched => "repo" \in c.touched
<1>1. build[t] \in BuildType
  BY DEF StateInv
<1>2. b \in BuildType /\ b = build[t]
  BY <1>1
<1>4. Step(t, "tar", new)
  BY DEF Tar
<1> HIDE DEF b
<1>5. done \in BuildType /\ unpacked \in BuildType /\ released \in BuildType
  <2>1. done \in BuildType
    BY <1>2 DEF BuildType, Archives
  <2>2. unpacked \in BuildType
    <3>1. done.touched \ {"out"} \in SUBSET Paths
      BY <2>1 DEF BuildType
    <3> HIDE DEF done
    <3> QED
      BY <2>1, <3>1 DEF BuildType
  <2>3. \A lib \in Libs, d \in Int : [unpacked EXCEPT !.out = lib, !.outDef = d] \in BuildType
    <3> HIDE DEF unpacked
    <3> QED
      BY <2>2 DEF BuildType
  <2>4. (IF Windows(t) THEN ReleaseVersion ELSE unpacked.outDef) \in Int /\ Release(ReleaseVersion) \in Libs
    <3> HIDE DEF unpacked
    <3> QED
      BY <2>2, LibsTyped DEF BuildType
  <2> QED
    BY <2>1, <2>2, <2>3, <2>4
<1>3. /\ Alike(b) /\ Alike(done) /\ Alike(unpacked)
      /\ done.archive = "none" /\ unpacked.archive = "none"
      /\ done.out = b.out /\ done.outDef = b.outDef /\ unpacked.outDef = b.outDef
      /\ unpacked.chosen = b.chosen /\ done.chosen = b.chosen
  BY <1>2 DEF BuildType
<1>14. ASSUME Alike(build'[t]) PROVE Kept(t)
  BY <1>14 DEF Kept, Unmoved
<1>15. \A c \in BuildType, lib \in Libs : Alike(c) => Alike([c EXCEPT !.out = lib]) /\ Alike(Panic([c EXCEPT !.out = lib]))
  BY DEF BuildType, Panic
<1>16. \A c \in BuildType : Alike(c) => Alike(Panic(c)) /\ Alike([c EXCEPT !.chosen = "download", !.pc = "install"])
  BY DEF BuildType, Panic
<1> HIDE DEF unpacked, done
<1>6. \A lib \in Libs : [b EXCEPT !.out = lib] \in BuildType /\ [unpacked EXCEPT !.out = lib] \in BuildType
  BY <1>2, <1>5 DEF BuildType
<1>7. \A c \in BuildType : Panic(c) \in BuildType /\ Checked(c) \in BuildType
  <2>1. \A c \in BuildType : Panic(c) \in BuildType /\ [c EXCEPT !.chosen = "download", !.pc = "install"] \in BuildType
    BY DEF Panic, BuildType, Late
  <2> QED
    BY <2>1
<1>8. CutShort(t) \subseteq Libs /\ Stub \in Libs
  BY <1>1, LibsTyped DEF CutShort, BuildType
<1>9. OneRun(t) /\ build[t].pc = "tar" /\ build'[t] \in new
  <2>1. new \subseteq BuildType
    <3> HIDE DEF released, Checked
    <3> QED
      BY <1>5, <1>6, <1>7, <1>8
  <2> HIDE DEF new
  <2> QED
    BY <2>1, <1>4, OneRunSteps DEF OneRun
<1>10. CASE b.archive = "corrupt"
  <2>1. PICK lib \in CutShort(t) : build'[t] = Panic([b EXCEPT !.out = lib])
    BY <1>9, <1>10
  <2> QED
    <3>1. lib \in Libs /\ lib \in {b.out, Stub, Cut}
      BY <1>2, <1>8 DEF CutShort
    <3>2. Kept(t)
      BY <1>14, <1>15, <1>2, <1>3, <2>1, <3>1
    <3>3. /\ build'[t].pc = "idle" /\ build'[t].result = "failed" /\ build'[t].chosen = b.chosen
          /\ build'[t].outDef = b.outDef /\ build'[t].out = lib /\ build'[t].archive = b.archive
      BY <2>1, <1>2 DEF BuildType, Panic
    <3> HIDE DEF Alike
    <3> QED
      BY <1>2, <1>9, <1>10, <3>1, <3>2, <3>3
<1>11. CASE b.archive = "layout"
  <2>1. build'[t] = Checked(done)
    BY <1>9, <1>11
  <2>2. CASE BigEnough(b.out)
    <3>1. build'[t] = [done EXCEPT !.chosen = "download", !.pc = "install"]
      BY <2>1, <2>2, <1>3
    <3>2. Kept(t)
      BY <1>14, <1>16, <1>3, <1>5, <3>1
    <3>3. /\ build'[t].pc = "install" /\ build'[t].chosen = "download" /\ build'[t].archive = "none"
          /\ build'[t].out = b.out /\ build'[t].outDef = b.outDef
      BY <3>1, <1>3, <1>5 DEF BuildType
    <3> QED
      BY <1>2, <1>9, <1>11, <2>2, <3>2, <3>3
  <2>3. CASE ~BigEnough(b.out)
    <3>1. build'[t] = Panic(done)
      BY <2>1, <2>3, <1>3
    <3>2. Kept(t)
      BY <1>14, <1>16, <1>3, <1>5, <3>1
    <3>3. /\ build'[t].pc = "idle" /\ build'[t].result = "failed" /\ build'[t].chosen = b.chosen
          /\ build'[t].outDef = b.outDef /\ build'[t].out = b.out /\ build'[t].archive = "none"
      BY <3>1, <1>3, <1>5 DEF BuildType, Panic
    <3> QED
      BY <1>2, <1>9, <1>11, <3>2, <3>3
  <2> QED
    BY <2>2, <2>3
<1>12. CASE b.archive = "tiny"
  <2>1. build'[t] = Checked([unpacked EXCEPT !.out = Stub])
    BY <1>9, <1>12
  <2>2. ~BigEnough(Stub)
    BY DEF BigEnough, Stub
  <2>3. build'[t] = Panic([unpacked EXCEPT !.out = Stub])
    BY <1>5, <2>1, <2>2 DEF BuildType
  <2> QED
    <3>1. Kept(t)
      BY <1>14, <1>15, <1>3, <1>5, <1>8, <2>3
    <3>2. /\ build'[t].pc = "idle" /\ build'[t].result = "failed" /\ build'[t].chosen = b.chosen
          /\ build'[t].outDef = b.outDef /\ build'[t].out = Stub /\ build'[t].archive = "none"
      BY <2>3, <1>3, <1>5 DEF BuildType, Panic
    <3> QED
      BY <1>2, <1>9, <1>12, <3>1, <3>2
<1>13. CASE b.archive \notin {"corrupt", "layout", "tiny"}
  <2>1. build'[t] = Checked(released)
    BY <1>9, <1>13
  <2>2. /\ released.out = Release(CrateVersion) /\ released.archive = "none"
        /\ released.outDef = IF Windows(t) THEN CrateVersion ELSE b.outDef
        /\ Alike(released)
    BY <1>3, <1>5, LibsTyped DEF BuildType
  <2>3. BigEnough(released.out)
    BY <2>2 DEF BigEnough, Release
  <2>4. build'[t] = [released EXCEPT !.chosen = "download", !.pc = "install"]
    BY <2>1, <2>3
  <2> HIDE DEF released
  <2> QED
    <3>1. Kept(t)
      BY <1>14, <1>16, <1>5, <2>2, <2>4
    <3>2. /\ build'[t].pc = "install" /\ build'[t].chosen = "download" /\ build'[t].archive = "none"
          /\ build'[t].out = Release(CrateVersion)
          /\ build'[t].outDef = IF Windows(t) THEN CrateVersion ELSE b.outDef
      BY <2>2, <2>4, <1>5 DEF BuildType
    <3> QED
      BY <1>2, <1>9, <3>1, <3>2
<1> QED
  BY <1>10, <1>11, <1>12, <1>13

LEMMA InstallStep ==
    ASSUME StateInv, NEW t \in Targets, TargetRid(t) \in Rids, Install(t)
    PROVE  /\ OneRun(t) /\ build[t].pc = "install"
           /\ Kept(t)
           /\ build'[t].chosen = build[t].chosen
           /\ build'[t].archive = build[t].archive /\ build'[t].outDef = build[t].outDef
           /\ IF build[t].chosen = "prebuild"
              THEN /\ build'[t].out = staged[TargetRid(t)].lib
                   /\ "staged" \in build'[t].watched
              ELSE /\ build'[t].out = build[t].out
                   /\ "out" \in build'[t].watched
                   /\ build'[t].touched = build[t].touched
           /\ IF BigEnough(build'[t].out)
              THEN build'[t].pc = IF Windows(t) THEN "implib" ELSE "target"
              ELSE build'[t].pc = "idle" /\ build'[t].result = "failed"
<1> DEFINE b == IF build[t].chosen = "prebuild" THEN FromPrebuild(t) ELSE FromOutDir(t)
           new == {IF ~BigEnough(b.out) THEN Panic(b)
                   ELSE [b EXCEPT !.pc = IF Windows(t) THEN "implib" ELSE "target"]}
<1>1. build[t] \in BuildType /\ staged[TargetRid(t)].lib \in Libs
  <2>1. staged[TargetRid(t)] \in StagedType
    BY DEF StateInv
  <2> QED
    BY <2>1 DEF StateInv, StagedType, Libs, Origins, StagedOrigins
<1>2. b \in BuildType
  <2>1. /\ build[t].touched \cup {"out"} \in SUBSET Paths
        /\ build[t].watched \cup {"staged"} \in SUBSET Paths /\ build[t].watched \cup {"out"} \in SUBSET Paths
    BY <1>1 DEF BuildType, Paths
  <2>2. FromPrebuild(t) \in BuildType
    BY <1>1, <2>1 DEF BuildType, FromPrebuild
  <2>3. FromOutDir(t) \in BuildType
    BY <1>1, <2>1 DEF BuildType, FromOutDir
  <2> QED
    BY <2>2, <2>3
<1>3. /\ b.runs = build[t].runs /\ b.fault = build[t].fault /\ b.atStart = build[t].atStart
      /\ b.docs = build[t].docs /\ b.implib = build[t].implib /\ b.loaded = build[t].loaded
      /\ b.chosen = build[t].chosen /\ b.archive = build[t].archive /\ b.outDef = build[t].outDef
      /\ build[t].watched \subseteq b.watched /\ build[t].touched \subseteq b.touched
      /\ IF build[t].chosen = "prebuild"
         THEN b.out = staged[TargetRid(t)].lib /\ "staged" \in b.watched
         ELSE b.out = build[t].out /\ "out" \in b.watched /\ b.touched = build[t].touched
  <2>1. CASE build[t].chosen = "prebuild"
    BY <1>1, <2>1 DEF BuildType, FromPrebuild
  <2>2. CASE build[t].chosen # "prebuild"
    BY <1>1, <2>2 DEF BuildType, FromOutDir
  <2> QED
    BY <2>1, <2>2
<1>4. Step(t, "install", new)
  BY DEF Install
<1> HIDE DEF b
<1>5. Panic(b) \in BuildType /\ \A pc \in {"implib", "target"} : [b EXCEPT !.pc = pc] \in BuildType
  BY <1>2 DEF BuildType, Panic, Late
<1>6. OneRun(t) /\ build[t].pc = "install" /\ build'[t] \in new
  <2>1. new \subseteq BuildType
    BY <1>5
  <2> HIDE DEF new
  <2> QED
    BY <2>1, <1>4, OneRunSteps DEF OneRun
<1>7. CASE BigEnough(b.out)
  <2>1. build'[t] = [b EXCEPT !.pc = IF Windows(t) THEN "implib" ELSE "target"]
    BY <1>6, <1>7
  <2> QED
    BY <2>1, <1>2, <1>3, <1>6, <1>7 DEF Kept, Unmoved, BuildType
<1>8. CASE ~BigEnough(b.out)
  <2>1. build'[t] = Panic(b)
    BY <1>6, <1>8
  <2> QED
    BY <2>1, <1>2, <1>3, <1>6, <1>8 DEF Kept, Unmoved, BuildType, Panic
<1> QED
  BY <1>7, <1>8

LEMMA InstallFailsStep ==
    ASSUME StateInv, NEW t \in Targets, InstallFails(t)
    PROVE  /\ OneRun(t) /\ build[t].pc = "install"
           /\ Kept(t)
           /\ build[t].chosen = "prebuild" /\ "copy" \in build[t].fault
           /\ build'[t].chosen = build[t].chosen
           /\ build'[t].archive = build[t].archive /\ build'[t].outDef = build[t].outDef
           /\ build'[t].pc = "idle" /\ build'[t].result = "failed"
<1> DEFINE new == {Panic([build[t] EXCEPT !.out = lib]) : lib \in CutShort(t)}
<1>1. build[t] \in BuildType
  BY DEF StateInv
<1>2. \A lib \in CutShort(t) : Panic([build[t] EXCEPT !.out = lib]) \in BuildType
  <2>1. CutShort(t) \subseteq Libs
    BY <1>1, LibsTyped DEF CutShort, BuildType
  <2>2. \A lib \in Libs : Panic([build[t] EXCEPT !.out = lib]) \in BuildType
    BY <1>1 DEF BuildType, Panic
  <2> QED
    BY <2>1, <2>2
<1>3. /\ Step(t, "install", new)
      /\ build[t].chosen = "prebuild" /\ "copy" \in build[t].fault
  BY DEF InstallFails
<1>4. OneRun(t) /\ build[t].pc = "install" /\ build'[t] \in new
  <2>1. new \subseteq BuildType
    BY <1>2
  <2> HIDE DEF new
  <2> QED
    BY <2>1, <1>3, OneRunSteps DEF OneRun
<1>5. PICK lib \in CutShort(t) : build'[t] = Panic([build[t] EXCEPT !.out = lib])
  BY <1>4
<1> QED
  BY <1>1, <1>3, <1>4, <1>5 DEF BuildType, Panic, Kept, Unmoved

LEMMA MakeImportLibStep ==
    ASSUME StateInv, NEW t \in Targets, TargetRid(t) \in Rids, MakeImportLib(t)
    PROVE  /\ OneRun(t) /\ build[t].pc = "implib"
           /\ SameLib(t)
           /\ build'[t].runs = build[t].runs /\ build'[t].fault = build[t].fault
           /\ build'[t].atStart = build[t].atStart /\ build'[t].docs = build[t].docs
           /\ build'[t].chosen = build[t].chosen
           /\ build'[t].watched = build[t].watched /\ build'[t].touched = build[t].touched
           /\ \/ /\ "libexe" \in build[t].fault
                 /\ build'[t].pc = "idle" /\ build'[t].result = "failed"
                 /\ build'[t].implib = build[t].implib
              \/ /\ build'[t].pc = "target"
                 /\ build'[t].implib = IF DefDir(t) = Absent THEN build[t].implib ELSE DefDir(t)
<1> DEFINE new == {IF DefDir(t) = Absent THEN [build[t] EXCEPT !.pc = "target"]
                   ELSE IF "libexe" \in build[t].fault THEN Panic(build[t])
                   ELSE [build[t] EXCEPT !.pc = "target", !.implib = DefDir(t)]}
<1>1. build[t] \in BuildType
  BY DEF StateInv
<1>2. DefDir(t) \in Int
  <2>1. staged[TargetRid(t)] \in StagedType
    BY DEF StateInv
  <2> QED
    BY <1>1, <2>1 DEF BuildType, DefDir, StagedType
<1>3. /\ [build[t] EXCEPT !.pc = "target"] \in BuildType
      /\ Panic(build[t]) \in BuildType
      /\ [build[t] EXCEPT !.pc = "target", !.implib = DefDir(t)] \in BuildType
  BY <1>1, <1>2 DEF BuildType, Panic, Late
<1>4. Step(t, "implib", new)
  BY DEF MakeImportLib
<1>5. OneRun(t) /\ build[t].pc = "implib" /\ build'[t] \in new
  <2>1. new \subseteq BuildType
    BY <1>3
  <2> HIDE DEF new
  <2> QED
    BY <2>1, <1>4, OneRunSteps DEF OneRun
<1>6. CASE build'[t] = Panic(build[t]) /\ "libexe" \in build[t].fault
  BY <1>1, <1>5, <1>6 DEF BuildType, Panic, SameLib
<1>7. CASE build'[t] = [build[t] EXCEPT !.pc = "target"] /\ DefDir(t) = Absent
  BY <1>1, <1>5, <1>7 DEF BuildType, SameLib
<1>8. CASE build'[t] = [build[t] EXCEPT !.pc = "target", !.implib = DefDir(t)] /\ DefDir(t) # Absent
  BY <1>1, <1>5, <1>8 DEF BuildType, SameLib
<1> QED
  BY <1>5, <1>6, <1>7, <1>8

LEMMA CopyToTargetStep ==
    ASSUME StateInv, NEW t \in Targets, CopyToTarget(t)
    PROVE  /\ OneRun(t) /\ build[t].pc = "target"
           /\ SameLib(t)
           /\ build'[t].runs = build[t].runs /\ build'[t].fault = build[t].fault
           /\ build'[t].atStart = build[t].atStart /\ build'[t].docs = build[t].docs
           /\ build'[t].implib = build[t].implib /\ build'[t].chosen = build[t].chosen
           /\ build'[t].watched = build[t].watched /\ build'[t].touched = build[t].touched
           /\ build'[t].pc = "idle" /\ build'[t].result = "ok"
           /\ "ignored" \notin build[t].fault => build'[t].loaded = build[t].out
<1> DEFINE new == {[build[t] EXCEPT !.loaded = lib, !.pc = "idle", !.result = "ok"] :
                      lib \in LoadedAfter(t)}
<1>1. build[t] \in BuildType
  BY DEF StateInv
<1>2. \A lib \in LoadedAfter(t) :
        [build[t] EXCEPT !.loaded = lib, !.pc = "idle", !.result = "ok"] \in BuildType
  <2>1. LoadedAfter(t) \subseteq Libs
    BY <1>1, LibsTyped DEF LoadedAfter, BuildType
  <2>2. \A lib \in Libs : [build[t] EXCEPT !.loaded = lib, !.pc = "idle", !.result = "ok"] \in BuildType
    BY <1>1 DEF BuildType
  <2> QED
    BY <2>1, <2>2
<1>3. Step(t, "target", new)
  BY DEF CopyToTarget
<1>4. OneRun(t) /\ build[t].pc = "target" /\ build'[t] \in new
  <2>1. new \subseteq BuildType
    BY <1>2
  <2> HIDE DEF new
  <2> QED
    BY <2>1, <1>3, OneRunSteps DEF OneRun
<1>5. PICK lib \in LoadedAfter(t) :
         build'[t] = [build[t] EXCEPT !.loaded = lib, !.pc = "idle", !.result = "ok"]
  BY <1>4
<1> QED
  BY <1>1, <1>4, <1>5 DEF BuildType, SameLib, LoadedAfter

LEMMA KillStep ==
    ASSUME StateInv, NEW t \in Targets, Kill(t)
    PROVE  /\ OneRun(t) /\ Running(t) /\ "kill" \in build[t].fault
           /\ build'[t].pc = "idle" /\ build'[t].result = "failed"
           /\ build'[t].todo = {}
           /\ build'[t].archive \in {build[t].archive, "part"}
           /\ build'[t].out \in {build[t].out, Stub, Cut}
           /\ build'[t].runs = build[t].runs /\ build'[t].fault = build[t].fault
           /\ build'[t].atStart = build[t].atStart /\ build'[t].docs = build[t].docs
           /\ build'[t].implib = build[t].implib /\ build'[t].outDef = build[t].outDef
           /\ build'[t].chosen = build[t].chosen
<1> DEFINE b == [build[t] EXCEPT !.todo = {}, !.writing = {}]
           writesOut == <<b.pc, b.chosen>> \in {<<"gobuild", "none">>, <<"tar", "none">>, <<"install", "prebuild">>}
           Left(lib) == [b EXCEPT !.out = IF writesOut THEN lib ELSE @,
                                  !.loaded = IF b.pc = "target" THEN lib ELSE @,
                                  !.archive = IF b.pc = "curl" THEN "part" ELSE @]
           new == {Panic(Left(lib)) : lib \in {Stub, Cut}}
<1>1. build[t] \in BuildType
  BY DEF StateInv
<1>2. b \in BuildType
  BY <1>1 DEF BuildType
<1>3. /\ b.pc = build[t].pc /\ b.todo = {} /\ b.archive = build[t].archive /\ b.out = build[t].out
      /\ b.runs = build[t].runs /\ b.fault = build[t].fault /\ b.atStart = build[t].atStart
      /\ b.docs = build[t].docs /\ b.implib = build[t].implib /\ b.outDef = build[t].outDef
      /\ b.chosen = build[t].chosen
  BY <1>1 DEF BuildType
<1>4. Running(t) /\ "kill" \in b.fault /\ Step(t, b.pc, new)
  BY DEF Kill
<1> HIDE DEF b, writesOut
<1>5. ASSUME NEW lib \in {Stub, Cut} PROVE Left(lib) \in BuildType
  <2>1. /\ (IF writesOut THEN lib ELSE b.out) \in Libs
        /\ (IF b.pc = "target" THEN lib ELSE b.loaded) \in Libs
        /\ (IF b.pc = "curl" THEN "part" ELSE b.archive) \in Archives
    BY <1>2, LibsTyped DEF BuildType, Archives
  <2>2. \A o \in Libs, l \in Libs, a \in Archives : [b EXCEPT !.out = o, !.loaded = l, !.archive = a] \in BuildType
    BY <1>2 DEF BuildType
  <2> QED
    BY <2>1, <2>2
<1>6. ASSUME NEW lib \in {Stub, Cut}
      PROVE  /\ Left(lib).pc = b.pc /\ Left(lib).todo = b.todo
             /\ Left(lib).archive \in {b.archive, "part"} /\ Left(lib).out \in {b.out, Stub, Cut}
             /\ Left(lib).runs = b.runs /\ Left(lib).fault = b.fault /\ Left(lib).atStart = b.atStart
             /\ Left(lib).docs = b.docs /\ Left(lib).implib = b.implib /\ Left(lib).outDef = b.outDef
             /\ Left(lib).chosen = b.chosen
  BY <1>2 DEF BuildType
<1> HIDE DEF Left
<1>7. \A c \in BuildType : Panic(c) \in BuildType
  BY DEF Panic, BuildType
<1>8. OneRun(t) /\ build'[t] \in new
  <2>1. new \subseteq BuildType
    BY <1>5, <1>7
  <2> HIDE DEF new
  <2> QED
    BY <2>1, <1>4, OneRunSteps DEF OneRun
<1>9. PICK lib \in {Stub, Cut} : build'[t] = Panic(Left(lib))
  BY <1>8
<1>10. Left(lib) \in BuildType
  BY <1>5
<1> QED
  BY <1>3, <1>4, <1>6, <1>8, <1>9, <1>10 DEF BuildType, Panic

-----------------------------------------------------------------------------
\* What the world around the script does to the runs.

LEMMA EditStep ==
    ASSUME StateInv, NEW f \in Files, NEW version \in Nat, Edit(f, version)
    PROVE  /\ InRepo /\ edits < scenario.edits /\ edits' = edits + 1
           /\ repo' = [repo EXCEPT ![f] = version]
           /\ build' \in [Targets -> BuildType]
           /\ \A u \in Targets :
                 /\ Kept(u) /\ SameLib(u) /\ SamePlace(u) /\ build'[u].todo = build[u].todo
                 /\ build'[u].touched = build[u].touched \cup {"repo"}
           /\ UNCHANGED <<scenario, staged, stages, crate>>
<1>1. \A u \in Targets : build[u] \in BuildType
  BY DEF StateInv
<1>2. ASSUME NEW u \in Targets
      PROVE  [build[u] EXCEPT !.touched = @ \cup {"repo"}] \in BuildType
  <2>1. build[u].touched \cup {"repo"} \in SUBSET Paths
    BY <1>1 DEF BuildType, Paths
  <2> QED
    BY <1>1, <2>1 DEF BuildType
<1>3. \A u \in Targets : build'[u] = [build[u] EXCEPT !.touched = @ \cup {"repo"}]
  BY DEF Edit, Touch
<1>4. \A u \in Targets :
         /\ Kept(u) /\ SameLib(u) /\ SamePlace(u) /\ build'[u].todo = build[u].todo
         /\ build'[u].touched = build[u].touched \cup {"repo"}
  <2> TAKE u \in Targets
  <2>1. build[u] \in BuildType
    BY <1>1
  <2>2. build'[u] = [build[u] EXCEPT !.touched = @ \cup {"repo"}]
    BY <1>3
  <2> QED
    BY <2>1, <2>2 DEF BuildType, Kept, Unmoved, SameLib, SamePlace
<1> QED
  BY <1>2, <1>4 DEF Edit, Touch

\* A prebuild is replaced or removed: what it is now.
LEMMA StagedStep ==
    ASSUME StateInv, NEW r \in Rids, NEW new \in StagedType, NEW path \in {"staged", "stageddef"},
           Staged(r, new, path)
    PROVE  /\ staged' = [staged EXCEPT ![r] = new]
           /\ staged' \in [Rids -> StagedType]
           /\ build' \in [Targets -> BuildType]
           /\ \A u \in Targets :
                 /\ Unmoved(u) /\ SameLib(u) /\ SamePlace(u) /\ build'[u].todo = build[u].todo
                 /\ Running(u) /\ path = "staged" => build'[u].fault = build[u].fault \cup {"copy"}
                 /\ ~(Running(u) /\ path = "staged") => build'[u].fault = build[u].fault
                 /\ TargetRid(u) = r => build'[u].touched = build[u].touched \cup {path}
                 /\ TargetRid(u) # r => build'[u].touched = build[u].touched
           /\ UNCHANGED <<scenario, repo, edits, crate>>
<1> DEFINE Now(u) == [build[u] EXCEPT
                         !.fault = IF Running(u) /\ path = "staged" THEN @ \cup {"copy"} ELSE @,
                         !.touched = IF TargetRid(u) = r THEN @ \cup {path} ELSE @]
<1>1. \A u \in Targets : build[u] \in BuildType
  BY DEF StateInv
<1>2. ASSUME NEW u \in Targets PROVE Now(u) \in BuildType
  <2>1. (IF Running(u) /\ path = "staged" THEN build[u].fault \cup {"copy"} ELSE build[u].fault)
           \in SUBSET FaultKinds
    BY <1>1 DEF BuildType, FaultKinds
  <2>2. (IF TargetRid(u) = r THEN build[u].touched \cup {path} ELSE build[u].touched) \in SUBSET Paths
    BY <1>1 DEF BuildType, Paths
  <2>3. \A F \in SUBSET FaultKinds, P \in SUBSET Paths : [build[u] EXCEPT !.fault = F, !.touched = P] \in BuildType
    BY <1>1 DEF BuildType
  <2> QED
    BY <2>1, <2>2, <2>3
<1>3. \A u \in Targets : build'[u] = Now(u)
  BY DEF Staged
<1>4. \A u \in Targets :
         /\ Unmoved(u) /\ SameLib(u) /\ SamePlace(u) /\ build'[u].todo = build[u].todo
         /\ Running(u) /\ path = "staged" => build'[u].fault = build[u].fault \cup {"copy"}
         /\ ~(Running(u) /\ path = "staged") => build'[u].fault = build[u].fault
         /\ TargetRid(u) = r => build'[u].touched = build[u].touched \cup {path}
         /\ TargetRid(u) # r => build'[u].touched = build[u].touched
  <2> TAKE u \in Targets
  <2>1. build[u] \in BuildType
    BY <1>1
  <2>2. build'[u] = Now(u)
    BY <1>3
  <2> QED
    BY <2>1, <2>2 DEF BuildType, Unmoved, SameLib, SamePlace
<1>5. build' \in [Targets -> BuildType]
  <2>1. build' = [u \in Targets |-> Now(u)]
    BY DEF Staged
  <2> HIDE DEF Now
  <2> QED
    BY <1>2, <2>1
<1> QED
  BY <1>4, <1>5 DEF Staged, StateInv

\* What is staged is a library of this repository or what is left of a build;
\* the def file is staged beside the library that is there.
Fits(r, new, path) ==
    /\ new.lib = staged[r].lib \/ new.lib = NoLib \/ (InRepo /\ new.lib \in Stageable)
    /\ path = "stageddef" => new.lib = staged[r].lib
    /\ stages' \in Nat

Staging(r, new, path) == Staged(r, new, path) /\ Fits(r, new, path)

LEMMA StagingIs ==
    ASSUME StateInv, NEW r \in Rids, (\E lib \in Stageable : StageLib(r, lib)) \/ StageDef(r) \/ Unstage(r)
    PROVE  \E new \in StagedType, path \in {"staged", "stageddef"} : Staging(r, new, path)
<1>1. /\ staged[r] \in StagedType /\ repo \in Sources /\ repo[Def] \in Int
      /\ stages \in Nat /\ stages + 1 \in Nat
  BY SysBuildAssumption DEF StateInv, Sources
<1>2. ASSUME NEW lib \in Stageable, StageLib(r, lib)
      PROVE  \E new \in StagedType, path \in {"staged", "stageddef"} : Staging(r, new, path)
  <2> DEFINE new == [staged[r] EXCEPT !.lib = lib, !.copying = TRUE]
  <2>1. lib \in [from : StagedOrigins, of : Sources]
    <3>1. [f \in Files |-> CrateVersion] \in Sources
      BY SysBuildAssumption DEF Sources
    <3> QED
      BY <1>1, <3>1, LibsTyped DEF Stageable, LibraryOf, StagedOrigins, Stub, Cut
  <2>2. new \in StagedType /\ new.lib = lib
    BY <1>1, <2>1 DEF StagedType
  <2>3. Staged(r, new, "staged") /\ InRepo /\ stages' = stages + 1
    BY <1>2 DEF StageLib
  <2> HIDE DEF new
  <2>4. Fits(r, new, "staged")
    BY <1>1, <2>2, <2>3 DEF Fits
  <2> QED
    BY <2>2, <2>3, <2>4 DEF Staging
<1>3. ASSUME StageDef(r)
      PROVE  \E new \in StagedType, path \in {"staged", "stageddef"} : Staging(r, new, path)
  <2> DEFINE new == [staged[r] EXCEPT !.def = repo[Def], !.copying = FALSE]
  <2>1. new \in StagedType /\ new.lib = staged[r].lib
    BY <1>1 DEF StagedType
  <2>2. Staged(r, new, "stageddef") /\ stages' = stages
    BY <1>3 DEF StageDef
  <2> HIDE DEF new
  <2>3. Fits(r, new, "stageddef")
    BY <1>1, <2>1, <2>2 DEF Fits
  <2> QED
    BY <2>1, <2>2, <2>3 DEF Staging
<1>4. ASSUME Unstage(r)
      PROVE  \E new \in StagedType, path \in {"staged", "stageddef"} : Staging(r, new, path)
  <2> DEFINE new == [lib |-> NoLib, def |-> Absent, copying |-> FALSE]
  <2>1. new \in StagedType /\ new.lib = NoLib
    BY LibsTyped DEF StagedType, NoLib, StagedOrigins, Absent
  <2>2. Staged(r, new, "staged") /\ stages' = stages + 1
    BY <1>4 DEF Unstage
  <2> HIDE DEF new
  <2>3. Fits(r, new, "staged")
    BY <1>1, <2>1, <2>2 DEF Fits
  <2> QED
    BY <2>1, <2>2, <2>3 DEF Staging
<1> QED
  BY <1>2, <1>3, <1>4

\* No library is replaced when only the def file is.
LEMMA SameStagedLib ==
    ASSUME StateInv, NEW r \in Rids, NEW new \in StagedType, Staging(r, new, "stageddef")
    PROVE  \A q \in Rids : staged'[q].lib = staged[q].lib
<1>1. staged' = [staged EXCEPT ![r] = new] /\ new.lib = staged[r].lib
  BY StagedStep DEF Staging, Fits
<1> QED
  BY <1>1 DEF StateInv

\* Every step is one of these.
LEMMA StepKinds ==
    ASSUME StateInv, SysBuildNext
    PROVE  \/ \E f \in Files : EditSource(f)
           \/ \E f \in Files : DeleteSource(f)
           \/ \E r \in Rids, new \in StagedType, path \in {"staged", "stageddef"} : Staging(r, new, path)
           \/ \E t \in Targets, faults \in SUBSET scenario.faults, docsRs \in BOOLEAN : Start(t, faults, docsRs)
           \/ \E t \in Targets, f \in Files : t \in scenario.targets /\ CopyBegins(t, f)
           \/ \E t \in Targets, f \in Files : CopyWrites(t, f)
           \/ \E t \in Targets : CopyEnds(t)
           \/ \E t \in Targets : Choose(t)
           \/ \E t \in Targets : GoFails(t)
           \/ \E t \in Targets : GoBuilds(t)
           \/ \E t \in Targets : Curl(t)
           \/ \E t \in Targets : Tar(t)
           \/ \E t \in Targets : Install(t)
           \/ \E t \in Targets : InstallFails(t)
           \/ \E t \in Targets : MakeImportLib(t)
           \/ \E t \in Targets : CopyToTarget(t)
           \/ \E t \in Targets : Kill(t)
<1>1. scenario.targets \subseteq Targets
  BY SysBuildAssumption DEF StateInv, ScenarioType
<1>2. CASE Environment
  BY <1>1, <1>2, StagingIs DEF Environment
<1>3. CASE \E t \in scenario.targets : CargoBuild(t)
  BY <1>1, <1>3 DEF CargoBuild
<1>4. CASE \E t \in scenario.targets : Script(t)
  BY <1>1, <1>4 DEF Script
<1> QED
  BY <1>2, <1>3, <1>4 DEF SysBuildNext

LEMMA StateStep ==
    ASSUME StateInv, RunInv, [SysBuildNext]_sysBuildVars
    PROVE  StateInv'
<1> USE DEF StateInv
<1>1. ASSUME NEW f \in Files, EditSource(f) PROVE StateInv'
  <2>1. CrateVersion + edits + 1 \in Nat /\ edits + 1 \in Nat
    BY SysBuildAssumption
  <2> QED
    BY <1>1, <2>1, EditStep DEF EditSource, Sources
<1>2. ASSUME NEW f \in Files, DeleteSource(f) PROVE StateInv'
  <2>1. Absent \in Nat /\ edits + 1 \in Nat
    BY DEF Absent
  <2> QED
    BY <1>2, <2>1, EditStep DEF DeleteSource, Sources
<1>3. ASSUME NEW r \in Rids, NEW new \in StagedType, NEW path \in {"staged", "stageddef"},
             Staging(r, new, path)
      PROVE  StateInv'
  BY <1>3, StagedStep DEF Staging, Fits
<1>4. ASSUME NEW t \in Targets, NEW faults \in SUBSET scenario.faults, NEW docsRs \in BOOLEAN,
             Start(t, faults, docsRs)
      PROVE  StateInv'
  BY <1>4, StartStep DEF OneRun, Begun
<1>5. ASSUME NEW t \in Targets, NEW f \in Files, CopyBegins(t, f) \/ CopyWrites(t, f) PROVE StateInv'
  BY <1>5, CopyBeginsStep, CopyWritesStep DEF Sources, CutOff
<1>6. ASSUME NEW t \in Targets, OneRun(t) PROVE StateInv'
  BY <1>6 DEF OneRun
<1>7. ASSUME NEW t \in Targets, Install(t) \/ MakeImportLib(t) PROVE StateInv'
  <2>1. TargetRid(t) \in Rids
    BY <1>7 DEF Install, MakeImportLib, Step, RunInv, RunFine, Running
  <2> QED
    BY <1>6, <1>7, <2>1, InstallStep, MakeImportLibStep
<1>8. CASE UNCHANGED sysBuildVars
  BY <1>8 DEF sysBuildVars, envVars
<1>9. \A t \in Targets :
         CopyEnds(t) \/ Choose(t) \/ GoFails(t) \/ GoBuilds(t) \/ Curl(t) \/ Tar(t) \/ InstallFails(t)
            \/ CopyToTarget(t) \/ Kill(t) => OneRun(t)
  <2> TAKE t \in Targets
  <2>1. /\ CopyEnds(t) => OneRun(t)
        /\ Choose(t) => OneRun(t)
        /\ GoFails(t) => OneRun(t)
    BY CopyEndsStep, ChooseStep, GoFailsStep
  <2>2. /\ GoBuilds(t) => OneRun(t)
        /\ Curl(t) => OneRun(t)
        /\ Tar(t) => OneRun(t)
    BY GoBuildsStep, CurlStep, TarStep
  <2>3. /\ InstallFails(t) => OneRun(t)
        /\ CopyToTarget(t) => OneRun(t)
        /\ Kill(t) => OneRun(t)
    BY InstallFailsStep, CopyToTargetStep, KillStep
  <2> QED
    BY <2>1, <2>2, <2>3
<1> HIDE DEF StateInv
<1> QED
  BY <1>1, <1>2, <1>3, <1>4, <1>5, <1>6, <1>7, <1>8, <1>9, StepKinds

\* The script installs or links for a supported target only.
LEMMA RidKnown ==
    ASSUME RunInv, NEW t \in Targets, Install(t) \/ MakeImportLib(t) \/ Choose(t) \/ Running(t)
    PROVE  TargetRid(t) \in Rids
  BY DEF Install, MakeImportLib, Choose, Step, RunInv, RunFine, Running

LEMMA RunStep ==
    ASSUME StateInv, RunInv, [SysBuildNext]_sysBuildVars
    PROVE  RunInv'
<1>1. ASSUME NEW f \in Files, EditSource(f) \/ DeleteSource(f) PROVE RunInv'
  <2>1. PICK v \in Nat : Edit(f, v)
    BY <1>1, SysBuildAssumption DEF EditSource, DeleteSource, Absent, StateInv
  <2> QED
    BY <2>1, EditStep DEF RunInv, RunFine, Running, Kept, Unmoved, SamePlace
<1>2. ASSUME NEW r \in Rids, NEW new \in StagedType, NEW path \in {"staged", "stageddef"},
             Staging(r, new, path)
      PROVE  RunInv'
  <2>1. \A u \in Targets : SamePlace(u) /\ build'[u].docs = build[u].docs
    BY <1>2, StagedStep DEF Staging, Unmoved
  <2> QED
    BY <2>1 DEF RunInv, RunFine, Running, SamePlace
<1>3. ASSUME NEW t \in Targets, OneRun(t), RunFine(t)' PROVE RunInv'
  BY <1>3 DEF OneRun, RunInv, RunFine, Running
<1>4. ASSUME NEW t \in Targets, NEW faults \in SUBSET scenario.faults, NEW docsRs \in BOOLEAN,
             Start(t, faults, docsRs)
      PROVE  RunInv'
  <2>0. Begun(t, faults, docsRs)
    BY <1>4, StartStep
  <2>1. RunFine(t)' /\ OneRun(t)
    BY <2>0 DEF RunFine, Running, Early, Late, Begun
  <2> QED
    BY <1>3, <2>1
<1>5. ASSUME NEW t \in Targets, NEW f \in Files, CopyBegins(t, f) \/ CopyWrites(t, f) PROVE RunInv'
  <2>1. \A u \in Targets : SamePlace(u) /\ build'[u].docs = build[u].docs
    BY <1>5, CopyBeginsStep, CopyWritesStep DEF Kept, Unmoved
  <2> QED
    BY <2>1 DEF RunInv, RunFine, Running, SamePlace
<1> USE DEF RunFine, Running, Early, Late, Kept, Unmoved
<1>6. ASSUME NEW t \in Targets, CopyEnds(t) PROVE RunInv'
  <2>1. RunFine(t)'
    BY <1>6, CopyEndsStep DEF RunInv
  <2> QED
    BY <1>3, <1>6, <2>1, CopyEndsStep
<1>7. ASSUME NEW t \in Targets, Choose(t) PROVE RunInv'
  <2>1. RunFine(t)'
    <3>1. CASE BigEnough(staged[TargetRid(t)].lib)
      BY <1>7, <3>1, ChooseStep DEF RunInv
    <3>2. CASE ~BigEnough(staged[TargetRid(t)].lib)
      BY <1>7, <3>2, ChooseStep DEF RunInv
    <3> QED
      BY <3>1, <3>2
  <2> QED
    BY <1>3, <1>7, <2>1, ChooseStep
<1>8. ASSUME NEW t \in Targets, GoFails(t) PROVE RunInv'
  <2>1. RunFine(t)'
    BY <1>8, GoFailsStep DEF RunInv
  <2> QED
    BY <1>3, <1>8, <2>1, GoFailsStep
<1>9. ASSUME NEW t \in Targets, GoBuilds(t) PROVE RunInv'
  <2>1. RunFine(t)'
    BY <1>9, GoBuildsStep DEF RunInv
  <2> QED
    BY <1>3, <1>9, <2>1, GoBuildsStep
<1>10. ASSUME NEW t \in Targets, Curl(t) PROVE RunInv'
  <2>1. RunFine(t)'
    BY <1>10, CurlStep DEF RunInv
  <2> QED
    BY <1>3, <1>10, <2>1, CurlStep
<1>11. ASSUME NEW t \in Targets, Tar(t) PROVE RunInv'
  <2>1. RunFine(t)'
    BY <1>11, TarStep DEF RunInv
  <2> QED
    BY <1>3, <1>11, <2>1, TarStep
<1>12. ASSUME NEW t \in Targets, Install(t) PROVE RunInv'
  <2>1. RunFine(t)'
    BY <1>12, InstallStep, RidKnown DEF RunInv
  <2> QED
    BY <1>3, <1>12, <2>1, InstallStep, RidKnown
<1>13. ASSUME NEW t \in Targets, InstallFails(t) PROVE RunInv'
  <2>1. RunFine(t)'
    BY <1>13, InstallFailsStep DEF RunInv
  <2> QED
    BY <1>3, <1>13, <2>1, InstallFailsStep
<1>14. ASSUME NEW t \in Targets, MakeImportLib(t) PROVE RunInv'
  <2>1. RunFine(t)'
    BY <1>14, MakeImportLibStep, RidKnown DEF RunInv
  <2> QED
    BY <1>3, <1>14, <2>1, MakeImportLibStep, RidKnown
<1>15. ASSUME NEW t \in Targets, CopyToTarget(t) PROVE RunInv'
  <2>1. RunFine(t)'
    BY <1>15, CopyToTargetStep DEF RunInv
  <2> QED
    BY <1>3, <1>15, <2>1, CopyToTargetStep
<1>16. ASSUME NEW t \in Targets, Kill(t) PROVE RunInv'
  <2>1. RunFine(t)'
    BY <1>16, KillStep DEF RunInv
  <2> QED
    BY <1>3, <1>16, <2>1, KillStep
<1>17. CASE UNCHANGED sysBuildVars
  BY <1>17 DEF sysBuildVars, RunInv
<1> HIDE DEF RunFine, Running, Early, Late, Kept, Unmoved
<1> QED
  BY <1>1, <1>2, <1>4, <1>5, <1>6, <1>7, <1>8, <1>9, <1>10, <1>11, <1>12, <1>13, <1>14, <1>15, <1>16, <1>17,
     StepKinds

-----------------------------------------------------------------------------
\* Which library a run has, from the moment it has chosen.

\* Past the check of the size.
Past(t) == build[t].pc \in {"implib", "target"} \/ Linked(t)

\* A run has what it has chosen as soon as it has chosen it, or, for a prebuild,
\* once it has copied it.
LinkFine(t) ==
    /\ "layout" \notin build[t].fault /\ build[t].archive # "layout"
    /\ build[t].pc = "install" \/ Past(t) =>
          /\ build[t].chosen = "source" => build[t].out.from = "source"
          /\ build[t].chosen = "download" => build[t].out = Release(CrateVersion)
    /\ Past(t) /\ build[t].chosen = "prebuild" => build[t].out.from \in {"staged", "cut"}
    /\ Linked(t) /\ "ignored" \notin build[t].fault => build[t].loaded = build[t].out

LinkInv == \A t \in Targets : LinkFine(t)

LEMMA LinkStep ==
    ASSUME \A s \in Scenarios : "layout" \notin s.faults,
           StateInv, RunInv, LinkInv, [SysBuildNext]_sysBuildVars
    PROVE  LinkInv'
<1> USE DEF Linked, Running, Past, Kept, Unmoved, SameLib
<1>1. ASSUME NEW f \in Files, EditSource(f) \/ DeleteSource(f) PROVE LinkInv'
  <2>1. PICK v \in Nat : Edit(f, v)
    BY <1>1, SysBuildAssumption DEF EditSource, DeleteSource, Absent, StateInv
  <2>2. \A u \in Targets : Kept(u) /\ SameLib(u) /\ SamePlace(u)
    BY <2>1, EditStep
  <2> QED
    BY <2>2 DEF LinkInv, LinkFine, SamePlace
<1>2. ASSUME NEW r \in Rids, NEW new \in StagedType, NEW path \in {"staged", "stageddef"},
             Staging(r, new, path)
      PROVE  LinkInv'
  <2>1. \A u \in Targets :
           /\ Unmoved(u) /\ SameLib(u) /\ SamePlace(u)
           /\ build'[u].fault \in {build[u].fault, build[u].fault \cup {"copy"}}
           /\ ~Running(u) => build'[u].fault = build[u].fault
    BY <1>2, StagedStep DEF Staging
  <2>2. ASSUME NEW u \in Targets PROVE LinkFine(u)'
    <3>1. /\ Unmoved(u) /\ SameLib(u) /\ SamePlace(u)
          /\ "layout" \in build'[u].fault => "layout" \in build[u].fault
          /\ ~Running(u) => build'[u].fault = build[u].fault
      BY <2>1
    <3> QED
      BY <3>1 DEF LinkInv, LinkFine, SamePlace
  <2> QED
    BY <2>2 DEF LinkInv
<1>3. ASSUME NEW t \in Targets, OneRun(t), LinkFine(t)' PROVE LinkInv'
  BY <1>3 DEF OneRun, LinkInv, LinkFine
<1>4. ASSUME NEW t \in Targets, NEW faults \in SUBSET scenario.faults, NEW docsRs \in BOOLEAN,
             Start(t, faults, docsRs)
      PROVE  LinkInv'
  <2>1. "layout" \notin faults
    BY DEF StateInv
  <2>0. Begun(t, faults, docsRs)
    BY <1>4, StartStep
  <2>2. LinkFine(t)' /\ OneRun(t)
    BY <2>0, <2>1 DEF LinkInv, LinkFine, Begun
  <2> QED
    BY <1>3, <2>2
<1>5. ASSUME NEW t \in Targets, NEW f \in Files, CopyBegins(t, f) \/ CopyWrites(t, f) PROVE LinkInv'
  <2>1. \A u \in Targets : Kept(u) /\ SameLib(u) /\ SamePlace(u)
    BY <1>5, CopyBeginsStep, CopyWritesStep
  <2> QED
    BY <2>1 DEF LinkInv, LinkFine, SamePlace
<1>6. ASSUME NEW t \in Targets, CopyEnds(t) PROVE LinkInv'
  <2>1. LinkFine(t)'
    <3>1. Unmoved(t) /\ SameLib(t) /\ build'[t].pc = "choose" /\ "layout" \notin build'[t].fault
      BY <1>6, CopyEndsStep DEF LinkInv, LinkFine
    <3> QED
      BY <3>1 DEF LinkInv, LinkFine
  <2> QED
    BY <1>3, <1>6, <2>1, CopyEndsStep
<1>7. ASSUME NEW t \in Targets, Choose(t) PROVE LinkInv'
  <2>1. LinkFine(t)'
    BY <1>7, ChooseStep DEF LinkInv, LinkFine
  <2> QED
    BY <1>3, <1>7, <2>1, ChooseStep
<1>8. ASSUME NEW t \in Targets, GoFails(t) PROVE LinkInv'
  <2>1. LinkFine(t)'
    BY <1>8, GoFailsStep DEF LinkInv, LinkFine
  <2> QED
    BY <1>3, <1>8, <2>1, GoFailsStep
<1>9. ASSUME NEW t \in Targets, GoBuilds(t) PROVE LinkInv'
  <2>1. LinkFine(t)'
    BY <1>9, GoBuildsStep DEF LinkInv, LinkFine
  <2> QED
    BY <1>3, <1>9, <2>1, GoBuildsStep
<1>10. ASSUME NEW t \in Targets, Curl(t) PROVE LinkInv'
  <2>1. LinkFine(t)'
    BY <1>10, CurlStep DEF LinkInv, LinkFine
  <2> QED
    BY <1>3, <1>10, <2>1, CurlStep
<1>11. ASSUME NEW t \in Targets, Tar(t) PROVE LinkInv'
  <2>1. LinkFine(t)'
    BY <1>11, TarStep DEF LinkInv, LinkFine
  <2> QED
    BY <1>3, <1>11, <2>1, TarStep
<1>12. ASSUME NEW t \in Targets, Install(t) PROVE LinkInv'
  <2>1. staged[TargetRid(t)].lib.from \in StagedOrigins
    <3>1. staged[TargetRid(t)] \in StagedType
      BY <1>12, RidKnown DEF StateInv
    <3> QED
      BY <3>1 DEF StagedType
  <2>2. LinkFine(t)'
    BY <1>12, <2>1, InstallStep, RidKnown DEF LinkInv, LinkFine, BigEnough, StagedOrigins
  <2> QED
    BY <1>3, <1>12, <2>2, InstallStep, RidKnown
<1>13. ASSUME NEW t \in Targets, InstallFails(t) PROVE LinkInv'
  <2>1. LinkFine(t)'
    BY <1>13, InstallFailsStep DEF LinkInv, LinkFine
  <2> QED
    BY <1>3, <1>13, <2>1, InstallFailsStep
<1>14. ASSUME NEW t \in Targets, MakeImportLib(t) PROVE LinkInv'
  <2>1. LinkFine(t)'
    BY <1>14, MakeImportLibStep, RidKnown DEF LinkInv, LinkFine
  <2> QED
    BY <1>3, <1>14, <2>1, MakeImportLibStep, RidKnown
<1>15. ASSUME NEW t \in Targets, CopyToTarget(t) PROVE LinkInv'
  <2>1. LinkFine(t)'
    BY <1>15, CopyToTargetStep DEF LinkInv, LinkFine
  <2> QED
    BY <1>3, <1>15, <2>1, CopyToTargetStep
<1>16. ASSUME NEW t \in Targets, Kill(t) PROVE LinkInv'
  <2>1. LinkFine(t)'
    BY <1>16, KillStep DEF LinkInv, LinkFine
  <2> QED
    BY <1>3, <1>16, <2>1, KillStep
<1>17. CASE UNCHANGED sysBuildVars
  BY <1>17 DEF sysBuildVars, LinkInv, LinkFine
<1> HIDE DEF Linked, Running, Past, Kept, Unmoved, SameLib
<1> QED
  BY <1>1, <1>2, <1>4, <1>5, <1>6, <1>7, <1>8, <1>9, <1>10, <1>11, <1>12, <1>13, <1>14, <1>15, <1>16, <1>17,
     StepKinds

\* Whatever files runs that failed or were killed have left in OUT_DIR, a build
\* that succeeds links the library its own run has chosen, and loads it unless
\* the copy failed.  It holds as long as the tarballs have the layout the script
\* expects.
THEOREM ChosenIsLinked ==
    ASSUME \A s \in Scenarios : "layout" \notin s.faults
    PROVE  SysBuildSpec => []LinkedIsChosen
<1>1. SysBuildInit => LinkInv
  BY DEF SysBuildInit, LinkInv, LinkFine, NoBuild, Linked, Running, Past
<1>2. LinkInv /\ StateInv => LinkedIsChosen
  <2> SUFFICES ASSUME LinkInv, StateInv, NEW t \in Targets, Linked(t)
               PROVE  /\ CASE build[t].chosen = "prebuild" -> build[t].out.from \in {"staged", "cut"}
                           [] build[t].chosen = "source" -> build[t].out.from = "source"
                           [] build[t].chosen = "download" -> build[t].out = Release(CrateVersion)
                      /\ "ignored" \notin build[t].fault => build[t].loaded = build[t].out
    BY DEF LinkedIsChosen
  <2>1. build[t].chosen \in {"prebuild", "source", "download"}
    BY DEF StateInv, BuildType, Linked
  <2> QED
    BY <2>1 DEF LinkInv, LinkFine, Past
<1>3. StateInv /\ RunInv /\ LinkInv /\ [SysBuildNext]_sysBuildVars => (StateInv /\ RunInv /\ LinkInv)'
  BY StateStep, RunStep, LinkStep
<1> QED
  BY <1>1, <1>2, <1>3, InitFine, PTL DEF SysBuildSpec

-----------------------------------------------------------------------------
\* What cargo is asked to watch.

\* A run that copies a prebuild has it watched; one that builds the library has
\* that file watched, which it has written itself, so that cargo always runs the
\* script again; and every run has the repository watched.
WatchFine(t) ==
    /\ build[t].pc \in Late /\ build[t].chosen = "source" => "out" \in build[t].touched
    /\ Past(t) /\ build[t].chosen = "source" => "out" \in build[t].watched /\ "out" \in build[t].touched
    /\ Past(t) /\ build[t].chosen = "prebuild" =>
          /\ "staged" \in build[t].watched
          /\ "staged" \in build[t].touched \/ build[t].out = staged[TargetRid(t)].lib
    /\ Running(t) \/ Linked(t) =>
          /\ InRepo => "repo" \in build[t].watched
          /\ repo = build[t].atStart \/ ("repo" \in build[t].watched /\ "repo" \in build[t].touched)

WatchInv == \A t \in Targets : WatchFine(t)

LEMMA WatchStep ==
    ASSUME StateInv, RunInv, WatchInv, [SysBuildNext]_sysBuildVars
    PROVE  WatchInv'
<1> USE DEF Linked, Running, Past, Kept, Unmoved, SameLib, Late, InRepo
<1>1. ASSUME NEW f \in Files, EditSource(f) \/ DeleteSource(f) PROVE WatchInv'
  <2>1. PICK v \in Nat : Edit(f, v)
    BY <1>1, SysBuildAssumption DEF EditSource, DeleteSource, Absent, StateInv
  <2>2. ASSUME NEW u \in Targets PROVE WatchFine(u)'
    <3>1. /\ Kept(u) /\ SameLib(u) /\ SamePlace(u) /\ staged' = staged /\ InRepo
          /\ build'[u].touched = build[u].touched \cup {"repo"}
      BY <2>1, EditStep
    <3> QED
      BY <3>1 DEF WatchInv, WatchFine, SamePlace
  <2> QED
    BY <2>2 DEF WatchInv
<1>2. ASSUME NEW r \in Rids, NEW new \in StagedType, NEW path \in {"staged", "stageddef"},
             Staging(r, new, path)
      PROVE  WatchInv'
  <2>1. ASSUME NEW u \in Targets PROVE WatchFine(u)'
    <3>1. /\ Unmoved(u) /\ SameLib(u) /\ SamePlace(u) /\ repo' = repo
          /\ TargetRid(u) = r => build'[u].touched = build[u].touched \cup {path}
          /\ TargetRid(u) # r => build'[u].touched = build[u].touched
          /\ staged' = [staged EXCEPT ![r] = new]
      BY <1>2, StagedStep DEF Staging
    <3>2. CASE TargetRid(u) = r
      <4>1. path = "stageddef" => staged'[r].lib = staged[r].lib
        BY <1>2, SameStagedLib
      <4> QED
        BY <3>1, <3>2, <4>1 DEF WatchInv, WatchFine, SamePlace
    <3>3. CASE TargetRid(u) # r
      <4>1. staged'[TargetRid(u)] = staged[TargetRid(u)]
        BY <3>1, <3>3 DEF StateInv
      <4> QED
        BY <3>1, <3>3, <4>1 DEF WatchInv, WatchFine, SamePlace
    <3> QED
      BY <3>2, <3>3
  <2> QED
    BY <2>1 DEF WatchInv
<1>3. ASSUME NEW t \in Targets, OneRun(t), WatchFine(t)' PROVE WatchInv'
  BY <1>3 DEF OneRun, WatchInv, WatchFine
<1>4. ASSUME NEW t \in Targets, NEW faults \in SUBSET scenario.faults, NEW docsRs \in BOOLEAN,
             Start(t, faults, docsRs)
      PROVE  WatchInv'
  <2>0. Begun(t, faults, docsRs)
    BY <1>4, StartStep
  <2>1. OneRun(t)
    BY <2>0 DEF Begun
  <2>2. WatchFine(t)'
    BY <2>0, <2>1 DEF WatchInv, WatchFine, OneRun, Begun
  <2> QED
    BY <1>3, <2>1, <2>2
<1>5. ASSUME NEW t \in Targets, NEW f \in Files, CopyBegins(t, f) \/ CopyWrites(t, f) PROVE WatchInv'
  <2>1. ASSUME NEW u \in Targets PROVE WatchFine(u)'
    <3>1. /\ Kept(u) /\ SameLib(u) /\ SamePlace(u) /\ staged' = staged /\ repo' = repo
          /\ build'[u].touched = build[u].touched \cup {"crate"}
      BY <1>5, CopyBeginsStep, CopyWritesStep
    <3> QED
      BY <3>1 DEF WatchInv, WatchFine, SamePlace
  <2> QED
    BY <2>1 DEF WatchInv
<1>6. ASSUME NEW t \in Targets, CopyEnds(t) PROVE WatchInv'
  <2>1. WatchFine(t)'
    BY <1>6, CopyEndsStep DEF WatchInv, WatchFine, OneRun
  <2> QED
    BY <1>3, <1>6, <2>1, CopyEndsStep
<1>7. ASSUME NEW t \in Targets, Choose(t) PROVE WatchInv'
  <2>1. WatchFine(t)'
    BY <1>7, ChooseStep DEF WatchInv, WatchFine, OneRun
  <2> QED
    BY <1>3, <1>7, <2>1, ChooseStep
<1>8. ASSUME NEW t \in Targets, GoFails(t) PROVE WatchInv'
  <2>1. WatchFine(t)'
    BY <1>8, GoFailsStep DEF WatchInv, WatchFine, OneRun
  <2> QED
    BY <1>3, <1>8, <2>1, GoFailsStep
<1>9. ASSUME NEW t \in Targets, GoBuilds(t) PROVE WatchInv'
  <2>1. WatchFine(t)'
    BY <1>9, GoBuildsStep DEF WatchInv, WatchFine, OneRun
  <2> QED
    BY <1>3, <1>9, <2>1, GoBuildsStep
<1>10. ASSUME NEW t \in Targets, Curl(t) PROVE WatchInv'
  <2>1. WatchFine(t)'
    BY <1>10, CurlStep DEF WatchInv, WatchFine, OneRun
  <2> QED
    BY <1>3, <1>10, <2>1, CurlStep
<1>11. ASSUME NEW t \in Targets, Tar(t) PROVE WatchInv'
  <2>1. WatchFine(t)'
    BY <1>11, TarStep DEF WatchInv, WatchFine, OneRun
  <2> QED
    BY <1>3, <1>11, <2>1, TarStep
<1>12. ASSUME NEW t \in Targets, Install(t) PROVE WatchInv'
  <2>1. WatchFine(t)'
    BY <1>12, InstallStep, RidKnown DEF WatchInv, WatchFine, OneRun
  <2> QED
    BY <1>3, <1>12, <2>1, InstallStep, RidKnown
<1>13. ASSUME NEW t \in Targets, InstallFails(t) PROVE WatchInv'
  <2>1. WatchFine(t)'
    BY <1>13, InstallFailsStep DEF WatchInv, WatchFine, OneRun
  <2> QED
    BY <1>3, <1>13, <2>1, InstallFailsStep
<1>14. ASSUME NEW t \in Targets, MakeImportLib(t) PROVE WatchInv'
  <2>1. WatchFine(t)'
    BY <1>14, MakeImportLibStep, RidKnown DEF WatchInv, WatchFine, OneRun
  <2> QED
    BY <1>3, <1>14, <2>1, MakeImportLibStep, RidKnown
<1>15. ASSUME NEW t \in Targets, CopyToTarget(t) PROVE WatchInv'
  <2>1. WatchFine(t)'
    BY <1>15, CopyToTargetStep DEF WatchInv, WatchFine, OneRun
  <2> QED
    BY <1>3, <1>15, <2>1, CopyToTargetStep
<1>16. ASSUME NEW t \in Targets, Kill(t) PROVE WatchInv'
  <2>1. WatchFine(t)'
    BY <1>16, KillStep DEF WatchInv, WatchFine, OneRun
  <2> QED
    BY <1>3, <1>16, <2>1, KillStep
<1>17. CASE UNCHANGED sysBuildVars
  BY <1>17 DEF sysBuildVars, envVars, WatchInv, WatchFine
<1> HIDE DEF Linked, Running, Past, Kept, Unmoved, SameLib, Late, InRepo
<1> QED
  BY <1>1, <1>2, <1>4, <1>5, <1>6, <1>7, <1>8, <1>9, <1>10, <1>11, <1>12, <1>13, <1>14, <1>15, <1>16, <1>17,
     StepKinds

\* When cargo has no reason to run the script again, the repository has not
\* changed, and OUT_DIR holds the prebuild that is staged now, unless what it
\* holds was downloaded: none that was replaced or removed is missed.
THEOREM PrebuildsAreSeen == SysBuildSpec => []UpToDate
<1>1. SysBuildInit => WatchInv
  BY DEF SysBuildInit, WatchInv, WatchFine, NoBuild, Linked, Running, Past, Late
<1>2. StateInv /\ WatchInv /\ RunInv => UpToDate
  <2> SUFFICES ASSUME StateInv, WatchInv, RunInv, NEW t \in Targets, ~Running(t), ~Stale(t, FALSE)
               PROVE  /\ repo = build[t].atStart
                      /\ \/ build[t].chosen = "prebuild" /\ build[t].out = staged[TargetRid(t)].lib
                         \/ build[t].chosen = "download"
    BY DEF UpToDate
  <2>1. Linked(t) /\ WatchFine(t)
    BY DEF RunInv, RunFine, Stale, Linked, WatchInv
  <2>2. build[t].chosen \in {"prebuild", "source", "download"}
    BY <2>1 DEF StateInv, BuildType, Linked
  <2> QED
    BY <2>1, <2>2 DEF WatchFine, Stale, Past
<1>3. StateInv /\ RunInv /\ WatchInv /\ [SysBuildNext]_sysBuildVars => (StateInv /\ RunInv /\ WatchInv)'
  BY StateStep, RunStep, WatchStep
<1> QED
  BY <1>1, <1>2, <1>3, InitFine, PTL DEF SysBuildSpec

-----------------------------------------------------------------------------
\* Why a run fails.

\* The library could not be built of the source.
Unlucky(t) ==
    \/ build[t].fault \cap {"go", "gotiny"} # {}
    \/ "copysrc" \in build[t].fault /\ build[t].atStart[GoMod] # Absent

Explained(t) ==
    \/ TargetRid(t) \notin Rids
    \/ "kill" \in build[t].fault
    \/ build[t].chosen = "prebuild" /\ "copy" \in build[t].fault
    \/ "libexe" \in build[t].fault /\ Windows(t)
    \/ /\ build[t].chosen = "none"
       /\ build[t].fault \cap {"curl", "html", "tar", "tiny", "layout"} # {}
       /\ Unlucky(t)

\* A release is downloaded only after a build failed, or when the source could
\* not be copied; what is installed is long enough unless a prebuild was
\* replaced after it was chosen; the archive is what was downloaded in this run.
FailFine(t) ==
    /\ Running(t) => (build[t].atStart[GoMod] # Absent <=> InRepo)
    /\ build[t].pc = "copysrc" => crate[GoMod] # Absent \/ GoMod \in build[t].todo
    /\ build[t].pc = "choose" => crate[GoMod] # Absent \/ Unlucky(t)
    /\ build[t].pc \in {"curl", "tar"} => Unlucky(t)
    /\ build[t].pc = "tar" =>
          /\ build[t].archive = "corrupt" => "tar" \in build[t].fault
          /\ build[t].archive = "tiny" => "tiny" \in build[t].fault
          /\ build[t].archive = "layout" => "layout" \in build[t].fault
    /\ build[t].pc = "install" =>
          \/ build[t].chosen # "prebuild" /\ BigEnough(build[t].out)
          \/ build[t].chosen = "prebuild" /\ BigEnough(staged[TargetRid(t)].lib)
          \/ build[t].chosen = "prebuild" /\ "copy" \in build[t].fault
    /\ ~Running(t) /\ build[t].result = "failed" => Explained(t)

FailInv ==
    /\ InRepo \/ crate[GoMod] # Absent
    /\ \A t \in Targets : FailFine(t)

LEMMA FailStep ==
    ASSUME StateInv, RunInv, FailInv, [SysBuildNext]_sysBuildVars
    PROVE  FailInv'
<1> USE DEF Running, Kept, Unmoved, SameLib, Unlucky, InRepo
<1>1. ASSUME NEW f \in Files, EditSource(f) \/ DeleteSource(f) PROVE FailInv'
  <2>1. PICK v \in Nat : Edit(f, v) /\ (f = GoMod => v # Absent)
    BY <1>1, SysBuildAssumption DEF EditSource, DeleteSource, Absent, StateInv, NoVersion
  <2>2. InRepo /\ InRepo'
    BY <2>1, EditStep, SysBuildAssumption DEF StateInv, Sources
  <2>3. UNCHANGED <<crate, staged>>
    BY <2>1, EditStep
  <2>4. ASSUME NEW u \in Targets PROVE FailFine(u)'
    <3>1. Kept(u) /\ SameLib(u) /\ SamePlace(u) /\ build'[u].todo = build[u].todo
      BY <2>1, EditStep
    <3> QED
      BY <2>2, <2>3, <3>1 DEF FailInv, FailFine, Explained, SamePlace
  <2> QED
    BY <2>2, <2>4 DEF FailInv
<1>2. ASSUME NEW r \in Rids, NEW new \in StagedType, NEW path \in {"staged", "stageddef"},
             Staging(r, new, path)
      PROVE  FailInv'
  <2>1. UNCHANGED <<repo, crate>>
    BY <1>2, StagedStep DEF Staging
  <2>2. ASSUME NEW u \in Targets PROVE FailFine(u)'
    <3>1. /\ Unmoved(u) /\ SameLib(u) /\ SamePlace(u) /\ build'[u].todo = build[u].todo
          /\ Running(u) /\ path = "staged" => build'[u].fault = build[u].fault \cup {"copy"}
          /\ ~(Running(u) /\ path = "staged") => build'[u].fault = build[u].fault
      BY <1>2, StagedStep DEF Staging
    <3>2. CASE Running(u)
      <4>1. path = "stageddef" => staged'[TargetRid(u)].lib = staged[TargetRid(u)].lib
        BY <1>2, <3>2, SameStagedLib, RidKnown
      <4>2. /\ build[u].fault \subseteq build'[u].fault
            /\ path = "staged" => "copy" \in build'[u].fault
        BY <3>1, <3>2
      <4> QED
        BY <2>1, <3>1, <3>2, <4>1, <4>2 DEF FailInv, FailFine, SamePlace
    <3>3. CASE ~Running(u)
      BY <2>1, <3>1, <3>3 DEF FailInv, FailFine, Explained, SamePlace
    <3> QED
      BY <3>2, <3>3
  <2> QED
    BY <2>1, <2>2 DEF FailInv
<1>3. ASSUME NEW t \in Targets, OneRun(t), FailFine(t)' PROVE FailInv'
  <2>1. ASSUME NEW u \in Targets, u # t PROVE FailFine(u)'
    BY <1>3, <2>1 DEF OneRun, FailInv, FailFine, Explained
  <2> QED
    BY <1>3, <2>1 DEF OneRun, FailInv
<1>4. ASSUME NEW t \in Targets, NEW faults \in SUBSET scenario.faults, NEW docsRs \in BOOLEAN,
             Start(t, faults, docsRs)
      PROVE  FailInv'
  <2>0. Begun(t, faults, docsRs)
    BY <1>4, StartStep
  <2>2. OneRun(t)
    BY <2>0 DEF Begun
  <2>1. FailFine(t)'
    <3>1. /\ build'[t].atStart = repo /\ repo' = repo /\ crate' = crate
          /\ \/ build'[t].pc = "idle" /\ build'[t].result = "ok"
             \/ build'[t].pc = "idle" /\ TargetRid(t) \notin Rids
             \/ build'[t].pc = "copysrc" /\ build'[t].todo = EntriesToCopy
      <4>1. OneRun(t) /\ build'[t].atStart = repo
        BY <2>0 DEF Begun
      <4>2. \/ build'[t].pc = "idle" /\ build'[t].result = "ok"
            \/ build'[t].pc = "idle" /\ TargetRid(t) \notin Rids
            \/ build'[t].pc = "copysrc" /\ build'[t].todo = EntriesToCopy
        BY <2>0 DEF Begun
      <4> QED
        BY <4>1, <4>2 DEF OneRun
    <3>2. InRepo => GoMod \in EntriesToCopy
      BY SysBuildAssumption DEF EntriesToCopy
    <3> QED
      BY <3>1, <3>2 DEF FailInv, FailFine, Explained
  <2> QED
    BY <1>3, <2>1, <2>2
<1>5. ASSUME NEW t \in Targets, NEW f \in Files, CopyBegins(t, f) \/ CopyWrites(t, f) PROVE FailInv'
  <2>1. /\ UNCHANGED <<repo, staged>>
        /\ crate' = [crate EXCEPT ![f] = CutOff] \/ (crate' = [crate EXCEPT ![f] = repo[f]] /\ repo[f] # Absent)
    BY <1>5, CopyBeginsStep, CopyWritesStep
  <2>2. /\ crate[GoMod] # Absent => crate'[GoMod] # Absent
        /\ f = GoMod => crate'[GoMod] # Absent
    BY <2>1, SysBuildAssumption DEF StateInv, Sources, CutOff, Absent
  <2>3. ASSUME NEW u \in Targets PROVE FailFine(u)'
    <3>1. /\ Kept(u) /\ SameLib(u) /\ SamePlace(u)
          /\ GoMod \in build[u].todo /\ f # GoMod => GoMod \in build'[u].todo
      BY <1>5, CopyBeginsStep, CopyWritesStep
    <3> QED
      BY <2>1, <2>2, <3>1 DEF FailInv, FailFine, Explained, SamePlace
  <2> QED
    BY <2>1, <2>2, <2>3 DEF FailInv
<1>6. ASSUME NEW t \in Targets, CopyEnds(t) PROVE FailInv'
  <2>1. FailFine(t)'
    BY <1>6, CopyEndsStep DEF FailInv, FailFine, Explained, OneRun, RunInv, RunFine, Early, BigEnough, Release, Stub
  <2> QED
    BY <1>3, <1>6, <2>1, CopyEndsStep
<1>7. ASSUME NEW t \in Targets, Choose(t) PROVE FailInv'
  <2>1. FailFine(t)'
    BY <1>7, ChooseStep DEF FailInv, FailFine, Explained, OneRun, RunInv, RunFine, Early, BigEnough, Release, Stub
  <2> QED
    BY <1>3, <1>7, <2>1, ChooseStep
<1>8. ASSUME NEW t \in Targets, GoFails(t) PROVE FailInv'
  <2>1. FailFine(t)'
    BY <1>8, GoFailsStep DEF FailInv, FailFine, Explained, OneRun, RunInv, RunFine, Early, BigEnough, Release, Stub
  <2> QED
    BY <1>3, <1>8, <2>1, GoFailsStep
<1>9. ASSUME NEW t \in Targets, GoBuilds(t) PROVE FailInv'
  <2>1. FailFine(t)'
    BY <1>9, GoBuildsStep DEF FailInv, FailFine, Explained, OneRun, RunInv, RunFine, Early, BigEnough, Release, Stub
  <2> QED
    BY <1>3, <1>9, <2>1, GoBuildsStep
<1>10. ASSUME NEW t \in Targets, Curl(t) PROVE FailInv'
  <2>1. FailFine(t)'
    BY <1>10, CurlStep DEF FailInv, FailFine, Explained, OneRun, RunInv, RunFine, Early, BigEnough, Release, Stub
  <2> QED
    BY <1>3, <1>10, <2>1, CurlStep
<1>11. ASSUME NEW t \in Targets, Tar(t) PROVE FailInv'
  <2>1. FailFine(t)'
    BY <1>11, TarStep DEF FailInv, FailFine, Explained, OneRun, RunInv, RunFine, Early, BigEnough, Release, Stub
  <2> QED
    BY <1>3, <1>11, <2>1, TarStep
<1>12. ASSUME NEW t \in Targets, Install(t) PROVE FailInv'
  <2>1. FailFine(t)'
    <3>1. /\ build[t].pc = "install" /\ Kept(t)
          /\ build'[t].chosen = build[t].chosen
          /\ build[t].chosen = "prebuild" => build'[t].out = staged[TargetRid(t)].lib
          /\ build[t].chosen # "prebuild" => build'[t].out = build[t].out
          /\ \/ BigEnough(build'[t].out) /\ build'[t].pc \in {"implib", "target"}
             \/ ~BigEnough(build'[t].out) /\ build'[t].pc = "idle"
      BY <1>12, InstallStep, RidKnown
    <3>2. repo' = repo
      BY <1>12, InstallStep, RidKnown DEF OneRun
    <3> QED
      BY <3>1, <3>2 DEF FailInv, FailFine, Explained
  <2> QED
    BY <1>3, <1>12, <2>1, InstallStep, RidKnown
<1>13. ASSUME NEW t \in Targets, InstallFails(t) PROVE FailInv'
  <2>1. FailFine(t)'
    BY <1>13, InstallFailsStep DEF FailInv, FailFine, Explained, OneRun, RunInv, RunFine, Early, BigEnough, Release, Stub
  <2> QED
    BY <1>3, <1>13, <2>1, InstallFailsStep
<1>14. ASSUME NEW t \in Targets, MakeImportLib(t) PROVE FailInv'
  <2>1. FailFine(t)'
    <3>1. /\ build[t].pc = "implib" /\ repo' = repo
          /\ build'[t].atStart = build[t].atStart /\ build'[t].fault = build[t].fault
          /\ build'[t].pc = "target" \/ (build'[t].pc = "idle" /\ "libexe" \in build[t].fault)
      BY <1>14, MakeImportLibStep, RidKnown DEF OneRun
    <3>2. Windows(t)
      BY <3>1 DEF RunInv, RunFine
    <3> QED
      BY <3>1, <3>2 DEF FailInv, FailFine, Explained
  <2> QED
    BY <1>3, <1>14, <2>1, MakeImportLibStep, RidKnown
<1>15. ASSUME NEW t \in Targets, CopyToTarget(t) PROVE FailInv'
  <2>1. FailFine(t)'
    BY <1>15, CopyToTargetStep DEF FailInv, FailFine, Explained, OneRun, RunInv, RunFine, Early, BigEnough, Release, Stub
  <2> QED
    BY <1>3, <1>15, <2>1, CopyToTargetStep
<1>16. ASSUME NEW t \in Targets, Kill(t) PROVE FailInv'
  <2>1. FailFine(t)'
    BY <1>16, KillStep DEF FailInv, FailFine, Explained, OneRun, RunInv, RunFine, Early, BigEnough, Release, Stub
  <2> QED
    BY <1>3, <1>16, <2>1, KillStep
<1>17. CASE UNCHANGED sysBuildVars
  BY <1>17 DEF sysBuildVars, envVars, FailInv, FailFine, Explained
<1> HIDE DEF Running, Kept, Unmoved, SameLib, Unlucky, InRepo
<1> QED
  BY <1>1, <1>2, <1>4, <1>5, <1>6, <1>7, <1>8, <1>9, <1>10, <1>11, <1>12, <1>13, <1>14, <1>15, <1>16, <1>17,
     StepKinds

\* No run fails because of what an earlier one has left: something went wrong in
\* that very run, on the way it took to the library.
THEOREM FailuresAreExplained == SysBuildSpec => []FailureExplained
<1>1. SysBuildInit => FailInv
  <2> SUFFICES ASSUME SysBuildInit PROVE FailInv
    OBVIOUS
  <2>1. InRepo \/ crate[GoMod] # Absent
    BY SysBuildAssumption DEF SysBuildInit, InRepo, Absent, NoVersion
  <2>2. ASSUME NEW t \in Targets PROVE FailFine(t)
    BY DEF SysBuildInit, FailFine, NoBuild, Running
  <2> QED
    BY <2>1, <2>2 DEF FailInv
<1>2. FailInv => FailureExplained
  <2> SUFFICES ASSUME FailInv, NEW t \in Targets, build[t].result = "failed", ~Running(t)
               PROVE  Explained(t)
    BY DEF FailureExplained, Explained, Unlucky
  <2> QED
    BY DEF FailInv, FailFine
<1>3. StateInv /\ RunInv /\ FailInv /\ [SysBuildNext]_sysBuildVars => (StateInv /\ RunInv /\ FailInv)'
  BY StateStep, RunStep, FailStep
<1> QED
  BY <1>1, <1>2, <1>3, InitFine, PTL DEF SysBuildSpec

-----------------------------------------------------------------------------
\* What a library built in the repository is built of.

\* The repository has all of the source or nothing, and later versions have
\* higher numbers, so the copy in the crate never has a newer one.
SourceInv ==
    /\ repo = NoSource \/ \A f \in Files : repo[f] # Absent
    /\ \A f \in Files : 0 <= repo[f] /\ repo[f] <= CrateVersion + edits
    /\ InRepo => \A f \in Files : crate[f] <= repo[f]

\* As it was when the run in t started, or newer, as another run may have copied
\* it again since; or another run is about to.
New(t, f, version) ==
    build[t].atStart[f] <= version \/ (version = CutOff /\ scenario.targets # {t})

FreshFine(t) ==
    \A f \in Files : build[t].atStart[GoMod] # Absent =>
        /\ InRepo /\ build[t].atStart[f] # Absent /\ build[t].atStart[f] <= repo[f]
        /\ "copysrc" \notin build[t].fault =>
              /\ build[t].pc = "copysrc" /\ f \notin build[t].todo => New(t, f, crate[f])
              /\ build[t].pc \in {"choose", "gobuild"} => New(t, f, crate[f])
              /\ (build[t].pc \in Late \/ Linked(t)) /\ build[t].chosen = "source" =>
                    New(t, f, build[t].out.of[f])

FreshInv == SourceInv /\ \A t \in Targets : FreshFine(t)

LEMMA FreshStep ==
    ASSUME \A s \in Scenarios : s.deletes = FALSE,
           StateInv, RunInv, FreshInv, [SysBuildNext]_sysBuildVars
    PROVE  FreshInv'
<1> USE DEF Running, Linked, Kept, Unmoved, SameLib, InRepo, Late, New
<1>0. /\ repo \in Sources /\ crate \in Sources /\ CrateVersion \in Nat /\ edits \in Nat
      /\ GoMod \in Files /\ CrateVersion # 0
      /\ \A u \in Targets : build[u].atStart \in Sources /\ build[u].out.of \in Sources
  BY SysBuildAssumption DEF StateInv, BuildType, Libs, NoVersion
<1>1. ASSUME NEW f \in Files, EditSource(f) PROVE FreshInv'
  <2>1. /\ InRepo /\ edits' = edits + 1 /\ repo' = [repo EXCEPT ![f] = CrateVersion + edits + 1]
        /\ UNCHANGED <<crate, scenario>>
    <3>1. CrateVersion + edits + 1 \in Nat
      BY <1>0
    <3> QED
      BY <1>1, <3>1, EditStep DEF EditSource
  <2>2. \A g \in Files : repo[g] # Absent
    BY <2>1, <1>0 DEF FreshInv, SourceInv, NoSource, Absent
  <2>3. \A g \in Files : /\ repo'[g] # Absent /\ repo[g] <= repo'[g] /\ 0 <= repo'[g]
                         /\ repo'[g] <= CrateVersion + edits + 1
    BY <1>0, <2>1, <2>2 DEF FreshInv, SourceInv, Sources, Absent
  <2>4. SourceInv'
    <3>1. \A g \in Files : crate'[g] <= repo'[g]
      BY <1>0, <2>1, <2>3 DEF FreshInv, SourceInv, Sources
    <3>2. CrateVersion + edits + 1 = CrateVersion + edits'
      BY <1>0, <2>1
    <3> QED
      BY <2>3, <3>1, <3>2 DEF SourceInv
  <2>5. ASSUME NEW u \in Targets PROVE FreshFine(u)'
    <3>1. Kept(u) /\ SameLib(u) /\ SamePlace(u) /\ build'[u].todo = build[u].todo
      <4>1. CrateVersion + edits + 1 \in Nat
        BY <1>0
      <4> QED
        BY <1>1, <4>1, EditStep DEF EditSource
    <3>2. \A g \in Files : build[u].atStart[g] <= repo[g] => build[u].atStart[g] <= repo'[g]
      <4>1. repo' \in Sources
        BY <1>0, <2>1 DEF Sources
      <4> QED
        BY <1>0, <2>3, <4>1 DEF Sources
    <3>3. FreshFine(u)
      BY DEF FreshInv
    <3> QED
      BY <1>0, <2>1, <2>3, <3>1, <3>2, <3>3 DEF FreshFine, SamePlace
  <2> QED
    BY <2>4, <2>5 DEF FreshInv
<1>2. ASSUME NEW r \in Rids, NEW new \in StagedType, NEW path \in {"staged", "stageddef"},
             Staging(r, new, path)
      PROVE  FreshInv'
  <2>1. UNCHANGED <<scenario, repo, crate, edits>>
    BY <1>2, StagedStep DEF Staging
  <2>2. ASSUME NEW u \in Targets PROVE FreshFine(u)'
    <3>1. /\ Unmoved(u) /\ SameLib(u) /\ SamePlace(u) /\ build'[u].todo = build[u].todo
          /\ "copysrc" \notin build'[u].fault => "copysrc" \notin build[u].fault
      BY <1>2, StagedStep DEF Staging
    <3>2. FreshFine(u)
      BY DEF FreshInv
    <3> QED
      BY <2>1, <3>1, <3>2 DEF FreshFine, SamePlace
  <2> QED
    BY <2>1, <2>2 DEF FreshInv, SourceInv
<1>3. ASSUME NEW t \in Targets, OneRun(t), FreshFine(t)' PROVE FreshInv'
  <2>1. ASSUME NEW u \in Targets, u # t PROVE FreshFine(u)'
    BY <1>3, <2>1 DEF OneRun, FreshInv, FreshFine
  <2> QED
    BY <1>3, <2>1 DEF OneRun, FreshInv, SourceInv
<1>4. ASSUME NEW t \in Targets, NEW faults \in SUBSET scenario.faults, NEW docsRs \in BOOLEAN,
             Start(t, faults, docsRs)
      PROVE  FreshInv'
  <2>0. Begun(t, faults, docsRs)
    BY <1>4, StartStep
  <2>2. OneRun(t)
    BY <2>0 DEF Begun
  <2>1. FreshFine(t)'
    <3>1. OneRun(t) /\ build'[t].atStart = repo /\ build'[t].chosen = "none"
      BY <2>0 DEF Begun
    <3>2. build'[t].pc = "idle" \/ (build'[t].pc = "copysrc" /\ build'[t].todo = EntriesToCopy)
      BY <2>0 DEF Begun
    <3>3. UNCHANGED <<repo, crate, scenario>>
      BY <3>1 DEF OneRun
    <3>4. InRepo => \A f \in Files : repo[f] # Absent /\ f \in EntriesToCopy /\ repo[f] <= repo[f]
      BY <1>0 DEF FreshInv, SourceInv, EntriesToCopy, NoSource, Sources
    <3> QED
      BY <3>1, <3>2, <3>3, <3>4 DEF FreshFine
  <2> QED
    BY <1>3, <2>1, <2>2
<1>5. ASSUME NEW t \in Targets, NEW f \in Files, CopyWrites(t, f) PROVE FreshInv'
  <2>1. /\ UNCHANGED <<repo, edits, scenario>>
        /\ crate' = [crate EXCEPT ![f] = repo[f]] /\ repo[f] # Absent
    BY <1>5, CopyWritesStep
  <2>2. InRepo
    BY <1>0, <2>1 DEF FreshInv, SourceInv, NoSource
  <2>3. \A g \in Files : /\ crate'[g] <= repo[g] /\ crate'[g] \in Int
                         /\ g = f => crate'[g] = repo[g]
                         /\ g # f => crate'[g] = crate[g]
    BY <1>0, <2>1, <2>2 DEF FreshInv, SourceInv, Sources
  <2>4. SourceInv'
    BY <2>1, <2>3 DEF FreshInv, SourceInv
  <2>5. ASSUME NEW u \in Targets PROVE FreshFine(u)'
    <3>1. /\ Kept(u) /\ SameLib(u) /\ SamePlace(u)
          /\ \A g \in Files : g # f /\ g \notin build'[u].todo => g \notin build[u].todo
      BY <1>5, CopyWritesStep
    <3>2. FreshFine(u)
      BY DEF FreshInv
    <3> QED
      BY <2>1, <2>3, <3>1, <3>2 DEF FreshFine, SamePlace
  <2> QED
    BY <2>4, <2>5 DEF FreshInv
<1>19. ASSUME NEW t \in Targets, NEW f \in Files, t \in scenario.targets, CopyBegins(t, f) PROVE FreshInv'
  <2>1. /\ UNCHANGED <<repo, edits, scenario>>
        /\ build[t].pc = "copysrc" /\ f \in build[t].todo
        /\ crate' = [crate EXCEPT ![f] = CutOff]
    BY <1>19, CopyBeginsStep
  <2>2. \A g \in Files : /\ g = f => crate'[g] = CutOff
                         /\ g # f => crate'[g] = crate[g]
    BY <1>0, <2>1 DEF Sources
  <2>3. SourceInv'
    <3>1. InRepo => \A g \in Files : crate'[g] <= repo[g]
      BY <1>0, <2>2 DEF FreshInv, SourceInv, Sources, CutOff
    <3> QED
      BY <2>1, <3>1 DEF FreshInv, SourceInv
  <2>4. ASSUME NEW u \in Targets PROVE FreshFine(u)'
    <3>1. Kept(u) /\ SameLib(u) /\ SamePlace(u) /\ build'[u].todo = build[u].todo
      BY <1>19, CopyBeginsStep
    <3>2. FreshFine(u)
      BY DEF FreshInv
    <3>3. u # t => scenario.targets # {u}
      BY <1>19
    <3>4. CASE u = t
      BY <2>1, <2>2, <3>1, <3>2, <3>4 DEF FreshFine, SamePlace
    <3>5. CASE u # t
      BY <2>1, <2>2, <3>1, <3>2, <3>3, <3>5 DEF FreshFine, SamePlace
    <3> QED
      BY <3>4, <3>5
  <2> QED
    BY <2>3, <2>4 DEF FreshInv
<1>6. ASSUME NEW t \in Targets, CopyEnds(t) PROVE FreshInv'
  <2>1. FreshFine(t)'
    BY <1>6, CopyEndsStep DEF FreshInv, FreshFine, OneRun, RunInv, RunFine, Early
  <2> QED
    BY <1>3, <1>6, <2>1, CopyEndsStep
<1>7. ASSUME NEW t \in Targets, Choose(t) PROVE FreshInv'
  <2>1. FreshFine(t)'
    BY <1>7, ChooseStep DEF FreshInv, FreshFine, OneRun, RunInv, RunFine, Early
  <2> QED
    BY <1>3, <1>7, <2>1, ChooseStep
<1>8. ASSUME NEW t \in Targets, GoFails(t) PROVE FreshInv'
  <2>1. FreshFine(t)'
    BY <1>8, GoFailsStep DEF FreshInv, FreshFine, OneRun, RunInv, RunFine, Early
  <2> QED
    BY <1>3, <1>8, <2>1, GoFailsStep
<1>9. ASSUME NEW t \in Targets, GoBuilds(t) PROVE FreshInv'
  <2>1. FreshFine(t)'
    BY <1>9, GoBuildsStep DEF FreshInv, FreshFine, OneRun, RunInv, RunFine, Early
  <2> QED
    BY <1>3, <1>9, <2>1, GoBuildsStep
<1>10. ASSUME NEW t \in Targets, Curl(t) PROVE FreshInv'
  <2>1. FreshFine(t)'
    BY <1>10, CurlStep DEF FreshInv, FreshFine, OneRun, RunInv, RunFine, Early
  <2> QED
    BY <1>3, <1>10, <2>1, CurlStep
<1>11. ASSUME NEW t \in Targets, Tar(t) PROVE FreshInv'
  <2>1. FreshFine(t)'
    BY <1>11, TarStep DEF FreshInv, FreshFine, OneRun, RunInv, RunFine, Early
  <2> QED
    BY <1>3, <1>11, <2>1, TarStep
<1>12. ASSUME NEW t \in Targets, Install(t) PROVE FreshInv'
  <2>1. FreshFine(t)'
    <3>1. /\ build[t].pc = "install" /\ UNCHANGED <<repo, crate, scenario>>
          /\ build'[t].atStart = build[t].atStart /\ build'[t].fault = build[t].fault
          /\ build'[t].chosen = build[t].chosen
          /\ build[t].chosen = "source" => build'[t].out = build[t].out
          /\ build'[t].pc # "copysrc" /\ build'[t].pc # "choose" /\ build'[t].pc # "gobuild"
      BY <1>12, InstallStep, RidKnown DEF OneRun
    <3> QED
      BY <3>1 DEF FreshInv, FreshFine
  <2> QED
    BY <1>3, <1>12, <2>1, InstallStep, RidKnown
<1>13. ASSUME NEW t \in Targets, InstallFails(t) PROVE FreshInv'
  <2>1. FreshFine(t)'
    BY <1>13, InstallFailsStep DEF FreshInv, FreshFine, OneRun, RunInv, RunFine, Early
  <2> QED
    BY <1>3, <1>13, <2>1, InstallFailsStep
<1>14. ASSUME NEW t \in Targets, MakeImportLib(t) PROVE FreshInv'
  <2>1. FreshFine(t)'
    <3>1. /\ build[t].pc = "implib" /\ UNCHANGED <<repo, crate, scenario>>
          /\ build'[t].atStart = build[t].atStart /\ build'[t].fault = build[t].fault
          /\ build'[t].chosen = build[t].chosen /\ build'[t].out = build[t].out
          /\ build'[t].pc # "copysrc" /\ build'[t].pc # "choose" /\ build'[t].pc # "gobuild"
      BY <1>14, MakeImportLibStep, RidKnown DEF OneRun
    <3> QED
      BY <3>1 DEF FreshInv, FreshFine
  <2> QED
    BY <1>3, <1>14, <2>1, MakeImportLibStep, RidKnown
<1>15. ASSUME NEW t \in Targets, CopyToTarget(t) PROVE FreshInv'
  <2>1. FreshFine(t)'
    BY <1>15, CopyToTargetStep DEF FreshInv, FreshFine, OneRun, RunInv, RunFine, Early
  <2> QED
    BY <1>3, <1>15, <2>1, CopyToTargetStep
<1>16. ASSUME NEW t \in Targets, Kill(t) PROVE FreshInv'
  <2>1. FreshFine(t)'
    BY <1>16, KillStep DEF FreshInv, FreshFine, OneRun, RunInv, RunFine, Early
  <2> QED
    BY <1>3, <1>16, <2>1, KillStep
<1>17. CASE UNCHANGED sysBuildVars
  BY <1>17 DEF sysBuildVars, envVars, FreshInv, FreshFine, SourceInv
<1>18. \A f \in Files : ~DeleteSource(f)
  BY DEF DeleteSource, StateInv
<1> HIDE DEF Running, Linked, Kept, Unmoved, SameLib, InRepo, Late, New
<1> QED
  BY <1>1, <1>2, <1>4, <1>5, <1>6, <1>7, <1>8, <1>9, <1>10, <1>11, <1>12, <1>13, <1>14, <1>15, <1>16, <1>17,
     <1>18, <1>19, StepKinds

\* A library built in the repository is built of each file as it was when the
\* run started or later, whoever copied it into the crate, or of a file that a
\* run in another directory was writing.  It holds as long as no file is deleted:
\* one that was remains in the crate.
THEOREM FreshCopyIsBuilt ==
    ASSUME \A s \in Scenarios : s.deletes = FALSE
    PROVE  SysBuildSpec => []BuiltFromFreshCopy
<1>1. SysBuildInit => FreshInv
  <2> SUFFICES ASSUME SysBuildInit PROVE FreshInv
    OBVIOUS
  <2>1. SourceInv
    BY SysBuildAssumption DEF SysBuildInit, SourceInv, InRepo, NoSource, Absent, NoVersion
  <2>2. ASSUME NEW t \in Targets PROVE FreshFine(t)
    BY SysBuildAssumption DEF SysBuildInit, FreshFine, NoBuild, NoSource
  <2> QED
    BY <2>1, <2>2 DEF FreshInv
<1>2. FreshInv /\ StateInv => BuiltFromFreshCopy
  <2> SUFFICES ASSUME FreshInv, StateInv, NEW t \in Targets, NEW f \in Files,
                      Linked(t), build[t].chosen = "source", "copysrc" \notin build[t].fault,
                      build[t].atStart[GoMod] # Absent
               PROVE  /\ build[t].atStart[f] # Absent
                      /\ \/ build[t].out.of[f] >= build[t].atStart[f]
                         \/ build[t].out.of[f] = CutOff /\ scenario.targets # {t}
    BY DEF BuiltFromFreshCopy
  <2>1. build[t].atStart[f] # Absent /\ New(t, f, build[t].out.of[f])
    BY DEF FreshInv, FreshFine
  <2>2. build[t].atStart[f] \in Int /\ build[t].out.of[f] \in Int
    BY DEF StateInv, BuildType, Libs, Sources
  <2> QED
    BY <2>1, <2>2 DEF New
<1>3. StateInv /\ RunInv /\ FreshInv /\ [SysBuildNext]_sysBuildVars => (StateInv /\ RunInv /\ FreshInv)'
  BY StateStep, RunStep, FreshStep
<1> QED
  BY <1>1, <1>2, <1>3, InitFine, PTL DEF SysBuildSpec

-----------------------------------------------------------------------------
\* Which def file the import library is made from.

\* The source always has the def file, and what is staged was built of such.
DefSources ==
    /\ InRepo \/ crate[Def] # Absent
    /\ \A r \in Rids :
          /\ staged[r].lib.from = "cut" => staged[r].lib = Cut
          /\ staged[r].lib.from = "staged" => staged[r].lib.of[Def] # Absent

DefFine(t) ==
    /\ "copysrc" \notin build[t].fault
    /\ build[t].pc = "copysrc" =>
          /\ \A f \in build[t].todo : repo[f] # Absent
          /\ crate[Def] # Absent \/ Def \in build[t].todo
    /\ build[t].pc \in {"choose", "gobuild"} => crate[Def] # Absent
    /\ Windows(t) /\ "ignored" \notin build[t].fault /\ "copy" \notin build[t].fault =>
          /\ build[t].pc \in {"install", "implib"} /\ build[t].chosen # "prebuild" =>
                build[t].outDef = build[t].out.of[Def] /\ build[t].outDef # Absent
          /\ build[t].pc = "implib" /\ build[t].chosen = "prebuild" =>
                build[t].out = staged[TargetRid(t)].lib /\ BigEnough(build[t].out)
          /\ build[t].pc = "target" \/ Linked(t) =>
                \/ build[t].out = Cut \/ build[t].implib = build[t].out.of[Def]
                \/ build[t].chosen = "prebuild" /\ ~StagedTogether(t)

DefInv == DefSources /\ \A t \in Targets : DefFine(t)

LEMMA EditTouches ==
    ASSUME StateInv, NEW f \in Files, EditSource(f), NEW u \in Targets
    PROVE  staged' = staged /\ build[u].touched \subseteq build'[u].touched
<1>1. CrateVersion + edits + 1 \in Nat
  BY SysBuildAssumption DEF StateInv
<1> QED
  BY <1>1, EditStep DEF EditSource

LEMMA DefStep ==
    ASSUME \A s \in Scenarios : s.deletes = FALSE /\ "copysrc" \notin s.faults,
           StateInv, RunInv, LinkInv, FreshInv, DefInv, [SysBuildNext]_sysBuildVars
    PROVE  DefInv'
<1> USE DEF Running, Linked, Past, Kept, Unmoved, SameLib, InRepo
<1>0. /\ repo \in Sources /\ crate \in Sources /\ CrateVersion \in Nat /\ edits \in Nat
      /\ GoMod \in Files /\ Def \in Files /\ CrateVersion # 0
      /\ InRepo => \A f \in Files : repo[f] # Absent
  BY SysBuildAssumption DEF StateInv, NoVersion, FreshInv, SourceInv, NoSource
<1>1. ASSUME NEW f \in Files, EditSource(f) PROVE DefInv'
  <2>1. /\ InRepo /\ repo' = [repo EXCEPT ![f] = CrateVersion + edits + 1]
        /\ UNCHANGED <<crate, staged>>
        /\ \A u \in Targets : Kept(u) /\ SameLib(u) /\ SamePlace(u) /\ build'[u].todo = build[u].todo
    <3>1. CrateVersion + edits + 1 \in Nat
      BY <1>0
    <3> QED
      BY <1>1, <3>1, EditStep DEF EditSource
  <2>2. \A g \in Files : repo'[g] # Absent
    BY <1>0, <2>1 DEF Sources, Absent
  <2>3. ASSUME NEW u \in Targets PROVE DefFine(u)'
    <3>1. Kept(u) /\ SameLib(u) /\ SamePlace(u) /\ build'[u].todo = build[u].todo
      BY <2>1
    <3>2. build[u].todo \subseteq Files
      BY DEF StateInv, BuildType
    <3>3. StagedTogether(u)' => StagedTogether(u)
      BY <1>1, <2>1, EditTouches DEF StagedTogether
    <3> QED
      BY <2>1, <2>2, <3>1, <3>2, <3>3 DEF DefInv, DefFine, SamePlace
  <2>4. DefSources'
    BY <1>0, <2>1, <2>2 DEF DefInv, DefSources
  <2> QED
    BY <2>3, <2>4 DEF DefInv
<1>2. ASSUME NEW r \in Rids, NEW new \in StagedType, NEW path \in {"staged", "stageddef"},
             Staging(r, new, path)
      PROVE  DefInv'
  <2>1. UNCHANGED <<repo, crate>> /\ staged' = [staged EXCEPT ![r] = new]
    BY <1>2, StagedStep DEF Staging
  <2>2. ASSUME NEW u \in Targets PROVE DefFine(u)'
    <3>1. /\ Unmoved(u) /\ SameLib(u) /\ SamePlace(u) /\ build'[u].todo = build[u].todo
          /\ Running(u) /\ path = "staged" => build'[u].fault = build[u].fault \cup {"copy"}
          /\ ~(Running(u) /\ path = "staged") => build'[u].fault = build[u].fault
          /\ TargetRid(u) = r => build'[u].touched = build[u].touched \cup {path}
          /\ TargetRid(u) # r => build'[u].touched = build[u].touched
      BY <1>2, StagedStep DEF Staging
    <3>2. StagedTogether(u)' => StagedTogether(u)
      <4>1. CASE TargetRid(u) = r
        BY <3>1, <4>1 DEF StagedTogether
      <4>2. CASE TargetRid(u) # r
        BY <2>1, <3>1, <4>2 DEF StagedTogether, StateInv
      <4> QED
        BY <4>1, <4>2
    <3>3. CASE Running(u) /\ path = "staged"
      BY <2>1, <3>1, <3>2, <3>3 DEF DefInv, DefFine, SamePlace
    <3>4. CASE Running(u) /\ path = "stageddef"
      <4>1. staged'[TargetRid(u)].lib = staged[TargetRid(u)].lib
        BY <1>2, <3>4, SameStagedLib, RidKnown
      <4> QED
        BY <2>1, <3>1, <3>2, <3>4, <4>1 DEF DefInv, DefFine, SamePlace
    <3>5. CASE ~Running(u)
      BY <2>1, <3>1, <3>2, <3>5 DEF DefInv, DefFine, SamePlace
    <3> QED
      BY <3>3, <3>4, <3>5
  <2>3. DefSources'
    <3>1. ASSUME NEW q \in Rids
          PROVE  /\ staged'[q].lib.from = "cut" => staged'[q].lib = Cut
                 /\ staged'[q].lib.from = "staged" => staged'[q].lib.of[Def] # Absent
      <4>1. CASE q # r \/ new.lib = staged[r].lib
        <5>1. staged'[q].lib = staged[q].lib
          BY <2>1, <4>1 DEF StateInv
        <5> QED
          BY <5>1 DEF DefInv, DefSources
      <4>2. CASE q = r /\ (new.lib = NoLib \/ (InRepo /\ new.lib \in Stageable))
        <5>1. staged'[q].lib = new.lib
          BY <2>1, <4>2 DEF StateInv
        <5>2. InRepo => repo[Def] # Absent
          BY <1>0
        <5>3. [g \in Files |-> CrateVersion][Def] # Absent
          BY <1>0 DEF Absent
        <5> QED
          BY <4>2, <5>1, <5>2, <5>3 DEF Stageable, LibraryOf, Stub, Cut, NoLib
      <4> QED
        BY <1>2, <4>1, <4>2 DEF Staging, Fits
    <3> QED
      BY <2>1, <3>1 DEF DefInv, DefSources
  <2> QED
    BY <2>2, <2>3 DEF DefInv
<1>3. ASSUME NEW t \in Targets, OneRun(t), DefFine(t)' PROVE DefInv'
  <2>1. ASSUME NEW u \in Targets, u # t PROVE DefFine(u)'
    BY <1>3, <2>1 DEF OneRun, DefInv, DefFine, StagedTogether
  <2> QED
    BY <1>3, <2>1 DEF OneRun, DefInv, DefSources
<1>4. ASSUME NEW t \in Targets, NEW faults \in SUBSET scenario.faults, NEW docsRs \in BOOLEAN,
             Start(t, faults, docsRs)
      PROVE  DefInv'
  <2>0. Begun(t, faults, docsRs)
    BY <1>4, StartStep
  <2>2. OneRun(t)
    BY <2>0 DEF Begun
  <2>1. DefFine(t)'
    <3>1. OneRun(t) /\ build'[t].fault = faults /\ build'[t].chosen = "none"
      BY <2>0 DEF Begun
    <3>2. build'[t].pc = "idle" \/ (build'[t].pc = "copysrc" /\ build'[t].todo = EntriesToCopy)
      BY <2>0 DEF Begun
    <3>3. UNCHANGED <<repo, crate>>
      BY <3>1 DEF OneRun
    <3>4. "copysrc" \notin faults
      BY DEF StateInv
    <3>5. /\ \A f \in EntriesToCopy : repo[f] # Absent
          /\ crate[Def] # Absent \/ Def \in EntriesToCopy
      BY <1>0 DEF EntriesToCopy, DefInv, DefSources
    <3> QED
      BY <3>1, <3>2, <3>3, <3>4, <3>5 DEF DefFine
  <2> QED
    BY <1>3, <2>1, <2>2
<1>5. ASSUME NEW t \in Targets, NEW f \in Files, CopyBegins(t, f) \/ CopyWrites(t, f) PROVE DefInv'
  <2>1. /\ UNCHANGED <<repo, staged>>
        /\ crate' = [crate EXCEPT ![f] = CutOff] \/ (crate' = [crate EXCEPT ![f] = repo[f]] /\ repo[f] # Absent)
    BY <1>5, CopyBeginsStep, CopyWritesStep
  <2>2. /\ crate[Def] # Absent => crate'[Def] # Absent
        /\ f = Def => crate'[Def] # Absent
    BY <1>0, <2>1 DEF Sources, CutOff, Absent
  <2>3. ASSUME NEW u \in Targets PROVE DefFine(u)'
    <3>1. /\ Kept(u) /\ SameLib(u) /\ SamePlace(u)
          /\ build'[u].todo \subseteq build[u].todo
          /\ Def \in build[u].todo /\ f # Def => Def \in build'[u].todo
          /\ build'[u].touched = build[u].touched \cup {"crate"}
      BY <1>5, CopyBeginsStep, CopyWritesStep
    <3>2. StagedTogether(u)' => StagedTogether(u)
      BY <2>1, <3>1 DEF StagedTogether
    <3> QED
      BY <2>1, <2>2, <3>1, <3>2 DEF DefInv, DefFine, SamePlace
  <2>4. DefSources'
    BY <2>1, <2>2 DEF DefInv, DefSources
  <2> QED
    BY <2>3, <2>4 DEF DefInv
<1>6. ASSUME NEW t \in Targets, CopyEnds(t) PROVE DefInv'
  <2>1. DefFine(t)'
    <3>1. /\ build'[t].pc = "choose" /\ build[t].pc = "copysrc" /\ build'[t].todo = {}
          /\ build[t].todo = {} \/ "copysrc" \in build[t].fault \/ \E f \in build[t].todo : repo[f] = Absent
          /\ build[t].todo = {} => build'[t].fault = build[t].fault
      BY <1>6, CopyEndsStep
    <3>2. build[t].todo = {} /\ UNCHANGED crate
      BY <1>6, <3>1, CopyEndsStep DEF DefInv, DefFine, OneRun
    <3> QED
      BY <3>1, <3>2 DEF DefInv, DefFine
  <2> QED
    BY <1>3, <1>6, <2>1, CopyEndsStep
<1>7. ASSUME NEW t \in Targets, Choose(t) PROVE DefInv'
  <2>1. DefFine(t)'
    BY <1>7, ChooseStep DEF DefInv, DefFine, OneRun, RunInv, RunFine, Early
  <2> QED
    BY <1>3, <1>7, <2>1, ChooseStep
<1>8. ASSUME NEW t \in Targets, GoFails(t) PROVE DefInv'
  <2>1. DefFine(t)'
    BY <1>8, GoFailsStep DEF DefInv, DefFine, OneRun, RunInv, RunFine, Early
  <2> QED
    BY <1>3, <1>8, <2>1, GoFailsStep
<1>9. ASSUME NEW t \in Targets, GoBuilds(t) PROVE DefInv'
  <2>1. DefFine(t)'
    <3>1. Kept(t) /\ (build'[t].pc = "curl" \/ build'[t].pc = "install")
      BY <1>9, GoBuildsStep
    <3>2. ASSUME Windows(t), "ignored" \notin build[t].fault, build'[t].pc = "install"
          PROVE  build'[t].outDef = build'[t].out.of[Def] /\ build'[t].outDef # Absent
      BY <1>9, <3>2, GoBuildsStep DEF DefInv, DefFine
    <3> QED
      BY <1>9, <3>1, <3>2, GoBuildsStep DEF DefInv, DefFine
  <2> QED
    BY <1>3, <1>9, <2>1, GoBuildsStep
<1>10. ASSUME NEW t \in Targets, Curl(t) PROVE DefInv'
  <2>1. DefFine(t)'
    BY <1>10, CurlStep DEF DefInv, DefFine, OneRun, RunInv, RunFine, Early
  <2> QED
    BY <1>3, <1>10, <2>1, CurlStep
<1>11. ASSUME NEW t \in Targets, Tar(t) PROVE DefInv'
  <2>1. DefFine(t)'
    <3>1. build[t].archive # "layout"
      BY DEF LinkInv, LinkFine
    <3>2. Kept(t)
      BY <1>11, TarStep
    <3>3. \/ build'[t].pc = "idle" /\ build'[t].result = "failed"
          \/ /\ build'[t].pc = "install" /\ build'[t].out = Release(CrateVersion)
             /\ Windows(t) => build'[t].outDef = CrateVersion
      BY <1>11, <3>1, TarStep
    <3> QED
      BY <1>0, <3>2, <3>3 DEF DefInv, DefFine, Release, Absent
  <2> QED
    BY <1>3, <1>11, <2>1, TarStep
<1>12. ASSUME NEW t \in Targets, Install(t) PROVE DefInv'
  <2>1. DefFine(t)'
    <3>1. /\ build[t].pc = "install" /\ Kept(t) /\ UNCHANGED <<staged, crate, repo>>
          /\ build'[t].chosen = build[t].chosen /\ build'[t].outDef = build[t].outDef
          /\ build[t].chosen = "prebuild" => build'[t].out = staged[TargetRid(t)].lib
          /\ build[t].chosen # "prebuild" => build'[t].out = build[t].out
      BY <1>12, InstallStep, RidKnown DEF OneRun
    <3>2. \/ build'[t].pc = "idle" /\ build'[t].result = "failed"
          \/ build'[t].pc = "implib" /\ BigEnough(build'[t].out)
          \/ build'[t].pc = "target" /\ ~Windows(t)
      BY <1>12, InstallStep, RidKnown
    <3> QED
      BY <3>1, <3>2 DEF DefInv, DefFine
  <2> QED
    BY <1>3, <1>12, <2>1, InstallStep, RidKnown
<1>13. ASSUME NEW t \in Targets, InstallFails(t) PROVE DefInv'
  <2>1. DefFine(t)'
    BY <1>13, InstallFailsStep DEF DefInv, DefFine, OneRun, RunInv, RunFine, Early
  <2> QED
    BY <1>3, <1>13, <2>1, InstallFailsStep
<1>14. ASSUME NEW t \in Targets, MakeImportLib(t) PROVE DefInv'
  <2>1. DefFine(t)'
    <3>1. /\ build[t].pc = "implib" /\ SameLib(t)
          /\ build'[t].fault = build[t].fault /\ build'[t].chosen = build[t].chosen
      BY <1>14, MakeImportLibStep, RidKnown
    <3>2. \/ build'[t].pc = "idle" /\ build'[t].result = "failed"
          \/ /\ build'[t].pc = "target"
             /\ DefDir(t) # Absent => build'[t].implib = DefDir(t)
      BY <1>14, MakeImportLibStep, RidKnown
    <3>3. ASSUME Windows(t), "ignored" \notin build[t].fault, "copy" \notin build[t].fault
          PROVE  \/ build[t].out = Cut \/ (DefDir(t) # Absent /\ DefDir(t) = build[t].out.of[Def])
                 \/ build[t].chosen = "prebuild" /\ ~StagedTogether(t)
      <4>1. CASE build[t].chosen = "prebuild" /\ StagedTogether(t)
        <5>1. build[t].out = staged[TargetRid(t)].lib /\ BigEnough(build[t].out)
          BY <3>1, <3>3, <4>1 DEF DefInv, DefFine
        <5>2. TargetRid(t) \in Rids /\ staged[TargetRid(t)].lib.from \in StagedOrigins
          <6>1. TargetRid(t) \in Rids
            BY <1>14, RidKnown
          <6>2. staged[TargetRid(t)] \in StagedType
            BY <6>1 DEF StateInv
          <6> QED
            BY <6>1, <6>2 DEF StagedType
        <5> QED
          BY <4>1, <5>1, <5>2 DEF DefInv, DefSources, DefDir, BigEnough, StagedOrigins, StagedTogether
      <4>2. CASE build[t].chosen # "prebuild"
        BY <3>1, <3>3, <4>2 DEF DefInv, DefFine, DefDir
      <4> QED
        BY <4>1, <4>2
    <3>4. StagedTogether(t)' => StagedTogether(t)
      <4>1. staged' = staged /\ build'[t].touched = build[t].touched
        BY <1>14, MakeImportLibStep, RidKnown DEF OneRun
      <4> QED
        BY <4>1 DEF StagedTogether
    <3> QED
      BY <3>1, <3>2, <3>3, <3>4 DEF DefInv, DefFine
  <2> QED
    BY <1>3, <1>14, <2>1, MakeImportLibStep, RidKnown
<1>15. ASSUME NEW t \in Targets, CopyToTarget(t) PROVE DefInv'
  <2>1. DefFine(t)'
    BY <1>15, CopyToTargetStep DEF DefInv, DefFine, OneRun, RunInv, RunFine, Early, StagedTogether
  <2> QED
    BY <1>3, <1>15, <2>1, CopyToTargetStep
<1>16. ASSUME NEW t \in Targets, Kill(t) PROVE DefInv'
  <2>1. DefFine(t)'
    BY <1>16, KillStep DEF DefInv, DefFine, OneRun, RunInv, RunFine, Early
  <2> QED
    BY <1>3, <1>16, <2>1, KillStep
<1>17. CASE UNCHANGED sysBuildVars
  BY <1>17 DEF sysBuildVars, envVars, DefInv, DefFine, DefSources, StagedTogether
<1>18. \A f \in Files : ~DeleteSource(f)
  BY DEF DeleteSource, StateInv
<1> HIDE DEF Running, Linked, Past, Kept, Unmoved, SameLib, InRepo
<1> QED
  BY <1>1, <1>2, <1>4, <1>5, <1>6, <1>7, <1>8, <1>9, <1>10, <1>11, <1>12, <1>13, <1>14, <1>15, <1>16, <1>17,
     <1>18, StepKinds

\* The import library is made from the def file of the library that was chosen,
\* unless a copy failed without notice, or the two did not fit together when they
\* were staged, or have been staged again since the run started.  It holds when the source is always
\* complete in the crate; without a def file the script would leave the import
\* library of an earlier run.
THEOREM ImportLibIsOfLib ==
    ASSUME \A s \in Scenarios : s.deletes = FALSE /\ "copysrc" \notin s.faults /\ "layout" \notin s.faults
    PROVE  SysBuildSpec => []ImportLibMatches
<1>1. SysBuildInit => LinkInv /\ FreshInv /\ DefInv
  <2> SUFFICES ASSUME SysBuildInit PROVE LinkInv /\ FreshInv /\ DefInv
    OBVIOUS
  <2>1. LinkInv
    BY DEF SysBuildInit, LinkInv, LinkFine, NoBuild, Linked, Running, Past
  <2>2. FreshInv
    <3>1. SourceInv
      BY SysBuildAssumption DEF SysBuildInit, SourceInv, InRepo, NoSource, Absent, NoVersion
    <3>2. ASSUME NEW t \in Targets PROVE FreshFine(t)
      BY SysBuildAssumption DEF SysBuildInit, FreshFine, NoBuild, NoSource
    <3> QED
      BY <3>1, <3>2 DEF FreshInv
  <2>3. DefSources
    BY SysBuildAssumption DEF SysBuildInit, DefSources, InRepo, NoLib, Absent, NoVersion
  <2>4. ASSUME NEW t \in Targets PROVE DefFine(t)
    BY DEF SysBuildInit, DefFine, NoBuild, Past, Linked, Running
  <2> QED
    BY <2>1, <2>2, <2>3, <2>4 DEF DefInv
<1>2. DefInv => ImportLibMatches
  BY DEF DefInv, DefFine, ImportLibMatches, Linked, Running
<1>3. StateInv /\ RunInv /\ LinkInv /\ FreshInv /\ DefInv /\ [SysBuildNext]_sysBuildVars
        => (StateInv /\ RunInv /\ LinkInv /\ FreshInv /\ DefInv)'
  BY StateStep, RunStep, LinkStep, FreshStep, DefStep
<1> QED
  BY <1>1, <1>2, <1>3, InitFine, PTL DEF SysBuildSpec
=============================================================================
