------------------------------ MODULE SysBuild ------------------------------
(***************************************************************************)
(* The build script of spicedb-embedded-sys over many cargo builds: how it *)
(* obtains the C library (a staged prebuild, a build of the Go source, or  *)
(* a download), what failed and killed runs leave behind for the next one, *)
(* and when cargo runs it again.                                           *)
(*                                                                         *)
(* A library is abstracted to where it comes from and to the version of    *)
(* each source file it is built of.  What goes wrong in a run is chosen    *)
(* when the run starts.                                                    *)
(***************************************************************************)
EXTENDS Integers, FiniteSets

CONSTANTS
    Targets,       \* the target directories cargo builds in
    Platform,      \* for each, the <<os, arch>> built for
    Files,         \* the files of shared/c
    GoMod, Def,    \* of these, go.mod and spicedb.def
    CrateVersion,  \* CARGO_PKG_VERSION
    EnvVersion,    \* SPICEDB_EMBEDDED_RELEASE_VERSION, or NoVersion
    Scenarios      \* what happens around the script, and how often

NoVersion == 0
Absent == 0
CutOff == -1    \* the content of a file of which not all is written yet
FaultKinds == {"kill", "copysrc", "go", "gotiny", "curl", "html", "tar", "tiny",
               "layout", "copy", "libexe", "ignored"}

\* In a scenario cargo builds in the directories of targets, at most runs times
\* in each; the repository is changed at most edits times, by deletes as well
\* if deletes; a prebuild is staged at most stages times; at most two of faults
\* go wrong in a run.
ScenarioType == [targets : SUBSET Targets, faults : SUBSET FaultKinds, deletes : BOOLEAN,
                 edits : Nat, stages : Nat, runs : Nat]

\* Version numbers are positive, and the crate has one.
ASSUME SysBuildAssumption ==
    /\ DOMAIN Platform = Targets
    /\ IsFiniteSet(Files) /\ {GoMod, Def} \subseteq Files
    /\ CrateVersion \in Nat \ {NoVersion} /\ EnvVersion \in Nat
    /\ Scenarios \subseteq ScenarioType

VARIABLES
    scenario,       \* the one that happens
    repo,           \* shared/c of the repository: the version of each file
    crate,          \* shared/c inside the crate
    staged,         \* prebuilds/<rid>: the library, the version of spicedb.def,
                    \* and whether the script is about to copy the latter
    edits, stages,  \* counters
    build           \* the last run of the script in each target directory

envVars == <<scenario, repo, staged, edits, stages>>
sysBuildVars == <<envVars, crate, build>>

-----------------------------------------------------------------------------
\* Libraries: from none, stub, cut, staged, source or release; of the version of
\* each file.

NoSource == [f \in Files |-> Absent]
NoLib == [from |-> "none", of |-> NoSource]
Stub == [from |-> "stub", of |-> NoSource]   \* shorter than MIN_LIB_SIZE_BYTES
Cut == [from |-> "cut", of |-> NoSource]     \* incomplete, yet long enough
Release(v) == [from |-> "release", of |-> [f \in Files |-> v]]

BigEnough(lib) == lib.from \notin {"none", "stub"}

Rids == {"linux-x64", "linux-arm64", "osx-arm64", "win-x64"}
TargetRid(t) ==
    CASE Platform[t] = <<"linux", "x86_64">> -> "linux-x64"
      [] Platform[t] = <<"linux", "aarch64">> -> "linux-arm64"
      [] Platform[t] = <<"macos", "aarch64">> -> "osx-arm64"
      [] Platform[t] = <<"windows", "x86_64">> -> "win-x64"
      [] OTHER -> "unsupported"
Windows(t) == TargetRid(t) = "win-x64"

\* release_version.or(env_version)
ReleaseVersion == IF CrateVersion # NoVersion THEN CrateVersion ELSE EnvVersion

-----------------------------------------------------------------------------
\* State

\* pc: idle, copysrc, choose, gobuild, curl, tar, install, implib or target;
\* watched and touched hold repo, crate, staged, stageddef and out.
NoBuild == [
    pc |-> "idle",
    runs |-> 0,
    todo |-> {},           \* directory entries still to be copied
    writing |-> {},        \* of these, the one it is copying
    fault |-> {},          \* what goes wrong in this run
    chosen |-> "none",     \* prebuild, source or download
    atStart |-> NoSource,  \* the repository when the run started
    out |-> NoLib,         \* the library in OUT_DIR
    outDef |-> Absent,     \* spicedb.def in OUT_DIR
    implib |-> Absent,     \* the def file its spicedb.lib is made from
    archive |-> "none",    \* none, part, corrupt, tiny, layout or good
    loaded |-> NoLib,      \* the library next to the executables
    result |-> "none",     \* none, ok or failed
    watched |-> {},        \* what cargo is asked to watch
    touched |-> {},        \* what was written since the run started
    docs |-> FALSE]        \* whether DOCS_RS was set in the run

\* A checkout has the source in the repository, a published crate in itself.
SysBuildInit ==
    /\ scenario \in Scenarios
    /\ \/ repo = [f \in Files |-> CrateVersion] /\ crate = NoSource
       \/ repo = NoSource /\ crate = [f \in Files |-> CrateVersion]
    /\ staged = [r \in Rids |-> [lib |-> NoLib, def |-> Absent, copying |-> FALSE]]
    /\ edits = 0 /\ stages = 0
    /\ build = [t \in Targets |-> NoBuild]

-----------------------------------------------------------------------------
\* The world around the script

InRepo == repo[GoMod] # Absent
Running(t) == build[t].pc # "idle"
Touch(path) == build' = [t \in Targets |-> [build[t] EXCEPT !.touched = @ \cup {path}]]

Edit(f, version) ==
    /\ InRepo /\ edits < scenario.edits
    /\ edits' = edits + 1
    /\ repo' = [repo EXCEPT ![f] = version]
    /\ Touch("repo")
    /\ UNCHANGED <<scenario, staged, stages, crate>>
EditSource(f) == Edit(f, CrateVersion + edits + 1)
DeleteSource(f) == scenario.deletes /\ f # GoMod /\ repo[f] # Absent /\ Edit(f, Absent)

\* What may be lying in shared/c: the library built there, of the source as it
\* is now or as it was checked out, or what is left of a build.
LibraryOf(source) == [from |-> "staged", of |-> source]
Stageable == {LibraryOf(repo), LibraryOf([f \in Files |-> CrateVersion]), Stub, Cut}

Staged(r, new, path) ==
    /\ staged' = [staged EXCEPT ![r] = new]
    /\ build' = [t \in Targets |-> [build[t] EXCEPT
          !.fault = IF Running(t) /\ path = "staged" THEN @ \cup {"copy"} ELSE @,
          !.touched = IF TargetRid(t) = r THEN @ \cup {path} ELSE @]]
    /\ UNCHANGED <<scenario, repo, edits, crate>>

\* stage-rust-prebuild.sh first copies the library; it may be stopped half way.
\* A run that is under way may then fail to copy it.
StageLib(r, lib) ==
    /\ InRepo /\ stages < scenario.stages
    /\ stages' = stages + 1
    /\ Staged(r, [staged[r] EXCEPT !.lib = lib, !.copying = TRUE], "staged")

\* Then it copies the def file, if there is one, and unless it was stopped.
StageDef(r) ==
    /\ staged[r].copying /\ repo[Def] # Absent
    /\ Staged(r, [staged[r] EXCEPT !.def = repo[Def], !.copying = FALSE], "stageddef")
    /\ UNCHANGED stages

\* The prebuild is removed.
Unstage(r) ==
    /\ staged[r].lib # NoLib /\ stages < scenario.stages
    /\ stages' = stages + 1
    /\ Staged(r, [lib |-> NoLib, def |-> Absent, copying |-> FALSE], "staged")

\* Cargo runs the script again unless it succeeded and nothing it asked to
\* watch has changed since it started, files it wrote itself included, nor
\* DOCS_RS.
Stale(t, docsRs) ==
    \/ build[t].result # "ok"
    \/ build[t].watched \cap build[t].touched # {}
    \/ build[t].docs # docsRs

-----------------------------------------------------------------------------
\* The script.  A step at pc leaves the run in t in one of the states in new.

Step(t, pc, new) ==
    /\ build[t].pc = pc
    /\ \E b \in new : build' = [build EXCEPT ![t] = b]
    /\ UNCHANGED <<envVars, crate>>
Panic(b) == [b EXCEPT !.pc = "idle", !.result = "failed"]
CutShort(t) == {build[t].out, Stub, Cut}

\* Mutant of EntriesToCopy: the source is copied only when the crate has none.
EntriesWhenMissing == IF crate[GoMod] # Absent THEN {} ELSE {f \in Files : repo[f] # Absent}

\* ensure_go_source_in_crate: what is to be copied, nothing outside the repository.
EntriesToCopy == IF InRepo THEN {f \in Files : repo[f] # Absent} ELSE {}

\* A cargo build, with DOCS_RS or without: main, and the start of run.
Start(t, faults, docsRs) ==
    LET b == [build[t] EXCEPT !.runs = @ + 1, !.fault = faults, !.docs = docsRs, !.chosen = "none",
                              !.atStart = repo, !.touched = {}, !.watched = {}]
    IN
    /\ build[t].runs < scenario.runs /\ Stale(t, docsRs)
    /\ Step(t, "idle",
            IF docsRs THEN {[b EXCEPT !.result = "ok"]}
            ELSE IF TargetRid(t) \notin Rids THEN {Panic(b)}
            ELSE {[b EXCEPT !.pc = "copysrc", !.todo = EntriesToCopy,
                            !.watched = IF InRepo THEN {"repo"} ELSE {}]})

\* copy_dir_recursive: one entry after the other, each cut off first and then
\* written.  An error ends the copy, perhaps within a file (one that is deleted
\* meanwhile, at the latest), and is only a warning; nothing is ever removed
\* from the crate.
CopyBegins(t, f) ==
    /\ build[t].pc = "copysrc" /\ build[t].writing = {} /\ f \in build[t].todo /\ repo[f] # Absent
    /\ crate' = [crate EXCEPT ![f] = CutOff]
    /\ build' = [u \in Targets |-> [build[u] EXCEPT !.touched = @ \cup {"crate"},
                                                    !.writing = IF u = t THEN {f} ELSE @]]
    /\ UNCHANGED envVars

CopyWrites(t, f) ==
    /\ build[t].pc = "copysrc" /\ f \in build[t].writing /\ repo[f] # Absent
    /\ crate' = [crate EXCEPT ![f] = repo[f]]
    /\ build' = [u \in Targets |-> [build[u] EXCEPT !.touched = @ \cup {"crate"},
                                                    !.writing = IF u = t THEN {} ELSE @,
                                                    !.todo = IF u = t THEN @ \ {f} ELSE @]]
    /\ UNCHANGED envVars

CopyEnds(t) ==
    LET left == build[t].todo IN
    /\ left = {} \/ "copysrc" \in build[t].fault \/ \E f \in left : repo[f] = Absent
    /\ Step(t, "copysrc", {[build[t] EXCEPT !.pc = "choose", !.todo = {}, !.writing = {},
                                            !.fault = IF left = {} THEN @ ELSE @ \cup {"copysrc"}]})

\* run: which of the three.
Choose(t) ==
    Step(t, "choose",
         IF BigEnough(staged[TargetRid(t)].lib)
         THEN {[build[t] EXCEPT !.chosen = "prebuild", !.pc = "install"]}
         ELSE {[build[t] EXCEPT !.pc = IF crate[GoMod] # Absent THEN "gobuild" ELSE "curl"]})

\* Mutant of GoFails: the exit status of go is not looked at.
GoStatusIgnored(t) ==
    /\ "go" \in build[t].fault
    /\ Step(t, "gobuild",
            {IF BigEnough(build[t].out) THEN [build[t] EXCEPT !.pc = "install", !.chosen = "source"]
             ELSE [build[t] EXCEPT !.pc = "curl"]})

\* try_build_from_source, when go cannot be run or fails, as it may do because
\* a file is cut off.
GoFails(t) ==
    /\ "go" \in build[t].fault \/ \E f \in Files : crate[f] = CutOff
    /\ Step(t, "gobuild", {[build[t] EXCEPT !.pc = "curl", !.fault = @ \cup {"go"}]})

\* try_build_from_source, when go succeeds.  The def file is copied, an error
\* ignored, before the library's size is looked at.
GoBuilds(t) ==
    LET tiny == "gotiny" \in build[t].fault
        hasDef == Windows(t) /\ crate[Def] # Absent /\ "ignored" \notin build[t].fault
        b == [build[t] EXCEPT !.outDef = IF hasDef THEN crate[Def] ELSE @, !.touched = @ \cup {"out"}]
    IN
    /\ "go" \notin build[t].fault
    /\ Step(t, "gobuild",
            {IF tiny THEN [b EXCEPT !.out = Stub, !.pc = "curl"]
             ELSE [b EXCEPT !.out = [from |-> "source", of |-> crate], !.watched = @ \cup {"crate"},
                            !.chosen = "source", !.pc = "install"]})

\* download_from_release up to the check that the file is a gzip.
Curl(t) ==
    LET b == build[t] IN
    Step(t, "curl",
         CASE "curl" \in b.fault -> {Panic([b EXCEPT !.archive = a]) : a \in {b.archive, "part"}}
           [] "html" \in b.fault -> {Panic([b EXCEPT !.archive = "none"])}
           [] OTHER -> {[b EXCEPT !.pc = "tar", !.archive =
                 CASE "tar" \in b.fault -> "corrupt" [] "layout" \in b.fault -> "layout"
                   [] "tiny" \in b.fault -> "tiny" [] OTHER -> "good"]})

\* The rest of download_from_release.  What is unpacked is as old as it was when
\* it was packed.  A tarball of another layout writes neither the library nor
\* the def file where they are looked for.
Tar(t) ==
    LET b == build[t]
        done == [b EXCEPT !.archive = "none"]
        unpacked == [done EXCEPT !.touched = @ \ {"out"}]
        Checked(c) == IF BigEnough(c.out) THEN [c EXCEPT !.chosen = "download", !.pc = "install"]
                      ELSE Panic(c)
    IN
    Step(t, "tar",
         CASE b.archive = "corrupt" -> {Panic([b EXCEPT !.out = lib]) : lib \in CutShort(t)}
           [] b.archive = "layout" -> {Checked(done)}
           [] b.archive = "tiny" -> {Checked([unpacked EXCEPT !.out = Stub])}
           [] OTHER -> {Checked([unpacked EXCEPT !.out = Release(ReleaseVersion),
                                                 !.outDef = IF Windows(t) THEN ReleaseVersion ELSE @])})

\* Mutant of FromPrebuild: the prebuild is not watched.
UnwatchedPrebuild(t) == [build[t] EXCEPT !.out = staged[TargetRid(t)].lib, !.touched = @ \cup {"out"}]

\* Mutant of FromOutDir: the library is copied onto itself.
CopiedOntoItself(t) == [build[t] EXCEPT !.watched = @ \cup {"out"}, !.out = Stub]

\* The library is copied to OUT_DIR unless it is there already.
FromPrebuild(t) == [build[t] EXCEPT !.watched = @ \cup {"staged"}, !.touched = @ \cup {"out"},
                                    !.out = staged[TargetRid(t)].lib]
FromOutDir(t) == [build[t] EXCEPT !.watched = @ \cup {"out"}]

\* run from the choice to the check of the size.
Install(t) ==
    LET prebuilt == build[t].chosen = "prebuild"
        b == IF prebuilt THEN FromPrebuild(t) ELSE FromOutDir(t)
    IN
    /\ prebuilt => staged[TargetRid(t)].lib # NoLib
    /\ Step(t, "install", {IF ~BigEnough(b.out) THEN Panic(b)
                           ELSE [b EXCEPT !.pc = IF Windows(t) THEN "implib" ELSE "target"]})

\* The prebuild has gone, or it cannot be copied and the copy is incomplete.
InstallFails(t) ==
    /\ build[t].chosen = "prebuild" /\ "copy" \in build[t].fault
    /\ Step(t, "install", {Panic([build[t] EXCEPT !.out = lib]) : lib \in CutShort(t)})

\* Mutant of DefDir: the def file is always looked for in OUT_DIR.
DefInOutDir(t) == build[t].outDef

\* The def file next to the library that was chosen.
DefDir(t) == IF build[t].chosen = "prebuild" THEN staged[TargetRid(t)].def ELSE build[t].outDef

\* generate_import_lib_windows: no def file, no import library, no error.
MakeImportLib(t) ==
    Step(t, "implib",
         {IF DefDir(t) = Absent THEN [build[t] EXCEPT !.pc = "target"]
          ELSE IF "libexe" \in build[t].fault THEN Panic(build[t])
          ELSE [build[t] EXCEPT !.pc = "target", !.implib = DefDir(t)]})

\* copy_lib_to_target: an error is ignored, whatever it leaves.
LoadedAfter(t) ==
    IF "ignored" \in build[t].fault THEN {build[t].loaded, Stub, Cut} ELSE {build[t].out}

\* The end of run.
CopyToTarget(t) ==
    Step(t, "target", {[build[t] EXCEPT !.loaded = lib, !.pc = "idle", !.result = "ok"] :
                          lib \in LoadedAfter(t)})

\* The script is killed: a file it was writing is left incomplete.
Kill(t) ==
    LET b == [build[t] EXCEPT !.todo = {}, !.writing = {}]
        writesOut == <<b.pc, b.chosen>> \in {<<"gobuild", "none">>, <<"tar", "none">>, <<"install", "prebuild">>}
    IN
    /\ Running(t) /\ "kill" \in b.fault
    /\ Step(t, b.pc,
            {Panic([b EXCEPT !.out = IF writesOut THEN lib ELSE @,
                             !.loaded = IF b.pc = "target" THEN lib ELSE @,
                             !.archive = IF b.pc = "curl" THEN "part" ELSE @]) : lib \in {Stub, Cut}})

-----------------------------------------------------------------------------
Environment ==
    \/ \E f \in Files : EditSource(f) \/ DeleteSource(f)
    \/ \E t \in scenario.targets :
          /\ TargetRid(t) \in Rids
          /\ (\E lib \in Stageable : StageLib(TargetRid(t), lib)) \/ StageDef(TargetRid(t)) \/ Unstage(TargetRid(t))

Script(t) ==
    \/ \E f \in Files : CopyBegins(t, f) \/ CopyWrites(t, f)
    \/ CopyEnds(t) \/ Choose(t) \/ GoFails(t) \/ GoBuilds(t) \/ Curl(t) \/ Tar(t)
    \/ Install(t) \/ InstallFails(t) \/ MakeImportLib(t) \/ CopyToTarget(t) \/ Kill(t)

CargoBuild(t) ==
    \E F \in {F \in SUBSET scenario.faults : Cardinality(F) <= 2}, docsRs \in BOOLEAN : Start(t, F, docsRs)

SysBuildNext == Environment \/ \E t \in scenario.targets : CargoBuild(t) \/ Script(t)

SysBuildSpec == SysBuildInit /\ [][SysBuildNext]_sysBuildVars

-----------------------------------------------------------------------------
\* Properties

\* Built in t by a run that got as far as the linker directives.
Linked(t) == ~Running(t) /\ build[t].result = "ok" /\ build[t].chosen # "none"

\* A build that succeeds links a complete library from the source it chose
\* in that very run, whatever files earlier runs that failed or were killed
\* have left in OUT_DIR, and downloads no release but the crate's own.  (Only an
\* incomplete prebuild passes the size check.)  Programs load that very library,
\* unless the copy next to them failed, which the script ignores.
LinkedIsChosen ==
    \A t \in Targets : Linked(t) =>
        /\ CASE build[t].chosen = "prebuild" -> build[t].out.from \in {"staged", "cut"}
             [] build[t].chosen = "source" -> build[t].out.from = "source"
             [] build[t].chosen = "download" -> build[t].out = Release(CrateVersion)
        /\ "ignored" \notin build[t].fault => build[t].loaded = build[t].out

\* No leftover of an earlier run makes a run fail: when one fails, something
\* went wrong in that run on the way it took to the library.
FailureExplained ==
    \A t \in Targets : build[t].result = "failed" /\ ~Running(t) =>
        LET b == build[t] IN
        \/ TargetRid(t) \notin Rids
        \/ "kill" \in b.fault
        \/ b.chosen = "prebuild" /\ "copy" \in b.fault
        \/ "libexe" \in b.fault /\ Windows(t)
        \/ /\ b.chosen = "none"
           /\ b.fault \cap {"curl", "html", "tar", "tiny", "layout"} # {}
           /\ \/ b.fault \cap {"go", "gotiny"} # {}
              \/ "copysrc" \in b.fault /\ b.atStart[GoMod] # Absent

\* When cargo build, without DOCS_RS, sees no reason to run the script, the
\* repository is as it was when the script last ran, and OUT_DIR holds the
\* library that is staged: a prebuild replaced or removed later is never missed.
\* Only after a download nothing looks for a prebuild again; a library built of
\* the source is always built anew.
UpToDate ==
    \A t \in Targets : ~Running(t) /\ ~Stale(t, FALSE) =>
        /\ repo = build[t].atStart
        /\ \/ build[t].chosen = "prebuild" /\ build[t].out = staged[TargetRid(t)].lib
           \/ build[t].chosen = "download"

\* A library built in the repository has each file as it was when the run
\* started or later, and no file that the repository no longer had, also when
\* runs in two target directories share the copy inside the crate.  Only a run
\* in another target directory may have cut a file off, to copy it.
BuiltFromFreshCopy ==
    \A t \in Targets : \A f \in Files :
        Linked(t) /\ build[t].chosen = "source" /\ "copysrc" \notin build[t].fault
        /\ build[t].atStart[GoMod] # Absent =>
            LET content == build[t].out.of[f] IN
            IF build[t].atStart[f] # Absent
            THEN content >= build[t].atStart[f] \/ (content = CutOff /\ scenario.targets # {t})
            ELSE repo[f] = Absent => content = Absent

\* The prebuild is a library with its own def file, and has been since the run
\* in t started.  The script that stages them may be stopped between the two.
StagedTogether(t) ==
    LET s == staged[TargetRid(t)] IN
    s.def = s.lib.of[Def] /\ build[t].touched \cap {"staged", "stageddef"} = {}

\* The import library that Windows links with is made from the def file of
\* the library that was chosen, unless a copy failed without notice or what was
\* staged did not fit together.
ImportLibMatches ==
    \A t \in {u \in Targets : Windows(u) /\ build[u].fault \cap {"ignored", "copy"} = {}} :
        Linked(t) /\ build[t].out # Cut /\ (build[t].chosen = "prebuild" => StagedTogether(t)) =>
            build[t].implib = build[t].out.of[Def]
=============================================================================
