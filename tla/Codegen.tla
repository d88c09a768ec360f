------------------------------ MODULE Codegen -------------------------------
(***************************************************************************)
(* The generated code of spicedb-grpc-tonic: the build script that runs    *)
(* buf and tonic unless src/generated/ is checked in, the include! of the  *)
(* generated files, and regenerate-spicedb-grpc-tonic.sh, which empties    *)
(* src/generated/ and fills it again from an OUT_DIR.  Nobody else builds  *)
(* while that script runs, as in the release workflow.                     *)
(***************************************************************************)
EXTENDS Naturals

CONSTANTS
    OutDirs,     \* the OUT_DIRs under target/
    ScriptDir,   \* the one that a plain cargo build uses
    Pkgs,        \* the generated files, one per package
    Api,         \* of these, authzed.api.v1.rs
    MaxUpdates,  \* bounds the updates of the protos
    MaxBuilds    \* bounds the cargo builds

ASSUME CodegenAssumption ==
    /\ ScriptDir \in OutDirs /\ Api \in Pkgs
    /\ MaxUpdates \in Nat /\ MaxBuilds \in Nat

VARIABLES
    proto,    \* the version of the protos that buf gets
    removed,  \* for each package that has been removed from them, since which version
    exported, \* buf_export/ in each OUT_DIR: the version of each package's protos
    out,      \* each OUT_DIR: the version of each generated file
    gen,      \* the same in src/generated/
    cargo,    \* the last cargo build in each
    builds,   \* counter
    regen     \* the shell script: its step, the OUT_DIR it found, files to copy

protoVars == <<proto, removed>>
codegenVars == <<protoVars, exported, out, gen, cargo, builds, regen>>

Missing == 0
NoFiles == [p \in Pkgs |-> Missing]
Complete(files) == \A p \in Pkgs : files[p] # Missing

\* stale: what the build script asked to watch has changed since it ran.
CodegenInit ==
    /\ proto = 1 /\ removed = NoFiles /\ gen = NoFiles
    /\ exported = [o \in OutDirs |-> NoFiles] /\ out = [o \in OutDirs |-> NoFiles]
    /\ cargo = [o \in OutDirs |-> [result |-> "none", checkedIn |-> FALSE, stale |-> TRUE]]
    /\ builds = 0
    /\ regen = [at |-> "idle", dir |-> ScriptDir, todo |-> {}]

-----------------------------------------------------------------------------
\* cargo build

Offered == {p \in Pkgs : removed[p] = Missing}

\* A new version of the API, perhaps without a package that no other file needs
\* any more, or an edit of proto/, which is watched.
Update(watched, dropped) ==
    /\ proto <= MaxUpdates /\ regen.at = "idle" /\ dropped \subseteq Offered \ {Api}
    /\ proto' = proto + 1
    /\ removed' = [p \in Pkgs |-> IF p \in dropped THEN proto + 1 ELSE removed[p]]
    /\ cargo' = [o \in OutDirs |-> [cargo[o] EXCEPT !.stale = @ \/ (watched /\ ~cargo[o].checkedIn)]]
    /\ UNCHANGED <<exported, out, gen, builds, regen>>

\* Mutant of CheckedIn: the file is looked for under another name.
NeverCheckedIn == FALSE

CheckedIn == gen[Api] # Missing

MayBuild(o) == builds < MaxBuilds /\ (regen.at = "idle" \/ (regen.at = "build" /\ o = ScriptDir))
RunsScript(o) == cargo[o].result # "ok" \/ cargo[o].stale

\* The include! of every package, from src/generated/ or from OUT_DIR.
Compiles(o, checkedIn) == IF checkedIn THEN Complete(gen) ELSE Complete(out'[o])

Built(o, checkedIn) ==
    /\ builds' = builds + 1
    /\ cargo' = [cargo EXCEPT ![o] = [checkedIn |-> checkedIn, stale |-> FALSE,
                                      result |-> IF Compiles(o, checkedIn) THEN "ok" ELSE "failed"]]
    /\ regen' = IF regen.at # "build" THEN regen
                ELSE [regen EXCEPT !.at = IF cargo'[o].result = "ok" THEN "find" ELSE "idle"]
    /\ UNCHANGED <<protoVars, gen>>

\* Cargo sees no reason to run the build script.
Rebuild(o) ==
    /\ MayBuild(o) /\ ~RunsScript(o)
    /\ UNCHANGED <<exported, out>>
    /\ Built(o, cargo[o].checkedIn)

\* main, when the generated code is there.
UseCheckedIn(o) ==
    /\ MayBuild(o) /\ RunsScript(o) /\ CheckedIn
    /\ UNCHANGED <<exported, out>>
    /\ Built(o, TRUE)

\* buf writes the protos of these packages, and leaves the others in place.
Exports(o, pkgs) ==
    exported' = [exported EXCEPT ![o] = [p \in Pkgs |-> IF p \in pkgs THEN proto ELSE @[p]]]

\* compile_protos writes the files of these packages, of what has been exported.
Compile(o, pkgs) ==
    out' = [out EXCEPT ![o] = [p \in Pkgs |-> IF p \in pkgs THEN exported'[o][p] ELSE @[p]]]
Exported(o) == {p \in Pkgs : exported'[o][p] # Missing}

\* main and run_buf_and_tonic: dep update, export, and compile_protos of every
\* proto in buf_export/, which nothing ever empties.
Generate(o) ==
    /\ MayBuild(o) /\ RunsScript(o) /\ ~CheckedIn
    /\ Exports(o, Offered) /\ Compile(o, Exported(o))
    /\ Built(o, FALSE)

\* Mutant of GenerateFails: the error of compile_protos is only a warning.
GenerateFailureIgnored(o) ==
    /\ MayBuild(o) /\ RunsScript(o) /\ ~CheckedIn
    /\ Exports(o, Offered) /\ \E pkgs \in SUBSET Exported(o) : Compile(o, pkgs)
    /\ Built(o, FALSE)

\* One of the three fails, perhaps half way, or buf or protoc is not installed.
GenerateFails(o) ==
    /\ MayBuild(o) /\ RunsScript(o) /\ ~CheckedIn
    /\ \/ (\E pkgs \in SUBSET Offered : Exports(o, pkgs)) /\ UNCHANGED out
       \/ Exports(o, Offered) /\ \E pkgs \in SUBSET Exported(o) : Compile(o, pkgs)
    /\ builds' = builds + 1
    /\ cargo' = [cargo EXCEPT ![o] = [checkedIn |-> FALSE, stale |-> FALSE, result |-> "failed"]]
    /\ regen' = [regen EXCEPT !.at = "idle"]
    /\ UNCHANGED <<protoVars, gen>>

-----------------------------------------------------------------------------
\* regenerate-spicedb-grpc-tonic.sh

\* Whatever is done to src/generated/ is noticed by the builds that watch it.
WritesGenerated ==
    /\ cargo' = [o \in OutDirs |-> [cargo[o] EXCEPT !.stale = @ \/ cargo[o].checkedIn]]
    /\ UNCHANGED <<protoVars, exported, out, builds>>

RegenStart ==
    /\ regen.at = "idle"
    /\ gen' = NoFiles
    /\ regen' = [regen EXCEPT !.at = "build"]
    /\ WritesGenerated

\* The first OUT_DIR that find lists, of those with the API.
RegenFind(o) ==
    /\ regen.at = "find" /\ out[o][Api] # Missing
    /\ regen' = [at |-> "copy", dir |-> o, todo |-> {p \in Pkgs : out[o][p] # Missing}]
    /\ UNCHANGED <<protoVars, exported, out, gen, cargo, builds>>

\* In alphabetical order: the API is the first.
NextToCopy(todo) == IF Api \in todo THEN {Api} ELSE todo

RegenCopy ==
    /\ regen.at = "copy"
    /\ \E p \in NextToCopy(regen.todo) :
          /\ gen' = [gen EXCEPT ![p] = out[regen.dir][p]]
          /\ regen' = [regen EXCEPT !.todo = @ \ {p}]
    /\ WritesGenerated

RegenDone ==
    /\ regen.at = "copy" /\ regen.todo = {}
    /\ regen' = [regen EXCEPT !.at = "done"]
    /\ UNCHANGED <<protoVars, exported, out, gen, cargo, builds>>

\* It is over; or a command fails, or it is stopped, half way.
RegenEnds ==
    /\ regen.at # "idle"
    /\ regen' = [regen EXCEPT !.at = "idle", !.todo = {}]
    /\ UNCHANGED <<protoVars, exported, out, gen, cargo, builds>>

-----------------------------------------------------------------------------
CrateBuild(o) == Rebuild(o) \/ UseCheckedIn(o) \/ Generate(o) \/ GenerateFails(o)
Regenerate == RegenStart \/ (\E o \in OutDirs : RegenFind(o)) \/ RegenCopy \/ RegenDone \/ RegenEnds

CodegenNext ==
    \/ \E watched \in BOOLEAN, dropped \in SUBSET Pkgs : Update(watched, dropped)
    \/ Regenerate
    \/ \E o \in OutDirs : CrateBuild(o)

CodegenSpec == CodegenInit /\ [][CodegenNext]_codegenVars

-----------------------------------------------------------------------------
\* Properties

\* The files of a version: all that it had are of that version, and those of
\* packages it no longer had are left over from before they were removed.
Generation(files) ==
    \A p \in Pkgs :
        IF removed[p] \in 1 .. files[Api] THEN files[p] \in 1 .. (removed[p] - 1)
        ELSE files[p] = files[Api] /\ files[p] # Missing

\* A crate that compiles is made of the files of one version, also after builds
\* that failed and runs of the script that were stopped; of code that is checked
\* in this holds if the script found the OUT_DIR that it had just built.
OneGeneration ==
    \A o \in OutDirs : cargo[o].result = "ok" /\ ~cargo[o].stale =>
        IF cargo[o].checkedIn THEN regen.dir = ScriptDir => Generation(gen) ELSE Generation(out[o])

\* When the script is done it has copied the most recent code under target/ (the
\* comment on its line 18).
MostRecentCopied ==
    regen.at = "done" => \A o \in OutDirs : out[o][Api] <= gen[Api]

\* With the generated code checked in, as in the published crate, a build
\* needs neither buf nor protoc: nothing of it can fail.
NoToolsNeeded ==
    [][Complete(gen) => \A o \in OutDirs : cargo'[o].result = "failed" => cargo[o].result = "failed"]_codegenVars
=============================================================================
