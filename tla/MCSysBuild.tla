----------------------------- MODULE MCSysBuild -----------------------------
(***************************************************************************)
(* Small instances of SysBuild for TLC.                                    *)
(***************************************************************************)
EXTENDS SysBuild

CONSTANTS t1, t2, w, bad, gomod, def

\* Two Linux target directories, a Windows one, and one that is not supported.
MCPlatform ==
    [t \in Targets |-> CASE t = w -> <<"windows", "x86_64">>
                         [] t = bad -> <<"freebsd", "x86_64">>
                         [] OTHER -> <<"linux", "x86_64">>]

\* Runs that fail or are killed, and what they leave to the next; and the same
\* when a prebuild is staged.
Leftovers == [targets |-> {t1}, runs |-> 2, deletes |-> FALSE, edits |-> 0, stages |-> 0,
              faults |-> {"kill", "copysrc", "go", "gotiny", "curl", "html", "tar", "tiny", "ignored"}]
StagedLeftovers == [Leftovers EXCEPT !.stages = 1, !.faults = {"kill", "go", "tar", "copy", "ignored"}]

\* Prebuilds that come and go.
Reruns == [targets |-> {t1}, runs |-> 2, deletes |-> FALSE, edits |-> 1, stages |-> 2, faults |-> {"go"}]

\* Builds that share the copy of the source in the crate, and one that fails.
SharedCopy == [targets |-> {t1, t2}, runs |-> 1, deletes |-> FALSE, edits |-> 1, stages |-> 0,
               faults |-> {"kill"}]
Unsupported == [SharedCopy EXCEPT !.targets = {bad}, !.runs = 2]

\* A prebuild with a def file, and one that is staged over another.
ImportLibs == [targets |-> {w}, runs |-> 2, deletes |-> FALSE, edits |-> 1, stages |-> 1,
               faults |-> {"go", "libexe"}]
Restaged == [ImportLibs EXCEPT !.runs = 1, !.stages = 2, !.faults = {}]

\* A def file that is deleted before or during the first run.
NoDef == [targets |-> {w}, runs |-> 1, deletes |-> TRUE, edits |-> 1, stages |-> 1,
          faults |-> {"go", "gotiny"}]

AllScenarios == {Leftovers, StagedLeftovers, Reruns, SharedCopy, Unsupported, ImportLibs, Restaged, NoDef}

\* A tarball of another layout, and a file that is deleted between two runs.
WrongLayout == {[Leftovers EXCEPT !.faults = {"kill", "go", "layout"}]}
Deletion == {[Reruns EXCEPT !.faults = {}, !.stages = 0, !.deletes = TRUE]}
=============================================================================
