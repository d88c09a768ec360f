------------------------------ MODULE MCParts -------------------------------
(***************************************************************************)
(* Small instances of TraceContext, StartOptions, Loading, Drive, SysBuild *)
(* and Codegen for TLC.  The six share no state, so one run of TLC         *)
(* explores the behaviours of each, while the others rest.                 *)
(***************************************************************************)
EXTENDS TraceContext, StartOptions, Loading, Drive, MCSysBuild, Codegen

CONSTANTS alice, doc1, root, marketing, team

\* A caller's context, and the headers it may have put on a stream.
MCSpan == [otel : BOOLEAN, valid : BOOLEAN, parent : {<<"span">>}, state : {<<>>, <<"s">>}]
MCGiven == [traceparent : {<<>>, <<"own">>}, tracestate : {<<>>, <<"a">>, <<"a", "b">>}]

\* The default relationships, a cycle of folders, and views that are granted
\* three, two and no folders up from the document.
MCSeed == {<<doc1, "folder", marketing>>, <<marketing, "parent", root>>}
MCRels == MCSeed \cup {<<root, "parent", marketing>>, <<root, "parent", team>>,
                       <<team, "viewer", alice>>, <<root, "viewer", alice>>, <<doc1, "viewer", alice>>}

VARIABLE looksAt

vars == <<traceVars, optionsVars, loadingVars, driveVars, sysBuildVars, codegenVars, looksAt>>

TraceRests == req = <<>> /\ md = <<>> /\ at = "nowhere"
OptionsRest == call = <<>> /\ wire = <<>> /\ opts = <<>> /\ effect = <<>>
LoadingRests == LoadingInit /\ lang = "java" /\ hasRpc
DriveRests == DriveInit /\ revs = <<{}>>
SysBuildRests == SysBuildInit /\ scenario = SharedCopy /\ InRepo

Init ==
    /\ looksAt \in {"TraceContext", "StartOptions", "Loading", "Drive", "SysBuild", "Codegen"}
    /\ IF looksAt = "TraceContext" THEN TraceInit ELSE TraceRests
    /\ IF looksAt = "StartOptions" THEN OptionsInit ELSE OptionsRest
    /\ IF looksAt = "Loading" THEN LoadingInit ELSE LoadingRests
    /\ IF looksAt = "Drive" THEN DriveInit ELSE DriveRests
    /\ IF looksAt = "SysBuild" THEN SysBuildInit ELSE SysBuildRests
    /\ CodegenInit

Next ==
    /\ \/ looksAt = "TraceContext" /\ TraceNext
          /\ UNCHANGED <<optionsVars, loadingVars, driveVars, sysBuildVars, codegenVars>>
       \/ looksAt = "StartOptions" /\ OptionsNext
          /\ UNCHANGED <<traceVars, loadingVars, driveVars, sysBuildVars, codegenVars>>
       \/ looksAt = "Loading" /\ LoadingNext
          /\ UNCHANGED <<traceVars, optionsVars, driveVars, sysBuildVars, codegenVars>>
       \/ looksAt = "Drive" /\ DriveNext
          /\ UNCHANGED <<traceVars, optionsVars, loadingVars, sysBuildVars, codegenVars>>
       \/ looksAt = "SysBuild" /\ SysBuildNext
          /\ UNCHANGED <<traceVars, optionsVars, loadingVars, driveVars, codegenVars>>
       \/ looksAt = "Codegen" /\ CodegenNext
          /\ UNCHANGED <<traceVars, optionsVars, loadingVars, driveVars, sysBuildVars>>
    /\ UNCHANGED looksAt

Spec == Init /\ [][Next]_vars /\ DriveFairness
=============================================================================
