---------------------------- MODULE CodegenProofs ----------------------------
(***************************************************************************)
(* The generated code of spicedb-grpc-tonic: a build needs no tools once   *)
(* src/generated/ is complete, and a crate that compiles is made of files  *)
(* of one version of the protos, in as many OUT_DIRs as there are.         *)
(***************************************************************************)
EXTENDS Codegen, TLAPS

Result == [result : {"none", "ok", "failed"}, checkedIn : BOOLEAN, stale : BOOLEAN]
Script == [at : {"idle", "build", "find", "copy", "done"}, dir : OutDirs, todo : SUBSET Pkgs]

CodegenTypeOK ==
    /\ proto \in Nat \ {0} /\ builds \in Nat /\ removed \in [Pkgs -> Nat]
    /\ gen \in [Pkgs -> Nat]
    /\ exported \in [OutDirs -> [Pkgs -> Nat]] /\ out \in [OutDirs -> [Pkgs -> Nat]]
    /\ cargo \in [OutDirs -> Result]
    /\ regen \in Script

\* No file is of a version that is still to come, or that it was not part of.
Past(files) ==
    \A p \in Pkgs : files[p] <= proto /\ (removed[p] # Missing => files[p] < removed[p])

Versions ==
    /\ CodegenTypeOK
    /\ removed[Api] = Missing /\ \A p \in Pkgs : removed[p] <= proto
    /\ Past(gen) /\ \A o \in OutDirs : Past(exported[o]) /\ Past(out[o])

\* What was generated without error stays until it is generated again.
OutInv ==
    /\ Versions
    /\ \A o \in OutDirs : cargo[o].result = "ok" /\ ~cargo[o].checkedIn => Generation(out[o])

\* The script has emptied src/generated/ before it builds, and what it copies
\* is, in ScriptDir, what that build made.
GenInv ==
    /\ \A o \in OutDirs : cargo[o].result = "ok" /\ ~cargo[o].stale /\ cargo[o].checkedIn => Complete(gen)
    /\ regen.at \in {"build", "find"} => gen = NoFiles
    /\ regen.at = "build" => \A o \in OutDirs : cargo[o].checkedIn => cargo[o].stale
    /\ regen.at = "find" => Generation(out[ScriptDir])
    /\ regen.dir = ScriptDir => /\ Complete(gen) => Generation(gen)
                                /\ regen.at = "copy" =>
                                      /\ Generation(out[ScriptDir])
                                      /\ \A p \in Pkgs : gen[p] \in {Missing, out[ScriptDir][p]}

CodegenInv == OutInv /\ GenInv

-----------------------------------------------------------------------------
\* The records and the files

LEMMA GoesStale ==
    ASSUME NEW c \in Result, NEW b \in BOOLEAN
    PROVE  /\ [c EXCEPT !.stale = @ \/ b] \in Result
           /\ [c EXCEPT !.stale = @ \/ b].result = c.result
           /\ [c EXCEPT !.stale = @ \/ b].checkedIn = c.checkedIn
           /\ ~[c EXCEPT !.stale = @ \/ b].stale => ~c.stale /\ ~b
<1>1. c.stale \in BOOLEAN /\ (c.stale \/ b) \in BOOLEAN
  BY DEF Result
<1>2. PICK s \in BOOLEAN : s = (c.stale \/ b)
  BY <1>1
<1>3. [c EXCEPT !.stale = @ \/ b] = [c EXCEPT !.stale = s]
  BY <1>2
<1>4. /\ [c EXCEPT !.stale = s] \in Result /\ [c EXCEPT !.stale = s].result = c.result
      /\ [c EXCEPT !.stale = s].checkedIn = c.checkedIn /\ [c EXCEPT !.stale = s].stale = s
  BY DEF Result
<1> QED
  BY <1>2, <1>3, <1>4

\* A file that is watched has changed: builds may go stale and nothing else.
OnlyStale ==
    /\ cargo' \in [OutDirs -> Result]
    /\ \A o \in OutDirs : /\ cargo'[o].result = cargo[o].result
                          /\ cargo'[o].checkedIn = cargo[o].checkedIn
                          /\ ~cargo'[o].stale => ~cargo[o].stale

LEMMA UpdateStales ==
    ASSUME CodegenTypeOK, NEW watched \in BOOLEAN, NEW dropped, Update(watched, dropped)
    PROVE  OnlyStale
<1>1. cargo' = [o \in OutDirs |-> [cargo[o] EXCEPT !.stale = @ \/ (watched /\ ~cargo[o].checkedIn)]]
  BY DEF Update
<1>2. ASSUME NEW o \in OutDirs
      PROVE  /\ cargo'[o] \in Result
             /\ cargo'[o].result = cargo[o].result
             /\ cargo'[o].checkedIn = cargo[o].checkedIn
             /\ ~cargo'[o].stale => ~cargo[o].stale
  <2>1. cargo[o] \in Result
    BY DEF CodegenTypeOK
  <2>2. PICK b \in BOOLEAN : b = (watched /\ ~cargo[o].checkedIn)
    BY <2>1 DEF Result
  <2>3. cargo'[o] = [cargo[o] EXCEPT !.stale = @ \/ b]
    BY <1>1, <2>2
  <2> QED
    BY <2>1, <2>3, GoesStale
<1>3. cargo' \in [OutDirs -> Result]
  BY <1>1, <1>2
<1> QED
  BY <1>2, <1>3 DEF OnlyStale

LEMMA WritesStale ==
    ASSUME CodegenTypeOK, WritesGenerated
    PROVE  OnlyStale /\ \A o \in OutDirs : cargo'[o].checkedIn => cargo'[o].stale
<1>1. cargo' = [o \in OutDirs |-> [cargo[o] EXCEPT !.stale = @ \/ cargo[o].checkedIn]]
  BY DEF WritesGenerated
<1>2. ASSUME NEW o \in OutDirs
      PROVE  /\ cargo'[o] \in Result
             /\ cargo'[o].result = cargo[o].result
             /\ cargo'[o].checkedIn = cargo[o].checkedIn
             /\ ~cargo'[o].stale => ~cargo[o].stale
             /\ cargo'[o].checkedIn => cargo'[o].stale
  <2>1. cargo[o] \in Result /\ cargo[o].checkedIn \in BOOLEAN
    BY DEF CodegenTypeOK, Result
  <2>2. cargo'[o] = [cargo[o] EXCEPT !.stale = @ \/ cargo[o].checkedIn]
    BY <1>1
  <2> QED
    BY <2>1, <2>2, GoesStale
<1>3. cargo' \in [OutDirs -> Result]
  BY <1>1, <1>2
<1> QED
  BY <1>2, <1>3 DEF OnlyStale

\* A file of an older version, or none, fits the files of a version for good.
LEMMA StaysGeneration ==
    ASSUME NEW files \in [Pkgs -> Nat], Versions, files[Api] <= proto, Generation(files),
           removed' \in [Pkgs -> Nat],
           \A p \in Pkgs : removed'[p] = removed[p] \/ (removed[p] = Missing /\ removed'[p] = proto + 1)
    PROVE  \A p \in Pkgs :
               IF removed'[p] \in 1 .. files[Api] THEN files[p] \in 1 .. (removed'[p] - 1)
               ELSE files[p] = files[Api] /\ files[p] # Missing
<1> TAKE p \in Pkgs
<1>1. files[Api] \in Nat /\ proto \in Nat /\ removed[p] \in Nat /\ Api \in Pkgs
  BY CodegenAssumption DEF Versions, CodegenTypeOK
<1>2. IF removed[p] \in 1 .. files[Api] THEN files[p] \in 1 .. (removed[p] - 1)
      ELSE files[p] = files[Api] /\ files[p] # Missing
  BY DEF Generation
<1>3. removed'[p] = removed[p] \/ (removed[p] = 0 /\ removed'[p] = proto + 1)
  BY DEF Missing
<1>4. CASE removed'[p] = removed[p]
  BY <1>2, <1>4
<1>5. CASE removed[p] = 0 /\ removed'[p] = proto + 1
  <2>1. removed[p] \notin 1 .. files[Api] /\ removed'[p] \notin 1 .. files[Api]
    BY <1>1, <1>5
  <2> QED
    BY <1>2, <2>1
<1> QED
  BY <1>3, <1>4, <1>5

LEMMA GenerationIsComplete ==
    ASSUME NEW files, Generation(files)
    PROVE  Complete(files)
BY DEF Generation, Complete, Missing

\* What the script writes into an OUT_DIR is of today, or was there already.
LEMMA ExportsPast ==
    ASSUME Versions, NEW o \in OutDirs, NEW pkgs \in SUBSET Offered, Exports(o, pkgs)
    PROVE  /\ exported' \in [OutDirs -> [Pkgs -> Nat]]
           /\ \A d \in OutDirs : Past(exported'[d])
           /\ exported'[o] = [p \in Pkgs |-> IF p \in pkgs THEN proto ELSE exported[o][p]]
<1> DEFINE new == [p \in Pkgs |-> IF p \in pkgs THEN proto ELSE exported[o][p]]
<1>1. new \in [Pkgs -> Nat] /\ Past(new)
  BY DEF Versions, CodegenTypeOK, Past, Offered, Missing
<1>2. exported' = [exported EXCEPT ![o] = new]
  BY DEF Exports
<1> HIDE DEF new
<1>3. /\ exported'[o] = new /\ exported' \in [OutDirs -> [Pkgs -> Nat]]
      /\ \A d \in OutDirs \ {o} : exported'[d] = exported[d]
  BY <1>1, <1>2 DEF Versions, CodegenTypeOK
<1>4. \A d \in OutDirs : Past(exported'[d])
  BY <1>1, <1>3 DEF Versions
<1> QED
  BY <1>3, <1>4 DEF new

LEMMA CompilePast ==
    ASSUME Versions, NEW o \in OutDirs, NEW pkgs, Compile(o, pkgs),
           exported' \in [OutDirs -> [Pkgs -> Nat]], \A d \in OutDirs : Past(exported'[d])
    PROVE  /\ out' \in [OutDirs -> [Pkgs -> Nat]]
           /\ \A d \in OutDirs : Past(out'[d])
           /\ \A d \in OutDirs \ {o} : out'[d] = out[d]
           /\ out'[o] = [p \in Pkgs |-> IF p \in pkgs THEN exported'[o][p] ELSE out[o][p]]
<1> DEFINE new == [p \in Pkgs |-> IF p \in pkgs THEN exported'[o][p] ELSE out[o][p]]
<1>1. new \in [Pkgs -> Nat] /\ Past(new)
  <2>1. /\ out[o] \in [Pkgs -> Nat] /\ Past(out[o])
        /\ exported'[o] \in [Pkgs -> Nat] /\ Past(exported'[o])
    BY DEF Versions, CodegenTypeOK
  <2>2. new \in [Pkgs -> Nat]
    BY <2>1
  <2> QED
    BY <2>1, <2>2 DEF Past
<1>2. out' = [out EXCEPT ![o] = new]
  BY DEF Compile
<1> HIDE DEF new
<1>3. /\ out'[o] = new /\ out' \in [OutDirs -> [Pkgs -> Nat]]
      /\ \A d \in OutDirs \ {o} : out'[d] = out[d]
  BY <1>1, <1>2 DEF Versions, CodegenTypeOK
<1>4. \A d \in OutDirs : Past(out'[d])
  BY <1>1, <1>3 DEF Versions
<1> QED
  BY <1>3, <1>4 DEF new

-----------------------------------------------------------------------------
\* A build

\* What Built records for a build that used src/generated/ or OUT_DIR.
Outcome(o, checkedIn) ==
    [checkedIn |-> checkedIn, stale |-> FALSE,
     result |-> IF Compiles(o, checkedIn) THEN "ok" ELSE "failed"]

LEMMA BuiltIs ==
    ASSUME CodegenTypeOK, NEW o \in OutDirs, NEW checkedIn \in BOOLEAN, Built(o, checkedIn)
    PROVE  /\ cargo' \in [OutDirs -> Result]
           /\ \A d \in OutDirs \ {o} : cargo'[d] = cargo[d]
           /\ cargo'[o].checkedIn = checkedIn /\ ~cargo'[o].stale
           /\ cargo'[o].result \in {"ok", "failed"}
           /\ cargo'[o].result = "ok" <=> Compiles(o, checkedIn)
           /\ proto' = proto /\ removed' = removed /\ gen' = gen /\ builds' \in Nat
           /\ regen' = IF regen.at # "build" THEN regen
                       ELSE [regen EXCEPT !.at = IF cargo'[o].result = "ok" THEN "find" ELSE "idle"]
<1>1. cargo' = [cargo EXCEPT ![o] = Outcome(o, checkedIn)]
  BY DEF Built, Outcome
<1>2. PICK r \in {"ok", "failed"} :
          Outcome(o, checkedIn) = [checkedIn |-> checkedIn, stale |-> FALSE, result |-> r]
          /\ (r = "ok" <=> Compiles(o, checkedIn))
  <2>1. CASE Compiles(o, checkedIn)
    BY <2>1 DEF Outcome
  <2>2. CASE ~Compiles(o, checkedIn)
    BY <2>2 DEF Outcome
  <2> QED
    BY <2>1, <2>2
<1>3. [checkedIn |-> checkedIn, stale |-> FALSE, result |-> r] \in Result
  BY DEF Result
<1>4. cargo \in [OutDirs -> Result]
  BY DEF CodegenTypeOK
<1>5. /\ cargo' \in [OutDirs -> Result]
      /\ \A d \in OutDirs \ {o} : cargo'[d] = cargo[d]
      /\ cargo'[o] = [checkedIn |-> checkedIn, stale |-> FALSE, result |-> r]
  BY <1>1, <1>2, <1>3, <1>4
<1>6. proto' = proto /\ removed' = removed /\ gen' = gen /\ builds' \in Nat
  BY DEF Built, CodegenTypeOK, protoVars
<1>7. regen' = IF regen.at # "build" THEN regen
               ELSE [regen EXCEPT !.at = IF cargo'[o].result = "ok" THEN "find" ELSE "idle"]
  BY DEF Built
<1> QED
  BY <1>2, <1>5, <1>6, <1>7

\* The script goes on, or gives up when its build failed.
LEMMA RegenAfterBuild ==
    ASSUME CodegenTypeOK, NEW o \in OutDirs, NEW checkedIn \in BOOLEAN, Built(o, checkedIn)
    PROVE  /\ regen' \in Script /\ regen'.dir = regen.dir
           /\ regen'.at # "build"
           /\ regen'.at = regen.at \/ (regen.at = "build" /\ regen'.at \in {"find", "idle"})
           /\ regen.at = "build" /\ regen'.at = "find" => cargo'[o].result = "ok"
<1> DEFINE at == IF cargo'[o].result = "ok" THEN "find" ELSE "idle"
<1>1. regen' = IF regen.at # "build" THEN regen ELSE [regen EXCEPT !.at = at]
  BY BuiltIs
<1>2. at \in {"find", "idle"} /\ (at = "find" => cargo'[o].result = "ok")
  OBVIOUS
<1> HIDE DEF at
<1>3. regen \in Script
  BY DEF CodegenTypeOK
<1> QED
  BY <1>1, <1>2, <1>3 DEF Script

\* What a build may have made of an OUT_DIR.
Made(o) ==
    /\ exported' \in [OutDirs -> [Pkgs -> Nat]] /\ out' \in [OutDirs -> [Pkgs -> Nat]]
    /\ \A d \in OutDirs : Past(exported'[d]) /\ Past(out'[d])
    /\ \A d \in OutDirs \ {o} : out'[d] = out[d]

LEMMA BuiltKeepsOut ==
    ASSUME OutInv, NEW o \in OutDirs, NEW checkedIn \in BOOLEAN, Built(o, checkedIn), Made(o),
           ~checkedIn /\ Complete(out'[o]) => Generation(out'[o])
    PROVE  OutInv'
<1>1. CodegenTypeOK
  BY DEF OutInv, Versions
<1>2. proto' = proto /\ removed' = removed /\ gen' = gen
  BY <1>1, BuiltIs
<1>3. CodegenTypeOK'
  BY <1>1, BuiltIs, RegenAfterBuild DEF CodegenTypeOK, Made
<1>4. Versions'
  BY <1>2, <1>3 DEF Versions, OutInv, Made, Past
<1>5. ASSUME NEW d \in OutDirs, cargo'[d].result = "ok", ~cargo'[d].checkedIn
      PROVE  Generation(out'[d])
  <2>1. CASE d = o
    BY <1>1, <1>5, <2>1, BuiltIs DEF Compiles
  <2>2. CASE d # o
    <3>1. cargo'[d] = cargo[d] /\ out'[d] = out[d]
      BY <1>1, <2>2, BuiltIs DEF Made
    <3> QED
      BY <1>5, <3>1 DEF OutInv
  <2> QED
    BY <2>1, <2>2
<1>6. (\A d \in OutDirs : cargo[d].result = "ok" /\ ~cargo[d].checkedIn => Generation(out[d]))'
  BY <1>2, <1>5 DEF Generation
<1> QED
  BY <1>4, <1>6 DEF OutInv

LEMMA BuiltKeepsGen ==
    ASSUME CodegenInv, OutInv', NEW o \in OutDirs, NEW checkedIn \in BOOLEAN, Built(o, checkedIn),
           MayBuild(o), regen.at = "build" => ~checkedIn
    PROVE  GenInv'
<1>1. OutInv /\ GenInv /\ CodegenTypeOK
  BY DEF CodegenInv, OutInv, Versions
<1>2. /\ gen' = gen /\ removed' = removed /\ cargo'[o].checkedIn = checkedIn
      /\ cargo'[o].result = "ok" <=> Compiles(o, checkedIn)
      /\ \A d \in OutDirs \ {o} : cargo'[d] = cargo[d]
  BY <1>1, BuiltIs
<1>3. /\ regen.at = "idle" \/ (regen.at = "build" /\ o = ScriptDir)
      /\ regen'.dir = regen.dir /\ regen'.at \in {"idle", "find"}
      /\ regen'.at = "find" => regen.at = "build" /\ cargo'[o].result = "ok"
  BY <1>1, RegenAfterBuild DEF MayBuild
<1>4. (\A d \in OutDirs : cargo[d].result = "ok" /\ ~cargo[d].stale /\ cargo[d].checkedIn => Complete(gen))'
  <2>1. cargo'[o].result = "ok" /\ cargo'[o].checkedIn => Complete(gen)
    BY <1>2 DEF Compiles
  <2>2. Complete(gen) => Complete(gen)'
    BY <1>2 DEF Complete
  <2> QED
    BY <1>1, <1>2, <2>1, <2>2 DEF GenInv
<1>5. (regen.at \in {"build", "find"} => gen = NoFiles)'
  BY <1>1, <1>2, <1>3 DEF GenInv, NoFiles
<1>6. (regen.at = "find" => Generation(out[ScriptDir]))'
  <2>1. regen'.at = "find" => cargo'[ScriptDir].result = "ok" /\ ~cargo'[ScriptDir].checkedIn
    BY <1>2, <1>3
  <2> QED
    BY <2>1, CodegenAssumption DEF OutInv
<1>7. (regen.dir = ScriptDir => (Complete(gen) => Generation(gen)))'
  BY <1>1, <1>2, <1>3 DEF GenInv, Complete, Generation
<1> QED
  BY <1>3, <1>4, <1>5, <1>6, <1>7 DEF GenInv

\* The three ways in which a build ends without an error of its script.
LEMMA RebuildIs ==
    ASSUME OutInv, NEW o \in OutDirs, Rebuild(o)
    PROVE  /\ cargo[o].checkedIn \in BOOLEAN /\ Built(o, cargo[o].checkedIn)
           /\ out' = out /\ Made(o) /\ MayBuild(o)
           /\ cargo[o].result = "ok" /\ ~cargo[o].stale
           /\ ~cargo[o].checkedIn => Generation(out'[o])
BY DEF Rebuild, RunsScript, OutInv, Versions, CodegenTypeOK, Result, Made

LEMMA UseCheckedInIs ==
    ASSUME OutInv, NEW o \in OutDirs, UseCheckedIn(o)
    PROVE  Built(o, TRUE) /\ Made(o) /\ MayBuild(o) /\ CheckedIn
BY DEF UseCheckedIn, OutInv, Versions, CodegenTypeOK, Made

\* Files of packages that the protos no longer have are older than that.
LEMMA GenerateIs ==
    ASSUME OutInv, NEW o \in OutDirs, Generate(o)
    PROVE  /\ Built(o, FALSE) /\ Made(o) /\ MayBuild(o) /\ ~CheckedIn
           /\ Complete(out'[o]) => Generation(out'[o])
<1>1. Versions /\ CodegenTypeOK
  BY DEF OutInv, Versions
<1>2. /\ Exports(o, Offered) /\ Compile(o, Exported(o)) /\ Built(o, FALSE)
      /\ MayBuild(o) /\ ~CheckedIn
  BY DEF Generate
<1>3. /\ exported' \in [OutDirs -> [Pkgs -> Nat]] /\ \A d \in OutDirs : Past(exported'[d])
      /\ exported'[o] = [p \in Pkgs |-> IF p \in Offered THEN proto ELSE exported[o][p]]
  BY <1>1, <1>2, ExportsPast
<1>4. /\ out' \in [OutDirs -> [Pkgs -> Nat]] /\ \A d \in OutDirs : Past(out'[d])
      /\ \A d \in OutDirs \ {o} : out'[d] = out[d]
      /\ out'[o] = [p \in Pkgs |-> IF p \in Exported(o) THEN exported'[o][p] ELSE out[o][p]]
  BY <1>1, <1>2, <1>3, CompilePast
<1>5. \A p \in Offered : p \in Pkgs /\ out'[o][p] = proto
  BY <1>1, <1>3, <1>4 DEF Offered, Exported, CodegenTypeOK, Missing
<1>6. Api \in Offered
  BY <1>1, CodegenAssumption DEF Offered, Versions
<1>7. ASSUME Complete(out'[o]), NEW p \in Pkgs
      PROVE  IF removed'[p] \in 1 .. out'[o][Api] THEN out'[o][p] \in 1 .. (removed'[p] - 1)
             ELSE out'[o][p] = out'[o][Api] /\ out'[o][p] # Missing
  <2>1. removed' = removed /\ out'[o][Api] = proto /\ proto \in Nat \ {0} /\ removed[p] \in Nat
    BY <1>1, <1>2, <1>5, <1>6, BuiltIs DEF CodegenTypeOK
  <2>2. CASE p \in Offered
    BY <1>5, <2>1, <2>2 DEF Offered, Missing
  <2>3. CASE p \notin Offered
    <3>1. removed[p] # Missing /\ removed[p] <= proto
      BY <1>1, <2>3 DEF Offered, Versions
    <3>2. out'[o][p] \in Nat /\ out'[o][p] # Missing /\ out'[o][p] < removed[p]
      BY <1>4, <1>7, <3>1 DEF Past, Complete
    <3> QED
      BY <2>1, <3>1, <3>2 DEF Missing
  <2> QED
    BY <2>2, <2>3
<1>8. Complete(out'[o]) => Generation(out'[o])
  <2> SUFFICES ASSUME Complete(out'[o]) PROVE Generation(out'[o])
    OBVIOUS
  <2>1. removed' = removed
    BY <1>1, <1>2, BuiltIs
  <2> QED
    BY <1>7, <2>1 DEF Generation
<1> QED
  BY <1>2, <1>3, <1>4, <1>8 DEF Made

LEMMA GenerateFailsIs ==
    ASSUME OutInv, NEW o \in OutDirs, GenerateFails(o)
    PROVE  /\ Made(o)
           /\ \A d \in OutDirs \ {o} : cargo'[d] = cargo[d]
           /\ cargo' \in [OutDirs -> Result] /\ cargo'[o].result = "failed"
           /\ regen' \in Script /\ regen'.at = "idle" /\ regen'.dir = regen.dir
           /\ builds' \in Nat /\ ~CheckedIn
           /\ proto' = proto /\ removed' = removed /\ gen' = gen
<1> DEFINE r == [checkedIn |-> FALSE, stale |-> FALSE, result |-> "failed"]
<1>1. Versions /\ CodegenTypeOK
  BY DEF OutInv, Versions
<1>2. r \in Result /\ r.result = "failed"
  BY DEF Result
<1>3. ASSUME NEW pkgs \in SUBSET Offered, Exports(o, pkgs), UNCHANGED out
      PROVE  Made(o)
  <2>1. exported' \in [OutDirs -> [Pkgs -> Nat]] /\ \A d \in OutDirs : Past(exported'[d])
    BY <1>1, <1>3, ExportsPast
  <2> QED
    BY <1>1, <1>3, <2>1 DEF Made, Versions, CodegenTypeOK
<1>4. ASSUME Exports(o, Offered), NEW pkgs \in SUBSET Exported(o), Compile(o, pkgs)
      PROVE  Made(o)
  <2>1. exported' \in [OutDirs -> [Pkgs -> Nat]] /\ \A d \in OutDirs : Past(exported'[d])
    BY <1>1, <1>4, ExportsPast
  <2> QED
    BY <1>1, <1>4, <2>1, CompilePast DEF Made
<1>5. Made(o)
  BY <1>3, <1>4 DEF GenerateFails
<1>6. cargo' = [cargo EXCEPT ![o] = r] /\ regen' = [regen EXCEPT !.at = "idle"]
  BY DEF GenerateFails
<1> HIDE DEF r
<1>7. /\ cargo' \in [OutDirs -> Result] /\ cargo'[o].result = "failed"
      /\ \A d \in OutDirs \ {o} : cargo'[d] = cargo[d]
  BY <1>1, <1>2, <1>6 DEF CodegenTypeOK
<1>8. regen' \in Script /\ regen'.at = "idle" /\ regen'.dir = regen.dir
  BY <1>1, <1>6 DEF CodegenTypeOK, Script
<1>9. builds' \in Nat /\ ~CheckedIn /\ proto' = proto /\ removed' = removed /\ gen' = gen
  BY <1>1 DEF GenerateFails, CodegenTypeOK, protoVars
<1> QED
  BY <1>5, <1>7, <1>8, <1>9

-----------------------------------------------------------------------------
\* Every step keeps what is in the OUT_DIRs

LEMMA BuildKeepsOut ==
    ASSUME OutInv, NEW o \in OutDirs, CrateBuild(o)
    PROVE  OutInv'
<1>1. CASE Rebuild(o)
  BY <1>1, RebuildIs, BuiltKeepsOut
<1>2. CASE UseCheckedIn(o)
  BY <1>2, UseCheckedInIs, BuiltKeepsOut
<1>3. CASE Generate(o)
  BY <1>3, GenerateIs, BuiltKeepsOut
<1>4. CASE GenerateFails(o)
  <2>1. proto' = proto /\ removed' = removed /\ gen' = gen
    BY <1>4, GenerateFailsIs
  <2>2. CodegenTypeOK'
    BY <1>4, GenerateFailsIs DEF OutInv, Versions, CodegenTypeOK, Made
  <2>3. Versions'
    BY <1>4, <2>1, <2>2, GenerateFailsIs DEF OutInv, Versions, Made, Past
  <2>4. ASSUME NEW d \in OutDirs, cargo'[d].result = "ok", ~cargo'[d].checkedIn
        PROVE  Generation(out'[d])
    <3>1. d # o /\ cargo'[d] = cargo[d] /\ out'[d] = out[d]
      BY <1>4, <2>4, GenerateFailsIs DEF Made
    <3> QED
      BY <2>4, <3>1 DEF OutInv
  <2>5. (\A d \in OutDirs : cargo[d].result = "ok" /\ ~cargo[d].checkedIn => Generation(out[d]))'
    BY <2>1, <2>4 DEF Generation
  <2> QED
    BY <2>3, <2>5 DEF OutInv
<1> QED
  BY <1>1, <1>2, <1>3, <1>4 DEF CrateBuild

\* The script writes no OUT_DIR.
LEMMA RegenIs ==
    ASSUME OutInv, Regenerate
    PROVE  /\ gen' \in [Pkgs -> Nat] /\ Past(gen') /\ regen' \in Script
           /\ UNCHANGED <<proto, removed, exported, out, builds>>
           /\ WritesGenerated \/ (gen' = gen /\ cargo' = cargo)
<1>1. Versions /\ CodegenTypeOK /\ regen \in Script
  BY DEF OutInv, Versions, CodegenTypeOK
<1>2. CASE RegenStart
  <2>1. NoFiles \in [Pkgs -> Nat]
    BY DEF NoFiles, Missing
  <2>2. Past(NoFiles)
    BY <1>1 DEF Past, NoFiles, Missing, CodegenTypeOK
  <2>3. regen' \in Script
    BY <1>1, <1>2 DEF RegenStart, Script
  <2> QED
    BY <1>2, <2>1, <2>2, <2>3 DEF RegenStart, WritesGenerated, protoVars
<1>3. ASSUME NEW o \in OutDirs, RegenFind(o)
      PROVE  regen' \in Script /\ UNCHANGED <<proto, removed, exported, gen, out, cargo, builds>>
  <2>1. {p \in Pkgs : out[o][p] # Missing} \in SUBSET Pkgs
    OBVIOUS
  <2> QED
    BY <1>3, <2>1 DEF RegenFind, Script, protoVars
<1>4. CASE RegenCopy
  <2>1. PICK p \in NextToCopy(regen.todo) :
            /\ gen' = [gen EXCEPT ![p] = out[regen.dir][p]]
            /\ regen' = [regen EXCEPT !.todo = @ \ {p}]
    BY <1>4 DEF RegenCopy
  <2>2. p \in Pkgs /\ regen.dir \in OutDirs
    BY <1>1, CodegenAssumption DEF NextToCopy, Script
  <2>3. out[regen.dir][p] \in Nat /\ out[regen.dir] \in [Pkgs -> Nat] /\ Past(out[regen.dir])
    BY <1>1, <2>2 DEF Versions, CodegenTypeOK
  <2>4. gen' \in [Pkgs -> Nat]
    BY <1>1, <2>1, <2>2, <2>3 DEF CodegenTypeOK
  <2>5. \A q \in Pkgs : gen'[q] = gen[q] \/ gen'[q] = out[regen.dir][q]
    BY <1>1, <2>1, <2>2 DEF CodegenTypeOK
  <2>6. Past(gen')
    BY <1>1, <2>3, <2>5 DEF Past, Versions
  <2>7. regen' \in Script
    BY <1>1, <2>1 DEF Script
  <2> QED
    BY <1>4, <2>4, <2>6, <2>7 DEF RegenCopy, WritesGenerated, protoVars
<1>5. CASE RegenDone
  BY <1>1, <1>5 DEF RegenDone, Script, protoVars, Versions, CodegenTypeOK
<1>6. CASE RegenEnds
  <2>1. regen' = [at |-> "idle", dir |-> regen.dir, todo |-> {}]
    BY <1>1, <1>6 DEF RegenEnds, Script
  <2>2. regen' \in Script
    BY <1>1, <2>1 DEF Script
  <2> QED
    BY <1>1, <1>6, <2>2 DEF RegenEnds, protoVars, Versions, CodegenTypeOK
<1>7. gen \in [Pkgs -> Nat] /\ Past(gen)
  BY <1>1 DEF Versions, CodegenTypeOK
<1> QED
  BY <1>2, <1>3, <1>4, <1>5, <1>6, <1>7 DEF Regenerate

\* A package that is dropped now was part of everything until now.
LEMMA UpdateIs ==
    ASSUME OutInv, NEW watched \in BOOLEAN, NEW dropped, Update(watched, dropped)
    PROVE  /\ UNCHANGED <<exported, out, gen, builds, regen>> /\ regen.at = "idle"
           /\ proto' = proto + 1 /\ removed' \in [Pkgs -> Nat]
           /\ \A p \in Pkgs : \/ removed'[p] = removed[p]
                              \/ p # Api /\ removed[p] = Missing /\ removed'[p] = proto + 1
<1>1. Versions /\ CodegenTypeOK
  BY DEF OutInv, Versions
<1>2. /\ removed' = [p \in Pkgs |-> IF p \in dropped THEN proto + 1 ELSE removed[p]]
      /\ dropped \subseteq Offered \ {Api}
  BY DEF Update
<1>3. removed' \in [Pkgs -> Nat]
  BY <1>1, <1>2 DEF CodegenTypeOK
<1>4. \A p \in Pkgs : \/ removed'[p] = removed[p]
                      \/ p # Api /\ removed[p] = Missing /\ removed'[p] = proto + 1
  BY <1>2 DEF Offered
<1> QED
  BY <1>3, <1>4 DEF Update

LEMMA UpdateKeepsVersions ==
    ASSUME OutInv, NEW watched \in BOOLEAN, NEW dropped, Update(watched, dropped)
    PROVE  Versions'
<1>1. Versions /\ CodegenTypeOK
  BY DEF OutInv, Versions
<1>2. proto' \in Nat \ {0} /\ proto' = proto + 1 /\ proto \in Nat
  BY <1>1, UpdateIs DEF CodegenTypeOK
<1>3. CodegenTypeOK'
  BY <1>1, <1>2, UpdateIs, UpdateStales DEF CodegenTypeOK, OnlyStale
<1>4. ASSUME NEW files \in [Pkgs -> Nat], Past(files)
      PROVE  \A p \in Pkgs : files[p] <= proto' /\ (removed'[p] # Missing => files[p] < removed'[p])
  <2> TAKE p \in Pkgs
  <2>1. files[p] \in Nat /\ files[p] <= proto /\ (removed[p] # Missing => files[p] < removed[p])
    BY <1>4 DEF Past
  <2>2. removed'[p] = removed[p] \/ removed'[p] = proto + 1
    BY UpdateIs
  <2> QED
    BY <1>2, <2>1, <2>2
<1>5. Past(gen)' /\ \A o \in OutDirs : Past(exported[o])' /\ Past(out[o])'
  <2>1. gen' = gen /\ exported' = exported /\ out' = out
    BY UpdateIs
  <2>2. Past(gen) /\ gen \in [Pkgs -> Nat]
    BY <1>1 DEF Versions, CodegenTypeOK
  <2>3. \A o \in OutDirs : /\ Past(exported[o]) /\ exported[o] \in [Pkgs -> Nat]
                           /\ Past(out[o]) /\ out[o] \in [Pkgs -> Nat]
    BY <1>1 DEF Versions, CodegenTypeOK
  <2> QED
    BY <1>4, <2>1, <2>2, <2>3 DEF Past
<1>6. removed'[Api] = Missing /\ \A p \in Pkgs : removed'[p] <= proto'
  BY <1>1, <1>2, UpdateIs, CodegenAssumption DEF Versions, CodegenTypeOK
<1> QED
  BY <1>3, <1>5, <1>6 DEF Versions

LEMMA UpdateKeepsGeneration ==
    ASSUME OutInv, NEW watched \in BOOLEAN, NEW dropped, Update(watched, dropped),
           NEW files \in [Pkgs -> Nat], Past(files), Generation(files)
    PROVE  \A p \in Pkgs :
               IF removed'[p] \in 1 .. files[Api] THEN files[p] \in 1 .. (removed'[p] - 1)
               ELSE files[p] = files[Api] /\ files[p] # Missing
<1>1. files[Api] <= proto
  BY CodegenAssumption DEF Past
<1> QED
  BY <1>1, UpdateIs, StaysGeneration DEF OutInv

LEMMA OutStarts == CodegenInit => OutInv
<1> SUFFICES ASSUME CodegenInit PROVE OutInv
  OBVIOUS
<1>1. NoFiles \in [Pkgs -> Nat] /\ NoFiles[Api] = Missing /\ \A p \in Pkgs : NoFiles[p] = 0
  BY CodegenAssumption DEF NoFiles, Missing
<1>2. CodegenTypeOK
  BY <1>1, CodegenAssumption DEF CodegenInit, CodegenTypeOK, Result, Script
<1>3. Versions
  BY <1>1, <1>2 DEF Versions, CodegenInit, Past, Missing
<1> QED
  BY <1>3 DEF CodegenInit, OutInv

LEMMA OutStep == OutInv /\ [CodegenNext]_codegenVars => OutInv'
<1> SUFFICES ASSUME OutInv, [CodegenNext]_codegenVars PROVE OutInv'
  OBVIOUS
<1>0. Versions /\ CodegenTypeOK
  BY DEF OutInv, Versions
<1>1. ASSUME NEW watched \in BOOLEAN, NEW dropped, Update(watched, dropped) PROVE OutInv'
  <2>1. OnlyStale /\ Versions'
    BY <1>0, <1>1, UpdateStales, UpdateKeepsVersions
  <2>2. ASSUME NEW o \in OutDirs, cargo'[o].result = "ok", ~cargo'[o].checkedIn
        PROVE  Generation(out[o])'
    <3>1. Generation(out[o]) /\ Past(out[o]) /\ out[o] \in [Pkgs -> Nat] /\ out' = out
      BY <1>0, <1>1, <2>1, <2>2, UpdateIs DEF OnlyStale, OutInv, Versions, CodegenTypeOK
    <3> QED
      BY <1>1, <3>1, UpdateKeepsGeneration DEF Generation
  <2> QED
    BY <2>1, <2>2 DEF OutInv
<1>2. CASE Regenerate
  <2>1. OnlyStale
    <3>1. CASE WritesGenerated
      BY <1>0, <3>1, WritesStale
    <3>2. CASE cargo' = cargo
      BY <1>0, <3>2 DEF OnlyStale, CodegenTypeOK
    <3> QED
      BY <1>2, <3>1, <3>2, RegenIs
  <2>2. CodegenTypeOK'
    BY <1>0, <1>2, <2>1, RegenIs DEF CodegenTypeOK, OnlyStale
  <2>3. Versions'
    BY <1>0, <1>2, <2>2, RegenIs DEF Versions, Past
  <2> QED
    BY <1>2, <2>1, <2>3, RegenIs DEF OutInv, OnlyStale, Generation
<1>3. ASSUME NEW o \in OutDirs, CrateBuild(o) PROVE OutInv'
  BY <1>3, BuildKeepsOut
<1>4. CASE UNCHANGED codegenVars
  <2>1. /\ UNCHANGED <<proto, removed, exported, out, gen>>
        /\ UNCHANGED <<cargo, builds, regen>>
    BY <1>4 DEF codegenVars, protoVars
  <2>2. CodegenTypeOK'
    BY <1>0, <2>1 DEF CodegenTypeOK
  <2>3. Versions'
    BY <1>0, <2>1, <2>2 DEF Versions, Past
  <2> QED
    BY <2>1, <2>3 DEF OutInv, Generation
<1> QED
  BY <1>1, <1>2, <1>3, <1>4 DEF CodegenNext

-----------------------------------------------------------------------------
\* No tools are needed

\* With the generated code complete, the script uses it or cargo does not run
\* it at all; neither can fail (main of build.rs).
LEMMA CompleteNeverFails ==
    ASSUME OutInv, Complete(gen), NEW o \in OutDirs, CrateBuild(o), NEW d \in OutDirs,
           cargo'[d].result = "failed"
    PROVE  cargo[d].result = "failed"
<1>0. CodegenTypeOK
  BY DEF OutInv, Versions
<1>1. CheckedIn
  BY CodegenAssumption DEF Complete, CheckedIn
<1>2. CASE Rebuild(o)
  <2>1. cargo[o].checkedIn \in BOOLEAN /\ Built(o, cargo[o].checkedIn)
    BY <1>2, RebuildIs
  <2>2. Compiles(o, cargo[o].checkedIn)
    BY <1>2, RebuildIs, GenerationIsComplete DEF Compiles
  <2> QED
    BY <1>0, <2>1, <2>2, BuiltIs
<1>3. CASE UseCheckedIn(o)
  <2>1. Built(o, TRUE) /\ Compiles(o, TRUE)
    BY <1>3 DEF UseCheckedIn, Compiles
  <2> QED
    BY <1>0, <2>1, BuiltIs
<1>4. ~Generate(o) /\ ~GenerateFails(o)
  BY <1>1 DEF Generate, GenerateFails
<1> QED
  BY <1>2, <1>3, <1>4 DEF CrateBuild

\* With src/generated/ complete, as in the published crate, no build fails
\* that did not fail before, wherever cargo builds and whatever was built or
\* interrupted there: neither buf nor protoc is needed.
THEOREM CompleteNeedsNoTools == CodegenSpec => NoToolsNeeded
<1>1. ASSUME OutInv, [CodegenNext]_codegenVars, Complete(gen), NEW d \in OutDirs,
             cargo'[d].result = "failed"
      PROVE  cargo[d].result = "failed"
  <2>0. CodegenTypeOK
    BY <1>1 DEF OutInv, Versions
  <2>1. ASSUME NEW watched \in BOOLEAN, NEW dropped, Update(watched, dropped)
        PROVE  cargo[d].result = "failed"
    BY <1>1, <2>0, <2>1, UpdateStales DEF OnlyStale
  <2>2. CASE Regenerate
    BY <1>1, <2>0, <2>2, RegenIs, WritesStale DEF OnlyStale
  <2>3. ASSUME NEW o \in OutDirs, CrateBuild(o) PROVE cargo[d].result = "failed"
    BY <1>1, <2>3, CompleteNeverFails
  <2>4. CASE UNCHANGED codegenVars
    BY <1>1, <2>4 DEF codegenVars
  <2> QED
    BY <1>1, <2>1, <2>2, <2>3, <2>4 DEF CodegenNext
<1>2. OutInv /\ [CodegenNext]_codegenVars =>
          [Complete(gen) => \A o \in OutDirs : cargo'[o].result = "failed" => cargo[o].result = "failed"]_codegenVars
  BY <1>1
<1> QED
  BY <1>2, OutStarts, OutStep, PTL DEF CodegenSpec, NoToolsNeeded

-----------------------------------------------------------------------------
\* The files are of one version

LEMMA BuildKeepsGen ==
    ASSUME CodegenInv, OutInv', NEW o \in OutDirs, CrateBuild(o)
    PROVE  GenInv'
<1>1. OutInv /\ GenInv /\ CodegenTypeOK
  BY DEF CodegenInv, OutInv, Versions
<1>2. CASE Rebuild(o)
  <2>1. /\ cargo[o].checkedIn \in BOOLEAN /\ Built(o, cargo[o].checkedIn)
        /\ MayBuild(o) /\ ~cargo[o].stale
    BY <1>1, <1>2, RebuildIs
  <2>2. regen.at = "build" => ~cargo[o].checkedIn
    BY <1>1, <2>1 DEF GenInv
  <2> QED
    BY <2>1, <2>2, BuiltKeepsGen
<1>3. CASE UseCheckedIn(o)
  <2>1. Built(o, TRUE) /\ MayBuild(o) /\ CheckedIn
    BY <1>3 DEF UseCheckedIn
  <2>2. regen.at # "build"
    BY <1>1, <2>1, CodegenAssumption DEF GenInv, CheckedIn, NoFiles
  <2> QED
    BY <2>1, <2>2, BuiltKeepsGen
<1>4. CASE Generate(o)
  BY <1>1, <1>4, GenerateIs, BuiltKeepsGen
<1>5. CASE GenerateFails(o)
  <2>1. /\ gen' = gen /\ removed' = removed /\ regen'.at = "idle" /\ regen'.dir = regen.dir
        /\ cargo'[o].result = "failed" /\ \A d \in OutDirs \ {o} : cargo'[d] = cargo[d]
    BY <1>1, <1>5, GenerateFailsIs
  <2>2. \A d \in OutDirs : cargo'[d].result = "ok" => cargo'[d] = cargo[d]
    BY <2>1
  <2> QED
    BY <1>1, <2>1, <2>2 DEF GenInv, Complete, Generation
<1> QED
  BY <1>2, <1>3, <1>4, <1>5 DEF CrateBuild

LEMMA RegenKeepsGen ==
    ASSUME CodegenInv, OutInv', Regenerate
    PROVE  GenInv'
<1>1. OutInv /\ GenInv /\ CodegenTypeOK
  BY DEF CodegenInv, OutInv, Versions
<1>2. regen \in Script /\ removed' = removed /\ out' = out
  BY <1>1, RegenIs DEF CodegenTypeOK
<1>3. ~Complete(NoFiles)
  BY CodegenAssumption DEF Complete, NoFiles
<1>4. CASE RegenStart
  <2>1. /\ \A o \in OutDirs : cargo'[o].checkedIn => cargo'[o].stale
        /\ gen' = NoFiles /\ regen'.at = "build"
    BY <1>1, <1>2, <1>4, WritesStale DEF RegenStart, Script
  <2> QED
    BY <1>3, <2>1 DEF GenInv, NoFiles, Complete
<1>5. ASSUME NEW o \in OutDirs, RegenFind(o) PROVE GenInv'
  <2>1. /\ regen'.at = "copy" /\ regen.at = "find"
        /\ UNCHANGED <<gen, cargo>>
    BY <1>5 DEF RegenFind
  <2>2. gen = NoFiles /\ Generation(out[ScriptDir])
    BY <1>1, <2>1 DEF GenInv
  <2>3. Generation(out[ScriptDir])' /\ ~Complete(gen)' /\ \A p \in Pkgs : gen'[p] = Missing
    BY <1>2, <1>3, <2>1, <2>2 DEF Generation, Complete, NoFiles
  <2>4. (\A d \in OutDirs : cargo[d].result = "ok" /\ ~cargo[d].stale /\ cargo[d].checkedIn => Complete(gen))'
    BY <1>1, <2>1 DEF GenInv, Complete
  <2> QED
    BY <2>1, <2>3, <2>4 DEF GenInv
<1>6. CASE RegenCopy
  <2>1. PICK p \in NextToCopy(regen.todo) :
            /\ gen' = [gen EXCEPT ![p] = out[regen.dir][p]]
            /\ regen' = [regen EXCEPT !.todo = @ \ {p}]
    BY <1>6 DEF RegenCopy
  <2>2. regen'.at = "copy" /\ regen.at = "copy" /\ regen'.dir = regen.dir
    BY <1>2, <1>6, <2>1 DEF RegenCopy, Script
  <2>3. \A q \in Pkgs : gen'[q] = gen[q] \/ gen'[q] = out[regen.dir][q]
    BY <1>1, <2>1 DEF CodegenTypeOK
  <2>4. ASSUME regen.dir = ScriptDir
        PROVE  /\ Generation(out[ScriptDir])' /\ \A q \in Pkgs : gen'[q] \in {Missing, out'[ScriptDir][q]}
               /\ Complete(gen)' => Generation(gen)'
    <3>1. Generation(out[ScriptDir]) /\ \A q \in Pkgs : gen[q] \in {Missing, out[ScriptDir][q]}
      BY <1>1, <2>2, <2>4 DEF GenInv
    <3>2. Generation(out[ScriptDir])' /\ \A q \in Pkgs : gen'[q] \in {Missing, out'[ScriptDir][q]}
      BY <1>2, <2>3, <2>4, <3>1 DEF Generation
    <3>3. Complete(gen)' => \A q \in Pkgs : gen'[q] = out'[ScriptDir][q]
      BY <3>2 DEF Complete
    <3> QED
      BY <3>2, <3>3, CodegenAssumption DEF Generation
  <2>5. \A o \in OutDirs : cargo'[o].checkedIn => cargo'[o].stale
    BY <1>1, <1>6, WritesStale DEF RegenCopy
  <2> QED
    BY <2>2, <2>4, <2>5 DEF GenInv
<1>7. CASE RegenDone \/ RegenEnds
  <2>1. /\ regen'.at \in {"done", "idle"} /\ regen'.dir = regen.dir
        /\ UNCHANGED <<gen, cargo>>
    BY <1>2, <1>7 DEF RegenDone, RegenEnds, Script
  <2> QED
    BY <1>1, <1>2, <2>1 DEF GenInv, Complete, Generation
<1> QED
  BY <1>4, <1>5, <1>6, <1>7 DEF Regenerate

LEMMA CodegenStarts == CodegenInit => CodegenInv
<1> SUFFICES ASSUME CodegenInit PROVE CodegenInv
  OBVIOUS
<1>1. /\ gen = NoFiles /\ regen.at = "idle" /\ ~Complete(gen)
      /\ \A o \in OutDirs : cargo[o].result = "none"
  BY CodegenAssumption DEF CodegenInit, Complete, NoFiles
<1>2. GenInv
  BY <1>1 DEF GenInv
<1> QED
  BY <1>2, OutStarts DEF CodegenInv

LEMMA CodegenStep == CodegenInv /\ [CodegenNext]_codegenVars => CodegenInv'
<1> SUFFICES ASSUME CodegenInv, [CodegenNext]_codegenVars PROVE CodegenInv'
  OBVIOUS
<1>1. OutInv /\ GenInv /\ OutInv' /\ Versions /\ CodegenTypeOK
  BY OutStep DEF CodegenInv, OutInv, Versions
<1>2. ASSUME NEW watched \in BOOLEAN, NEW dropped, Update(watched, dropped) PROVE GenInv'
  <2>1. OnlyStale
    BY <1>1, <1>2, UpdateStales
  <2>2. regen.at = "idle" /\ regen' = regen /\ gen' = gen
    BY <1>1, <1>2, UpdateIs
  <2>3. regen.dir = ScriptDir /\ Complete(gen)' => Generation(gen)'
    <3>1. gen \in [Pkgs -> Nat] /\ Past(gen)
      BY <1>1 DEF Versions, CodegenTypeOK
    <3>2. Complete(gen)' => Complete(gen)
      BY <2>2 DEF Complete
    <3>3. regen.dir = ScriptDir /\ Complete(gen) => Generation(gen)
      BY <1>1 DEF GenInv
    <3> QED
      BY <1>1, <1>2, <2>2, <3>1, <3>2, <3>3, UpdateKeepsGeneration DEF Generation
  <2> QED
    BY <1>1, <2>1, <2>2, <2>3 DEF GenInv, OnlyStale, Complete
<1>3. ASSUME Regenerate PROVE GenInv'
  BY <1>1, <1>3, RegenKeepsGen
<1>4. ASSUME NEW o \in OutDirs, CrateBuild(o) PROVE GenInv'
  BY <1>1, <1>4, BuildKeepsGen
<1>5. ASSUME UNCHANGED codegenVars PROVE GenInv'
  <2>1. UNCHANGED <<removed, out, gen, cargo, regen>>
    BY <1>5 DEF codegenVars, protoVars
  <2> QED
    BY <1>1, <2>1 DEF GenInv, Complete, Generation, NoFiles
<1> QED
  BY <1>1, <1>2, <1>3, <1>4, <1>5 DEF CodegenNext, CodegenInv

\* A crate that compiles, with nothing left to be built anew, is made of files
\* of one version of the protos, also after builds that failed half way and
\* runs of regenerate-spicedb-grpc-tonic.sh that were stopped: the script
\* empties src/generated/ first, and copies nothing before its own build is
\* through.  In however many OUT_DIRs; when the code is checked in, what find
\* named must have been the script's own.
THEOREM OneGenerationOnly == CodegenSpec => []OneGeneration
<1>1. CodegenInv => OneGeneration
  BY DEF OneGeneration, CodegenInv, OutInv, GenInv
<1> QED
  BY <1>1, CodegenStarts, CodegenStep, PTL DEF CodegenSpec
=============================================================================
