# Verification of spicedb-embedded

spicedb-embedded runs SpiceDB, an authorization database, inside the process of
an application.  A shared library written in Go (`shared/c`) starts SpiceDB
servers and exports a C interface; bindings in Rust, Node, Python, Java and C#
load the library, wrap its functions and offer an object with clients.

The library is called from any number of host threads, hands out handles, keeps
goroutines, sockets and process-wide state behind them, and blocks its callers
in several places.  Around it, build scripts find, build or download the library
and the generated code.  This directory holds TLA+ models of that behaviour, TLC
runs over small instances of them, and TLAPS proofs for the instance table, the
requests and the streams.

Paths below are relative to the root of the repository.

## 1. Inventory

### The C library

| part | state | operations | what makes it correct |
|---|---|---|---|
| Instance lifecycle, `shared/c/main.go` | `nextID`, the table `instances` under `instanceMu`, the `Instance` structs, a socket file per handle | `spicedb_start`, `spicedb_dispose`, the goroutines of `RunnableServer.Run` and of the proxy's `Serve` | a handle leads to its own instance for as long as it is live and to nothing afterwards; one thread builds or tears down a struct; a failed start and a dispose leave nothing running; both return |
| Observability, `setupOTelTracing`, `startMetricsServer`, `cleanupObservability` in `main.go` | the process-wide TracerProvider, one metrics server and port per instance | part of start and dispose | the provider the host had comes back; a traced instance has a provider that exports; the port is released |
| Start options, `newDatastoreFromOpts`, `newSpiceDBServerFromDatastore` in `main.go` | none | decoding of JSON, choice of the datastore and the server's options | every binding's encoding of the same options starts the same thing; what is given is used or refused |
| FFI requests, `shared/c/rpc.go` | none of its own: it reads the table and uses the struct after the unlock | `spicedb_rpc`, one export per unary method, `runRPC` | a request ends at the instance its handle named, is answered, and the answer is sound |
| Streaming proxy, `shared/c/streaming_proxy.go` | a gRPC server per instance, a handler per open stream | Watch, ReadRelationships, LookupResources, LookupSubjects | no silent truncation, no unbounded buffering, the backend's work ends with its client, dispose ends the streams |
| Trace context, `traceContext` in `rpc.go`, `forwardTraceContext` in `streaming_proxy.go`, and an interceptor in each binding | none | adds, replaces and joins headers | a request arrives at SpiceDB with the trace it belongs to |

### The bindings

| binding | source | state | operations |
|---|---|---|---|
| Rust | `rust/src` | handle; dropped once | start, bootstrap, clients, `Drop` |
| Node | `node/src` | handle, channels, `_closed` | create, unary clients, close |
| Python | `python/src/spicedb_embedded` | handle, channel | constructor, stubs, close |
| Java | `java/src/main/java` | handle, channel | create, stubs, close |
| C# | `csharp` | handle, channel, `_disposed` | create, clients, Dispose |

They are correct when an object that was reported as started has the schema and
relationships the host asked for, a failed start leaves no instance and no
channel, a close that was reported as done is done, and every buffer of the
library is given back to it.

Python, Node and Java load the library at the first call and keep it
(`ffi.py` `_lib`, `ffi.ts` `lib`, Java's `Holder`).  A function may be used only
once its types are known, and the library may not be unloaded under a running
instance.

### Builds and the example

| part | state | operations | what makes it correct |
|---|---|---|---|
| `rust/spicedb-embedded-sys/build.rs` | files that outlive a run: OUT_DIR (library, def file, import library, archive), the crate's copy of `shared/c`, the copy next to the executables; what cargo watches | one run per cargo build: copy the source, choose prebuild, Go or download, install, import library, copy | what is linked and loaded is what this run chose, whatever earlier runs left; no change is missed |
| `rust/spicedb-grpc-tonic` with `scripts/regenerate-spicedb-grpc-tonic.sh` | `src/generated/`, the OUT_DIRs, what cargo watches | build with checked-in code, generation, the script's steps | a crate that compiles is of one generation; a published crate needs no tools |
| `examples/rust/google-docs` | the relationships | `GET /drive/{folder}/{document}` | answers reflect every change acknowledged before the request; each request is answered |

### How the parts meet

* A binding calls the C functions; the library answers with buffers the binding
  has to free.  Streams do not go through the FFI: the binding opens a gRPC
  channel to the address start returned, a Unix socket the proxy listens on.
* `runRPC` and the proxy's handlers share the instance's in-memory connection to
  SpiceDB.  `spicedb_dispose` closes it under them.
* Dispose waits twice: in `GracefulStop` for the proxy's handlers, in `wg.Wait`
  for `Run`, which itself waits for the requests SpiceDB is working on, and for
  `Serve`.  The order of dispose's steps decides whether the waits end.
* Start and dispose of different instances meet in the table, in the global
  TracerProvider, on metrics ports, and in the directory of socket files.

### What is hard

Requests that hold a pointer to an instance being disposed of; two disposes of
one handle; a start that fails after goroutines are up; a goroutine that has
not run yet when its server is shut down; `Run` dying unnoticed; a timeout whose
handler goes on; a client that does not read; socket files of a dead process;
closes of one object by two threads; buffers on error paths; a library visible
before it is configured; builds that are killed half way or run side by side;
relationships that change under a request.  `PROJECT.json`
lists each hazard with its line and the properties aimed at it.

## 2. Modules

    Instances ── FfiRpc ────────┐
        │    └── StreamingProxy ┴─ Library ──implements── HandleService
        └── InstancesProofs ─────────┴─ LibraryProofs
    Bindings          TraceContext          StartOptions          Loading
    SysBuild          Codegen               Drive
    BindingsProofs    CallsProofs (TraceContext, StartOptions)    LoadingProofs
    SysBuildProofs    CodegenProofs         DriveProofs               (for TLAPS)
    MCInstances, MCLibrary, MCBindings, MCSysBuild,
    MCParts (TraceContext, StartOptions, Loading, Drive,
             SysBuild, Codegen)                              (instances for TLC)

A component's theorems are in a module of their own that extends the component's,
so that TLC's runs and TLAPS use the same definitions.

`MCParts` puts modules that share no state into one run: the initial states pick
one of them, its actions happen, and the others rest.  TLC explores the sum of
their state spaces, not the product.  `Loading` and `Codegen` are also run as they
are.

### Instances

The table, `spicedb_start` and `spicedb_dispose`.  `inst[o]` is the struct a
start builds, with the resources it points to; `instances` is the table;
`thread[t]` is the call a host thread is in, with the step it has reached;
`sock` the socket files on disk; `globalTP` the global TracerProvider (the name
of the instance that owns it, `NoInstance` for the host's).  Identity of a
struct and handle are kept apart, so that "the handle leads to the right
struct" can be false.

An action is the code between two points where another thread or goroutine can
see a difference: `AllocateID` is the atomic increment, `otelGet` and `otelSet`
are two because the global is read and replaced without a lock, `GracefulStop`
and `GracefulStopReturns` are two because the call blocks.  Every external step of a
start (datastore, server, tracer, metrics port, `Run`, connection, removal of an old
socket file, listener) may fail when its name is in `Faults`; the error paths are
those of the code, including what they do not release.  The error of the removal is
dropped (`streaming_proxy.go` 152): the file stays, `Listen` fails because of it, and
`failure` records which of the two it was.  SpiceDB, grpc-go and net/http are external
and modelled by what the code relies on: `Run` returns after its context is
cancelled and its requests are over; a `Serve` that starts after the server was
stopped closes the listener itself.

The waits for requests are parameters (`drained`, `quiet`).  `InstancesNext`
takes them as over; `Library` gives them their real conditions.

### FfiRpc, StreamingProxy, Library

`FfiRpc` is `spicedb_rpc`, the per-method exports and `runRPC`: lookup under the
read lock, then `conn.Invoke` under a 30 s timeout.  `work` is SpiceDB's handler,
which may commit after the request has failed.  `StreamingProxy` is the one loop
the four handlers share: open the backend's stream, `Recv`, `Send`.  Messages are
counted, not represented: `produced`, `received`, `forwarded` and `read` are all
a property about loss, truncation or buffering needs.  `Window` stands for
gRPC's flow control.  `Library` runs everything together.

### HandleService

The promise to the host, without threads, goroutines or connections: a handle is
opened once and closed once; a request takes effect at most once, on the
instance its handle named, before the close of that instance has returned; `ok`
means it did, `invalid` and `unsupported` mean it did not and never will,
`failed` promises nothing.  Every request is answered, every close returns.
`Library` defines the refinement mapping (`Service == INSTANCE ...`).

### Bindings

The five bindings do the same things in different orders, so each method is a
short sequence of steps (`"spicedb_start"`, `"free"`, `"raise"`,
`"closeChannel"`, `"checkFlag"`, ...) and the module runs such programs on host
threads.  `NodeCall(m) == <<m, "raise", "free">>` against
`RustCall(m) == <<m, "free", "raise">>` is the difference between the two
wrappers of `spicedb_rpc`.  The library behind them is reduced to a handle that
is open, closing or closed, and to calls that may fail.

A step of a start that throws where the binding has no handler is `Unhandled`: the
host gets the exception, and the object keeps what it had.  There are three such
places: a successful answer of `spicedb_start` that the binding rejects, from a
library of another version (all bindings); a channel that cannot be built (Node and
Python, whose construction no `try` encloses; C#'s handler and `HttpClient`, before
its `try`; an `Error` in Java, whose handler is for `Exception`); and an `Error` in
Java's bootstrap, as JNA throws it for a function the library lacks.  A failure that
meets a handler runs the rescue.  Rust has no channel to build.

Node's methods do not interleave (one JavaScript thread, no await in them); Rust's
object is dropped once, by its owner.

### TraceContext

`Current` gives the headers of the caller's span, none when it is not valid or
there is no OpenTelemetry.  Headers are sequences of values per key, since gRPC
lets a key repeat.  The
interceptors differ in whether they replace or add; the proxy keeps the first
`traceparent` and joins the `tracestate` values; both paths end in
`traceContext`, which drops a `tracestate` that comes alone.

### StartOptions

An option is none or some value; on the wire it is left out, `null`, a value, or
a value of another type.  `Encode` is the serialisation in the binding (C# writes
`null` for what is not set, the others leave it out; `Untyped` are the bindings
whose language lets any value through), `ParseStartOptions` is Go's decoder with
its dropped error, which leaves the field alone (`Malformed`), except that the `*bool`
of `datastore_metrics_enabled` is allocated first and left `false`; `Effect` is what
`spicedb_start`, `newDatastoreFromOpts` and the observability setup do with the result.  `cache_metrics_enabled`,
`spanner_credentials_file`, `otlp_service_name` and `metrics_host` are treated like
options that are there and are left out.

### Loading

Python's `_get_lib` line by line (`PythonGet`, `PythonLoad`, `PythonDeclare`,
`PythonReturn`), since any thread can run between two lines; Node's `getLib` as one
step, since no other JavaScript can; Java's `Holder`, which one thread
initialises while others wait and which stays erroneous when that fails.  An
object is the set of functions with declared types.  Objects share one mapping of
the library, counted by `epoch`; `Collect` is the garbage collector, with which JNA
and koffi unload the library and ctypes does not.  The library may predate
`spicedb_rpc`, the case `ffi.ts` 87-88 mentions.  C# declares its types statically and
the runtime keeps the library, so there is nothing to interleave.

### SysBuild

Many cargo builds in one or more target directories.  A library is where it comes
from and the version of each file it is built of; `build[t]` is the last run of the
script in a target directory together with the files it can leave there.  Each
function of the script is one action or a few: the copy of `shared/c` is two actions
per file, `CopyBegins` that truncates and `CopyWrites`, because another build, an edit
or go can come in between; go fails or, if it does not notice, builds a library with a
`CutOff` file.  What goes wrong
in a run is drawn when it starts, at most two things: the script is killed, the
source cannot be copied, go fails or yields a stub, curl fails or brings HTML, the
archive is corrupt, holds a stub or has another layout, a copy fails, `lib.exe`
fails, or one of the copies whose error the script ignores fails.  `Kill` leaves
the file being written cut off, below the size check (`Stub`) or above it (`Cut`).
`Stale` is cargo's rule: it runs the script again after a failure or when something
watched is newer than the start of the last run; what the run itself wrote counts,
what tar unpacked does not, since it is as old as in the archive (`Tar`).

The script that stages a prebuild copies the library (`StageLib`), then the def file if
the repository has one (`StageDef`), and may be stopped between the two.  The library it
finds in `shared/c` is one of the source as it is, one of the source as it was checked
out, or what is left of a build: it only tests that a file is there.  A def file that is
no longer in the repository stays in `prebuilds/`.  Each of these two copies is one
step, and go's own output appears at once.

### Codegen

The build script of spicedb-grpc-tonic, the `include!`s of its `lib.rs` and the
regenerate script, over several OUT_DIRs.  A generated file is the version of the
protos it was made from.  An update may drop a package from the protos (`removed`);
`buf_export/` in OUT_DIR is never emptied, so that its protos are compiled again
(`exported`, `Exports`, `Compile`).  `Generation` says which files belong together: those of
one version, and what was left of packages that version no longer had.
`GenerateFails` leaves any subset of the protos exported and of the files written;
`RegenFind` takes any OUT_DIR that holds the API, since find lists them in the order of
the directories; `RegenEnds` stops the script anywhere.  Nobody else builds while the
script runs.

### Drive

The handler of the google-docs example over a datastore that is a sequence of
revisions.  `View` is the schema's permission, by rounds of `parent`.  A check blocks one of `Workers` threads; a
chain of folders that never ends is an error of SpiceDB unless a viewer is found
first.

### Left out of all models

Unix sockets only (on Windows the proxy listens on TCP with a port the system
picks, and no file is involved).  Payloads, messages and addresses are not
represented.  Exceptions that can come between any two statements (Python's
`KeyboardInterrupt`, an `OutOfMemoryError`) are left out: no handler is ready for them
anywhere.  Handles are `1..MaxHandle`; `nextID` is 64 bits wide and
does not wrap in the life of a process.

## 3. Runs

| run | instance | shows |
|---|---|---|
| `instances` | 2 threads, 2 starts, 3 kinds of options, all 8 faults | the table, ownership of structs, readiness, what dispose and failed starts leave, tracer, old socket files, retired handles; every call returns and metrics ports are released |
| `tracer_overlap` | 2 traced instances at once | **violated**: the host's provider is not restored |
| `library_rpc` | 2 threads, 2 starts, 2 requests | requests go to their instance, answers are sound, refinement of `HandleService!Spec` |
| `library_live` | 2 threads, 1 start, 1 request of any kind, 1 stream of 2 messages, `Run` may fail | nothing outlives dispose, no silent truncation, one buffered message; dispose returns, backend streams are released, refinement of `HandleService!FairSpec` |
| `dispose_unread_stream` | 1 thread, 1 stream, the host does not read | **violated**: dispose waits for ever |
| `bindings` | 3 threads, 1 object, 5 languages | bootstrap, failed starts, closes by several threads, buffers |
| `node_error_string` | Node | **violated**: an error string is not freed |
| `parts`: TraceContext | 5 languages, 8 contexts, 6 header sets | the caller's trace arrives |
| `parts`: StartOptions | 3 languages, every combination of 8 options, one value of another type in Node | datastore and metrics are as given |
| `parts`: Loading | 1 thread of Python or Node, 2 of Java, 4 calls, 3 loads | types are declared before use, the library stays loaded |
| `parts`: Drive | 2 requests, 1 thread, 2 writes out of 7 relationships, 3 folders | answers are current, every request is answered |
| `parts`: SysBuild | the eight scenarios below | leftovers are neither linked nor in the way, what is loaded is what was linked, nothing stale is taken for up to date, sources are fresh, import libraries match |
| `parts`: Codegen | 2 OUT_DIRs, 2 packages, 2 updates, 4 builds | what compiles is of one generation, no tools for checked-in code |
| `loading_python` | 2 Python threads | **violated**: a function is called before its types are set |
| `regenerate_other_dir` | Codegen, 2 OUT_DIRs | **violated**: the script copies an older generation than there is |
| `sys_build_layout` | tarballs of another layout | **violated**: a leftover library is linked |
| `sys_build_deleted` | a file is deleted from `shared/c` between two runs | **violated**: it is still built |

Each property has a mutant in `PROJECT.json`: a variant of a definition with a
plausible slip, defined in the module before the original ("Mutant of ..."),
under which TLC finds the property violated.

**Bounds.**  `MaxHandle` equals the number of starts, so `AllocateID` never
lacks a handle.  Two instances and two threads are what the hazards need: a
dispose against a dispose, against a start, or against a request on the same or
on the other handle; more instances add copies.  (The table properties hold for
any number: section 4.)  Two messages and a window of one let a handler block in
`Send` with another message waiting, and be cut off before, between and after
messages.  In `bindings` three threads allow two closes and a request, or two
closes during a third; objects do not share state, so one is enough.  Streams meet
only in the wait of `GracefulStop`, and what is proved of them holds for any
number, so `library_live` has one.
`TracedOverlap = FALSE` restricts the host to one traced instance at a time: the
assumption under which the tracer properties hold, dropped in `tracer_overlap`.
Symmetry is used in safety runs only.

The build script has more dimensions than one instance can hold, so `SysBuild`
draws a scenario in its initial state (`MCSysBuild`): `Leftovers`, one target
directory, two runs, any two of nine faults in each, kills included, and
`StagedLeftovers`, the same with a prebuild and five; `Reruns`, prebuilds staged,
replaced and removed around two runs; `SharedCopy`, two target directories over one
copy of the source that is being edited, and `Unsupported`, a target the script does not
know; `ImportLibs`, Windows with a prebuild, and `Restaged`, with one staged over
another; `NoDef`, a def file deleted before or during the only run.  Two runs are what a leftover needs, one to leave it and one to meet it; two
target directories are what a shared copy needs; two files (`go.mod` and the def
file) let a copy be half done.  Two things the scenarios of `parts` avoid because
they are known to break a property, each with its own run: a tarball of another
layout, and a file deleted between two runs.  Python's second thread is left out of
`parts` for the same reason.  In Codegen two OUT_DIRs let find take the wrong one, two
packages let one be missing, removed or of another version, and four builds let one fail
in each directory.  Of the bindings StartOptions has three: Java encodes the options as
Rust does, and Python as Node; the theorem of section 4 has all five.
Three folders make a chain of two parents and a cycle; one thread for two requests
makes one wait.  `HeaderValue` are five values of a header, the caller's span, a
`tracestate` of the span, and others of the caller's own; a caller gives at most one
`traceparent`, as W3C demands, and any `tracestate`s.

**Deadlock** is checked except where the system may really stop: in `parts` a
request ends when it has arrived and all requests of the example may be answered,
and the number of builds and of calls into the library is bounded.

**Fairness.**  A thread inside a call and every goroutine keep running (weak
fairness): the Go and OS schedulers do that, and no lock is held across a wait.
A request's timeout fires (`rpc.go` 48).  SpiceDB drops work whose caller is gone:
grpc-go cancels the handler's context when the connection closes or the call is
cancelled.  Nothing else is assumed: SpiceDB may never answer, a Watch may never
end, nobody has to call anything, nothing has to fail.  `FairSpec` adds that the
host reads the streams it has open (`ReaderFairness`); `dispose_unread_stream`
shows what happens without it.  In `Drive` a handler that can go on does (weak
fairness per request: tokio polls every task that is ready, and every check
returns, by the 30 s timeout at the latest).

## 4. Proofs

The theorems hold for any sets of threads, instances, requests, streams, objects,
target directories, files and folders, and for any bounds.  They rest on the named
assumption of each module (`InstancesAssumption`, `FfiRpcAssumption`,
`StreamingProxyAssumption`, ...), which TLC evaluates in the runs, and on the
hypotheses named below.  A hypothesis is there where the property is false without it, and then
a run shows the counterexample (section 5), or the paragraph gives it.

Every invariant below was checked by TLC on small instances before it was proved.
Each proof has one step per action; lemmas say what an action does to the one
record it changes, so that the invariants need not look into records again.

### Instances (`InstancesProofs`)

* `TypeCorrect`: `InstancesSpec => []InstancesTypeOK`;
* `TableIsConsistent`: `[]RegistryConsistent`; `OneOwner`: `[]SoleOwner`;
* `RetiredForGood`: `InstancesSpec => RetiredStaysRetired`, an action property;
* `PublishedIsReady`: `[]RegisteredIsReady`;
* `DisposeReleasesAllButPort`: `[]DisposedLeavesOnlyPort`: no connection, listener, file,
  datastore, tracer or goroutine, but for a metrics server that was shut down before
  its goroutine ran (section 5);
* `FailureStops`: `[]FailedStartStops`;
* `OnlyStuckFilesMatter`: `[]StaleSocketHarmless`: of the files in the way of a start only
  one that cannot be removed makes it fail;
* `ProviderRestored`: `[]TracerRestored`, and `ProviderUsable`: `[]LiveTracerUsable`,
  both if `TracedOverlap = FALSE`: the host has one traced instance at a time.
  Without that `tracer_overlap` is a counterexample.

The first inductive invariant is about the table:

    TableInv == InstancesTypeOK /\ HandleGiven /\ IdsGivenOut
                    /\ RegistryConsistent /\ SoleOwner

Consistency of the table needs ownership (a struct that `Publish` enters cannot
be disposed of at the same time), and ownership needs consistency (dispose gets
the struct from the table, and the entry is `live`, hence in nobody's hands).
`IdsGivenOut`, no struct has a handle above the counter, makes a new handle
unique; `HandleGiven`, a start past `AllocateID` has a handle, makes `Publish` enter
it under a real one.  `RetiredForGood` is an action property: by uniqueness of
handles the only step that fills an entry, `Publish`, fills that of a struct
that is `starting`, so not of one that is retired.

On top of it, `LifeInv` says for each step of a start or of a dispose which
resources of the struct in the thread's hands are there (`Building`, `Closing`), and
what a struct that nobody works on has left (`AtRest`).  Readiness at `Publish`, nothing
left at the end of dispose and what each error path releases are its last cases.
`SocketOf` ties the socket file to the listener; a new handle has no open listener
because no two structs share a handle, which is again `TableInv`.  `TracerInv` says
who the global provider belongs to between the steps that read and replace it, and
that at most one struct in use is traced.

### The library (`LibraryProofs`)

* `LibraryRunsInstances`: `Spec => InstancesSpec`.  Requests and streams leave
  the variables of `Instances` alone, and a wait that has ended is a wait taken
  as over, so everything proved of `Instances` holds in the library;
* `CallsReach`: `[]CallsReachTheirInstance`; `AnswersAreSound`: `[]OutcomeSound`;
* `CleanEnds`: `[]CleanEndIsComplete`; `ProxyHoldsOneMessage`: `[]Backpressure`;
* `DisposeOutlastsWork`: `[]NoWorkAfterDispose`;
* `LibraryTypeCorrect`: `[]TypeOK`;
* `LibraryImplementsService`: `Spec => ImplementsService`, the refinement of
  `HandleService!Spec`.

For requests the inductive invariant, `CallInv`, says what a request has at each
point of `runRPC` (`CallProgress`) and that the instance it holds has been
published under its handle (`CallBound`).  `CallBound` survives the steps of
other threads because of `PublishedStays`: with `TableInv`, no step builds a
published struct again or gives it another handle.  For streams it is
`StreamInv`, the relation of the four counters at each point of the loop: equal
before a `Recv`, one apart before a `Send`.  It also records that a stream with
a clean end has its handler done and its backend at `eof`, so that nothing is
produced afterwards.  `WorkInv` adds which server is up while a request or stream is
at work for an instance: dispose goes on only when they are over, and a disposed
instance has neither server (`LifeInv`).

The refinement maps a handle's status to the stage of the one struct that has it
(`StatusOf`) and a request to what is visible of it.  Every step of the library is
shown to be one of the service (`Open`, `CloseBegins`, `CloseEnds`, `Ask`,
`AskUnsupported`, `Apply`, `Answer`) or to leave all it shows unchanged.  `TableInv` makes the status well
defined, `CallInv` gives the handle of a request its instance, and `CallWork`, a
handler still at work has had no effect and no answer but `failed`, is what lets a
late commit be an effect of a request that is still open to one.

### The bindings (`BindingsProofs`)

* `FailedStartsCleanUp`: `[]FailedStartCleansUp`: nothing is left where the exception meets
  a handler, and exactly what the property names where it meets none;
* `StartsBootstrap`: `[]StartedIsBootstrapped`;
* `ClosesAreDone`: `[]ReportedCloseIsDone`; `ClosesRelease`: `[]CloseReleasesAll`;
* `BuffersAreFreed`: `[]OnlyNodeErrorsLost`.

What a thread will still do is the rest of a program, so the invariant, `BindInv`, is
about rests.  `Form` collects what holds of every rest of every program (which step
follows which, which cannot come twice); `ThreadFine` relates the rest to the
object: if `spicedb_dispose` is still to come then the handle is open or another close
has it, if an error is pending then `raise` comes next, a buffer in hand has its `free`
ahead.  `AloneAt` says who can be at work on the same object, and `EndingAt` that a
channel or handle left behind has a thread that will still deal with it.

### Calls (`CallsProofs`)

* `OwnHeadersArrive`: `[]OwnHeadersKept`; `SpansAreJoined`: `[]CurrentSpanJoined`;
* `OptionsAreHonoured`: `[]OptionsHonoured`.

`TraceInv` and `OptionsInv` say at each stage that what is on the wire is a function
of the call; the rest is what the composed functions (interceptor, proxy,
`traceContext`; `Encode`, `ParseStartOptions`, `Effect`) do for every language and any
values.  `TraceContextAssumption` holds the typing of headers: any number of
`tracestate`s, at most one `traceparent`.

### Loading (`LoadingProofs`)

* `LibraryStaysMapped`: `[]InstancesSurvive`, without hypothesis: an instance was
  started through the object the binding keeps, which is not collected, and the
  library is mapped while one object is left (`MapInv`);
* `TypesFirst`: `[]CallsAreTyped` if `"python" \notin ManyThreads`.  `TypesInv` has for
  each point of `_get_lib` the functions that are declared by then, and that nobody
  else is in Python meanwhile; `loading_python` shows what happens otherwise.

### Builds (`SysBuildProofs`, `CodegenProofs`)

For any number of runs, edits, staged prebuilds and target directories, and any
faults but those named:

* `FailuresAreExplained`: `[]FailureExplained`, without hypothesis.  `FailInv`: a
  release is downloaded only after go failed or the source could not be copied; the
  archive that is unpacked is what this run has downloaded; a prebuild that was
  chosen is long enough unless it was replaced since;
* `PrebuildsAreSeen`: `[]UpToDate`, without hypothesis.  `WatchInv`: a run that copies a
  prebuild has it watched and records when it changes; a run that builds the source
  watches a file it has written itself, so cargo never takes it for up to date; one that
  downloads watches the repository at least;
* `ChosenIsLinked`: `[]LinkedIsChosen` if no tarball has another layout.  `LinkInv`:
  what is in OUT_DIR from the moment the run has chosen;
* `FreshCopyIsBuilt`: `[]BuiltFromFreshCopy` if no file is deleted.  `FreshInv`: what
  a run has copied is in the crate at least as new as when it started, because versions
  only grow, or cut off by another run that copies over it;
* `ImportLibIsOfLib`: `[]ImportLibMatches` if no file is deleted, no copy of the source
  fails and no tarball has another layout.  `DefInv` pairs the def file with the
  library in OUT_DIR; in `prebuilds/` the property itself asks for it (`StagedTogether`),
  since the script can leave two there that do not belong together.  The hypothesis matters: when a second run finds no
  def file, the import library of the first one stays.  (The run `parts` also has
  a def file that is deleted around a single run, which this theorem leaves out.)
* `CompleteNeedsNoTools`: `CodegenSpec => NoToolsNeeded`, an action property;
* `OneGenerationOnly`: `[]OneGeneration`, for any OUT_DIRs.  `OutInv`: what a build that
  succeeded left in its OUT_DIR is a generation, since the exported protos are all of
  the version that was built or from before their package was removed.  `GenInv` follows the
  script: it has emptied `src/generated/` before it builds, and copies from one OUT_DIR.
  For checked-in code the property asks that this was the script's own; the one find
  takes may hold a mixture that a failed build left.

`ChosenIsLinked` and `FreshCopyIsBuilt` need their hypotheses: without them the runs
`sys_build_layout` and `sys_build_deleted` find the counterexamples.

### The example (`DriveProofs`)

`CurrentAnswers`: `[]AnswersAreCurrent`.  A check reads the newest revision, and writes
append revisions without changing earlier ones, so an answer keeps agreeing with a
revision there was since the request (`DriveInv`).  What `View` computes is not needed:
it is the same function of the revision on both sides.

### Only model-checked

* The liveness properties (every call and dispose returns, metrics ports and backend
  streams are released, `Answered`) and the refinement of `HandleService!FairSpec`:
  they need fairness, which is out of the prover's reach.  Everything else that a
  passing run checks is stated by a theorem, under the hypotheses above.
* What `View` computes, a recursion over folders: induction over data is out of its
  reach too.
* `ImportLibMatches` with deletions around a single run, and `BuiltFromFreshCopy` and
  `LinkedIsChosen` in the scenarios that their hypotheses exclude.

## 5. Findings

* **Overlapping traced instances** (`tracer_overlap`).  `cleanupObservability`
  puts back the provider its own instance saw at start (`main.go` 402).  Start A,
  start B, dispose A, dispose B: the process ends with A's provider, shut down,
  though the comments (`main.go` 349, 390) say the previous one is restored.
* **Dispose and an unread stream** (`dispose_unread_stream`).  `GracefulStop`
  (`main.go` 431) has no deadline and no `Stop` to fall back on.  A handler
  blocked in `Send` to a client that neither reads nor leaves does not notice
  that the backend is closed, and dispose waits for ever.
* **Node's error string** (`node_error_string`).  `callRpc` (`node/src/ffi.ts`
  296) throws before it frees `out_error`, which `main.go` 8-10 says the caller
  must free.  `OnlyNodeErrorsLost` states that this is all that is lost.
* **Python's `_lib`** (`loading_python`).  `_get_lib` (`ffi.py` 113) publishes the
  library before it sets the result and argument types.  Of two threads that
  start their first instance at once, the second calls `spicedb_start` with the
  default result type `int` and reads at a truncated address, though
  `shared/c/README.md` 82-86 promises thread safety and parallel tests.
* **A leftover hides a bad tarball** (`sys_build_layout`).  `build.rs` 314 looks for
  the library in OUT_DIR without having removed an old one.
* **Not the most recent generated code** (`regenerate_other_dir`).  The regenerate script
  takes the first OUT_DIR that `find` lists (line 19), not the "most recent" one of its
  comment (line 18).  Another profile's directory then provides an older API, or the
  mixture that a build which failed half way left there.
* **Deleted Go files are still built** (`sys_build_deleted`).  `copy_dir_recursive`
  (`build.rs` 222) never removes anything from the "fresh copy" of line 138.

Also noticed, and built into the models as the code has it, without a run of its
own:

* `SPICEDB_EMBEDDED_RELEASE_VERSION` has no effect: the crate's version comes first
  (`build.rs` 64, `ReleaseVersion`) and is always there, yet the message of line 325
  tells the user to set it;
* with `metrics_port` 0 there is no server and no error (`main.go` 206), though the
  bindings say "If set, starts a Prometheus HTTP server": `OptionsHonoured` excepts 0;
* a start option of the wrong JSON type counts as omitted, because `main.go` 272
  drops the decoder's error, so a `datastore` that is not a string starts an
  in-memory instance; but a `datastore_metrics_enabled` of the wrong type turns the
  datastore's metrics off, though they are on by default, because the decoder
  allocates the pointer before it reports the error.  `OptionsHonoured` states both;
* dispose may return while the metrics port is still bound: `Shutdown` before the
  goroutine of `main.go` 386 has run knows no listener, and nobody waits for that
  goroutine, though `shared/c/README.md` 70 says dispose "Frees all resources".
  `DisposedLeavesOnlyPort` excepts the port, `MetricsPortReleased` says it is given back
  in the end;
* a socket file that cannot be removed (`streaming_proxy.go` 152; another user's in a
  sticky `/tmp`, same pid) makes every start with its handle fail, with an error
  that is about the bind: `StaleSocketHarmless` excepts it;
* a start leaves its instance running when the exception meets no handler: a channel
  that cannot be built in Node and Python (`embedded.ts` 122-128, `embedded.py`
  126-130), before the `try` of C# (`EmbeddedSpiceDb.cs` 97-103), an `Error` in Java
  (`EmbeddedSpiceDB.java` 99, 138), and an answer of `spicedb_start` that the binding
  rejects (`spicedb.rs` 134-151, `ffi.ts` 248, `ffi.py` 206).  `FailedStartCleansUp` says
  exactly what is left in each;
* after a download a prebuild that is staged later is not noticed, since what tar
  unpacks is older than the run (`build.rs` 97, 298): `UpToDate` excepts downloads;
* `stage-rust-prebuild.sh` copies library and def file one after the other, tests only that
  some library is there (line 32), and keeps an old def file when the repository has none
  (39-41): `ImportLibMatches` is about what was staged together;
* protos removed upstream are compiled again, since `buf_export` in OUT_DIR is never emptied
  (`spicedb-grpc-tonic/build.rs` 41, 51-64): `Generation` allows for them.

`FailedStartStops` also states what a failed start leaves, since the code does
so today: an open datastore when the server, the tracer or the metrics server
fails, and an open in-memory connection when the listener cannot be bound.

## 6. Not modelled

* CI workflows and the scripts that package the library for npm, PyPI, Maven and
  NuGet: they copy files and call package managers.
* The examples in the other languages, which use their binding as the Rust one
  does, and the generated gRPC code.
* The search for the library in the file system (`findLibrary`, `_find_library`,
  `SpiceDBLibraryPath`, `FindLibraryPath`): a list of places tried in order.
* Delivery of callbacks in Node, Java's event loop groups, the OpenTelemetry
  propagator (start sets the same one each time and nobody promises to restore
  it), the characters allowed in a release version.
* Two copies of the library in one process, which would share socket paths
  (`streaming_proxy.go` 25): every binding loads one.
* Code in `#[cfg(test)]`, which takes up most of `rust/src/spicedb.rs`.

## 7. Plan

Done, in this order: `Instances` with its runs; `FfiRpc`, `StreamingProxy`,
`Library`, `HandleService`; `Bindings`; `TraceContext`; `InstancesProofs`;
`LibraryProofs`; `SysBuild`; `Drive`; `Codegen`; `StartOptions`; `Loading`; the
remaining safety properties of `Instances` and `Library` with the refinement of
`HandleService`; `BindingsProofs`, `DriveProofs`, `LoadingProofs`, `CodegenProofs`,
`CallsProofs`, `SysBuildProofs`.

Next, to model: a composition of `Bindings` with `Library`, in which Node's `close`
blocks the one thread that could read or cancel the streams dispose waits for.

To prove:

1. that hypotheses can be weakened: `ImportLibMatches` with deletions around a single run;
2. the handle of `Bindings` against `HandleService`: that its open, closing and closed
   are the status of a handle there, so that what is proved of the bindings holds
   over the library;
3. steps towards liveness that are safety: that a thread in dispose always has a
   step to take or waits for something named (`CanMove`), from `LifeInv` and `WorkInv`.
