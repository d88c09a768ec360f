------------------------------- MODULE Drive --------------------------------
(***************************************************************************)
(* The google-docs example: the HTTP handler of /drive/{folder}/{document} *)
(* above the embedded SpiceDB, with relationships written while requests   *)
(* are under way.                                                          *)
(*                                                                         *)
(* SpiceDB is external: a sequence of revisions, each a set of             *)
(* relationships <<resource, relation, subject>>, and a check that reads   *)
(* one of them.                                                            *)
(***************************************************************************)
EXTENDS Naturals, Sequences, FiniteSets

CONSTANTS
    Users, Docs, Folders,
    Rels,        \* the relationships that are written or deleted
    Seed,        \* seed_relationships
    Requests,
    Workers,     \* threads of the runtime: a check blocks one of them
    MaxWrites    \* bounds the writes

ASSUME DriveAssumption ==
    /\ IsFiniteSet(Folders) /\ Workers \in Nat \ {0} /\ MaxWrites \in Nat
    /\ Seed \subseteq Rels
    /\ \A r \in Rels : \/ r[2] = "folder" /\ r[1] \in Docs /\ r[3] \in Folders
                       \/ r[2] = "parent" /\ r[1] \in Folders /\ r[3] \in Folders
                       \/ r[2] = "viewer" /\ r[1] \in Docs \cup Folders /\ r[3] \in Users

VARIABLES
    revs,   \* the revisions of the datastore
    http     \* the requests

driveVars == <<revs, http>>

\* An X-User header, trimmed: a name, a name that SpiceDB does not accept, or
\* none since the header is absent, blank or not ASCII.
Header == [user : Users, form : {"name", "illformed", "unusable"}]
NoRequest == [at |-> "none"]

-----------------------------------------------------------------------------
\* The schema: view = viewer + folder->view, and viewer + parent->view.

FolderViewers(rels, u) ==
    LET upTo[n \in Nat] ==
            IF n = 0 THEN {f \in Folders : <<f, "viewer", u>> \in rels}
            ELSE upTo[n-1] \cup {f \in Folders : \E p \in upTo[n-1] : <<f, "parent", p>> \in rels}
    IN  upTo[Cardinality(Folders)]

View(rels, u, d) ==
    \/ <<d, "viewer", u>> \in rels
    \/ \E f \in FolderViewers(rels, u) : <<d, "folder", f>> \in rels

\* The chain of dispatches from d does not end: SpiceDB gives up at its limit.
Parents(rels, F) == F \cup {p \in Folders : \E f \in F : <<f, "parent", p>> \in rels}
Above(rels, F) ==
    LET up[n \in Nat] == IF n = 0 THEN F ELSE Parents(rels, up[n-1])
    IN  up[Cardinality(Folders)]
Endless(rels, d) ==
    \E f \in Above(rels, {f \in Folders : <<d, "folder", f>> \in rels}) :
        f \in Above(rels, {p \in Folders : <<f, "parent", p>> \in rels})

-----------------------------------------------------------------------------
\* create_app with the default or with no relationships.
DriveInit ==
    /\ revs \in {<<Seed>>, <<{}>>}
    /\ http = [r \in Requests |-> NoRequest]

\* write_relationships of whoever shares the instance.
Write(rel) ==
    LET rels == revs[Len(revs)] IN
    /\ Len(revs) <= MaxWrites
    /\ revs' = Append(revs, IF rel \in rels THEN rels \ {rel} ELSE rels \cup {rel})
    /\ UNCHANGED http

\* A request arrives; the folder in its path is echoed and never looked at.
Receive(r, header, d) ==
    /\ http[r] = NoRequest
    /\ http' = [http EXCEPT ![r] = [at |-> "queued", header |-> header, doc |-> d, since |-> Len(revs)]]
    /\ UNCHANGED revs

Reply(r, status) == http' = [http EXCEPT ![r] = [@ EXCEPT !.at = status]] /\ UNCHANGED revs

\* Without a name there is no check.
Unauthorized(r) ==
    /\ http[r].at = "queued" /\ http[r].header.form = "unusable"
    /\ Reply(r, "401")

BeginCheck(r) ==
    /\ http[r].at = "queued" /\ http[r].header.form # "unusable"
    /\ Cardinality({s \in Requests : http[s].at = "checking"}) < Workers
    /\ Reply(r, "checking")

\* Mutant of CheckedRevisions: minimize_latency, any revision may do.
AnyRevision == 1 .. Len(revs)

\* fully_consistent: the newest revision there is.
CheckedRevisions == {Len(revs)}

\* check_permission, and the answer made of its result.
Decide(r) ==
    /\ http[r].at = "checking" /\ http[r].header.form # "illformed"
    /\ \E k \in CheckedRevisions :
          \/ View(revs[k], http[r].header.user, http[r].doc) /\ Reply(r, "200")
          \/ /\ ~View(revs[k], http[r].header.user, http[r].doc)
             /\ ~Endless(revs[k], http[r].doc)
             /\ Reply(r, "403")

\* Mutant of CheckError: the result is unwrapped, the task panics.
CheckPanics(r) ==
    /\ http[r].at = "checking"
    /\ \/ http[r].header.form = "illformed" \/ Endless(revs[Len(revs)], http[r].doc)
    /\ Reply(r, "panicked")

CheckError(r) ==
    /\ http[r].at = "checking"
    /\ \/ http[r].header.form = "illformed" \/ Endless(revs[Len(revs)], http[r].doc)
    /\ Reply(r, "500")

Handle(r) == Unauthorized(r) \/ BeginCheck(r) \/ Decide(r) \/ CheckError(r)

DriveNext ==
    \/ \E rel \in Rels : Write(rel)
    \/ \E r \in Requests : Handle(r) \/ \E header \in Header, d \in Docs : Receive(r, header, d)

\* The runtime polls every handler that is ready.
DriveFairness == \A r \in Requests : WF_driveVars(Handle(r))

DriveSpec == DriveInit /\ [][DriveNext]_driveVars /\ DriveFairness
-----------------------------------------------------------------------------
\* Properties

\* Who is let in is who had view at some time since the request came in, and
\* who is refused is who had not: a grant or a revocation acknowledged before
\* the request is never missed.
AnswersAreCurrent ==
    \A r \in Requests : http[r].at \in {"200", "403"} =>
        \E k \in http[r].since .. Len(revs) :
            View(revs[k], http[r].header.user, http[r].doc) <=> http[r].at = "200"

\* Every request is answered, also when SpiceDB reports an error and when
\* there are more requests than threads.
Answered == \A r \in Requests : http[r].at = "queued" ~> http[r].at \in {"200", "401", "403", "500"}
=============================================================================
