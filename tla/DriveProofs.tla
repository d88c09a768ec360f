----------------------------- MODULE DriveProofs -----------------------------
(***************************************************************************)
(* The example's answers are current: a proof of AnswersAreCurrent for any *)
(* relationships, any number of requests and threads, and any schema of    *)
(* folders that can be written with the relationships of Rels.             *)
(***************************************************************************)
EXTENDS Drive, TLAPS

Phases == {"queued", "checking", "200", "401", "403", "500"}
Request == [at : Phases, header : Header, doc : Docs, since : Nat]

\* The datastore has a revision, and a request knows one that was there when
\* it came in.
DriveTypeOK ==
    /\ revs \in Seq(SUBSET Rels) /\ Len(revs) \in Nat \ {0}
    /\ DOMAIN http = Requests
    /\ \A r \in Requests : http[r] # NoRequest =>
          http[r] \in Request /\ http[r].since \in 1 .. Len(revs)

\* The answer to r is what the revision k says.
AnswerOf(rels, q) == View(rels, q.header.user, q.doc) <=> q.at = "200"

\* An answer agrees with one of the revisions there were since the request.
Current(q, rs) ==
    q.at \in {"200", "403"} => \E k \in q.since .. Len(rs) : AnswerOf(rs[k], q)

DriveInv == DriveTypeOK /\ \A r \in Requests : Current(http[r], revs)

-----------------------------------------------------------------------------
\* A new revision leaves the earlier ones as they are, and with them what an
\* answer given before agrees with (write_relationships of the example).
LEMMA EarlierStay ==
    ASSUME NEW S, NEW rs \in Seq(S), NEW x \in S, NEW q \in Request, Current(q, rs), q.since # 0
    PROVE  Current(q, Append(rs, x))
<1>2. q.since # 0
  OBVIOUS
<1>1. CASE q.at \in {"200", "403"}
  <2>1. PICK k \in q.since .. Len(rs) : AnswerOf(rs[k], q)
    BY <1>1 DEF Current
  <2>2. q.since \in Nat
    BY DEF Request
  <2>3. CASE k \in 1 .. Len(rs)
    <3>1. Append(rs, x)[k] = rs[k]
      BY <2>3
    <3>2. k \in q.since .. Len(Append(rs, x))
      BY <2>1, <2>2
    <3> QED
      BY <2>1, <3>1, <3>2 DEF Current
  <2>4. k \in 1 .. Len(rs) \/ q.since = 0
    BY <2>1, <2>2
  <2> QED
    BY <2>3, <2>4, <1>2
<1> QED
  BY <1>1 DEF Current

\* Only the step of a request changes, and no other request (handler of the
\* example: every request has a future of its own).
LEMMA ReplyKeeps ==
    ASSUME DriveInv, NEW r \in Requests, NEW status \in Phases, http[r].at \in Phases,
           Reply(r, status),
           status \in {"200", "403"} =>
               \E k \in 1 .. Len(revs) : k = Len(revs) /\
                   (View(revs[k], http[r].header.user, http[r].doc) <=> status = "200")
    PROVE  DriveInv'
<1>1. http[r] # NoRequest
  BY DEF NoRequest, Phases
<1>2. http[r] \in Request /\ http[r].since \in 1 .. Len(revs)
  BY <1>1 DEF DriveInv, DriveTypeOK
<1> DEFINE q == [http[r] EXCEPT !.at = status]
<1>3. /\ q \in Request /\ q.at = status /\ q.since = http[r].since
      /\ q.header = http[r].header /\ q.doc = http[r].doc
  BY <1>2 DEF Request
<1>4. http' = [http EXCEPT ![r] = q] /\ revs' = revs /\ DOMAIN http = Requests
  BY DEF Reply, DriveInv, DriveTypeOK
<1> HIDE DEF q
<1>5. http'[r] = q /\ \A s \in Requests \ {r} : http'[s] = http[s]
  BY <1>4
<1>6. Current(q, revs)
  <2>1. CASE status \in {"200", "403"}
    <3>1. View(revs[Len(revs)], q.header.user, q.doc) <=> status = "200"
      BY <2>1, <1>3
    <3>2. Len(revs) \in q.since .. Len(revs)
      BY <1>2, <1>3 DEF DriveInv, DriveTypeOK
    <3> QED
      BY <1>3, <3>1, <3>2 DEF Current, AnswerOf
  <2> QED
    BY <2>1, <1>3 DEF Current
<1>7. DriveTypeOK'
  BY <1>2, <1>3, <1>4, <1>5 DEF DriveInv, DriveTypeOK
<1>8. \A s \in Requests : Current(http'[s], revs')
  BY <1>4, <1>5, <1>6 DEF DriveInv
<1> QED
  BY <1>7, <1>8 DEF DriveInv

-----------------------------------------------------------------------------
\* create_app, with the seed or without.
LEMMA DriveStarts == DriveInit => DriveInv
<1> SUFFICES ASSUME DriveInit PROVE DriveInv
  OBVIOUS
<1>1. revs \in Seq(SUBSET Rels) /\ Len(revs) = 1
  <2>1. Seed \in SUBSET Rels /\ {} \in SUBSET Rels
    BY DriveAssumption
  <2>2. \A s \in SUBSET Rels : <<s>> \in Seq(SUBSET Rels) /\ Len(<<s>>) = 1
    OBVIOUS
  <2>3. revs = <<Seed>> \/ revs = <<{}>>
    BY DEF DriveInit
  <2> QED
    BY <2>1, <2>2, <2>3
<1>2. DOMAIN http = Requests /\ \A r \in Requests : http[r] = NoRequest
  BY DEF DriveInit
<1>3. \A r \in Requests : Current(http[r], revs)
  BY <1>2 DEF Current, NoRequest
<1> QED
  BY <1>1, <1>2, <1>3 DEF DriveInv, DriveTypeOK

\* Every step of the handler, of a request that comes in and of a writer.
LEMMA DriveStep == DriveInv /\ [DriveNext]_driveVars => DriveInv'
<1> SUFFICES ASSUME DriveInv, [DriveNext]_driveVars PROVE DriveInv'
  OBVIOUS
<1>1. ASSUME NEW rel \in Rels, Write(rel) PROVE DriveInv'
  <2> DEFINE rels == revs[Len(revs)]
             new == IF rel \in rels THEN rels \ {rel} ELSE rels \cup {rel}
  <2>1. revs \in Seq(SUBSET Rels) /\ Len(revs) \in Nat \ {0}
    BY DEF DriveInv, DriveTypeOK
  <2>2. rels \in SUBSET Rels
    BY <2>1
  <2>3. new \in SUBSET Rels
    BY <2>2
  <2>4. revs' = Append(revs, new) /\ http' = http
    BY <1>1 DEF Write
  <2> HIDE DEF new
  <2>5. revs' \in Seq(SUBSET Rels) /\ Len(revs') = Len(revs) + 1
    BY <2>1, <2>3, <2>4
  <2>6. DriveTypeOK'
    <3>1. \A r \in Requests : http[r] # NoRequest =>
              http[r] \in Request /\ http[r].since \in 1 .. Len(revs')
      BY <2>1, <2>5 DEF DriveInv, DriveTypeOK
    <3> QED
      BY <2>1, <2>4, <2>5, <3>1 DEF DriveInv, DriveTypeOK
  <2>7. ASSUME NEW r \in Requests PROVE Current(http[r], Append(revs, new))
    <3>1. CASE http[r] = NoRequest
      BY <3>1 DEF Current, NoRequest
    <3>2. CASE http[r] # NoRequest
      <4>1. http[r] \in Request /\ Current(http[r], revs) /\ http[r].since # 0
        BY <2>1, <3>2 DEF DriveInv, DriveTypeOK
      <4> QED
        BY <4>1, <2>1, <2>3, EarlierStay
    <3> QED
      BY <3>1, <3>2
  <2> QED
    BY <2>4, <2>6, <2>7 DEF DriveInv
<1>2. ASSUME NEW r \in Requests, NEW header \in Header, NEW d \in Docs, Receive(r, header, d)
      PROVE  DriveInv'
  <2> DEFINE q == [at |-> "queued", header |-> header, doc |-> d, since |-> Len(revs)]
  <2>1. q \in Request /\ q.since \in 1 .. Len(revs) /\ q.at = "queued"
    BY <1>2 DEF DriveInv, DriveTypeOK, Request, Phases
  <2>2. http' = [http EXCEPT ![r] = q] /\ revs' = revs
    BY <1>2 DEF Receive
  <2> HIDE DEF q
  <2>3. http'[r] = q /\ \A s \in Requests \ {r} : http'[s] = http[s]
    BY <2>2 DEF DriveInv, DriveTypeOK
  <2>4. DriveTypeOK'
    BY <2>1, <2>2, <2>3 DEF DriveInv, DriveTypeOK
  <2>5. Current(q, revs)
    BY <2>1 DEF Current
  <2> QED
    BY <2>2, <2>3, <2>4, <2>5 DEF DriveInv
<1>3. ASSUME NEW r \in Requests, Unauthorized(r) PROVE DriveInv'
  BY <1>3, ReplyKeeps DEF Unauthorized, Phases
<1>4. ASSUME NEW r \in Requests, BeginCheck(r) PROVE DriveInv'
  BY <1>4, ReplyKeeps DEF BeginCheck, Phases
<1>5. ASSUME NEW r \in Requests, Decide(r) PROVE DriveInv'
  <2>1. Len(revs) \in 1 .. Len(revs) /\ http[r].at \in Phases
    BY <1>5 DEF DriveInv, DriveTypeOK, Decide, Phases
  <2>2. CASE View(revs[Len(revs)], http[r].header.user, http[r].doc) /\ Reply(r, "200")
    BY <2>1, <2>2, ReplyKeeps DEF Phases
  <2>3. CASE ~View(revs[Len(revs)], http[r].header.user, http[r].doc) /\ Reply(r, "403")
    BY <2>1, <2>3, ReplyKeeps DEF Phases
  <2> QED
    BY <1>5, <2>2, <2>3 DEF Decide, CheckedRevisions
<1>6. ASSUME NEW r \in Requests, CheckError(r) PROVE DriveInv'
  BY <1>6, ReplyKeeps DEF CheckError, Phases
<1>7. CASE UNCHANGED driveVars
  BY <1>7 DEF driveVars, DriveInv, DriveTypeOK
<1> QED
  BY <1>1, <1>2, <1>3, <1>4, <1>5, <1>6, <1>7 DEF DriveNext, Handle

\* Whoever is let in had view at some revision since the request came in, and
\* whoever is refused had not: fully_consistent reads the newest revision
\* there is when it decides, and a revision once written never changes.
THEOREM CurrentAnswers == DriveSpec => []AnswersAreCurrent
<1>1. DriveInv => AnswersAreCurrent
  BY DEF DriveInv, AnswersAreCurrent, Current, AnswerOf
<1> QED
  BY <1>1, DriveStarts, DriveStep, PTL DEF DriveSpec
=============================================================================
