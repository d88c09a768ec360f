---------------------------- MODULE HandleService ----------------------------
(***************************************************************************)
(* What the library promises its host about handles and unary requests,    *)
(* without threads, locks, connections or goroutines.                      *)
(*                                                                         *)
(*   - A handle is opened once, closed once, and never comes back.         *)
(*   - A request has its effect at most once, only on the instance its     *)
(*     handle named when it was looked up, and only until the close of     *)
(*     that instance has returned.                                         *)
(*   - "ok" means the effect has happened.  "invalid" means that the       *)
(*     handle was not open, and "unsupported" that the method is unknown:  *)
(*     neither ever has an effect.  "failed" promises nothing: the effect  *)
(*     may have happened and may even happen later.                        *)
(*   - Every request is answered and every close returns.                  *)
(***************************************************************************)
CONSTANTS Handle, Call

VARIABLES
    status,  \* per handle: free, open, closing or closed
    ask      \* per request: its progress, its handle, its effect, its answer

vars == <<status, ask>>

Answers == {"ok", "unsupported", "invalid", "failed"}

Init ==
    /\ status = [h \in Handle |-> "free"]
    /\ ask = [c \in Call |-> [pc |-> "idle", h |-> 0, effect |-> "none", answer |-> "none"]]

Open(h) ==
    /\ status[h] = "free"
    /\ status' = [status EXCEPT ![h] = "open"]
    /\ UNCHANGED ask

CloseBegins(h) ==
    /\ status[h] = "open"
    /\ status' = [status EXCEPT ![h] = "closing"]
    /\ UNCHANGED ask

CloseEnds(h) ==
    /\ status[h] = "closing"
    /\ status' = [status EXCEPT ![h] = "closed"]
    /\ UNCHANGED ask

Ask(c, h) ==
    /\ ask[c].pc = "idle"
    /\ ask' = [ask EXCEPT ![c].pc = "asked", ![c].h = h]
    /\ UNCHANGED status

AskUnsupported(c, h) ==
    /\ ask[c].pc = "idle"
    /\ ask' = [ask EXCEPT ![c].pc = "answered", ![c].h = h, ![c].answer = "unsupported"]
    /\ UNCHANGED status

\* The request is tied to the instance its handle names now.
Bind(c) ==
    /\ ask[c].pc = "asked"
    /\ status[ask[c].h] = "open"
    /\ ask' = [ask EXCEPT ![c].pc = "bound"]
    /\ UNCHANGED status

AnswerInvalid(c) ==
    /\ ask[c].pc = "asked"
    /\ status[ask[c].h] # "open"
    /\ ask' = [ask EXCEPT ![c].pc = "answered", ![c].answer = "invalid"]
    /\ UNCHANGED status

\* A request that cannot be decoded fails before it is bound.
AnswerUndecodable(c) ==
    /\ ask[c].pc = "asked"
    /\ status[ask[c].h] = "open"
    /\ ask' = [ask EXCEPT ![c].pc = "answered", ![c].answer = "failed"]
    /\ UNCHANGED status

AnswerOk(c) ==
    /\ ask[c].pc = "bound"
    /\ ask[c].effect = "applied"
    /\ ask' = [ask EXCEPT ![c].pc = "answered", ![c].answer = "ok"]
    /\ UNCHANGED status

\* From here on the host does not know; an effect may still come.
AnswerFailed(c) ==
    /\ ask[c].pc = "bound"
    /\ ask' = [ask EXCEPT ![c].pc = "abandoned", ![c].answer = "failed"]
    /\ UNCHANGED status

Apply(c) ==
    /\ ask[c].pc \in {"bound", "abandoned"}
    /\ ask[c].effect = "none"
    /\ status[ask[c].h] \in {"open", "closing"}
    /\ ask' = [ask EXCEPT ![c].effect = "applied"]
    /\ UNCHANGED status

Answer(c) ==
    \/ Bind(c)
    \/ AnswerInvalid(c)
    \/ AnswerUndecodable(c)
    \/ AnswerOk(c)
    \/ AnswerFailed(c)

Next ==
    \/ \E h \in Handle : Open(h) \/ CloseBegins(h) \/ CloseEnds(h)
    \/ \E c \in Call, h \in Handle : Ask(c, h) \/ AskUnsupported(c, h)
    \/ \E c \in Call : Answer(c) \/ Apply(c)

Spec == Init /\ [][Next]_vars

Fairness ==
    /\ \A c \in Call : WF_vars(Answer(c))
    /\ \A h \in Handle : WF_vars(CloseEnds(h))

FairSpec == Spec /\ Fairness
=============================================================================
