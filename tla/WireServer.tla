----------------------------- MODULE WireServer -----------------------------
(***************************************************************************)
(* The JSON-RPC server of wire mode: wire/server.py over the root hub      *)
(* (wire/root_hub.py), the turn's wire (wire/__init__.py) and run_soul()   *)
(* (soul/__init__.py), composed with the approvals.                        *)
(*                                                                         *)
(* The client is the environment: it may initialize, prompt, replay,       *)
(* cancel and close at any time, and answer whatever it has been sent,     *)
(* late or twice.  The loops over the hub and over the wire never suspend  *)
(* while their queue holds a message, so each empties its queue in a step. *)
(***************************************************************************)
EXTENDS Approvals

VARIABLES
  conn,         \* open, closing (_shutdown), deaf (off the hub), closed
  initialized,
  streaming,    \* _cancel_event is not None
  cancel,       \* the event of this prompt or replay is set
  soul,         \* how far the handler of a prompt or replay is
  wire,         \* calls on the turn's wire that the UI loop has not seen
  pending,      \* approvals in _pending_requests; all were sent to the client
  pendingAsks   \* asks in _pending_requests; all were sent to the client

promptVars == <<streaming, cancel, soul>>
askVars == <<wire, pendingAsks>>
serverVars == <<conn, initialized, promptVars, askVars, pending>>
vars == <<approvalVars, serverVars>>

WireTypeOK ==
  /\ ApprovalsTypeOK
  /\ conn \in {"open", "closing", "deaf", "closed"}
  /\ {initialized, streaming, cancel} \subseteq BOOLEAN
  /\ soul \in {"idle", "replay", "running", "cancelled", "finished"}
  /\ {wire, pendingAsks} \subseteq SUBSET AskIds
  /\ pending \subseteq Ids
  /\ hub.asked \cup hub.answered \subseteq Ids

Init ==
  /\ ApprovalsInit
  /\ conn = "open" /\ initialized = FALSE
  /\ streaming = FALSE /\ cancel = FALSE /\ soul = "idle"
  /\ wire = {} /\ pendingAsks = {}
  /\ pending = {}

-----------------------------------------------------------------------------
(***************************************************************************)
(* Requests that are not approvals.                                        *)
(***************************************************************************)
\* An external tool or a question of the turn goes over its wire.
AskCall(t) ==
  /\ life[t] = "running" /\ Room
  /\ asks' = Append(asks, [owner |-> t, kind |-> "call",
                           future |-> "open", caller |-> "waiting"])
  /\ wire' = wire \cup {Len(asks) + 1}
  /\ UNCHANGED <<life, requests, auto, hub, conn, initialized, promptVars,
                 pending, pendingAsks>>

\* A hook goes to the client at once, through the callback of initialize.
AskHook(s) ==
  /\ Live(s) /\ initialized /\ Room
  /\ asks' = Append(asks, [owner |-> s, kind |-> "hook",
                           future |-> "open", caller |-> "waiting"])
  /\ pendingAsks' = pendingAsks \cup {Len(asks) + 1}
  /\ UNCHANGED <<life, requests, auto, hub, conn, initialized, promptVars,
                 pending, wire>>

\* The asks of S are resolved; a future that is done stays as it is.
Resolved(S) ==
  [k \in AskIds |-> IF k \in S THEN [asks[k] EXCEPT !.future = "done", !.caller = "gone"]
                    ELSE asks[k]]

Unresolved == {k \in pendingAsks : asks[k].future = "open"}

\* The caller is cancelled, or a hook times out.  A cancelled wait cancels the
\* future of a call; the callback of a hook is only cancelled by its timeout.
DropAsk(k, future) ==
  /\ asks[k].caller = "waiting"
  /\ asks' = [asks EXCEPT ![k].caller = "gone", ![k].future = future]
  /\ UNCHANGED <<life, requests, auto, hub, serverVars>>

CancelAsk(k) == DropAsk(k, IF asks[k].kind = "call" THEN "done" ELSE asks[k].future)
TimeoutHook(k) == asks[k].kind = "hook" /\ DropAsk(k, "done")

-----------------------------------------------------------------------------
(***************************************************************************)
(* The loops.                                                              *)
(***************************************************************************)
\* _root_hub_loop(): a request is kept and sent, a response removes it.
HubLoop ==
  /\ hub.open /\ hub.asked \cup hub.answered # {}
  /\ hub' = [hub EXCEPT !.asked = {}, !.answered = {}]
  /\ IF initialized
     THEN pending' = (pending \cup hub.asked) \ hub.answered
     ELSE UNCHANGED pending
  /\ UNCHANGED <<life, requests, auto, asks, conn, initialized, promptVars, askVars>>

\* _stream_wire_messages().
UILoop ==
  /\ wire # {}
  /\ wire' = {}
  /\ pendingAsks' = pendingAsks \cup wire
  /\ UNCHANGED <<approvalVars, conn, initialized, promptVars, pending>>

-----------------------------------------------------------------------------
(***************************************************************************)
(* What the client asks for; each is a task of its own, made by the read   *)
(* loop while the connection is open.                                      *)
(***************************************************************************)
\* Faulty: what was asked before is not sent.
InitializeOnly ==
  /\ conn = "open" /\ ~streaming
  /\ initialized' = TRUE
  /\ UNCHANGED <<approvalVars, conn, promptVars, askVars, pending>>

\* _handle_initialize(): everything pending is sent again.
Initialize ==
  /\ conn = "open" /\ ~streaming
  /\ initialized' = TRUE
  /\ pending' = pending \cup Pending
  /\ UNCHANGED <<approvalVars, conn, promptVars, askVars>>

\* _handle_prompt() up to run_soul() and the start of KimiSoul.run().
Prompt(t) ==
  /\ conn = "open" /\ ~streaming
  /\ StartTurn(t)
  /\ streaming' = TRUE /\ cancel' = FALSE /\ soul' = "running"
  /\ UNCHANGED <<conn, initialized, askVars, pending>>

Replay ==
  /\ conn = "open" /\ ~streaming
  /\ streaming' = TRUE /\ cancel' = FALSE /\ soul' = "replay"
  /\ UNCHANGED <<approvalVars, conn, initialized, askVars, pending>>

Cancel ==
  /\ conn = "open" /\ streaming
  /\ cancel' = TRUE
  /\ UNCHANGED <<approvalVars, conn, initialized, streaming, soul, askVars, pending>>

\* _handle_response() to an approval: the entry is popped, then the request
\* is resolved.  Without an entry the answer is only logged.
Answer(i, response) ==
  /\ conn = "open" /\ i \in pending
  /\ pending' = pending \ {i}
  /\ Settle({i}, "resolved", response)
  /\ UNCHANGED <<life, auto, asks, conn, initialized, promptVars, askVars>>

AnswerAsk(k) ==
  /\ conn = "open" /\ k \in pendingAsks
  /\ pendingAsks' = pendingAsks \ {k}
  /\ asks' = IF asks[k].future = "open" THEN Resolved({k}) ELSE asks
  /\ UNCHANGED <<life, requests, auto, hub, conn, initialized, promptVars,
                 pending, wire>>

-----------------------------------------------------------------------------
(***************************************************************************)
(* The prompt: run_soul() and the finally of _handle_prompt().             *)
(***************************************************************************)
\* Faulty: the soul is left alone and waited for.
CancelSoulWaits(t) ==
  /\ soul = "running" /\ cancel
  /\ life[t] = "running"
  /\ soul' = "cancelled"
  /\ UNCHANGED <<approvalVars, conn, initialized, streaming, cancel, askVars,
                 pending>>

\* run_soul() sees the event and cancels the soul, unless that is done.
CancelSoul(t) ==
  /\ soul = "running" /\ cancel
  /\ CancelTurn(t)
  /\ soul' = "cancelled"
  /\ UNCHANGED <<conn, initialized, streaming, cancel, askVars, pending>>

\* KimiSoul.run() ends, with its turn or by its cancellation.
SoulEnds(t) ==
  /\ soul \in {"running", "cancelled"}
  /\ EndTurn(t)
  /\ soul' = "finished"
  /\ UNCHANGED <<conn, initialized, streaming, cancel, askVars, pending>>

\* The wire is shut down, the UI loop empties it and ends; then what is left
\* of the turn in _pending_requests is answered.
Stale == {i \in pending : requests[i].source \in Foreground}

Cleanup ==
  /\ soul = "finished" /\ wire = {}
  /\ soul' = "idle" /\ streaming' = FALSE /\ cancel' = FALSE
  /\ pending' = pending \ Stale
  /\ Settle(Stale, "resolved", "reject")
  /\ asks' = Resolved(Unresolved)
  /\ pendingAsks' = pendingAsks \ Unresolved
  /\ UNCHANGED <<life, auto, conn, initialized, wire>>

\* The replay has sent everything, or saw the cancel event.
EndReplay ==
  /\ soul = "replay"
  /\ soul' = "idle" /\ streaming' = FALSE /\ cancel' = FALSE
  /\ UNCHANGED <<approvalVars, conn, initialized, askVars, pending>>

-----------------------------------------------------------------------------
(***************************************************************************)
(* The end of the connection: _shutdown(), after stdin closed or SIGINT.   *)
(***************************************************************************)
\* Faulty: the running prompt is not told.
CloseSilently ==
  /\ conn = "open"
  /\ conn' = "closing"
  /\ Settle(Stale, "resolved", "reject")
  /\ asks' = Resolved(Unresolved)
  /\ pending' = {} /\ pendingAsks' = {}
  /\ streaming' = FALSE
  /\ UNCHANGED <<life, auto, initialized, cancel, soul, wire>>

Close ==
  /\ conn = "open"
  /\ conn' = "closing"
  /\ Settle(Stale, "resolved", "reject")
  /\ asks' = Resolved(Unresolved)
  /\ pending' = {} /\ pendingAsks' = {}
  /\ cancel' = (cancel \/ streaming) /\ streaming' = FALSE
  /\ UNCHANGED <<life, auto, initialized, soul, wire>>

\* The write queue is empty; the hub loop is cancelled and unsubscribed.
LeaveHub ==
  /\ conn = "closing"
  /\ conn' = "deaf"
  /\ hub' = [hub EXCEPT !.open = FALSE]
  /\ UNCHANGED <<life, requests, auto, asks, initialized, promptVars, askVars,
                 pending>>

\* The handlers have ended.
Closed ==
  /\ conn = "deaf" /\ soul = "idle"
  /\ conn' = "closed" /\ initialized' = FALSE
  /\ UNCHANGED <<approvalVars, promptVars, askVars, pending>>

-----------------------------------------------------------------------------
ClientNext ==
  \/ Initialize \/ Replay \/ Cancel \/ Close
  \/ \E t \in Turns : Prompt(t)
  \/ \E i \in Ids, r \in Responses : Answer(i, r)
  \/ \E k \in AskIds : AnswerAsk(k)

SoulNext ==
  \/ conn # "closed" /\ RunNext /\ UNCHANGED serverVars
  \/ \E t \in Turns : AskCall(t) \/ CancelSoul(t) \/ SoulEnds(t)
  \/ \E s \in Foreground : AskHook(s)
  \/ \E k \in AskIds : CancelAsk(k) \/ TimeoutHook(k)

ServerNext ==
  \/ HubLoop \/ UILoop \/ Cleanup \/ EndReplay \/ LeaveHub \/ Closed

Next == ClientNext \/ SoulNext \/ ServerNext

Spec == Init /\ [][Next]_vars

-----------------------------------------------------------------------------
(***************************************************************************)
(* Properties.                                                             *)
(***************************************************************************)
\* Once a client has initialized, a pending approval is in _pending_requests
\* or on its way there, and what is in _pending_requests is pending or has its
\* response on the way: nothing waits for an answer that nobody can give, and
\* the client is told of every request it no longer has to answer.
EveryPendingIsShown ==
  initialized /\ conn = "open" =>
    /\ Pending \ pending \subseteq hub.asked
    /\ pending \ Pending \subseteq hub.answered

\* When a prompt has returned, no request or ask of its turn is open, and no
\* tool or hook of it sleeps, whether it ended, failed or was cancelled and
\* whatever the client did (the finally clauses of KimiSoul.run() and
\* _handle_prompt() together).
PromptLeavesNothing ==
  soul \in {"idle", "replay"} =>
    /\ \A i \in Ids : requests[i].source \in Turns =>
         requests[i].status # "pending" /\ ~Asleep(i)
    /\ \A k \in AskIds : asks[k].owner \in Turns =>
         asks[k].caller = "gone" /\ asks[k].future = "done"

\* After a grant for the session nothing that it covers is left waiting, in
\* whatever agent it was asked (Approval.request(), approve_for_session).
GrantCoversAll == \A i \in Pending : requests[i].action \notin auto

\* _handle_prompt() (wire/server.py:714): after run_soul() returned, the soul
\* and all subagents are done.
SubagentsAreDone ==
  soul \in {"idle", "replay"} => \A s \in Subagents : ~Live(s)

\* The approvals, the runs that ask and the server implement ApprovalContract.
Allowed(request) == request.status = "resolved" /\ request.response # "reject"

Verdict(i) ==
  IF i \notin Ids THEN "none"
  ELSE IF i \in Pending THEN "open"
  ELSE IF Allowed(requests[i]) THEN "yes" ELSE "no"

Numbers == 1 .. MaxRequests
AskedFor == [i \in Numbers |-> IF i \in Ids THEN requests[i].action
                               ELSE CHOOSE a \in Actions : TRUE]
Verdicts == [i \in Numbers |-> Verdict(i)]
WentAhead == {i \in Ids : requests[i].caller = "allowed"}

C == INSTANCE ApprovalContract WITH
  Ids <- Numbers, action <- AskedFor, verdict <- Verdicts,
  granted <- auto, ran <- WentAhead

ContractHolds == C!Contract

(***************************************************************************)
(* Fairness: every task that can run is run.  A soul whose tools have      *)
(* ended ends its turn (its steps are limited), and a connected client     *)
(* answers what it was sent, as the protocol asks of it.                   *)
(***************************************************************************)
CancelTools(t) ==
  /\ life[t] = "cancelled"
  /\ \/ \E i \in Of(t) : DropTool(i) /\ UNCHANGED serverVars
     \/ \E s \in Subagents : DetachSubagent(s) /\ UNCHANGED serverVars
     \/ \E k \in AskIds : asks[k].owner = t /\ CancelAsk(k)

Fairness ==
  /\ WF_vars(HubLoop) /\ WF_vars(UILoop) /\ WF_vars(Cleanup)
  /\ WF_vars(EndReplay) /\ WF_vars(LeaveHub) /\ WF_vars(Closed)
  /\ \A t \in Turns : WF_vars(CancelSoul(t)) /\ WF_vars(SoulEnds(t))
  /\ \A t \in Turns : WF_vars(CancelTools(t))
  /\ \A s \in Subagents : WF_vars(EndSubagent(s) /\ UNCHANGED serverVars)
  /\ \A i \in 1 .. MaxRequests :
       /\ WF_vars(i \in Ids /\ WakeUp(i) /\ UNCHANGED serverVars)
       /\ WF_vars(i \in Ids /\ \E r \in Responses : Answer(i, r))
  /\ \A k \in 1 .. MaxRequests : WF_vars(k \in AskIds /\ AnswerAsk(k))

FairSpec == Spec /\ Fairness

\* No prompt runs for ever that was cancelled, or whose client initialized and
\* so is shown what it waits for (run_soul() and _handle_prompt()).
PromptReturns == []<>(soul = "idle" \/ ~(initialized \/ cancel))

\* _shutdown() ends: no handler is left waiting for a client that is gone.
ShutdownEnds == []<>(conn \in {"open", "closed"})
=============================================================================
