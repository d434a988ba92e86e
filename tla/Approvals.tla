------------------------------ MODULE Approvals ------------------------------
(***************************************************************************)
(* Approvals: approval_runtime/runtime.py, Approval.request() of           *)
(* soul/approval.py, and the agent runs that make requests: a turn         *)
(* (kimisoul.py), a foreground subagent (subagents/runner.py) and a        *)
(* background agent (background/agent_runner.py).                          *)
(*                                                                         *)
(* All of it runs on one event loop: an action is what a task does between *)
(* two awaits.  A tool that asks is a request and its caller; the caller   *)
(* sleeps on the future of the request, is woken when the future is done,  *)
(* and may be cancelled before it runs again.  /yolo and --afk only make   *)
(* tools go ahead without asking, which the model allows at any time.      *)
(***************************************************************************)
EXTENDS Naturals, Sequences, FiniteSets

CONSTANTS
  MaxTurns,     \* foreground turns, each with a fresh source id
  Subagents,    \* foreground subagents, each the tool call of a turn
  Agents,       \* background agents
  Actions,      \* what approvals are asked for
  \* bounds of the model
  MaxStarted,   \* subagents and agents that start
  MaxRequests   \* approvals and other requests to the client, together

ASSUME SourcesAssumption ==
  /\ {MaxTurns, MaxStarted, MaxRequests} \subseteq Nat
  /\ (1 .. MaxTurns) \cap (Subagents \cup Agents) = {}
  /\ Subagents \cap Agents = {}
  /\ Actions # {}

Turns == 1 .. MaxTurns
Foreground == Turns \cup Subagents      \* kind "foreground_turn"
Sources == Foreground \cup Agents
Responses == {"approve", "approve_for_session", "reject"}

Request ==
  [source : Sources, action : Actions,
   status : {"pending", "resolved", "cancelled"},
   response : Responses \cup {"none"},
   caller : {"waiting", "woken", "allowed", "gone"}]

\* A request that is no approval: a ToolCallRequest or QuestionRequest
\* ("call") or a HookRequest ("hook").  Its future is open or done.
Ask == [owner : Foreground, kind : {"call", "hook"},
        future : {"open", "done"}, caller : {"waiting", "gone"}]

VARIABLES
  life,      \* of each source: new, running, ...
  requests,  \* ApprovalRuntime._requests, in order of creation
  auto,      \* ApprovalState.auto_approve_actions
  asks,      \* requests that are no approvals, in order of creation
  hub        \* the server's queue on the root hub: ids of the messages in it

approvalVars == <<life, requests, auto, asks, hub>>

Ids == DOMAIN requests
AskIds == DOMAIN asks
Room == Len(requests) + Len(asks) < MaxRequests

Pending == {i \in Ids : requests[i].status = "pending"}
Of(s) == {i \in Ids : requests[i].source = s}

\* cancelled: the soul of the turn is being cancelled.  killed: the runner of
\* an agent was cancelled and has not cleaned up yet.  orphan: the runner is
\* gone; run_soul() was cancelled in its wait, which does not cancel the soul.
Life == {"new", "running", "cancelled", "killed", "orphan", "ended"}
Live(s) == life[s] \in {"running", "killed", "orphan"}

ApprovalsTypeOK ==
  /\ life \in [Sources -> Life]
  /\ requests \in Seq(Request) /\ Len(requests) <= MaxRequests
  /\ auto \subseteq Actions
  /\ asks \in Seq(Ask) /\ Len(asks) <= MaxRequests
  /\ hub \in [open : BOOLEAN, asked : SUBSET (1 .. MaxRequests),
              answered : SUBSET (1 .. MaxRequests)]

ApprovalsInit ==
  /\ life = [s \in Sources |-> "new"]
  /\ requests = <<>>
  /\ auto = {}
  /\ asks = <<>>
  /\ hub = [open |-> TRUE, asked |-> {}, answered |-> {}]

-----------------------------------------------------------------------------
(***************************************************************************)
(* The runtime.                                                            *)
(***************************************************************************)
\* publish_nowait() to the subscribers there are.
PublishRequest(i) ==
  hub' = IF hub.open THEN [hub EXCEPT !.asked = @ \cup {i}] ELSE hub

PublishResponses(S) ==
  hub' = IF hub.open THEN [hub EXCEPT !.answered = @ \cup S] ELSE hub

\* Faulty: a request that has its answer takes another one.
SettledAgain(S, status, response) ==
  [i \in Ids |->
     IF i \in S
     THEN [requests[i] EXCEPT
             !.status = status, !.response = response,
             !.caller = IF @ = "waiting" THEN "woken" ELSE @]
     ELSE requests[i]]

\* The pending requests of S get a status and a response; a caller wakes.
Settled(S, status, response) ==
  [i \in Ids |->
     IF i \in S \cap Pending
     THEN [requests[i] EXCEPT
             !.status = status, !.response = response,
             !.caller = IF @ = "waiting" THEN "woken" ELSE @]
     ELSE requests[i]]

Settle(S, status, response) ==
  /\ requests' = Settled(S, status, response)
  /\ PublishResponses(S \cap Pending)

\* Faulty: the request gets the status of the agent.
CancelBySourceKilled(s) == Settle(Of(s), "killed", "reject")

CancelBySource(s) == Settle(Of(s), "cancelled", "reject")

-----------------------------------------------------------------------------
(***************************************************************************)
(* A tool that asks: Approval.request().                                   *)
(***************************************************************************)
AutoApproved(a) == a \in auto

\* A tool of s asks and goes to sleep.  One that is auto-approved goes on at
\* once and leaves no trace.
AskApproval(s, a) ==
  /\ Live(s) /\ ~AutoApproved(a) /\ Room
  /\ requests' = Append(requests,
       [source |-> s, action |-> a, status |-> "pending",
        response |-> "none", caller |-> "waiting"])
  /\ PublishRequest(Len(requests) + 1)
  /\ UNCHANGED <<life, auto, asks>>

\* The caller of request i goes on.
Told(rs, i, caller) == [rs EXCEPT ![i].caller = caller]

\* Faulty: a grant for the session leaves what it covers waiting.
WakeUpAlone(i) ==
  /\ requests[i].caller = "woken"
  /\ \/ /\ requests[i].status = "cancelled" \/ requests[i].response = "reject"
        /\ requests' = Told(requests, i, "gone")
        /\ UNCHANGED auto
     \/ /\ requests[i].status = "resolved" /\ requests[i].response # "reject"
        /\ requests' = Told(requests, i, "allowed")
        /\ auto' = IF requests[i].response = "approve" THEN auto
                   ELSE auto \cup {requests[i].action}
  /\ UNCHANGED <<life, asks, hub>>

WakeUp(i) ==
  /\ requests[i].caller = "woken"
  /\ \/ /\ requests[i].status = "cancelled" \/ requests[i].response = "reject"
        /\ requests' = Told(requests, i, "gone")
        /\ UNCHANGED <<auto, hub>>
     \/ /\ requests[i].status = "resolved" /\ requests[i].response = "approve"
        /\ requests' = Told(requests, i, "allowed")
        /\ UNCHANGED <<auto, hub>>
     \/ LET same == {j \in Pending : requests[j].action = requests[i].action}
        IN /\ requests[i].status = "resolved"
           /\ requests[i].response = "approve_for_session"
           /\ auto' = auto \cup {requests[i].action}
           /\ requests' = Told(Settled(same, "resolved", "approve"), i, "allowed")
           /\ PublishResponses(same)
  /\ UNCHANGED <<life, asks>>

\* The task of the tool is cancelled while it sleeps or before it runs again.
Asleep(i) == requests[i].caller \in {"waiting", "woken"}
Dropped(S) ==
  [i \in Ids |-> IF i \in S /\ Asleep(i) THEN [requests[i] EXCEPT !.caller = "gone"]
                 ELSE requests[i]]

-----------------------------------------------------------------------------
(***************************************************************************)
(* The runs that ask.                                                      *)
(***************************************************************************)
Busy(s) ==
  \/ \E i \in Of(s) : Asleep(i)
  \/ \E k \in AskIds : asks[k].owner = s /\ asks[k].caller = "waiting"

Become(s, state) == life' = [life EXCEPT ![s] = state]

Started == {s \in Subagents \cup Agents : life[s] # "new"}
Attached == {s \in Subagents : life[s] = "running"}

\* The agent loop cancels the tools of a response whose stream broke off, or
\* of a turn that is cancelled: one tool at a time is given its exception.
DropTool(i) ==
  /\ Asleep(i)
  /\ requests' = Dropped({i})
  /\ UNCHANGED <<life, auto, asks, hub>>

\* A foreground subagent is a tool call of the turn that runs.
StartSubagent(s) ==
  /\ life[s] = "new" /\ Cardinality(Started) < MaxStarted
  /\ \E t \in Turns : life[t] = "running"
  /\ Become(s, "running")
  /\ UNCHANGED <<requests, auto, asks, hub>>

\* ForegroundSubagentRunner.run() returns; its finally cancels by source.
EndSubagent(s) ==
  /\ life[s] = "running" /\ ~Busy(s)
  /\ Become(s, "ended")
  /\ CancelBySource(s)
  /\ UNCHANGED <<auto, asks>>

\* The tool call of the subagent is cancelled: run_soul() leaves its wait and
\* the runner cleans up.  The soul is a task of its own and goes on.
DetachSubagent(s) ==
  /\ life[s] = "running"
  /\ Become(s, "orphan")
  /\ CancelBySource(s)
  /\ UNCHANGED <<auto, asks>>

StartAgent(a) ==
  /\ life[a] = "new" /\ Cardinality(Started) < MaxStarted
  /\ \E t \in Turns : life[t] = "running"
  /\ Become(a, "running")
  /\ UNCHANGED <<requests, auto, asks, hub>>

\* BackgroundTaskManager.kill(): TaskStop, /task or the end of the CLI.
KillAgent(a) ==
  /\ life[a] = "running"
  /\ Become(a, "killed")
  /\ CancelBySource(a)
  /\ UNCHANGED <<auto, asks>>

\* BackgroundAgentRunner.run() ends: after its soul, or, killed or timed out,
\* without it.
EndAgent(a) ==
  /\ \/ life[a] = "running" /\ ~Busy(a) /\ Become(a, "ended")
     \/ life[a] \in {"running", "killed"} /\ Become(a, "orphan")
  /\ CancelBySource(a)
  /\ UNCHANGED <<auto, asks>>

\* A soul without a runner ends when it is done.
EndOrphan(s) ==
  /\ life[s] = "orphan" /\ ~Busy(s)
  /\ Become(s, "ended")
  /\ UNCHANGED <<requests, auto, asks, hub>>

\* KimiSoul.run() of a turn: its source is made at the start and cancelled in
\* the finally, when its tools have all ended.
StartTurn(t) ==
  /\ life[t] = "new" /\ \A u \in 1 .. t - 1 : life[u] # "new"
  /\ Become(t, "running")
  /\ UNCHANGED <<requests, auto, asks, hub>>

CancelTurn(t) ==
  /\ life[t] = "running"
  /\ Become(t, "cancelled")
  /\ UNCHANGED <<requests, auto, asks, hub>>

\* Faulty: the requests of the turn are kept.
EndTurnOnly(t) ==
  /\ life[t] \in {"running", "cancelled"}
  /\ ~Busy(t) /\ Attached = {}
  /\ Become(t, "ended")
  /\ UNCHANGED <<requests, auto, asks, hub>>

EndTurn(t) ==
  /\ life[t] \in {"running", "cancelled"}
  /\ ~Busy(t) /\ Attached = {}
  /\ Become(t, "ended")
  /\ CancelBySource(t)
  /\ UNCHANGED <<auto, asks>>

RunNext ==
  \/ \E s \in Sources, a \in Actions : AskApproval(s, a)
  \/ \E i \in Ids : WakeUp(i) \/ DropTool(i)
  \/ \E s \in Subagents : StartSubagent(s) \/ EndSubagent(s) \/ DetachSubagent(s)
  \/ \E a \in Agents : StartAgent(a) \/ KillAgent(a) \/ EndAgent(a)
  \/ \E s \in Subagents \cup Agents : EndOrphan(s)
=============================================================================
