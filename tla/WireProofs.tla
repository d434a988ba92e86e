----------------------------- MODULE WireProofs -----------------------------
(***************************************************************************)
(* Theorems about WireServer, for any number of turns, subagents, agents,  *)
(* actions and requests: the types, what an initialized client knows, what *)
(* a grant for the session covers, what a prompt leaves behind, and that   *)
(* the approvals implement ApprovalContract.                               *)
(***************************************************************************)
EXTENDS WireServer, SequenceTheorems, TLAPS

Statuses == {"pending", "resolved", "cancelled"}
Callers == {"waiting", "woken", "allowed", "gone"}

(***************************************************************************)
(* What the updates of the requests and of the asks do, entry by entry.    *)
(***************************************************************************)
\* Settled() (resolve() and cancel_by_source() of the runtime), entry by entry.
LEMMA SettledFacts ==
  ASSUME requests \in Seq(Request), NEW S \in SUBSET Ids,
         NEW status \in Statuses, NEW response \in Responses,
         NEW q, q = Settled(S, status, response)
  PROVE  /\ q \in Seq(Request) /\ Len(q) = Len(requests) /\ DOMAIN q = Ids
         /\ \A i \in Ids :
              /\ q[i].source = requests[i].source
              /\ q[i].action = requests[i].action
              /\ q[i].status = IF i \in S \cap Pending THEN status
                               ELSE requests[i].status
              /\ q[i].response = IF i \in S \cap Pending THEN response
                                 ELSE requests[i].response
              /\ q[i].caller = IF i \in S \cap Pending /\ requests[i].caller = "waiting"
                               THEN "woken" ELSE requests[i].caller
<1>1. Len(requests) \in Nat /\ Ids = 1 .. Len(requests)
  BY LenProperties DEF Ids
<1>2. \A i \in Ids : requests[i] \in Request
  BY <1>1, ElementOfSeq
<1> DEFINE T == S \cap Pending
<1>3. q = [i \in Ids |->
             IF i \in T
             THEN [requests[i] EXCEPT
                     !.status = status, !.response = response,
                     !.caller = IF @ = "waiting" THEN "woken" ELSE @]
             ELSE requests[i]]
  BY DEF Settled
<1>4. q \in [1 .. Len(requests) -> Request]
  <2> HIDE DEF T
  <2>1. ASSUME NEW i \in Ids PROVE q[i] \in Request
    <3>1. requests[i] \in Request
      BY <1>2
    <3>2. CASE i \in T
      <4>1. q[i] = [requests[i] EXCEPT
                      !.status = status, !.response = response,
                      !.caller = IF @ = "waiting" THEN "woken" ELSE @]
        BY <1>3, <3>2
      <4> QED BY <3>1, <4>1 DEF Request, Statuses
    <3>3. CASE i \notin T
      BY <1>3, <3>1, <3>3
    <3> QED BY <3>2, <3>3
  <2>2. q = [i \in Ids |-> q[i]]
    BY <1>3
  <2> QED BY <1>1, <2>1, <2>2
<1>5. q \in Seq(Request) /\ Len(q) = Len(requests) /\ DOMAIN q = Ids
  BY <1>1, <1>4, SeqDef
<1>6. ASSUME NEW i \in Ids
      PROVE  /\ q[i].source = requests[i].source
             /\ q[i].action = requests[i].action
             /\ q[i].status = IF i \in S \cap Pending THEN status
                              ELSE requests[i].status
             /\ q[i].response = IF i \in S \cap Pending THEN response
                                ELSE requests[i].response
             /\ q[i].caller = IF i \in S \cap Pending /\ requests[i].caller = "waiting"
                              THEN "woken" ELSE requests[i].caller
  BY <1>2, <1>6 DEF Settled, Request
<1> QED BY <1>5, <1>6

\* The requests a grant for the session settles.
LEMMA SameFacts ==
  ASSUME requests \in Seq(Request), NEW same \in SUBSET Pending,
         NEW rs, rs = Settled(same, "resolved", "approve")
  PROVE  /\ rs \in Seq(Request) /\ Len(rs) = Len(requests) /\ DOMAIN rs = Ids
         /\ \A j \in Ids :
              /\ rs[j].source = requests[j].source
              /\ rs[j].action = requests[j].action
              /\ rs[j].status = IF j \in same THEN "resolved" ELSE requests[j].status
              /\ rs[j].response = IF j \in same THEN "approve" ELSE requests[j].response
              /\ rs[j].caller = IF j \in same /\ requests[j].caller = "waiting"
                                THEN "woken" ELSE requests[j].caller
<1>1. same \subseteq Pending /\ same \in SUBSET Ids
  BY DEF Pending
<1>2. same \cap Pending = same
  BY <1>1
<1>3. "resolved" \in Statuses /\ "approve" \in Responses
  BY DEF Statuses, Responses
<1>4. /\ rs \in Seq(Request) /\ Len(rs) = Len(requests) /\ DOMAIN rs = Ids
      /\ \A j \in Ids :
           /\ rs[j].source = requests[j].source
           /\ rs[j].action = requests[j].action
           /\ rs[j].status = IF j \in same \cap Pending THEN "resolved"
                             ELSE requests[j].status
           /\ rs[j].response = IF j \in same \cap Pending THEN "approve"
                               ELSE requests[j].response
           /\ rs[j].caller = IF j \in same \cap Pending /\ requests[j].caller = "waiting"
                             THEN "woken" ELSE requests[j].caller
  BY <1>1, <1>3, SettledFacts
<1> QED BY <1>1, <1>2, <1>4

\* The caller of one request goes on; nothing else changes.
LEMMA ToldFacts ==
  ASSUME NEW rs \in Seq(Request), NEW i \in DOMAIN rs, NEW caller \in Callers,
         NEW q, q = Told(rs, i, caller)
  PROVE  /\ q \in Seq(Request) /\ Len(q) = Len(rs) /\ DOMAIN q = DOMAIN rs
         /\ \A j \in DOMAIN rs :
              /\ q[j].source = rs[j].source /\ q[j].action = rs[j].action
              /\ q[j].status = rs[j].status /\ q[j].response = rs[j].response
              /\ q[j].caller = IF j = i THEN caller ELSE rs[j].caller
<1> DEFINE e == [rs[i] EXCEPT !.caller = caller]
<1>1. Len(rs) \in Nat /\ DOMAIN rs = 1 .. Len(rs) /\ rs \in [1 .. Len(rs) -> Request]
  BY LenProperties
<1>2. e \in Request
  BY <1>1 DEF Request, Callers
<1>3. q = [rs EXCEPT ![i] = e]
  BY <1>1 DEF Told
<1>4. /\ q \in [1 .. Len(rs) -> Request]
      /\ \A j \in DOMAIN rs : q[j] = IF j = i THEN e ELSE rs[j]
  BY <1>1, <1>2, <1>3
<1>5. q \in Seq(Request) /\ Len(q) = Len(rs) /\ DOMAIN q = DOMAIN rs
  BY <1>1, <1>4, SeqDef
<1>6. \A j \in DOMAIN rs : rs[j] \in Request
  BY <1>1
<1>7. ASSUME NEW j \in DOMAIN rs
      PROVE  /\ q[j].source = rs[j].source /\ q[j].action = rs[j].action
             /\ q[j].status = rs[j].status /\ q[j].response = rs[j].response
             /\ q[j].caller = IF j = i THEN caller ELSE rs[j].caller
  BY <1>4, <1>6, <1>7 DEF Request
<1> QED BY <1>5, <1>7

\* A cancelled tool is gone; its request stays.
LEMMA DroppedFacts ==
  ASSUME requests \in Seq(Request), NEW S,
         NEW q, q = Dropped(S)
  PROVE  /\ q \in Seq(Request) /\ Len(q) = Len(requests) /\ DOMAIN q = Ids
         /\ \A i \in Ids :
              /\ q[i].source = requests[i].source
              /\ q[i].action = requests[i].action
              /\ q[i].status = requests[i].status
              /\ q[i].response = requests[i].response
              /\ q[i].caller = IF i \in S /\ Asleep(i) THEN "gone"
                               ELSE requests[i].caller
<1>1. Len(requests) \in Nat /\ Ids = 1 .. Len(requests)
  BY LenProperties DEF Ids
<1>2. \A i \in Ids : requests[i] \in Request
  BY <1>1, ElementOfSeq
<1>3. q \in [1 .. Len(requests) -> Request]
  <2> DEFINE e(i) == IF i \in S /\ Asleep(i) THEN [requests[i] EXCEPT !.caller = "gone"]
                     ELSE requests[i]
  <2>1. \A i \in Ids : e(i) \in Request
    BY <1>2 DEF Request
  <2>2. q = [i \in Ids |-> e(i)]
    BY DEF Dropped
  <2> HIDE DEF e
  <2> QED BY <1>1, <2>1, <2>2
<1>4. /\ q \in Seq(Request)
      /\ Len(q) = Len(requests) /\ DOMAIN q = Ids
  BY <1>1, <1>3, SeqDef
<1>5. ASSUME NEW i \in Ids
      PROVE  /\ q[i].source = requests[i].source /\ q[i].action = requests[i].action
             /\ q[i].status = requests[i].status /\ q[i].response = requests[i].response
             /\ q[i].caller = IF i \in S /\ Asleep(i) THEN "gone" ELSE requests[i].caller
  BY <1>2, <1>5 DEF Dropped, Request
<1> QED BY <1>4, <1>5

\* A new request or ask comes last.
LEMMA AppendFacts ==
  ASSUME NEW T, NEW s \in Seq(T), NEW e \in T
  PROVE  LET q == Append(s, e) IN
         /\ q \in Seq(T) /\ Len(q) = Len(s) + 1 /\ Len(s) \in Nat
         /\ DOMAIN s = 1 .. Len(s) /\ DOMAIN q = DOMAIN s \cup {Len(s) + 1}
         /\ Len(s) + 1 \notin DOMAIN s
         /\ \A i \in DOMAIN s : q[i] = s[i]
         /\ q[Len(s) + 1] = e
<1>1. /\ Append(s, e) \in Seq(T) /\ Len(Append(s, e)) = Len(s) + 1
      /\ \A i \in 1 .. Len(s) : Append(s, e)[i] = s[i]
      /\ Append(s, e)[Len(s) + 1] = e
  BY AppendProperties
<1>2. Len(s) \in Nat /\ DOMAIN s = 1 .. Len(s)
  BY LenProperties
<1>3. DOMAIN Append(s, e) = 1 .. Len(s) + 1
  BY <1>1, LenProperties
<1> QED BY <1>1, <1>2, <1>3

\* A resolved ask is done and its caller is gone.
LEMMA ResolvedFacts ==
  ASSUME asks \in Seq(Ask), NEW S
  PROVE  LET q == Resolved(S) IN
         /\ q \in Seq(Ask) /\ Len(q) = Len(asks) /\ DOMAIN q = AskIds
         /\ \A k \in AskIds :
              /\ q[k].owner = asks[k].owner /\ q[k].kind = asks[k].kind
              /\ q[k].future = IF k \in S THEN "done" ELSE asks[k].future
              /\ q[k].caller = IF k \in S THEN "gone" ELSE asks[k].caller
<1>1. Len(asks) \in Nat /\ AskIds = 1 .. Len(asks)
  BY LenProperties DEF AskIds
<1>2. \A k \in AskIds : asks[k] \in Ask
  BY <1>1, ElementOfSeq
<1>3. Resolved(S) \in [1 .. Len(asks) -> Ask]
  BY <1>1, <1>2 DEF Resolved, Ask
<1>4. /\ Resolved(S) \in Seq(Ask)
      /\ Len(Resolved(S)) = Len(asks) /\ DOMAIN Resolved(S) = AskIds
  BY <1>1, <1>3, SeqDef
<1>5. ASSUME NEW k \in AskIds
      PROVE  LET r == Resolved(S)[k] IN
             /\ r.owner = asks[k].owner /\ r.kind = asks[k].kind
             /\ r.future = IF k \in S THEN "done" ELSE asks[k].future
             /\ r.caller = IF k \in S THEN "gone" ELSE asks[k].caller
  BY <1>2, <1>5 DEF Resolved, Ask
<1> QED BY <1>4, <1>5

\* A dropped ask has lost its caller; its future is what was asked for.
LEMMA DropAskFacts ==
  ASSUME asks \in Seq(Ask), NEW k \in AskIds, NEW future \in {"open", "done"},
         DropAsk(k, future)
  PROVE  /\ asks' \in Seq(Ask) /\ Len(asks') = Len(asks) /\ AskIds' = AskIds
         /\ \A j \in AskIds :
              /\ asks'[j].owner = asks[j].owner /\ asks'[j].kind = asks[j].kind
              /\ asks'[j].future = IF j = k THEN future ELSE asks[j].future
              /\ asks'[j].caller = IF j = k THEN "gone" ELSE asks[j].caller
<1>1. Len(asks) \in Nat /\ AskIds = 1 .. Len(asks)
  BY LenProperties DEF AskIds
<1>2. \A j \in AskIds : asks[j] \in Ask
  BY <1>1, ElementOfSeq
<1>3. asks \in [1 .. Len(asks) -> Ask]
  BY LenProperties
<1> DEFINE e == [asks[k] EXCEPT !.caller = "gone", !.future = future]
<1>4. asks' = [asks EXCEPT ![k] = e]
  BY <1>1, <1>3 DEF DropAsk
<1>5. asks' \in [1 .. Len(asks) -> Ask]
  <2>1. e \in Ask
    BY <1>2 DEF Ask
  <2> HIDE DEF e
  <2> QED BY <1>1, <1>3, <1>4, <2>1
<1>6. asks' \in Seq(Ask) /\ Len(asks') = Len(asks) /\ AskIds' = AskIds
  BY <1>1, <1>5, SeqDef DEF AskIds
<1>7. ASSUME NEW j \in AskIds
      PROVE  /\ asks'[j].owner = asks[j].owner /\ asks'[j].kind = asks[j].kind
             /\ asks'[j].future = IF j = k THEN future ELSE asks[j].future
             /\ asks'[j].caller = IF j = k THEN "gone" ELSE asks[j].caller
  BY <1>1, <1>2, <1>3, <1>4, <1>7 DEF Ask
<1> QED BY <1>6, <1>7

-----------------------------------------------------------------------------
(***************************************************************************)
(* What a step of the whole does to the requests and to the asks.          *)
(***************************************************************************)
\* What a step does to the requests, the grants and the hub.
RequestStep ==
  \/ UNCHANGED <<requests, auto>> /\ hub' \in
       {hub, [hub EXCEPT !.asked = {}, !.answered = {}], [hub EXCEPT !.open = FALSE]}
  \/ \E s \in Sources, a \in Actions : AskApproval(s, a)
  \/ \E S \in SUBSET Ids, r \in Responses : Settle(S, "resolved", r) /\ UNCHANGED auto
  \/ \E S \in SUBSET Ids : Settle(S, "cancelled", "reject") /\ UNCHANGED auto
  \/ \E i \in Ids : WakeUp(i)
  \/ \E i \in Ids : DropTool(i)

\* Every step is one of six as far as the requests are concerned.
LEMMA RequestSteps == ASSUME Next, pending \subseteq Ids PROVE RequestStep
<1> USE DEF RequestStep, Pending, vars, approvalVars, serverVars, promptVars, askVars
<1>1. CASE ClientNext
  <2>1. CASE \E i \in Ids, r \in Responses : Answer(i, r)
    BY <2>1 DEF Answer
  <2>2. CASE Close
    BY <2>2 DEF Close, Stale, Responses
  <2>3. CASE Initialize \/ Replay \/ Cancel \/ (\E t \in Turns : Prompt(t))
             \/ (\E k \in AskIds : AnswerAsk(k))
    BY <2>3 DEF Initialize, Replay, Cancel, Prompt, StartTurn, AnswerAsk
  <2> QED BY <1>1, <2>1, <2>2, <2>3 DEF ClientNext
<1>2. CASE RunNext
  <2>1. CASE \E s \in Subagents : EndSubagent(s) \/ DetachSubagent(s)
    BY <2>1 DEF EndSubagent, DetachSubagent, CancelBySource, Of
  <2>2. CASE \E a \in Agents : KillAgent(a) \/ EndAgent(a)
    BY <2>2 DEF KillAgent, EndAgent, CancelBySource, Of
  <2>3. CASE \/ \E s \in Subagents : StartSubagent(s)
             \/ \E a \in Agents : StartAgent(a)
             \/ \E s \in Subagents \cup Agents : EndOrphan(s)
    BY <2>3 DEF StartSubagent, StartAgent, EndOrphan
  <2> QED BY <1>2, <2>1, <2>2, <2>3 DEF RunNext
<1>3. CASE SoulNext /\ ~RunNext
  <2>1. CASE \E t \in Turns : SoulEnds(t)
    BY <2>1 DEF SoulEnds, EndTurn, CancelBySource, Of
  <2>2. CASE \/ \E t \in Turns : AskCall(t) \/ CancelSoul(t)
             \/ \E s \in Foreground : AskHook(s)
             \/ \E k \in AskIds : CancelAsk(k) \/ TimeoutHook(k)
    BY <2>2 DEF AskCall, CancelSoul, CancelTurn, AskHook, CancelAsk, TimeoutHook, DropAsk
  <2> QED BY <1>3, <2>1, <2>2 DEF SoulNext
<1>4. CASE ServerNext
  <2>1. CASE Cleanup
    BY <2>1 DEF Cleanup, Stale, Responses
  <2>2. CASE HubLoop \/ UILoop \/ EndReplay \/ LeaveHub \/ Closed
    BY <2>2 DEF HubLoop, UILoop, EndReplay, LeaveHub, Closed
  <2> QED BY <1>4, <2>1, <2>2 DEF ServerNext
<1> QED BY <1>1, <1>2, <1>3, <1>4 DEF Next, SoulNext

\* What a step does to the asks.
AskStep ==
  \/ UNCHANGED asks
  \/ \E t \in Turns : AskCall(t)
  \/ \E s \in Foreground : AskHook(s)
  \/ \E S \in SUBSET AskIds : asks' = Resolved(S)
  \/ \E k \in AskIds : CancelAsk(k) \/ TimeoutHook(k)

\* Every step is one of five as far as the asks are concerned.
LEMMA AskSteps == ASSUME Next, pendingAsks \subseteq AskIds PROVE AskStep
<1> USE DEF AskStep, vars, approvalVars, serverVars
<1>1. CASE ClientNext
  <2>1. CASE Close
    BY <2>1 DEF Close, Unresolved
  <2>2. CASE \E k \in AskIds : AnswerAsk(k)
    BY <2>2 DEF AnswerAsk
  <2>3. CASE \/ Initialize \/ Replay \/ Cancel \/ \E t \in Turns : Prompt(t)
             \/ \E i \in Ids, r \in Responses : Answer(i, r)
    BY <2>3 DEF Initialize, Replay, Cancel, Prompt, StartTurn, Answer
  <2> QED BY <1>1, <2>1, <2>2, <2>3 DEF ClientNext
<1>2. CASE SoulNext
  <2>1. CASE RunNext
    BY <2>1 DEF RunNext, AskApproval, WakeUp, DropTool, StartSubagent, EndSubagent,
                DetachSubagent, StartAgent, KillAgent, EndAgent, EndOrphan
  <2>2. CASE \E t \in Turns : CancelSoul(t) \/ SoulEnds(t)
    BY <2>2 DEF CancelSoul, CancelTurn, SoulEnds, EndTurn
  <2> QED BY <1>2, <2>1, <2>2 DEF SoulNext
<1>3. CASE ServerNext
  <2>1. CASE Cleanup
    BY <2>1 DEF Cleanup, Unresolved
  <2>2. CASE HubLoop \/ UILoop \/ EndReplay \/ LeaveHub \/ Closed
    BY <2>2 DEF HubLoop, UILoop, EndReplay, LeaveHub, Closed
  <2> QED BY <1>3, <2>1, <2>2 DEF ServerNext
<1> QED BY <1>1, <1>2, <1>3 DEF Next

-----------------------------------------------------------------------------
(***************************************************************************)
(* Types.                                                                  *)
(***************************************************************************)
\* The queue of the hub holds messages about the requests ids.
HubOK(h, ids) == h \in [open : BOOLEAN, asked : SUBSET ids, answered : SUBSET ids]

\* What the types say of the numbers of the requests and of the asks.
LEMMA TypeFacts ==
  ASSUME WireTypeOK
  PROVE  /\ requests \in Seq(Request) /\ Len(requests) \in Nat
         /\ Ids = 1 .. Len(requests) /\ Ids \subseteq 1 .. MaxRequests
         /\ \A i \in Ids : requests[i] \in Request
         /\ asks \in Seq(Ask) /\ Len(asks) \in Nat
         /\ AskIds = 1 .. Len(asks) /\ AskIds \subseteq 1 .. MaxRequests
         /\ \A k \in AskIds : asks[k] \in Ask
         /\ HubOK(hub, Ids)
<1>1. requests \in Seq(Request) /\ Len(requests) <= MaxRequests
      /\ asks \in Seq(Ask) /\ Len(asks) <= MaxRequests
  BY DEF WireTypeOK, ApprovalsTypeOK
<1>2. /\ Len(requests) \in Nat /\ Ids = 1 .. Len(requests)
      /\ Len(asks) \in Nat /\ AskIds = 1 .. Len(asks)
  BY <1>1, LenProperties DEF Ids, AskIds
<1>3. /\ \A i \in Ids : requests[i] \in Request
      /\ \A k \in AskIds : asks[k] \in Ask
  BY <1>1, <1>2, ElementOfSeq
<1>4. MaxRequests \in Nat
  BY SourcesAssumption
<1>5. HubOK(hub, Ids)
  BY DEF WireTypeOK, ApprovalsTypeOK, HubOK
<1> QED BY <1>1, <1>2, <1>3, <1>4, <1>5

\* Publishing keeps the queue of the hub well formed.
LEMMA PublishFacts ==
  ASSUME NEW ids, HubOK(hub, ids), NEW S \in SUBSET ids
  PROVE  /\ HubOK(IF hub.open THEN [hub EXCEPT !.answered = @ \cup S] ELSE hub, ids)
         /\ HubOK(IF hub.open THEN [hub EXCEPT !.asked = @ \cup S] ELSE hub, ids)
BY DEF HubOK

\* The six kinds of steps keep the types of the requests, the grants and the hub.
LEMMA RequestTypes ==
  ASSUME WireTypeOK, RequestStep
  PROVE  /\ requests' \in Seq(Request) /\ Len(requests') <= MaxRequests
         /\ Ids \subseteq Ids' /\ auto' \in SUBSET Actions /\ HubOK(hub', Ids')
<1>1. /\ requests \in Seq(Request) /\ Len(requests) \in Nat
      /\ Ids = 1 .. Len(requests) /\ Ids \subseteq 1 .. MaxRequests
      /\ \A i \in Ids : requests[i] \in Request
      /\ HubOK(hub, Ids)
  BY TypeFacts
<1>2. auto \in SUBSET Actions /\ Len(requests) <= MaxRequests /\ MaxRequests \in Nat
      /\ Len(asks) \in Nat
  BY SourcesAssumption, TypeFacts DEF WireTypeOK, ApprovalsTypeOK
<1>3. CASE UNCHANGED <<requests, auto>> /\ hub' \in
       {hub, [hub EXCEPT !.asked = {}, !.answered = {}], [hub EXCEPT !.open = FALSE]}
  BY <1>1, <1>2, <1>3 DEF Ids, HubOK
<1>4. ASSUME NEW s \in Sources, NEW a \in Actions, AskApproval(s, a)
      PROVE  /\ requests' \in Seq(Request) /\ Len(requests') <= MaxRequests
             /\ Ids \subseteq Ids' /\ auto' \in SUBSET Actions /\ HubOK(hub', Ids')
  <2> DEFINE e == [source |-> s, action |-> a, status |-> "pending",
                   response |-> "none", caller |-> "waiting"]
  <2>1. e \in Request
    BY DEF Request
  <2>2. requests' = Append(requests, e) /\ Len(requests) + Len(asks) < MaxRequests
    BY <1>4 DEF AskApproval, Room
  <2>3. requests' \in Seq(Request) /\ Len(requests') = Len(requests) + 1
        /\ Ids' = Ids \cup {Len(requests) + 1}
    BY <1>1, <2>1, <2>2, AppendFacts DEF Ids
  <2>4. HubOK(hub, Ids')
    BY <1>1, <2>3 DEF HubOK
  <2>5. HubOK(hub', Ids')
    BY <1>4, <2>3, <2>4 DEF AskApproval, PublishRequest, HubOK
  <2> QED BY <1>1, <1>2, <1>4, <2>2, <2>3, <2>5 DEF AskApproval
<1>5. ASSUME NEW S \in SUBSET Ids, NEW status \in Statuses, NEW r \in Responses,
             Settle(S, status, r), UNCHANGED auto
      PROVE  /\ requests' \in Seq(Request) /\ Len(requests') <= MaxRequests
             /\ Ids \subseteq Ids' /\ auto' \in SUBSET Actions /\ HubOK(hub', Ids')
  <2>1. requests' \in Seq(Request) /\ Len(requests') = Len(requests) /\ Ids' = Ids
    BY <1>1, <1>5, SettledFacts DEF Settle, Ids
  <2>2. HubOK(hub', Ids)
    BY <1>1, <1>5, PublishFacts DEF Settle, PublishResponses
  <2> QED BY <1>2, <1>5, <2>1, <2>2
<1>6. ASSUME NEW i \in Ids, WakeUp(i)
      PROVE  /\ requests' \in Seq(Request) /\ Len(requests') <= MaxRequests
             /\ Ids \subseteq Ids' /\ auto' \in SUBSET Actions /\ HubOK(hub', Ids')
  <2>1. ASSUME NEW c \in Callers, requests' = Told(requests, i, c)
        PROVE  requests' \in Seq(Request) /\ Len(requests') = Len(requests) /\ Ids' = Ids
    BY <1>1, <2>1, ToldFacts DEF Ids
  <2>2. CASE /\ requests' = Told(requests, i, "gone") \/ requests' = Told(requests, i, "allowed")
             /\ UNCHANGED <<auto, hub>>
    BY <1>1, <1>2, <2>1, <2>2 DEF Callers
  <2> DEFINE same == {j \in Pending : requests[j].action = requests[i].action}
             rs == Settled(same, "resolved", "approve")
  <2>3. CASE /\ auto' = auto \cup {requests[i].action}
             /\ requests' = Told(rs, i, "allowed")
             /\ PublishResponses(same)
    <3>1. rs \in Seq(Request) /\ Len(rs) = Len(requests) /\ DOMAIN rs = Ids
      <4>1. /\ same \in SUBSET Pending
            /\ rs = Settled(same, "resolved", "approve")
        OBVIOUS
      <4> HIDE DEF same, rs
      <4> QED BY <1>1, <4>1, SameFacts
    <3>2. requests' \in Seq(Request) /\ Len(requests') = Len(requests) /\ Ids' = Ids
      <4>1. i \in DOMAIN rs /\ "allowed" \in Callers
        BY <3>1 DEF Callers
      <4> HIDE DEF rs
      <4>2. requests' \in Seq(Request) /\ Len(requests') = Len(rs)
            /\ DOMAIN requests' = DOMAIN rs
        BY <2>3, <3>1, <4>1, ToldFacts
      <4> QED BY <3>1, <4>2 DEF Ids
    <3>3. HubOK(hub', Ids)
      BY <1>1, <2>3, PublishFacts DEF PublishResponses, Pending
    <3>4. requests[i].action \in Actions
      BY <1>1 DEF Request
    <3> QED BY <1>2, <2>3, <3>2, <3>3, <3>4
  <2> QED BY <1>6, <2>2, <2>3 DEF WakeUp
<1>7. ASSUME NEW i \in Ids, DropTool(i)
      PROVE  /\ requests' \in Seq(Request) /\ Len(requests') <= MaxRequests
             /\ Ids \subseteq Ids' /\ auto' \in SUBSET Actions /\ HubOK(hub', Ids')
  <2>1. requests' \in Seq(Request) /\ Len(requests') = Len(requests) /\ Ids' = Ids
    BY <1>1, <1>7, DroppedFacts DEF DropTool, Ids
  <2> QED BY <1>1, <1>2, <1>7, <2>1 DEF DropTool
<1> QED BY <1>3, <1>4, <1>5, <1>6, <1>7 DEF RequestStep, Statuses, Responses

\* The five kinds of steps keep the types of the asks.
LEMMA AskTypes ==
  ASSUME WireTypeOK, AskStep
  PROVE  asks' \in Seq(Ask) /\ Len(asks') <= MaxRequests /\ AskIds \subseteq AskIds'
<1>1. /\ asks \in Seq(Ask) /\ Len(asks) \in Nat /\ AskIds = 1 .. Len(asks)
      /\ Len(asks) <= MaxRequests /\ MaxRequests \in Nat /\ Len(requests) \in Nat
      /\ \A k \in AskIds : asks[k] \in Ask
  BY SourcesAssumption, TypeFacts DEF WireTypeOK, ApprovalsTypeOK
<1>2. ASSUME NEW s \in Foreground, NEW kind \in {"call", "hook"}, Room,
             asks' = Append(asks, [owner |-> s, kind |-> kind,
                                   future |-> "open", caller |-> "waiting"])
      PROVE  asks' \in Seq(Ask) /\ Len(asks') <= MaxRequests /\ AskIds \subseteq AskIds'
  <2>1. [owner |-> s, kind |-> kind, future |-> "open", caller |-> "waiting"] \in Ask
    BY DEF Ask
  <2>2. asks' \in Seq(Ask) /\ Len(asks') = Len(asks) + 1 /\ AskIds \subseteq AskIds'
    BY <1>1, <1>2, <2>1, AppendFacts DEF AskIds
  <2> QED BY <1>1, <1>2, <2>2 DEF Room
<1>3. CASE UNCHANGED asks
  BY <1>1, <1>3 DEF AskIds
<1>4. CASE \E t \in Turns : AskCall(t)
  BY <1>2, <1>4 DEF AskCall, Foreground
<1>5. CASE \E s \in Foreground : AskHook(s)
  BY <1>2, <1>5 DEF AskHook
<1>6. CASE \E S \in SUBSET AskIds : asks' = Resolved(S)
  BY <1>1, <1>6, ResolvedFacts DEF AskIds
<1>7. ASSUME NEW k \in AskIds, CancelAsk(k) \/ TimeoutHook(k)
      PROVE  asks' \in Seq(Ask) /\ Len(asks') <= MaxRequests /\ AskIds \subseteq AskIds'
  <2>1. PICK future \in {"open", "done"} : DropAsk(k, future)
    BY <1>1, <1>7 DEF CancelAsk, TimeoutHook, Ask
  <2> QED BY <1>1, <2>1, DropAskFacts
<1> QED BY <1>3, <1>4, <1>5, <1>6, <1>7 DEF AskStep

\* Every step keeps the types.
LEMMA TypeKept == ASSUME WireTypeOK, Next PROVE WireTypeOK'
<1>1. /\ requests' \in Seq(Request) /\ Len(requests') <= MaxRequests
      /\ Ids \subseteq Ids' /\ auto' \in SUBSET Actions /\ HubOK(hub', Ids')
  BY RequestSteps, RequestTypes DEF WireTypeOK
<1>2. asks' \in Seq(Ask) /\ Len(asks') <= MaxRequests /\ AskIds \subseteq AskIds'
  BY AskSteps, AskTypes DEF WireTypeOK
<1>3. hub' \in [open : BOOLEAN, asked : SUBSET (1 .. MaxRequests),
                answered : SUBSET (1 .. MaxRequests)]
      /\ (hub.asked \cup hub.answered)' \subseteq Ids'
  <2>1. Ids' \subseteq 1 .. MaxRequests
    BY <1>1, SourcesAssumption, LenProperties DEF Ids
  <2> QED BY <1>1, <2>1 DEF HubOK
<1>4. life' \in [Sources -> Life]
  <2>1. \/ UNCHANGED life
        \/ \E s \in Sources, l \in Life : Become(s, l)
    <3> USE DEF Life, Sources, Foreground, vars, approvalVars
    <3>1. CASE ClientNext
      BY <3>1 DEF ClientNext, Initialize, Replay, Cancel, Close, Prompt, StartTurn,
                  Answer, AnswerAsk
    <3>2. CASE RunNext
      BY <3>2 DEF RunNext, AskApproval, WakeUp, DropTool, StartSubagent, EndSubagent,
                  DetachSubagent, StartAgent, KillAgent, EndAgent, EndOrphan
    <3>3. CASE \E t \in Turns : AskCall(t) \/ CancelSoul(t) \/ SoulEnds(t)
      BY <3>3 DEF AskCall, CancelSoul, CancelTurn, SoulEnds, EndTurn
    <3>4. CASE \/ \E s \in Foreground : AskHook(s)
               \/ \E k \in AskIds : CancelAsk(k) \/ TimeoutHook(k)
      BY <3>4 DEF AskHook, CancelAsk, TimeoutHook, DropAsk
    <3>5. CASE ServerNext
      BY <3>5 DEF ServerNext, HubLoop, UILoop, Cleanup, EndReplay, LeaveHub, Closed
    <3> QED BY <3>1, <3>2, <3>3, <3>4, <3>5 DEF Next, SoulNext
  <2> QED BY <2>1 DEF WireTypeOK, ApprovalsTypeOK, Become
<1>5. /\ conn' \in {"open", "closing", "deaf", "closed"}
      /\ {initialized', streaming', cancel'} \subseteq BOOLEAN
      /\ soul' \in {"idle", "replay", "running", "cancelled", "finished"}
      /\ {wire', pendingAsks'} \subseteq SUBSET AskIds' /\ pending' \subseteq Ids'
  <2> USE <1>1, <1>2 DEF WireTypeOK, serverVars, promptVars, askVars, vars, approvalVars
  <2>1. CASE ClientNext
    <3>1. Pending \subseteq Ids
      BY DEF Pending
    <3> QED BY <2>1, <3>1 DEF ClientNext, Initialize, Replay, Cancel, Close, Prompt,
                              Answer, AnswerAsk
  <2>2. CASE SoulNext
    <3>1. ASSUME NEW t \in Turns, AskCall(t)
          PROVE  Len(asks) + 1 \in AskIds' /\ UNCHANGED <<initialized, cancel>>
      <4>1. [owner |-> t, kind |-> "call", future |-> "open", caller |-> "waiting"] \in Ask
        BY DEF Ask, Foreground
      <4> QED BY <3>1, <4>1, TypeFacts, AppendFacts DEF AskCall, AskIds
    <3>2. ASSUME NEW s \in Foreground, AskHook(s)
          PROVE  Len(asks) + 1 \in AskIds'
      <4>1. [owner |-> s, kind |-> "hook", future |-> "open", caller |-> "waiting"] \in Ask
        BY DEF Ask
      <4> QED BY <3>2, <4>1, TypeFacts, AppendFacts DEF AskHook, AskIds
    <3> QED BY <2>2, <3>1, <3>2 DEF SoulNext, AskCall, AskHook, CancelSoul, SoulEnds,
                                    CancelAsk, TimeoutHook, DropAsk
  <2>3. CASE ServerNext
    <3>1. hub.asked \subseteq Ids
      BY DEF WireTypeOK
    <3> QED BY <2>3, <3>1 DEF ServerNext, HubLoop, UILoop, Cleanup, EndReplay, LeaveHub,
                              Closed
  <2> QED BY <2>1, <2>2, <2>3 DEF Next
<1> QED BY <1>1, <1>2, <1>3, <1>4, <1>5 DEF WireTypeOK, ApprovalsTypeOK

-----------------------------------------------------------------------------
(***************************************************************************)
(* The refinement.                                                         *)
(***************************************************************************)
\* What a step of the requests means to the contract: the settled of S get v
\* and the tools of R go ahead.
Means(S, v, R) ==
  /\ Ids' = Ids
  /\ \A i \in Ids :
       /\ requests'[i].action = requests[i].action
       /\ (i \in Pending') = (i \in Pending \ S)
       /\ i \in S => Allowed(requests'[i]) = (v = "yes")
       /\ i \notin S => Allowed(requests'[i]) = Allowed(requests[i])
       /\ (requests'[i].caller = "allowed") = (i \in R \/ requests[i].caller = "allowed")

\* The values of the mapping after such a step.
LEMMA MeaningFacts ==
  ASSUME Ids \subseteq Numbers, NEW S \in SUBSET Pending, NEW v \in {"yes", "no"},
         NEW R \in SUBSET Ids, Means(S, v, R)
  PROVE  /\ AskedFor' = AskedFor /\ WentAhead' = WentAhead \cup R
         /\ Verdicts' = [i \in Numbers |-> IF i \in S THEN v ELSE Verdicts[i]]
         /\ C!Open = Pending
<1>1. AskedFor' = AskedFor /\ WentAhead' = WentAhead \cup R
  BY DEF Means, AskedFor, WentAhead
<1>2. ASSUME NEW i \in Numbers
      PROVE  Verdict(i)' = IF i \in S THEN v ELSE Verdict(i)
  <2>1. CASE i \notin Ids
    BY <2>1 DEF Means, Verdict, Pending
  <2>2. CASE i \in S
    <3>1. i \in Ids /\ i \notin Pending' /\ Allowed(requests'[i]) = (v = "yes")
      BY <2>2 DEF Means, Pending
    <3> QED BY <2>2, <3>1 DEF Verdict, Means
  <2>3. CASE i \in Ids \ S
    <3>1. (i \in Pending') = (i \in Pending)
          /\ Allowed(requests'[i]) = Allowed(requests[i])
      BY <2>3 DEF Means
    <3> QED BY <2>3, <3>1 DEF Verdict, Means
  <2> QED BY <2>1, <2>2, <2>3
<1>3. C!Open = Pending
  BY DEF C!Open, Verdicts, Verdict, Pending
<1> QED BY <1>1, <1>2, <1>3 DEF Verdicts

\* Every kind of step is a step of the contract or changes nothing in it.
LEMMA StepRefines ==
  ASSUME WireTypeOK, RequestStep
  PROVE  C!ContractNext \/ UNCHANGED C!contractVars
<1>1. /\ requests \in Seq(Request) /\ Len(requests) \in Nat
      /\ Ids = 1 .. Len(requests) /\ Ids \subseteq Numbers
      /\ \A i \in Ids : requests[i] \in Request
  BY TypeFacts DEF Numbers
<1>2. MaxRequests \in Nat /\ Len(asks) \in Nat /\ auto \subseteq Actions
  BY SourcesAssumption, TypeFacts DEF WireTypeOK, ApprovalsTypeOK
<1>3. ASSUME Means({}, "no", {}), UNCHANGED auto
      PROVE  UNCHANGED C!contractVars
  <2>1. {} \in SUBSET Pending /\ {} \in SUBSET Ids /\ "no" \in {"yes", "no"}
    OBVIOUS
  <2>2. /\ AskedFor' = AskedFor /\ WentAhead' = WentAhead \cup {}
        /\ Verdicts' = [i \in Numbers |-> IF i \in {} THEN "no" ELSE Verdicts[i]]
    BY <1>1, <1>3, <2>1, MeaningFacts, Zenon
  <2>3. WentAhead \cup {} = WentAhead
    OBVIOUS
  <2>4. [i \in Numbers |-> IF i \in {} THEN "no" ELSE Verdicts[i]] = Verdicts
    BY DEF Verdicts
  <2> QED BY <1>3, <2>2, <2>3, <2>4 DEF C!contractVars
<1>4. CASE UNCHANGED <<requests, auto>>
  BY <1>3, <1>4 DEF Means, Ids, Pending
<1>5. ASSUME NEW s \in Sources, NEW a \in Actions, AskApproval(s, a)
      PROVE  \E i \in Numbers : C!Ask(i)
  <2> DEFINE n == Len(requests) + 1
             e == [source |-> s, action |-> a, status |-> "pending",
                   response |-> "none", caller |-> "waiting"]
  <2>1. e \in Request
    BY DEF Request
  <2>2. requests' = Append(requests, e) /\ n \in Numbers
        /\ a \notin auto /\ UNCHANGED auto
    BY <1>1, <1>2, <1>5 DEF AskApproval, AutoApproved, Room, Numbers
  <2>3. /\ Ids' = Ids \cup {n} /\ n \notin Ids
        /\ \A i \in Ids : requests'[i] = requests[i]
        /\ requests'[n] = e
    BY <1>1, <2>1, <2>2, AppendFacts DEF Ids
  <2> HIDE DEF n
  <2>4. AskedFor' = [AskedFor EXCEPT ![n] = a]
    <3>1. \A i \in Numbers : AskedFor'[i] = IF i = n THEN a ELSE AskedFor[i]
      BY <2>3 DEF AskedFor
    <3>2. AskedFor' = [i \in Numbers |-> AskedFor'[i]]
          /\ AskedFor = [i \in Numbers |-> AskedFor[i]]
      BY DEF AskedFor
    <3> HIDE DEF AskedFor
    <3> QED BY <2>2, <3>1, <3>2
  <2>5. ASSUME NEW i \in Numbers
        PROVE  Verdict(i)' = IF i = n THEN "open" ELSE Verdict(i)
    <3>1. CASE i = n
      BY <2>3, <3>1 DEF Verdict, Pending
    <3>2. CASE i # n /\ i \notin Ids
      BY <2>3, <3>2 DEF Verdict
    <3>3. CASE i # n /\ i \in Ids
      BY <2>3, <3>3 DEF Verdict, Pending
    <3> QED BY <3>1, <3>2, <3>3
  <2>6. Verdicts' = [Verdicts EXCEPT ![n] = "open"] /\ Verdicts[n] = "none"
    BY <2>2, <2>3, <2>5 DEF Verdicts, Verdict
  <2>7. WentAhead' = WentAhead
    BY <2>3 DEF WentAhead
  <2> QED BY <2>2, <2>4, <2>6, <2>7 DEF C!Ask
<1>6. ASSUME NEW S \in SUBSET Ids, NEW status \in Statuses, NEW r \in Responses,
             status \in {"resolved", "cancelled"},
             Settle(S, status, r), UNCHANGED auto
      PROVE  \E T \in SUBSET Numbers, v \in {"yes", "no"} : C!Decide(T, v)
  <2> DEFINE v == IF status = "resolved" /\ r # "reject" THEN "yes" ELSE "no"
             T == S \cap Pending
  <2>1. T \in SUBSET Pending /\ T \in SUBSET Numbers /\ v \in {"yes", "no"}
    BY <1>1 DEF Pending
  <2>2. Means(T, v, {})
    <3>1. requests' = Settled(S, status, r)
      BY <1>6 DEF Settle
    <3>2. /\ DOMAIN requests' = Ids
          /\ \A i \in Ids :
               /\ requests'[i].action = requests[i].action
               /\ requests'[i].status = IF i \in T THEN status ELSE requests[i].status
               /\ requests'[i].response = IF i \in T THEN r ELSE requests[i].response
               /\ requests'[i].caller = IF i \in T /\ requests[i].caller = "waiting"
                                        THEN "woken" ELSE requests[i].caller
      BY <1>1, <1>6, <3>1, SettledFacts
    <3> HIDE DEF T
    <3> QED BY <1>6, <2>1, <3>2 DEF Means, Allowed, Ids, Pending
  <2> HIDE DEF v, T
  <2>3. {} \in SUBSET Ids
    OBVIOUS
  <2>4. /\ AskedFor' = AskedFor /\ WentAhead' = WentAhead \cup {}
        /\ Verdicts' = [i \in Numbers |-> IF i \in T THEN v ELSE Verdicts[i]]
        /\ C!Open = Pending
    BY <1>1, <2>1, <2>2, <2>3, MeaningFacts, Zenon
  <2>5. /\ AskedFor' = AskedFor /\ WentAhead' = WentAhead
        /\ Verdicts' = [i \in Numbers |-> IF i \in T THEN v ELSE Verdicts[i]]
        /\ C!Open = Pending
    BY <2>4
  <2>6. C!Decide(T, v)
    BY <1>6, <2>1, <2>5 DEF C!Decide
  <2> QED BY <2>1, <2>6
<1>7. ASSUME NEW i \in Ids, WakeUp(i)
      PROVE  \/ UNCHANGED C!contractVars
             \/ C!Proceed(i) \/ C!ProceedForSession(i)
  <2> DEFINE same == {j \in Pending : requests[j].action = requests[i].action}
             rs == Settled(same, "resolved", "approve")
  <2>1. ASSUME NEW rs1 \in Seq(Request), DOMAIN rs1 = Ids, NEW c \in Callers,
               requests' = Told(rs1, i, c)
        PROVE  /\ Ids' = Ids
               /\ \A j \in Ids :
                    /\ requests'[j].action = rs1[j].action
                    /\ requests'[j].status = rs1[j].status
                    /\ requests'[j].response = rs1[j].response
                    /\ requests'[j].caller = IF j = i THEN c ELSE rs1[j].caller
    BY <2>1, ToldFacts DEF Ids
  <2>2. CASE requests' = Told(requests, i, "gone") /\ UNCHANGED auto
             /\ requests[i].caller = "woken"
    <3>1. /\ Ids' = Ids
          /\ \A j \in Ids :
               /\ requests'[j].action = requests[j].action
               /\ requests'[j].status = requests[j].status
               /\ requests'[j].response = requests[j].response
               /\ requests'[j].caller = IF j = i THEN "gone" ELSE requests[j].caller
      BY <1>1, <2>2, <2>1 DEF Callers, Ids
    <3>2. Means({}, "no", {})
      BY <2>2, <3>1 DEF Means, Allowed, Pending
    <3> QED BY <1>3, <2>2, <3>2
  <2>3. CASE /\ requests' = Told(requests, i, "allowed") /\ UNCHANGED auto
             /\ Allowed(requests[i]) /\ requests[i].caller = "woken"
    <3>1. Means({}, "no", {i})
      <4>1. /\ Ids' = Ids
            /\ \A j \in Ids :
                 /\ requests'[j].action = requests[j].action
                 /\ requests'[j].status = requests[j].status
                 /\ requests'[j].response = requests[j].response
                 /\ requests'[j].caller = IF j = i THEN "allowed" ELSE requests[j].caller
        BY <1>1, <2>3, <2>1 DEF Callers, Ids
      <4> QED BY <2>3, <4>1 DEF Means, Allowed, Pending
    <3>2. {} \in SUBSET Pending /\ {i} \in SUBSET Ids /\ "no" \in {"yes", "no"}
      OBVIOUS
    <3>3. /\ AskedFor' = AskedFor /\ WentAhead' = WentAhead \cup {i}
          /\ Verdicts' = [j \in Numbers |-> IF j \in {} THEN "no" ELSE Verdicts[j]]
      BY <1>1, <3>1, <3>2, MeaningFacts, Zenon
    <3>4. [j \in Numbers |-> IF j \in {} THEN "no" ELSE Verdicts[j]] = Verdicts
      BY DEF Verdicts
    <3>5. Verdicts[i] = "yes" /\ i \notin WentAhead
      BY <1>1, <2>3 DEF Verdicts, Verdict, Allowed, Pending, WentAhead
    <3> QED BY <2>3, <3>3, <3>4, <3>5 DEF C!Proceed
  <2>4. CASE /\ auto' = auto \cup {requests[i].action}
             /\ requests' = Told(rs, i, "allowed")
             /\ Allowed(requests[i]) /\ requests[i].caller = "woken"
    <3>1. /\ rs \in Seq(Request) /\ DOMAIN rs = Ids
          /\ \A j \in Ids :
               /\ rs[j].action = requests[j].action
               /\ rs[j].status = IF j \in same THEN "resolved" ELSE requests[j].status
               /\ rs[j].response = IF j \in same THEN "approve" ELSE requests[j].response
               /\ (rs[j].caller = "allowed") = (requests[j].caller = "allowed")
      <4>1. /\ same \in SUBSET Pending
            /\ rs = Settled(same, "resolved", "approve")
        OBVIOUS
      <4> HIDE DEF same, rs
      <4> QED BY <1>1, <4>1, SameFacts
    <3> HIDE DEF rs
    <3>2. Means(same, "yes", {i})
      <4>1. /\ Ids' = Ids
            /\ \A j \in Ids :
                 /\ requests'[j].action = rs[j].action
                 /\ requests'[j].status = rs[j].status
                 /\ requests'[j].response = rs[j].response
                 /\ requests'[j].caller = IF j = i THEN "allowed" ELSE rs[j].caller
        BY <2>4, <2>1, <3>1 DEF Callers
      <4>2. same \subseteq Pending
        OBVIOUS
      <4> HIDE DEF same
      <4> QED BY <2>4, <3>1, <4>1, <4>2 DEF Means, Allowed, Pending
    <3>3. same \in SUBSET Pending /\ {i} \in SUBSET Ids /\ "yes" \in {"yes", "no"}
      OBVIOUS
    <3>4. /\ AskedFor' = AskedFor /\ WentAhead' = WentAhead \cup {i}
          /\ Verdicts' = [j \in Numbers |-> IF j \in same THEN "yes" ELSE Verdicts[j]]
          /\ C!Open = Pending
      <4> HIDE DEF same
      <4> QED BY <1>1, <3>2, <3>3, MeaningFacts, Zenon
    <3>5. Verdicts[i] = "yes" /\ i \notin WentAhead
      BY <1>1, <2>4 DEF Verdicts, Verdict, Allowed, Pending, WentAhead
    <3>6. /\ AskedFor[i] = requests[i].action
          /\ \A j \in Pending : AskedFor[j] = requests[j].action
      BY <1>1 DEF AskedFor, Pending
    <3> QED BY <1>1, <2>4, <3>4, <3>5, <3>6 DEF C!ProceedForSession
  <2> QED BY <1>7, <2>2, <2>3, <2>4 DEF WakeUp, Allowed
<1>8. ASSUME NEW i \in Ids, DropTool(i)
      PROVE  UNCHANGED C!contractVars
  <2>1. requests' = Dropped({i})
    BY <1>8 DEF DropTool
  <2>2. /\ DOMAIN requests' = Ids
        /\ \A j \in Ids :
             /\ requests'[j].action = requests[j].action
             /\ requests'[j].status = requests[j].status
             /\ requests'[j].response = requests[j].response
             /\ requests'[j].caller = IF j \in {i} /\ Asleep(j) THEN "gone"
                                      ELSE requests[j].caller
    BY <1>1, <2>1, DroppedFacts
  <2>3. Means({}, "no", {})
    BY <2>2 DEF Asleep, Means, Allowed, Ids, Pending
  <2> QED BY <1>3, <1>8, <2>3 DEF DropTool
<1> QED BY <1>1, <1>4, <1>5, <1>6, <1>7, <1>8
        DEF RequestStep, C!ContractNext, Statuses, Responses

-----------------------------------------------------------------------------
(***************************************************************************)
(* The inductive invariant.                                                *)
(***************************************************************************)
\* The hub loop hears of every request and every response.
Heard ==
  /\ hub.answered \cap Pending = {}
  /\ hub.open => hub.asked \ Pending \subseteq hub.answered
  /\ conn = "open" => hub.open
  /\ conn = "open" /\ ~initialized => pending = {}
  /\ EveryPendingIsShown

\* One turn runs at a time, inside a prompt.
Active(t) == life[t] \in {"running", "cancelled"}

OneTurn ==
  /\ \A t \in Turns : life[t] \in {"new", "running", "cancelled", "ended"}
  /\ \A t \in Turns : Active(t) => soul \in {"running", "cancelled"}
  /\ \A t, u \in Turns : Active(t) /\ Active(u) => t = u
  /\ conn = "open" /\ ~streaming => soul = "idle"

\* A turn that has ended left no request.
RequestsEnd ==
  \A i \in Ids : requests[i].source \in Turns =>
    /\ life[requests[i].source] # "new"
    /\ life[requests[i].source] = "ended" =>
         requests[i].status # "pending" /\ ~Asleep(i)

\* An ask that is open is known to the server; a turn that has ended waits
\* for none, and once its prompt has returned none of its asks is open.
AsksEnd ==
  /\ \A k \in AskIds : asks[k].future = "open" => k \in wire \cup pendingAsks
  /\ \A k \in AskIds : asks[k].caller = "waiting" => asks[k].future = "open"
  /\ \A k \in AskIds : asks[k].owner \in Turns =>
       /\ life[asks[k].owner] # "new"
       /\ life[asks[k].owner] = "ended" => asks[k].caller = "gone"
       /\ soul \in {"idle", "replay"} => asks[k].future = "done"

IInv ==
  WireTypeOK /\ GrantCoversAll /\ Heard /\ OneTurn /\ RequestsEnd /\ AsksEnd

-----------------------------------------------------------------------------
\* Some of the pending requests are settled.
Settling(S) ==
  /\ S \subseteq Pending /\ Ids' = Ids /\ Pending' = Pending \ S
  /\ \A i \in Ids : requests'[i].action = requests[i].action
  /\ PublishResponses(S)

\* No request wakes up that was not asleep, and none is pending again.
Calm ==
  /\ Ids' = Ids
  /\ \A i \in Ids :
       /\ requests'[i].source = requests[i].source
       /\ requests'[i].status = "pending" => requests[i].status = "pending"
       /\ Asleep(i)' => Asleep(i)

\* Settling wakes up nobody who was not asleep.
LEMMA SettleIsCalm ==
  ASSUME WireTypeOK, NEW S \in SUBSET Ids, NEW status \in {"resolved", "cancelled"},
         NEW r \in Responses, Settle(S, status, r)
  PROVE  Settling(S \cap Pending) /\ Calm
<1>1. requests \in Seq(Request) /\ requests' = Settled(S, status, r)
      /\ status \in Statuses
  BY TypeFacts DEF Settle, Statuses
<1>2. /\ DOMAIN requests' = Ids
      /\ \A i \in Ids :
           /\ requests'[i].source = requests[i].source
           /\ requests'[i].action = requests[i].action
           /\ requests'[i].status = IF i \in S \cap Pending THEN status
                                    ELSE requests[i].status
           /\ requests'[i].caller = IF i \in S \cap Pending /\ requests[i].caller = "waiting"
                                    THEN "woken" ELSE requests[i].caller
  BY <1>1, SettledFacts
<1>3. Ids' = Ids /\ Pending' = Pending \ S
  BY <1>2 DEF Ids, Pending
<1>4. Pending \ S = Pending \ (S \cap Pending)
  OBVIOUS
<1>5. PublishResponses(S \cap Pending)
  BY DEF Settle
<1>6. Calm
  BY <1>2, <1>3 DEF Calm, Asleep
<1> QED BY <1>2, <1>3, <1>4, <1>5, <1>6 DEF Settling

\* A caller that wakes up settles nothing, or what its grant covers.
LEMMA WakeIsCalm ==
  ASSUME WireTypeOK, NEW i \in Ids, WakeUp(i)
  PROVE  /\ Calm
         /\ \/ Ids' = Ids /\ Pending' = Pending /\ UNCHANGED <<auto, hub>>
               /\ \A j \in Ids : requests'[j].action = requests[j].action
            \/ /\ Settling({j \in Pending : requests[j].action = requests[i].action})
               /\ auto' = auto \cup {requests[i].action}
<1>1. requests \in Seq(Request) /\ DOMAIN requests = Ids
  BY TypeFacts DEF Ids
<1>2. ASSUME NEW rs \in Seq(Request), DOMAIN rs = Ids, NEW c \in {"gone", "allowed"},
             requests' = Told(rs, i, c)
      PROVE  /\ Ids' = Ids
             /\ \A j \in Ids :
                  /\ requests'[j].source = rs[j].source
                  /\ requests'[j].action = rs[j].action
                  /\ requests'[j].status = rs[j].status
                  /\ requests'[j].caller = IF j = i THEN c ELSE rs[j].caller
  <2>1. c \in Callers /\ i \in DOMAIN rs
    BY <1>2 DEF Callers
  <2>2. /\ DOMAIN requests' = DOMAIN rs
        /\ \A j \in DOMAIN rs :
             /\ requests'[j].source = rs[j].source /\ requests'[j].action = rs[j].action
             /\ requests'[j].status = rs[j].status
             /\ requests'[j].caller = IF j = i THEN c ELSE rs[j].caller
    BY <1>2, <2>1, ToldFacts
  <2> QED BY <1>2, <2>2 DEF Ids
<1>3. CASE /\ \E c \in {"gone", "allowed"} : requests' = Told(requests, i, c)
           /\ UNCHANGED <<auto, hub>>
  <2>1. PICK c \in {"gone", "allowed"} : requests' = Told(requests, i, c)
    BY <1>3
  <2>2. /\ Ids' = Ids
        /\ \A j \in Ids :
             /\ requests'[j].source = requests[j].source
             /\ requests'[j].action = requests[j].action
             /\ requests'[j].status = requests[j].status
             /\ requests'[j].caller = IF j = i THEN c ELSE requests[j].caller
    BY <1>1, <1>2, <2>1
  <2> QED BY <1>3, <2>1, <2>2 DEF Calm, Asleep, Pending
<1> DEFINE same == {j \in Pending : requests[j].action = requests[i].action}
           rs == Settled(same, "resolved", "approve")
<1>4. CASE /\ auto' = auto \cup {requests[i].action}
           /\ requests' = Told(rs, i, "allowed")
           /\ PublishResponses(same)
  <2>1. same \subseteq Pending
    OBVIOUS
  <2>2. /\ rs \in Seq(Request) /\ DOMAIN rs = Ids
        /\ \A j \in Ids :
             /\ rs[j].source = requests[j].source
             /\ rs[j].action = requests[j].action
             /\ rs[j].status = IF j \in same THEN "resolved" ELSE requests[j].status
             /\ rs[j].caller = IF j \in same /\ requests[j].caller = "waiting"
                               THEN "woken" ELSE requests[j].caller
    <3>1. /\ same \in SUBSET Pending
          /\ rs = Settled(same, "resolved", "approve")
      OBVIOUS
    <3> HIDE DEF same, rs
    <3> QED BY <1>1, <3>1, SameFacts
  <2> HIDE DEF rs, same
  <2>3. /\ Ids' = Ids
        /\ \A j \in Ids :
             /\ requests'[j].source = rs[j].source
             /\ requests'[j].action = rs[j].action
             /\ requests'[j].status = rs[j].status
             /\ requests'[j].caller = IF j = i THEN "allowed" ELSE rs[j].caller
    BY <1>2, <1>4, <2>2
  <2>4. Pending' = Pending \ same
    BY <2>1, <2>2, <2>3 DEF Pending
  <2>5. Calm
    BY <2>2, <2>3 DEF Calm, Asleep
  <2>6. Settling(same)
    BY <1>4, <2>1, <2>2, <2>3, <2>4 DEF Settling
  <2> QED BY <1>4, <2>5, <2>6 DEF same
<1> QED BY <1>3, <1>4 DEF WakeUp

\* A cancelled tool settles nothing.
LEMMA DropIsCalm ==
  ASSUME WireTypeOK, NEW i \in Ids, DropTool(i)
  PROVE  /\ Calm /\ Pending' = Pending /\ UNCHANGED <<auto, hub>>
         /\ \A j \in Ids : requests'[j].action = requests[j].action
<1>1. requests \in Seq(Request) /\ requests' = Dropped({i})
  BY TypeFacts DEF DropTool
<1>2. /\ DOMAIN requests' = Ids
      /\ \A j \in Ids :
           /\ requests'[j].source = requests[j].source
           /\ requests'[j].action = requests[j].action
           /\ requests'[j].status = requests[j].status
           /\ requests'[j].caller = IF j \in {i} /\ Asleep(j) THEN "gone"
                                    ELSE requests[j].caller
  BY <1>1, DroppedFacts
<1>3. Ids' = Ids
  BY <1>2 DEF Ids
<1> QED BY <1>2, <1>3 DEF DropTool, Calm, Asleep, Pending

\* A request is new, open and asked by something that runs.
LEMMA AskedFacts ==
  ASSUME WireTypeOK, NEW s \in Sources, NEW a \in Actions, AskApproval(s, a)
  PROVE  \E n : /\ n \notin Ids /\ Ids' = Ids \cup {n} /\ Pending' = Pending \cup {n}
                /\ \A i \in Ids : requests'[i] = requests[i]
                /\ requests'[n].source = s /\ requests'[n].action = a
                /\ PublishRequest(n)
                /\ Live(s) /\ a \notin auto /\ UNCHANGED <<auto, life>>
<1> DEFINE n == Len(requests) + 1
           e == [source |-> s, action |-> a, status |-> "pending",
                 response |-> "none", caller |-> "waiting"]
<1>1. requests \in Seq(Request) /\ e \in Request
  BY TypeFacts DEF Request
<1>2. /\ requests' = Append(requests, e) /\ PublishRequest(n)
      /\ Live(s) /\ a \notin auto /\ UNCHANGED <<auto, life>>
  BY DEF AskApproval, AutoApproved
<1>3. /\ n \notin Ids /\ Ids' = Ids \cup {n}
      /\ \A i \in Ids : requests'[i] = requests[i]
      /\ requests'[n] = e
  BY <1>1, <1>2, AppendFacts DEF Ids
<1> HIDE DEF n
<1>4. Pending' = Pending \cup {n}
  BY <1>3 DEF Pending
<1>5. requests'[n].source = s /\ requests'[n].action = a
  BY <1>3
<1> QED BY <1>2, <1>3, <1>4, <1>5, Zenon

-----------------------------------------------------------------------------
\* No step leaves a request waiting that a grant covers.
LEMMA GrantKept ==
  ASSUME WireTypeOK, GrantCoversAll, RequestStep
  PROVE  GrantCoversAll'
<1>1. CASE UNCHANGED <<requests, auto>>
  BY <1>1 DEF GrantCoversAll, Pending, Ids
<1>2. CASE \E s \in Sources, a \in Actions : AskApproval(s, a)
  BY <1>2, AskedFacts DEF GrantCoversAll, Pending
<1>3. ASSUME NEW S \in SUBSET Ids, NEW status \in {"resolved", "cancelled"}, NEW r \in Responses,
             Settle(S, status, r), UNCHANGED auto
      PROVE  GrantCoversAll'
  <2>1. Settling(S \cap Pending)
    BY <1>3, SettleIsCalm
  <2> QED BY <1>3, <2>1 DEF GrantCoversAll, Settling, Pending
<1>4. ASSUME NEW i \in Ids, WakeUp(i) PROVE GrantCoversAll'
  BY <1>4, WakeIsCalm DEF GrantCoversAll, Settling, Pending
<1>5. ASSUME NEW i \in Ids, DropTool(i) PROVE GrantCoversAll'
  BY <1>5, DropIsCalm DEF GrantCoversAll, Pending, Calm
<1> QED BY <1>1, <1>2, <1>3, <1>4, <1>5 DEF RequestStep, Responses

\* The steps of the requests that the hub loop hears of.
LEMMA HeardIfPublished ==
  ASSUME HubOK(hub, Ids), Heard, pending \subseteq Ids,
         UNCHANGED <<conn, initialized, pending>>,
         \/ Pending' = Pending /\ UNCHANGED hub
         \/ \E S \in SUBSET Pending : Pending' = Pending \ S /\ PublishResponses(S)
         \/ \E n : n \notin Ids /\ Pending' = Pending \cup {n} /\ PublishRequest(n)
  PROVE  Heard'
<1> USE DEF Heard, EveryPendingIsShown, HubOK
<1>1. CASE Pending' = Pending /\ UNCHANGED hub
  BY <1>1
<1>2. ASSUME NEW S \in SUBSET Pending, Pending' = Pending \ S, PublishResponses(S)
      PROVE  Heard'
  <2>1. CASE hub.open
    <3>1. hub'.open = TRUE /\ hub'.asked = hub.asked /\ hub'.answered = hub.answered \cup S
      BY <1>2, <2>1 DEF PublishResponses
    <3> QED BY <1>2, <2>1, <3>1
  <2>2. CASE ~hub.open
    BY <1>2, <2>2 DEF PublishResponses
  <2> QED BY <2>1, <2>2
<1>3. ASSUME NEW n, n \notin Ids, Pending' = Pending \cup {n}, PublishRequest(n)
      PROVE  Heard'
  <2>1. CASE hub.open
    <3>1. hub'.open = TRUE /\ hub'.asked = hub.asked \cup {n} /\ hub'.answered = hub.answered
      BY <1>3, <2>1 DEF PublishRequest
    <3> QED BY <1>3, <2>1, <3>1
  <2>2. CASE ~hub.open
    BY <1>3, <2>2 DEF PublishRequest
  <2> QED BY <2>1, <2>2
<1> QED BY <1>1, <1>2, <1>3

\* What a step of the requests and of the server does to what Heard is about.
LEMMA HeardSteps ==
  ASSUME WireTypeOK, Next
  PROVE  \/ UNCHANGED <<conn, initialized, pending>>
            /\ \/ Pending' = Pending /\ UNCHANGED hub
               \/ \E S \in SUBSET Pending : Pending' = Pending \ S /\ PublishResponses(S)
               \/ \E n : n \notin Ids /\ Pending' = Pending \cup {n} /\ PublishRequest(n)
         \/ HubLoop \/ Initialize \/ Cleanup \/ Close \/ LeaveHub \/ Closed
         \/ \E i \in Ids, r \in Responses : Answer(i, r)
<1> DEFINE Quietly == \/ Pending' = Pending /\ UNCHANGED hub
                      \/ \E S \in SUBSET Pending :
                           Pending' = Pending \ S /\ PublishResponses(S)
                      \/ \E n : n \notin Ids /\ Pending' = Pending \cup {n}
                                /\ PublishRequest(n)
<1>1. ASSUME NEW s \in Sources, CancelBySource(s) PROVE Quietly
  <2>1. Of(s) \in SUBSET Ids /\ "reject" \in Responses
    BY DEF Of, Responses
  <2>2. Settling(Of(s) \cap Pending)
    BY <1>1, <2>1, SettleIsCalm DEF CancelBySource
  <2> QED BY <2>2 DEF Settling
<1>2. ASSUME UNCHANGED <<requests, hub>> PROVE Quietly
  BY <1>2 DEF Pending, Ids
<1>3. CASE RunNext /\ UNCHANGED serverVars
  <2>1. ASSUME NEW s \in Sources, NEW a \in Actions, AskApproval(s, a) PROVE Quietly
    BY <2>1, AskedFacts
  <2>2. ASSUME NEW i \in Ids, WakeUp(i) PROVE Quietly
    BY <2>2, WakeIsCalm DEF Settling
  <2>3. ASSUME NEW i \in Ids, DropTool(i) PROVE Quietly
    BY <2>3, DropIsCalm
  <2>4. ASSUME NEW s \in Subagents,
               StartSubagent(s) \/ EndSubagent(s) \/ DetachSubagent(s)
        PROVE  Quietly
    <3>1. s \in Sources
      BY DEF Sources, Foreground
    <3> HIDE DEF Quietly
    <3> QED BY <1>1, <1>2, <2>4, <3>1 DEF StartSubagent, EndSubagent, DetachSubagent
  <2>5. ASSUME NEW a \in Agents, StartAgent(a) \/ KillAgent(a) \/ EndAgent(a)
        PROVE  Quietly
    <3>1. a \in Sources
      BY DEF Sources
    <3> HIDE DEF Quietly
    <3> QED BY <1>1, <1>2, <2>5, <3>1 DEF StartAgent, KillAgent, EndAgent
  <2>6. ASSUME NEW s \in Subagents \cup Agents, EndOrphan(s) PROVE Quietly
    BY <1>2, <2>6 DEF EndOrphan
  <2> HIDE DEF Quietly
  <2>7. Quietly
    BY <1>3, <2>1, <2>2, <2>3, <2>4, <2>5, <2>6 DEF RunNext
  <2> QED BY <1>3, <2>7 DEF serverVars, Quietly
<1>4. CASE \E t \in Turns : SoulEnds(t)
  <2>1. PICK t \in Turns : SoulEnds(t)
    BY <1>4
  <2>2. Quietly
    BY <1>1, <2>1 DEF SoulEnds, EndTurn, Sources, Foreground
  <2> QED BY <2>1, <2>2 DEF SoulEnds
<1>5. CASE \/ Replay \/ Cancel \/ UILoop \/ EndReplay
           \/ \E t \in Turns : Prompt(t) \/ AskCall(t) \/ CancelSoul(t)
           \/ \E s \in Foreground : AskHook(s)
           \/ \E k \in AskIds : AnswerAsk(k) \/ CancelAsk(k) \/ TimeoutHook(k)
  <2>1. UNCHANGED <<requests, hub, conn, initialized, pending>>
    BY <1>5 DEF Replay, Cancel, UILoop, EndReplay, Prompt, StartTurn, AskCall, CancelSoul,
                CancelTurn, AskHook, AnswerAsk, CancelAsk, TimeoutHook, DropAsk,
                serverVars, approvalVars
  <2> QED BY <1>2, <2>1
<1> QED BY <1>3, <1>4, <1>5 DEF Next, ClientNext, SoulNext, ServerNext

\* Every step keeps what the hub loop hears.
LEMMA HeardKept ==
  ASSUME WireTypeOK, Heard, Next
  PROVE  Heard'
<1>1. HubOK(hub, Ids) /\ pending \subseteq Ids
  BY TypeFacts DEF WireTypeOK
<1>2. Pending \subseteq Ids
  BY DEF Pending
<1>3. ASSUME \/ Pending' = Pending /\ UNCHANGED hub
             \/ \E S \in SUBSET Pending : Pending' = Pending \ S /\ PublishResponses(S)
             \/ \E n : n \notin Ids /\ Pending' = Pending \cup {n} /\ PublishRequest(n),
             UNCHANGED <<conn, initialized, pending>>
      PROVE  Heard'
  BY <1>1, <1>3, HeardIfPublished
<1>4. CASE HubLoop
  <2>1. hub'.asked = {} /\ hub'.answered = {} /\ hub'.open = hub.open /\ Pending' = Pending
    BY <1>1, <1>4 DEF HubLoop, HubOK, Pending, Ids
  <2> QED BY <1>1, <1>4, <2>1 DEF HubLoop, Heard, EveryPendingIsShown
<1>5. CASE Initialize
  <2>1. Pending' = Pending
    BY <1>5 DEF Initialize, approvalVars, Pending, Ids
  <2> QED BY <1>2, <1>5, <2>1 DEF Initialize, approvalVars, Heard, EveryPendingIsShown
<1>6. ASSUME NEW S \in SUBSET Ids, NEW r \in Responses, Settle(S, "resolved", r)
      PROVE  /\ Pending' = Pending \ S
             /\ hub.open => /\ hub'.open = TRUE /\ hub'.asked = hub.asked
                            /\ hub'.answered = hub.answered \cup (S \cap Pending)
             /\ ~hub.open => hub' = hub
  <2>1. Settling(S \cap Pending)
    BY <1>6, SettleIsCalm
  <2> QED BY <1>1, <2>1 DEF Settling, PublishResponses, HubOK
<1>7. ASSUME NEW i \in Ids, NEW r \in Responses, Answer(i, r)
      PROVE  Heard'
  <2>1. Settle({i}, "resolved", r) /\ {i} \in SUBSET Ids
    BY <1>7 DEF Answer
  <2> QED BY <1>6, <1>7, <2>1 DEF Answer, Heard, EveryPendingIsShown
<1>8. Stale \in SUBSET Ids /\ "reject" \in Responses
  BY <1>1 DEF Stale, Responses
<1>9. CASE Cleanup
  <2>1. Settle(Stale, "resolved", "reject") /\ pending' = pending \ Stale
        /\ UNCHANGED <<conn, initialized>>
    BY <1>9 DEF Cleanup
  <2> QED BY <1>6, <1>8, <2>1 DEF Heard, EveryPendingIsShown
<1>10. CASE Close
  <2>1. Settle(Stale, "resolved", "reject") /\ conn' = "closing"
    BY <1>10 DEF Close
  <2> QED BY <1>6, <1>8, <2>1 DEF Heard, EveryPendingIsShown
<1>11. CASE LeaveHub \/ Closed
  <2>1. /\ conn' # "open" /\ Pending' = Pending /\ hub'.asked = hub.asked
        /\ hub'.answered = hub.answered /\ (hub'.open => hub.open)
    BY <1>1, <1>11 DEF LeaveHub, Closed, approvalVars, HubOK, Pending, Ids
  <2> QED BY <2>1 DEF Heard, EveryPendingIsShown
<1> QED BY <1>3, <1>4, <1>5, <1>7, <1>9, <1>10, <1>11, HeardSteps

-----------------------------------------------------------------------------
\* No turn starts, is cancelled or ends.
TurnsAsBefore == \A t \in Turns : life'[t] = life[t]

\* Only a prompt moves a turn.
LEMMA TurnSteps ==
  ASSUME WireTypeOK, Next
  PROVE  \/ TurnsAsBefore /\ UNCHANGED <<streaming, soul>> /\ (conn' = "open" => conn = "open")
         \/ TurnsAsBefore /\ (Replay \/ Cleanup \/ EndReplay \/ Close)
         \/ \E t \in Turns : Prompt(t) \/ CancelSoul(t) \/ SoulEnds(t)
<1> USE DEF TurnsAsBefore
<1>1. ASSUME UNCHANGED life PROVE TurnsAsBefore
  BY <1>1
<1>2. ASSUME NEW s \in Subagents \cup Agents, NEW l, Become(s, l) PROVE TurnsAsBefore
  <2>1. s \notin Turns
    BY SourcesAssumption DEF Turns
  <2>2. life \in [Sources -> Life]
    BY DEF WireTypeOK, ApprovalsTypeOK
  <2> QED BY <1>2, <2>1, <2>2 DEF Become, Sources, Foreground
<1> HIDE DEF TurnsAsBefore
<1>3. CASE RunNext /\ UNCHANGED serverVars
  <2>1. ASSUME \/ \E s \in Sources, a \in Actions : AskApproval(s, a)
               \/ \E i \in Ids : WakeUp(i) \/ DropTool(i)
        PROVE  TurnsAsBefore
    <3>1. UNCHANGED life
      BY <2>1 DEF AskApproval, WakeUp, DropTool
    <3> QED BY <1>1, <3>1
  <2>2. ASSUME NEW s \in Subagents,
               StartSubagent(s) \/ EndSubagent(s) \/ DetachSubagent(s)
        PROVE  TurnsAsBefore
    <3>1. Become(s, "running") \/ Become(s, "ended") \/ Become(s, "orphan")
      BY <2>2 DEF StartSubagent, EndSubagent, DetachSubagent
    <3> QED BY <1>2, <3>1
  <2>3. ASSUME NEW a \in Agents, StartAgent(a) \/ KillAgent(a) \/ EndAgent(a)
        PROVE  TurnsAsBefore
    <3>1. \/ Become(a, "running") \/ Become(a, "killed")
          \/ Become(a, "ended") \/ Become(a, "orphan")
      BY <2>3 DEF StartAgent, KillAgent, EndAgent
    <3> QED BY <1>2, <3>1
  <2>4. ASSUME NEW s \in Subagents \cup Agents, EndOrphan(s)
        PROVE  TurnsAsBefore
    BY <1>2, <2>4 DEF EndOrphan
  <2>5. TurnsAsBefore
    BY <1>3, <2>1, <2>2, <2>3, <2>4 DEF RunNext
  <2> QED BY <1>3, <2>5 DEF serverVars, promptVars
<1>4. CASE \/ Initialize \/ Cancel \/ HubLoop \/ UILoop \/ LeaveHub \/ Closed
           \/ \E i \in Ids, r \in Responses : Answer(i, r)
           \/ \E k \in AskIds : AnswerAsk(k) \/ CancelAsk(k) \/ TimeoutHook(k)
           \/ \E t \in Turns : AskCall(t)
           \/ \E s \in Foreground : AskHook(s)
  <2>1. UNCHANGED <<life, streaming, soul>> /\ (conn' = "open" => conn = "open")
    BY <1>4 DEF Initialize, Cancel, HubLoop, UILoop, LeaveHub, Closed, Answer, AnswerAsk,
                CancelAsk, TimeoutHook, DropAsk, AskCall, AskHook, approvalVars,
                serverVars, promptVars
  <2> QED BY <1>1, <2>1
<1>5. CASE Replay \/ Cleanup \/ EndReplay \/ Close
  BY <1>1, <1>5 DEF Replay, Cleanup, EndReplay, Close, approvalVars
<1> QED BY <1>3, <1>4, <1>5 DEF Next, ClientNext, SoulNext, ServerNext

\* What a prompt does to its turn, and to that alone.
LEMMA TurnFacts ==
  ASSUME WireTypeOK, NEW t \in Turns, NEW l, Become(t, l)
  PROVE  life'[t] = l /\ \A u \in Turns \ {t} : life'[u] = life[u]
BY DEF Become, WireTypeOK, ApprovalsTypeOK, Sources, Foreground

\* Every step keeps one turn at a time.
LEMMA OneTurnKept ==
  ASSUME WireTypeOK, OneTurn, Next
  PROVE  OneTurn'
<1> USE DEF OneTurn, Active
<1>1. CASE TurnsAsBefore /\ UNCHANGED <<streaming, soul>> /\ (conn' = "open" => conn = "open")
  BY <1>1 DEF TurnsAsBefore
<1>2. CASE TurnsAsBefore /\ (Replay \/ Cleanup \/ EndReplay \/ Close)
  BY <1>2 DEF TurnsAsBefore, Replay, Cleanup, EndReplay, Close
<1>3. ASSUME NEW t \in Turns, Prompt(t) PROVE OneTurn'
  <2>1. /\ life'[t] = "running" /\ \A u \in Turns \ {t} : life'[u] = life[u]
        /\ soul = "idle" /\ soul' = "running" /\ streaming' = TRUE
    BY <1>3, TurnFacts DEF Prompt, StartTurn
  <2> QED BY <2>1
<1>4. ASSUME NEW t \in Turns, CancelSoul(t) PROVE OneTurn'
  <2>1. /\ life[t] = "running" /\ life'[t] = "cancelled"
        /\ \A u \in Turns \ {t} : life'[u] = life[u]
        /\ soul = "running" /\ soul' = "cancelled" /\ UNCHANGED <<conn, streaming>>
    BY <1>4, TurnFacts DEF CancelSoul, CancelTurn
  <2> QED BY <2>1
<1>5. ASSUME NEW t \in Turns, SoulEnds(t) PROVE OneTurn'
  <2>1. /\ life[t] \in {"running", "cancelled"} /\ life'[t] = "ended"
        /\ \A u \in Turns \ {t} : life'[u] = life[u]
        /\ soul \in {"running", "cancelled"} /\ UNCHANGED <<conn, streaming>>
    BY <1>5, TurnFacts DEF SoulEnds, EndTurn
  <2> QED BY <2>1
<1> QED BY <1>1, <1>2, <1>3, <1>4, <1>5, TurnSteps

-----------------------------------------------------------------------------
\* Every step is calm or asks.
LEMMA RequestMoves ==
  ASSUME WireTypeOK, RequestStep
  PROVE  Calm \/ \E s \in Sources, a \in Actions : AskApproval(s, a)
<1>1. CASE UNCHANGED requests
  BY <1>1 DEF Calm, Ids, Asleep
<1>2. ASSUME NEW S \in SUBSET Ids, NEW status \in {"resolved", "cancelled"},
             NEW r \in Responses, Settle(S, status, r)
      PROVE  Calm
  BY <1>2, SettleIsCalm
<1>3. "reject" \in Responses
  BY DEF Responses
<1> QED BY <1>1, <1>2, <1>3, WakeIsCalm, DropIsCalm DEF RequestStep

\* Every step keeps the requests of ended turns closed.
LEMMA RequestsEndKept ==
  ASSUME WireTypeOK, OneTurn, RequestsEnd, Next
  PROVE  RequestsEnd'
<1>1. RequestStep
  BY RequestSteps DEF WireTypeOK
<1>2. ASSUME Calm, NEW i \in Ids', requests'[i].source \in Turns
      PROVE  i \in Ids /\ requests'[i].source = requests[i].source
             /\ (requests[i].status # "pending" => requests'[i].status # "pending")
             /\ (~Asleep(i) => ~Asleep(i)')
  BY <1>2 DEF Calm
<1>3. CASE TurnsAsBefore /\ Calm
  BY <1>2, <1>3 DEF RequestsEnd, TurnsAsBefore
<1>4. ASSUME TurnsAsBefore, NEW s \in Sources, NEW a \in Actions, AskApproval(s, a)
      PROVE  RequestsEnd'
  <2>1. PICK n : /\ n \notin Ids /\ Ids' = Ids \cup {n}
                 /\ \A i \in Ids : requests'[i] = requests[i]
                 /\ requests'[n].source = s /\ Live(s)
    BY <1>4, AskedFacts
  <2>2. \A i \in Ids : Asleep(i)' = Asleep(i)
    BY <2>1 DEF Asleep
  <2>3. s \in Turns => life'[s] \notin {"new", "ended"}
    BY <1>4, <2>1 DEF TurnsAsBefore, Live
  <2> QED BY <1>4, <2>1, <2>2, <2>3 DEF RequestsEnd, TurnsAsBefore
<1>5. ASSUME NEW t \in Turns, Prompt(t) \/ CancelSoul(t)
      PROVE  RequestsEnd'
  <2>1. Calm
    BY <1>5 DEF Prompt, StartTurn, CancelSoul, CancelTurn, Calm, Ids, Asleep
  <2>2. /\ life'[t] \in {"running", "cancelled"}
        /\ \A u \in Turns \ {t} : life'[u] = life[u]
    BY <1>5, TurnFacts DEF Prompt, StartTurn, CancelSoul, CancelTurn
  <2> QED BY <1>2, <2>1, <2>2 DEF RequestsEnd
<1>6. ASSUME NEW t \in Turns, SoulEnds(t)
      PROVE  RequestsEnd'
  <2>1. /\ life'[t] = "ended" /\ \A u \in Turns \ {t} : life'[u] = life[u]
        /\ \A i \in Of(t) : ~Asleep(i)
    BY <1>6, TurnFacts DEF SoulEnds, EndTurn, Busy
  <2>2. Settle(Of(t), "cancelled", "reject") /\ Of(t) \in SUBSET Ids /\ "reject" \in Responses
    BY <1>6 DEF SoulEnds, EndTurn, CancelBySource, Of, Responses
  <2>3. Calm /\ Pending' = Pending \ (Of(t) \cap Pending)
    BY <2>2, SettleIsCalm DEF Settling
  <2>4. ASSUME NEW i \in Ids', requests'[i].source = t
        PROVE  requests'[i].status # "pending" /\ ~Asleep(i)'
    <3>1. i \in Of(t)
      BY <1>2, <2>3, <2>4 DEF Of
    <3> QED BY <1>2, <2>1, <2>3, <2>4, <3>1 DEF Pending
  <2> QED BY <1>2, <2>1, <2>3, <2>4 DEF RequestsEnd
<1>7. CASE TurnsAsBefore
  BY <1>1, <1>3, <1>4, <1>7, RequestMoves
<1> QED BY <1>5, <1>6, <1>7, TurnSteps

-----------------------------------------------------------------------------
\* The steps that touch the asks or the lists that know them.
LEMMA AskMoves ==
  ASSUME Next
  PROVE  \/ UNCHANGED <<asks, wire, pendingAsks>> /\ ~Cleanup /\ ~Close
         \/ UILoop \/ Cleanup \/ Close
         \/ \E t \in Turns : AskCall(t)
         \/ \E s \in Foreground : AskHook(s)
         \/ \E k \in AskIds : AnswerAsk(k) \/ CancelAsk(k) \/ TimeoutHook(k)
<1>1. ASSUME \/ RunNext /\ UNCHANGED serverVars
             \/ Initialize \/ Replay \/ Cancel \/ HubLoop \/ EndReplay \/ LeaveHub \/ Closed
             \/ \E t \in Turns : Prompt(t) \/ CancelSoul(t) \/ SoulEnds(t)
             \/ \E i \in Ids, r \in Responses : Answer(i, r)
      PROVE  UNCHANGED <<asks, wire, pendingAsks>>
  <2> USE DEF serverVars, askVars, approvalVars
  <2>1. CASE RunNext /\ UNCHANGED serverVars
    <3>1. UNCHANGED asks
      BY <2>1 DEF RunNext, AskApproval, WakeUp, DropTool, StartSubagent, EndSubagent,
                  DetachSubagent, StartAgent, KillAgent, EndAgent, EndOrphan
    <3> QED BY <2>1, <3>1
  <2>2. CASE \/ Initialize \/ Replay \/ Cancel \/ HubLoop \/ EndReplay \/ LeaveHub \/ Closed
             \/ \E t \in Turns : Prompt(t) \/ CancelSoul(t) \/ SoulEnds(t)
             \/ \E i \in Ids, r \in Responses : Answer(i, r)
    BY <2>2 DEF Initialize, Replay, Cancel, HubLoop, EndReplay, LeaveHub, Closed, Prompt,
                StartTurn, CancelSoul, CancelTurn, SoulEnds, EndTurn, Answer
  <2> QED BY <1>1, <2>1, <2>2
<1> QED BY <1>1 DEF Next, ClientNext, SoulNext, ServerNext

\* Every step keeps the asks known, and those of ended turns closed.
LEMMA AsksEndKept ==
  ASSUME WireTypeOK, OneTurn, AsksEnd, Next
  PROVE  AsksEnd'
<1>1. asks \in Seq(Ask)
  BY TypeFacts
<1>2. CASE UNCHANGED <<asks, wire, pendingAsks>> /\ ~Cleanup /\ ~Close
  <2>1. AskIds' = AskIds
    BY <1>2 DEF AskIds
  <2>2. CASE TurnsAsBefore /\ UNCHANGED soul
    BY <1>2, <2>1, <2>2 DEF AsksEnd, TurnsAsBefore
  <2>3. CASE TurnsAsBefore /\ (Replay \/ EndReplay)
    <3>1. soul \in {"idle", "replay"}
      BY <2>3 DEF Replay, EndReplay, OneTurn
    <3> QED BY <1>2, <2>1, <2>3, <3>1 DEF AsksEnd, TurnsAsBefore
  <2>4. ASSUME NEW t \in Turns, Prompt(t) \/ CancelSoul(t)
        PROVE  AsksEnd'
    <3>1. /\ life'[t] \in {"running", "cancelled"}
          /\ \A u \in Turns \ {t} : life'[u] = life[u]
          /\ soul' \notin {"idle", "replay"}
      BY <2>4, TurnFacts DEF Prompt, StartTurn, CancelSoul, CancelTurn
    <3> QED BY <1>2, <2>1, <3>1 DEF AsksEnd
  <2>5. ASSUME NEW t \in Turns, SoulEnds(t)
        PROVE  AsksEnd'
    <3>1. /\ life'[t] = "ended" /\ \A u \in Turns \ {t} : life'[u] = life[u]
          /\ \A k \in AskIds : asks[k].owner = t => asks[k].caller # "waiting"
          /\ soul' \notin {"idle", "replay"}
      BY <2>5, TurnFacts DEF SoulEnds, EndTurn, Busy
    <3>2. \A k \in AskIds : asks[k].caller \in {"waiting", "gone"}
      BY TypeFacts DEF Ask
    <3> QED BY <1>2, <2>1, <3>1, <3>2 DEF AsksEnd
  <2> QED BY <1>2, <2>2, <2>3, <2>4, <2>5, TurnSteps
<1>3. ASSUME UNCHANGED life PROVE TurnsAsBefore
  BY <1>3 DEF TurnsAsBefore
<1>4. CASE UILoop
  <2>1. /\ UNCHANGED <<life, soul, asks>> /\ AskIds' = AskIds
        /\ (wire \cup pendingAsks)' = wire \cup pendingAsks
    BY <1>4 DEF UILoop, approvalVars, promptVars, AskIds
  <2> QED BY <2>1 DEF AsksEnd
<1>5. ASSUME NEW S, asks' = Resolved(S), UNCHANGED life,
             wire \cup pendingAsks \subseteq (wire \cup pendingAsks)' \cup S,
             \/ UNCHANGED soul
             \/ \A k \in AskIds : asks[k].future = "open" => k \in S
      PROVE  AsksEnd'
  <2>1. /\ DOMAIN asks' = AskIds
        /\ \A k \in AskIds :
             /\ asks'[k].owner = asks[k].owner
             /\ asks'[k].future = IF k \in S THEN "done" ELSE asks[k].future
             /\ asks'[k].caller = IF k \in S THEN "gone" ELSE asks[k].caller
    BY <1>1, <1>5, ResolvedFacts
  <2>2. AskIds' = AskIds
    BY <2>1 DEF AskIds
  <2>3. \A k \in AskIds : asks[k].future \in {"open", "done"}
    BY TypeFacts DEF Ask
  <2> QED BY <1>5, <2>1, <2>2, <2>3 DEF AsksEnd
<1>6. CASE Cleanup
  <2>1. \A k \in AskIds : asks[k].future = "open" => k \in Unresolved
    BY <1>6 DEF Cleanup, AsksEnd, Unresolved
  <2>2. asks' = Resolved(Unresolved) /\ UNCHANGED <<life, wire>>
        /\ pendingAsks' = pendingAsks \ Unresolved
    BY <1>6 DEF Cleanup
  <2> QED BY <1>5, <2>1, <2>2
<1>7. CASE Close
  <2>1. \A k \in AskIds : asks[k].future = "open" => k \in wire \cup Unresolved
    BY <1>7 DEF AsksEnd, Unresolved
  <2>2. asks' = Resolved(Unresolved) /\ UNCHANGED <<life, wire, soul>>
    BY <1>7 DEF Close
  <2>3. /\ DOMAIN asks' = AskIds
        /\ \A k \in AskIds :
             /\ asks'[k].owner = asks[k].owner
             /\ asks'[k].future = IF k \in Unresolved THEN "done" ELSE asks[k].future
             /\ asks'[k].caller = IF k \in Unresolved THEN "gone" ELSE asks[k].caller
    BY <1>1, <2>2, ResolvedFacts
  <2>4. AskIds' = AskIds
    BY <2>3 DEF AskIds
  <2>5. \A k \in AskIds : asks'[k].future = "open" => k \in wire'
    BY <2>1, <2>2, <2>3
  <2> QED BY <2>2, <2>3, <2>4, <2>5 DEF AsksEnd
<1>8. ASSUME NEW k \in AskIds, AnswerAsk(k)
      PROVE  AsksEnd'
  <2>1. UNCHANGED <<life, wire, soul>> /\ pendingAsks' = pendingAsks \ {k}
    BY <1>8 DEF AnswerAsk, promptVars
  <2>2. CASE asks[k].future = "open"
    BY <1>5, <1>8, <2>1, <2>2 DEF AnswerAsk
  <2>3. CASE asks[k].future # "open"
    <3>1. UNCHANGED asks /\ AskIds' = AskIds
      BY <1>8, <2>3 DEF AnswerAsk, AskIds
    <3> QED BY <2>1, <2>3, <3>1 DEF AsksEnd
  <2> QED BY <2>2, <2>3
<1>9. ASSUME NEW s \in Foreground, s \in Turns => life[s] = "running",
             NEW kind \in {"call", "hook"},
             asks' = Append(asks, [owner |-> s, kind |-> kind,
                                   future |-> "open", caller |-> "waiting"]),
             UNCHANGED <<life, soul>>,
             (wire \cup pendingAsks)' = wire \cup pendingAsks \cup {Len(asks) + 1}
      PROVE  AsksEnd'
  <2> DEFINE n == Len(asks) + 1
             e == [owner |-> s, kind |-> kind, future |-> "open", caller |-> "waiting"]
  <2>1. e \in Ask
    BY DEF Ask
  <2>2. /\ AskIds' = AskIds \cup {n} /\ asks'[n] = e
        /\ \A k \in AskIds : asks'[k] = asks[k]
    BY <1>1, <1>9, <2>1, AppendFacts DEF AskIds
  <2>3. s \in Turns => soul \notin {"idle", "replay"}
    BY <1>9 DEF OneTurn, Active
  <2>4. e.owner = s /\ e.future = "open" /\ e.caller = "waiting"
    OBVIOUS
  <2>5. (wire \cup pendingAsks)' = wire \cup pendingAsks \cup {n}
    BY <1>9
  <2> HIDE DEF n, e
  <2>6. ASSUME NEW k \in AskIds'
        PROVE  /\ asks'[k].future = "open" => k \in (wire \cup pendingAsks)'
               /\ asks'[k].caller = "waiting" => asks'[k].future = "open"
               /\ asks'[k].owner \in Turns =>
                    /\ life'[asks'[k].owner] # "new"
                    /\ life'[asks'[k].owner] = "ended" => asks'[k].caller = "gone"
                    /\ soul' \in {"idle", "replay"} => asks'[k].future = "done"
    <3>1. CASE k = n
      <4>1. life' = life /\ asks'[k] = e
        BY <1>9, <2>2, <3>1
      <4> QED BY <1>9, <2>3, <2>4, <2>5, <3>1, <4>1
    <3>2. CASE k \in AskIds
      <4>1. life' = life /\ asks'[k] = asks[k] /\ soul' = soul
        BY <1>9, <2>2, <3>2
      <4> QED BY <2>5, <3>2, <4>1 DEF AsksEnd
    <3> QED BY <2>2, <3>1, <3>2
  <2> QED BY <2>6 DEF AsksEnd
<1>10. ASSUME NEW t \in Turns, AskCall(t)
       PROVE  AsksEnd'
  BY <1>9, <1>10 DEF AskCall, promptVars, Foreground
<1>11. ASSUME NEW s \in Foreground, AskHook(s)
       PROVE  AsksEnd'
  <2>1. s \in Turns => life[s] = "running"
    BY <1>11 DEF AskHook, Live, OneTurn
  <2> QED BY <1>9, <1>11, <2>1 DEF AskHook, promptVars
<1>12. ASSUME NEW k \in AskIds, CancelAsk(k) \/ TimeoutHook(k)
       PROVE  AsksEnd'
  <2>1. \A j \in AskIds : asks[j].future \in {"open", "done"}
    BY TypeFacts DEF Ask
  <2>2. PICK future \in {asks[k].future, "done"} : DropAsk(k, future)
    BY <1>12 DEF CancelAsk, TimeoutHook
  <2>3. future \in {"open", "done"}
    BY <2>1, <2>2
  <2>4. /\ AskIds' = AskIds
        /\ \A j \in AskIds :
             /\ asks'[j].owner = asks[j].owner
             /\ asks'[j].future = IF j = k THEN future ELSE asks[j].future
             /\ asks'[j].caller = IF j = k THEN "gone" ELSE asks[j].caller
    BY <1>1, <2>2, <2>3, DropAskFacts
  <2>5. UNCHANGED <<life, soul, wire, pendingAsks>>
    BY <2>2 DEF DropAsk, serverVars, promptVars, askVars
  <2> QED BY <2>1, <2>2, <2>4, <2>5 DEF AsksEnd
<1> QED BY <1>2, <1>4, <1>6, <1>7, <1>8, <1>10, <1>11, <1>12, AskMoves

-----------------------------------------------------------------------------
\* The initial states satisfy the invariant and the contract.
LEMMA InitHolds == Init => IInv /\ C!ContractInit
<1> SUFFICES ASSUME Init PROVE IInv /\ C!ContractInit
  OBVIOUS
<1>1. requests = <<>> /\ asks = <<>> /\ Ids = {} /\ AskIds = {} /\ Pending = {}
  BY DEF Init, ApprovalsInit, Ids, AskIds, Pending
<1>2. requests \in Seq(Request) /\ Len(requests) = 0 /\ asks \in Seq(Ask) /\ Len(asks) = 0
  BY <1>1, EmptySeq
<1>3. WireTypeOK
  <2>1. Len(requests) <= MaxRequests /\ Len(asks) <= MaxRequests
    BY <1>2, SourcesAssumption
  <2>2. life \in [Sources -> Life] /\ auto \subseteq Actions
    BY DEF Init, ApprovalsInit, Life
  <2>3. hub = [open |-> TRUE, asked |-> {}, answered |-> {}]
    BY DEF Init, ApprovalsInit
  <2>4. hub \in [open : BOOLEAN, asked : SUBSET (1 .. MaxRequests),
                answered : SUBSET (1 .. MaxRequests)]
        /\ hub.asked \cup hub.answered \subseteq Ids
    BY <2>3
  <2>5. ApprovalsTypeOK
    BY <1>2, <2>1, <2>2, <2>4 DEF ApprovalsTypeOK
  <2> QED BY <2>4, <2>5 DEF WireTypeOK, Init
<1>4. GrantCoversAll /\ Heard /\ RequestsEnd /\ AsksEnd
  BY <1>1 DEF GrantCoversAll, Heard, EveryPendingIsShown, RequestsEnd, AsksEnd,
              Init, ApprovalsInit
<1>5. OneTurn
  BY DEF OneTurn, Active, Init, ApprovalsInit, Sources, Foreground
<1>6. C!ContractInit
  <2>1. \A i \in Numbers : AskedFor[i] \in Actions
    BY <1>1, SourcesAssumption DEF AskedFor
  <2>2. AskedFor \in [Numbers -> Actions]
    BY <2>1 DEF AskedFor
  <2>3. Verdicts = [i \in Numbers |-> "none"] /\ WentAhead = {}
    BY <1>1 DEF Verdicts, Verdict, WentAhead
  <2>4. auto \subseteq Actions
    BY DEF Init, ApprovalsInit
  <2> QED BY <2>2, <2>3, <2>4 DEF C!ContractInit
<1> QED BY <1>3, <1>4, <1>5, <1>6 DEF IInv

\* Every step keeps the invariant, and is a step of the contract or changes nothing in it.
LEMMA StepKeeps == IInv /\ [Next]_vars => IInv' /\ [C!ContractNext]_(C!contractVars)
<1> SUFFICES ASSUME IInv, [Next]_vars
             PROVE  IInv' /\ [C!ContractNext]_(C!contractVars)
  OBVIOUS
<1>1. CASE Next
  <2>1. RequestStep
    BY <1>1, RequestSteps DEF IInv, WireTypeOK
  <2>2. [C!ContractNext]_(C!contractVars)
    BY <2>1, StepRefines DEF IInv
  <2>3. WireTypeOK' /\ GrantCoversAll' /\ Heard'
    BY <1>1, <2>1, TypeKept, GrantKept, HeardKept DEF IInv
  <2>4. OneTurn' /\ RequestsEnd' /\ AsksEnd'
    BY <1>1, OneTurnKept, RequestsEndKept, AsksEndKept DEF IInv
  <2> QED BY <2>2, <2>3, <2>4 DEF IInv
<1>2. CASE UNCHANGED vars
  <2> USE <1>2 DEF vars, approvalVars, serverVars, promptVars, askVars
  <2>1. Ids' = Ids /\ AskIds' = AskIds /\ Pending' = Pending
    BY DEF Ids, AskIds, Pending
  <2>2. WireTypeOK'
    BY <2>1 DEF IInv, WireTypeOK, ApprovalsTypeOK
  <2>3. GrantCoversAll' /\ Heard'
    BY <2>1 DEF IInv, GrantCoversAll, Heard, EveryPendingIsShown
  <2>4. OneTurn' /\ RequestsEnd' /\ AsksEnd'
    BY <2>1 DEF IInv, OneTurn, Active, RequestsEnd, AsksEnd, Asleep
  <2>5. RequestStep
    BY DEF RequestStep
  <2>6. [C!ContractNext]_(C!contractVars)
    BY <2>5, StepRefines DEF IInv
  <2> QED BY <2>2, <2>3, <2>4, <2>6 DEF IInv
<1> QED BY <1>1, <1>2

\* IInv holds in every state the approvals, the runs and the server reach.
THEOREM Invariance == Spec => []IInv
<1> QED BY InitHolds, StepKeeps, PTL DEF Spec

\* The types hold for any turns, subagents, agents, actions and bounds.
THEOREM WireTypeCorrect == Spec => []WireTypeOK
<1>1. IInv => WireTypeOK
  BY DEF IInv
<1> QED BY <1>1, Invariance, PTL

\* Whatever is asked, answered, cancelled and sent again, in any order: an
\* initialized client has every pending approval or has it on its way, and is
\* told of every one it no longer has to answer (_root_hub_loop(),
\* _handle_initialize() and _handle_response()).
THEOREM PendingIsShown == Spec => []EveryPendingIsShown
<1>1. IInv => EveryPendingIsShown
  BY DEF IInv, Heard
<1> QED BY <1>1, Invariance, PTL

\* A grant for the session leaves nothing that it covers waiting, in whatever
\* agent and in whatever order the answers and the tools run (Approval.request()).
THEOREM GrantCovers == Spec => []GrantCoversAll
<1>1. IInv => GrantCoversAll
  BY DEF IInv
<1> QED BY <1>1, Invariance, PTL

\* A prompt that has returned leaves no request and no ask of its turn open and
\* no tool or hook of it asleep (KimiSoul.run(), run_soul(), _handle_prompt()).
THEOREM NothingIsLeft == Spec => []PromptLeavesNothing
<1>1. IInv => PromptLeavesNothing
  <2> SUFFICES ASSUME IInv, soul \in {"idle", "replay"} PROVE PromptLeavesNothing
    BY DEF PromptLeavesNothing
  <2>1. \A t \in Turns : life[t] \in {"new", "ended"}
    BY DEF IInv, OneTurn, Active
  <2>2. \A i \in Ids : requests[i].source \in Turns =>
          requests[i].status # "pending" /\ ~Asleep(i)
    BY <2>1 DEF IInv, RequestsEnd
  <2>3. \A k \in AskIds : asks[k].owner \in Turns =>
          asks[k].caller = "gone" /\ asks[k].future = "done"
    BY <2>1 DEF IInv, AsksEnd
  <2> QED BY <2>2, <2>3 DEF PromptLeavesNothing
<1> QED BY <1>1, Invariance, PTL

\* The approvals, the runs that ask and the server implement the contract: a
\* request gets one verdict, a tool goes ahead once and only after a yes.
THEOREM ContractIsKept == Spec => ContractHolds
<1>1. Init => C!ContractInit
  BY InitHolds
<1>2. IInv /\ [Next]_vars => [C!ContractNext]_(C!contractVars)
  BY StepKeeps
<1> QED BY <1>1, <1>2, Invariance, PTL DEF Spec, ContractHolds, C!Contract
=============================================================================
