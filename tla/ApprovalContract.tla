-------------------------- MODULE ApprovalContract --------------------------
(***************************************************************************)
(* What the approvals promise to a tool and to the user, with no queue, no *)
(* future and no connection: a request is open until it gets one verdict,  *)
(* a tool proceeds only after a yes, and a grant for the session says yes  *)
(* to everything open that asks for the same action.                       *)
(***************************************************************************)
CONSTANTS Ids, Actions

VARIABLES
  action,   \* what each request asks for
  verdict,  \* "none" before the request exists, "open", then "yes" or "no"
  granted,  \* actions allowed for the session
  ran       \* requests whose tool went ahead

contractVars == <<action, verdict, granted, ran>>

ContractInit ==
  /\ action \in [Ids -> Actions]
  /\ verdict = [i \in Ids |-> "none"]
  /\ granted \subseteq Actions
  /\ ran = {}

Open == {i \in Ids : verdict[i] = "open"}

Ask(i) ==
  /\ verdict[i] = "none"
  /\ \E a \in Actions \ granted : action' = [action EXCEPT ![i] = a]
  /\ verdict' = [verdict EXCEPT ![i] = "open"]
  /\ UNCHANGED <<granted, ran>>

Decide(S, v) ==
  /\ S \subseteq Open
  /\ verdict' = [i \in Ids |-> IF i \in S THEN v ELSE verdict[i]]
  /\ UNCHANGED <<action, granted, ran>>

Proceed(i) ==
  /\ verdict[i] = "yes" /\ i \notin ran
  /\ ran' = ran \cup {i}
  /\ UNCHANGED <<action, verdict, granted>>

ProceedForSession(i) ==
  /\ verdict[i] = "yes" /\ i \notin ran
  /\ ran' = ran \cup {i}
  /\ granted' = granted \cup {action[i]}
  /\ verdict' = [j \in Ids |-> IF j \in Open /\ action[j] = action[i]
                               THEN "yes" ELSE verdict[j]]
  /\ UNCHANGED action

ContractNext ==
  \/ \E i \in Ids : Ask(i) \/ Proceed(i) \/ ProceedForSession(i)
  \/ \E S \in SUBSET Ids, v \in {"yes", "no"} : Decide(S, v)

Contract == ContractInit /\ [][ContractNext]_contractVars
=============================================================================
