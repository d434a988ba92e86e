------------------------------- MODULE OAuth -------------------------------
(***************************************************************************)
(* The OAuth tokens: auth/oauth.py.                                        *)
(*                                                                         *)
(* Managers in several processes share one credentials file.  A call of    *)
(* ensure_fresh() loads the file, and refreshes when the token is due:     *)
(* under the lock of its manager, and under a lock between processes that  *)
(* it does without when it cannot get it.  The server takes each refresh   *)
(* token once and answers with the next.  Tokens are numbered in the order *)
(* the server issues them; NoToken is a missing file and an empty cache.   *)
(*                                                                         *)
(* The calls of a process share one event loop, those of different         *)
(* processes run in parallel.  The file is replaced in one step, and what  *)
(* a call does after it read the file concerns its own process only: an    *)
(* action is what a call does between two awaits, and stands where the     *)
(* file is read.  Giving up the key is a second action, for another        *)
(* process may have written a new token since: until it is taken the other *)
(* calls of the process wait.                                              *)
(***************************************************************************)
EXTENDS Naturals

CONSTANTS
  Calls,        \* the places that call ensure_fresh(), one call at a time each
  Managers,     \* OAuthManager instances
  Processes,
  ManagerOf,    \* of each call
  ProcessOf,    \* of each manager
  WithClient,   \* the calls that are given the runtime of an LLM client
  Nobody,       \* holds a lock that is free
  \* bound of the model
  MaxTokens     \* tokens issued

ASSUME CallsAssumption ==
  /\ ManagerOf \in [Calls -> Managers]
  /\ ProcessOf \in [Managers -> Processes]
  /\ WithClient \subseteq Calls /\ Nobody \notin Calls
  /\ MaxTokens \in Nat \ {0}

NoToken == 0

VARIABLES
  good,      \* refresh tokens the server would take
  issued,    \* the newest token
  file,      \* the token in the credentials file
  rejected,  \* of each process: _REJECTED_REFRESH_TOKENS
  cooled,    \* of each process: the tombstone's retry_after has passed
  cache,     \* of each manager: _access_tokens
  key,       \* of each manager: the client's api_key; NoToken is the fallback
  pc,        \* of each call: where it waits
  used,      \* of each call: refresh_token_value
  got,       \* of each call: the token in the server's answer
  xlock      \* the holder of the lock between processes

serverVars == <<good, issued>>
memoryVars == <<rejected, cooled, cache, key>>
callVars == <<pc, used, got>>
vars == <<serverVars, file, memoryVars, callVars, xlock>>

Tokens == 1 .. MaxTokens
TokenOrNone == Tokens \cup {NoToken}

\* Where a call waits: for its manager's lock, for the other lock, for the
\* server, with the answer before it, or for a second after a rejection; or it
\* has the event loop, about to drop the key.
Places == {"idle", "queued", "locking", "asking", "answered", "refused", "dropping"}
Inside == {"locking", "asking", "answered", "refused"}

OAuthTypeOK ==
  /\ good \subseteq Tokens /\ issued \in Tokens /\ file \in TokenOrNone
  /\ rejected \in [Processes -> TokenOrNone] /\ cooled \in [Processes -> BOOLEAN]
  /\ cache \in [Managers -> TokenOrNone] /\ key \in [Managers -> TokenOrNone]
  /\ pc \in [Calls -> Places]
  /\ used \in [Calls -> TokenOrNone] /\ got \in [Calls -> TokenOrNone]
  /\ xlock \in Calls \cup {Nobody}
  /\ xlock # Nobody => pc[xlock] \in {"asking", "answered", "refused", "dropping"}

Init ==
  /\ good = {1} /\ issued = 1 /\ file = 1
  /\ rejected = [p \in Processes |-> NoToken]
  /\ cooled = [p \in Processes |-> FALSE]
  /\ cache = [m \in Managers |-> 1] /\ key = [m \in Managers |-> 1]
  /\ pc = [c \in Calls |-> "idle"]
  /\ used = [c \in Calls |-> NoToken] /\ got = [c \in Calls |-> NoToken]
  /\ xlock = Nobody

-----------------------------------------------------------------------------
Proc(c) == ProcessOf[ManagerOf[c]]

\* The event loop of p runs nothing: it is between two awaits.
LoopFree(p) == \A c \in Calls : Proc(c) = p => pc[c] # "dropping"

At(c, place) == pc[c] = place /\ LoopFree(Proc(c))

Cache(c, token) == cache' = [cache EXCEPT ![ManagerOf[c]] = token]

\* _apply_access_token(): nothing without a runtime.
Apply(c, token) ==
  key' = IF c \in WithClient THEN [key EXCEPT ![ManagerOf[c]] = token] ELSE key

Goto(c, place) == pc' = [pc EXCEPT ![c] = place]

\* Faulty: the tombstone of one token hides every token.
SuppressedByKey(p, token) == rejected[p] # NoToken

\* _rejected_refresh_state(): a tombstone for another token is dropped.
Suppressed(p, token) == rejected[p] # NoToken /\ rejected[p] = token

Unburied(p) ==
  /\ rejected' = [rejected EXCEPT ![p] = NoToken]
  /\ cooled' = [cooled EXCEPT ![p] = FALSE]

Recheck(p, token) ==
  IF Suppressed(p, token) THEN UNCHANGED <<rejected, cooled>> ELSE Unburied(p)

Buried(p, token) ==
  /\ rejected' = [rejected EXCEPT ![p] = token]
  /\ cooled' = [cooled EXCEPT ![p] = FALSE]

\* The locks are released and the call returns or raises.
Release(c) == xlock' = IF xlock = c THEN Nobody ELSE xlock

Return(c) ==
  /\ Goto(c, "idle") /\ Release(c)
  /\ used' = [used EXCEPT ![c] = NoToken]
  /\ got' = [got EXCEPT ![c] = NoToken]

\* The token of the file, from somebody else, is taken over.
Adopt(c) ==
  /\ Unburied(Proc(c))
  /\ Cache(c, file) /\ Apply(c, file)
  /\ Return(c)

\* Faulty: the credentials file is deleted with the key.
DropFile(c) ==
  /\ pc[c] = "dropping"
  /\ Cache(c, NoToken) /\ Apply(c, NoToken)
  /\ file' = NoToken
  /\ IF cooled[Proc(c)] THEN Goto(c, "queued") /\ UNCHANGED <<used, got, xlock>>
                        ELSE Return(c)
  /\ UNCHANGED <<serverVars, rejected, cooled>>

\* The manager is left without a token.  A call that finds a tombstone whose
\* time has passed goes on (ensure_fresh()), any other returns or raises.
Drop(c) ==
  /\ pc[c] = "dropping"
  /\ Cache(c, NoToken) /\ Apply(c, NoToken)
  /\ IF cooled[Proc(c)] THEN Goto(c, "queued") /\ UNCHANGED <<used, got, xlock>>
                        ELSE Return(c)
  /\ UNCHANGED <<serverVars, file, rejected, cooled>>

-----------------------------------------------------------------------------
(***************************************************************************)
(* ensure_fresh().                                                         *)
(***************************************************************************)
\* Up to the lock of the manager.
Begin(c) ==
  /\ At(c, "idle") /\ file # NoToken
  /\ used' = [used EXCEPT ![c] = file]
  /\ Recheck(Proc(c), file)
  /\ IF Suppressed(Proc(c), file)
     THEN Goto(c, "dropping") /\ UNCHANGED <<cache, key>>
     ELSE Goto(c, "queued") /\ Cache(c, file) /\ Apply(c, file)
  /\ UNCHANGED <<serverVars, file, got, xlock>>

Free(m) == \A c \in Calls : ManagerOf[c] = m => pc[c] \notin Inside

\* Faulty: a token that was just rejected is asked for again.
EnterAnyway(c) ==
  LET current == IF file # NoToken THEN file ELSE used[c]
      cached == IF file # NoToken /\ ~Suppressed(Proc(c), file)
                THEN [cache EXCEPT ![ManagerOf[c]] = file] ELSE cache
  IN
  /\ At(c, "queued") /\ Free(ManagerOf[c])
  /\ cache' = cached /\ UNCHANGED key
  /\ \/ Return(c)
     \/ /\ Goto(c, "locking")
        /\ used' = [used EXCEPT ![c] = current]
        /\ UNCHANGED <<got, xlock>>
  /\ Recheck(Proc(c), current)
  /\ UNCHANGED <<serverVars, file>>

\* Under the lock of the manager.  The call goes on if it is forced or the
\* token is due; if not, the token is cached and not applied to the client.
Enter(c) ==
  LET current == IF file # NoToken THEN file ELSE used[c]
      barred == Suppressed(Proc(c), current) /\ ~cooled[Proc(c)]
      cached == IF file # NoToken /\ ~Suppressed(Proc(c), file)
                THEN [cache EXCEPT ![ManagerOf[c]] = file] ELSE cache
  IN
  /\ At(c, "queued") /\ Free(ManagerOf[c])
  /\ \/ cache' = cached /\ UNCHANGED key /\ Return(c)
     \/ /\ cache' = cached
        /\ Goto(c, IF barred THEN "dropping" ELSE "locking")
        /\ used' = [used EXCEPT ![c] = current]
        /\ UNCHANGED <<key, got, xlock>>
  /\ Recheck(Proc(c), current)
  /\ UNCHANGED <<serverVars, file>>

\* The lock between processes: somebody may have refreshed meanwhile.
Lock(c) ==
  /\ At(c, "locking") /\ xlock = Nobody
  /\ IF file \notin {NoToken, used[c]}
     THEN Adopt(c)
     ELSE /\ xlock' = c
          /\ Goto(c, "asking")
          /\ UNCHANGED <<memoryVars, used, got>>
  /\ UNCHANGED <<serverVars, file>>

\* Faulty: the lock is waited for as long as it takes.
WaitForLock(c) == At(c, "locking") /\ UNCHANGED vars

\* The lock is held by another, or its file cannot be opened.
GoWithoutLock(c) ==
  /\ At(c, "locking")
  /\ Goto(c, "asking")
  /\ UNCHANGED <<serverVars, file, memoryVars, used, got, xlock>>

\* refresh_token() raises: retries are used up, or an error of another kind.
Fail(c) ==
  /\ At(c, "asking")
  /\ Return(c)
  /\ UNCHANGED <<serverVars, file, memoryVars>>

\* The answer breaks off and the request is sent again.
Retry(c) ==
  /\ At(c, "answered")
  /\ Goto(c, "asking")
  /\ got' = [got EXCEPT ![c] = NoToken]
  /\ UNCHANGED <<serverVars, file, memoryVars, used, xlock>>

\* Faulty: the token is given up at once.
RefusedAtOnce(c) ==
  /\ At(c, "refused")
  /\ Buried(Proc(c), used[c]) /\ Goto(c, "dropping")
  /\ UNCHANGED <<serverVars, file, cache, key, used, got, xlock>>

\* Faulty: whatever token the file holds by now is given up.
RefusedLatest(c) ==
  /\ At(c, "refused")
  /\ Buried(Proc(c), file) /\ Goto(c, "dropping")
  /\ UNCHANGED <<serverVars, file, cache, key, used, got, xlock>>

\* A second after a 401, the file is read again.
Refused(c) ==
  /\ At(c, "refused")
  /\ IF file \notin {NoToken, used[c]}
     THEN Adopt(c)
     ELSE /\ Buried(Proc(c), used[c]) /\ Goto(c, "dropping")
          /\ UNCHANGED <<cache, key, used, got, xlock>>
  /\ UNCHANGED <<serverVars, file>>

Save(c) ==
  /\ At(c, "answered")
  /\ Unburied(Proc(c))
  /\ file' = got[c]
  /\ Cache(c, got[c]) /\ Apply(c, got[c])
  /\ Return(c)
  /\ UNCHANGED serverVars

\* _save_to_file() raises; the tombstone is cleared before.
SaveFails(c) ==
  /\ At(c, "answered")
  /\ Unburied(Proc(c))
  /\ Return(c)
  /\ UNCHANGED <<serverVars, file, cache, key>>

\* Faulty: the lock between processes is kept.
CancelKeepsLock(c) ==
  /\ pc[c] # "idle" /\ LoopFree(Proc(c))
  /\ Goto(c, "idle")
  /\ used' = [used EXCEPT ![c] = NoToken]
  /\ got' = [got EXCEPT ![c] = NoToken]
  /\ UNCHANGED <<serverVars, file, memoryVars, xlock>>

\* The task of the call is cancelled: with its turn, or with the refresher.
Cancel(c) ==
  /\ pc[c] # "idle" /\ LoopFree(Proc(c))
  /\ Return(c)
  /\ UNCHANGED <<serverVars, file, memoryVars>>

-----------------------------------------------------------------------------
\* resolve_api_key(): a cache that is empty is filled from the file.
Resolve(m) ==
  /\ cache[m] = NoToken /\ file # NoToken /\ LoopFree(ProcessOf[m])
  /\ Recheck(ProcessOf[m], file)
  /\ cache' = IF Suppressed(ProcessOf[m], file) THEN cache
              ELSE [cache EXCEPT ![m] = file]
  /\ UNCHANGED <<serverVars, file, key, callVars, xlock>>

\* A process ends and is started again: _load_initial_tokens().
Crash(p) ==
  LET dead == {c \in Calls : Proc(c) = p}
      Fresh(f) == [m \in Managers |-> IF ProcessOf[m] = p THEN file ELSE f[m]]
      Clear(f, v) == [c \in Calls |-> IF c \in dead THEN v ELSE f[c]]
  IN
  /\ pc' = Clear(pc, "idle")
  /\ used' = Clear(used, NoToken) /\ got' = Clear(got, NoToken)
  /\ xlock' = IF xlock \in dead THEN Nobody ELSE xlock
  /\ cache' = Fresh(cache) /\ key' = Fresh(key)
  /\ Unburied(p)
  /\ UNCHANGED <<serverVars, file>>

\* login_kimi_code() of a process of its own: it writes with or without the
\* lock.
Login ==
  /\ issued < MaxTokens
  /\ issued' = issued + 1
  /\ good' = good \cup {issued + 1}
  /\ file' = issued + 1
  /\ UNCHANGED <<memoryVars, callVars, xlock>>

\* logout_kimi_code(): the server is not told.
Logout ==
  /\ file # NoToken
  /\ file' = NoToken
  /\ UNCHANGED <<serverVars, memoryVars, callVars, xlock>>

\* retry_after passes.
CoolDown(p) ==
  /\ rejected[p] # NoToken /\ ~cooled[p] /\ LoopFree(p)
  /\ cooled' = [cooled EXCEPT ![p] = TRUE]
  /\ UNCHANGED <<serverVars, file, rejected, cache, key, callVars, xlock>>

(***************************************************************************)
(* The server, which is not in the repository: a refresh token is taken    *)
(* once.                                                                   *)
(***************************************************************************)
Rotate(c) ==
  /\ pc[c] = "asking" /\ used[c] \in good /\ issued < MaxTokens
  /\ issued' = issued + 1
  /\ good' = (good \ {used[c]}) \cup {issued + 1}
  /\ got' = [got EXCEPT ![c] = issued + 1]
  /\ Goto(c, "answered")
  /\ UNCHANGED <<file, memoryVars, used, xlock>>

Reject(c) ==
  /\ pc[c] = "asking" /\ used[c] \notin good
  /\ Goto(c, "refused")
  /\ UNCHANGED <<serverVars, file, memoryVars, used, got, xlock>>

Next ==
  \/ \E c \in Calls : Begin(c) \/ Enter(c) \/ Lock(c) \/ GoWithoutLock(c)
  \/ \E c \in Calls : Fail(c) \/ Retry(c) \/ Refused(c) \/ Drop(c)
  \/ \E c \in Calls : Save(c) \/ SaveFails(c)
  \/ \E c \in Calls : Cancel(c) \/ Rotate(c) \/ Reject(c)
  \/ \E m \in Managers : Resolve(m)
  \/ \E p \in Processes : Crash(p) \/ CoolDown(p)
  \/ Login \/ Logout

Spec == Init /\ [][Next]_vars
-----------------------------------------------------------------------------
\* Every call goes on and every request is answered; turns keep coming.  The
\* lock of a manager wakes those who wait in order, and an event loop runs what
\* is ready in order, so a call does not starve behind those it shares them with.
GoOn(c) ==
  \/ Begin(c) \/ Enter(c)
  \/ Lock(c) \/ GoWithoutLock(c)
  \/ Rotate(c) \/ Reject(c) \/ Fail(c)
  \/ Refused(c) \/ Drop(c) \/ Save(c)

Shared == {c \in Calls : \E d \in Calls \ {c} : Proc(d) = Proc(c)}

Fairness ==
  /\ \A c \in Shared : SF_vars(GoOn(c))
  /\ \A c \in Calls \ Shared : WF_vars(GoOn(c))

FairSpec == Spec /\ Fairness

(***************************************************************************)
(* Properties.                                                             *)
(***************************************************************************)
\* A refresh token that the server takes is in the file, or comes with an
\* answer that is about to be saved.
Usable ==
  \/ file \in good
  \/ \E c \in Calls : pc[c] = "answered" /\ got[c] \in good

\* The answer is not saved: the request is sent again, the save fails, the
\* call is cancelled or its process ends.
LosesAnswer ==
  \/ \E c \in Calls : Retry(c) \/ SaveFails(c) \/ Cancel(c)
  \/ \E p \in Processes : Crash(p)

\* From a state where a token the server takes is on disk or in an answer about
\* to be saved, only a lost answer or a logout leads to one without: not
\* processes that refresh the same token, not one that goes on without the lock,
\* not a login in between, and not one that gives up its key while another
\* writes the file (_refresh_tokens() against itself, oauth.py:1041-1052).  A
\* newer login may be overwritten by the answer of an older refresh, whose token
\* the server takes too.
TokenSurvives ==
  [][Usable /\ ~Usable' => LosesAnswer \/ Logout]_vars

\* A tombstone is only ever of a token that the server does not take
\* (_mark_refresh_token_rejected(), after the file was read again).
RejectedIsDead == \A p \in Processes : rejected[p] \notin good

\* A call decides to drop the key only when the file, as it read it last, holds
\* nothing the server takes; and no client loses its key to a good file but by a
\* call that decided so.  The token another process saves between the decision
\* and the drop is missed (the window oauth.py:1041-1048 names): KeyRecovers
\* says that the key comes back.
KeyDroppedOnlyWhenDead ==
  [][/\ \A c \in Calls :
          pc[c] # "dropping" /\ pc'[c] = "dropping" => file \notin good
     /\ \A m \in Managers : key[m] # NoToken /\ key'[m] = NoToken =>
          \/ file \notin good
          \/ \E c \in WithClient : ManagerOf[c] = m /\ pc[c] = "dropping"]_vars

\* While its tombstone is young (retry_after has not passed) a token is not sent
\* again, by whatever call was waiting for the lock, in a process with one
\* manager: the calls of another manager have passed the test already.
Alone(m) == \A n \in Managers : ProcessOf[n] = ProcessOf[m] => n = m

RejectedIsNotRetried ==
  [][\A c \in Calls :
       pc[c] # "asking" /\ pc'[c] = "asking" /\ Alone(ManagerOf[c]) /\ pc[c] # "answered"
         => ~(Suppressed(Proc(c), used[c]) /\ ~cooled[Proc(c)])]_vars

\* When the file holds a good token for good, after a login or a refresh in
\* any process, every client comes to use it and keeps it.
KeyRecovers ==
  \A c \in WithClient :
    <>[](file \in good) => <>[](key[ManagerOf[c]] = file)

\* No call of ensure_fresh() waits for ever, whoever holds the locks.
CallsReturn == \A c \in Calls : []<>(pc[c] = "idle")
=============================================================================
