---------------------------- MODULE OAuthProofs ----------------------------
(***************************************************************************)
(* Theorems about OAuth, for any number of processes, managers, calls and  *)
(* tokens: a login is lost only by a lost answer or a logout, a tombstone  *)
(* is of a dead token, a client's key is dropped only by a call that found *)
(* nothing usable in the file, and a token is not sent again while its     *)
(* tombstone is young, in a process with one manager.                      *)
(***************************************************************************)
EXTENDS OAuth, TLAPS

(***************************************************************************)
(* The inductive invariant.                                                *)
(***************************************************************************)
\* Tokens are numbered as they are issued.
Known ==
  /\ \A t \in good : t <= issued
  /\ file <= issued
  /\ \A p \in Processes : rejected[p] <= issued
  /\ \A c \in Calls : used[c] <= issued /\ got[c] <= issued

\* A token that was rejected is dead, and stays so.
Dead ==
  /\ \A c \in Calls : pc[c] = "refused" => used[c] \notin good
  /\ RejectedIsDead

\* The token of an answer is known to its call alone until it is saved, so
\* that nobody else can have spent it.
Unshared ==
  \A c \in Calls : pc[c] = "answered" =>
    /\ got[c] \in good /\ got[c] # file
    /\ \A d \in Calls : used[d] # got[c]
    /\ \A d \in Calls \ {c} : pc[d] = "answered" => got[d] # got[c]

\* The lock of a manager has one holder.
OneInside ==
  \A c, d \in Calls :
    ManagerOf[c] = ManagerOf[d] /\ pc[c] \in Inside /\ pc[d] \in Inside => c = d

\* A call that has passed the test of the tombstone would still pass it.
Passed ==
  \A c \in Calls : pc[c] = "locking" /\ Alone(ManagerOf[c]) =>
    ~(Suppressed(Proc(c), used[c]) /\ ~cooled[Proc(c)])

\* A call that holds the lock when it drops the key does so after a 401: its
\* tombstone is young, and it returns.
Doomed == \A c \in Calls : pc[c] = "dropping" /\ xlock = c => ~cooled[Proc(c)]

IInv == OAuthTypeOK /\ Known /\ Dead /\ Unshared /\ OneInside /\ Passed /\ Doomed

-----------------------------------------------------------------------------

\* Every action keeps the types.
LEMMA TypeKept ==
  ASSUME OAuthTypeOK, Doomed, Next
  PROVE  OAuthTypeOK'
<1> USE CallsAssumption
    DEF OAuthTypeOK, TokenOrNone, Tokens, NoToken, Places, Inside,
        serverVars, memoryVars, callVars, At
<1>1. ASSUME NEW c \in Calls, Begin(c) PROVE OAuthTypeOK'
  <2>1. rejected' \in [Processes -> TokenOrNone] /\ cooled' \in [Processes -> BOOLEAN]
    BY <1>1 DEF Begin, Recheck, Unburied, Suppressed, Proc
  <2>2. cache' \in [Managers -> TokenOrNone] /\ key' \in [Managers -> TokenOrNone]
    BY <1>1 DEF Begin, Cache, Apply
  <2>3. pc' \in [Calls -> Places]
    BY <1>1 DEF Begin, Goto
  <2>4. used' \in [Calls -> TokenOrNone] /\ got' \in [Calls -> TokenOrNone]
    BY <1>1 DEF Begin, Goto
  <2>5. /\ xlock' \in Calls \cup {Nobody}
        /\ xlock' # Nobody => pc'[xlock'] \in {"asking", "answered", "refused", "dropping"}
    BY <1>1 DEF Begin, Goto
  <2> QED BY <1>1, <2>1, <2>2, <2>3, <2>4, <2>5 DEF Begin
<1>2. ASSUME NEW c \in Calls, Enter(c) PROVE OAuthTypeOK'
  <2>1. rejected' \in [Processes -> TokenOrNone] /\ cooled' \in [Processes -> BOOLEAN]
    BY <1>2 DEF Enter, Recheck, Unburied, Suppressed, Proc
  <2>2. cache' \in [Managers -> TokenOrNone] /\ key' \in [Managers -> TokenOrNone]
    BY <1>2 DEF Enter, Cache, Apply
  <2>3. pc' \in [Calls -> Places]
    BY <1>2 DEF Enter, Return, Release, Goto
  <2>4. used' \in [Calls -> TokenOrNone] /\ got' \in [Calls -> TokenOrNone]
    BY <1>2 DEF Enter, Return, Release, Goto
  <2>5. /\ xlock' \in Calls \cup {Nobody}
        /\ xlock' # Nobody => pc'[xlock'] \in {"asking", "answered", "refused", "dropping"}
    BY <1>2 DEF Enter, Return, Release, Goto
  <2> QED BY <1>2, <2>1, <2>2, <2>3, <2>4, <2>5 DEF Enter
<1>3. ASSUME NEW c \in Calls, Lock(c) PROVE OAuthTypeOK'
  <2>1. rejected' \in [Processes -> TokenOrNone] /\ cooled' \in [Processes -> BOOLEAN]
    BY <1>3 DEF Lock, Adopt, Unburied, Proc
  <2>2. cache' \in [Managers -> TokenOrNone] /\ key' \in [Managers -> TokenOrNone]
    BY <1>3 DEF Lock, Adopt, Cache, Apply
  <2>3. pc' \in [Calls -> Places]
    BY <1>3 DEF Lock, Adopt, Return, Release, Goto
  <2>4. used' \in [Calls -> TokenOrNone] /\ got' \in [Calls -> TokenOrNone]
    BY <1>3 DEF Lock, Adopt, Return, Release, Goto
  <2>5. /\ xlock' \in Calls \cup {Nobody}
        /\ xlock' # Nobody => pc'[xlock'] \in {"asking", "answered", "refused", "dropping"}
    BY <1>3 DEF Lock, Adopt, Return, Release, Goto
  <2> QED BY <1>3, <2>1, <2>2, <2>3, <2>4, <2>5 DEF Lock
<1>4. ASSUME NEW c \in Calls, GoWithoutLock(c) PROVE OAuthTypeOK'
  BY <1>4 DEF GoWithoutLock, Goto
<1>5. ASSUME NEW c \in Calls, Fail(c) PROVE OAuthTypeOK'
  BY <1>5 DEF Fail, Return, Release, Goto
<1>6. ASSUME NEW c \in Calls, Retry(c) PROVE OAuthTypeOK'
  BY <1>6 DEF Retry, Goto
<1>7. ASSUME NEW c \in Calls, Refused(c) PROVE OAuthTypeOK'
  <2>1. rejected' \in [Processes -> TokenOrNone] /\ cooled' \in [Processes -> BOOLEAN]
    BY <1>7 DEF Refused, Adopt, Unburied, Buried, Proc
  <2>2. cache' \in [Managers -> TokenOrNone] /\ key' \in [Managers -> TokenOrNone]
    BY <1>7 DEF Refused, Adopt, Cache, Apply
  <2>3. pc' \in [Calls -> Places]
    BY <1>7 DEF Refused, Adopt, Return, Release, Goto
  <2>4. used' \in [Calls -> TokenOrNone] /\ got' \in [Calls -> TokenOrNone]
    BY <1>7 DEF Refused, Adopt, Return, Release, Goto
  <2>5. /\ xlock' \in Calls \cup {Nobody}
        /\ xlock' # Nobody => pc'[xlock'] \in {"asking", "answered", "refused", "dropping"}
    BY <1>7 DEF Refused, Adopt, Return, Release, Goto
  <2> QED BY <1>7, <2>1, <2>2, <2>3, <2>4, <2>5 DEF Refused
<1>8. ASSUME NEW c \in Calls, Save(c) PROVE OAuthTypeOK'
  BY <1>8 DEF Save, Cache, Apply, Unburied, Return, Release, Goto, Proc
<1>9. ASSUME NEW c \in Calls, SaveFails(c) PROVE OAuthTypeOK'
  BY <1>9 DEF SaveFails, Unburied, Return, Release, Goto, Proc
<1>10. ASSUME NEW c \in Calls, Cancel(c) PROVE OAuthTypeOK'
  BY <1>10 DEF Cancel, Return, Release, Goto
<1>11. ASSUME NEW c \in Calls, Rotate(c) PROVE OAuthTypeOK'
  <2>1. issued + 1 \in Tokens
    BY <1>11 DEF Rotate
  <2>2. issued' \in Tokens /\ good' \subseteq Tokens
    BY <1>11, <2>1 DEF Rotate
  <2>3. pc' \in [Calls -> Places] /\ got' \in [Calls -> TokenOrNone]
    BY <1>11, <2>1 DEF Rotate, Goto
  <2>4. xlock' # Nobody => pc'[xlock'] \in {"asking", "answered", "refused", "dropping"}
    BY <1>11, <2>3 DEF Rotate, Goto
  <2> QED BY <1>11, <2>2, <2>3, <2>4 DEF Rotate
<1>12. ASSUME NEW c \in Calls, Reject(c) PROVE OAuthTypeOK'
  BY <1>12 DEF Reject, Goto
<1>13. ASSUME NEW m \in Managers, Resolve(m) PROVE OAuthTypeOK'
  <2>1. rejected' \in [Processes -> TokenOrNone] /\ cooled' \in [Processes -> BOOLEAN]
    <3>1. UNCHANGED <<rejected, cooled>> \/ Unburied(ProcessOf[m])
      BY <1>13 DEF Resolve, Recheck
    <3> QED BY <3>1 DEF Unburied
  <2>2. cache' \in [Managers -> TokenOrNone]
    BY <1>13 DEF Resolve
  <2>3. UNCHANGED <<serverVars, file, key, callVars, xlock>>
    BY <1>13 DEF Resolve
  <2> QED BY <2>1, <2>2, <2>3 DEF serverVars, callVars
<1>14. ASSUME NEW p \in Processes, Crash(p) PROVE OAuthTypeOK'
  <2>1. /\ pc' \in [Calls -> Places] /\ used' \in [Calls -> TokenOrNone]
        /\ got' \in [Calls -> TokenOrNone]
    BY <1>14 DEF Crash
  <2>2. /\ cache' \in [Managers -> TokenOrNone] /\ key' \in [Managers -> TokenOrNone]
        /\ xlock' \in Calls \cup {Nobody}
    BY <1>14 DEF Crash
  <2>3. xlock' # Nobody => pc'[xlock'] \in {"asking", "answered", "refused", "dropping"}
    BY <1>14 DEF Crash, Proc
  <2>4. rejected' \in [Processes -> TokenOrNone] /\ cooled' \in [Processes -> BOOLEAN]
    BY <1>14 DEF Crash, Unburied
  <2>5. UNCHANGED <<serverVars, file>>
    BY <1>14 DEF Crash
  <2> QED BY <2>1, <2>2, <2>3, <2>4, <2>5 DEF serverVars
<1>15. ASSUME NEW p \in Processes, CoolDown(p) PROVE OAuthTypeOK'
  BY <1>15 DEF CoolDown
<1>16. ASSUME NEW c \in Calls, Drop(c) PROVE OAuthTypeOK'
  <2>1. cache' \in [Managers -> TokenOrNone] /\ key' \in [Managers -> TokenOrNone]
    BY <1>16 DEF Drop, Cache, Apply
  <2>2. UNCHANGED <<serverVars, file, rejected, cooled>>
    BY <1>16 DEF Drop
  <2>3. CASE cooled[Proc(c)]
    <3>1. xlock # c /\ Goto(c, "queued") /\ UNCHANGED <<used, got, xlock>>
      BY <1>16, <2>3 DEF Drop, Doomed
    <3> QED BY <2>1, <2>2, <3>1 DEF Goto
  <2>4. CASE ~cooled[Proc(c)]
    <3>1. Return(c)
      BY <1>16, <2>4 DEF Drop
    <3> QED BY <2>1, <2>2, <3>1 DEF Return, Release, Goto
  <2> QED BY <2>3, <2>4
<1>17. CASE Login
  BY <1>17 DEF Login
<1>18. CASE Logout
  BY <1>18 DEF Logout
<1> QED BY <1>1, <1>2, <1>3, <1>4, <1>5, <1>6, <1>7, <1>8, <1>9,
          <1>10, <1>11, <1>12, <1>13, <1>14, <1>15, <1>16, <1>17, <1>18 DEF Next

\* A new token has a number above all others.
LEMMA KnownKept ==
  ASSUME OAuthTypeOK, Known, Next
  PROVE  Known'
<1> USE CallsAssumption
    DEF OAuthTypeOK, Known, TokenOrNone, Tokens, NoToken, Places,
        serverVars, memoryVars, callVars, At
<1>1. ASSUME NEW c \in Calls, Begin(c) PROVE Known'
  BY <1>1 DEF Begin, Cache, Apply, Goto, Recheck, Unburied, Suppressed, Proc
<1>2. ASSUME NEW c \in Calls, Enter(c) PROVE Known'
  BY <1>2 DEF Enter, Cache, Apply, Recheck, Unburied, Suppressed, Proc, Free,
          Return, Release, Goto
<1>3. ASSUME NEW c \in Calls, Lock(c) PROVE Known'
  BY <1>3 DEF Lock, Adopt, Cache, Apply, Unburied, Return, Release, Goto, Proc
<1>4. ASSUME NEW c \in Calls, GoWithoutLock(c) PROVE Known'
  BY <1>4 DEF GoWithoutLock, Goto
<1>5. ASSUME NEW c \in Calls, Fail(c) PROVE Known'
  BY <1>5 DEF Fail, Return, Release, Goto
<1>6. ASSUME NEW c \in Calls, Retry(c) PROVE Known'
  BY <1>6 DEF Retry, Goto
<1>7. ASSUME NEW c \in Calls, Refused(c) PROVE Known'
  BY <1>7 DEF Refused, Adopt, Buried, Cache, Apply, Unburied, Return, Release, Goto,
          Proc
<1>8. ASSUME NEW c \in Calls, Save(c) PROVE Known'
  BY <1>8 DEF Save, Cache, Apply, Unburied, Return, Release, Goto, Proc
<1>9. ASSUME NEW c \in Calls, SaveFails(c) PROVE Known'
  BY <1>9 DEF SaveFails, Unburied, Return, Release, Goto, Proc
<1>10. ASSUME NEW c \in Calls, Cancel(c) PROVE Known'
  BY <1>10 DEF Cancel, Return, Release, Goto
<1>11. ASSUME NEW c \in Calls, Rotate(c) PROVE Known'
  BY <1>11 DEF Rotate, Goto
<1>12. ASSUME NEW c \in Calls, Reject(c) PROVE Known'
  BY <1>12 DEF Reject, Goto
<1>13. ASSUME NEW m \in Managers, Resolve(m) PROVE Known'
  BY <1>13 DEF Resolve, Recheck, Unburied, Suppressed
<1>14. ASSUME NEW p \in Processes, Crash(p) PROVE Known'
  BY <1>14 DEF Crash, Unburied, Proc
<1>15. ASSUME NEW p \in Processes, CoolDown(p) PROVE Known'
  BY <1>15 DEF CoolDown
<1>16. ASSUME NEW c \in Calls, Drop(c) PROVE Known'
  BY <1>16 DEF Drop, Cache, Apply, Return, Release, Goto, Proc
<1>17. CASE Login
  BY <1>17 DEF Login
<1>18. CASE Logout
  BY <1>18 DEF Logout
<1> QED BY <1>1, <1>2, <1>3, <1>4, <1>5, <1>6, <1>7, <1>8, <1>9,
          <1>10, <1>11, <1>12, <1>13, <1>14, <1>15, <1>16, <1>17, <1>18 DEF Next

\* The server takes no token it has refused: new tokens have new numbers, and
\* a call gives a token up only when it was refused.
LEMMA DeadKept ==
  ASSUME OAuthTypeOK, Known, Dead, Next
  PROVE  Dead'
<1> USE CallsAssumption
    DEF OAuthTypeOK, Known, Dead, RejectedIsDead, TokenOrNone, Tokens, NoToken, Places,
        serverVars, memoryVars, callVars, At
<1>1. ASSUME NEW c \in Calls, Begin(c) PROVE Dead'
  BY <1>1 DEF Begin, Cache, Apply, Goto, Recheck, Unburied, Suppressed, Proc
<1>2. ASSUME NEW c \in Calls, Enter(c) PROVE Dead'
  BY <1>2 DEF Enter, Cache, Apply, Recheck, Unburied, Suppressed, Proc, Free,
          Return, Release, Goto
<1>3. ASSUME NEW c \in Calls, Lock(c) PROVE Dead'
  BY <1>3 DEF Lock, Adopt, Cache, Apply, Unburied, Return, Release, Goto, Proc
<1>4. ASSUME NEW c \in Calls, GoWithoutLock(c) PROVE Dead'
  BY <1>4 DEF GoWithoutLock, Goto
<1>5. ASSUME NEW c \in Calls, Fail(c) PROVE Dead'
  BY <1>5 DEF Fail, Return, Release, Goto
<1>6. ASSUME NEW c \in Calls, Retry(c) PROVE Dead'
  BY <1>6 DEF Retry, Goto
<1>7. ASSUME NEW c \in Calls, Refused(c) PROVE Dead'
  BY <1>7 DEF Refused, Adopt, Buried, Cache, Apply, Unburied, Return, Release, Goto,
          Proc
<1>8. ASSUME NEW c \in Calls, Save(c) PROVE Dead'
  BY <1>8 DEF Save, Cache, Apply, Unburied, Return, Release, Goto, Proc
<1>9. ASSUME NEW c \in Calls, SaveFails(c) PROVE Dead'
  BY <1>9 DEF SaveFails, Unburied, Return, Release, Goto, Proc
<1>10. ASSUME NEW c \in Calls, Cancel(c) PROVE Dead'
  BY <1>10 DEF Cancel, Return, Release, Goto
<1>11. ASSUME NEW c \in Calls, Rotate(c) PROVE Dead'
  BY <1>11 DEF Rotate, Goto
<1>12. ASSUME NEW c \in Calls, Reject(c) PROVE Dead'
  BY <1>12 DEF Reject, Goto
<1>13. ASSUME NEW m \in Managers, Resolve(m) PROVE Dead'
  BY <1>13 DEF Resolve, Recheck, Unburied, Suppressed
<1>14. ASSUME NEW p \in Processes, Crash(p) PROVE Dead'
  BY <1>14 DEF Crash, Unburied, Proc
<1>15. ASSUME NEW p \in Processes, CoolDown(p) PROVE Dead'
  BY <1>15 DEF CoolDown
<1>16. ASSUME NEW c \in Calls, Drop(c) PROVE Dead'
  BY <1>16 DEF Drop, Cache, Apply, Return, Release, Goto, Proc
<1>17. CASE Login
  BY <1>17 DEF Login
<1>18. CASE Logout
  BY <1>18 DEF Logout
<1> QED BY <1>1, <1>2, <1>3, <1>4, <1>5, <1>6, <1>7, <1>8, <1>9,
          <1>10, <1>11, <1>12, <1>13, <1>14, <1>15, <1>16, <1>17, <1>18 DEF Next

\* What an answer holds reaches the file, and so other calls, only with the
\* end of its call.
LEMMA UnsharedKept ==
  ASSUME OAuthTypeOK, Known, Unshared, Next
  PROVE  Unshared'
<1> USE CallsAssumption
    DEF OAuthTypeOK, Known, Unshared, TokenOrNone, Tokens, NoToken, Places,
        serverVars, memoryVars, callVars, At
<1>1. ASSUME NEW c \in Calls, Begin(c) PROVE Unshared'
  BY <1>1 DEF Begin, Cache, Apply, Goto, Recheck, Unburied, Suppressed, Proc
<1>2. ASSUME NEW c \in Calls, Enter(c) PROVE Unshared'
  BY <1>2 DEF Enter, Cache, Apply, Recheck, Unburied, Suppressed, Proc, Free,
          Return, Release, Goto
<1>3. ASSUME NEW c \in Calls, Lock(c) PROVE Unshared'
  BY <1>3 DEF Lock, Adopt, Cache, Apply, Unburied, Return, Release, Goto, Proc
<1>4. ASSUME NEW c \in Calls, GoWithoutLock(c) PROVE Unshared'
  BY <1>4 DEF GoWithoutLock, Goto
<1>5. ASSUME NEW c \in Calls, Fail(c) PROVE Unshared'
  BY <1>5 DEF Fail, Return, Release, Goto
<1>6. ASSUME NEW c \in Calls, Retry(c) PROVE Unshared'
  BY <1>6 DEF Retry, Goto
<1>7. ASSUME NEW c \in Calls, Refused(c) PROVE Unshared'
  BY <1>7 DEF Refused, Adopt, Buried, Cache, Apply, Unburied, Return, Release, Goto,
          Proc
<1>8. ASSUME NEW c \in Calls, Save(c) PROVE Unshared'
  BY <1>8 DEF Save, Cache, Apply, Unburied, Return, Release, Goto, Proc
<1>9. ASSUME NEW c \in Calls, SaveFails(c) PROVE Unshared'
  BY <1>9 DEF SaveFails, Unburied, Return, Release, Goto, Proc
<1>10. ASSUME NEW c \in Calls, Cancel(c) PROVE Unshared'
  BY <1>10 DEF Cancel, Return, Release, Goto
<1>11. ASSUME NEW c \in Calls, Rotate(c) PROVE Unshared'
  BY <1>11 DEF Rotate, Goto
<1>12. ASSUME NEW c \in Calls, Reject(c) PROVE Unshared'
  BY <1>12 DEF Reject, Goto
<1>13. ASSUME NEW m \in Managers, Resolve(m) PROVE Unshared'
  BY <1>13 DEF Resolve, Recheck, Unburied, Suppressed
<1>14. ASSUME NEW p \in Processes, Crash(p) PROVE Unshared'
  BY <1>14 DEF Crash, Unburied, Proc
<1>15. ASSUME NEW p \in Processes, CoolDown(p) PROVE Unshared'
  BY <1>15 DEF CoolDown
<1>16. ASSUME NEW c \in Calls, Drop(c) PROVE Unshared'
  BY <1>16 DEF Drop, Cache, Apply, Return, Release, Goto, Proc
<1>17. CASE Login
  BY <1>17 DEF Login
<1>18. CASE Logout
  BY <1>18 DEF Logout
<1> QED BY <1>1, <1>2, <1>3, <1>4, <1>5, <1>6, <1>7, <1>8, <1>9,
          <1>10, <1>11, <1>12, <1>13, <1>14, <1>15, <1>16, <1>17, <1>18 DEF Next

\* A call enters only when no call of its manager is inside.
LEMMA OneInsideKept ==
  ASSUME OAuthTypeOK, OneInside, Next
  PROVE  OneInside'
<1> USE CallsAssumption
    DEF OAuthTypeOK, OneInside, Inside, Places,
        serverVars, memoryVars, callVars, At
<1>1. ASSUME NEW c \in Calls, Begin(c) PROVE OneInside'
  BY <1>1 DEF Begin, Cache, Apply, Goto, Recheck, Unburied, Suppressed, Proc
<1>2. ASSUME NEW c \in Calls, Enter(c) PROVE OneInside'
  BY <1>2 DEF Enter, Cache, Apply, Recheck, Unburied, Suppressed, Proc, Free,
          Return, Release, Goto
<1>3. ASSUME NEW c \in Calls, Lock(c) PROVE OneInside'
  BY <1>3 DEF Lock, Adopt, Cache, Apply, Unburied, Return, Release, Goto, Proc
<1>4. ASSUME NEW c \in Calls, GoWithoutLock(c) PROVE OneInside'
  BY <1>4 DEF GoWithoutLock, Goto
<1>5. ASSUME NEW c \in Calls, Fail(c) PROVE OneInside'
  BY <1>5 DEF Fail, Return, Release, Goto
<1>6. ASSUME NEW c \in Calls, Retry(c) PROVE OneInside'
  BY <1>6 DEF Retry, Goto
<1>7. ASSUME NEW c \in Calls, Refused(c) PROVE OneInside'
  BY <1>7 DEF Refused, Adopt, Buried, Cache, Apply, Unburied, Return, Release, Goto,
          Proc
<1>8. ASSUME NEW c \in Calls, Save(c) PROVE OneInside'
  BY <1>8 DEF Save, Cache, Apply, Unburied, Return, Release, Goto, Proc
<1>9. ASSUME NEW c \in Calls, SaveFails(c) PROVE OneInside'
  BY <1>9 DEF SaveFails, Unburied, Return, Release, Goto, Proc
<1>10. ASSUME NEW c \in Calls, Cancel(c) PROVE OneInside'
  BY <1>10 DEF Cancel, Return, Release, Goto
<1>11. ASSUME NEW c \in Calls, Rotate(c) PROVE OneInside'
  BY <1>11 DEF Rotate, Goto
<1>12. ASSUME NEW c \in Calls, Reject(c) PROVE OneInside'
  BY <1>12 DEF Reject, Goto
<1>13. ASSUME NEW m \in Managers, Resolve(m) PROVE OneInside'
  BY <1>13 DEF Resolve, Recheck, Unburied, Suppressed
<1>14. ASSUME NEW p \in Processes, Crash(p) PROVE OneInside'
  BY <1>14 DEF Crash, Unburied, Proc
<1>15. ASSUME NEW p \in Processes, CoolDown(p) PROVE OneInside'
  BY <1>15 DEF CoolDown
<1>16. ASSUME NEW c \in Calls, Drop(c) PROVE OneInside'
  BY <1>16 DEF Drop, Cache, Apply, Return, Release, Goto, Proc
<1>17. CASE Login
  BY <1>17 DEF Login
<1>18. CASE Logout
  BY <1>18 DEF Logout
<1> QED BY <1>1, <1>2, <1>3, <1>4, <1>5, <1>6, <1>7, <1>8, <1>9,
          <1>10, <1>11, <1>12, <1>13, <1>14, <1>15, <1>16, <1>17, <1>18 DEF Next

\* In a process with one manager only the call inside buries a token.
LEMMA PassedKept ==
  ASSUME OAuthTypeOK, OneInside, Passed, Next
  PROVE  Passed'
<1> USE CallsAssumption
    DEF OAuthTypeOK, OneInside, Passed, Inside, Places, Alone,
        Proc, Suppressed, TokenOrNone, Tokens, NoToken,
        serverVars, memoryVars, callVars, At
<1>1. ASSUME NEW c \in Calls, Begin(c) PROVE Passed'
  BY <1>1 DEF Begin, Cache, Apply, Goto, Recheck, Unburied, Suppressed, Proc
<1>2. ASSUME NEW c \in Calls, Enter(c) PROVE Passed'
  BY <1>2 DEF Enter, Cache, Apply, Recheck, Unburied, Suppressed, Proc, Free,
          Return, Release, Goto
<1>3. ASSUME NEW c \in Calls, Lock(c) PROVE Passed'
  BY <1>3 DEF Lock, Adopt, Cache, Apply, Unburied, Return, Release, Goto, Proc
<1>4. ASSUME NEW c \in Calls, GoWithoutLock(c) PROVE Passed'
  BY <1>4 DEF GoWithoutLock, Goto
<1>5. ASSUME NEW c \in Calls, Fail(c) PROVE Passed'
  BY <1>5 DEF Fail, Return, Release, Goto
<1>6. ASSUME NEW c \in Calls, Retry(c) PROVE Passed'
  BY <1>6 DEF Retry, Goto
<1>7. ASSUME NEW c \in Calls, Refused(c) PROVE Passed'
  BY <1>7 DEF Refused, Adopt, Buried, Cache, Apply, Unburied, Return, Release, Goto,
          Proc
<1>8. ASSUME NEW c \in Calls, Save(c) PROVE Passed'
  BY <1>8 DEF Save, Cache, Apply, Unburied, Return, Release, Goto, Proc
<1>9. ASSUME NEW c \in Calls, SaveFails(c) PROVE Passed'
  BY <1>9 DEF SaveFails, Unburied, Return, Release, Goto, Proc
<1>10. ASSUME NEW c \in Calls, Cancel(c) PROVE Passed'
  BY <1>10 DEF Cancel, Return, Release, Goto
<1>11. ASSUME NEW c \in Calls, Rotate(c) PROVE Passed'
  BY <1>11 DEF Rotate, Goto
<1>12. ASSUME NEW c \in Calls, Reject(c) PROVE Passed'
  BY <1>12 DEF Reject, Goto
<1>13. ASSUME NEW m \in Managers, Resolve(m) PROVE Passed'
  BY <1>13 DEF Resolve, Recheck, Unburied, Suppressed
<1>14. ASSUME NEW p \in Processes, Crash(p) PROVE Passed'
  BY <1>14 DEF Crash, Unburied, Proc
<1>15. ASSUME NEW p \in Processes, CoolDown(p) PROVE Passed'
  BY <1>15 DEF CoolDown
<1>16. ASSUME NEW c \in Calls, Drop(c) PROVE Passed'
  BY <1>16 DEF Drop, Cache, Apply, Return, Release, Goto, Proc
<1>17. CASE Login
  BY <1>17 DEF Login
<1>18. CASE Logout
  BY <1>18 DEF Logout
<1> QED BY <1>1, <1>2, <1>3, <1>4, <1>5, <1>6, <1>7, <1>8, <1>9,
          <1>10, <1>11, <1>12, <1>13, <1>14, <1>15, <1>16, <1>17, <1>18 DEF Next

\* While a call drops its key nothing else happens in its process, so that the
\* tombstone it has left stays young.
LEMMA DoomedKept ==
  ASSUME OAuthTypeOK, Doomed, Next
  PROVE  Doomed'
<1> USE CallsAssumption
    DEF OAuthTypeOK, Doomed, Places, Proc, serverVars, memoryVars, callVars, At
<1>1. ASSUME NEW d \in Calls, Begin(d) PROVE Doomed'
  BY <1>1 DEF Begin, Goto, Recheck, Unburied
<1>2. ASSUME NEW d \in Calls, Enter(d) PROVE Doomed'
  BY <1>2 DEF Enter, Return, Release, Goto, Recheck, Unburied
<1>3. ASSUME NEW d \in Calls, Lock(d) PROVE Doomed'
  BY <1>3 DEF Lock, Adopt, Unburied, Return, Release, Goto
<1>4. ASSUME NEW d \in Calls, GoWithoutLock(d) PROVE Doomed'
  BY <1>4 DEF GoWithoutLock, Goto
<1>5. ASSUME NEW d \in Calls, Fail(d) PROVE Doomed'
  BY <1>5 DEF Fail, Return, Release, Goto
<1>6. ASSUME NEW d \in Calls, Retry(d) PROVE Doomed'
  BY <1>6 DEF Retry, Goto
<1>7. ASSUME NEW d \in Calls, Refused(d) PROVE Doomed'
  BY <1>7 DEF Refused, Adopt, Unburied, Buried, Return, Release, Goto
<1>8. ASSUME NEW d \in Calls, Save(d) PROVE Doomed'
  BY <1>8 DEF Save, Unburied, Return, Release, Goto
<1>9. ASSUME NEW d \in Calls, SaveFails(d) PROVE Doomed'
  BY <1>9 DEF SaveFails, Unburied, Return, Release, Goto
<1>10. ASSUME NEW d \in Calls, Cancel(d) PROVE Doomed'
  BY <1>10 DEF Cancel, Return, Release, Goto
<1>11. ASSUME NEW d \in Calls, Rotate(d) PROVE Doomed'
  BY <1>11 DEF Rotate, Goto
<1>12. ASSUME NEW d \in Calls, Reject(d) PROVE Doomed'
  BY <1>12 DEF Reject, Goto
<1>13. ASSUME NEW m \in Managers, Resolve(m) PROVE Doomed'
  BY <1>13 DEF Resolve, Recheck, Unburied
<1>14. ASSUME NEW p \in Processes, Crash(p) PROVE Doomed'
  BY <1>14 DEF Crash, Unburied
<1>15. ASSUME NEW p \in Processes, CoolDown(p) PROVE Doomed'
  BY <1>15 DEF CoolDown, LoopFree
<1>16. ASSUME NEW d \in Calls, Drop(d) PROVE Doomed'
  BY <1>16 DEF Drop, Return, Release, Goto
<1>17. CASE Login \/ Logout
  BY <1>17 DEF Login, Logout
<1> QED BY <1>1, <1>2, <1>3, <1>4, <1>5, <1>6, <1>7, <1>8, <1>9,
          <1>10, <1>11, <1>12, <1>13, <1>14, <1>15, <1>16, <1>17 DEF Next

-----------------------------------------------------------------------------
\* The invariant holds before the first call, ...
LEMMA InitHolds == Init => IInv
BY CallsAssumption
   DEF Init, IInv, OAuthTypeOK, Known, Dead, RejectedIsDead, Unshared, OneInside,
       Passed, Doomed, Suppressed, Tokens, TokenOrNone, NoToken, Places, Inside

\* ... every step keeps it, ...
LEMMA StepKeeps == IInv /\ [Next]_vars => IInv'
<1> SUFFICES ASSUME IInv, [Next]_vars PROVE IInv'
  OBVIOUS
<1>1. CASE Next
  BY <1>1, TypeKept, KnownKept, DeadKept, UnsharedKept, OneInsideKept, PassedKept,
     DoomedKept DEF IInv
<1>2. CASE UNCHANGED vars
  BY <1>2
     DEF IInv, OAuthTypeOK, Known, Dead, RejectedIsDead, Unshared, OneInside,
         Passed, Doomed, Suppressed, Proc, vars, serverVars, memoryVars, callVars, At
<1> QED BY <1>1, <1>2

\* ... so it holds in every state of every run of the processes and the server.
THEOREM Invariance == Spec => []IInv
<1> QED BY InitHolds, StepKeeps, PTL DEF Spec

\* Every reachable state is well typed, and the holder of the lock between
\* processes is a call that needs it (_CrossProcessLock, released in a finally).
THEOREM OAuthTypeCorrect == Spec => []OAuthTypeOK
<1>1. IInv => OAuthTypeOK
  BY DEF IInv
<1> QED BY <1>1, Invariance, PTL

\* A tombstone is only ever of a token that the server does not take
\* (_mark_refresh_token_rejected()).
THEOREM RejectedAreDead == Spec => []RejectedIsDead
<1>1. IInv => RejectedIsDead
  BY DEF IInv, Dead
<1> QED BY <1>1, Invariance, PTL

-----------------------------------------------------------------------------
\* What is usable stays usable through every action but those that lose it.
LEMMA UsableKept ==
  ASSUME IInv, Usable, [Next]_vars, ~LosesAnswer, ~Logout
  PROVE  Usable'
<1> USE DEF IInv, OAuthTypeOK, Unshared, Places, Tokens, Usable, serverVars, callVars,
            memoryVars, At
<1>1. ASSUME NEW c \in Calls, Begin(c) PROVE Usable'
  BY <1>1 DEF Begin, Goto
<1>2. ASSUME NEW c \in Calls, Enter(c) PROVE Usable'
  BY <1>2 DEF Enter, Return, Goto
<1>3. ASSUME NEW c \in Calls, Lock(c) PROVE Usable'
  BY <1>3 DEF Lock, Adopt, Return, Goto
<1>4. ASSUME NEW c \in Calls, GoWithoutLock(c) PROVE Usable'
  BY <1>4 DEF GoWithoutLock, Goto
<1>5. ASSUME NEW c \in Calls, Fail(c) PROVE Usable'
  BY <1>5 DEF Fail, Return, Goto
<1>6. ASSUME NEW c \in Calls, Refused(c) PROVE Usable'
  BY <1>6 DEF Refused, Adopt, Return, Goto
<1>7. ASSUME NEW c \in Calls, Reject(c) PROVE Usable'
  BY <1>7 DEF Reject, Goto
<1>8. ASSUME NEW c \in Calls, Save(c) PROVE Usable'
  BY <1>8 DEF Save
<1>9. ASSUME NEW c \in Calls, Rotate(c) PROVE Usable'
  BY <1>9 DEF Rotate, Goto
<1>10. ASSUME NEW m \in Managers, Resolve(m) PROVE Usable'
  BY <1>10 DEF Resolve
<1>11. ASSUME NEW p \in Processes, CoolDown(p) PROVE Usable'
  BY <1>11 DEF CoolDown
<1>12. CASE Login
  BY <1>12 DEF Login
<1>13. ASSUME NEW c \in Calls, Drop(c) PROVE Usable'
  BY <1>13 DEF Drop, Return, Goto
<1>14. CASE UNCHANGED vars
  BY <1>14 DEF vars
<1> QED BY <1>1, <1>2, <1>3, <1>4, <1>5, <1>6, <1>7, <1>8, <1>9, <1>10, <1>11, <1>12, <1>13,
          <1>14 DEF Next, LosesAnswer

\* From a state where a token the server takes is on disk or in an answer about to
\* be saved, only a lost answer or a logout leads to one without: any number of
\* processes may refresh at once, with or without the lock, and give up their keys
\* (_refresh_tokens()).
THEOREM LoginSurvives == Spec => TokenSurvives
<1>1. IInv /\ [Next]_vars => [Usable /\ ~Usable' => LosesAnswer \/ Logout]_vars
  BY UsableKept
<1> QED BY <1>1, Invariance, PTL DEF Spec, TokenSurvives

\* A call that decides to drop the key has just read the file: what is in it was
\* refused, to this call or to the one that left the tombstone.
LEMMA DecidedOnDead ==
  ASSUME IInv, Next, NEW c \in Calls, pc[c] # "dropping", pc'[c] = "dropping"
  PROVE  file \notin good
<1> USE CallsAssumption
    DEF IInv, OAuthTypeOK, Dead, RejectedIsDead, Tokens, TokenOrNone, NoToken, Places,
        serverVars, callVars, memoryVars, At
<1>1. ASSUME NEW d \in Calls, Begin(d) PROVE file \notin good
  BY <1>1 DEF Begin, Goto, Suppressed, Proc
<1>2. ASSUME NEW d \in Calls, Enter(d) PROVE file \notin good
  BY <1>2 DEF Enter, Return, Goto, Suppressed, Proc
<1>3. ASSUME NEW d \in Calls, Lock(d) PROVE file \notin good
  BY <1>3 DEF Lock, Adopt, Return, Goto
<1>4. ASSUME NEW d \in Calls, GoWithoutLock(d) PROVE file \notin good
  BY <1>4 DEF GoWithoutLock, Goto
<1>5. ASSUME NEW d \in Calls, Fail(d) PROVE file \notin good
  BY <1>5 DEF Fail, Return, Goto
<1>6. ASSUME NEW d \in Calls, Retry(d) PROVE file \notin good
  BY <1>6 DEF Retry, Goto
<1>7. ASSUME NEW d \in Calls, Refused(d) PROVE file \notin good
  BY <1>7 DEF Refused, Adopt, Return, Goto
<1>8. ASSUME NEW d \in Calls, Save(d) PROVE file \notin good
  BY <1>8 DEF Save, Return, Goto
<1>9. ASSUME NEW d \in Calls, SaveFails(d) PROVE file \notin good
  BY <1>9 DEF SaveFails, Return, Goto
<1>10. ASSUME NEW d \in Calls, Cancel(d) PROVE file \notin good
  BY <1>10 DEF Cancel, Return, Goto
<1>11. ASSUME NEW d \in Calls, Rotate(d) PROVE file \notin good
  BY <1>11 DEF Rotate, Goto
<1>12. ASSUME NEW d \in Calls, Reject(d) PROVE file \notin good
  BY <1>12 DEF Reject, Goto
<1>13. ASSUME NEW m \in Managers, Resolve(m) PROVE file \notin good
  BY <1>13 DEF Resolve
<1>14. ASSUME NEW p \in Processes, Crash(p) PROVE file \notin good
  BY <1>14 DEF Crash
<1>15. ASSUME NEW p \in Processes, CoolDown(p) PROVE file \notin good
  BY <1>15 DEF CoolDown
<1>16. ASSUME NEW d \in Calls, Drop(d) PROVE file \notin good
  BY <1>16 DEF Drop, Return, Goto
<1>17. CASE Login \/ Logout
  BY <1>17 DEF Login, Logout
<1> QED BY <1>1, <1>2, <1>3, <1>4, <1>5, <1>6, <1>7, <1>8, <1>9,
          <1>10, <1>11, <1>12, <1>13, <1>14, <1>15, <1>16, <1>17 DEF Next

\* A client loses its key by such a call, or when it starts without a file.
Dropped(m) == \E c \in WithClient : ManagerOf[c] = m /\ pc[c] = "dropping"

LEMMA KeyKept ==
  ASSUME IInv, Next, NEW m \in Managers, key[m] # NoToken, key'[m] = NoToken
  PROVE  file \notin good \/ Dropped(m)
<1> USE CallsAssumption
    DEF IInv, OAuthTypeOK, Known, Unshared, Tokens, TokenOrNone, NoToken, Places,
        serverVars, callVars, memoryVars, At, Dropped
<1>1. ASSUME NEW d \in Calls, Begin(d) PROVE file \notin good \/ Dropped(m)
  BY <1>1 DEF Begin, Cache, Apply
<1>2. ASSUME NEW d \in Calls, Enter(d) PROVE file \notin good \/ Dropped(m)
  BY <1>2 DEF Enter
<1>3. ASSUME NEW d \in Calls, Lock(d) PROVE file \notin good \/ Dropped(m)
  BY <1>3 DEF Lock, Adopt, Cache, Apply
<1>4. ASSUME NEW d \in Calls, GoWithoutLock(d) PROVE file \notin good \/ Dropped(m)
  BY <1>4 DEF GoWithoutLock
<1>5. ASSUME NEW d \in Calls, Fail(d) PROVE file \notin good \/ Dropped(m)
  BY <1>5 DEF Fail
<1>6. ASSUME NEW d \in Calls, Retry(d) PROVE file \notin good \/ Dropped(m)
  BY <1>6 DEF Retry
<1>7. ASSUME NEW d \in Calls, Refused(d) PROVE file \notin good \/ Dropped(m)
  BY <1>7 DEF Refused, Adopt, Cache, Apply
<1>8. ASSUME NEW d \in Calls, Save(d) PROVE file \notin good \/ Dropped(m)
  BY <1>8 DEF Save, Cache, Apply
<1>9. ASSUME NEW d \in Calls, SaveFails(d) PROVE file \notin good \/ Dropped(m)
  BY <1>9 DEF SaveFails
<1>10. ASSUME NEW d \in Calls, Cancel(d) PROVE file \notin good \/ Dropped(m)
  BY <1>10 DEF Cancel
<1>11. ASSUME NEW d \in Calls, Rotate(d) PROVE file \notin good \/ Dropped(m)
  BY <1>11 DEF Rotate
<1>12. ASSUME NEW d \in Calls, Reject(d) PROVE file \notin good \/ Dropped(m)
  BY <1>12 DEF Reject
<1>13. ASSUME NEW k \in Managers, Resolve(k) PROVE file \notin good \/ Dropped(m)
  BY <1>13 DEF Resolve
<1>14. ASSUME NEW p \in Processes, Crash(p) PROVE file \notin good \/ Dropped(m)
  BY <1>14 DEF Crash
<1>15. ASSUME NEW p \in Processes, CoolDown(p) PROVE file \notin good \/ Dropped(m)
  BY <1>15 DEF CoolDown
<1>16. ASSUME NEW d \in Calls, Drop(d) PROVE file \notin good \/ Dropped(m)
  BY <1>16 DEF Drop, Cache, Apply
<1>17. CASE Login \/ Logout
  BY <1>17 DEF Login, Logout
<1> QED BY <1>1, <1>2, <1>3, <1>4, <1>5, <1>6, <1>7, <1>8, <1>9,
          <1>10, <1>11, <1>12, <1>13, <1>14, <1>15, <1>16, <1>17 DEF Next

\* A call drops a client's key only if the file, when the call read it last, held
\* nothing the server takes (ensure_fresh(), _refresh_tokens()): what another
\* process writes between that read and the drop is not seen.
THEOREM KeysDropOnlyWhenDead == Spec => KeyDroppedOnlyWhenDead
<1>1. ASSUME IInv, [Next]_vars
      PROVE  [/\ \A c \in Calls :
                   pc[c] # "dropping" /\ pc'[c] = "dropping" => file \notin good
              /\ \A m \in Managers : key[m] # NoToken /\ key'[m] = NoToken =>
                   \/ file \notin good
                   \/ \E c \in WithClient : ManagerOf[c] = m /\ pc[c] = "dropping"]_vars
  BY <1>1, DecidedOnDead, KeyKept DEF Dropped
<1> QED BY <1>1, Invariance, PTL DEF Spec, KeyDroppedOnlyWhenDead

\* Only a call that passed the test goes to the server.
LEMMA AskedPassed ==
  ASSUME IInv, Next, NEW c \in Calls, pc[c] # "asking", pc'[c] = "asking",
         Alone(ManagerOf[c]), pc[c] # "answered"
  PROVE  ~(Suppressed(Proc(c), used[c]) /\ ~cooled[Proc(c)])
<1>1. pc[c] = "locking"
  <2> USE DEF IInv, OAuthTypeOK, serverVars, callVars, memoryVars, At
  <2>1. ASSUME NEW d \in Calls, Begin(d) PROVE pc[c] = "locking"
    BY <2>1 DEF Begin, Goto
  <2>2. ASSUME NEW d \in Calls, Enter(d) PROVE pc[c] = "locking"
    BY <2>2 DEF Enter, Return, Goto
  <2>3. ASSUME NEW d \in Calls, Lock(d) PROVE pc[c] = "locking"
    BY <2>3 DEF Lock, Adopt, Return, Goto
  <2>4. ASSUME NEW d \in Calls, GoWithoutLock(d) PROVE pc[c] = "locking"
    BY <2>4 DEF GoWithoutLock, Goto
  <2>5. ASSUME NEW d \in Calls, Fail(d) PROVE pc[c] = "locking"
    BY <2>5 DEF Fail, Return, Goto
  <2>6. ASSUME NEW d \in Calls, Retry(d) PROVE pc[c] = "locking"
    BY <2>6 DEF Retry, Goto
  <2>7. ASSUME NEW d \in Calls, Refused(d) PROVE pc[c] = "locking"
    BY <2>7 DEF Refused, Adopt, Return, Goto
  <2>8. ASSUME NEW d \in Calls, Save(d) PROVE pc[c] = "locking"
    BY <2>8 DEF Save, Return, Goto
  <2>9. ASSUME NEW d \in Calls, SaveFails(d) PROVE pc[c] = "locking"
    BY <2>9 DEF SaveFails, Return, Goto
  <2>10. ASSUME NEW d \in Calls, Cancel(d) PROVE pc[c] = "locking"
    BY <2>10 DEF Cancel, Return, Goto
  <2>11. ASSUME NEW d \in Calls, Rotate(d) PROVE pc[c] = "locking"
    BY <2>11 DEF Rotate, Goto
  <2>12. ASSUME NEW d \in Calls, Reject(d) PROVE pc[c] = "locking"
    BY <2>12 DEF Reject, Goto
  <2>13. ASSUME NEW m \in Managers, Resolve(m) PROVE pc[c] = "locking"
    BY <2>13 DEF Resolve
  <2>14. ASSUME NEW p \in Processes, Crash(p) PROVE pc[c] = "locking"
    BY <2>14 DEF Crash
  <2>15. ASSUME NEW p \in Processes, CoolDown(p) PROVE pc[c] = "locking"
    BY <2>15 DEF CoolDown
  <2>16. CASE Login \/ Logout
    BY <2>16 DEF Login, Logout
  <2>17. ASSUME NEW d \in Calls, Drop(d) PROVE pc[c] = "locking"
    BY <2>17 DEF Drop, Return, Goto
  <2> QED BY <2>1, <2>2, <2>3, <2>4, <2>5, <2>6, <2>7, <2>8, <2>9,
            <2>10, <2>11, <2>12, <2>13, <2>14, <2>15, <2>16, <2>17 DEF Next
<1> QED BY <1>1 DEF IInv, Passed

\* In a process with one manager a token is not sent again while its tombstone
\* is young, whatever call waited for the lock (the test under the lock).
THEOREM RejectedNotRetried == Spec => RejectedIsNotRetried
<1>1. ASSUME IInv, [Next]_vars
      PROVE  [\A c \in Calls :
                pc[c] # "asking" /\ pc'[c] = "asking" /\ Alone(ManagerOf[c])
                /\ pc[c] # "answered"
                  => ~(Suppressed(Proc(c), used[c]) /\ ~cooled[Proc(c)])]_vars
  BY <1>1, AskedPassed
<1> QED BY <1>1, Invariance, PTL DEF Spec, RejectedIsNotRetried
=============================================================================
