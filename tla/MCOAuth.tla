------------------------------ MODULE MCOAuth ------------------------------
(***************************************************************************)
(* Model-checking instance of OAuth: a process in which a turn and a task  *)
(* without a client share a manager, and a second process.                 *)
(***************************************************************************)
EXTENDS OAuth, TLC

CONSTANTS turn, models, other, m1, m2, p1, p2

MCCalls == {turn, models, other}
MCManagers == {m1, m2}
MCProcesses == {p1, p2}
MCManagerOf == (turn :> m1) @@ (models :> m1) @@ (other :> m2)
MCProcessOf == (m1 :> p1) @@ (m2 :> p2)
MCWithClient == {turn, other}
=============================================================================
