---------------------------- MODULE MCSwitchLock ----------------------------
(* The kernel locks as they are model-checked: contexts h and m take turns  *)
(* at the same priority, l runs below them.  h kills l on behalf of its own *)
(* task, m, another thread of that task, with h's thread lock held.         *)
EXTENDS SwitchLock, TLC

CONSTANTS h, m, l, idle, p

MCPrio  == (h :> 2) @@ (m :> 2) @@ (l :> 1) @@ (idle :> 0)
MCKills == {<<h, h, l>>, <<m, h, l>>}
=============================================================================
