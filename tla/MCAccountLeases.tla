---------------------------- MODULE MCAccountLeases ----------------------------
(***************************************************************************)
(* Two accounts and a dispatcher of each kind; two accounts and a pair of  *)
(* a worker and a direct dispatcher.                                       *)
(***************************************************************************)
EXTENDS AccountLeases

CONSTANTS a1, a2, direct, worker, other

MCAccount == {a1, a2}
MCDispatcher == {direct, worker, other}
MCPair == {worker, other}
MCWorker == {worker}
MCHcom == {other}
MCNoHcom == {}
=============================================================================
