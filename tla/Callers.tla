------------------------------ MODULE Callers -------------------------------
(***************************************************************************)
(* Whoever calls the components around the sandbox and the gateways:       *)
(* threads of the server, tasks of its event loop, or workers.             *)
(***************************************************************************)
CONSTANT Threads    \* two callers of whatever component it is
=============================================================================
