---------------------------- MODULE MCSupervisor ----------------------------
(* Supervisor on a small instance: two different tunnels a client may ask  *)
(* for (the least that tells an idempotent start from a refused one), and  *)
(* both kinds of backend.                                                  *)
EXTENDS Supervisor

MCBackends == {"libwg", "fallible"}
=============================================================================
