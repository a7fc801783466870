----------------------------- MODULE MCShutdown -----------------------------
(* Instance for TLC: one of the three pollers, which are stopped alike and one  *)
(* after the other.                                                            *)
EXTENDS Shutdown

MCPollers == <<"scc">>
=============================================================================
