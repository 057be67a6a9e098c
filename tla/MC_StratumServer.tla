-------------------------- MODULE MC_StratumServer --------------------------
(* Instantiates StratumServer for TLC: three connections competing for two *)
(* admission slots and two session ids, so that an id is recycled and      *)
(* reissued while its first owner is still being removed, and two          *)
(* templates installed up to three times, so that a template replaces      *)
(* another while a session reads it.                                       *)
EXTENDS StratumServer, TLC

MCMaxConn == 2
MCMaxSessions == 2
MCMaxInstalls == 3

(* Connections run the same code, and so do templates: both are symmetric. *)
(* Used for the safety runs only.                                          *)
MCSymmetry == Permutations(Conns) \cup Permutations(Templates)
=============================================================================
