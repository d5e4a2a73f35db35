----------------------------- MODULE MCRoaming ------------------------------
(* Three sockets at most, so that both rules of prune_sockets apply.        *)
EXTENDS Roaming
=============================================================================
