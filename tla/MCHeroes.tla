------------------------------ MODULE MCHeroes ------------------------------
(***************************************************************************)
(* One kill for TLC, up to two deliveries of it, and a run of connect().   *)
(***************************************************************************)
EXTENDS Heroes

CONSTANTS k1, r1

OneKill == {k1}
OneRun == {r1}
=============================================================================
