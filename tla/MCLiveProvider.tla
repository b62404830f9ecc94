---------------------------- MODULE MCLiveProvider ----------------------------
(* The default of two retries, the fewest that show the pauses doubling,    *)
(* over the calls of two turns.                                             *)
EXTENDS LiveProvider
=============================================================================
