---------------------------- MODULE MCWatchlist ----------------------------
(* Small instances of Watchlist for TLC. *)
EXTENDS Watchlist

CONSTANTS m, s
=============================================================================
