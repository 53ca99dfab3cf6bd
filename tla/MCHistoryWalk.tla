--------------------------- MODULE MCHistoryWalk ---------------------------
(***************************************************************************)
(* A small instance of HistoryWalk for TLC: two sessions, the first of     *)
(* which may come from an earlier portal, followed a session at a time.    *)
(***************************************************************************)
EXTENDS HistoryWalk

MCSessionIds == {1, 2}
MCRestored == {1}
=============================================================================
