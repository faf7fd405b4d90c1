----------------------------- MODULE MCLogView -----------------------------
(* A small instance of LogView: three tags, two severities, a window of two. *)
EXTENDS LogView

CONSTANTS t1, t2, t3

MCTags == {t1, t2, t3}
MCEntries ==
  {[bucket |-> "error", tag |-> t1, hit |-> TRUE],
   [bucket |-> "info", tag |-> t2, hit |-> TRUE],
   [bucket |-> "info", tag |-> t3, hit |-> FALSE]}
=============================================================================
