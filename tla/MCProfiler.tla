----------------------------- MODULE MCProfiler -----------------------------
(***************************************************************************)
(* An instance of Profiler for TLC: one holder with a method of its own    *)
(* that hides an inherited one, and one method that is only inherited.     *)
(***************************************************************************)
EXTENDS Profiler, TLC

CONSTANTS m1, m2, fn1, fn2

MCSlots == {m1, m2}
MCFuncs == {fn1, fn2}

MCInit ==
  /\ Init
  /\ own = (m1 :> fn1 @@ m2 :> NoValue)
  /\ proto = (m1 :> fn2 @@ m2 :> fn2)
  /\ locked = {}

MCSpec == MCInit /\ [][Next]_vars /\ Fairness
=============================================================================
