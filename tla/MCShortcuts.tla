---------------------------- MODULE MCShortcuts ----------------------------
(* A small instance of Shortcuts: two global shortcuts, one of the app, one each of two tabs. *)
EXTENDS Shortcuts

CONSTANTS toggle, restart, quit, run, logs, k1, k2, k3

MCActions == {toggle, restart, quit, run, logs}
MCAccels == {k1, k2, k3}
MCKind == toggle :> "global" @@ restart :> "global" @@ quit :> "app" @@ run :> "tab" @@ logs :> "tab"
MCScope == toggle :> "global" @@ restart :> "global" @@ quit :> "general" @@ run :> "profiler"
           @@ logs :> "logs"
MCDefault == toggle :> {k1} @@ restart :> {k2} @@ quit :> {k1} @@ run :> {k2} @@ logs :> {k2}
=============================================================================
