----------------------------- MODULE BridgeLink -----------------------------
(***************************************************************************)
(* The connection between the app and the bridge: SocketServer and         *)
(* SocketClient over the kernel's sockets.  The bridge is enabled and      *)
(* disabled, the app stops and starts, and either end may be late to learn *)
(* what the other did.                                                     *)
(***************************************************************************)
EXTENDS SocketServer

CONSTANTS Objects, NoObject, MaxLines,
          MaxEvents  \* bound: lines of the bridge, calls of disconnect_client and starts of the app

ASSUME LinkAssumption == NoConn \notin Conns /\ NoObject \notin Objects

VARIABLES current, used, stopping, conn, reconnect, connecting, lines

\* A descriptor can be used again when neither process holds it or waits on it.
Free(c) ==
  /\ c \notin clientOpen \cup serverOpen \cup reading
  /\ \A i \in DOMAIN backlog : backlog[i] # c
  /\ \A w \in writes : w.conn # c
  /\ \A k \in Objects : conn[k] # c

\* Which one the next connection gets does not matter.
freeConns ==
  IF \E c \in Conns : Free(c) THEN {CHOOSE c \in Conns : Free(c)} ELSE {}

Client == INSTANCE SocketClient

clientVars == <<current, used, stopping, conn, reconnect, connecting, lines>>
vars == <<serverVars, clientVars, kernelVars>>

Init ==
  /\ ServerInit
  /\ Client!ClientInit
  /\ clientOpen = {} /\ serverOpen = {}
  /\ up = [c \in Conns |-> <<>>]
  /\ down = [c \in Conns |-> <<>>]
  /\ backlog = <<>>

Next ==
  /\ \/ ServerNext /\ UNCHANGED clientVars
     \/ Client!ClientNext /\ UNCHANGED <<serverVars, serverOpen>>
  /\ (lines + drops + appRuns)' <= MaxEvents

\* Both main loops and the kernel go on with what is ready.
Fairness ==
  /\ WF_vars(OnIncoming /\ UNCHANGED clientVars)
  /\ \A c \in Conns :
       WF_vars((ReadLine(c) \/ ReadEnds(c) \/ ReadDiscarded(c)) /\ UNCHANGED clientVars)
  /\ WF_vars((\E w \in writes : WriteLands(w) \/ OnWriteDone(w)) /\ UNCHANGED clientVars)
  /\ \A k \in Objects : WF_vars(Client!ClientLoop(k) /\ UNCHANGED <<serverVars, serverOpen>>)

Spec == Init /\ [][Next]_vars
FairSpec == Spec /\ Fairness

-----------------------------------------------------------------------------
(* Properties *)

Write == [conn : Conns, line : Nat, result : {"flying", "ok", "error"}]

FlagTypes ==
  /\ listening \in BOOLEAN /\ writing \in BOOLEAN
  /\ stopping \in [Objects -> BOOLEAN]
  /\ reconnect \in [Objects -> BOOLEAN] /\ connecting \in [Objects -> BOOLEAN]

ServerTypes ==
  /\ connection \in Conns \cup {NoConn} /\ cancellable \in Conns \cup {NoConn}
  /\ cancelled \subseteq Conns /\ reading \subseteq Conns
  /\ sendQueue \in Seq(Nat)
  /\ writes \subseteq Write
  /\ announced \in Int /\ sends \in Nat /\ drops \in Nat /\ appRuns \in Nat

ClientTypes ==
  /\ current \in Objects \cup {NoObject} /\ used \subseteq Objects
  /\ conn \in [Objects -> Conns \cup {NoConn}]
  /\ lines \in Nat

KernelTypes ==
  /\ clientOpen \subseteq Conns /\ serverOpen \subseteq Conns
  /\ up \in [Conns -> Seq(Nat)] /\ down \in [Conns -> Seq(Nat)]
  /\ backlog \in Seq(Conns)

\* The ranges of the variables.
TypeOK == FlagTypes /\ ServerTypes /\ ClientTypes /\ KernelTypes

\* The signals the rest of the app follows: client-connected and client-disconnected
\* alternate, whatever callbacks of old connections still arrive, and the last one tells
\* whether there is a connection.
SignalsAlternate == announced = (IF connection = NoConn THEN 0 ELSE 1)

\* A queued line never waits for nothing: some write is under way whose callback will
\* look at the queue again.
QueueIsServed == sendQueue # <<>> => writing /\ writes # {}

\* Lines reach the bridge in the order they were sent.
SentInOrder ==
  \A c \in Conns : \A i \in 1..(Len(down[c]) - 1) : down[c][i] < down[c][i + 1]

\* The link heals: with the bridge enabled and the app running for good, the app's
\* current connection becomes and stays the one of the bridge's present client.
Heals ==
  \A k \in Objects :
    <>[](current = k /\ listening) => <>[](connection # NoConn /\ connection = conn[k])

=============================================================================
