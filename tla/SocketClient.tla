---------------------------- MODULE SocketClient ----------------------------
(***************************************************************************)
(* The bridge's end of the Unix socket (bridge-extension/socket_client.js, *)
(* class SocketClient).  Every enable() of the bridge extension makes a    *)
(* new client object and disable() drops it (extension.js), but the        *)
(* callbacks of a dropped object still run.                                *)
(***************************************************************************)
EXTENDS Naturals, Sequences

CONSTANTS Objects,   \* SocketClient objects
          NoObject,
          Conns, NoConn,
          MaxLines   \* bound: lines the bridge sends besides the hello

VARIABLES
  current,     \* extension.js _socketClient
  used,        \* objects made so far
  stopping,
  conn,        \* #connection; #connected holds exactly while there is one
  reconnect,   \* the reconnect timer is armed
  connecting,  \* connect_async has not called back
  lines,       \* history: lines sent
  \* the app and the kernel, shared with SocketServer
  listening, clientOpen, serverOpen, up, down, backlog,
  freeConns    \* connections nobody refers to

\* enable(): a new client starts connecting.
Enable(k) ==
  /\ current = NoObject /\ k \notin used
  /\ current' = k
  /\ used' = used \cup {k}
  /\ connecting' = [connecting EXCEPT ![k] = TRUE]
  /\ UNCHANGED <<stopping, conn, reconnect, lines,
                 clientOpen, up, down, backlog>>

\* disable(): disconnect() cancels the timer and the read and closes the connection,
\* but a connect_async under way has no cancellable.
Disable ==
  /\ current # NoObject
  /\ current' = NoObject
  /\ stopping' = [stopping EXCEPT ![current] = TRUE]
  /\ reconnect' = [reconnect EXCEPT ![current] = FALSE]
  /\ conn' = [conn EXCEPT ![current] = NoConn]
  /\ clientOpen' = clientOpen \ {conn[current]}
  /\ UNCHANGED <<used, connecting, lines, up, down, backlog>>

\* #onConnected says hello first.  The app's listening socket takes the connection.
OnConnected(k, c) ==
  /\ connecting[k] /\ listening
  /\ c \in freeConns
  /\ connecting' = [connecting EXCEPT ![k] = FALSE]
  /\ conn' = [conn EXCEPT ![k] = c]
  /\ clientOpen' = clientOpen \cup {c}
  /\ up' = [up EXCEPT ![c] = <<0>>]
  /\ down' = [down EXCEPT ![c] = <<>>]
  /\ backlog' = Append(backlog, c)
  /\ UNCHANGED <<current, used, stopping, reconnect, lines>>

\* Nobody listens: tried again after RECONNECT_DELAY_MS.
ConnectFails(k) ==
  /\ connecting[k] /\ ~listening
  /\ connecting' = [connecting EXCEPT ![k] = FALSE]
  /\ reconnect' = [reconnect EXCEPT ![k] = ~stopping[k]]
  /\ UNCHANGED <<current, used, stopping, conn, lines,
                 clientOpen, up, down, backlog>>

ReconnectTimer(k) ==
  /\ reconnect[k]
  /\ reconnect' = [reconnect EXCEPT ![k] = FALSE]
  /\ connecting' = [connecting EXCEPT ![k] = TRUE]
  /\ UNCHANGED <<current, used, stopping, conn, lines,
                 clientOpen, up, down, backlog>>

\* #readNextLine with a line.
ClientReads(k) ==
  /\ conn[k] # NoConn
  /\ down[conn[k]] # <<>>
  /\ down' = [down EXCEPT ![conn[k]] = Tail(@)]
  /\ UNCHANGED <<current, used, stopping, conn, reconnect, connecting, lines,
                 clientOpen, up, backlog>>

\* Variant: does not try again.
OnDisconnectedForGood(k) ==
  /\ conn[k] # NoConn
  /\ down[conn[k]] = <<>> /\ conn[k] \notin serverOpen \cup {backlog[i] : i \in DOMAIN backlog}
  /\ conn' = [conn EXCEPT ![k] = NoConn]
  /\ clientOpen' = clientOpen \ {conn[k]}
  /\ UNCHANGED <<current, used, stopping, reconnect, connecting, lines, up, down, backlog>>

\* #onDisconnected, at the end of the stream: tries again unless told to stop.
OnDisconnected(k) ==
  /\ conn[k] # NoConn
  /\ down[conn[k]] = <<>> /\ conn[k] \notin serverOpen \cup {backlog[i] : i \in DOMAIN backlog}
  /\ conn' = [conn EXCEPT ![k] = NoConn]
  /\ clientOpen' = clientOpen \ {conn[k]}
  /\ reconnect' = [reconnect EXCEPT ![k] = ~stopping[k]]
  /\ UNCHANGED <<current, used, stopping, connecting, lines, up, down, backlog>>

\* The bridge sends through its present client only.
BridgeSends ==
  /\ current # NoObject
  /\ conn[current] # NoConn
  /\ lines < MaxLines
  /\ lines' = lines + 1
  /\ up' = [up EXCEPT ![conn[current]] = Append(@, lines + 1)]
  /\ UNCHANGED <<current, used, stopping, conn, reconnect, connecting,
                 clientOpen, down, backlog>>

ClientInit ==
  /\ current = NoObject
  /\ used = {}
  /\ stopping = [k \in Objects |-> FALSE]
  /\ conn = [k \in Objects |-> NoConn]
  /\ reconnect = [k \in Objects |-> FALSE]
  /\ connecting = [k \in Objects |-> FALSE]
  /\ lines = 0

ClientLoop(k) ==
  \/ \E c \in Conns : OnConnected(k, c)
  \/ ConnectFails(k) \/ ReconnectTimer(k) \/ ClientReads(k) \/ OnDisconnected(k)

ClientNext ==
  \/ BridgeSends \/ Disable
  \/ \E k \in Objects : Enable(k) \/ ClientLoop(k)
=============================================================================
