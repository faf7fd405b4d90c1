---------------------------- MODULE SocketServer ----------------------------
(***************************************************************************)
(* The app's end of the Unix socket (app/core/socket_server.py, class      *)
(* SocketServer): one current connection, an asynchronous read on it, and  *)
(* a send queue with at most one write meant to be under way.  Callbacks   *)
(* of an abandoned connection still arrive after it was replaced.          *)
(*                                                                         *)
(* The sockets themselves (clientOpen, serverOpen, up, down, backlog)      *)
(* belong to the kernel and are shared with module SocketClient; module    *)
(* BridgeLink puts the two together.                                       *)
(***************************************************************************)
EXTENDS Integers, Sequences

CONSTANTS Conns, NoConn,
          MaxSends,     \* bound: lines the app sends
          MaxDrops,     \* bound: calls of disconnect_client
          MaxAppRuns    \* bound: starts of the app

VARIABLES
  listening,
  connection,   \* _connection, whose streams are _output and _istream
  cancellable,  \* the connection the current Gio.Cancellable was made for
  cancelled,    \* connections whose Cancellable was cancelled
  reading,      \* connections with an outstanding read_line_async
  sendQueue,
  writing,      \* _writing
  writes,       \* write_bytes_async calls whose callback has not run
  \* kernel
  clientOpen, serverOpen, up, down, backlog,
  \* history
  announced,    \* client-connected signals minus client-disconnected signals
  sends, drops, appRuns

serverVars == <<listening, connection, cancellable, cancelled, reading, sendQueue, writing, writes,
                announced, sends, drops, appRuns>>
kernelVars == <<clientOpen, serverOpen, up, down, backlog>>

\* A line the app sends is its number.
Line == sends + 1

-----------------------------------------------------------------------------
(* Sending *)

\* The streams of a write that is still pending refuse another one.
Pending(ops, c) == \E w \in ops : w.conn = c

\* Variant: the newest line first.
FlushNewest(q, ops, c) ==
  IF q = <<>> \/ c = NoConn
  THEN sendQueue' = q /\ writing' = FALSE /\ writes' = ops
  ELSE /\ sendQueue' = SubSeq(q, 1, Len(q) - 1)
       /\ writing' = TRUE
       /\ writes' = ops \cup
            {[conn |-> c, line |-> q[Len(q)], result |-> IF Pending(ops, c) THEN "error" ELSE "flying"]}

\* _flush_send_queue on queue q while the writes ops are outstanding.
Flush(q, ops, c) ==
  IF q = <<>> \/ c = NoConn
  THEN sendQueue' = q /\ writing' = FALSE /\ writes' = ops
  ELSE /\ sendQueue' = Tail(q)
       /\ writing' = TRUE
       /\ writes' = ops \cup
            {[conn |-> c, line |-> Head(q), result |-> IF Pending(ops, c) THEN "error" ELSE "flying"]}

\* send on connection c.
Send(c) ==
  LET q == Append(sendQueue, Line)
  IN  /\ sends' = sends + 1
      /\ IF writing THEN sendQueue' = q /\ UNCHANGED <<writing, writes>>
         ELSE Flush(q, writes, c)

\* send() outside the signal handlers.
AppSends ==
  /\ connection # NoConn
  /\ sends < MaxSends
  /\ Send(connection)
  /\ UNCHANGED <<listening, connection, cancellable, cancelled, reading, announced,
                 drops, appRuns, kernelVars>>

\* The kernel takes the bytes, or fails the write when either end is closed.
WriteLands(w) ==
  /\ w.result = "flying"
  /\ LET open == w.conn \in clientOpen /\ w.conn \in serverOpen
     IN  /\ writes' = (writes \ {w}) \cup {[w EXCEPT !.result = IF open THEN "ok" ELSE "error"]}
         /\ down' = IF open THEN [down EXCEPT ![w.conn] = Append(@, w.line)] ELSE down
  /\ UNCHANGED <<listening, connection, cancellable, cancelled, reading, sendQueue, writing,
                 announced, sends, drops, appRuns, clientOpen, serverOpen, up, backlog>>

\* Variant: a failed write leaves the write flag set.
OnWriteDoneStuck(w) ==
  /\ w.result # "flying"
  /\ IF w.result = "error"
     THEN sendQueue' = <<>> /\ writes' = writes \ {w} /\ UNCHANGED writing
     ELSE Flush(sendQueue, writes \ {w}, connection)
  /\ UNCHANGED <<listening, connection, cancellable, cancelled, reading, announced,
                 sends, drops, appRuns, kernelVars>>

\* _on_write_done does not ask which connection the write was made on.
OnWriteDone(w) ==
  /\ w.result # "flying"
  /\ IF w.result = "error"
     THEN sendQueue' = <<>> /\ writing' = FALSE /\ writes' = writes \ {w}
     ELSE Flush(sendQueue, writes \ {w}, connection)
  /\ UNCHANGED <<listening, connection, cancellable, cancelled, reading, announced,
                 sends, drops, appRuns, kernelVars>>

-----------------------------------------------------------------------------
(* Connections *)

\* _on_incoming: the previous connection, if any, is cancelled and let go, which closes
\* its socket; its queue and write flag stay.  On client-connected the application asks
\* for the bridge's keybindings.
OnIncoming ==
  /\ listening /\ backlog # <<>>
  /\ LET c == Head(backlog)
     IN  /\ connection' = c
         /\ cancellable' = c
         /\ reading' = reading \cup {c}
         /\ serverOpen' = (serverOpen \ {connection}) \cup {c}
         /\ cancelled' = (cancelled \cup ({cancellable} \ {NoConn})) \ {c}
         /\ Send(c)
  /\ backlog' = Tail(backlog)
  /\ announced' = (IF connection = NoConn THEN announced ELSE announced - 1) + 1
  /\ UNCHANGED <<listening, drops, appRuns, clientOpen, up, down>>

\* disconnect_client only cancels; the read callback cleans up.
DisconnectClient ==
  /\ drops < MaxDrops
  /\ cancellable # NoConn
  /\ cancelled' = cancelled \cup {cancellable}
  /\ drops' = drops + 1
  /\ UNCHANGED <<listening, connection, cancellable, reading, sendQueue, writing, writes,
                 announced, sends, appRuns, kernelVars>>

\* _reset_connection
ResetConnection ==
  /\ connection' = NoConn
  /\ sendQueue' = <<>>
  /\ writing' = FALSE
  /\ serverOpen' = serverOpen \ {connection}

AtEnd(c) == up[c] = <<>> /\ c \notin clientOpen

\* _on_line_read with a line, which goes to message-received; a cancelled read yields none.
ReadLine(c) ==
  /\ c \in reading /\ c = connection /\ c \notin cancelled
  /\ up[c] # <<>>
  /\ up' = [up EXCEPT ![c] = Tail(@)]
  /\ UNCHANGED <<listening, connection, cancellable, cancelled, reading, sendQueue, writing, writes,
                 announced, sends, drops, appRuns, clientOpen, serverOpen, down, backlog>>

\* _on_line_read with the end of the stream, or cancelled.
ReadEnds(c) ==
  /\ c \in reading /\ c = connection
  /\ c \in cancelled \/ AtEnd(c)
  /\ ResetConnection
  /\ reading' = reading \ {c}
  /\ announced' = announced - 1
  /\ UNCHANGED <<listening, cancellable, cancelled, writes, sends, drops, appRuns,
                 clientOpen, up, down, backlog>>

\* Variant: the read of a superseded connection is taken for the current one's.
ReadResets(c) ==
  /\ c \in reading /\ c # connection
  /\ c \in cancelled \/ up[c] # <<>> \/ AtEnd(c)
  /\ reading' = reading \ {c}
  /\ ResetConnection
  /\ announced' = announced - 1
  /\ UNCHANGED <<listening, cancellable, cancelled, writes, sends, drops, appRuns,
                 clientOpen, up, down, backlog>>

\* _on_line_read of a superseded connection: discarded, whatever it read.
ReadDiscarded(c) ==
  /\ c \in reading /\ c # connection
  /\ c \in cancelled \/ up[c] # <<>> \/ AtEnd(c)
  /\ reading' = reading \ {c}
  /\ UNCHANGED <<listening, connection, cancellable, cancelled, sendQueue, writing, writes,
                 announced, sends, drops, appRuns, kernelVars>>

\* do_shutdown: stop() and the end of the process.
AppStops ==
  /\ listening
  /\ listening' = FALSE
  /\ ResetConnection
  /\ cancellable' = NoConn
  /\ reading' = {} /\ writes' = {}
  /\ backlog' = <<>>
  /\ announced' = 0
  /\ UNCHANGED <<cancelled, sends, drops, appRuns, clientOpen, up, down>>

\* start()
AppStarts ==
  /\ ~listening
  /\ appRuns < MaxAppRuns
  /\ listening' = TRUE
  /\ appRuns' = appRuns + 1
  /\ UNCHANGED <<connection, cancellable, cancelled, reading, sendQueue, writing, writes,
                 announced, sends, drops, kernelVars>>

ServerInit ==
  /\ listening = FALSE
  /\ connection = NoConn
  /\ cancellable = NoConn
  /\ cancelled = {}
  /\ reading = {}
  /\ sendQueue = <<>>
  /\ writing = FALSE
  /\ writes = {}
  /\ announced = 0
  /\ sends = 0 /\ drops = 0 /\ appRuns = 0

\* What the main loop does by itself.
ServerLoop ==
  \/ OnIncoming
  \/ \E c \in Conns : ReadLine(c) \/ ReadEnds(c) \/ ReadDiscarded(c)
  \/ \E w \in writes : WriteLands(w) \/ OnWriteDone(w)

ServerNext == ServerLoop \/ AppSends \/ DisconnectClient \/ AppStops \/ AppStarts
=============================================================================
