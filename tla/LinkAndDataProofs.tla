-------------------------- MODULE LinkAndDataProofs --------------------------
(***************************************************************************)
(* Theorems about the way of the profile's events: the link they come over *)
(* (module BridgeLink), for any connections, client objects and bounds;    *)
(* and what the page makes of them (module ProfileData), for any           *)
(* functions, calls, window, threshold, files and bounds.                  *)
(***************************************************************************)
EXTENDS BridgeLink, ProfileData, FiniteSetTheorems, SequenceTheorems, WellFoundedInduction, TLAPS

(***************************************************************************)
(* The link: stale callbacks of replaced connections neither lose the      *)
(* queue, nor reorder it, nor confuse the signals                          *)
(***************************************************************************)
\* The queue waits only behind a write, and is empty when nobody is connected.
ServedInv ==
  /\ writing => writes # {}
  /\ ~writing => sendQueue = <<>>
  /\ connection = NoConn => sendQueue = <<>>

\* Queue q, writes ops and delivered lines d of n lines sent: lines leave the queue in order,
\* and a connection has at most one write that the kernel may still carry out.
QueueSorted(q, n) ==
  /\ \A i \in 1..Len(q) : q[i] <= n
  /\ \A i, j \in 1..Len(q) : i < j => q[i] < q[j]

WritesBefore(q, ops, n) ==
  \A w \in ops : w.line <= n /\ \A i \in 1..Len(q) : w.line < q[i]

SentBefore(q, d, n) ==
  \A c \in Conns : \A k \in 1..Len(d[c]) :
    d[c][k] <= n /\ \A i \in 1..Len(q) : d[c][k] < q[i]

Flying(w) == w.result = "flying"

OneFlies(ops) == \A w, x \in ops : Flying(w) /\ Flying(x) /\ w.conn = x.conn => w = x

FlyingIsNext(ops, d) ==
  \A w \in ops : Flying(w) => \A k \in 1..Len(d[w.conn]) : d[w.conn][k] < w.line

Increasing(d) == \A c \in Conns : \A i \in 1..(Len(d[c]) - 1) : d[c][i] < d[c][i + 1]

SendOrder(q, ops, d, n) ==
  /\ QueueSorted(q, n) /\ WritesBefore(q, ops, n) /\ SentBefore(q, d, n)
  /\ OneFlies(ops) /\ FlyingIsNext(ops, d) /\ Increasing(d)

OrderInv == SendOrder(sendQueue, writes, down, sends)

LinkInv == TypeOK /\ SignalsAlternate /\ ServedInv /\ OrderInv

-----------------------------------------------------------------------------
(* Operators *)

\* What a new write is: the head of the queue, refused when the connection has one pending.
NewWrite(q, ops, c) ==
  [conn |-> c, line |-> q[1], result |-> IF Pending(ops, c) THEN "error" ELSE "flying"]

\* The effect of flushing queue q behind the writes ops, over connection c.
Flushes(q, ops, c) ==
  \/ /\ q = <<>> \/ c = NoConn
     /\ sendQueue' = q /\ writing' = FALSE /\ writes' = ops
  \/ /\ q # <<>> /\ c # NoConn
     /\ sendQueue' = Tail(q) /\ writing' = TRUE /\ writes' = ops \cup {NewWrite(q, ops, c)}

LEMMA FlushCases ==
  ASSUME NEW q \in Seq(Nat), NEW ops, NEW c, Flush(q, ops, c)
  PROVE  Flushes(q, ops, c)
<1>1. q # <<>> => Head(q) = q[1]
  OBVIOUS
<1> QED BY <1>1 DEF Flush, Flushes, NewWrite

LEMMA FlushTypes ==
  ASSUME NEW q \in Seq(Nat), NEW ops \in SUBSET Write, NEW c \in Conns \cup {NoConn},
         Flush(q, ops, c)
  PROVE  sendQueue' \in Seq(Nat) /\ writes' \subseteq Write /\ writing' \in BOOLEAN
<1>1. Flushes(q, ops, c)
  BY FlushCases
<1>2. writing' \in BOOLEAN
  BY <1>1 DEF Flushes
<1>3. CASE q = <<>> \/ c = NoConn
  BY <1>1, <1>2, <1>3 DEF Flushes
<1>4. CASE q # <<>> /\ c # NoConn
  <2>1. Tail(q) \in Seq(Nat) /\ q[1] \in Nat
    BY <1>4, HeadTailProperties
  <2>2. NewWrite(q, ops, c) \in Write
    BY <1>4, <2>1 DEF NewWrite, Write
  <2> QED BY <1>1, <1>2, <1>4, <2>1, <2>2 DEF Flushes
<1> QED BY <1>3, <1>4

\* The steps that send a line, over connection c.
LEMMA SendTypes ==
  ASSUME TypeOK, NEW c \in Conns \cup {NoConn}, Send(c)
  PROVE  /\ sendQueue' \in Seq(Nat) /\ writes' \subseteq Write /\ writing' \in BOOLEAN
         /\ sends' \in Nat
<1>1. Append(sendQueue, Line) \in Seq(Nat)
  BY DEF TypeOK, ServerTypes, Line
<1>2. CASE writing
  <2>1. sendQueue' = Append(sendQueue, Line) /\ UNCHANGED <<writes, writing>> /\ sends' = sends + 1
    BY <1>2 DEF Send
  <2> QED BY <1>1, <2>1 DEF TypeOK, ServerTypes, FlagTypes
<1>3. CASE ~writing
  <2>1. Flush(Append(sendQueue, Line), writes, c)
    BY <1>3 DEF Send
  <2>2. sends' \in Nat
    BY DEF Send, TypeOK, ServerTypes
  <2>3. writes \in SUBSET Write
    BY DEF TypeOK, ServerTypes
  <2> QED BY <1>1, <2>1, <2>2, <2>3, FlushTypes
<1> QED BY <1>2, <1>3

-----------------------------------------------------------------------------
(* Types *)

LEMMA LinkInit == Init => LinkInv
<1> SUFFICES ASSUME Init PROVE LinkInv
  OBVIOUS
<1> USE DEF Init, ServerInit, Client!ClientInit
<1>1. FlagTypes
  BY DEF FlagTypes
<1>2. ServerTypes /\ ClientTypes /\ KernelTypes
  BY EmptySeq DEF ServerTypes, ClientTypes, KernelTypes
<1>3. SignalsAlternate /\ ServedInv
  BY DEF SignalsAlternate, ServedInv
<1>4. OrderInv
  BY DEF OrderInv, SendOrder, QueueSorted, WritesBefore, SentBefore, OneFlies, FlyingIsNext,
         Increasing
<1> QED BY <1>1, <1>2, <1>3, <1>4 DEF LinkInv, TypeOK

LEMMA ClientTypesStep ==
  ASSUME TypeOK, Client!ClientNext, UNCHANGED <<serverVars, serverOpen>>
  PROVE  TypeOK'
<1> USE DEF TypeOK, FlagTypes, ClientTypes, KernelTypes, serverVars
<1>1. ServerTypes'
  BY DEF ServerTypes
<1>2. CASE Client!BridgeSends
  <2>1. conn[current] \in Conns /\ lines + 1 \in Nat
    BY <1>2, LinkAssumption DEF Client!BridgeSends
  <2>2. up' \in [Conns -> Seq(Nat)]
    BY <1>2, <2>1, AppendProperties DEF Client!BridgeSends
  <2> QED BY <1>1, <1>2, <2>1, <2>2 DEF Client!BridgeSends
<1>3. CASE Client!Disable
  BY <1>1, <1>3 DEF Client!Disable
<1>4. ASSUME NEW k \in Objects, Client!Enable(k) PROVE TypeOK'
  BY <1>1, <1>4 DEF Client!Enable
<1>5. ASSUME NEW k \in Objects, NEW c \in Conns, Client!OnConnected(k, c) PROVE TypeOK'
  <2>1. up' \in [Conns -> Seq(Nat)] /\ down' \in [Conns -> Seq(Nat)]
    BY <1>5, EmptySeq DEF Client!OnConnected
  <2>2. backlog' \in Seq(Conns)
    BY <1>5, AppendProperties DEF Client!OnConnected
  <2> QED BY <1>1, <1>5, <2>1, <2>2 DEF Client!OnConnected
<1>6. ASSUME NEW k \in Objects, Client!ConnectFails(k) PROVE TypeOK'
  BY <1>1, <1>6 DEF Client!ConnectFails
<1>7. ASSUME NEW k \in Objects, Client!ReconnectTimer(k) PROVE TypeOK'
  BY <1>1, <1>7 DEF Client!ReconnectTimer
<1>8. ASSUME NEW k \in Objects, Client!ClientReads(k) PROVE TypeOK'
  <2>1. conn[k] \in Conns /\ down[conn[k]] # <<>>
    BY <1>8 DEF Client!ClientReads
  <2>2. down' \in [Conns -> Seq(Nat)]
    BY <1>8, <2>1, HeadTailProperties DEF Client!ClientReads
  <2> QED BY <1>1, <1>8, <2>2 DEF Client!ClientReads
<1>9. ASSUME NEW k \in Objects, Client!OnDisconnected(k) PROVE TypeOK'
  BY <1>1, <1>9 DEF Client!OnDisconnected
<1> QED BY <1>2, <1>3, <1>4, <1>5, <1>6, <1>7, <1>8, <1>9 DEF Client!ClientNext, Client!ClientLoop

LEMMA ServerTypesStep ==
  ASSUME TypeOK, ServerNext, UNCHANGED clientVars
  PROVE  TypeOK'
<1> USE DEF TypeOK
<1>0. ClientTypes' /\ UNCHANGED <<stopping, reconnect, connecting>>
  BY DEF ClientTypes, clientVars
<1>1. CASE OnIncoming
  <2>1. Head(backlog) \in Conns /\ Tail(backlog) \in Seq(Conns)
    BY <1>1, HeadTailProperties DEF OnIncoming, KernelTypes
  <2>2. /\ sendQueue' \in Seq(Nat) /\ writes' \subseteq Write /\ writing' \in BOOLEAN
        /\ sends' \in Nat
    BY <1>1, <2>1, SendTypes DEF OnIncoming
  <2>3. FlagTypes'
    BY <1>0, <1>1, <2>2 DEF OnIncoming, FlagTypes
  <2>4. ServerTypes'
    BY <1>1, <2>1, <2>2 DEF OnIncoming, ServerTypes
  <2>5. KernelTypes'
    BY <1>1, <2>1 DEF OnIncoming, KernelTypes
  <2> QED BY <1>0, <2>3, <2>4, <2>5
<1>2. ASSUME NEW c \in Conns, ReadLine(c) PROVE TypeOK'
  <2>1. up' \in [Conns -> Seq(Nat)]
    BY <1>2, HeadTailProperties DEF ReadLine, KernelTypes
  <2>2. FlagTypes'
    BY <1>0, <1>2 DEF ReadLine, FlagTypes
  <2> QED BY <1>0, <1>2, <2>1, <2>2 DEF ReadLine, ServerTypes, KernelTypes
<1>3. ASSUME NEW c \in Conns, ReadEnds(c) PROVE TypeOK'
  <2>1. FlagTypes'
    BY <1>0, <1>3 DEF ReadEnds, ResetConnection, FlagTypes
  <2>2. ServerTypes'
    BY <1>3, EmptySeq DEF ReadEnds, ResetConnection, ServerTypes
  <2> QED BY <1>0, <1>3, <2>1, <2>2 DEF ReadEnds, ResetConnection, KernelTypes
<1>4. ASSUME NEW c \in Conns, ReadDiscarded(c) PROVE TypeOK'
  <2>1. FlagTypes'
    BY <1>0, <1>4 DEF ReadDiscarded, FlagTypes
  <2> QED BY <1>0, <1>4, <2>1 DEF ReadDiscarded, ServerTypes, KernelTypes, kernelVars
<1>5. ASSUME NEW w \in writes, WriteLands(w) PROVE TypeOK'
  <2>1. w \in Write
    BY DEF ServerTypes
  <2>2. writes' \subseteq Write
    BY <1>5, <2>1 DEF WriteLands, ServerTypes, Write
  <2>3. w.conn \in Conns /\ w.line \in Nat
    BY <2>1 DEF Write
  <2>4. down' \in [Conns -> Seq(Nat)]
    BY <1>5, <2>3, AppendProperties DEF WriteLands, KernelTypes
  <2>5. FlagTypes'
    BY <1>0, <1>5 DEF WriteLands, FlagTypes
  <2> QED BY <1>0, <1>5, <2>2, <2>4, <2>5 DEF WriteLands, ServerTypes, KernelTypes
<1>6. ASSUME NEW w \in writes, OnWriteDone(w) PROVE TypeOK'
  <2>1. sendQueue' \in Seq(Nat) /\ writes' \subseteq Write /\ writing' \in BOOLEAN
    <3>1. CASE w.result = "error"
      BY <1>6, <3>1, EmptySeq DEF OnWriteDone, ServerTypes
    <3>2. CASE w.result # "error"
      BY <1>6, <3>2, FlushTypes DEF OnWriteDone, ServerTypes
    <3> QED BY <3>1, <3>2
  <2>2. FlagTypes'
    BY <1>0, <1>6, <2>1 DEF OnWriteDone, FlagTypes
  <2> QED BY <1>0, <1>6, <2>1, <2>2 DEF OnWriteDone, ServerTypes, KernelTypes, kernelVars
<1>7. CASE AppSends
  <2>1. /\ sendQueue' \in Seq(Nat) /\ writes' \subseteq Write /\ writing' \in BOOLEAN
        /\ sends' \in Nat
    BY <1>7, SendTypes DEF AppSends, ServerTypes
  <2>2. FlagTypes'
    BY <1>0, <1>7, <2>1 DEF AppSends, FlagTypes
  <2> QED BY <1>0, <1>7, <2>1, <2>2 DEF AppSends, ServerTypes, KernelTypes, kernelVars
<1>8. CASE DisconnectClient
  <2>1. FlagTypes'
    BY <1>0, <1>8 DEF DisconnectClient, FlagTypes
  <2> QED BY <1>0, <1>8, <2>1 DEF DisconnectClient, ServerTypes, KernelTypes, kernelVars
<1>9. CASE AppStops
  <2>1. FlagTypes'
    BY <1>0, <1>9 DEF AppStops, ResetConnection, FlagTypes
  <2>2. ServerTypes' /\ KernelTypes'
    BY <1>9, EmptySeq DEF AppStops, ResetConnection, ServerTypes, KernelTypes
  <2> QED BY <1>0, <2>1, <2>2
<1>10. CASE AppStarts
  <2>1. FlagTypes'
    BY <1>0, <1>10 DEF AppStarts, FlagTypes
  <2> QED BY <1>0, <1>10, <2>1 DEF AppStarts, ServerTypes, KernelTypes, kernelVars
<1> QED BY <1>1, <1>2, <1>3, <1>4, <1>5, <1>6, <1>7, <1>8, <1>9, <1>10 DEF ServerNext, ServerLoop

-----------------------------------------------------------------------------
(* The signals, and the queue that somebody will look at *)

LEMMA ServedFlush ==
  ASSUME NEW q \in Seq(Nat), NEW ops, NEW c, Flush(q, ops, c), c = NoConn => q = <<>>
  PROVE  /\ writing' => writes' # {}
         /\ ~writing' => sendQueue' = <<>>
         /\ c = NoConn => sendQueue' = <<>>
BY FlushCases DEF Flushes

LEMMA ServedSend ==
  ASSUME TypeOK, ServedInv, NEW c \in Conns, Send(c)
  PROVE  (writing' => writes' # {}) /\ (~writing' => sendQueue' = <<>>)
<1>1. Append(sendQueue, Line) \in Seq(Nat)
  BY DEF TypeOK, ServerTypes, Line
<1>2. CASE writing
  BY <1>2 DEF Send, ServedInv
<1>3. CASE ~writing
  BY <1>1, <1>3, ServedFlush, LinkAssumption DEF Send
<1> QED BY <1>2, <1>3

LEMMA ServedStep ==
  ASSUME TypeOK, SignalsAlternate, ServedInv, ServerNext, UNCHANGED clientVars
  PROVE  SignalsAlternate' /\ ServedInv'
<1>0. sendQueue \in Seq(Nat)
  BY DEF TypeOK, ServerTypes
<1> USE DEF SignalsAlternate, ServedInv
<1>1. CASE OnIncoming
  <2>1. Head(backlog) \in Conns
    BY <1>1, HeadTailProperties DEF OnIncoming, TypeOK, KernelTypes
  <2>2. (writing' => writes' # {}) /\ (~writing' => sendQueue' = <<>>)
    BY <1>1, <2>1, ServedSend DEF OnIncoming
  <2> QED BY <1>1, <2>1, <2>2, LinkAssumption DEF OnIncoming
<1>2. ASSUME NEW c \in Conns, ReadLine(c) \/ ReadDiscarded(c) PROVE SignalsAlternate' /\ ServedInv'
  BY <1>2 DEF ReadLine, ReadDiscarded
<1>3. ASSUME NEW c \in Conns, ReadEnds(c) PROVE SignalsAlternate' /\ ServedInv'
  BY <1>3, LinkAssumption DEF ReadEnds, ResetConnection
<1>4. ASSUME NEW w \in writes, WriteLands(w) PROVE SignalsAlternate' /\ ServedInv'
  BY <1>4 DEF WriteLands
<1>5. ASSUME NEW w \in writes, OnWriteDone(w) PROVE SignalsAlternate' /\ ServedInv'
  <2>1. CASE w.result = "error"
    BY <1>5, <2>1 DEF OnWriteDone
  <2>2. CASE w.result # "error"
    <3>1. Flush(sendQueue, writes \ {w}, connection)
      BY <1>5, <2>2 DEF OnWriteDone
    <3>2. ServedInv'
      BY <1>0, <1>5, <3>1, ServedFlush DEF OnWriteDone
    <3> QED BY <1>5, <3>2 DEF OnWriteDone
  <2> QED BY <2>1, <2>2
<1>6. CASE AppSends
  <2>1. (writing' => writes' # {}) /\ (~writing' => sendQueue' = <<>>)
    BY <1>6, ServedSend DEF AppSends, TypeOK, ServerTypes
  <2> QED BY <1>6, <2>1 DEF AppSends
<1>7. CASE DisconnectClient \/ AppStarts
  BY <1>7 DEF DisconnectClient, AppStarts
<1>8. CASE AppStops
  BY <1>8 DEF AppStops, ResetConnection
<1> QED BY <1>1, <1>2, <1>3, <1>4, <1>5, <1>6, <1>7, <1>8 DEF ServerNext, ServerLoop

-----------------------------------------------------------------------------
(* The order of the lines *)

Numbers(q, ops, d) ==
  /\ Len(q) \in Nat /\ \A i \in 1..Len(q) : q[i] \in Nat
  /\ \A w \in ops : w.line \in Nat /\ w.conn \in Conns
  /\ \A c \in Conns : Len(d[c]) \in Nat /\ \A k \in 1..Len(d[c]) : d[c][k] \in Nat

LEMMA OrderedTyped ==
  ASSUME NEW q \in Seq(Nat), NEW ops \in SUBSET Write, NEW d \in [Conns -> Seq(Nat)]
  PROVE  Numbers(q, ops, d)
BY ElementOfSeq, LenProperties DEF Write, Numbers

\* The line handed to send is later than all the others.
LEMMA OrderAppend ==
  ASSUME NEW q \in Seq(Nat), NEW ops \in SUBSET Write, NEW d \in [Conns -> Seq(Nat)],
         NEW n \in Nat, SendOrder(q, ops, d, n)
  PROVE  SendOrder(Append(q, n + 1), ops, d, n + 1)
<1> DEFINE r == Append(q, n + 1)
<1>1. /\ Len(r) = Len(q) + 1 /\ r[Len(q) + 1] = n + 1
      /\ \A i \in 1..Len(q) : r[i] = q[i]
  BY AppendProperties
<1>0. Numbers(q, ops, d)
  BY OrderedTyped
<1> HIDE DEF r
<1> USE <1>0 DEF SendOrder, Numbers
<1>5. \A i \in 1..Len(r) :
        \/ i \in 1..Len(q) /\ r[i] = q[i]
        \/ i = Len(q) + 1 /\ r[i] = n + 1
  BY <1>1
<1>2. QueueSorted(r, n + 1)
  <2>1. \A i \in 1..Len(q) : q[i] \in Nat /\ q[i] <= n
    BY DEF QueueSorted
  <2>2. \A i \in 1..Len(r) : r[i] <= n + 1
    BY <1>5, <2>1
  <2>3. ASSUME NEW i \in 1..Len(r), NEW j \in 1..Len(r), i < j PROVE r[i] < r[j]
    <3>1. i \in 1..Len(q) /\ r[i] = q[i]
      BY <1>1, <1>5, <2>3
    <3>2. CASE j \in 1..Len(q) /\ r[j] = q[j]
      BY <2>3, <3>1, <3>2 DEF QueueSorted
    <3>3. CASE r[j] = n + 1
      BY <2>1, <3>1, <3>3
    <3> QED BY <1>5, <3>2, <3>3
  <2> QED BY <2>2, <2>3 DEF QueueSorted
<1>3. WritesBefore(r, ops, n + 1)
  BY <1>5 DEF WritesBefore
<1>4. SentBefore(r, d, n + 1)
  <2> SUFFICES ASSUME NEW c \in Conns, NEW k \in 1..Len(d[c])
               PROVE  d[c][k] <= n + 1 /\ \A i \in 1..Len(r) : d[c][k] < r[i]
    BY DEF SentBefore
  <2>1. d[c][k] \in Nat /\ d[c][k] <= n /\ \A i \in 1..Len(q) : d[c][k] < q[i]
    BY DEF SentBefore
  <2>2. ASSUME NEW x \in Nat, x <= n, \A i \in 1..Len(q) : x < q[i]
        PROVE  x <= n + 1 /\ \A i \in 1..Len(r) : x < r[i]
    <3>1. ASSUME NEW i \in 1..Len(r) PROVE x < r[i]
      <4>1. CASE i \in 1..Len(q) /\ r[i] = q[i]
        BY <2>2, <4>1
      <4>2. CASE r[i] = n + 1
        BY <2>2, <4>2
      <4> QED BY <1>5, <4>1, <4>2
    <3>2. x <= n + 1
      BY <2>2
    <3> QED BY <3>1, <3>2
  <2> QED BY <2>1, <2>2
<1> QED BY <1>2, <1>3, <1>4 DEF r

\* The write that a flush makes is later than the lines delivered and than the other writes.
LEMMA OrderFlush ==
  ASSUME NEW q \in Seq(Nat), NEW ops \in SUBSET Write, NEW d \in [Conns -> Seq(Nat)],
         NEW n \in Nat, NEW c \in Conns \cup {NoConn}, SendOrder(q, ops, d, n), Flush(q, ops, c)
  PROVE  SendOrder(sendQueue', writes', d, n)
<1>1. Flushes(q, ops, c)
  BY FlushCases
<1>2. CASE q = <<>> \/ c = NoConn
  BY <1>1, <1>2 DEF Flushes
<1>3. CASE q # <<>> /\ c # NoConn
  <2> DEFINE r == Tail(q)
             new == NewWrite(q, ops, c)
  <2>1. sendQueue' = r /\ writes' = ops \cup {new}
    BY <1>1, <1>3 DEF Flushes
  <2>2. /\ 1 \in 1..Len(q) /\ Len(r) = Len(q) - 1
        /\ \A i \in 1..Len(r) : r[i] = q[i + 1] /\ i + 1 \in 1..Len(q)
    BY <1>3, HeadTailProperties, LenProperties, EmptySeq
  <2>3. /\ new.conn = c /\ new.line = q[1]
        /\ Flying(new) => \A w \in ops : w.conn # c
    BY DEF NewWrite, Flying, Pending
  <2>0. Numbers(q, ops, d)
    BY OrderedTyped
  <2> HIDE DEF r, new
  <2> USE <2>0 DEF SendOrder, Numbers
  <2>8. QueueSorted(r, n)
    <3>1. ASSUME NEW i \in 1..Len(r), NEW j \in 1..Len(r), i < j PROVE r[i] < r[j]
      <4>1. i + 1 \in 1..Len(q) /\ j + 1 \in 1..Len(q) /\ i + 1 < j + 1
        BY <2>2, <3>1
      <4> QED BY <2>2, <4>1 DEF QueueSorted
    <3>2. \A i \in 1..Len(r) : r[i] <= n
      BY <2>2 DEF QueueSorted
    <3> QED BY <3>1, <3>2 DEF QueueSorted
  <2>9. SentBefore(r, d, n)
    BY <2>2 DEF SentBefore
  <2>10. WritesBefore(r, ops, n)
    BY <2>2 DEF WritesBefore
  <2>11. new.line <= n /\ \A i \in 1..Len(r) : new.line < r[i]
    <3>1. q[1] <= n
      BY <2>2 DEF QueueSorted
    <3>2. ASSUME NEW i \in 1..Len(r) PROVE q[1] < r[i]
      <4>1. i + 1 \in 1..Len(q) /\ 1 < i + 1 /\ r[i] = q[i + 1]
        BY <2>2
      <4> QED BY <2>2, <4>1 DEF QueueSorted
    <3> QED BY <2>3, <3>1, <3>2
  <2>5. WritesBefore(r, ops \cup {new}, n)
    BY <2>10, <2>11 DEF WritesBefore
  <2>6. OneFlies(ops \cup {new})
    BY <2>3 DEF OneFlies
  <2>7. FlyingIsNext(ops \cup {new}, d)
    BY <1>3, <2>2, <2>3 DEF SentBefore, FlyingIsNext
  <2> QED BY <2>1, <2>5, <2>6, <2>7, <2>8, <2>9
<1> QED BY <1>2, <1>3

ReadFrom(d, e) ==
  \A c \in Conns : \/ e[c] = d[c] \/ e[c] = <<>>
                   \/ d[c] # <<>> /\ e[c] = Tail(d[c])

Fewer(q, ops, d, r, rest, e) ==
  (r = q \/ r = <<>>) /\ rest \subseteq ops /\ ReadFrom(d, e)

\* Losing the queue, writes, or delivered lines from the front keeps the order.
LEMMA OrderShrinks ==
  ASSUME NEW q \in Seq(Nat), NEW ops \in SUBSET Write, NEW d \in [Conns -> Seq(Nat)],
         NEW n \in Nat, SendOrder(q, ops, d, n),
         NEW r, NEW rest, NEW e, Fewer(q, ops, d, r, rest, e)
  PROVE  SendOrder(r, rest, e, n)
<1>0. Numbers(q, ops, d)
  BY OrderedTyped
<1> USE <1>0 DEF SendOrder, Numbers, Fewer
<1>1. ASSUME NEW c \in Conns
      PROVE  \E s \in {0, 1} :
               /\ Len(e[c]) = 0 \/ Len(e[c]) = Len(d[c]) - s
               /\ \A k \in 1..Len(e[c]) : e[c][k] = d[c][k + s] /\ k + s \in 1..Len(d[c])
  <2>1. CASE e[c] = d[c] \/ e[c] = <<>>
    <3>1. WITNESS 0 \in {0, 1}
    <3> QED BY <2>1
  <2>2. CASE d[c] # <<>> /\ e[c] = Tail(d[c])
    <3>1. WITNESS 1 \in {0, 1}
    <3> QED BY <2>2, HeadTailProperties
  <2> QED BY <1>1, <2>1, <2>2 DEF ReadFrom
<1>2. QueueSorted(r, n) /\ WritesBefore(r, rest, n) /\ OneFlies(rest)
  BY DEF QueueSorted, WritesBefore, OneFlies
<1>3. SentBefore(r, e, n)
  <2>1. SentBefore(r, d, n)
    BY DEF SentBefore
  <2> SUFFICES ASSUME NEW c \in Conns, NEW k \in 1..Len(e[c])
               PROVE  e[c][k] <= n /\ \A i \in 1..Len(r) : e[c][k] < r[i]
    BY DEF SentBefore
  <2>2. PICK j \in 1..Len(d[c]) : e[c][k] = d[c][j]
    BY <1>1
  <2> QED BY <2>1, <2>2 DEF SentBefore
<1>4. FlyingIsNext(rest, e)
  BY <1>1 DEF FlyingIsNext
<1>5. Increasing(e)
  <2> SUFFICES ASSUME NEW c \in Conns, NEW i \in 1..(Len(e[c]) - 1)
               PROVE  e[c][i] < e[c][i + 1]
    BY DEF Increasing
  <2>1. PICK s \in {0, 1} :
               /\ Len(e[c]) = 0 \/ Len(e[c]) = Len(d[c]) - s
               /\ \A k \in 1..Len(e[c]) : e[c][k] = d[c][k + s] /\ k + s \in 1..Len(d[c])
    BY <1>1
  <2>2. Len(e[c]) \in Nat /\ Len(e[c]) # 0
    BY <2>1
  <2>3. /\ e[c][i] = d[c][i + s] /\ e[c][i + 1] = d[c][i + s + 1]
        /\ i + s \in 1..(Len(d[c]) - 1)
    BY <2>1, <2>2
  <2> QED BY <2>3 DEF Increasing
<1> QED BY <1>2, <1>3, <1>4, <1>5

LEMMA OrderSend ==
  ASSUME TypeOK, OrderInv, NEW c \in Conns, Send(c), down' = down
  PROVE  OrderInv'
<1> DEFINE q == Append(sendQueue, Line)
<1>1. /\ sendQueue \in Seq(Nat) /\ writes \in SUBSET Write /\ down \in [Conns -> Seq(Nat)]
      /\ sends \in Nat
  BY DEF TypeOK, ServerTypes, KernelTypes
<1>2. q \in Seq(Nat) /\ SendOrder(q, writes, down, sends + 1)
  BY <1>1, OrderAppend, AppendProperties DEF OrderInv, Line
<1>3. SendOrder(sendQueue', writes', down, sends + 1)
  <2>1. CASE writing
    BY <1>2, <2>1 DEF Send
  <2>2. CASE ~writing
    <3>1. Flush(q, writes, c)
      BY <2>2 DEF Send
    <3> HIDE DEF q
    <3>2. \A n \in Nat : SendOrder(q, writes, down, n) => SendOrder(sendQueue', writes', down, n)
      BY <1>1, <1>2, <3>1, OrderFlush
    <3> QED BY <1>1, <1>2, <3>2
  <2> QED BY <2>1, <2>2
<1>4. sends' = sends + 1
  BY DEF Send
<1> QED BY <1>3, <1>4 DEF OrderInv

\* A step that sends nothing: the queue stays or is emptied, writes only end, and lines are
\* only read.
LEMMA OrderKept ==
  ASSUME TypeOK, OrderInv, sends' = sends, sendQueue' = sendQueue \/ sendQueue' = <<>>,
         writes' \subseteq writes,
         ReadFrom(down, down')
  PROVE  OrderInv'
<1>1. /\ sendQueue \in Seq(Nat) /\ writes \in SUBSET Write /\ down \in [Conns -> Seq(Nat)]
      /\ sends \in Nat
  BY DEF TypeOK, ServerTypes, KernelTypes
<1>2. Fewer(sendQueue, writes, down, sendQueue', writes', down')
  BY DEF Fewer
<1>3. SendOrder(sendQueue, writes, down, sends)
  BY DEF OrderInv
<1>4. SendOrder(sendQueue', writes', down', sends)
  BY <1>1, <1>2, <1>3, OrderShrinks
<1> QED BY <1>4 DEF OrderInv

\* The kernel takes the line of a write: it is later than the lines taken before, and no
\* other write of that connection can follow it too early.
LEMMA OrderLands ==
  ASSUME TypeOK, OrderInv, NEW w \in writes, WriteLands(w)
  PROVE  OrderInv'
<1> DEFINE q == sendQueue
           n == sends
           v(r) == [w EXCEPT !.result = r]
<1>1. /\ sendQueue \in Seq(Nat) /\ writes \in SUBSET Write /\ down \in [Conns -> Seq(Nat)]
      /\ sends \in Nat /\ w \in Write
  BY DEF TypeOK, ServerTypes, KernelTypes
<1>2. Numbers(sendQueue, writes, down) /\ SendOrder(sendQueue, writes, down, sends)
  BY <1>1, OrderedTyped DEF OrderInv
<1>3. PICK r \in {"ok", "error"} : writes' = (writes \ {w}) \cup {v(r)}
  BY DEF WriteLands
<1>4. /\ v(r).conn = w.conn /\ v(r).line = w.line /\ ~Flying(v(r)) /\ Flying(w)
      /\ w.conn \in Conns /\ w.line \in Nat
  BY <1>1, <1>3 DEF Write, Flying, WriteLands
<1>5. UNCHANGED <<sendQueue, sends>>
  BY DEF WriteLands
<1> HIDE DEF v
<1> USE DEF SendOrder, Numbers
<1>6. WritesBefore(sendQueue, writes', sends)
  BY <1>2, <1>3, <1>4 DEF WritesBefore
<1>7. OneFlies(writes')
  BY <1>2, <1>3, <1>4 DEF OneFlies
<1>8. \A x \in writes' : Flying(x) => x \in writes /\ x.conn # w.conn
  BY <1>2, <1>3, <1>4 DEF OneFlies
<1>9. CASE down' = down
  <2>1. FlyingIsNext(writes', down)
    BY <1>2, <1>8 DEF FlyingIsNext
  <2> QED BY <1>2, <1>5, <1>6, <1>7, <1>9, <2>1 DEF OrderInv
<1>10. CASE down' = [down EXCEPT ![w.conn] = Append(@, w.line)]
  <2>1. PICK m \in Nat : m = Len(down[w.conn])
    BY <1>1, <1>4, LenProperties
  <2>2. /\ Len(down'[w.conn]) = m + 1 /\ down'[w.conn][m + 1] = w.line
        /\ \A k \in 1..m : down'[w.conn][k] = down[w.conn][k]
        /\ \A c \in Conns \ {w.conn} : down'[c] = down[c]
    <3>1. down[w.conn] \in Seq(Nat) /\ down'[w.conn] = Append(down[w.conn], w.line)
      BY <1>1, <1>4, <1>10
    <3>2. \A c \in Conns \ {w.conn} : down'[c] = down[c]
      BY <1>1, <1>10
    <3> QED BY <1>4, <2>1, <3>1, <3>2, AppendProperties
  <2>3. \A k \in 1..(m + 1) : \/ k \in 1..m /\ down'[w.conn][k] = down[w.conn][k]
                              \/ k = m + 1 /\ down'[w.conn][k] = w.line
    BY <2>2
  <2>4. SentBefore(sendQueue, down', sends)
    <3>1. ASSUME NEW k \in 1..(m + 1)
          PROVE  /\ down'[w.conn][k] <= sends
                 /\ \A i \in 1..Len(sendQueue) : down'[w.conn][k] < sendQueue[i]
      <4>1. CASE k \in 1..m /\ down'[w.conn][k] = down[w.conn][k]
        BY <1>2, <1>4, <2>1, <4>1 DEF SentBefore
      <4>2. CASE down'[w.conn][k] = w.line
        BY <1>2, <4>2 DEF WritesBefore
      <4> QED BY <2>3, <4>1, <4>2
    <3>2. ASSUME NEW c \in Conns \ {w.conn}, NEW k \in 1..Len(down[c])
          PROVE  /\ down[c][k] <= sends
                 /\ \A i \in 1..Len(sendQueue) : down[c][k] < sendQueue[i]
      BY <1>2 DEF SentBefore
    <3> QED BY <2>2, <3>1, <3>2 DEF SentBefore
  <2>5. FlyingIsNext(writes', down')
    <3> SUFFICES ASSUME NEW x \in writes', Flying(x), NEW k \in 1..Len(down'[x.conn])
                 PROVE  down'[x.conn][k] < x.line
      BY DEF FlyingIsNext
    <3>1. x \in writes /\ x.conn # w.conn /\ x.conn \in Conns
      BY <1>2, <1>8
    <3> QED BY <1>2, <2>2, <3>1 DEF FlyingIsNext
  <2>6. Increasing(down')
    <3>1. ASSUME NEW i \in 1..m PROVE down'[w.conn][i] < down'[w.conn][i + 1]
      <4>1. CASE i = m
        BY <1>2, <1>4, <2>1, <2>2, <4>1 DEF FlyingIsNext
      <4>2. CASE i # m
        <5>1. i \in 1..m /\ i + 1 \in 1..m /\ i \in 1..(Len(down[w.conn]) - 1)
          BY <2>1, <4>2
        <5>2. down'[w.conn][i] = down[w.conn][i] /\ down'[w.conn][i + 1] = down[w.conn][i + 1]
          BY <2>2, <5>1
        <5>3. down[w.conn][i] < down[w.conn][i + 1]
          BY <1>2, <1>4, <5>1 DEF Increasing
        <5> QED BY <5>2, <5>3
      <4> QED BY <4>1, <4>2
    <3>2. ASSUME NEW c \in Conns \ {w.conn}, NEW i \in 1..(Len(down[c]) - 1)
          PROVE  down[c][i] < down[c][i + 1]
      BY <1>2 DEF Increasing
    <3> QED BY <2>2, <3>1, <3>2 DEF Increasing
  <2> QED BY <1>2, <1>5, <1>6, <1>7, <2>4, <2>5, <2>6 DEF OrderInv
<1> QED BY <1>9, <1>10 DEF WriteLands

LEMMA OrderStep ==
  ASSUME TypeOK, OrderInv, ServerNext, UNCHANGED clientVars
  PROVE  OrderInv'
<1>0. down' = down => ReadFrom(down, down')
  BY DEF ReadFrom
<1>1. CASE OnIncoming
  <2>1. Head(backlog) \in Conns
    BY <1>1, HeadTailProperties DEF OnIncoming, TypeOK, KernelTypes
  <2> QED BY <1>1, <2>1, OrderSend DEF OnIncoming
<1>2. ASSUME NEW c \in Conns, ReadLine(c) \/ ReadDiscarded(c) \/ ReadEnds(c) PROVE OrderInv'
  BY <1>0, <1>2, OrderKept DEF ReadLine, ReadDiscarded, ReadEnds, ResetConnection, kernelVars
<1>3. ASSUME NEW w \in writes, OnWriteDone(w) PROVE OrderInv'
  <2>1. CASE w.result = "error"
    BY <1>0, <1>3, <2>1, OrderKept DEF OnWriteDone, kernelVars
  <2>2. CASE w.result # "error"
    <3> DEFINE rest == writes \ {w}
    <3>1. Flush(sendQueue, rest, connection) /\ UNCHANGED <<down, sends>>
      BY <1>3, <2>2 DEF OnWriteDone, kernelVars
    <3>2. /\ sendQueue \in Seq(Nat) /\ rest \in SUBSET Write /\ down \in [Conns -> Seq(Nat)]
          /\ sends \in Nat /\ connection \in Conns \cup {NoConn} /\ writes \in SUBSET Write
      BY DEF TypeOK, ServerTypes, KernelTypes
    <3>3. SendOrder(sendQueue, rest, down, sends)
      <4>1. Fewer(sendQueue, writes, down, sendQueue, rest, down)
        BY DEF Fewer, ReadFrom
      <4> HIDE DEF rest
      <4>2. SendOrder(sendQueue, writes, down, sends)
        BY DEF OrderInv
      <4> QED BY <3>2, <4>1, <4>2, OrderShrinks
    <3> HIDE DEF rest
    <3>4. SendOrder(sendQueue', writes', down, sends)
      BY <3>1, <3>2, <3>3, OrderFlush
    <3> QED BY <3>1, <3>4 DEF OrderInv
  <2> QED BY <2>1, <2>2
<1>4. CASE AppSends
  <2>1. connection \in Conns
    BY <1>4 DEF AppSends, TypeOK, ServerTypes
  <2> QED BY <1>4, <2>1, OrderSend DEF AppSends, kernelVars
<1>5. CASE DisconnectClient \/ AppStarts \/ AppStops
  BY <1>0, <1>5, OrderKept DEF DisconnectClient, AppStarts, AppStops, ResetConnection, kernelVars
<1> QED BY <1>1, <1>2, <1>3, <1>4, <1>5, OrderLands DEF ServerNext, ServerLoop

LEMMA ClientStep ==
  ASSUME LinkInv, Client!ClientNext, UNCHANGED <<serverVars, serverOpen>>
  PROVE  SignalsAlternate' /\ ServedInv' /\ OrderInv'
<1>1. TypeOK /\ SignalsAlternate /\ ServedInv /\ OrderInv
  BY DEF LinkInv
<1>2. SignalsAlternate' /\ ServedInv'
  BY <1>1 DEF SignalsAlternate, ServedInv, serverVars
<1>3. ReadFrom(down, down')
  <2>0. down \in [Conns -> Seq(Nat)] /\ conn \in [Objects -> Conns \cup {NoConn}]
    BY <1>1 DEF TypeOK, KernelTypes, ClientTypes
  <2>1. ASSUME NEW k \in Objects, NEW d \in Conns, Client!OnConnected(k, d)
        PROVE  ReadFrom(down, down')
    BY <2>0, <2>1 DEF ReadFrom, Client!OnConnected
  <2>2. ASSUME NEW k \in Objects, Client!ClientReads(k)
        PROVE  ReadFrom(down, down')
    <3>1. PICK d \in Conns : down[d] # <<>> /\ down' = [down EXCEPT ![d] = Tail(down[d])]
      BY <2>0, <2>2 DEF Client!ClientReads
    <3>2. ASSUME NEW c \in Conns PROVE down'[c] = IF c = d THEN Tail(down[c]) ELSE down[c]
      BY <2>0, <3>1
    <3> QED BY <3>1, <3>2 DEF ReadFrom
  <2>3. CASE Client!BridgeSends \/ Client!Disable
    BY <2>3 DEF ReadFrom, Client!BridgeSends, Client!Disable
  <2>4. ASSUME NEW k \in Objects,
               \/ Client!Enable(k) \/ Client!ConnectFails(k) \/ Client!ReconnectTimer(k)
               \/ Client!OnDisconnected(k)
        PROVE  down' = down
    BY <2>4 DEF Client!Enable, Client!ConnectFails, Client!ReconnectTimer, Client!OnDisconnected
  <2> QED BY <2>1, <2>2, <2>3, <2>4 DEF ReadFrom, Client!ClientNext, Client!ClientLoop
<1>4. OrderInv'
  BY <1>1, <1>3, OrderKept DEF serverVars
<1> QED BY <1>2, <1>4

LEMMA LinkStep == LinkInv /\ [Next]_vars => LinkInv'
<1> SUFFICES ASSUME LinkInv, [Next]_vars PROVE LinkInv'
  OBVIOUS
<1>0. TypeOK /\ SignalsAlternate /\ ServedInv /\ OrderInv
  BY DEF LinkInv
<1>1. CASE ServerNext /\ UNCHANGED clientVars
  BY <1>0, <1>1, ServerTypesStep, ServedStep, OrderStep DEF LinkInv
<1>2. CASE Client!ClientNext /\ UNCHANGED <<serverVars, serverOpen>>
  BY <1>0, <1>2, ClientTypesStep, ClientStep DEF LinkInv
<1>3. CASE UNCHANGED vars
  <2>1. UNCHANGED <<serverVars, clientVars, kernelVars>>
    BY <1>3 DEF vars
  <2>2. TypeOK'
    BY <1>0, <2>1 DEF TypeOK, FlagTypes, ServerTypes, ClientTypes, KernelTypes,
                      serverVars, clientVars, kernelVars
  <2>3. SignalsAlternate' /\ ServedInv'
    BY <1>0, <2>1 DEF SignalsAlternate, ServedInv, serverVars
  <2>4. OrderInv'
    BY <1>0, <2>1, OrderKept DEF ReadFrom, serverVars, kernelVars
  <2> QED BY <2>2, <2>3, <2>4 DEF LinkInv
<1> QED BY <1>1, <1>2, <1>3 DEF Next

-----------------------------------------------------------------------------

\* The inductive invariant of the two ends and the kernel: the signals alternate, the queue waits
\* only behind a write, and lines leave it in order, one write of each connection at a time being
\* carried out (_flush_send_queue, _on_write_done).
THEOREM LinkInvariant == Spec => []LinkInv
BY LinkInit, LinkStep, PTL DEF Spec

\* The variables of both ends and of the kernel between them keep their ranges.
THEOREM LinkIsTyped == Spec => []TypeOK
<1>1. LinkInv => TypeOK
  BY DEF LinkInv
<1> QED BY <1>1, LinkInvariant, PTL

\* client-connected and client-disconnected alternate and tell whether there is a
\* connection (_on_incoming, _on_line_read), although reads of replaced connections, cancelled
\* reads and ends of streams still call back.
THEOREM AlwaysAlternate == Spec => []SignalsAlternate
<1>1. LinkInv => SignalsAlternate
  BY DEF LinkInv
<1> QED BY <1>1, LinkInvariant, PTL

\* A queued line always has a write under way whose callback will flush the queue, also when
\* that write was made on a connection that is gone (_flush_send_queue, _on_write_done).
THEOREM AlwaysServed == Spec => []QueueIsServed
<1>1. LinkInv => QueueIsServed
  BY DEF LinkInv, ServedInv, QueueIsServed
<1> QED BY <1>1, LinkInvariant, PTL

\* On every connection the lines arrive in the order of the send calls, with failed and
\* refused writes in between.
THEOREM AlwaysInOrder == Spec => []SentInOrder
<1>1. LinkInv => SentInOrder
  BY DEF LinkInv, OrderInv, SendOrder, Increasing, SentInOrder
<1> QED BY <1>1, LinkInvariant, PTL

-----------------------------------------------------------------------------
(***************************************************************************)
(* What is made of the events                                              *)
(***************************************************************************)
-----------------------------------------------------------------------------
(* Loops.  The library's theorems on induction take an operator, so induction over the natural     *)
(* numbers is taken from the well-foundedness of the subset order on finite sets.                  *)

LEMMA LeastNumber ==
  ASSUME NEW T \in SUBSET Nat, T # {}
  PROVE  \E n \in T : \A m \in T : n <= m
<1> DEFINE Starts == {0..n : n \in T}
<1>1. \A n \in T : 0..n \in FiniteSubsetsOf(Nat)
  BY FS_Interval DEF FiniteSubsetsOf
<1>2. Starts \subseteq FiniteSubsetsOf(Nat) /\ Starts # {}
  BY <1>1
<1>3. PICK x \in Starts : \A y \in Starts : ~(<<y, x>> \in StrictSubsetOrdering(Nat))
  BY <1>2, FS_StrictSubsetOrderingWellFounded, WFMin
<1>4. PICK n \in T : x = 0..n
  OBVIOUS
<1>5. ASSUME NEW m \in T, ~(n <= m)
      PROVE  FALSE
  <2>1. 0..m \in Starts /\ 0..m \subseteq 0..n /\ n \in 0..n /\ n \notin 0..m
    BY <1>5
  <2>2. <<0..m, 0..n>> \in StrictSubsetOrdering(Nat)
    BY <2>1 DEF StrictSubsetOrdering
  <2> QED BY <1>3, <1>4, <2>1, <2>2
<1> QED BY <1>5

LEMMA Induction ==
  ASSUME NEW T, 0 \in T, \A n \in Nat : n \in T => n + 1 \in T
  PROVE  \A n \in Nat : n \in T
<1> SUFFICES ASSUME Nat \ T # {} PROVE FALSE
  OBVIOUS
<1>1. PICK n \in Nat \ T : \A m \in Nat \ T : n <= m
  BY LeastNumber
<1>2. n # 0 /\ n - 1 \in Nat /\ (n - 1) + 1 = n /\ ~(n <= n - 1)
  BY <1>1
<1>3. n - 1 \in T
  BY <1>1, <1>2
<1> QED BY <1>1, <1>2, <1>3

LEMMA UpTo ==
  ASSUME NEW n \in Nat, NEW T, 0 \in T, \A i \in 1..n : i - 1 \in T => i \in T
  PROVE  \A i \in 0..n : i \in T
<1>1. PICK U : U = {i \in Nat : i <= n => i \in T}
  OBVIOUS
<1>2. 0 \in U
  BY <1>1
<1>3. ASSUME NEW i \in Nat, i \in U PROVE i + 1 \in U
  <2>1. i + 1 <= n => i + 1 \in 1..n /\ i \in T /\ (i + 1) - 1 = i
    BY <1>1, <1>3
  <2>2. i + 1 <= n => i + 1 \in T
    BY <2>1
  <2> QED BY <1>1, <2>2
<1>4. \A i \in Nat : i \in U
  BY <1>2, <1>3, Induction
<1> QED BY <1>1, <1>4

\* A loop of n turns from first.
Loop(f, first, n, Step) ==
  f = [i \in 0..n |-> IF i = 0 THEN first ELSE Step[i][f[i - 1]]]

Follows(f, first, n, Step) == f[0] = first /\ \A i \in 1..n : f[i] = Step[i][f[i - 1]]

LEMMA LoopTurns ==
  ASSUME NEW f, NEW first, NEW n \in Nat, NEW Step, Loop(f, first, n, Step)
  PROVE  Follows(f, first, n, Step)
<1>1. PICK g : g = f
  OBVIOUS
<1>2. f = [i \in 0..n |-> IF i = 0 THEN first ELSE Step[i][g[i - 1]]]
  BY <1>1 DEF Loop
<1>3. 0 \in 0..n
  OBVIOUS
<1>4. f[0] = first
  BY <1>2, <1>3
<1>5. ASSUME NEW i \in 1..n PROVE f[i] = Step[i][f[i - 1]]
  <2>1. i \in 0..n /\ i # 0
    OBVIOUS
  <2>2. f[i] = Step[i][g[i - 1]]
    BY <1>2, <2>1
  <2> QED BY <1>1, <2>2
<1> QED BY <1>4, <1>5 DEF Follows

LEMMA LoopExists ==
  ASSUME NEW first, NEW Step
  PROVE  \A n \in Nat : \E f : Loop(f, first, n, Step)
<1> DEFINE T == {n \in Nat : \E f : Loop(f, first, n, Step)}
<1>1. 0 \in T
  <2>1. PICK f : f = [i \in 0..0 |-> first]
    OBVIOUS
  <2>2. Loop(f, first, 0, Step)
    BY <2>1 DEF Loop
  <2> QED BY <2>2
<1>2. ASSUME NEW n \in Nat, n \in T
      PROVE  n + 1 \in T
  <2>1. PICK f : Loop(f, first, n, Step)
    BY <1>2
  <2>2. f[0] = first /\ \A i \in 1..n : f[i] = Step[i][f[i - 1]]
    <3>1. Follows(f, first, n, Step)
      BY <2>1, LoopTurns
    <3> QED BY <3>1 DEF Follows
  <2>3. PICK next : next = Step[n + 1][f[n]]
    OBVIOUS
  <2>4. PICK g : g = [i \in 0..(n + 1) |-> IF i = n + 1 THEN next ELSE f[i]]
    OBVIOUS
  <2>5. g[n + 1] = next /\ \A i \in 0..n : g[i] = f[i]
    BY <2>4
  <2>6. ASSUME NEW i \in 0..(n + 1)
        PROVE  g[i] = IF i = 0 THEN first ELSE Step[i][g[i - 1]]
    <3>1. CASE i = 0
      BY <2>5, <2>2, <3>1
    <3>2. CASE i \in 1..n
      <4>1. i - 1 \in 0..n /\ i \in 0..n /\ i # 0
        BY <3>2
      <4>2. g[i] = f[i] /\ g[i - 1] = f[i - 1] /\ f[i] = Step[i][f[i - 1]]
        BY <2>5, <2>2, <3>2, <4>1
      <4> QED BY <4>1, <4>2
    <3>3. CASE i = n + 1
      <4>1. i - 1 = n /\ n \in 0..n /\ i # 0
        BY <3>3
      <4> QED BY <2>3, <2>5, <3>3, <4>1
    <3> QED BY <3>1, <3>2, <3>3
  <2>7. g = [i \in 0..(n + 1) |-> g[i]]
    BY <2>4
  <2>8. Loop(g, first, n + 1, Step)
    BY <2>6, <2>7 DEF Loop
  <2> QED BY <2>8
<1>3. PICK K : K = T
  OBVIOUS
<1>4. \A n \in Nat : n \in K
  <2>1. 0 \in K /\ \A n \in Nat : n \in K => n + 1 \in K
    BY <1>1, <1>2, <1>3
  <2> QED BY <2>1, Induction
<1> QED BY <1>3, <1>4

\* A loop whose turns stay within sets of values, one for each number of turns.
Turns(h, first, n, Step, Values) ==
  /\ h = [i \in 0..n |-> h[i]] /\ h[0] = first
  /\ \A i \in 1..n : h[i - 1] \in Values[i - 1] /\ h[i] = Step[i][h[i - 1]]

LEMMA LoopWithin ==
  ASSUME NEW n \in Nat, NEW Values, NEW first \in Values[0], NEW Step,
         \A i \in 1..n : \A x \in Values[i - 1] : Step[i][x] \in Values[i]
  PROVE  \E h : Turns(h, first, n, Step, Values)
<1>1. PICK h : Loop(h, first, n, Step)
  BY LoopExists
<1>2. h[0] = first /\ \A i \in 1..n : h[i] = Step[i][h[i - 1]]
  <2>1. Follows(h, first, n, Step)
    BY <1>1, LoopTurns
  <2> QED BY <2>1 DEF Follows
<1>3. PICK T : T = {i \in 0..n : h[i] \in Values[i]}
  OBVIOUS
<1>4. 0 \in T
  <2>1. 0 \in 0..n
    OBVIOUS
  <2> QED BY <1>2, <1>3, <2>1
<1>5. ASSUME NEW i \in 1..n, i - 1 \in T PROVE i \in T
  <2>1. h[i - 1] \in Values[i - 1] /\ i \in 0..n
    BY <1>3, <1>5
  <2> QED BY <1>2, <1>3, <2>1
<1>6. \A i \in 0..n : i \in T
  BY <1>4, <1>5, UpTo
<1>7. \A i \in 1..n : h[i - 1] \in Values[i - 1]
  <2> SUFFICES ASSUME NEW i \in 1..n PROVE h[i - 1] \in Values[i - 1]
    OBVIOUS
  <2>1. i - 1 \in 0..n
    OBVIOUS
  <2> QED BY <1>3, <1>6, <2>1
<1>8. h = [i \in 0..n |-> h[i]]
  BY <1>1 DEF Loop
<1> QED BY <1>2, <1>7, <1>8 DEF Turns

-----------------------------------------------------------------------------
(* Sorting *)

TotalOrder(R, n) ==
  /\ \A j, k \in 1..n : <<j, k>> \in R \/ <<k, j>> \in R
  /\ \A j, k \in 1..n : <<j, k>> \in R /\ <<k, j>> \in R => j = k
  /\ \A i, j, k \in 1..n : <<i, j>> \in R /\ <<j, k>> \in R => <<i, k>> \in R

\* The rank of k: how many are not after it.
Ranks(R, n) == [k \in 1..n |-> Cardinality({j \in 1..n : <<j, k>> \in R})]

LEMMA RanksIncrease ==
  ASSUME NEW n \in Nat, NEW R, TotalOrder(R, n), NEW rank, rank = Ranks(R, n)
  PROVE  /\ rank \in [1..n -> 1..n]
         /\ \A j, k \in 1..n : j # k /\ <<j, k>> \in R => rank[j] < rank[k]
<1> DEFINE Upto(k) == {j \in 1..n : <<j, k>> \in R}
<1>1. IsFiniteSet(1..n) /\ Cardinality(1..n) = n
  BY FS_Interval
<1>2. ASSUME NEW k \in 1..n
      PROVE  IsFiniteSet(Upto(k)) /\ Cardinality(Upto(k)) \in 1..n /\ k \in Upto(k)
  <2>1. Upto(k) \subseteq 1..n
    OBVIOUS
  <2>2. k \in Upto(k)
    BY DEF TotalOrder
  <2>3. IsFiniteSet(Upto(k)) /\ Cardinality(Upto(k)) <= n
    BY <1>1, <2>1, FS_Subset
  <2>4. Cardinality(Upto(k)) \in Nat /\ Cardinality(Upto(k)) # 0
    BY <2>2, <2>3, FS_CardinalityType, FS_EmptySet
  <2> QED BY <2>2, <2>3, <2>4
<1>3. \A k \in 1..n : rank[k] = Cardinality(Upto(k))
  BY DEF Ranks
<1>4. rank \in [1..n -> 1..n]
  <2>1. rank = [k \in 1..n |-> rank[k]]
    BY DEF Ranks
  <2>2. \A k \in 1..n : rank[k] \in 1..n
    BY <1>2, <1>3
  <2> QED BY <2>1, <2>2
<1>5. ASSUME NEW j \in 1..n, NEW k \in 1..n, j # k, <<j, k>> \in R
      PROVE  rank[j] < rank[k]
  <2>1. Upto(j) \subseteq Upto(k)
    BY <1>5 DEF TotalOrder
  <2>2. k \in Upto(k) /\ k \notin Upto(j)
    BY <1>5 DEF TotalOrder
  <2>3. IsFiniteSet(Upto(k)) /\ IsFiniteSet(Upto(j))
    BY <1>2
  <2>4. Cardinality(Upto(j)) <= Cardinality(Upto(k)) /\ Cardinality(Upto(j)) # Cardinality(Upto(k))
    <3> HIDE DEF Upto
    <3>1. Cardinality(Upto(j)) <= Cardinality(Upto(k))
             /\ (Cardinality(Upto(k)) = Cardinality(Upto(j)) => Upto(k) = Upto(j))
      BY <2>1, <2>3, FS_Subset
    <3> QED BY <2>2, <3>1
  <2>5. rank[j] \in 1..n /\ rank[k] \in 1..n
    BY <1>4
  <2>6. rank[j] = Cardinality(Upto(j)) /\ rank[k] = Cardinality(Upto(k))
    BY <1>3
  <2> HIDE DEF Upto
  <2> QED BY <2>4, <2>5, <2>6
<1> QED BY <1>4, <1>5

Onto(f, n) == \A i \in 1..n : \E k \in 1..n : f[k] = i

LEMMA RanksAreAll ==
  ASSUME NEW n \in Nat, NEW R, TotalOrder(R, n), NEW rank, rank = Ranks(R, n)
  PROVE  Onto(rank, n)
<1>1. rank \in [1..n -> 1..n]
  BY RanksIncrease
<1>2. \A j, k \in 1..n : j # k /\ <<j, k>> \in R => rank[j] < rank[k]
  BY RanksIncrease
<1>3. ASSUME NEW j \in 1..n, NEW k \in 1..n, j # k
      PROVE  rank[j] # rank[k]
  <2>1. rank[j] < rank[k] \/ rank[k] < rank[j]
    BY <1>2, <1>3 DEF TotalOrder
  <2> QED BY <1>1, <2>1
<1>4. SUFFICES ASSUME NEW i \in 1..n, \A k \in 1..n : rank[k] # i
               PROVE  FALSE
  BY DEF Onto
<1>5. PICK T : T = (1..n) \ {i}
  OBVIOUS
<1>6. IsFiniteSet(1..n) /\ Cardinality(1..n) = n
  BY FS_Interval
<1>7. IsFiniteSet(T) /\ Cardinality(T) = n - 1
  BY <1>5, <1>6, FS_RemoveElement
<1>8. rank \in [1..n -> T]
  BY <1>1, <1>4, <1>5
<1>9. Cardinality(T) < Cardinality(1..n)
  BY <1>6, <1>7
<1>10. \E x, y \in 1..n : x # y /\ rank[x] = rank[y]
  BY <1>6, <1>7, <1>8, <1>9, FS_PigeonHole
<1> QED BY <1>3, <1>10

\* p says where each of the sorted events was.
Places(events, R, p) ==
  /\ SortedBy(events, R) = [i \in 1..Len(events) |-> events[p[i]]]
  /\ p \in [1..Len(events) -> 1..Len(events)]
  /\ \A i, j \in 1..Len(events) : i < j => <<p[i], p[j]>> \in R
  /\ \A k \in 1..Len(events) : \E i \in 1..Len(events) : p[i] = k

LEMMA SortedHas ==
  ASSUME NEW S, NEW events \in Seq(S), NEW R, TotalOrder(R, Len(events))
  PROVE  \E p : Places(events, R, p)
<1>1. PICK n \in Nat : n = Len(events) /\ DOMAIN events = 1..n
  BY LenProperties
<1>2. TotalOrder(R, n)
  BY <1>1
<1>3. PICK rank : rank = Ranks(R, n)
  OBVIOUS
<1>4. rank \in [1..n -> 1..n]
  BY <1>2, <1>3, RanksIncrease
<1>5. \A j, k \in 1..n : j # k /\ <<j, k>> \in R => rank[j] < rank[k]
  BY <1>2, <1>3, RanksIncrease
<1>6. \A i \in 1..n : \E k \in 1..n : rank[k] = i
  <2>1. Onto(rank, n)
    BY <1>2, <1>3, RanksAreAll
  <2> QED BY <2>1 DEF Onto
<1>7. PICK p : p = [i \in 1..n |-> CHOOSE k \in 1..n : rank[k] = i]
  OBVIOUS
<1>8. \A i \in 1..n : p[i] \in 1..n /\ rank[p[i]] = i
  BY <1>6, <1>7
<1>9. SortedBy(events, R) = [i \in 1..n |-> events[p[i]]]
  <2>1. \A k \in 1..n : rank[k] = Cardinality({j \in 1..n : <<j, k>> \in R})
    BY <1>3 DEF Ranks
  <2>2. ASSUME NEW i \in 1..n
        PROVE  (CHOOSE k \in 1..n : Cardinality({j \in 1..n : <<j, k>> \in R}) = i) = p[i]
    BY <1>7, <2>1
  <2>3. SortedBy(events, R) = [i \in 1..n |-> events[CHOOSE k \in 1..n : Cardinality({j \in 1..n : <<j, k>> \in R}) = i]]
    BY <1>1 DEF SortedBy
  <2> QED BY <2>2, <2>3
<1>10. ASSUME NEW i \in 1..n, NEW j \in 1..n, i < j
       PROVE  <<p[i], p[j]>> \in R
  <2>1. p[i] \in 1..n /\ p[j] \in 1..n /\ rank[p[i]] = i /\ rank[p[j]] = j
    BY <1>8
  <2>2. p[i] # p[j]
    BY <1>10, <2>1
  <2>3. <<p[j], p[i]>> \in R => j < i
    BY <1>5, <2>1, <2>2
  <2> QED BY <1>2, <1>10, <2>1, <2>3 DEF TotalOrder
<1>11. ASSUME NEW k \in 1..n
       PROVE  \E i \in 1..n : p[i] = k
  <2>1. PICK i \in 1..n : i = rank[k]
    BY <1>4
  <2>2. p[i] \in 1..n /\ rank[p[i]] = rank[k]
    BY <1>8, <2>1
  <2>3. p[i] # k => rank[p[i]] # rank[k]
    <3>1. p[i] # k => rank[p[i]] < rank[k] \/ rank[k] < rank[p[i]]
      BY <1>2, <1>5, <2>2 DEF TotalOrder
    <3>2. rank[k] \in Nat /\ rank[p[i]] \in Nat
      BY <1>4, <2>2
    <3> QED BY <3>1, <3>2
  <2> QED BY <2>2, <2>3
<1>12. p \in [1..n -> 1..n]
  BY <1>7, <1>8
<1> QED BY <1>1, <1>9, <1>10, <1>11, <1>12 DEF Places
Timed(events) == \A i \in 1..Len(events) : events[i].start \in Int /\ events[i].end \in Int

LEMMA ByStartOrders ==
  ASSUME NEW S, NEW events \in Seq(S), Timed(events)
  PROVE  TotalOrder(ByStart(events), Len(events))
<1>1. PICK n \in Nat : n = Len(events) /\ DOMAIN events = 1..n
  BY LenProperties
<1>2. PICK start \in [1..n -> Int] : \A i \in 1..n : start[i] = events[i].start
  <2>1. [i \in 1..n |-> events[i].start] \in [1..n -> Int]
    BY <1>1 DEF Timed
  <2> QED BY <2>1
<1>3. \A j, k \in 1..n :
        <<j, k>> \in ByStart(events) <=> start[j] < start[k] \/ (start[j] = start[k] /\ j <= k)
  BY <1>1, <1>2 DEF ByStart
<1>4. \A j \in 1..n : start[j] \in Int
  OBVIOUS
<1>5. \A j, k \in 1..n : <<j, k>> \in ByStart(events) \/ <<k, j>> \in ByStart(events)
  <2> SUFFICES ASSUME NEW j \in 1..n, NEW k \in 1..n
               PROVE  <<j, k>> \in ByStart(events) \/ <<k, j>> \in ByStart(events)
    OBVIOUS
  <2>1. \/ start[j] < start[k] \/ (start[j] = start[k] /\ j <= k)
        \/ start[k] < start[j] \/ (start[k] = start[j] /\ k <= j)
    BY <1>4
  <2> QED BY <1>3, <2>1
<1>6. \A j, k \in 1..n : <<j, k>> \in ByStart(events) /\ <<k, j>> \in ByStart(events) => j = k
  <2> SUFFICES ASSUME NEW j \in 1..n, NEW k \in 1..n,
                      <<j, k>> \in ByStart(events), <<k, j>> \in ByStart(events)
               PROVE  j = k
    OBVIOUS
  <2>1. start[j] < start[k] \/ (start[j] = start[k] /\ j <= k)
    BY <1>3
  <2>2. start[k] < start[j] \/ (start[k] = start[j] /\ k <= j)
    BY <1>3
  <2> QED BY <1>4, <2>1, <2>2
<1>7. ASSUME NEW i \in 1..n, NEW j \in 1..n, NEW k \in 1..n,
             <<i, j>> \in ByStart(events), <<j, k>> \in ByStart(events)
      PROVE  <<i, k>> \in ByStart(events)
  <2>1. start[i] \in Int /\ start[j] \in Int /\ start[k] \in Int
    OBVIOUS
  <2>2. start[i] < start[j] \/ (start[i] = start[j] /\ i <= j)
    BY <1>3, <1>7
  <2>3. start[j] < start[k] \/ (start[j] = start[k] /\ j <= k)
    BY <1>3, <1>7
  <2>4. start[i] < start[k] \/ (start[i] = start[k] /\ i <= k)
    BY <2>1, <2>2, <2>3
  <2> QED BY <1>3, <2>4
<1> QED BY <1>1, <1>5, <1>6, <1>7 DEF TotalOrder

LEMMA BySpanOrders ==
  ASSUME NEW S, NEW events \in Seq(S), Timed(events)
  PROVE  TotalOrder(BySpan(events), Len(events))
<1>1. PICK n \in Nat : n = Len(events) /\ DOMAIN events = 1..n
  BY LenProperties
<1>2. PICK start \in [1..n -> Int] : \A i \in 1..n : start[i] = events[i].start
  <2>1. [i \in 1..n |-> events[i].start] \in [1..n -> Int]
    BY <1>1 DEF Timed
  <2> QED BY <2>1
<1>3. PICK end \in [1..n -> Int] : \A i \in 1..n : end[i] = events[i].end
  <2>1. [i \in 1..n |-> events[i].end] \in [1..n -> Int]
    BY <1>1 DEF Timed
  <2> QED BY <2>1
<1>4. \A j, k \in 1..n :
        <<j, k>> \in BySpan(events) <=>
          \/ start[j] < start[k]
          \/ start[j] = start[k] /\ (end[j] > end[k] \/ (end[j] = end[k] /\ j <= k))
  BY <1>1, <1>2, <1>3 DEF BySpan
<1>5. \A j \in 1..n : start[j] \in Int /\ end[j] \in Int
  OBVIOUS
<1> DEFINE Before(j, k) ==
      \/ start[j] < start[k]
      \/ start[j] = start[k] /\ (end[j] > end[k] \/ (end[j] = end[k] /\ j <= k))
<1>6. \A j, k \in 1..n : <<j, k>> \in BySpan(events) \/ <<k, j>> \in BySpan(events)
  <2> SUFFICES ASSUME NEW j \in 1..n, NEW k \in 1..n
               PROVE  <<j, k>> \in BySpan(events) \/ <<k, j>> \in BySpan(events)
    OBVIOUS
  <2>1. Before(j, k) \/ Before(k, j)
    BY <1>5
  <2> QED BY <1>4, <2>1
<1>7. \A j, k \in 1..n : <<j, k>> \in BySpan(events) /\ <<k, j>> \in BySpan(events) => j = k
  <2> SUFFICES ASSUME NEW j \in 1..n, NEW k \in 1..n,
                      <<j, k>> \in BySpan(events), <<k, j>> \in BySpan(events)
               PROVE  j = k
    OBVIOUS
  <2>1. Before(j, k) /\ Before(k, j)
    BY <1>4
  <2> QED BY <1>5, <2>1
<1>8. ASSUME NEW i \in 1..n, NEW j \in 1..n, NEW k \in 1..n,
             <<i, j>> \in BySpan(events), <<j, k>> \in BySpan(events)
      PROVE  <<i, k>> \in BySpan(events)
  <2>1. Before(i, j) /\ Before(j, k)
    BY <1>4, <1>8
  <2>2. Before(i, k)
    BY <1>5, <2>1
  <2> QED BY <1>4, <2>2
<1> QED BY <1>1, <1>6, <1>7, <1>8 DEF TotalOrder

\* sorted has the same events, the earlier ones first.
Rearranged(events, sorted, S) ==
  /\ sorted \in Seq(S) /\ Len(sorted) = Len(events)
  /\ \A i, j \in 1..Len(events) : i <= j => sorted[i].start <= sorted[j].start
  /\ \A i \in 1..Len(events) : \E k \in 1..Len(events) : sorted[i] = events[k]
  /\ \A k \in 1..Len(events) : \E i \in 1..Len(events) : sorted[i] = events[k]

LEMMA SortedRearranges ==
  ASSUME NEW S, NEW events \in Seq(S), Timed(events), NEW R, TotalOrder(R, Len(events)),
         \A j, k \in 1..Len(events) : <<j, k>> \in R => events[j].start <= events[k].start
  PROVE  Rearranged(events, SortedBy(events, R), S)
<1>1. PICK n \in Nat : n = Len(events) /\ \A i \in 1..n : events[i] \in S
  BY LenProperties
<1>2. PICK p : Places(events, R, p)
  BY SortedHas
<1>3. PICK sorted : sorted = SortedBy(events, R)
  OBVIOUS
<1>4. /\ sorted = [i \in 1..n |-> events[p[i]]] /\ p \in [1..n -> 1..n]
      /\ \A i, j \in 1..n : i < j => <<p[i], p[j]>> \in R
      /\ \A k \in 1..n : \E i \in 1..n : p[i] = k
  BY <1>1, <1>2, <1>3 DEF Places
<1>5. sorted \in Seq(S) /\ Len(sorted) = n
  <2>1. sorted \in [1..n -> S]
    BY <1>1, <1>4
  <2> QED BY <2>1
<1>6. ASSUME NEW i \in 1..n, NEW j \in 1..n, i <= j
      PROVE  sorted[i].start <= sorted[j].start
  <2>1. sorted[i] = events[p[i]] /\ sorted[j] = events[p[j]] /\ p[i] \in 1..n /\ p[j] \in 1..n
    BY <1>4
  <2>2. CASE i = j
    BY <1>1, <2>1, <2>2 DEF Timed
  <2>3. CASE i < j
    BY <1>1, <1>4, <2>1, <2>3
  <2> QED BY <1>6, <2>2, <2>3
<1>7. \A i \in 1..n : \E k \in 1..n : sorted[i] = events[k]
  BY <1>4
<1>8. \A k \in 1..n : \E i \in 1..n : sorted[i] = events[k]
  BY <1>4
<1> QED BY <1>1, <1>3, <1>5, <1>6, <1>7, <1>8 DEF Rearranged

LEMMA OrderedByStartIs ==
  ASSUME NEW S, NEW events \in Seq(S), Timed(events)
  PROVE  Rearranged(events, OrderedByStart(events), S)
<1>1. PICK n \in Nat : n = Len(events) /\ DOMAIN events = 1..n
  BY LenProperties
<1>2. \A j, k \in 1..n : <<j, k>> \in ByStart(events) => events[j].start <= events[k].start
  BY <1>1 DEF ByStart, Timed
<1>3. TotalOrder(ByStart(events), Len(events))
  BY ByStartOrders
<1> QED BY <1>1, <1>2, <1>3, SortedRearranges DEF OrderedByStart

LEMMA OrderedIs ==
  ASSUME NEW S, NEW events \in Seq(S), Timed(events)
  PROVE  Rearranged(events, Ordered(events), S)
<1>1. PICK n \in Nat : n = Len(events) /\ DOMAIN events = 1..n
  BY LenProperties
<1>2. \A j, k \in 1..n : <<j, k>> \in BySpan(events) => events[j].start <= events[k].start
  BY <1>1 DEF BySpan, Timed
<1>3. TotalOrder(BySpan(events), Len(events))
  BY BySpanOrders
<1> QED BY <1>1, <1>2, <1>3, SortedRearranges DEF Ordered
-----------------------------------------------------------------------------
(* The timeline *)

\* The events of a clock that goes forward.
Spans == {e \in Event : e.start <= e.end}

Segment == [s : Int, e : Int]

LEMMA GreaterOf ==
  ASSUME NEW a \in Int, NEW b \in Int
  PROVE  Max({a, b}) \in {a, b} /\ Max({a, b}) >= a /\ Max({a, b}) >= b
<1>1. \E x \in {a, b} : \A y \in {a, b} : x >= y
  OBVIOUS
<1> QED BY <1>1 DEF Max

LEMMA LesserOf ==
  ASSUME NEW a \in Int, NEW b \in Int
  PROVE  Min({a, b}) \in {a, b} /\ Min({a, b}) <= a /\ Min({a, b}) <= b
<1>1. \E x \in {a, b} : \A y \in {a, b} : x =< y
  OBVIOUS
<1> QED BY <1>1 DEF Min

LEMMA SpanIs ==
  ASSUME NEW e \in Spans
  PROVE  e.start \in Int /\ e.end \in Int /\ e.start <= e.end
BY DEF Spans, Event

LEMMA SpansTimed ==
  ASSUME NEW events \in Seq(Spans)
  PROVE  Timed(events)
BY LenProperties DEF Timed, Spans, Event

NewSegment(x, e, y) ==
  /\ x = <<>> \/ e.start - x[Len(x)].e > GapThreshold
  /\ Len(y) = Len(x) + 1 /\ y[Len(x) + 1] = [s |-> e.start, e |-> e.end]
  /\ \A k \in 1..Len(x) : y[k] = x[k]

Extended(x, e, y) ==
  /\ x # <<>> /\ e.start - x[Len(x)].e <= GapThreshold
  /\ Len(y) = Len(x) /\ y[Len(x)].s = x[Len(x)].s
  /\ y[Len(x)].e >= x[Len(x)].e /\ y[Len(x)].e >= e.end /\ y[Len(x)].e \in {x[Len(x)].e, e.end}
  /\ \A k \in 1..Len(x) - 1 : y[k] = x[k]

LEMMA GrownIs ==
  ASSUME NEW x \in Seq(Segment), NEW e \in Spans, NEW y, y = Grown(x, e)
  PROVE  y \in Seq(Segment) /\ (NewSegment(x, e, y) \/ Extended(x, e, y))
<1>1. PICK n \in Nat : n = Len(x) /\ DOMAIN x = 1..n /\ \A k \in 1..n : x[k] \in Segment
  BY LenProperties
<1>2. e.start \in Int /\ e.end \in Int
  BY SpanIs
<1>3. GapThreshold \in Nat
  BY ProfileDataAssumption
<1>4. CASE x = <<>> \/ e.start - x[n].e > GapThreshold
  <2>1. PICK seg : seg = [s |-> e.start, e |-> e.end]
    OBVIOUS
  <2>2. seg \in Segment
    BY <1>2, <2>1 DEF Segment
  <2>3. y = Append(x, seg)
    BY <1>1, <1>4, <2>1 DEF Grown, Last
  <2>4. y \in Seq(Segment) /\ Len(y) = n + 1 /\ y[n + 1] = seg /\ \A k \in 1..n : y[k] = x[k]
    BY <1>1, <2>2, <2>3
  <2> QED BY <1>1, <1>4, <2>1, <2>4 DEF NewSegment
<1>5. CASE ~(x = <<>> \/ e.start - x[n].e > GapThreshold)
  <2>1. n \in 1..n
    BY <1>1, <1>5, EmptySeq
  <2>2. x[n].e \in Int /\ x[n].s \in Int /\ x[n] = [s |-> x[n].s, e |-> x[n].e]
    BY <1>1, <2>1 DEF Segment
  <2>3. PICK m \in {x[n].e, e.end} : m = Max({x[n].e, e.end}) /\ m >= x[n].e /\ m >= e.end
    BY <1>2, <2>2, GreaterOf
  <2>4. PICK seg : seg = [s |-> x[n].s, e |-> m]
    OBVIOUS
  <2>5. seg \in Segment /\ seg.s = x[n].s /\ seg.e = m
    BY <1>2, <2>2, <2>4 DEF Segment
  <2>6. y = [x EXCEPT ![n] = seg]
    <3>1. [x[n] EXCEPT !.e = m] = seg
      BY <2>2, <2>4
    <3>2. y = [x EXCEPT ![n].e = Max({@, e.end})]
      BY <1>1, <1>5 DEF Grown, Last
    <3>3. y = [x EXCEPT ![n] = [x[n] EXCEPT !.e = Max({x[n].e, e.end})]]
      BY <2>1, <3>2
    <3> QED BY <2>3, <3>1, <3>3
  <2>7. y \in Seq(Segment) /\ Len(y) = n /\ \A k \in 1..n : y[k] = IF k = n THEN seg ELSE x[k]
    BY <1>1, <2>1, <2>5, <2>6, ExceptSeq
  <2>8. y[n] = seg /\ \A k \in 1..n - 1 : y[k] = x[k]
    BY <2>1, <2>7
  <2>9. e.start - x[n].e <= GapThreshold
    BY <1>2, <1>3, <1>5, <2>2
  <2> QED BY <1>1, <1>5, <2>3, <2>5, <2>7, <2>8, <2>9 DEF Extended
<1> QED BY <1>4, <1>5
Inside(e, seg) == seg.s <= e.start /\ e.end <= seg.e

Off(s, e, a, b) == e <= a \/ s >= b

\* From a to b none of the first i events of o ran, and that is long enough to collapse.
Idle(o, i, a, b) == b - a > GapThreshold /\ \A j \in 1..i : Off(o[j].start, o[j].end, a, b)

Parted(x) ==
  /\ \A k \in 1..Len(x) : x[k].s <= x[k].e
  /\ \A k, m \in 1..Len(x) : k < m => x[m].s - x[k].e > GapThreshold

Holding(x, o, i) == \A j \in 1..i : \E k \in 1..Len(x) : Inside(o[j], x[k])

Begun(x, o, i) == IF i = 0 THEN x = <<>> ELSE x # <<>> /\ x[Len(x)].s <= o[i].start

Apart(x, o, i) ==
  \A a, b \in Int : Idle(o, i, a, b) => \A k \in 1..Len(x) : Off(x[k].s, x[k].e, a, b)

\* x are the segments of the first i events of o.
SegmentsOf(x, o, i) ==
  x \in Seq(Segment) /\ Parted(x) /\ Holding(x, o, i) /\ Begun(x, o, i) /\ Apart(x, o, i)

LEMMA IdleBefore ==
  ASSUME NEW o, NEW i \in Nat, NEW a, NEW b, Idle(o, i, a, b)
  PROVE  Idle(o, i - 1, a, b)
<1>1. \A j \in 1..i - 1 : j \in 1..i
  OBVIOUS
<1> QED BY <1>1 DEF Idle

LEMMA SegmentIs ==
  ASSUME NEW x \in Seq(Segment), NEW k \in 1..Len(x)
  PROVE  x[k].s \in Int /\ x[k].e \in Int
<1>1. x[k] \in Segment
  BY LenProperties
<1> QED BY <1>1 DEF Segment

LEMMA NewSegmentHolds ==
  ASSUME NEW o \in Seq(Spans), \A i, j \in 1..Len(o) : i <= j => o[i].start <= o[j].start,
         NEW i \in 1..Len(o), NEW x, SegmentsOf(x, o, i - 1),
         NEW y \in Seq(Segment), NewSegment(x, o[i], y)
  PROVE  SegmentsOf(y, o, i)
<1>1. PICK n \in Nat : n = Len(x)
  BY LenProperties DEF SegmentsOf
<1>2. GapThreshold \in Nat
  BY ProfileDataAssumption
<1>3. PICK e \in Spans : e = o[i]
  BY LenProperties
<1>4. e.start \in Int /\ e.end \in Int /\ e.start <= e.end
  BY SpanIs
<1>5. /\ Len(y) = n + 1 /\ y[n + 1].s = e.start /\ y[n + 1].e = e.end
      /\ \A k \in 1..n : y[k] = x[k]
      /\ x = <<>> \/ e.start - x[n].e > GapThreshold
  BY <1>1, <1>3 DEF NewSegment
<1>6. \A k \in 1..n : x[k].s \in Int /\ x[k].e \in Int
  BY <1>1, SegmentIs DEF SegmentsOf
<1>7. \A k \in 1..n : x[k].s <= x[k].e
  BY <1>1 DEF SegmentsOf, Parted
<1>8. \A k, m \in 1..n : k < m => x[m].s - x[k].e > GapThreshold
  BY <1>1 DEF SegmentsOf, Parted
<1>9. ASSUME NEW k \in 1..n PROVE e.start - x[k].e > GapThreshold
  <2>1. n \in 1..n /\ x # <<>>
    BY <1>1, <1>9
  <2>2. CASE k = n
    BY <1>5, <2>1, <2>2
  <2>3. CASE k < n
    <3>1. x[n].s - x[k].e > GapThreshold /\ x[n].s <= x[n].e /\ e.start - x[n].e > GapThreshold
      BY <1>5, <1>7, <1>8, <2>1, <2>3
    <3>2. x[k].e \in Int /\ x[n].s \in Int /\ x[n].e \in Int
      BY <1>6, <2>1
    <3>3. PICK a \in Int, b \in Int, d \in Int : a = x[k].e /\ b = x[n].s /\ d = x[n].e
      BY <3>2
    <3>4. b - a > GapThreshold /\ b <= d /\ e.start - d > GapThreshold
      BY <3>1, <3>3
    <3>5. e.start - a > GapThreshold
      BY <1>2, <1>4, <3>4
    <3> QED BY <3>3, <3>5
  <2> QED BY <2>2, <2>3
<1>10. Parted(y)
  <2>1. ASSUME NEW k \in 1..n + 1 PROVE y[k].s <= y[k].e
    <3>1. CASE k = n + 1
      BY <1>4, <1>5, <3>1
    <3>2. CASE k \in 1..n
      BY <1>5, <1>7, <3>2
    <3> QED BY <3>1, <3>2
  <2>2. ASSUME NEW k \in 1..n + 1, NEW m \in 1..n + 1, k < m
        PROVE  y[m].s - y[k].e > GapThreshold
    <3>1. k \in 1..n /\ y[k] = x[k]
      BY <1>5, <2>2
    <3>2. CASE m = n + 1
      BY <1>5, <1>9, <3>1, <3>2
    <3>3. CASE m \in 1..n
      BY <1>5, <1>8, <2>2, <3>1, <3>3
    <3> QED BY <3>2, <3>3
  <2> QED BY <1>5, <2>1, <2>2 DEF Parted
<1>11. Holding(y, o, i)
  <2> SUFFICES ASSUME NEW j \in 1..i PROVE \E k \in 1..n + 1 : Inside(o[j], y[k])
    BY <1>5 DEF Holding
  <2>1. CASE j = i
    <3>1. n + 1 \in 1..n + 1 /\ Inside(o[j], y[n + 1])
      BY <1>3, <1>4, <1>5, <2>1 DEF Inside
    <3> QED BY <3>1
  <2>2. CASE j \in 1..i - 1
    <3>1. PICK k \in 1..n : Inside(o[j], x[k])
      BY <1>1, <2>2 DEF SegmentsOf, Holding
    <3>2. k \in 1..n + 1 /\ Inside(o[j], y[k])
      BY <1>5, <3>1
    <3> QED BY <3>2
  <2> QED BY <2>1, <2>2
<1>12. Begun(y, o, i)
  <2>1. y # <<>>
    BY <1>5, EmptySeq
  <2>2. y[n + 1].s <= o[i].start
    BY <1>3, <1>4, <1>5
  <2> QED BY <1>5, <2>1, <2>2 DEF Begun
<1>13. Apart(y, o, i)
  <2> SUFFICES ASSUME NEW a \in Int, NEW b \in Int, Idle(o, i, a, b), NEW k \in 1..n + 1
               PROVE  Off(y[k].s, y[k].e, a, b)
    BY <1>5 DEF Apart
  <2>1. CASE k = n + 1
    <3>1. Off(e.start, e.end, a, b)
      BY <1>3 DEF Idle
    <3> QED BY <1>5, <2>1, <3>1
  <2>2. CASE k \in 1..n
    <3>1. Idle(o, i - 1, a, b)
      BY LenProperties, IdleBefore
    <3>2. Off(x[k].s, x[k].e, a, b)
      BY <1>1, <2>2, <3>1 DEF SegmentsOf, Apart
    <3> QED BY <1>5, <2>2, <3>2
  <2> QED BY <2>1, <2>2
<1> QED BY <1>10, <1>11, <1>12, <1>13 DEF SegmentsOf

LEMMA ExtendedHolds ==
  ASSUME NEW o \in Seq(Spans), \A i, j \in 1..Len(o) : i <= j => o[i].start <= o[j].start,
         NEW i \in 1..Len(o), NEW x, SegmentsOf(x, o, i - 1),
         NEW y \in Seq(Segment), Extended(x, o[i], y)
  PROVE  SegmentsOf(y, o, i)
<1>1. PICK n \in Nat : n = Len(x)
  BY LenProperties DEF SegmentsOf
<1>2. GapThreshold \in Nat
  BY ProfileDataAssumption
<1>3. PICK e \in Spans : e = o[i]
  BY LenProperties
<1>4. e.start \in Int /\ e.end \in Int /\ e.start <= e.end
  BY SpanIs
<1>5. /\ Len(y) = n /\ y[n].s = x[n].s
      /\ y[n].e >= x[n].e /\ y[n].e >= e.end /\ y[n].e \in {x[n].e, e.end}
      /\ \A k \in 1..n - 1 : y[k] = x[k]
      /\ x # <<>> /\ e.start - x[n].e <= GapThreshold
  BY <1>1, <1>3 DEF Extended
<1>6. \A k \in 1..n : x[k].s \in Int /\ x[k].e \in Int
  BY <1>1, SegmentIs DEF SegmentsOf
<1>7. \A k \in 1..n : x[k].s <= x[k].e
  BY <1>1 DEF SegmentsOf, Parted
<1>8. \A k, m \in 1..n : k < m => x[m].s - x[k].e > GapThreshold
  BY <1>1 DEF SegmentsOf, Parted
<1>9. n \in 1..n
  BY <1>1, <1>5, EmptySeq DEF SegmentsOf
<1>10. y[n].e \in Int /\ x[n].e \in Int /\ x[n].s \in Int
  BY <1>4, <1>5, <1>6, <1>9
<1>11. \A k \in 1..n : k # n => k \in 1..n - 1 /\ k < n
  OBVIOUS
<1>12. i - 1 # 0 /\ x[n].s <= o[i - 1].start
  BY <1>1, <1>5 DEF SegmentsOf, Begun
<1>13. x[n].s <= e.start
  <2>1. i - 1 \in 1..Len(o) /\ o[i - 1].start <= e.start
    BY <1>3, <1>12, LenProperties
  <2>2. o[i - 1].start \in Int
    BY <2>1, SpanIs, LenProperties
  <2> QED BY <1>4, <1>10, <1>12, <2>1, <2>2
<1>14. Parted(y)
  <2>1. ASSUME NEW k \in 1..n PROVE y[k].s <= y[k].e
    <3>1. CASE k = n
      BY <1>5, <1>7, <1>9, <1>10, <3>1
    <3>2. CASE k # n
      BY <1>5, <1>7, <1>11, <3>2
    <3> QED BY <3>1, <3>2
  <2>2. ASSUME NEW k \in 1..n, NEW m \in 1..n, k < m
        PROVE  y[m].s - y[k].e > GapThreshold
    <3>1. y[k] = x[k] /\ x[m].s - x[k].e > GapThreshold
      BY <1>5, <1>8, <2>2
    <3>2. y[m].s = x[m].s
      BY <1>5, <1>11
    <3> QED BY <3>1, <3>2
  <2> QED BY <1>5, <2>1, <2>2 DEF Parted
<1>15. Holding(y, o, i)
  <2> SUFFICES ASSUME NEW j \in 1..i PROVE \E k \in 1..n : Inside(o[j], y[k])
    BY <1>5 DEF Holding
  <2>1. CASE j = i
    <3>1. Inside(o[j], y[n])
      BY <1>3, <1>5, <1>13, <2>1 DEF Inside
    <3> QED BY <1>9, <3>1
  <2>2. CASE j \in 1..i - 1
    <3>1. PICK k \in 1..n : Inside(o[j], x[k])
      BY <1>1, <2>2 DEF SegmentsOf, Holding
    <3>2. CASE k # n
      BY <1>5, <1>11, <3>1, <3>2
    <3>3. CASE k = n
      <4>1. j \in 1..Len(o) /\ o[j] \in Spans
        BY <2>2, LenProperties
      <4>2. o[j].end \in Int
        BY <4>1, SpanIs
      <4>3. x[n].s <= o[j].start /\ o[j].end <= x[n].e
        BY <3>1, <3>3 DEF Inside
      <4>4. y[n].s <= o[j].start /\ o[j].end <= y[n].e
        BY <1>5, <1>10, <4>2, <4>3
      <4> QED BY <1>9, <4>4 DEF Inside
    <3> QED BY <3>2, <3>3
  <2> QED BY <2>1, <2>2
<1>16. Begun(y, o, i)
  <2>1. y # <<>>
    BY <1>1, <1>5, <1>9, EmptySeq
  <2>2. y[n].s <= o[i].start
    BY <1>3, <1>5, <1>13
  <2> QED BY <1>5, <2>1, <2>2 DEF Begun
<1>17. Apart(y, o, i)
  <2> SUFFICES ASSUME NEW a \in Int, NEW b \in Int, Idle(o, i, a, b), NEW k \in 1..n
               PROVE  Off(y[k].s, y[k].e, a, b)
    BY <1>5 DEF Apart
  <2>1. Idle(o, i - 1, a, b)
    BY LenProperties, IdleBefore
  <2>2. Off(x[k].s, x[k].e, a, b)
    BY <1>1, <2>1 DEF SegmentsOf, Apart
  <2>3. CASE k # n
    BY <1>5, <1>11, <2>2, <2>3
  <2>4. CASE k = n
    <3>1. (e.end <= a \/ e.start >= b) /\ b - a > GapThreshold
      BY <1>3 DEF Idle, Off
    <3>2. x[n].e <= a \/ x[n].s >= b
      BY <2>2, <2>4 DEF Off
    <3>3. x[n].e <= a => e.end <= a
      BY <1>2, <1>4, <1>5, <1>10, <3>1
    <3>4. y[n].e <= a \/ y[n].s >= b
      BY <1>5, <3>2, <3>3
    <3> QED BY <2>4, <3>4 DEF Off
  <2> QED BY <2>3, <2>4
<1> QED BY <1>14, <1>15, <1>16, <1>17 DEF SegmentsOf

LEMMA GrownHolds ==
  ASSUME NEW o \in Seq(Spans), \A i, j \in 1..Len(o) : i <= j => o[i].start <= o[j].start,
         NEW i \in 1..Len(o), NEW x, SegmentsOf(x, o, i - 1)
  PROVE  SegmentsOf(Grown(x, o[i]), o, i)
<1>1. PICK y : y = Grown(x, o[i])
  OBVIOUS
<1>2. x \in Seq(Segment) /\ o[i] \in Spans
  BY LenProperties DEF SegmentsOf
<1>3. y \in Seq(Segment) /\ (NewSegment(x, o[i], y) \/ Extended(x, o[i], y))
  BY <1>1, <1>2, GrownIs
<1> QED BY <1>1, <1>3, NewSegmentHolds, ExtendedHolds

LEMMA VisibleSegmentsAre ==
  ASSUME NEW events \in Seq(Spans), NEW o, o = OrderedByStart(events)
  PROVE  Rearranged(events, o, Spans) /\ SegmentsOf(VisibleSegments(events), o, Len(events))
<1>1. Rearranged(events, o, Spans)
  BY SpansTimed, OrderedByStartIs
<1>2. PICK n \in Nat : n = Len(events) /\ n = Len(o)
  BY <1>1, LenProperties DEF Rearranged
<1>3. o \in Seq(Spans) /\ \A i, j \in 1..Len(o) : i <= j => o[i].start <= o[j].start
  BY <1>1, <1>2 DEF Rearranged
<1>4. ASSUME NEW i \in 1..n, NEW x, SegmentsOf(x, o, i - 1)
      PROVE  SegmentsOf(Grown(x, o[i]), o, i)
  BY <1>2, <1>3, <1>4, GrownHolds
<1>5. SegmentsOf(<<>>, o, 0)
  <2>1. <<>> \in Seq(Segment) /\ Len(<<>>) = 0
    BY EmptySeq
  <2> QED BY <2>1 DEF SegmentsOf, Parted, Holding, Begun, Apart
<1>6. PICK Values : Values = [i \in 0..n |-> {x \in Seq(Segment) : SegmentsOf(x, o, i)}]
  OBVIOUS
<1>7. \A x, i : SegmentsOf(x, o, i) => x \in Seq(Segment)
  BY DEF SegmentsOf
<1>8. PICK Step : Step = [i \in 1..n |-> [x \in Values[i - 1] |-> Grown(x, o[i])]]
  OBVIOUS
<1>9. <<>> \in Values[0]
  BY <1>5, <1>6, <1>7
<1>10. ASSUME NEW i \in 1..n, NEW x \in Values[i - 1]
       PROVE  Step[i][x] = Grown(x, o[i]) /\ Step[i][x] \in Values[i]
  <2>1. i - 1 \in 0..n /\ i \in 0..n
    OBVIOUS
  <2>2. SegmentsOf(x, o, i - 1)
    BY <1>6, <2>1
  <2>3. Step[i][x] = Grown(x, o[i])
    BY <1>8
  <2> QED BY <1>4, <1>6, <1>7, <2>1, <2>2, <2>3
<1>11. PICK h : Turns(h, <<>>, n, Step, Values)
  BY <1>9, <1>10, LoopWithin
<1>12. h = [i \in 0..n |-> IF i = 0 THEN <<>> ELSE Grown(h[i - 1], o[i])]
  <2>1. \A i \in 1..n : h[i] = Grown(h[i - 1], o[i])
    BY <1>10, <1>11 DEF Turns
  <2>2. \A i \in 0..n : i # 0 => i \in 1..n
    OBVIOUS
  <2> QED BY <1>11, <2>1, <2>2 DEF Turns
<1>13. PICK f : f = CHOOSE found : found = [i \in 0..n |-> IF i = 0 THEN <<>> ELSE Grown(found[i - 1], o[i])]
  OBVIOUS
<1>14. f = [i \in 0..n |-> IF i = 0 THEN <<>> ELSE Grown(f[i - 1], o[i])]
  BY <1>12, <1>13
<1>15. VisibleSegments(events) = f[n]
  BY <1>2, <1>13 DEF VisibleSegments
<1>16. PICK T : T = {i \in 0..n : SegmentsOf(f[i], o, i)}
  OBVIOUS
<1>17. 0 \in T
  <2>1. 0 \in 0..n
    OBVIOUS
  <2>2. f[0] = <<>>
    BY <1>14, <2>1
  <2> QED BY <1>5, <1>16, <2>1, <2>2
<1>18. ASSUME NEW i \in 1..n, i - 1 \in T PROVE i \in T
  <2>1. i \in 0..n /\ i # 0
    OBVIOUS
  <2>2. f[i] = Grown(f[i - 1], o[i])
    BY <1>14, <2>1
  <2> QED BY <1>4, <1>16, <1>18, <2>1, <2>2
<1>19. \A i \in 0..n : i \in T
  BY <1>17, <1>18, UpTo
<1> QED BY <1>1, <1>2, <1>15, <1>16, <1>19

\* The segments of all events, in whatever order these are.
Covering(x, events) ==
  /\ x \in Seq(Segment) /\ Parted(x)
  /\ \A i \in 1..Len(events) : \E k \in 1..Len(x) : Inside(events[i], x[k])
  /\ \A a, b \in Int : Idle(events, Len(events), a, b) => \A k \in 1..Len(x) : Off(x[k].s, x[k].e, a, b)

LEMMA VisibleSegmentsCover ==
  ASSUME NEW events \in Seq(Spans)
  PROVE  Covering(VisibleSegments(events), events)
<1>1. PICK o : o = OrderedByStart(events)
  OBVIOUS
<1>2. PICK x : x = VisibleSegments(events)
  OBVIOUS
<1>3. PICK n \in Nat : n = Len(events)
  BY LenProperties
<1>4. SegmentsOf(x, o, n) /\ Rearranged(events, o, Spans)
  BY <1>1, <1>2, <1>3, VisibleSegmentsAre
<1>5. ASSUME NEW i \in 1..n PROVE \E k \in 1..Len(x) : Inside(events[i], x[k])
  <2>1. PICK j \in 1..n : o[j] = events[i]
    BY <1>3, <1>4 DEF Rearranged
  <2> QED BY <1>4, <2>1 DEF SegmentsOf, Holding
<1>6. ASSUME NEW a \in Int, NEW b \in Int, Idle(events, n, a, b), NEW k \in 1..Len(x)
      PROVE  Off(x[k].s, x[k].e, a, b)
  <2>1. ASSUME NEW j \in 1..n PROVE Off(o[j].start, o[j].end, a, b)
    <3>1. PICK i \in 1..n : o[j] = events[i]
      BY <1>3, <1>4 DEF Rearranged
    <3> QED BY <1>6, <3>1 DEF Idle
  <2>2. Idle(o, n, a, b)
    BY <1>6, <2>1 DEF Idle
  <2> QED BY <1>4, <2>2 DEF SegmentsOf, Apart
<1> QED BY <1>2, <1>3, <1>4, <1>5, <1>6 DEF Covering, SegmentsOf

LEMMA Covers ==
  ASSUME NEW events \in Seq(Spans), NEW x, Covering(x, events)
  PROVE  GapsAreIdle(x, events)
<1>1. PICK n \in Nat : n = Len(events) /\ DOMAIN events = 1..n
  BY LenProperties
<1>2. PICK l \in Nat : l = Len(x)
  BY LenProperties DEF Covering
<1>3. GapThreshold \in Nat
  BY ProfileDataAssumption
<1>4. \A k \in 1..l : x[k].s \in Int /\ x[k].e \in Int
  BY <1>2, SegmentIs DEF Covering
<1>5. SUFFICES ASSUME NEW i \in 1..l - 1
               PROVE  /\ x[i + 1].s - x[i].e > GapThreshold
                      /\ (x[i].e .. x[i + 1].s - 1) \cap Covered(events) = {}
  BY <1>2 DEF GapsAreIdle
<1>6. i \in 1..l /\ i + 1 \in 1..l /\ i < i + 1
  BY <1>5
<1>7. x[i + 1].s - x[i].e > GapThreshold
  BY <1>2, <1>6 DEF Covering, Parted
<1>8. ASSUME NEW j \in 1..n
      PROVE  (x[i].e .. x[i + 1].s - 1) \cap (events[j].start .. events[j].end - 1) = {}
  <2>1. events[j].start \in Int /\ events[j].end \in Int
    BY <1>1, SpanIs, LenProperties
  <2>2. PICK k \in 1..l : Inside(events[j], x[k])
    BY <1>1, <1>2 DEF Covering
  <2>3. k <= i => x[k].e <= x[i].e
    <3>1. CASE k = i
      BY <1>4, <1>6, <3>1
    <3>2. CASE k < i
      <4>1. x[i].s - x[k].e > GapThreshold /\ x[i].s <= x[i].e
        BY <1>2, <1>6, <3>2 DEF Covering, Parted
      <4>2. x[i].s \in Int /\ x[i].e \in Int /\ x[k].e \in Int
        BY <1>4, <1>6
      <4> QED BY <1>3, <4>1, <4>2
    <3> QED BY <3>1, <3>2
  <2>4. k >= i + 1 => x[i + 1].s <= x[k].s
    <3>1. CASE k = i + 1
      BY <1>4, <1>6, <3>1
    <3>2. CASE k > i + 1
      <4>1. x[k].s - x[i + 1].e > GapThreshold /\ x[i + 1].s <= x[i + 1].e
        BY <1>2, <1>6, <3>2 DEF Covering, Parted
      <4>2. x[i + 1].s \in Int /\ x[i + 1].e \in Int /\ x[k].s \in Int
        BY <1>4, <1>6
      <4> QED BY <1>3, <4>1, <4>2
    <3> QED BY <3>1, <3>2
  <2>5. x[k].s <= events[j].start /\ events[j].end <= x[k].e
    BY <2>2 DEF Inside
  <2>6. /\ x[k].s \in Int /\ x[k].e \in Int /\ x[i].e \in Int /\ x[i + 1].s \in Int
    BY <1>4, <1>6
  <2>7. k <= i \/ k >= i + 1
    OBVIOUS
  <2>8. ASSUME NEW t \in x[i].e .. x[i + 1].s - 1, t \in events[j].start .. events[j].end - 1
        PROVE  FALSE
    <3>1. t \in Int /\ x[i].e <= t /\ t < x[i + 1].s
      BY <2>6, <2>8
    <3>2. events[j].start <= t /\ t < events[j].end
      BY <2>1, <2>8, <3>1
    <3>3. x[k].s <= t /\ t < x[k].e
      BY <2>1, <2>5, <2>6, <3>1, <3>2
    <3>4. CASE k <= i
      BY <2>3, <2>6, <3>1, <3>3, <3>4
    <3>5. CASE k >= i + 1
      BY <2>4, <2>6, <3>1, <3>3, <3>5
    <3> QED BY <2>7, <3>4, <3>5
  <2> QED BY <2>8
<1>9. Covered(events) = UNION {events[j].start .. events[j].end - 1 : j \in 1..n}
  BY <1>1 DEF Covered
<1> QED BY <1>7, <1>8, <1>9

LEMMA Collapses ==
  ASSUME NEW events \in Seq(Spans), NEW x, Covering(x, events)
  PROVE  IdleIsCollapsed(x, events)
<1>1. PICK n \in Nat : n = Len(events) /\ DOMAIN events = 1..n
  BY LenProperties
<1>2. PICK l \in Nat : l = Len(x)
  BY LenProperties DEF Covering
<1>3. GapThreshold \in Nat /\ MaxTime \in Nat
  BY ProfileDataAssumption
<1>4. \A k \in 1..l : x[k].s \in Int /\ x[k].e \in Int /\ x[k].s <= x[k].e
  BY <1>2, SegmentIs DEF Covering, Parted
<1>5. SUFFICES ASSUME NEW a \in Int, NEW b \in Int, b - a > GapThreshold,
                      \A i \in 1..n : events[i].end <= a \/ events[i].start >= b,
                      NEW f \in 1..n, events[f].end <= a, NEW t \in 1..n, events[t].start >= b
               PROVE  \E i \in 1..l - 1 : x[i].e <= a /\ b <= x[i + 1].s
  <2>1. 0..MaxTime \subseteq Int
    BY <1>3
  <2> QED BY <1>1, <1>2, <2>1 DEF IdleIsCollapsed
<1>6. \A k \in 1..l : x[k].e <= a \/ x[k].s >= b
  <2>1. Idle(events, n, a, b)
    BY <1>5 DEF Idle, Off
  <2> QED BY <1>1, <1>2, <2>1 DEF Covering, Off
<1>7. PICK from \in 1..l : Inside(events[f], x[from])
  BY <1>1, <1>2 DEF Covering
<1>8. PICK to \in 1..l : Inside(events[t], x[to])
  BY <1>1, <1>2 DEF Covering
<1>9. x[from].s < b
  <2>1. events[f].start \in Int /\ events[f].end \in Int /\ events[f].start <= events[f].end
    BY <1>1, SpanIs, LenProperties
  <2> QED BY <1>3, <1>4, <1>5, <1>7, <2>1 DEF Inside
<1>10. x[to].e > a
  <2>1. events[t].start \in Int /\ events[t].end \in Int /\ events[t].start <= events[t].end
    BY <1>1, SpanIs, LenProperties
  <2> QED BY <1>3, <1>4, <1>5, <1>8, <2>1 DEF Inside
<1>11. PICK T : T = {k \in 1..l : x[k].s >= b}
  OBVIOUS
<1>12. to \in T /\ T \in SUBSET Nat
  BY <1>4, <1>6, <1>10, <1>11
<1>13. PICK m \in T : \A k \in T : m <= k
  BY <1>12, LeastNumber
<1>14. m \in 1..l /\ x[m].s >= b
  BY <1>11
<1>15. m # 1
  <2>1. SUFFICES ASSUME m = 1 PROVE FALSE
    OBVIOUS
  <2>2. CASE from = 1
    BY <1>4, <1>9, <1>14, <2>1, <2>2
  <2>3. CASE from # 1
    <3>1. x[from].s - x[m].e > GapThreshold
      BY <1>2, <1>14, <2>1, <2>3 DEF Covering, Parted
    <3> QED BY <1>3, <1>4, <1>9, <1>14, <3>1
  <2> QED BY <2>2, <2>3
<1>16. m - 1 \in 1..l /\ m - 1 \notin T
  BY <1>13, <1>14, <1>15
<1>17. x[m - 1].e <= a
  BY <1>6, <1>11, <1>16
<1>18. m - 1 \in 1..l - 1 /\ (m - 1) + 1 = m
  BY <1>14, <1>15
<1> QED BY <1>14, <1>17, <1>18

LEMMA Draws ==
  ASSUME NEW events \in Seq(Spans), NEW x, Covering(x, events)
  PROVE  DrawnInFull(x, events)
<1>1. PICK n \in Nat : n = Len(events) /\ DOMAIN events = 1..n
  BY LenProperties
<1>2. PICK l \in Nat : l = Len(x) /\ DOMAIN x = 1..l
  BY LenProperties DEF Covering
<1>3. GapThreshold \in Nat
  BY ProfileDataAssumption
<1>4. \A k \in 1..l : x[k].s \in Int /\ x[k].e \in Int
  BY <1>2, SegmentIs DEF Covering
<1>5. SUFFICES ASSUME NEW e \in Spans, e.end - e.start > 0, NEW i \in 1..n, e = events[i]
               PROVE  Pieces(e, x) = {[s |-> e.start, e |-> e.end]}
  <2>1. \A i \in 1..n : events[i] \in Spans
    BY <1>1, LenProperties
  <2> QED BY <1>1, <2>1 DEF DrawnInFull, Duration
<1>6. e.start \in Int /\ e.end \in Int
  BY SpanIs
<1>7. PICK k \in 1..l : Inside(e, x[k])
  BY <1>1, <1>2, <1>5 DEF Covering
<1>8. x[k].s <= e.start /\ e.end <= x[k].e
  BY <1>7 DEF Inside
<1>9. PICK drawn : drawn = {seg \in ToSet(x) : ~(e.end <= seg.s \/ e.start >= seg.e) /\ seg.e > seg.s}
  OBVIOUS
<1>10. drawn = {x[k]}
  <2>1. x[k] \in drawn
    <3>1. x[k] \in ToSet(x)
      BY <1>2 DEF ToSet
    <3>2. x[k].s \in Int /\ x[k].e \in Int
      BY <1>4
    <3>3. ~(e.end <= x[k].s \/ e.start >= x[k].e) /\ x[k].e > x[k].s
      BY <1>5, <1>6, <1>8, <3>2
    <3> QED BY <1>9, <3>1, <3>3
  <2>2. ASSUME NEW seg \in drawn PROVE seg = x[k]
    <3>1. PICK m \in 1..l : seg = x[m] /\ ~(e.end <= x[m].s \/ e.start >= x[m].e)
      BY <1>2, <1>9 DEF ToSet
    <3>2. x[m].s \in Int /\ x[m].e \in Int /\ x[k].s \in Int /\ x[k].e \in Int
      BY <1>4
    <3>3. ~(m < k)
      <4>1. m < k => x[k].s - x[m].e > GapThreshold
        BY <1>2 DEF Covering, Parted
      <4> QED BY <1>3, <1>6, <1>8, <3>1, <3>2, <4>1
    <3>4. ~(k < m)
      <4>1. k < m => x[m].s - x[k].e > GapThreshold
        BY <1>2 DEF Covering, Parted
      <4> QED BY <1>3, <1>6, <1>8, <3>1, <3>2, <4>1
    <3> QED BY <3>1, <3>3, <3>4
  <2> QED BY <2>1, <2>2
<1>11. Max({e.start, x[k].s}) = e.start
  <2>1. PICK m : m = Max({e.start, x[k].s})
    OBVIOUS
  <2>2. m \in {e.start, x[k].s} /\ m >= e.start
    BY <1>4, <1>6, <2>1, GreaterOf
  <2> QED BY <1>4, <1>6, <1>8, <2>1, <2>2
<1>12. Min({e.end, x[k].e}) = e.end
  <2>1. PICK m : m = Min({e.end, x[k].e})
    OBVIOUS
  <2>2. m \in {e.end, x[k].e} /\ m <= e.end
    BY <1>4, <1>6, <2>1, LesserOf
  <2> QED BY <1>4, <1>6, <1>8, <2>1, <2>2
<1>13. Pieces(e, x) = {[s |-> Max({e.start, seg.s}), e |-> Min({e.end, seg.e})] : seg \in drawn}
  BY <1>9 DEF Pieces
<1> QED BY <1>10, <1>11, <1>12, <1>13
-----------------------------------------------------------------------------
(* What is in the views *)

Known == Spans \cup ToSet(Foreign)

CallRecord == [id : Nat, function : Functions, start : Int]

CallsInv ==
  /\ clock \in Nat /\ made \in Nat
  /\ calls \in Seq(CallRecord) /\ \A i \in 1..Len(calls) : calls[i].start <= clock

EventsInv ==
  /\ queued \in Seq(Spans) /\ rawEvents \in Seq(Known) /\ file \in Seq(Known)
  /\ ~foreign => rawEvents \in Seq(Spans) /\ chart \in Seq(Spans)

FreshInv == timers \in Nat /\ ViewsAreFresh /\ FunctionsIn(rawEvents) \subseteq DOMAIN stats

DataInv == CallsInv /\ EventsInv /\ FreshInv

LEMMA WindowIs ==
  ASSUME NEW S, NEW events \in Seq(S)
  PROVE  /\ Window(events) \in Seq(S)
         /\ FunctionsIn(Window(events)) \subseteq FunctionsIn(events)
<1>1. PICK n \in Nat : n = Len(events) /\ DOMAIN events = 1..n /\ \A i \in 1..n : events[i] \in S
  BY LenProperties
<1>2. PICK m \in Int : m = Max({1, n - MaxRawEvents + 1}) /\ m >= 1
  <2>1. n - MaxRawEvents + 1 \in Int /\ 1 \in Int
    BY ProfileDataAssumption
  <2>2. PICK m : m = Max({1, n - MaxRawEvents + 1})
    OBVIOUS
  <2>3. m \in {1, n - MaxRawEvents + 1} /\ m >= 1
    BY <2>1, <2>2, GreaterOf
  <2> QED BY <2>1, <2>2, <2>3
<1>3. PICK w : w = SubSeq(events, m, n)
  OBVIOUS
<1>4. \A i \in m..n : events[i] \in S
  BY <1>1, <1>2
<1>5. /\ w \in Seq(S) /\ Len(w) = IF m <= n THEN n - m + 1 ELSE 0
      /\ \A i \in 1..n - m + 1 : w[i] = events[m + i - 1]
  <2>1. SubSeq(events, m, n) \in Seq(S)
    BY <1>4, SubSeqProperties
  <2>2. Len(SubSeq(events, m, n)) = IF m <= n THEN n - m + 1 ELSE 0
    BY <1>4, SubSeqProperties
  <2>3. \A i \in 1..n - m + 1 : SubSeq(events, m, n)[i] = events[m + i - 1]
    BY <1>4, SubSeqProperties
  <2> QED BY <1>3, <2>1, <2>2, <2>3
<1>6. DOMAIN w = 1..Len(w)
  BY <1>5, LenProperties
<1>7. ASSUME NEW i \in DOMAIN w PROVE w[i].function \in FunctionsIn(events)
  <2>1. i \in 1..n - m + 1 /\ m + i - 1 \in 1..n
    BY <1>2, <1>5, <1>6
  <2>2. w[i] = events[m + i - 1] /\ m + i - 1 \in DOMAIN events
    BY <1>1, <1>5, <2>1
  <2> QED BY <2>2 DEF FunctionsIn
<1>8. Window(events) = w
  BY <1>1, <1>2, <1>3 DEF Window
<1> QED BY <1>5, <1>7, <1>8 DEF FunctionsIn

LEMMA FlushShows ==
  ASSUME NEW st, FlushRefresh(st), FunctionsIn(rawEvents') \subseteq DOMAIN st
  PROVE  /\ chart' = rawEvents' /\ ViewsAreFresh'
         /\ FunctionsIn(rawEvents') \subseteq DOMAIN stats'
<1>1. DOMAIN stats' = DOMAIN st
  BY DEF FlushRefresh
<1>2. chart' = rawEvents' /\ refreshPending' = FALSE
  BY DEF FlushRefresh
<1>3. rows' = [f \in DOMAIN stats' \ hidden' |-> stats'[f]]
  BY DEF FlushRefresh, RefreshTableOnly
<1> QED BY <1>1, <1>2, <1>3 DEF ViewsAreFresh

LEMMA NoFunctions == FunctionsIn(<<>>) = {} /\ DOMAIN <<>> = {}
<1>1. DOMAIN <<>> = {}
  OBVIOUS
<1> QED BY <1>1 DEF FunctionsIn

LEMMA JoinedFunctions ==
  ASSUME NEW S, NEW a \in Seq(S), NEW b \in Seq(S)
  PROVE  a \o b \in Seq(S) /\ FunctionsIn(a \o b) \subseteq FunctionsIn(a) \cup FunctionsIn(b)
<1>1. PICK n \in Nat, m \in Nat : n = Len(a) /\ m = Len(b) /\ DOMAIN a = 1..n /\ DOMAIN b = 1..m
  BY LenProperties
<1>2. PICK c : c = a \o b
  OBVIOUS
<1>3. /\ c \in Seq(S) /\ Len(c) = n + m
      /\ \A i \in 1..n + m : c[i] = IF i <= n THEN a[i] ELSE b[i - n]
  BY <1>1, <1>2, ConcatProperties
<1>4. DOMAIN c = 1..n + m
  BY <1>3, LenProperties
<1>5. ASSUME NEW i \in DOMAIN c PROVE c[i].function \in FunctionsIn(a) \cup FunctionsIn(b)
  <2>1. CASE i <= n
    <3>1. i \in DOMAIN a /\ c[i] = a[i]
      BY <1>1, <1>3, <1>4, <2>1
    <3> QED BY <3>1 DEF FunctionsIn
  <2>2. CASE ~(i <= n)
    <3>1. i - n \in DOMAIN b /\ c[i] = b[i - n]
      BY <1>1, <1>3, <1>4, <2>2
    <3> QED BY <3>1 DEF FunctionsIn
  <2> QED BY <2>1, <2>2
<1> QED BY <1>2, <1>3, <1>5 DEF FunctionsIn

LEMMA DataStarts == DataInit => DataInv
<1> SUFFICES ASSUME DataInit PROVE DataInv
  OBVIOUS
<1>1. CallsInv
  BY EmptySeq DEF DataInit, CallsInv
<1>2. EventsInv
  BY EmptySeq DEF DataInit, EventsInv
<1>3. FreshInv
  <2>1. rows = [f \in DOMAIN stats \ hidden |-> stats[f]]
    BY NoFunctions DEF DataInit
  <2>2. FunctionsIn(rawEvents) \subseteq DOMAIN stats
    BY NoFunctions DEF DataInit
  <2> QED BY <2>1, <2>2 DEF DataInit, FreshInv, ViewsAreFresh
<1> QED BY <1>1, <1>2, <1>3 DEF DataInv

LEMMA CallsStep == CallsInv /\ [DataNext]_dataVars => CallsInv'
<1> SUFFICES ASSUME CallsInv, [DataNext]_dataVars PROVE CallsInv'
  OBVIOUS
<1>1. CASE Tick
  <2>1. clock' = clock + 1 /\ UNCHANGED <<made, calls>>
    BY <1>1 DEF Tick
  <2>2. ASSUME NEW i \in 1..Len(calls) PROVE calls[i].start \in Int
    <3>1. calls[i] \in CallRecord
      BY LenProperties DEF CallsInv
    <3> QED BY <3>1 DEF CallRecord
  <2> QED BY <2>1, <2>2 DEF CallsInv
<1>2. ASSUME NEW f \in Functions, Call(f) PROVE CallsInv'
  <2>1. PICK c : c = [id |-> made', function |-> f, start |-> clock]
    OBVIOUS
  <2>2. made' = made + 1 /\ calls' = Append(calls, c) /\ clock' = clock
    BY <1>2, <2>1 DEF Call
  <2>3. c \in CallRecord /\ c.start = clock
    BY <2>1, <2>2 DEF CallsInv, CallRecord
  <2>4. PICK n \in Nat : n = Len(calls)
    BY LenProperties DEF CallsInv
  <2>5. /\ calls' \in Seq(CallRecord) /\ Len(calls') = n + 1 /\ calls'[n + 1] = c
        /\ \A i \in 1..n : calls'[i] = calls[i]
    BY <2>2, <2>3, <2>4 DEF CallsInv
  <2> QED BY <2>2, <2>3, <2>4, <2>5 DEF CallsInv
<1>3. CASE Return
  <2>1. calls' = SubSeq(calls, 1, Len(calls) - 1) /\ UNCHANGED <<clock, made>>
    BY <1>3 DEF Return, Front
  <2>2. PICK n \in Nat \ {0} : n = Len(calls)
    BY <1>3, EmptySeq DEF CallsInv, Return
  <2>3. \A i \in 1..n - 1 : calls[i] \in CallRecord
    BY <2>2, LenProperties DEF CallsInv
  <2>4. /\ calls' \in Seq(CallRecord) /\ Len(calls') = n - 1
        /\ \A i \in 1..n - 1 : calls'[i] = calls[i]
    BY <2>1, <2>2, <2>3, SubSeqProperties
  <2> QED BY <2>1, <2>2, <2>4 DEF CallsInv
<1>4. CASE UNCHANGED callVars
  BY <1>4 DEF CallsInv, callVars
<1> QED BY <1>1, <1>2, <1>3, <1>4 DEF DataNext, dataVars, ReceiveBatch, RefreshTimer, ChangeFilter, Clear, Save, Load,
  LoadFails

LEMMA ReturnedIsSpan ==
  ASSUME CallsInv, calls # <<>>,
         NEW e, e = [id |-> Last(calls).id, function |-> Last(calls).function,
                     start |-> Last(calls).start, end |-> clock,
                     within |-> [i \in 1..Len(calls) - 1 |-> calls[i].id]]
  PROVE  e \in Spans
<1>1. PICK n \in Nat \ {0} : n = Len(calls)
  BY EmptySeq DEF CallsInv
<1>2. \A i \in 1..n : calls[i] \in CallRecord
  BY <1>1, LenProperties DEF CallsInv
<1>3. PICK within : within = [i \in 1..n - 1 |-> calls[i].id]
  OBVIOUS
<1>4. within \in Seq(Nat)
  <2>1. \A i \in 1..n - 1 : calls[i].id \in Nat
    BY <1>2 DEF CallRecord
  <2>2. within \in [1..n - 1 -> Nat] /\ n - 1 \in Nat
    BY <1>3, <2>1
  <2> QED BY <2>2
<1>5. PICK c \in CallRecord : c = Last(calls) /\ c.start <= clock
  BY <1>1, <1>2 DEF Last, CallsInv
<1>6. c.id \in Nat /\ c.function \in Functions /\ c.start \in Int
  BY DEF CallRecord
<1>7. e = [id |-> c.id, function |-> c.function, start |-> c.start, end |-> clock, within |-> within]
  BY <1>1, <1>3, <1>5
<1>8. clock \in Int
  BY DEF CallsInv
<1> QED BY <1>4, <1>5, <1>6, <1>7, <1>8 DEF Spans, Event

LEMMA SpansKnown ==
  /\ Seq(Spans) \subseteq Seq(Known) /\ Foreign \in Seq(Known)
  /\ \A events \in Seq(Known) : ToSet(events) \cap ToSet(Foreign) = {} => events \in Seq(Spans)
<1>1. \A events \in Seq(Spans) : events \in Seq(Known)
  BY SeqMonotonic DEF Known
<1>2. Foreign \in Seq(Known)
  <2>1. PICK n \in Nat : n = Len(Foreign) /\ DOMAIN Foreign = 1..n /\ Foreign = [i \in 1..n |-> Foreign[i]]
    BY ProfileDataAssumption, LenProperties
  <2>2. \A i \in 1..n : Foreign[i] \in Known
    BY <2>1 DEF Known, ToSet
  <2>3. Foreign \in [1..n -> Known]
    BY <2>1, <2>2
  <2> QED BY <2>3
<1>3. ASSUME NEW events \in Seq(Known), ToSet(events) \cap ToSet(Foreign) = {}
      PROVE  events \in Seq(Spans)
  <2>1. PICK n \in Nat : n = Len(events) /\ DOMAIN events = 1..n /\ events \in [1..n -> Known]
    BY LenProperties
  <2>2. ASSUME NEW i \in 1..n PROVE events[i] \in Spans
    <3>1. events[i] \in Known /\ events[i] \in ToSet(events)
      BY <2>1 DEF ToSet
    <3> QED BY <1>3, <3>1 DEF Known
  <2>3. events \in [1..n -> Spans]
    BY <2>1, <2>2
  <2> QED BY <2>3
<1> QED BY <1>1, <1>2, <1>3

LEMMA EventsStep == DataInv /\ [DataNext]_dataVars => EventsInv'
<1> SUFFICES ASSUME DataInv, [DataNext]_dataVars PROVE EventsInv'
  OBVIOUS
<1>0. EventsInv
  BY DEF DataInv
<1>1. CASE Return
  <2>1. PICK e : e = [id |-> Last(calls).id, function |-> Last(calls).function,
                      start |-> Last(calls).start, end |-> clock,
                      within |-> [i \in 1..Len(calls) - 1 |-> calls[i].id]]
    OBVIOUS
  <2>2. queued' = Append(queued, e) /\ calls # <<>>
    BY <1>1, <2>1 DEF Return
  <2>3. e \in Spans
    BY <2>1, <2>2, ReturnedIsSpan DEF DataInv
  <2>4. queued' \in Seq(Spans)
    BY <1>0, <2>2, <2>3 DEF EventsInv
  <2>5. UNCHANGED <<rawEvents, chart, file, foreign>>
    BY <1>1 DEF Return, viewVars
  <2> QED BY <1>0, <2>4, <2>5 DEF EventsInv
<1>2. CASE ReceiveBatch
  <2>1. queued' = <<>> /\ rawEvents' = Window(rawEvents \o queued) /\ UNCHANGED <<chart, file, foreign>>
    BY <1>2 DEF ReceiveBatch, viewVars
  <2>2. queued \in Seq(Spans) /\ queued \in Seq(Known)
    BY <1>0, SpansKnown DEF EventsInv
  <2>3. rawEvents' \in Seq(Known)
    BY <1>0, <2>1, <2>2, JoinedFunctions, WindowIs DEF EventsInv
  <2>4. ASSUME ~foreign PROVE rawEvents' \in Seq(Spans)
    BY <1>0, <2>1, <2>2, <2>4, JoinedFunctions, WindowIs DEF EventsInv
  <2>5. queued' \in Seq(Spans)
    BY <2>1, EmptySeq
  <2> QED BY <1>0, <2>1, <2>3, <2>4, <2>5 DEF EventsInv
<1>3. CASE RefreshTimer
  <2>1. UNCHANGED <<rawEvents, queued, file, foreign>> /\ chart' = rawEvents'
    BY <1>3 DEF RefreshTimer, FlushRefresh
  <2> QED BY <1>0, <2>1 DEF EventsInv
<1>4. CASE Clear
  <2>1. rawEvents' = <<>> /\ chart' = rawEvents' /\ UNCHANGED <<queued, file>>
    BY <1>4 DEF Clear, FlushRefresh
  <2> QED BY <1>0, <2>1, EmptySeq DEF EventsInv
<1>5. ASSUME NEW events \in {file, Foreign}, Load(events) PROVE EventsInv'
  <2>1. /\ rawEvents' = Window(events) /\ chart' = rawEvents' /\ UNCHANGED <<queued, file>>
        /\ foreign' = (ToSet(events) \cap ToSet(Foreign) # {})
    BY <1>5 DEF Load, FlushRefresh
  <2>2. events \in Seq(Known)
    BY <1>0, SpansKnown DEF EventsInv
  <2>3. rawEvents' \in Seq(Known)
    BY <2>1, <2>2, WindowIs
  <2>4. ASSUME ~foreign' PROVE rawEvents' \in Seq(Spans)
    <3>1. events \in Seq(Spans)
      BY <2>1, <2>2, <2>4, SpansKnown
    <3> QED BY <2>1, <3>1, WindowIs
  <2> QED BY <1>0, <2>1, <2>3, <2>4 DEF EventsInv
<1>6. CASE Save
  <2>1. file' = rawEvents /\ UNCHANGED <<queued, rawEvents, chart, foreign>>
    BY <1>6 DEF Save, viewVars
  <2> QED BY <1>0, <2>1 DEF EventsInv
<1>7. ASSUME NEW events \in {<<>>, Foreign}, LoadFails(events) PROVE EventsInv'
  <2>1. /\ rawEvents' = Window(events) /\ UNCHANGED <<chart, queued, file>>
        /\ foreign' = (foreign \/ ToSet(events) \cap ToSet(Foreign) # {})
    BY <1>7 DEF LoadFails
  <2>2. events \in Seq(Known)
    BY SpansKnown, EmptySeq
  <2>3. rawEvents' \in Seq(Known)
    BY <2>1, <2>2, WindowIs
  <2>4. ASSUME ~foreign' PROVE ~foreign /\ rawEvents' \in Seq(Spans)
    <3>1. events \in Seq(Spans)
      BY <2>1, <2>2, <2>4, SpansKnown
    <3> QED BY <2>1, <2>4, <3>1, WindowIs
  <2> QED BY <1>0, <2>1, <2>3, <2>4 DEF EventsInv
<1>8. CASE UNCHANGED <<queued, rawEvents, chart, file, foreign>>
  BY <1>0, <1>8 DEF EventsInv
<1> QED BY <1>1, <1>2, <1>3, <1>4, <1>5, <1>6, <1>7, <1>8 DEF DataNext, dataVars, viewVars, Tick, Call, ChangeFilter

LEMMA FreshStep == DataInv /\ [DataNext]_dataVars => FreshInv'
<1> SUFFICES ASSUME DataInv, [DataNext]_dataVars PROVE FreshInv'
  OBVIOUS
<1>0. FreshInv /\ EventsInv
  BY DEF DataInv
<1>1. CASE ReceiveBatch
  <2>1. /\ rawEvents' = Window(rawEvents \o queued) /\ refreshPending' = TRUE
        /\ timers' = (IF refreshPending THEN timers ELSE timers + 1)
        /\ stats' = Recorded(stats, queued)
    BY <1>1 DEF ReceiveBatch
  <2>2. timers' \in Nat /\ timers' > 0
    BY <1>0, <2>1 DEF FreshInv, ViewsAreFresh
  <2>3. DOMAIN stats' = DOMAIN stats \cup FunctionsIn(queued)
    BY <2>1 DEF Recorded
  <2>4. queued \in Seq(Known) /\ rawEvents \in Seq(Known)
    BY <1>0, SpansKnown DEF EventsInv
  <2>5. FunctionsIn(rawEvents') \subseteq FunctionsIn(rawEvents) \cup FunctionsIn(queued)
    <3>1. PICK joined : joined = rawEvents \o queued
      OBVIOUS
    <3>2. joined \in Seq(Known) /\ FunctionsIn(joined) \subseteq FunctionsIn(rawEvents) \cup FunctionsIn(queued)
      BY <2>4, <3>1, JoinedFunctions
    <3>3. FunctionsIn(Window(joined)) \subseteq FunctionsIn(joined)
      BY <3>2, WindowIs
    <3> QED BY <2>1, <3>1, <3>2, <3>3
  <2> QED BY <1>0, <2>1, <2>2, <2>3, <2>5 DEF FreshInv, ViewsAreFresh
<1>2. CASE RefreshTimer
  <2>1. timers' = timers - 1 /\ timers > 0 /\ rawEvents' = rawEvents /\ FlushRefresh(stats)
    BY <1>2 DEF RefreshTimer
  <2>2. timers' \in Nat
    BY <1>0, <2>1 DEF FreshInv
  <2>3. ViewsAreFresh' /\ FunctionsIn(rawEvents') \subseteq DOMAIN stats'
    BY <1>0, <2>1, FlushShows DEF FreshInv
  <2> QED BY <2>2, <2>3 DEF FreshInv
<1>3. CASE ChangeFilter
  <2>1. /\ rows' = [f \in DOMAIN stats' \ hidden' |-> stats'[f]]
        /\ UNCHANGED <<stats, rawEvents, refreshPending, timers, chart, stale>>
    BY <1>3 DEF ChangeFilter, RefreshTableOnly
  <2> QED BY <1>0, <2>1 DEF FreshInv, ViewsAreFresh
<1>4. CASE Clear
  <2>1. rawEvents' = <<>> /\ timers' = timers /\ FlushRefresh(<<>>)
    BY <1>4 DEF Clear
  <2>2. ViewsAreFresh' /\ FunctionsIn(rawEvents') \subseteq DOMAIN stats'
    BY <2>1, FlushShows, NoFunctions
  <2> QED BY <1>0, <2>1, <2>2 DEF FreshInv
<1>5. ASSUME NEW events \in {file, Foreign}, Load(events) PROVE FreshInv'
  <2>1. rawEvents' = Window(events) /\ timers' = timers /\ FlushRefresh(Recorded(<<>>, events))
    BY <1>5 DEF Load
  <2>2. FunctionsIn(rawEvents') \subseteq FunctionsIn(events)
    BY <1>0, <2>1, SpansKnown, WindowIs DEF EventsInv
  <2>3. FunctionsIn(events) \subseteq DOMAIN Recorded(<<>>, events)
    BY DEF Recorded
  <2>4. ViewsAreFresh' /\ FunctionsIn(rawEvents') \subseteq DOMAIN stats'
    BY <2>1, <2>2, <2>3, FlushShows
  <2> QED BY <1>0, <2>1, <2>4 DEF FreshInv
<1>6. ASSUME NEW events \in {<<>>, Foreign}, LoadFails(events) PROVE FreshInv'
  <2>1. /\ rawEvents' = Window(events) /\ stats' = Recorded(<<>>, events) /\ stale'
        /\ UNCHANGED <<refreshPending, timers>>
    BY <1>6 DEF LoadFails
  <2>2. FunctionsIn(rawEvents') \subseteq FunctionsIn(events)
    BY <2>1, SpansKnown, EmptySeq, WindowIs
  <2>3. FunctionsIn(rawEvents') \subseteq DOMAIN stats'
    BY <2>1, <2>2 DEF Recorded
  <2> QED BY <1>0, <2>1, <2>3 DEF FreshInv, ViewsAreFresh
<1>7. CASE UNCHANGED <<rawEvents, stats, refreshPending, timers, hidden, chart, rows, stale>>
  BY <1>0, <1>7 DEF FreshInv, ViewsAreFresh
<1> QED BY <1>1, <1>2, <1>3, <1>4, <1>5, <1>6, <1>7 DEF DataNext, dataVars, viewVars, Tick, Call, Return, Save

LEMMA DataInvHolds == DataSpec => []DataInv
<1>1. DataInv /\ [DataNext]_dataVars => DataInv'
  BY CallsStep, EventsStep, FreshStep DEF DataInv
<1> QED BY <1>1, DataStarts, PTL DEF DataSpec

LEMMA ShownIsCalled == DataInv => ViewsShowCalls
<1> SUFFICES ASSUME DataInv PROVE ViewsShowCalls
  OBVIOUS
<1>1. ViewsAreFresh
  BY DEF DataInv, FreshInv
<1>2. ASSUME ~foreign PROVE Covering(VisibleSegments(chart), chart) /\ chart \in Seq(Spans)
  BY <1>2, VisibleSegmentsCover DEF DataInv, EventsInv
<1>3. ChartCovers
  BY <1>2, Covers, Collapses, Draws DEF ChartCovers
<1> QED BY <1>1, <1>3 DEF ViewsShowCalls

\* Table and timeline show the present statistics and events or a refresh is to come, and the
\* timeline collapses exactly the idle times and draws every call, for any window, threshold,
\* number of calls and of clicks.
THEOREM AlwaysShown == DataSpec => []ViewsShowCalls
<1> QED BY DataInvHolds, ShownIsCalled, PTL
-----------------------------------------------------------------------------
(* The export *)

Transition == [type : {"O", "C"}, function : Functions \cup OtherFunctions, at : Int]

OpenSpan == [function : Functions \cup OtherFunctions, end : Int]

LEMMA DepthSame ==
  ASSUME NEW out, NEW more, NEW i \in Nat, \A j \in 1..i : more[j] = out[j]
  PROVE  Depth(more, i) = Depth(out, i)
<1>1. {j \in 1..i : more[j].type = "O"} = {j \in 1..i : out[j].type = "O"}
  OBVIOUS
<1>2. {j \in 1..i : more[j].type = "C"} = {j \in 1..i : out[j].type = "C"}
  OBVIOUS
<1> QED BY <1>1, <1>2 DEF Depth

Count(out, i, type) == Cardinality({j \in 1..i : out[j].type = type})

LEMMA CountStep ==
  ASSUME NEW out, NEW i \in Nat \ {0}, NEW type
  PROVE  /\ Count(out, i - 1, type) \in Nat
         /\ Count(out, i, type) = IF out[i].type = type THEN Count(out, i - 1, type) + 1
                                  ELSE Count(out, i - 1, type)
<1>1. PICK A : A = {j \in 1..i - 1 : out[j].type = type}
  OBVIOUS
<1>2. A \subseteq 1..i - 1 /\ IsFiniteSet(1..i - 1)
  BY <1>1, FS_Interval
<1>3. IsFiniteSet(A) /\ Cardinality(A) \in Nat
  BY <1>2, FS_Subset, FS_CardinalityType
<1>4. i \notin A /\ 1..i = 1..i - 1 \cup {i}
  BY <1>1
<1>5. CASE out[i].type = type
  <2>1. {j \in 1..i : out[j].type = type} = A \cup {i}
    BY <1>1, <1>4, <1>5
  <2>2. Cardinality(A \cup {i}) = Cardinality(A) + 1
    BY <1>3, <1>4, FS_AddElement
  <2> QED BY <1>1, <1>3, <1>5, <2>1, <2>2 DEF Count
<1>6. CASE out[i].type # type
  <2>1. {j \in 1..i : out[j].type = type} = A
    BY <1>1, <1>4, <1>6
  <2> QED BY <1>1, <1>3, <1>6, <2>1 DEF Count
<1> QED BY <1>5, <1>6

LEMMA DepthStep ==
  ASSUME NEW out \in Seq(Transition), NEW i \in 1..Len(out)
  PROVE  /\ Depth(out, i - 1) \in Int
         /\ Depth(out, i) = IF out[i].type = "O" THEN Depth(out, i - 1) + 1 ELSE Depth(out, i - 1) - 1
<1>1. out[i].type \in {"O", "C"} /\ i \in Nat \ {0}
  <2>1. out[i] \in Transition
    BY LenProperties
  <2> QED BY <2>1 DEF Transition
<1>2. /\ Count(out, i - 1, "O") \in Nat
      /\ Count(out, i, "O") = IF out[i].type = "O" THEN Count(out, i - 1, "O") + 1
                              ELSE Count(out, i - 1, "O")
  BY <1>1, CountStep
<1>3. /\ Count(out, i - 1, "C") \in Nat
      /\ Count(out, i, "C") = IF out[i].type = "C" THEN Count(out, i - 1, "C") + 1
                              ELSE Count(out, i - 1, "C")
  BY <1>1, CountStep
<1>4. /\ Depth(out, i - 1) = Count(out, i - 1, "O") - Count(out, i - 1, "C")
      /\ Depth(out, i) = Count(out, i, "O") - Count(out, i, "C")
  BY DEF Depth, Count
<1> QED BY <1>1, <1>2, <1>3, <1>4

LEMMA DepthStarts == \A out : Depth(out, 0) = 0
<1>1. \A out : {j \in 1..0 : out[j].type = "O"} = {} /\ {j \in 1..0 : out[j].type = "C"} = {}
  OBVIOUS
<1> QED BY <1>1, FS_EmptySet DEF Depth

Ascends(out) == \A i \in 1..Len(out) - 1 : out[i].at <= out[i + 1].at

Shrinks(stack) == \A k, m \in 1..Len(stack) : k <= m => stack[m].end <= stack[k].end

\* Transition o opened span k of those that are open.
OpenedAt(out, o, k, f) ==
  /\ out[o].type = "O" /\ out[o].function = f /\ Depth(out, o) = k
  /\ \A i \in o..Len(out) : Depth(out, i) >= k

AllOpened(out, stack) ==
  \A k \in 1..Len(stack) : \E o \in 1..Len(out) : OpenedAt(out, o, k, stack[k].function)

Matched(out) == \A c \in 1..Len(out) : out[c].type = "C" => \E o \in 1..c - 1 : ClosedBy(out, o, c)

\* Nothing is later than t.
Until(out, t) == out # <<>> => out[Len(out)].at <= t

\* What to_speedscope has written when n spans have been opened.
Nests(s, n) ==
  /\ s.out \in Seq(Transition) /\ s.stack \in Seq(OpenSpan)
  /\ Ascends(s.out) /\ Shrinks(s.stack)
  /\ Depth(s.out, Len(s.out)) = Len(s.stack)
  /\ AllOpened(s.out, s.stack) /\ Matched(s.out)
  /\ \A k \in 1..Len(s.stack) : Until(s.out, s.stack[k].end)
  /\ Len(s.out) + Len(s.stack) = 2 * n

\* more is out and the transition t.
Adds(out, t, more, n) ==
  /\ more \in Seq(Transition) /\ Len(more) = n + 1 /\ more[n + 1] = t /\ more # <<>>
  /\ \A i \in 1..n : more[i] = out[i]
  /\ \A i \in 0..n : Depth(more, i) = Depth(out, i)
  /\ Depth(more, n + 1) = IF t.type = "O" THEN Depth(out, n) + 1 ELSE Depth(out, n) - 1

LEMMA OneMore ==
  ASSUME NEW out \in Seq(Transition), NEW t \in Transition, NEW more, more = Append(out, t),
         NEW n \in Nat, n = Len(out)
  PROVE  Adds(out, t, more, n)
<1>1. more \in Seq(Transition) /\ Len(more) = n + 1 /\ more[n + 1] = t /\ \A i \in 1..n : more[i] = out[i]
  OBVIOUS
<1>2. ASSUME NEW i \in 0..n PROVE Depth(more, i) = Depth(out, i)
  <2>1. i \in Nat /\ \A j \in 1..i : more[j] = out[j]
    BY <1>1
  <2> QED BY <2>1, DepthSame
<1>3. n + 1 \in 1..Len(more) /\ (n + 1) - 1 = n
  BY <1>1
<1>4. /\ Depth(more, n) \in Int
      /\ Depth(more, n + 1) = IF t.type = "O" THEN Depth(more, n) + 1 ELSE Depth(more, n) - 1
  BY <1>1, <1>3, DepthStep
<1>5. Depth(more, n) = Depth(out, n)
  BY <1>2
<1>6. more # <<>>
  BY <1>1, EmptySeq
<1> QED BY <1>1, <1>2, <1>4, <1>5, <1>6 DEF Adds

LEMMA MatchedStays ==
  ASSUME NEW out \in Seq(Transition), NEW t \in Transition, NEW more, more = Append(out, t),
         Matched(out), NEW n \in Nat, n = Len(out), NEW c \in 1..n, more[c].type = "C"
  PROVE  \E o \in 1..c - 1 : ClosedBy(more, o, c)
<1>0. Adds(out, t, more, n)
  BY OneMore
<1>1. /\ \A i \in 1..n : more[i] = out[i]
      /\ \A i \in 0..n : Depth(more, i) = Depth(out, i)
  BY <1>0 DEF Adds
<1>2. out[c].type = "C"
  BY <1>1
<1>3. PICK o \in 1..c - 1 : ClosedBy(out, o, c)
  BY <1>2 DEF Matched
<1>4. o \in 1..n /\ o \in 0..n /\ c \in 0..n /\ o..c - 1 \subseteq 0..n
  OBVIOUS
<1>5. more[o] = out[o] /\ more[c] = out[c] /\ Depth(more, o) = Depth(out, o) /\ Depth(more, c) = Depth(out, c)
  BY <1>1, <1>4
<1>6. \A i \in o..c - 1 : Depth(more, i) = Depth(out, i)
  BY <1>1, <1>4
<1>7. ClosedBy(more, o, c)
  BY <1>3, <1>5, <1>6 DEF ClosedBy
<1> QED BY <1>7

LEMMA OpenedStays ==
  ASSUME NEW out \in Seq(Transition), NEW t \in Transition, NEW more, more = Append(out, t),
         NEW n \in Nat, n = Len(out), NEW o \in 1..n, NEW k, NEW f, OpenedAt(out, o, k, f),
         Depth(more, n + 1) >= k
  PROVE  OpenedAt(more, o, k, f)
<1>0. Adds(out, t, more, n)
  BY OneMore
<1>1. /\ \A i \in 1..n : more[i] = out[i]
      /\ \A i \in 0..n : Depth(more, i) = Depth(out, i)
      /\ Len(more) = n + 1
  BY <1>0 DEF Adds
<1>2. ASSUME NEW i \in o..n + 1 PROVE Depth(more, i) >= k
  <2>1. CASE i = n + 1
    BY <2>1
  <2>2. CASE i \in o..n
    <3>1. i \in 0..n /\ Depth(out, i) >= k
      BY <2>2 DEF OpenedAt
    <3> QED BY <1>1, <3>1
  <2> QED BY <2>1, <2>2
<1>3. more[o] = out[o] /\ Depth(more, o) = Depth(out, o)
  BY <1>1
<1> QED BY <1>1, <1>2, <1>3 DEF OpenedAt

\* t is s after its innermost span is closed.
OneClosed(s, n, t) ==
  /\ Nests(t, n) /\ Len(t.stack) = Len(s.stack) - 1
  /\ \A k \in 1..Len(s.stack) - 1 : t.stack[k] = s.stack[k]
  /\ t.out # <<>> /\ t.out[Len(t.out)].at = s.stack[Len(s.stack)].end
  /\ t = [out |-> t.out, stack |-> t.stack]

LEMMA CloseNests ==
  ASSUME NEW s, NEW n \in Nat, Nests(s, n), s.stack # <<>>, NEW t, t = Closed(s)
  PROVE  OneClosed(s, n, t)
<1>1. PICK out \in Seq(Transition), stack \in Seq(OpenSpan) : out = s.out /\ stack = s.stack
  BY DEF Nests
<1>2. PICK l \in Nat, d \in Nat \ {0} : l = Len(out) /\ d = Len(stack)
  BY <1>1, LenProperties, EmptySeq
<1>3. /\ Ascends(out) /\ Shrinks(stack) /\ Depth(out, l) = d
      /\ AllOpened(out, stack) /\ Matched(out)
      /\ \A k \in 1..d : Until(out, stack[k].end)
      /\ l + d = 2 * n
  BY <1>1, <1>2 DEF Nests
<1>4. PICK top \in OpenSpan : top = stack[d]
  BY <1>2, LenProperties
<1>5. PICK c \in Transition : c = [type |-> "C", function |-> top.function, at |-> top.end]
  BY DEF OpenSpan, Transition
<1>6. PICK more : more = Append(out, c)
  OBVIOUS
<1>7. PICK rest : rest = SubSeq(stack, 1, d - 1)
  OBVIOUS
<1>8. t = [out |-> more, stack |-> rest]
  BY <1>1, <1>2, <1>4, <1>5, <1>6, <1>7 DEF Closed, Last, Front
<1>9. rest \in Seq(OpenSpan) /\ Len(rest) = d - 1 /\ \A k \in 1..d - 1 : rest[k] = stack[k]
  <2>1. \A k \in 1..d - 1 : stack[k] \in OpenSpan
    BY <1>2, LenProperties
  <2> QED BY <1>7, <2>1, SubSeqProperties, SMTT(20)
<1>10. Adds(out, c, more, l)
  BY <1>2, <1>6, OneMore
<1>11. /\ more \in Seq(Transition) /\ Len(more) = l + 1 /\ more[l + 1] = c /\ more # <<>>
       /\ \A i \in 1..l : more[i] = out[i]
  BY <1>10 DEF Adds
<1>12. Depth(more, l + 1) = d - 1
  <2>1. c.type # "O"
    BY <1>5
  <2> QED BY <1>3, <1>10, <2>1 DEF Adds
<1>13. PICK o \in 1..l : OpenedAt(out, o, d, top.function)
  BY <1>2, <1>3, <1>4 DEF AllOpened
<1>14. out # <<>>
  BY <1>2, <1>13, EmptySeq
<1>15. Ascends(more)
  <2> SUFFICES ASSUME NEW i \in 1..l PROVE more[i].at <= more[i + 1].at
    BY <1>11 DEF Ascends
  <2>1. CASE i = l
    <3>1. out[l].at <= top.end
      BY <1>2, <1>3, <1>4, <1>14 DEF Until
    <3> QED BY <1>5, <1>11, <2>1, <3>1
  <2>2. CASE i \in 1..l - 1
    <3>1. i \in 1..l /\ i + 1 \in 1..l /\ out[i].at <= out[i + 1].at
      BY <1>2, <1>3, <2>2 DEF Ascends
    <3> QED BY <1>11, <3>1
  <2> QED BY <2>1, <2>2
<1>16. Shrinks(rest)
  <2> SUFFICES ASSUME NEW k \in 1..d - 1, NEW m \in 1..d - 1, k <= m
               PROVE  rest[m].end <= rest[k].end
    BY <1>9 DEF Shrinks
  <2>1. stack[m].end <= stack[k].end
    BY <1>2, <1>3 DEF Shrinks
  <2> QED BY <1>9, <2>1
<1>17. AllOpened(more, rest)
  <2> SUFFICES ASSUME NEW k \in 1..d - 1
               PROVE  \E oo \in 1..l + 1 : OpenedAt(more, oo, k, rest[k].function)
    BY <1>9, <1>11 DEF AllOpened
  <2>1. PICK oo \in 1..l : OpenedAt(out, oo, k, stack[k].function)
    BY <1>2, <1>3 DEF AllOpened
  <2>2. Depth(more, l + 1) >= k
    BY <1>12
  <2>3. OpenedAt(more, oo, k, stack[k].function)
    BY <1>2, <1>6, <2>1, <2>2, OpenedStays
  <2> QED BY <1>9, <2>3
<1>18. Matched(more)
  <2> SUFFICES ASSUME NEW i \in 1..l + 1, more[i].type = "C"
               PROVE  \E oo \in 1..i - 1 : ClosedBy(more, oo, i)
    BY <1>11 DEF Matched
  <2>1. CASE i \in 1..l
    BY <1>2, <1>3, <1>6, <2>1, MatchedStays
  <2>2. CASE i = l + 1
    <3>1. /\ \A j \in 1..l : more[j] = out[j]
          /\ \A j \in 0..l : Depth(more, j) = Depth(out, j)
      BY <1>10 DEF Adds
    <3>2. out[o].type = "O" /\ out[o].function = top.function /\ Depth(out, o) = d
      BY <1>13 DEF OpenedAt
    <3>3. more[o].type = "O" /\ more[o].function = c.function /\ Depth(more, o) = d
      BY <1>5, <3>1, <3>2
    <3>4. \A j \in o..l : Depth(more, j) >= d
      <4>1. \A j \in o..l : j \in 0..l /\ Depth(out, j) >= d
        BY <1>2, <1>13 DEF OpenedAt
      <4> QED BY <3>1, <4>1
    <3>5. o \in 1..i - 1 /\ i - 1 = l /\ d = (d - 1) + 1
      BY <2>2
    <3> QED BY <1>11, <1>12, <2>2, <3>3, <3>4, <3>5 DEF ClosedBy
  <2> QED BY <2>1, <2>2
<1>19. \A k \in 1..d - 1 : Until(more, rest[k].end)
  <2> SUFFICES ASSUME NEW k \in 1..d - 1 PROVE more[l + 1].at <= rest[k].end
    BY <1>11 DEF Until
  <2>1. stack[d].end <= stack[k].end
    BY <1>2, <1>3 DEF Shrinks
  <2> QED BY <1>4, <1>5, <1>9, <1>11, <2>1
<1>20. (l + 1) + (d - 1) = 2 * n
  BY <1>3
<1>21. Nests(t, n)
  <2>1. t.out = more /\ t.stack = rest
    BY <1>8
  <2> QED BY <1>9, <1>11, <1>12, <1>15, <1>16, <1>17, <1>18, <1>19, <1>20, <2>1 DEF Nests
<1>22. more[l + 1].at = stack[d].end
  BY <1>4, <1>5, <1>11
<1> QED BY <1>1, <1>2, <1>8, <1>9, <1>11, <1>21, <1>22 DEF OneClosed

\* e is one of the events that are opened, s what was written before.
LEMMA OpenNests ==
  ASSUME NEW s, NEW n \in Nat, Nests(s, n), NEW e \in Spans, Until(s.out, e.start),
         \A k \in 1..Len(s.stack) : s.stack[k].end > e.start, NEW t, t = Opened(s, e)
  PROVE  /\ Nests(t, n + 1) /\ Until(t.out, e.start)
         /\ t = [out |-> t.out, stack |-> t.stack]
<1>1. PICK out \in Seq(Transition), stack \in Seq(OpenSpan) : out = s.out /\ stack = s.stack
  BY DEF Nests
<1>2. PICK l \in Nat, d \in Nat : l = Len(out) /\ d = Len(stack)
  BY <1>1, LenProperties
<1>3. /\ Ascends(out) /\ Shrinks(stack) /\ Depth(out, l) = d
      /\ AllOpened(out, stack) /\ Matched(out)
      /\ l + d = 2 * n
  BY <1>1, <1>2 DEF Nests
<1>4. e.start \in Int /\ e.end \in Int /\ e.start <= e.end /\ e.function \in Functions \cup OtherFunctions
  BY DEF Spans, Event
<1>5. \A k \in 1..d : stack[k] \in OpenSpan
  BY <1>2, LenProperties
<1>6. \A k \in 1..d : stack[k].end \in Int
  BY <1>5 DEF OpenSpan
<1>7. PICK end \in Int :
        /\ end = IF stack = <<>> THEN e.end ELSE Min({e.end, stack[d].end})
        /\ end >= e.start /\ (d # 0 => end <= stack[d].end)
  <2>1. CASE stack = <<>>
    <3>1. d = 0
      BY <1>2, <2>1
    <3> QED BY <1>4, <2>1, <3>1
  <2>2. CASE stack # <<>>
    <3>1. d \in 1..d
      BY <1>2, <2>2, EmptySeq
    <3>2. stack[d].end \in Int /\ stack[d].end > e.start
      BY <1>1, <1>2, <1>6, <3>1
    <3>3. PICK m : m = Min({e.end, stack[d].end})
      OBVIOUS
    <3>4. m \in {e.end, stack[d].end} /\ m <= stack[d].end
      BY <1>4, <3>2, <3>3, LesserOf
    <3> QED BY <1>4, <2>2, <3>2, <3>3, <3>4
  <2> QED BY <2>1, <2>2
<1>8. PICK c \in Transition : c = [type |-> "O", function |-> e.function, at |-> e.start]
  BY <1>4 DEF Transition
<1>9. PICK top \in OpenSpan : top = [function |-> e.function, end |-> end]
  BY <1>4 DEF OpenSpan
<1>10. PICK more : more = Append(out, c)
  OBVIOUS
<1>11. PICK all : all = Append(stack, top)
  OBVIOUS
<1>12. t = [out |-> more, stack |-> all]
  BY <1>1, <1>2, <1>7, <1>8, <1>9, <1>10, <1>11 DEF Opened, Last
<1>13. /\ all \in Seq(OpenSpan) /\ Len(all) = d + 1 /\ all[d + 1] = top
       /\ \A k \in 1..d : all[k] = stack[k]
  BY <1>2, <1>11
<1>14. Adds(out, c, more, l)
  BY <1>2, <1>10, OneMore
<1>15. /\ more \in Seq(Transition) /\ Len(more) = l + 1 /\ more[l + 1] = c /\ more # <<>>
       /\ \A i \in 1..l : more[i] = out[i]
       /\ \A i \in 0..l : Depth(more, i) = Depth(out, i)
  BY <1>14 DEF Adds
<1>16. Depth(more, l + 1) = d + 1
  <2>1. c.type = "O"
    BY <1>8
  <2> QED BY <1>3, <1>14, <2>1 DEF Adds
<1>17. Ascends(more)
  <2> SUFFICES ASSUME NEW i \in 1..l PROVE more[i].at <= more[i + 1].at
    BY <1>15 DEF Ascends
  <2>1. CASE i = l
    <3>1. out # <<>>
      BY <1>2, EmptySeq
    <3>2. out[l].at <= e.start
      BY <1>1, <1>2, <3>1 DEF Until
    <3> QED BY <1>8, <1>15, <2>1, <3>2
  <2>2. CASE i \in 1..l - 1
    <3>1. i \in 1..l /\ i + 1 \in 1..l /\ out[i].at <= out[i + 1].at
      BY <1>2, <1>3, <2>2 DEF Ascends
    <3> QED BY <1>15, <3>1
  <2> QED BY <2>1, <2>2
<1>18. \A k \in 1..d : end <= stack[k].end
  <2> SUFFICES ASSUME NEW k \in 1..d PROVE end <= stack[k].end
    OBVIOUS
  <2>1. d \in 1..d /\ k <= d /\ d # 0
    OBVIOUS
  <2>2. stack[d].end <= stack[k].end
    BY <1>2, <1>3, <2>1 DEF Shrinks
  <2>3. stack[d].end \in Int /\ stack[k].end \in Int
    BY <1>6, <2>1
  <2> QED BY <1>7, <2>1, <2>2, <2>3
<1>19. Shrinks(all)
  <2> SUFFICES ASSUME NEW k \in 1..d + 1, NEW m \in 1..d + 1, k <= m
               PROVE  all[m].end <= all[k].end
    BY <1>13 DEF Shrinks
  <2>1. CASE m = d + 1 /\ k = d + 1
    BY <1>9, <1>13, <2>1
  <2>2. CASE m = d + 1 /\ k \in 1..d
    BY <1>9, <1>13, <1>18, <2>2
  <2>3. CASE m \in 1..d
    <3>1. k \in 1..d /\ stack[m].end <= stack[k].end
      BY <1>2, <1>3, <2>3 DEF Shrinks
    <3> QED BY <1>13, <2>3, <3>1
  <2> QED BY <2>1, <2>2, <2>3
<1>20. AllOpened(more, all)
  <2> SUFFICES ASSUME NEW k \in 1..d + 1
               PROVE  \E o \in 1..l + 1 : OpenedAt(more, o, k, all[k].function)
    BY <1>13, <1>15 DEF AllOpened
  <2>1. CASE k = d + 1
    <3>1. \A i \in l + 1..Len(more) : Depth(more, i) >= k
      BY <1>15, <1>16, <2>1
    <3>2. more[l + 1].type = "O" /\ more[l + 1].function = all[k].function
      BY <1>8, <1>9, <1>13, <1>15, <2>1
    <3>3. OpenedAt(more, l + 1, k, all[k].function)
      BY <1>16, <2>1, <3>1, <3>2 DEF OpenedAt
    <3> QED BY <3>3
  <2>2. CASE k \in 1..d
    <3>1. PICK o \in 1..l : OpenedAt(out, o, k, stack[k].function)
      BY <1>2, <1>3, <2>2 DEF AllOpened
    <3>2. Depth(more, l + 1) >= k
      BY <1>16, <2>2
    <3>3. OpenedAt(more, o, k, stack[k].function)
      BY <1>2, <1>10, <3>1, <3>2, OpenedStays
    <3> QED BY <1>13, <2>2, <3>3
  <2> QED BY <2>1, <2>2
<1>21. Matched(more)
  <2> SUFFICES ASSUME NEW i \in 1..l + 1, more[i].type = "C"
               PROVE  \E o \in 1..i - 1 : ClosedBy(more, o, i)
    BY <1>15 DEF Matched
  <2>1. i # l + 1
    BY <1>8, <1>15
  <2>2. i \in 1..l
    BY <2>1
  <2> QED BY <1>2, <1>3, <1>10, <2>2, MatchedStays
<1>22. \A k \in 1..d + 1 : Until(more, all[k].end)
  <2> SUFFICES ASSUME NEW k \in 1..d + 1 PROVE e.start <= all[k].end
    BY <1>8, <1>15 DEF Until
  <2>1. CASE k = d + 1
    <3>1. all[k].end = end
      BY <1>9, <1>13, <2>1
    <3> QED BY <1>4, <1>7, <3>1
  <2>2. CASE k \in 1..d
    <3>1. stack[k].end > e.start
      BY <1>1, <1>2, <2>2
    <3> QED BY <1>4, <1>6, <1>13, <2>2, <3>1
  <2> QED BY <2>1, <2>2
<1>23. (l + 1) + (d + 1) = 2 * (n + 1)
  BY <1>3
<1>24. t.out = more /\ t.stack = all
  BY <1>12
<1>25. Nests(t, n + 1)
  BY <1>13, <1>15, <1>16, <1>17, <1>19, <1>20, <1>21, <1>22, <1>23, <1>24 DEF Nests
<1>26. Until(t.out, e.start)
  BY <1>4, <1>8, <1>15, <1>24 DEF Until
<1> QED BY <1>12, <1>24, <1>25, <1>26

\* The m innermost spans of s are closed, and what closed them is not later than t.
Closing(s, n, m, t, c) ==
  /\ Nests(c, n) /\ c = [out |-> c.out, stack |-> c.stack]
  /\ Len(c.stack) = Len(s.stack) - m /\ Until(c.out, t)
  /\ \A k \in 1..Len(s.stack) - m : c.stack[k] = s.stack[k]

LEMMA ClosingStep ==
  ASSUME NEW s, NEW n \in Nat, NEW t \in Int, NEW d \in Nat, d = Len(s.stack),
         NEW m \in 1..d, s.stack[d + 1 - m].end <= t, NEW c, Closing(s, n, m - 1, t, c)
  PROVE  Closing(s, n, m, t, Closed(c))
<1>1. PICK next : next = Closed(c)
  OBVIOUS
<1>2. /\ Nests(c, n) /\ Len(c.stack) = d - (m - 1)
      /\ \A k \in 1..d - (m - 1) : c.stack[k] = s.stack[k]
  BY DEF Closing
<1>3. c.stack # <<>>
  <2>1. d - (m - 1) # 0
    OBVIOUS
  <2> QED BY <1>2, <2>1, EmptySeq
<1>4. /\ Nests(next, n) /\ Len(next.stack) = Len(c.stack) - 1
      /\ \A k \in 1..Len(c.stack) - 1 : next.stack[k] = c.stack[k]
      /\ next.out[Len(next.out)].at = c.stack[Len(c.stack)].end
      /\ next = [out |-> next.out, stack |-> next.stack]
  <2>1. OneClosed(c, n, next)
    BY <1>1, <1>2, <1>3, CloseNests
  <2> QED BY <2>1 DEF OneClosed
<1>5. Len(next.stack) = d - m
  BY <1>2, <1>4
<1>6. \A k \in 1..d - m : next.stack[k] = s.stack[k]
  BY <1>2, <1>4
<1>7. Until(next.out, t)
  <2>1. d + 1 - m \in 1..d - (m - 1) /\ Len(c.stack) = d + 1 - m
    BY <1>2
  <2>2. c.stack[Len(c.stack)].end <= t
    BY <1>2, <2>1
  <2> QED BY <1>4, <2>2 DEF Until
<1> QED BY <1>1, <1>4, <1>5, <1>6, <1>7 DEF Closing

Exports == [out : Seq(Transition), stack : Seq(OpenSpan)]

LEMMA AfterClosingNests ==
  ASSUME NEW s \in Exports, NEW n \in Nat, Nests(s, n), NEW t \in Int, Until(s.out, t),
         NEW d \in Nat, d = Len(s.stack), NEW m \in 0..d,
         \A k \in d + 1 - m..d : s.stack[k].end <= t
  PROVE  Closing(s, n, m, t, AfterClosing(s, m))
<1>1. Closing(s, n, 0, t, s)
  <2>1. s = [out |-> s.out, stack |-> s.stack]
    BY DEF Exports
  <2> QED BY <2>1 DEF Closing
<1>2. ASSUME NEW i \in 1..m, NEW c, Closing(s, n, i - 1, t, c)
      PROVE  Closing(s, n, i, t, Closed(c))
  <2>1. i \in 1..d /\ d + 1 - i \in d + 1 - m..d
    OBVIOUS
  <2>2. s.stack[d + 1 - i].end <= t
    BY <2>1
  <2> QED BY <1>2, <2>1, <2>2, ClosingStep
<1>3. PICK Values : Values = [i \in 0..m |-> {c \in Exports : Closing(s, n, i, t, c)}]
  OBVIOUS
<1>4. \A c, i : Closing(s, n, i, t, c) => c \in Exports
  BY DEF Closing, Nests, Exports
<1>5. PICK Step : Step = [i \in 1..m |-> [c \in Values[i - 1] |-> Closed(c)]]
  OBVIOUS
<1>6. s \in Values[0]
  BY <1>1, <1>3
<1>7. ASSUME NEW i \in 1..m, NEW c \in Values[i - 1]
      PROVE  Step[i][c] = Closed(c) /\ Step[i][c] \in Values[i]
  <2>1. i - 1 \in 0..m /\ i \in 0..m
    OBVIOUS
  <2>2. Closing(s, n, i - 1, t, c)
    BY <1>3, <2>1
  <2>3. Step[i][c] = Closed(c)
    BY <1>5
  <2> QED BY <1>2, <1>3, <1>4, <2>1, <2>2, <2>3
<1>8. PICK h : Turns(h, s, m, Step, Values)
  <2>1. m \in Nat
    OBVIOUS
  <2> QED BY <1>6, <1>7, <2>1, LoopWithin
<1>9. h = [i \in 0..m |-> IF i = 0 THEN s ELSE Closed(h[i - 1])]
  <2>1. \A i \in 1..m : h[i] = Closed(h[i - 1])
    BY <1>7, <1>8 DEF Turns
  <2>2. \A i \in 0..m : i # 0 => i \in 1..m
    OBVIOUS
  <2> QED BY <1>8, <2>1, <2>2 DEF Turns
<1>10. PICK f : f = CHOOSE closed : closed = [i \in 0..m |-> IF i = 0 THEN s ELSE Closed(closed[i - 1])]
  OBVIOUS
<1>11. f = [i \in 0..m |-> IF i = 0 THEN s ELSE Closed(f[i - 1])]
  BY <1>9, <1>10
<1>12. AfterClosing(s, m) = f[m]
  BY <1>10 DEF AfterClosing
<1>13. PICK T : T = {i \in 0..m : Closing(s, n, i, t, f[i])}
  OBVIOUS
<1>14. 0 \in T
  <2>1. 0 \in 0..m
    OBVIOUS
  <2>2. f[0] = s
    BY <1>11, <2>1
  <2> QED BY <1>1, <1>13, <2>1, <2>2
<1>15. ASSUME NEW i \in 1..m, i - 1 \in T PROVE i \in T
  <2>1. i \in 0..m /\ i # 0
    OBVIOUS
  <2>2. f[i] = Closed(f[i - 1])
    BY <1>11, <2>1
  <2> QED BY <1>2, <1>13, <1>15, <2>1, <2>2
<1>16. \A i \in 0..m : i \in T
  <2>1. m \in Nat
    OBVIOUS
  <2>2. \A i \in 1..m : i - 1 \in T => i \in T
    BY <1>15
  <2> QED BY <1>14, <2>1, <2>2, UpTo
<1> QED BY <1>12, <1>13, <1>16

LEMMA GreatestNumber ==
  ASSUME NEW n \in Nat, NEW T \in SUBSET (0..n), 0 \in T
  PROVE  Max(T) \in T /\ \A x \in T : x <= Max(T)
<1>1. PICK D : D = {n - x : x \in T}
  OBVIOUS
<1>2. n \in D /\ D \in SUBSET Nat
  <2>1. \A x \in T : n - x \in Nat
    OBVIOUS
  <2>2. n - 0 = n
    OBVIOUS
  <2> QED BY <1>1, <2>1, <2>2
<1>3. PICK d \in D : \A e \in D : d <= e
  BY <1>2, LeastNumber
<1>4. PICK g \in T : d = n - g
  BY <1>1
<1>5. ASSUME NEW x \in T PROVE g >= x
  <2>1. n - x \in D
    BY <1>1
  <2>2. d <= n - x /\ x \in Int /\ g \in Int
    BY <1>3, <2>1
  <2> QED BY <1>4, <2>2
<1>6. PICK m : m = Max(T)
  OBVIOUS
<1>7. m \in T /\ \A x \in T : m >= x
  BY <1>5, <1>6 DEF Max
<1>8. \A x \in T : x <= m
  BY <1>7
<1> QED BY <1>6, <1>7, <1>8

\* Of spans each of which is in the one before, those that end after t come first.
LEMMA StillOpenIs ==
  ASSUME NEW stack \in Seq(OpenSpan), Shrinks(stack), NEW t \in Int, NEW d \in Nat, d = Len(stack)
  PROVE  \E k \in 0..d :
           /\ Len(StillOpen(stack, t)) = k
           /\ \A i \in 1..d : IF i <= k THEN stack[i].end > t ELSE stack[i].end <= t
<1>1. DOMAIN stack = 1..d
  BY LenProperties
<1>2. ASSUME NEW i \in 1..d PROVE stack[i].end \in Int
  <2>1. stack[i] \in OpenSpan
    BY LenProperties
  <2> QED BY <2>1 DEF OpenSpan
<1>3. PICK T : T = {0} \cup {i \in 1..d : stack[i].end > t}
  OBVIOUS
<1>4. T \in SUBSET (0..d) /\ 0 \in T
  BY <1>3
<1>5. PICK k \in T : k = Max(T) /\ \A i \in T : i <= k
  BY <1>4, GreatestNumber
<1>6. k \in 0..d
  BY <1>4
<1>7. Len(StillOpen(stack, t)) = k
  <2>1. StillOpen(stack, t) = SubSeq(stack, 1, k)
    BY <1>1, <1>3, <1>5 DEF StillOpen
  <2>2. \A i \in 1..k : stack[i] \in OpenSpan
    BY <1>6, LenProperties
  <2>3. Len(SubSeq(stack, 1, k)) = IF 1 <= k THEN k - 1 + 1 ELSE 0
    BY <1>6, <2>2, SubSeqProperties
  <2> QED BY <1>6, <2>1, <2>3
<1>8. ASSUME NEW i \in 1..d PROVE IF i <= k THEN stack[i].end > t ELSE stack[i].end <= t
  <2>1. CASE i <= k
    <3>1. k \in 1..d /\ stack[k].end > t
      BY <1>3, <1>6, <2>1
    <3>2. stack[k].end <= stack[i].end
      BY <2>1, <3>1 DEF Shrinks
    <3> QED BY <1>2, <2>1, <3>1, <3>2
  <2>2. CASE ~(i <= k)
    <3>1. i \notin T
      BY <1>5, <2>2
    <3> QED BY <1>2, <1>3, <2>2, <3>1
  <2> QED BY <2>1, <2>2
<1> QED BY <1>6, <1>7, <1>8

\* A turn of the loop in which e is opened.
Written(s, o, i) ==
  s \in Exports /\ Nests(s, i) /\ (IF i = 0 THEN s.out = <<>> ELSE Until(s.out, o[i].start))

LEMMA ExportedNests ==
  ASSUME NEW o \in Seq(Spans), \A i, j \in 1..Len(o) : i <= j => o[i].start <= o[j].start,
         NEW i \in 1..Len(o), NEW s, Written(s, o, i - 1)
  PROVE  Written(Exported(s, o[i]), o, i)
<1>1. PICK e \in Spans : e = o[i]
  BY LenProperties
<1>2. e.start \in Int /\ e.end \in Int
  BY SpanIs
<1>3. s \in Exports /\ Nests(s, i - 1) /\ i - 1 \in Nat
  BY LenProperties DEF Written
<1>4. PICK d \in Nat : d = Len(s.stack)
  BY <1>3, LenProperties DEF Nests
<1>5. Until(s.out, e.start)
  <2>1. CASE i = 1
    BY <2>1 DEF Written, Until
  <2>2. CASE i # 1
    <3>1. i - 1 \in 1..Len(o) /\ i - 1 # 0 /\ o[i - 1].start <= e.start
      BY <1>1, <2>2, LenProperties
    <3>2. Until(s.out, o[i - 1].start)
      BY <3>1 DEF Written
    <3>3. o[i - 1].start \in Int
      BY <3>1, SpanIs, LenProperties
    <3>4. s.out # <<>> => s.out[Len(s.out)].at \in Int
      <4>1. s.out # <<>> => Len(s.out) \in 1..Len(s.out)
        BY <1>3, EmptySeq, LenProperties DEF Nests
      <4>2. s.out # <<>> => s.out[Len(s.out)] \in Transition
        BY <1>3, <4>1, LenProperties DEF Nests
      <4> QED BY <4>2 DEF Transition
    <3> QED BY <1>2, <3>1, <3>2, <3>3, <3>4 DEF Until
  <2> QED BY <2>1, <2>2
<1>6. PICK k \in 0..d :
        /\ Len(StillOpen(s.stack, e.start)) = k
        /\ \A j \in 1..d : IF j <= k THEN s.stack[j].end > e.start ELSE s.stack[j].end <= e.start
  BY <1>2, <1>3, <1>4, StillOpenIs DEF Nests
<1>7. PICK m \in 0..d : m = d - k
  OBVIOUS
<1>8. PICK c : c = AfterClosing(s, m)
  OBVIOUS
<1>9. \A j \in d + 1 - m..d : s.stack[j].end <= e.start
  <2>1. \A j \in d + 1 - m..d : j \in 1..d /\ ~(j <= k)
    BY <1>7
  <2> QED BY <1>6, <2>1
<1>10. Closing(s, i - 1, m, e.start, c)
  BY <1>2, <1>3, <1>4, <1>5, <1>8, <1>9, AfterClosingNests
<1>11. Nests(c, i - 1) /\ Until(c.out, e.start)
  BY <1>10 DEF Closing
<1>12. \A j \in 1..Len(c.stack) : c.stack[j].end > e.start
  <2>1. Len(c.stack) = k /\ \A j \in 1..k : c.stack[j] = s.stack[j]
    BY <1>4, <1>7, <1>10 DEF Closing
  <2>2. \A j \in 1..k : j \in 1..d /\ j <= k
    OBVIOUS
  <2> QED BY <1>6, <2>1, <2>2
<1>13. PICK t : t = Opened(c, e)
  OBVIOUS
<1>14. Nests(t, (i - 1) + 1) /\ Until(t.out, e.start) /\ t = [out |-> t.out, stack |-> t.stack]
  BY <1>3, <1>11, <1>12, <1>13, OpenNests
<1>15. t = Exported(s, e)
  BY <1>4, <1>6, <1>7, <1>8, <1>13 DEF Exported
<1>16. (i - 1) + 1 = i /\ i # 0
  OBVIOUS
<1>17. t \in Exports
  BY <1>14 DEF Exports, Nests
<1> QED BY <1>1, <1>14, <1>15, <1>16, <1>17 DEF Written

LEMMA NothingWritten == Nests([out |-> <<>>, stack |-> <<>>], 0)
<1>1. /\ <<>> \in Seq(Transition) /\ <<>> \in Seq(OpenSpan)
      /\ Len(<<>>) = 0
  BY EmptySeq
<1>2. Depth(<<>>, 0) = 0
  BY DepthStarts
<1> QED BY <1>1, <1>2 DEF Nests, Ascends, Shrinks, AllOpened, Matched, Until

LEMMA ValidEventsAre ==
  ASSUME NEW events \in Seq(Event)
  PROVE  ValidEvents(events) \in Seq(Spans)
<1>1. PICK n \in Nat : n = Len(events) /\ \A i \in 1..n : events[i] \in Event
  BY LenProperties
<1> DEFINE Kept(i, x) == IF events[i].end < events[i].start THEN x ELSE Append(x, events[i])
<1>2. ASSUME NEW i \in 1..n, NEW x \in Seq(Spans) PROVE Kept(i, x) \in Seq(Spans)
  <2>1. events[i] \in Event /\ events[i].start \in Int /\ events[i].end \in Int
    BY <1>1 DEF Event
  <2>2. CASE events[i].end < events[i].start
    BY <2>2
  <2>3. CASE ~(events[i].end < events[i].start)
    <3>1. events[i] \in Spans
      BY <2>1, <2>3 DEF Spans
    <3>2. Append(x, events[i]) \in Seq(Spans)
      BY <3>1
    <3> QED BY <2>3, <3>2
  <2> QED BY <2>2, <2>3
<1> HIDE DEF Kept
<1>3. PICK Values : Values = [i \in 0..n |-> Seq(Spans)]
  OBVIOUS
<1>4. PICK Step : Step = [i \in 1..n |-> [x \in Values[i - 1] |-> Kept(i, x)]]
  OBVIOUS
<1>5. <<>> \in Values[0]
  BY <1>3, EmptySeq
<1>6. ASSUME NEW i \in 1..n, NEW x \in Values[i - 1]
      PROVE  Step[i][x] = Kept(i, x) /\ Step[i][x] \in Values[i]
  <2>1. i - 1 \in 0..n /\ i \in 0..n
    OBVIOUS
  <2>2. x \in Seq(Spans) /\ Values[i] = Seq(Spans)
    BY <1>3, <2>1
  <2>3. Step[i][x] = Kept(i, x)
    BY <1>4
  <2> QED BY <1>2, <2>2, <2>3
<1>7. PICK h : Turns(h, <<>>, n, Step, Values)
  BY <1>5, <1>6, LoopWithin
<1>8. h = [i \in 0..n |-> IF i = 0 THEN <<>> ELSE Kept(i, h[i - 1])]
  <2>1. \A i \in 1..n : h[i] = Kept(i, h[i - 1])
    BY <1>6, <1>7 DEF Turns
  <2>2. \A i \in 0..n : i # 0 => i \in 1..n
    OBVIOUS
  <2> QED BY <1>7, <2>1, <2>2 DEF Turns
<1>9. PICK f : f = CHOOSE kept : kept = [i \in 0..n |-> IF i = 0 THEN <<>> ELSE Kept(i, kept[i - 1])]
  OBVIOUS
<1>10. f = [i \in 0..n |-> IF i = 0 THEN <<>> ELSE Kept(i, f[i - 1])]
  BY <1>8, <1>9
<1>11. ValidEvents(events) = f[n]
  BY <1>1, <1>9 DEF ValidEvents, Kept
<1>12. PICK T : T = {i \in 0..n : f[i] \in Seq(Spans)}
  OBVIOUS
<1>13. 0 \in T
  <2>1. 0 \in 0..n
    OBVIOUS
  <2>2. f[0] = <<>>
    BY <1>10, <2>1
  <2> QED BY <1>12, <2>1, <2>2, EmptySeq
<1>14. ASSUME NEW i \in 1..n, i - 1 \in T PROVE i \in T
  <2>1. i \in 0..n /\ i # 0
    OBVIOUS
  <2>2. f[i] = Kept(i, f[i - 1])
    BY <1>10, <2>1
  <2>3. f[i - 1] \in Seq(Spans)
    BY <1>12, <1>14
  <2> QED BY <1>2, <1>12, <2>1, <2>2, <2>3
<1>15. \A i \in 0..n : i \in T
  BY <1>13, <1>14, UpTo
<1> QED BY <1>11, <1>12, <1>15
\* The loop of to_speedscope.
Writing(o, n, first) ==
  CHOOSE done : done = [i \in 0..n |-> IF i = 0 THEN first ELSE Exported(done[i - 1], o[i])]

LEMMA AllWritten ==
  ASSUME NEW o \in Seq(Spans), \A i, j \in 1..Len(o) : i <= j => o[i].start <= o[j].start,
         NEW n \in Nat, n = Len(o), NEW first, first = [out |-> <<>>, stack |-> <<>>],
         NEW f, f = Writing(o, n, first)
  PROVE  Written(f[n], o, n)
<1>1. ASSUME NEW i \in 1..n, NEW s, Written(s, o, i - 1)
      PROVE  Written(Exported(s, o[i]), o, i)
  BY <1>1, ExportedNests
<1>2. Written(first, o, 0)
  <2>1. first \in Exports /\ first.out = <<>>
    BY EmptySeq DEF Exports
  <2> QED BY <2>1, NothingWritten DEF Written
<1>3. PICK Values : Values = [i \in 0..n |-> {s \in Exports : Written(s, o, i)}]
  OBVIOUS
<1>4. \A s, i : Written(s, o, i) => s \in Exports
  BY DEF Written
<1>5. PICK Step : Step = [i \in 1..n |-> [s \in Values[i - 1] |-> Exported(s, o[i])]]
  OBVIOUS
<1>6. first \in Values[0]
  BY <1>2, <1>3, <1>4
<1>7. ASSUME NEW i \in 1..n, NEW s \in Values[i - 1]
      PROVE  Step[i][s] = Exported(s, o[i]) /\ Step[i][s] \in Values[i]
  <2>1. i - 1 \in 0..n /\ i \in 0..n
    OBVIOUS
  <2>2. Written(s, o, i - 1)
    BY <1>3, <2>1
  <2>3. Step[i][s] = Exported(s, o[i])
    BY <1>5
  <2> QED BY <1>1, <1>3, <1>4, <2>1, <2>2, <2>3
<1>8. PICK h : Turns(h, first, n, Step, Values)
  BY <1>6, <1>7, LoopWithin
<1>9. h = [i \in 0..n |-> IF i = 0 THEN first ELSE Exported(h[i - 1], o[i])]
  <2>1. \A i \in 1..n : h[i] = Exported(h[i - 1], o[i])
    BY <1>7, <1>8 DEF Turns
  <2>2. \A i \in 0..n : i # 0 => i \in 1..n
    OBVIOUS
  <2> QED BY <1>8, <2>1, <2>2 DEF Turns
<1>10. f = [i \in 0..n |-> IF i = 0 THEN first ELSE Exported(f[i - 1], o[i])]
  BY <1>9 DEF Writing
<1>11. PICK T : T = {i \in 0..n : Written(f[i], o, i)}
  OBVIOUS
<1>12. 0 \in T
  <2>1. 0 \in 0..n
    OBVIOUS
  <2>2. f[0] = first
    BY <1>10, <2>1
  <2> QED BY <1>2, <1>11, <2>1, <2>2
<1>13. ASSUME NEW i \in 1..n, i - 1 \in T PROVE i \in T
  <2>1. i \in 0..n /\ i # 0
    OBVIOUS
  <2>2. f[i] = Exported(f[i - 1], o[i])
    BY <1>10, <2>1
  <2> QED BY <1>1, <1>11, <1>13, <2>1, <2>2
<1>14. \A i \in 0..n : i \in T
  BY <1>12, <1>13, UpTo
<1> QED BY <1>11, <1>14

\* What a viewer accepts.
Accepted(out, n) == Ascends(out) /\ Matched(out) /\ Len(out) = 2 * n /\ out \in Seq(Transition)

LEMMA AllClosed ==
  ASSUME NEW s \in Exports, NEW n \in Nat, Nests(s, n)
  PROVE  Accepted(AfterClosing(s, Len(s.stack)).out, n)
<1>1. PICK d \in Nat : d = Len(s.stack)
  BY LenProperties DEF Exports
<1>2. s.stack \in Seq(OpenSpan) /\ s.out \in Seq(Transition) /\ Shrinks(s.stack)
  BY DEF Nests
<1>3. ASSUME NEW k \in 1..d PROVE s.stack[k].end \in Int
  <2>1. s.stack[k] \in OpenSpan
    BY <1>1, <1>2, LenProperties
  <2> QED BY <2>1 DEF OpenSpan
<1>4. \E t \in Int : Until(s.out, t) /\ \A k \in 1..d : s.stack[k].end <= t
  <2>1. CASE d = 0
    <3>1. PICK t : t = IF s.out = <<>> THEN 0 ELSE s.out[Len(s.out)].at
      OBVIOUS
    <3>2. t \in Int
      <4>1. s.out # <<>> => Len(s.out) \in 1..Len(s.out)
        BY <1>2, EmptySeq, LenProperties
      <4>2. s.out # <<>> => s.out[Len(s.out)] \in Transition
        BY <1>2, <4>1, LenProperties
      <4> QED BY <3>1, <4>2 DEF Transition
    <3>3. Until(s.out, t)
      BY <3>1, <3>2 DEF Until
    <3> QED BY <2>1, <3>2, <3>3
  <2>2. CASE d # 0
    <3>1. 1 \in 1..d
      BY <2>2
    <3>2. Until(s.out, s.stack[1].end)
      BY <1>1, <3>1 DEF Nests
    <3>3. \A k \in 1..d : s.stack[k].end <= s.stack[1].end
      BY <1>1, <1>2, <3>1 DEF Shrinks
    <3> QED BY <1>3, <3>1, <3>2, <3>3
  <2> QED BY <2>1, <2>2
<1>5. PICK t \in Int : Until(s.out, t) /\ \A k \in 1..d : s.stack[k].end <= t
  BY <1>4
<1>6. PICK c : c = AfterClosing(s, d)
  OBVIOUS
<1>7. Closing(s, n, d, t, c)
  <2>1. d \in 0..d /\ \A k \in d + 1 - d..d : s.stack[k].end <= t
    BY <1>5
  <2> QED BY <1>1, <1>5, <1>6, <2>1, AfterClosingNests
<1>8. Nests(c, n) /\ Len(c.stack) = 0
  BY <1>1, <1>7 DEF Closing
<1>9. c.out \in Seq(Transition) /\ Len(c.out) \in Nat
  BY <1>8, LenProperties DEF Nests
<1>10. Ascends(c.out) /\ Matched(c.out) /\ Len(c.out) = 2 * n
  BY <1>8, <1>9 DEF Nests
<1> QED BY <1>1, <1>6, <1>9, <1>10 DEF Accepted

LEMMA SpeedscopeNests ==
  ASSUME NEW events \in Seq(Event)
  PROVE  Accepted(Speedscope(events), Len(ValidEvents(events)))
<1>1. PICK valid : valid = ValidEvents(events)
  OBVIOUS
<1>2. PICK o : o = Ordered(valid)
  OBVIOUS
<1>3. valid \in Seq(Spans) /\ Timed(valid)
  BY <1>1, ValidEventsAre, SpansTimed
<1>4. Rearranged(valid, o, Spans)
  BY <1>2, <1>3, OrderedIs
<1>5. PICK n \in Nat : n = Len(o) /\ n = Len(valid)
  BY <1>3, <1>4, LenProperties DEF Rearranged
<1>6. o \in Seq(Spans) /\ \A i, j \in 1..Len(o) : i <= j => o[i].start <= o[j].start
  BY <1>4, <1>5 DEF Rearranged
<1>7. PICK first : first = [out |-> <<>>, stack |-> <<>>]
  OBVIOUS
<1>8. PICK f : f = Writing(o, n, first)
  OBVIOUS
<1>9. Written(f[n], o, n)
  BY <1>5, <1>6, <1>7, <1>8, AllWritten
<1>10. f[n] \in Exports /\ Nests(f[n], n)
  BY <1>9 DEF Written
<1>11. Accepted(AfterClosing(f[n], Len(f[n].stack)).out, n)
  BY <1>10, AllClosed
<1>12. Speedscope(events) = AfterClosing(f[n], Len(f[n].stack)).out
  BY <1>1, <1>2, <1>5, <1>7, <1>8 DEF Speedscope, Writing
<1> QED BY <1>1, <1>5, <1>11, <1>12

\* The export of whatever the window holds, events of an odd file included, is accepted: it goes
\* forward in time, opens and closes each valid event once, and always closes the span that is
\* open innermost, although spans may overlap without being in one another (exporters.py).
LEMMA ExportIsAccepted == DataInv => ExportNests
<1> SUFFICES ASSUME DataInv PROVE ExportNests
  OBVIOUS
<1>1. Known \subseteq Event
  <2>1. ToSet(Foreign) \subseteq Event
    <3>1. Foreign \in Seq(Event)
      BY ProfileDataAssumption
    <3> QED BY <3>1, LenProperties DEF ToSet
  <2> QED BY <2>1 DEF Known, Spans
<1>2. rawEvents \in Seq(Event)
  <2>1. rawEvents \in Seq(Known)
    BY DEF DataInv, EventsInv
  <2> QED BY <1>1, <2>1
<1>3. PICK out : out = Speedscope(rawEvents)
  OBVIOUS
<1>4. Accepted(out, Len(ValidEvents(rawEvents)))
  BY <1>2, <1>3, SpeedscopeNests
<1>5. DOMAIN out = 1..Len(out)
  BY <1>4, LenProperties DEF Accepted
<1>6. \A c \in {i \in DOMAIN out : out[i].type = "C"} : \E o \in 1..c - 1 : ClosedBy(out, o, c)
  BY <1>4, <1>5 DEF Accepted, Matched
<1> QED BY <1>3, <1>4, <1>6 DEF ExportNests, Accepted, Ascends

\* Hazard: exporters.py:77. Spans that overlap, two files' events and rounded times could make the
\* export close a span it never opened, or go back in time.
THEOREM AlwaysNests == DataSpec => []ExportNests
BY DataInvHolds, ExportIsAccepted, PTL
-----------------------------------------------------------------------------
(* Sums.  A fold over a set takes its elements in an order a CHOOSE fixes; that the sum does not    *)
(* depend on it, and that sizes of sets that are apart add up, is shown over the subsets.          *)

\* What holds of a set when it holds of its smaller subsets holds of every finite one.
LEMMA BySubsets ==
  ASSUME NEW S, IsFiniteSet(S), NEW T,
         \A U \in SUBSET S : (\A W \in SUBSET U : W # U => W \in T) => U \in T
  PROVE  \A U \in SUBSET S : U \in T
<1> DEFINE Others == {U \in SUBSET S : U \notin T}
<1> SUFFICES ASSUME Others # {} PROVE FALSE
  OBVIOUS
<1>1. Others \subseteq FiniteSubsetsOf(S) /\ Others # {}
  BY FS_Subset DEF FiniteSubsetsOf
<1>2. PICK U \in Others : \A W \in Others : ~(<<W, U>> \in StrictSubsetOrdering(S))
  <2>1. PICK B : B = Others
    OBVIOUS
  <2>2. IsWellFoundedOn(StrictSubsetOrdering(S), FiniteSubsetsOf(S))
    BY FS_StrictSubsetOrderingWellFounded
  <2>3. \E U \in B : \A W \in B : ~(<<W, U>> \in StrictSubsetOrdering(S))
    BY <1>1, <2>1, <2>2, WFMin
  <2> QED BY <2>1, <2>3
<1>3. ASSUME NEW W \in SUBSET U, W # U PROVE W \in T
  <2>1. <<W, U>> \in StrictSubsetOrdering(S)
    BY <1>3 DEF StrictSubsetOrdering
  <2> QED BY <1>2, <2>1
<1> QED BY <1>2, <1>3

\* The element a sum takes next.
Taken(s) == CHOOSE x \in s : TRUE

\* g sums v over each of the sets.
Sums(g, v, sets) ==
  g = [s \in sets |-> IF s = {} THEN 0 ELSE v[Taken(s)] + g[s \ {Taken(s)}]]

Adding(v, S) == CHOOSE g : Sums(g, v, SUBSET S)

LEMMA SumIs ==
  ASSUME NEW v, NEW S
  PROVE  SumFunctionOnSet(v, S) = Adding(v, S)[S]
BY DEF SumFunctionOnSet, FoldFunctionOnSet, MapThenFoldSet, Adding, Sums, Taken

LEMMA TakenIs ==
  ASSUME NEW s, s # {}
  PROVE  Taken(s) \in s
BY DEF Taken

LEMMA SumsHas ==
  ASSUME NEW g, NEW v, NEW sets, Sums(g, v, sets), NEW s \in sets
  PROVE  g[s] = IF s = {} THEN 0 ELSE v[Taken(s)] + g[s \ {Taken(s)}]
<1>1. PICK h : h = g
  OBVIOUS
<1>2. g = [u \in sets |-> IF u = {} THEN 0 ELSE v[Taken(u)] + h[u \ {Taken(u)}]]
  BY <1>1 DEF Sums
<1> QED BY <1>1, <1>2

LEMMA SumsExist ==
  ASSUME NEW v, NEW S, IsFiniteSet(S)
  PROVE  Sums(Adding(v, S), v, SUBSET S)
<1> DEFINE Small(n) == {s \in SUBSET S : Cardinality(s) <= n}
<1>1. \A s \in SUBSET S : IsFiniteSet(s) /\ Cardinality(s) \in Nat
  BY FS_Subset, FS_CardinalityType
<1>2. \A s \in SUBSET S : s # {} =>
        /\ Taken(s) \in s /\ s \ {Taken(s)} \in SUBSET S
        /\ Cardinality(s \ {Taken(s)}) = Cardinality(s) - 1
  <2> SUFFICES ASSUME NEW s \in SUBSET S, s # {}
               PROVE  /\ Taken(s) \in s /\ s \ {Taken(s)} \in SUBSET S
                      /\ Cardinality(s \ {Taken(s)}) = Cardinality(s) - 1
    OBVIOUS
  <2>1. PICK x \in s : x = Taken(s)
    BY TakenIs
  <2>2. Cardinality(s \ {x}) = Cardinality(s) - 1
    BY <1>1, FS_RemoveElement
  <2> QED BY <2>1, <2>2
<1>3. PICK K : K = {n \in Nat : \E g : Sums(g, v, Small(n))}
  OBVIOUS
<1>4. 0 \in K
  <2>1. PICK g : g = [s \in Small(0) |-> 0]
    OBVIOUS
  <2>2. \A s \in Small(0) : s = {}
    <3> SUFFICES ASSUME NEW s \in Small(0), s # {} PROVE FALSE
      OBVIOUS
    <3>1. s \in SUBSET S /\ s \ {Taken(s)} \in SUBSET S
      BY <1>2
    <3>2. Cardinality(s) \in Nat /\ Cardinality(s \ {Taken(s)}) \in Nat
      BY <1>1, <3>1
    <3> QED BY <1>2, <3>1, <3>2
  <2>3. Sums(g, v, Small(0))
    BY <2>1, <2>2 DEF Sums
  <2> QED BY <1>3, <2>3
<1>5. ASSUME NEW n \in Nat, n \in K PROVE n + 1 \in K
  <2>1. PICK g : Sums(g, v, Small(n))
    BY <1>3, <1>5
  <2>2. PICK h : h = [s \in Small(n + 1) |-> IF s = {} THEN 0 ELSE v[Taken(s)] + g[s \ {Taken(s)}]]
    OBVIOUS
  <2>3. ASSUME NEW s \in Small(n) PROVE h[s] = g[s]
    <3>1. s \in Small(n + 1)
      BY <1>1
    <3>2. g[s] = IF s = {} THEN 0 ELSE v[Taken(s)] + g[s \ {Taken(s)}]
      BY <2>1, SumsHas
    <3> QED BY <2>2, <3>1, <3>2
  <2>4. ASSUME NEW s \in Small(n + 1), s # {} PROVE h[s \ {Taken(s)}] = g[s \ {Taken(s)}]
    <3>1. s \ {Taken(s)} \in Small(n)
      BY <1>1, <1>2, <2>4
    <3> QED BY <2>3, <3>1
  <2>5. h = [s \in Small(n + 1) |-> IF s = {} THEN 0 ELSE v[Taken(s)] + h[s \ {Taken(s)}]]
    BY <2>2, <2>4
  <2>6. Sums(h, v, Small(n + 1))
    BY <2>5 DEF Sums
  <2>7. \E f : Sums(f, v, Small(n + 1))
    BY <2>6
  <2>8. n + 1 \in Nat
    OBVIOUS
  <2> QED BY <1>3, <2>7, <2>8
<1>6. \A n \in Nat : n \in K
  BY <1>4, <1>5, Induction
<1>7. PICK n \in Nat : n = Cardinality(S)
  BY FS_CardinalityType
<1>8. Small(n) = SUBSET S
  BY <1>1, <1>7, FS_Subset
<1>9. \E g : Sums(g, v, SUBSET S)
  BY <1>3, <1>6, <1>8
<1> QED BY <1>9 DEF Adding

\* The sum over a set does not depend on which sets are summed beside it.
LEMMA SumsAgree ==
  ASSUME NEW v, NEW S, IsFiniteSet(S), NEW R \in SUBSET S
  PROVE  \A U \in SUBSET R : Adding(v, R)[U] = Adding(v, S)[U]
<1>1. PICK g, h : g = Adding(v, S) /\ h = Adding(v, R)
  OBVIOUS
<1>2. Sums(g, v, SUBSET S) /\ Sums(h, v, SUBSET R) /\ IsFiniteSet(R)
  BY <1>1, SumsExist, FS_Subset
<1>3. PICK T : T = {U \in SUBSET R : h[U] = g[U]}
  OBVIOUS
<1>4. ASSUME NEW U \in SUBSET R, \A W \in SUBSET U : W # U => W \in T
      PROVE  U \in T
  <2>1. g[U] = IF U = {} THEN 0 ELSE v[Taken(U)] + g[U \ {Taken(U)}]
    <3>1. U \in SUBSET S
      OBVIOUS
    <3> QED BY <1>2, <3>1, SumsHas
  <2>2. h[U] = IF U = {} THEN 0 ELSE v[Taken(U)] + h[U \ {Taken(U)}]
    BY <1>2, SumsHas
  <2>3. CASE U = {}
    BY <1>3, <2>1, <2>2, <2>3
  <2>4. CASE U # {}
    <3>1. U \ {Taken(U)} \in T
      BY <1>4, <2>4, TakenIs
    <3> QED BY <1>3, <2>1, <2>2, <2>4, <3>1
  <2> QED BY <2>3, <2>4
<1>5. \A U \in SUBSET R : U \in T
  BY <1>2, <1>4, BySubsets
<1> QED BY <1>1, <1>3, <1>5

\* Elements may be added in any order.
LEMMA AddingStep ==
  ASSUME NEW S, IsFiniteSet(S), NEW v, \A i \in S : v[i] \in Int
  PROVE  \A U \in SUBSET S :
           /\ Adding(v, S)[U] \in Int
           /\ \A x \in U : Adding(v, S)[U] = v[x] + Adding(v, S)[U \ {x}]
<1>1. PICK g : g = Adding(v, S)
  OBVIOUS
<1>2. Sums(g, v, SUBSET S)
  BY <1>1, SumsExist
<1>3. PICK T : T = {U \in SUBSET S : g[U] \in Int /\ \A x \in U : g[U] = v[x] + g[U \ {x}]}
  OBVIOUS
<1>4. ASSUME NEW U \in SUBSET S, \A W \in SUBSET U : W # U => W \in T
      PROVE  U \in T
  <2>1. g[U] = IF U = {} THEN 0 ELSE v[Taken(U)] + g[U \ {Taken(U)}]
    BY <1>2, SumsHas
  <2>2. CASE U = {}
    BY <1>3, <2>1, <2>2
  <2>3. CASE U # {}
    <3>1. PICK y \in U : y = Taken(U)
      BY <2>3, TakenIs
    <3>2. \A x \in U : U \ {x} \in T
      BY <1>4
    <3>3. g[U] = v[y] + g[U \ {y}] /\ v[y] \in Int /\ g[U \ {y}] \in Int
      BY <1>3, <2>1, <2>3, <3>1, <3>2
    <3>4. ASSUME NEW x \in U PROVE g[U] = v[x] + g[U \ {x}]
      <4>1. CASE x = y
        BY <3>3, <4>1
      <4>2. CASE x # y
        <5>1. PICK W \in SUBSET S : W = U \ {x, y}
          OBVIOUS
        <5>2. (U \ {y}) \ {x} = W /\ (U \ {x}) \ {y} = W /\ x \in U \ {y} /\ y \in U \ {x}
          BY <4>2, <5>1
        <5>3. W \in T
          BY <1>4, <5>1
        <5>4. g[U \ {y}] = v[x] + g[W]
          BY <1>3, <3>2, <5>2
        <5>5. g[U \ {x}] = v[y] + g[W]
          BY <1>3, <3>2, <5>2
        <5>6. v[x] \in Int /\ g[W] \in Int
          BY <1>3, <5>3
        <5> QED BY <3>3, <5>4, <5>5, <5>6
      <4> QED BY <4>1, <4>2
    <3>5. g[U] \in Int
      BY <3>3
    <3> QED BY <1>3, <3>4, <3>5
  <2> QED BY <2>2, <2>3
<1>5. \A U \in SUBSET S : U \in T
  BY <1>4, BySubsets
<1> QED BY <1>1, <1>3, <1>5

LEMMA SumStep ==
  ASSUME NEW S, IsFiniteSet(S), NEW v, \A i \in S : v[i] \in Int, NEW x \in S
  PROVE  /\ SumFunctionOnSet(v, S) \in Int /\ SumFunctionOnSet(v, S \ {x}) \in Int
         /\ SumFunctionOnSet(v, S) = v[x] + SumFunctionOnSet(v, S \ {x})
<1>1. PICK R \in SUBSET S : R = S \ {x}
  OBVIOUS
<1>2. S \in SUBSET S /\ R \in SUBSET R
  OBVIOUS
<1>3. Adding(v, R)[R] = Adding(v, S)[R]
  BY <1>2, SumsAgree
<1>4. Adding(v, S)[R] \in Int /\ Adding(v, S)[S] \in Int
  BY <1>2, AddingStep
<1>5. Adding(v, S)[S] = v[x] + Adding(v, S)[R]
  BY <1>1, <1>2, AddingStep
<1> QED BY <1>1, <1>3, <1>4, <1>5, SumIs

LEMMA SumEmpty ==
  ASSUME NEW v
  PROVE  SumFunctionOnSet(v, {}) = 0
<1>1. Sums(Adding(v, {}), v, SUBSET {})
  BY SumsExist, FS_EmptySet
<1>2. {} \in SUBSET {}
  OBVIOUS
<1>3. Adding(v, {})[{}] = 0
  BY <1>1, <1>2, SumsHas
<1> QED BY <1>3, SumIs

\* The sizes of sets that are apart add up to the size of their union.
SizesAddUp(v, D, S) ==
  /\ IsFiniteSet(UNION {D[i] : i \in S})
  /\ SumFunctionOnSet(v, S) = Cardinality(UNION {D[i] : i \in S})

LEMMA SumCounts ==
  ASSUME NEW S, IsFiniteSet(S), NEW v, NEW D,
         \A i \in S : IsFiniteSet(D[i]) /\ v[i] = Cardinality(D[i]),
         \A i, j \in S : i # j => D[i] \cap D[j] = {}
  PROVE  SizesAddUp(v, D, S)
<1>1. PICK T : T = {U \in SUBSET S : SizesAddUp(v, D, U)}
  OBVIOUS
<1>2. \A i \in S : v[i] \in Int
  BY FS_CardinalityType
<1>3. ASSUME NEW U \in SUBSET S, \A W \in SUBSET U : W # U => W \in T
      PROVE  U \in T
  <2>1. CASE U = {}
    <3>1. UNION {D[i] : i \in {}} = {}
      OBVIOUS
    <3> QED BY <1>1, <2>1, <3>1, FS_EmptySet, SumEmpty DEF SizesAddUp
  <2>2. CASE U # {}
    <3>1. PICK x \in U : TRUE
      BY <2>2
    <3>2. PICK W \in SUBSET U : W = U \ {x}
      OBVIOUS
    <3>3. PICK A : A = UNION {D[i] : i \in W}
      OBVIOUS
    <3>4. IsFiniteSet(A) /\ SumFunctionOnSet(v, W) = Cardinality(A)
      BY <1>1, <1>3, <3>1, <3>2, <3>3 DEF SizesAddUp
    <3>5. UNION {D[i] : i \in U} = D[x] \cup A
      BY <3>2, <3>3
    <3>6. D[x] \cap A = {}
      <4>1. \A i \in W : i \in S /\ x \in S /\ i # x
        BY <3>2
      <4> QED BY <3>3, <4>1
    <3>7. IsFiniteSet(D[x]) /\ v[x] = Cardinality(D[x])
      OBVIOUS
    <3>8. /\ IsFiniteSet(D[x] \cup A)
          /\ Cardinality(D[x] \cup A) = Cardinality(D[x]) + Cardinality(A)
      <4>1. IsFiniteSet(D[x] \cup A)
        BY <3>4, <3>7, FS_Union
      <4>2. Cardinality(D[x] \cup A) = Cardinality(D[x]) + Cardinality(A) - Cardinality(D[x] \cap A)
        BY <3>4, <3>7, FS_Union
      <4>3. Cardinality(D[x] \cap A) = 0 /\ Cardinality(D[x]) \in Nat /\ Cardinality(A) \in Nat
        BY <3>4, <3>6, <3>7, FS_EmptySet, FS_CardinalityType
      <4> QED BY <4>1, <4>2, <4>3
    <3>9. SumFunctionOnSet(v, U) = v[x] + SumFunctionOnSet(v, W)
      <4>1. IsFiniteSet(U) /\ \A i \in U : v[i] \in Int
        BY <1>2, FS_Subset
      <4> QED BY <3>2, <4>1, SumStep
    <3>10. SizesAddUp(v, D, U)
      BY <3>4, <3>5, <3>7, <3>8, <3>9 DEF SizesAddUp
    <3> QED BY <1>1, <3>10
  <2> QED BY <2>1, <2>2
<1>4. S \in SUBSET S /\ \A U \in SUBSET S : U \in T
  BY <1>3, BySubsets
<1> QED BY <1>1, <1>4

\* A function reaches no more values than it has arguments.
LEMMA AtMost ==
  ASSUME NEW S, IsFiniteSet(S), NEW f, NEW T, \A y \in T : \E x \in S : f[x] = y
  PROVE  IsFiniteSet(T) /\ Cardinality(T) <= Cardinality(S)
<1>1. PICK U \in SUBSET S : U = {x \in S : f[x] \in T}
  OBVIOUS
<1>2. PICK g : g = [x \in U |-> f[x]]
  OBVIOUS
<1>3. g \in Surjection(U, T)
  BY <1>1, <1>2 DEF Surjection
<1>4. IsFiniteSet(U) /\ Cardinality(U) <= Cardinality(S)
  BY FS_Subset
<1>5. IsFiniteSet(T) /\ Cardinality(T) <= Cardinality(U)
  BY <1>3, <1>4, FS_Surjection
<1>6. Cardinality(T) \in Nat /\ Cardinality(U) \in Nat /\ Cardinality(S) \in Nat
  BY <1>4, <1>5, FS_CardinalityType
<1> QED BY <1>4, <1>5, <1>6
-----------------------------------------------------------------------------
(* Times.  A call's duration is the number of moments, of whole microseconds, at which it ran. *)

\* The moments at which a call ran.
Moments(e) == e.start .. e.end - 1

MomentsOf(events, S) == UNION {Moments(events[i]) : i \in S}

\* The same, each with the call that ran.
Tagged(events, S) == UNION {{i} \X Moments(events[i]) : i \in S}

LEMMA MomentsCount ==
  ASSUME NEW e \in Spans
  PROVE  /\ IsFiniteSet(Moments(e)) /\ Duration(e) = Cardinality(Moments(e))
         /\ \A x : IsFiniteSet({x} \X Moments(e)) /\ Duration(e) = Cardinality({x} \X Moments(e))
<1>1. PICK a \in Int, b \in Int : a = e.start /\ b = e.end /\ a <= b
  BY SpanIs
<1>2. PICK c \in Int : c = b - 1
  OBVIOUS
<1>3. PICK M : M = a..c
  OBVIOUS
<1>4. IsFiniteSet(M) /\ Cardinality(M) = IF a > c THEN 0 ELSE c - a + 1
  BY <1>3, FS_Interval
<1>5. Cardinality(M) = b - a /\ Cardinality(M) \in Nat
  BY <1>1, <1>2, <1>4
<1>6. ASSUME NEW x PROVE IsFiniteSet({x} \X M) /\ Cardinality({x} \X M) = Cardinality(M)
  <2>1. IsFiniteSet({x}) /\ Cardinality({x}) = 1
    BY FS_Singleton
  <2>2. IsFiniteSet({x} \X M) /\ Cardinality({x} \X M) = Cardinality({x}) * Cardinality(M)
    BY <1>4, <2>1, FS_Product
  <2> QED BY <1>5, <2>1, <2>2
<1> QED BY <1>1, <1>2, <1>3, <1>4, <1>5, <1>6 DEF Moments, Duration

\* The places of a sequence.
LEMMA PlacesFinite ==
  ASSUME NEW events \in Seq(Spans), NEW S \in SUBSET (DOMAIN events)
  PROVE  IsFiniteSet(S) /\ \A i \in S : events[i] \in Spans
<1>1. DOMAIN events = 1..Len(events) /\ Len(events) \in Nat
  BY LenProperties
<1>2. IsFiniteSet(DOMAIN events)
  <2>1. PICK n \in Nat : n = Len(events)
    BY <1>1
  <2>2. IsFiniteSet(1..n)
    BY FS_Interval
  <2> QED BY <1>1, <2>1, <2>2
<1> QED BY <1>1, <1>2, FS_Subset, ElementOfSeq

LEMMA TimeIs ==
  ASSUME NEW events \in Seq(Spans), NEW S \in SUBSET (DOMAIN events)
  PROVE  IsFiniteSet(Tagged(events, S)) /\ TimeOf(events, S) = Cardinality(Tagged(events, S))
<1>1. PICK v : v = [i \in DOMAIN events |-> Duration(events[i])]
  OBVIOUS
<1>2. PICK D : D = [i \in S |-> {i} \X Moments(events[i])]
  OBVIOUS
<1>3. IsFiniteSet(S) /\ \A i \in S : events[i] \in Spans
  BY PlacesFinite
<1>4. \A i \in S : IsFiniteSet(D[i]) /\ v[i] = Cardinality(D[i])
  BY <1>1, <1>2, <1>3, MomentsCount
<1>5. \A i, j \in S : i # j => D[i] \cap D[j] = {}
  BY <1>2
<1>6. SizesAddUp(v, D, S)
  BY <1>3, <1>4, <1>5, SumCounts
<1>7. UNION {D[i] : i \in S} = Tagged(events, S)
  BY <1>2 DEF Tagged
<1> QED BY <1>1, <1>6, <1>7 DEF SizesAddUp, TimeOf

\* Calls no two of which ran at the same moment took the time in which one ran.
LEMMA TimeApart ==
  ASSUME NEW events \in Seq(Spans), NEW S \in SUBSET (DOMAIN events),
         \A i, j \in S : i # j => Moments(events[i]) \cap Moments(events[j]) = {}
  PROVE  /\ IsFiniteSet(MomentsOf(events, S))
         /\ TimeOf(events, S) = Cardinality(MomentsOf(events, S))
<1>1. PICK v : v = [i \in DOMAIN events |-> Duration(events[i])]
  OBVIOUS
<1>2. PICK D : D = [i \in S |-> Moments(events[i])]
  OBVIOUS
<1>3. IsFiniteSet(S) /\ \A i \in S : events[i] \in Spans
  BY PlacesFinite
<1>4. \A i \in S : IsFiniteSet(D[i]) /\ v[i] = Cardinality(D[i])
  BY <1>1, <1>2, <1>3, MomentsCount
<1>5. \A i, j \in S : i # j => D[i] \cap D[j] = {}
  BY <1>2
<1>6. SizesAddUp(v, D, S)
  BY <1>3, <1>4, <1>5, SumCounts
<1>7. UNION {D[i] : i \in S} = MomentsOf(events, S)
  BY <1>2 DEF MomentsOf
<1> QED BY <1>1, <1>6, <1>7 DEF SizesAddUp, TimeOf

\* Moments at which one of the calls ran are no more than the time they took.
LEMMA TimeCovers ==
  ASSUME NEW events \in Seq(Spans), NEW S \in SUBSET (DOMAIN events),
         NEW A \in SUBSET MomentsOf(events, S)
  PROVE  IsFiniteSet(A) /\ Cardinality(A) <= TimeOf(events, S)
<1>1. PICK T : T = Tagged(events, S)
  OBVIOUS
<1>2. IsFiniteSet(T) /\ TimeOf(events, S) = Cardinality(T)
  BY <1>1, TimeIs
<1>3. PICK f : f = [x \in T |-> x[2]]
  OBVIOUS
<1>4. ASSUME NEW t \in A PROVE \E x \in T : f[x] = t
  <2>1. PICK i \in S : t \in Moments(events[i])
    BY DEF MomentsOf
  <2>2. <<i, t>> \in T
    BY <1>1, <2>1 DEF Tagged
  <2> QED BY <1>3, <2>2
<1>5. IsFiniteSet(A) /\ Cardinality(A) <= Cardinality(T)
  BY <1>2, <1>4, AtMost
<1> QED BY <1>2, <1>5
-----------------------------------------------------------------------------
(* Which event each one is nested in *)

\* What is on the stack of _recompute_self_times.
Item == [at : Nat, end : Int]

\* p is the last before i that has not ended when i starts, or 0.
Innermost(o, i, p) ==
  /\ p \in 0..i - 1
  /\ p # 0 => o[p].end > o[i].start
  /\ \A j \in p + 1..i - 1 : o[j].end <= o[i].start

\* The stack when i has been pushed: events in their order, all that are still open among them.
Stacked(x, o, i) ==
  /\ x \in Seq(Item)
  /\ \A k \in 1..Len(x) : x[k].at \in 1..i /\ x[k].end = o[x[k].at].end
  /\ \A k, m \in 1..Len(x) : k < m => x[k].at < x[m].at
  /\ i # 0 => /\ x # <<>> /\ x[Len(x)].at = i
              /\ \A j \in 1..i : o[j].end > o[i].start => \E k \in 1..Len(x) : x[k].at = j

ParentOn(x) == IF Len(x) = 1 THEN 0 ELSE x[Len(x) - 1].at

Pushed(x, o, i) == Append(StillOpen(x, o[i].start), [at |-> i, end |-> o[i].end])

LEMMA StillOpenPrefix ==
  ASSUME NEW x \in Seq(Item), NEW t \in Int, NEW d \in Nat, d = Len(x)
  PROVE  \E k \in 0..d :
           /\ StillOpen(x, t) = SubSeq(x, 1, k)
           /\ k # 0 => x[k].end > t
           /\ \A i \in k + 1..d : x[i].end <= t
<1>1. DOMAIN x = 1..d
  BY LenProperties
<1>2. ASSUME NEW i \in 1..d PROVE x[i].end \in Int
  <2>1. x[i] \in Item
    BY LenProperties
  <2> QED BY <2>1 DEF Item
<1>3. PICK T : T = {0} \cup {i \in 1..d : x[i].end > t}
  OBVIOUS
<1>4. T \in SUBSET (0..d) /\ 0 \in T
  BY <1>3
<1>5. PICK k \in T : k = Max(T) /\ \A i \in T : i <= k
  BY <1>4, GreatestNumber
<1>6. k \in 0..d
  BY <1>4
<1>7. StillOpen(x, t) = SubSeq(x, 1, k)
  BY <1>1, <1>3, <1>5 DEF StillOpen
<1>8. ASSUME NEW i \in k + 1..d PROVE x[i].end <= t
  <2>1. i \in 1..d /\ ~(i <= k)
    BY <1>6
  <2>2. i \notin T
    BY <1>5, <2>1
  <2> QED BY <1>2, <1>3, <2>1, <2>2
<1>9. k # 0 => x[k].end > t
  BY <1>3
<1> QED BY <1>6, <1>7, <1>8, <1>9

LEMMA PushedIs ==
  ASSUME NEW o \in Seq(Spans), \A i, j \in 1..Len(o) : i <= j => o[i].start <= o[j].start,
         NEW i \in 1..Len(o), NEW x, Stacked(x, o, i - 1), NEW y, y = Pushed(x, o, i)
  PROVE  Stacked(y, o, i) /\ Innermost(o, i, ParentOn(y))
<1>1. PICK e \in Spans : e = o[i]
  BY LenProperties
<1>2. e.start \in Int /\ e.end \in Int
  BY SpanIs
<1>3. x \in Seq(Item)
  BY DEF Stacked
<1>4. PICK d \in Nat : d = Len(x)
  BY <1>3, LenProperties
<1>5. PICK k \in 0..d : /\ StillOpen(x, e.start) = SubSeq(x, 1, k)
                        /\ k # 0 => x[k].end > e.start
                        /\ \A m \in k + 1..d : x[m].end <= e.start
  BY <1>2, <1>3, <1>4, StillOpenPrefix
<1>6. PICK top \in Item : top = [at |-> i, end |-> e.end]
  <2>1. i \in Nat
    BY LenProperties
  <2> QED BY <1>2, <2>1 DEF Item
<1>7. PICK rest : rest = SubSeq(x, 1, k)
  OBVIOUS
<1>8. rest \in Seq(Item) /\ Len(rest) = k /\ \A m \in 1..k : rest[m] = x[m]
  <2>1. \A m \in 1..k : x[m] \in Item
    BY <1>3, <1>4, LenProperties
  <2> QED BY <1>7, <2>1, SubSeqProperties
<1>9. y = Append(rest, top)
  BY <1>1, <1>5, <1>6, <1>7 DEF Pushed
<1>10. /\ y \in Seq(Item) /\ Len(y) = k + 1 /\ y[k + 1] = top
       /\ \A m \in 1..k : y[m] = x[m]
  BY <1>8, <1>9
<1>11. \A m \in 1..k : x[m].at \in 1..i - 1 /\ x[m].end = o[x[m].at].end
  BY <1>4 DEF Stacked
<1>12. \A m, l \in 1..k : m < l => x[m].at < x[l].at
  BY <1>4 DEF Stacked
<1>13. ASSUME NEW j \in 1..i - 1, o[j].end > e.start
       PROVE  \E m \in 1..k : x[m].at = j
  <2>1. i - 1 \in 1..Len(o) /\ i - 1 # 0 /\ j \in 1..Len(o) /\ o[i - 1].start <= e.start
    BY <1>1, LenProperties
  <2>2. o[i - 1].start \in Int /\ o[j].end \in Int
    BY <2>1, SpanIs, LenProperties
  <2>3. o[j].end > o[i - 1].start
    BY <1>2, <1>13, <2>1, <2>2
  <2>4. PICK m \in 1..d : x[m].at = j
    BY <1>4, <2>1, <2>3 DEF Stacked
  <2>5. x[m].end = o[j].end
    BY <1>4, <2>4 DEF Stacked
  <2>6. ~(m \in k + 1..d)
    BY <1>2, <1>5, <1>13, <2>2, <2>5
  <2> QED BY <2>4, <2>6
<1>14. Stacked(y, o, i)
  <2>1. ASSUME NEW m \in 1..k + 1 PROVE y[m].at \in 1..i /\ y[m].end = o[y[m].at].end
    <3>1. CASE m = k + 1
      BY <1>1, <1>6, <1>10, <3>1
    <3>2. CASE m \in 1..k
      BY <1>10, <1>11, <3>2
    <3> QED BY <3>1, <3>2
  <2>2. ASSUME NEW m \in 1..k + 1, NEW l \in 1..k + 1, m < l PROVE y[m].at < y[l].at
    <3>1. m \in 1..k /\ y[m].at \in 1..i - 1
      BY <1>10, <1>11, <2>2
    <3>2. CASE l = k + 1
      BY <1>6, <1>10, <3>1, <3>2
    <3>3. CASE l \in 1..k
      BY <1>10, <1>12, <2>2, <3>1, <3>3
    <3> QED BY <3>2, <3>3
  <2>3. ASSUME NEW j \in 1..i, o[j].end > o[i].start PROVE \E m \in 1..k + 1 : y[m].at = j
    <3>1. CASE j = i
      BY <1>6, <1>10, <3>1
    <3>2. CASE j \in 1..i - 1
      <4>1. PICK m \in 1..k : x[m].at = j
        BY <1>1, <1>13, <2>3, <3>2
      <4> QED BY <1>10, <4>1
    <3> QED BY <3>1, <3>2
  <2>4. y # <<>> /\ y[k + 1].at = i
    BY <1>6, <1>10, EmptySeq
  <2> QED BY <1>10, <2>1, <2>2, <2>3, <2>4 DEF Stacked
<1>15. CASE k = 0
  <2>1. ParentOn(y) = 0
    BY <1>10, <1>15 DEF ParentOn
  <2>2. ASSUME NEW j \in 1..i - 1 PROVE o[j].end <= o[i].start
    <3>1. ~(o[j].end > e.start)
      BY <1>13, <1>15
    <3>2. o[j].end \in Int
      BY SpanIs, LenProperties
    <3> QED BY <1>1, <1>2, <3>1, <3>2
  <2>3. Innermost(o, i, 0)
    BY <2>2, LenProperties DEF Innermost
  <2> QED BY <1>14, <2>1, <2>3
<1>16. CASE k # 0
  <2>1. k \in 1..k /\ k + 1 # 1 /\ (k + 1) - 1 = k
    BY <1>16
  <2>2. PICK p \in 1..i - 1 : p = x[k].at
    BY <1>11, <2>1
  <2>3. ParentOn(y) = p
    BY <1>10, <2>1, <2>2 DEF ParentOn
  <2>4. o[p].end > o[i].start
    BY <1>1, <1>5, <1>11, <1>16, <2>1, <2>2
  <2>5. ASSUME NEW j \in p + 1..i - 1 PROVE o[j].end <= o[i].start
    <3>1. j \in 1..i - 1 /\ j \in 1..Len(o) /\ p < j
      BY LenProperties
    <3>2. ~(\E m \in 1..k : x[m].at = j)
      <4> SUFFICES ASSUME NEW m \in 1..k, x[m].at = j PROVE FALSE
        OBVIOUS
      <4>1. CASE m = k
        BY <2>2, <3>1, <4>1
      <4>2. CASE m < k
        <5>1. x[m].at < x[k].at
          BY <1>12, <2>1, <4>2
        <5> QED BY <2>2, <3>1, <5>1
      <4> QED BY <4>1, <4>2
    <3>3. ~(o[j].end > e.start)
      BY <1>13, <3>1, <3>2
    <3>4. o[j].end \in Int
      BY <3>1, SpanIs, LenProperties
    <3> QED BY <1>1, <1>2, <3>3, <3>4
  <2>6. Innermost(o, i, p)
    BY <2>4, <2>5 DEF Innermost
  <2> QED BY <1>14, <2>3, <2>6
<1> QED BY <1>15, <1>16

LEMMA ParentsAre ==
  ASSUME NEW o \in Seq(Spans), \A i, j \in 1..Len(o) : i <= j => o[i].start <= o[j].start
  PROVE  \A i \in 1..Len(o) : Innermost(o, i, Parents(o)[i])
<1>1. PICK n \in Nat : n = Len(o) /\ DOMAIN o = 1..n
  BY LenProperties
<1>2. ASSUME NEW i \in 1..n, NEW x, Stacked(x, o, i - 1)
      PROVE  Stacked(Pushed(x, o, i), o, i) /\ Innermost(o, i, ParentOn(Pushed(x, o, i)))
  BY <1>1, <1>2, PushedIs
<1>3. Stacked(<<>>, o, 0)
  <2>1. <<>> \in Seq(Item) /\ Len(<<>>) = 0
    BY EmptySeq
  <2> QED BY <2>1 DEF Stacked
<1>4. PICK Values : Values = [i \in 0..n |-> {x \in Seq(Item) : Stacked(x, o, i)}]
  OBVIOUS
<1>5. \A x, i : Stacked(x, o, i) => x \in Seq(Item)
  BY DEF Stacked
<1>6. PICK Step : Step = [i \in 1..n |-> [x \in Values[i - 1] |-> Pushed(x, o, i)]]
  OBVIOUS
<1>7. <<>> \in Values[0]
  BY <1>3, <1>4, <1>5
<1>8. ASSUME NEW i \in 1..n, NEW x \in Values[i - 1]
      PROVE  Step[i][x] = Pushed(x, o, i) /\ Step[i][x] \in Values[i]
  <2>1. i - 1 \in 0..n /\ i \in 0..n
    OBVIOUS
  <2>2. Stacked(x, o, i - 1)
    BY <1>4, <2>1
  <2>3. Step[i][x] = Pushed(x, o, i)
    BY <1>6
  <2> QED BY <1>2, <1>4, <1>5, <2>1, <2>2, <2>3
<1>9. PICK h : Turns(h, <<>>, n, Step, Values)
  BY <1>7, <1>8, LoopWithin
<1>10. h = [i \in 0..n |-> IF i = 0 THEN <<>> ELSE Pushed(h[i - 1], o, i)]
  <2>1. \A i \in 1..n : h[i] = Pushed(h[i - 1], o, i)
    BY <1>8, <1>9 DEF Turns
  <2>2. \A i \in 0..n : i # 0 => i \in 1..n
    OBVIOUS
  <2> QED BY <1>9, <2>1, <2>2 DEF Turns
<1>11. PICK f : f = CHOOSE stack : stack = [i \in 0..n |-> IF i = 0 THEN <<>> ELSE Pushed(stack[i - 1], o, i)]
  OBVIOUS
<1>12. f = [i \in 0..n |-> IF i = 0 THEN <<>> ELSE Pushed(f[i - 1], o, i)]
  BY <1>10, <1>11
<1>13. Parents(o) = [i \in 1..n |-> ParentOn(f[i])]
  BY <1>1, <1>11 DEF Parents, ParentOn, Pushed
<1>14. PICK T : T = {i \in 0..n : Stacked(f[i], o, i)}
  OBVIOUS
<1>15. 0 \in T
  <2>1. 0 \in 0..n
    OBVIOUS
  <2>2. f[0] = <<>>
    BY <1>12, <2>1
  <2> QED BY <1>3, <1>14, <2>1, <2>2
<1>16. ASSUME NEW i \in 1..n PROVE f[i] = Pushed(f[i - 1], o, i)
  <2>1. i \in 0..n /\ i # 0
    OBVIOUS
  <2> QED BY <1>12, <2>1
<1>17. ASSUME NEW i \in 1..n, i - 1 \in T PROVE i \in T
  <2>1. i \in 0..n
    OBVIOUS
  <2> QED BY <1>2, <1>14, <1>16, <1>17, <2>1
<1>18. \A i \in 0..n : i \in T
  BY <1>15, <1>17, UpTo
<1>19. ASSUME NEW i \in 1..n PROVE Innermost(o, i, Parents(o)[i])
  <2>1. i - 1 \in T
    BY <1>18
  <2>2. Stacked(f[i - 1], o, i - 1)
    BY <1>14, <2>1
  <2>3. Innermost(o, i, ParentOn(f[i]))
    BY <1>2, <1>16, <2>2
  <2> QED BY <1>13, <2>3
<1> QED BY <1>1, <1>19
-----------------------------------------------------------------------------
(* Self times are the moments of a call at which none it encloses ran: they are apart, so that they *)
(* add up, and leave out no moment of any call.                                                    *)

\* In the order they are sorted in, of two events the later one is after the other or in it.
Nested(o) ==
  /\ o \in Seq(Spans)
  /\ \A i, j \in 1..Len(o) : i <= j => o[i].start <= o[j].start
  /\ \A i, j \in 1..Len(o) : i < j => o[i].end <= o[j].start \/ o[j].end <= o[i].end

\* Those whose duration is taken off event i's, and the moments it is left with.
Kids(o, i) == {j \in DOMAIN o : Parents(o)[j] = i}

Lone(o, i) == Moments(o[i]) \ MomentsOf(o, Kids(o, i))

LEMMA MomentsAre ==
  ASSUME NEW e \in Spans, NEW t
  PROVE  t \in Moments(e) <=> t \in Int /\ e.start <= t /\ t < e.end
<1>1. PICK a \in Int, b \in Int : a = e.start /\ b = e.end
  BY SpanIs
<1> QED BY <1>1 DEF Moments

LEMMA KidsInside ==
  ASSUME NEW o, Nested(o), NEW i \in 1..Len(o), NEW j \in Kids(o, i)
  PROVE  j \in 1..Len(o) /\ i < j /\ Moments(o[j]) \subseteq Moments(o[i])
<1>1. PICK n \in Nat : n = Len(o) /\ DOMAIN o = 1..n /\ \A k \in 1..n : o[k] \in Spans
  BY LenProperties, ElementOfSeq DEF Nested
<1>2. j \in 1..n /\ Parents(o)[j] = i /\ i \in 1..n
  BY <1>1 DEF Kids
<1>3. Innermost(o, j, i)
  BY <1>1, <1>2, ParentsAre DEF Nested
<1>4. i < j /\ o[i].end > o[j].start
  BY <1>2, <1>3 DEF Innermost
<1>5. o[i].start \in Int /\ o[i].end \in Int /\ o[j].start \in Int /\ o[j].end \in Int
  BY <1>1, <1>2, SpanIs
<1>6. o[j].end <= o[i].end /\ o[i].start <= o[j].start
  BY <1>1, <1>2, <1>4, <1>5 DEF Nested
<1>7. ASSUME NEW t \in Moments(o[j]) PROVE t \in Moments(o[i])
  <2>1. t \in Int /\ o[j].start <= t /\ t < o[j].end
    BY <1>1, <1>2, MomentsAre
  <2>2. o[i].start <= t /\ t < o[i].end
    BY <1>5, <1>6, <2>1
  <2> QED BY <1>1, <1>2, <2>1, <2>2, MomentsAre
<1> QED BY <1>1, <1>2, <1>4, <1>7

LEMMA KidsApart ==
  ASSUME NEW o, Nested(o), NEW i \in 1..Len(o), NEW j \in Kids(o, i), NEW k \in Kids(o, i), j # k
  PROVE  Moments(o[j]) \cap Moments(o[k]) = {}
<1>1. PICK n \in Nat : n = Len(o) /\ DOMAIN o = 1..n /\ \A m \in 1..n : o[m] \in Spans
  BY LenProperties, ElementOfSeq DEF Nested
<1>2. ASSUME NEW a \in Kids(o, i), NEW b \in Kids(o, i), a < b
      PROVE  Moments(o[a]) \cap Moments(o[b]) = {}
  <2>1. a \in 1..n /\ b \in 1..n /\ i < a /\ Parents(o)[b] = i
    BY <1>1, KidsInside DEF Kids
  <2>2. Innermost(o, b, i)
    BY <1>1, <2>1, ParentsAre DEF Nested
  <2>3. o[a].end <= o[b].start
    BY <1>2, <2>1, <2>2 DEF Innermost
  <2>4. o[a].end \in Int /\ o[b].start \in Int
    BY <1>1, <2>1, SpanIs
  <2>5. ASSUME NEW t, t \in Moments(o[a]), t \in Moments(o[b]) PROVE FALSE
    <3>1. t \in Int /\ t < o[a].end /\ o[b].start <= t
      BY <1>1, <2>1, <2>5, MomentsAre
    <3> QED BY <2>3, <2>4, <3>1
  <2> QED BY <2>5
<1>3. j \in 1..n /\ k \in 1..n
  BY <1>1, KidsInside
<1>4. CASE j < k
  BY <1>2, <1>4
<1>5. CASE k < j
  BY <1>2, <1>5
<1> QED BY <1>3, <1>4, <1>5

LEMMA EventSelfIs ==
  ASSUME NEW o, Nested(o), NEW i \in 1..Len(o)
  PROVE  IsFiniteSet(Lone(o, i)) /\ EventSelf(o)[i] = Cardinality(Lone(o, i))
<1>1. PICK n \in Nat : n = Len(o) /\ DOMAIN o = 1..n /\ \A m \in 1..n : o[m] \in Spans
  BY LenProperties, ElementOfSeq DEF Nested
<1>2. PICK K : K = Kids(o, i) /\ K \in SUBSET (DOMAIN o)
  BY DEF Kids
<1>3. o \in Seq(Spans)
  BY DEF Nested
<1>4. \A j, k \in K : j # k => Moments(o[j]) \cap Moments(o[k]) = {}
  BY <1>2, KidsApart
<1>5. PICK M, A : M = Moments(o[i]) /\ A = MomentsOf(o, K)
  OBVIOUS
<1>6. IsFiniteSet(A) /\ TimeOf(o, K) = Cardinality(A)
  BY <1>2, <1>3, <1>4, <1>5, TimeApart
<1>7. IsFiniteSet(M) /\ Duration(o[i]) = Cardinality(M)
  BY <1>1, <1>5, MomentsCount
<1>8. A \subseteq M
  <2>1. \A j \in K : Moments(o[j]) \subseteq M
    BY <1>2, <1>5, KidsInside
  <2> QED BY <1>5, <2>1 DEF MomentsOf
<1>9. M \cap A = A
  BY <1>8
<1>10. IsFiniteSet(M \ A) /\ Cardinality(M \ A) = Cardinality(M) - Cardinality(A)
  <2>1. IsFiniteSet(M \ A) /\ Cardinality(M \ A) = Cardinality(M) - Cardinality(M \cap A)
    BY <1>7, FS_Difference
  <2> QED BY <1>9, <2>1
<1>11. EventSelf(o)[i] = Duration(o[i]) - TimeOf(o, K)
  BY <1>1, <1>2 DEF EventSelf, Kids
<1> QED BY <1>2, <1>5, <1>6, <1>7, <1>10, <1>11 DEF Lone

\* What a later event shares with i, it shares with one that i encloses next.
LEMMA SharedWithKid ==
  ASSUME NEW o, Nested(o), NEW i \in 1..Len(o), NEW t \in Moments(o[i]),
         NEW j \in 1..Len(o), i < j, t \in Moments(o[j])
  PROVE  t \in MomentsOf(o, Kids(o, i))
<1> SUFFICES ASSUME t \notin MomentsOf(o, Kids(o, i)) PROVE FALSE
  OBVIOUS
<1>1. PICK n \in Nat : n = Len(o) /\ DOMAIN o = 1..n /\ \A m \in 1..n : o[m] \in Spans
  BY LenProperties, ElementOfSeq DEF Nested
<1>2. PICK B \in SUBSET Nat : B = {k \in 1..n : i < k /\ t \in Moments(o[k])}
  <2>1. 1..n \subseteq Nat
    OBVIOUS
  <2>2. PICK B : B = {k \in 1..n : i < k /\ t \in Moments(o[k])}
    OBVIOUS
  <2>3. B \subseteq 1..n
    BY <2>2
  <2> QED BY <2>1, <2>2, <2>3
<1>3. B # {}
  BY <1>1, <1>2
<1>4. PICK k \in B : \A m \in B : k <= m
  BY <1>3, LeastNumber
<1>5. k \in 1..n /\ i < k /\ t \in Moments(o[k]) /\ i \in 1..n
  BY <1>1, <1>2
<1>6. PICK p : p = Parents(o)[k]
  OBVIOUS
<1>7. Innermost(o, k, p)
  BY <1>1, <1>5, <1>6, ParentsAre DEF Nested
<1>8. p \in 0..k - 1
  BY <1>7 DEF Innermost
<1>9. p >= i
  <2>1. t \in Int /\ t < o[i].end /\ o[k].start <= t
    BY <1>1, <1>5, MomentsAre
  <2>2. o[i].end \in Int /\ o[k].start \in Int
    BY <1>1, <1>5, SpanIs
  <2>3. ~(o[i].end <= o[k].start)
    BY <2>1, <2>2
  <2>4. i \notin p + 1..k - 1
    BY <1>7, <2>3 DEF Innermost
  <2> QED BY <1>5, <1>8, <2>4
<1>10. CASE p = i
  <2>1. k \in Kids(o, i)
    BY <1>1, <1>5, <1>6, <1>10 DEF Kids
  <2> QED BY <1>5, <2>1 DEF MomentsOf
<1>11. CASE p > i
  <2>1. p \in 1..n /\ p < k
    BY <1>5, <1>8, <1>11
  <2>2. k \in Kids(o, p)
    BY <1>1, <1>5, <1>6 DEF Kids
  <2>3. t \in Moments(o[p])
    BY <1>1, <1>5, <2>1, <2>2, KidsInside
  <2>4. p \in B
    BY <1>2, <1>11, <2>1, <2>3
  <2> QED BY <1>4, <1>5, <2>1, <2>4
<1> QED BY <1>5, <1>8, <1>9, <1>10, <1>11

\* No moment is a lone one of two events.
LEMMA LoneApart ==
  ASSUME NEW o, Nested(o), NEW i \in 1..Len(o), NEW j \in 1..Len(o), i # j
  PROVE  Lone(o, i) \cap Lone(o, j) = {}
<1>1. Len(o) \in Nat
  BY LenProperties DEF Nested
<1>2. ASSUME NEW a \in 1..Len(o), NEW b \in 1..Len(o), a < b
      PROVE  Lone(o, a) \cap Lone(o, b) = {}
  <2> SUFFICES ASSUME NEW t, t \in Lone(o, a), t \in Lone(o, b) PROVE FALSE
    OBVIOUS
  <2>1. t \in Moments(o[a]) /\ t \in Moments(o[b]) /\ t \notin MomentsOf(o, Kids(o, a))
    BY DEF Lone
  <2> QED BY <1>2, <2>1, SharedWithKid
<1>3. i < j \/ j < i
  BY <1>1
<1> QED BY <1>2, <1>3

\* Every moment of a call is the lone moment of one.
LEMMA LoneCovers ==
  ASSUME NEW o, Nested(o)
  PROVE  MomentsOf(o, 1..Len(o)) = UNION {Lone(o, i) : i \in 1..Len(o)}
<1>1. PICK n \in Nat : n = Len(o)
  BY LenProperties DEF Nested
<1>2. ASSUME NEW t, NEW i \in 1..n, t \in Moments(o[i])
      PROVE  \E k \in 1..n : t \in Lone(o, k)
  <2>1. PICK T : T = {0} \cup {k \in 1..n : t \in Moments(o[k])}
    OBVIOUS
  <2>2. T \in SUBSET (0..n) /\ 0 \in T /\ i \in T
    BY <1>2, <2>1
  <2>3. PICK k \in T : \A m \in T : m <= k
    BY <2>2, GreatestNumber
  <2>4. i <= k /\ k \in 0..n
    BY <2>2, <2>3
  <2>5. k \in 1..n /\ t \in Moments(o[k])
    BY <2>1, <2>4
  <2>6. ASSUME t \in MomentsOf(o, Kids(o, k)) PROVE FALSE
    <3>1. PICK m \in Kids(o, k) : t \in Moments(o[m])
      BY <2>6 DEF MomentsOf
    <3>2. m \in 1..n /\ k < m
      BY <1>1, <2>5, KidsInside
    <3>3. m \in T
      BY <2>1, <3>1, <3>2
    <3> QED BY <2>3, <2>5, <3>2, <3>3
  <2> QED BY <2>5, <2>6 DEF Lone
<1>3. \A k \in 1..n : Lone(o, k) \subseteq Moments(o[k])
  BY DEF Lone
<1> QED BY <1>1, <1>2, <1>3 DEF MomentsOf

\* Self time of several events.
LoneOf(o, S) == UNION {Lone(o, i) : i \in S}

LEMMA SelfTimesAre ==
  ASSUME NEW o, Nested(o), NEW S \in SUBSET (DOMAIN o)
  PROVE  /\ IsFiniteSet(LoneOf(o, S))
         /\ SumFunctionOnSet(EventSelf(o), S) = Cardinality(LoneOf(o, S))
<1>1. S \in SUBSET (1..Len(o)) /\ IsFiniteSet(S)
  BY LenProperties, PlacesFinite DEF Nested
<1>2. PICK D : D = [i \in S |-> Lone(o, i)]
  OBVIOUS
<1>3. \A i \in S : IsFiniteSet(D[i]) /\ EventSelf(o)[i] = Cardinality(D[i])
  BY <1>1, <1>2, EventSelfIs
<1>4. \A i, j \in S : i # j => D[i] \cap D[j] = {}
  BY <1>1, <1>2, LoneApart
<1>5. SizesAddUp(EventSelf(o), D, S)
  BY <1>1, <1>3, <1>4, SumCounts
<1>6. UNION {D[i] : i \in S} = LoneOf(o, S)
  BY <1>2 DEF LoneOf
<1> QED BY <1>5, <1>6 DEF SizesAddUp
-----------------------------------------------------------------------------
(* Calls nest: of two events of this machine's calls one is over before the other begins, or one   *)
(* call was made in the other, wherever the events are: on their way, in the window, in the file.  *)

\* a is the call that b was made in, or one further out.
Encloses(a, b) ==
  \E q \in 1..Len(b.within) :
    /\ b.within[q] = a.id /\ Len(a.within) = q - 1
    /\ \A r \in 1..q - 1 : a.within[r] = b.within[r]
    /\ a.start <= b.start /\ b.end <= a.end

\* b says that it was made in a.
Names(b, a) == \E q \in 1..Len(b.within) : b.within[q] = a.id

Kin(a, b) ==
  /\ a = b \/ a.end <= b.start \/ b.end <= a.start \/ Encloses(a, b) \/ Encloses(b, a)
  /\ Names(b, a) => Encloses(a, b)

\* Calls further in have greater ids.
Rising(e) == \A q, r \in 1..Len(e.within) : q < r => e.within[q] < e.within[r]

\* A call that returned, among those in progress: made in the m-th, or over before that began.
Contained(e, cs, m) ==
  /\ m <= Len(e.within) /\ \A r \in 1..m : e.within[r] = cs[r].id
  /\ cs[m].start <= e.start

Precedes(e, c) == e.end <= c.start /\ \A q \in 1..Len(e.within) : e.within[q] # c.id

Placed(e, cs, n, t) ==
  /\ e.end <= t /\ e.id <= n /\ \A q \in 1..Len(e.within) : e.within[q] <= n
  /\ \A m \in 1..Len(cs) : e.id # cs[m].id /\ (Contained(e, cs, m) \/ Precedes(e, cs[m]))

\* The calls in progress, of n made.
Stacking(cs, n) ==
  /\ \A m \in 1..Len(cs) : cs[m].id <= n
  /\ \A m, l \in 1..Len(cs) : m < l => cs[m].id < cs[l].id /\ cs[m].start <= cs[l].start

\* The events of calls made here.
OwnEvents ==
  ToSet(queued) \cup (ToSet(file) \ ToSet(Foreign))
    \cup (IF foreign THEN ToSet(rawEvents) \ ToSet(Foreign) ELSE ToSet(rawEvents))

NestInv ==
  /\ Stacking(calls, made)
  /\ \A e \in OwnEvents : Rising(e) /\ Placed(e, calls, made, clock)
  /\ \A a, b \in OwnEvents : Kin(a, b)

LEMMA OwnAreSpans == EventsInv => OwnEvents \subseteq Spans
<1> SUFFICES ASSUME EventsInv PROVE OwnEvents \subseteq Spans
  OBVIOUS
<1>1. \A S : \A s \in Seq(S) : ToSet(s) \subseteq S
  BY LenProperties DEF ToSet
<1>2. ToSet(queued) \subseteq Spans /\ (~foreign => ToSet(rawEvents) \subseteq Spans)
  BY <1>1 DEF EventsInv
<1>3. ToSet(rawEvents) \subseteq Known /\ ToSet(file) \subseteq Known
  BY <1>1 DEF EventsInv
<1> QED BY <1>2, <1>3 DEF OwnEvents, Known

LEMMA EventIs ==
  ASSUME NEW e \in Spans
  PROVE  /\ e.start \in Int /\ e.end \in Int /\ e.start <= e.end /\ e.id \in Nat
         /\ e.within \in Seq(Nat) /\ Len(e.within) \in Nat
         /\ \A q \in 1..Len(e.within) : e.within[q] \in Nat
<1>1. e.id \in Nat /\ e.within \in Seq(Nat)
  BY DEF Spans, Event
<1> QED BY <1>1, SpanIs, LenProperties

LEMMA CallIs ==
  ASSUME CallsInv, NEW m \in 1..Len(calls)
  PROVE  calls[m].id \in Nat /\ calls[m].start \in Int /\ calls[m].start <= clock
<1>1. calls[m] \in CallRecord
  BY LenProperties DEF CallsInv
<1> QED BY <1>1 DEF CallRecord, CallsInv

\* A call that begins leaves those that returned before it.
LEMMA CallPlaces ==
  ASSUME DataInv, NestInv, NEW f \in Functions, Call(f)
  PROVE  /\ Stacking(calls', made')
         /\ \A e \in OwnEvents : Placed(e, calls', made', clock')
<1>1. PICK n \in Nat : n = Len(calls)
  BY LenProperties DEF DataInv, CallsInv
<1>2. PICK c : c = [id |-> made', function |-> f, start |-> clock]
  OBVIOUS
<1>3. made' = made + 1 /\ calls' = Append(calls, c) /\ clock' = clock
  BY <1>2 DEF Call
<1>4. made \in Nat /\ clock \in Nat /\ calls \in Seq(CallRecord)
  BY DEF DataInv, CallsInv
<1>5. c \in CallRecord
  BY <1>2, <1>3, <1>4 DEF CallRecord
<1>6. Len(calls') = n + 1 /\ calls'[n + 1] = c /\ \A i \in 1..n : calls'[i] = calls[i]
  BY <1>1, <1>3, <1>4, <1>5
<1>7. c.id = made + 1 /\ c.start = clock
  BY <1>2, <1>3
<1>8. \A m \in 1..n : calls[m].id \in Nat /\ calls[m].start \in Int /\ calls[m].start <= clock
  BY <1>1, CallIs DEF DataInv
<1>9. \A m \in 1..n : calls[m].id <= made
  BY <1>1 DEF NestInv, Stacking
<1>10. \A m, l \in 1..n : m < l => calls[m].id < calls[l].id /\ calls[m].start <= calls[l].start
  BY <1>1 DEF NestInv, Stacking
<1>11. Stacking(calls', made')
  <2>1. ASSUME NEW m \in 1..n + 1 PROVE calls'[m].id <= made'
    <3>1. CASE m = n + 1
      BY <1>3, <1>4, <1>6, <1>7, <3>1
    <3>2. CASE m \in 1..n
      BY <1>3, <1>4, <1>6, <1>8, <1>9, <3>2
    <3> QED BY <3>1, <3>2
  <2>2. ASSUME NEW m \in 1..n + 1, NEW l \in 1..n + 1, m < l
        PROVE  calls'[m].id < calls'[l].id /\ calls'[m].start <= calls'[l].start
    <3>1. m \in 1..n
      BY <2>2
    <3>2. CASE l = n + 1
      <4>1. calls[m].id \in Nat /\ calls[m].id <= made /\ calls[m].start <= clock
        BY <1>8, <1>9, <3>1
      <4>2. calls'[m] = calls[m] /\ calls'[l] = c
        BY <1>6, <3>1, <3>2
      <4> QED BY <1>4, <1>7, <4>1, <4>2
    <3>3. CASE l \in 1..n
      BY <1>6, <1>10, <2>2, <3>1, <3>3
    <3> QED BY <3>2, <3>3
  <2> QED BY <1>6, <2>1, <2>2 DEF Stacking
<1>12. ASSUME NEW e \in OwnEvents PROVE Placed(e, calls', made', clock')
  <2>1. e \in Spans
    BY OwnAreSpans DEF DataInv
  <2>2. /\ e.end \in Int /\ e.id \in Nat /\ Len(e.within) \in Nat
        /\ \A q \in 1..Len(e.within) : e.within[q] \in Nat
    BY <2>1, EventIs
  <2>3. /\ e.end <= clock /\ e.id <= made /\ \A q \in 1..Len(e.within) : e.within[q] <= made
        /\ \A m \in 1..n : e.id # calls[m].id /\ (Contained(e, calls, m) \/ Precedes(e, calls[m]))
    BY <1>1 DEF NestInv, Placed
  <2>4. e.end <= clock' /\ e.id <= made' /\ \A q \in 1..Len(e.within) : e.within[q] <= made'
    BY <1>3, <1>4, <2>2, <2>3
  <2>5. ASSUME NEW m \in 1..n + 1
        PROVE  e.id # calls'[m].id /\ (Contained(e, calls', m) \/ Precedes(e, calls'[m]))
    <3>1. CASE m = n + 1
      <4>1. Precedes(e, c)
        BY <1>4, <1>7, <2>2, <2>3 DEF Precedes
      <4>2. e.id # c.id
        BY <1>4, <1>7, <2>2, <2>3
      <4> QED BY <1>6, <3>1, <4>1, <4>2
    <3>2. CASE m \in 1..n
      <4>1. Contained(e, calls, m) => Contained(e, calls', m)
        <5>1. \A r \in 1..m : calls'[r] = calls[r]
          BY <1>6, <3>2
        <5>2. calls'[m] = calls[m]
          BY <1>6, <3>2
        <5> QED BY <5>1, <5>2 DEF Contained
      <4> QED BY <1>6, <2>3, <3>2, <4>1
    <3> QED BY <3>1, <3>2
  <2> QED BY <1>6, <2>4, <2>5 DEF Placed
<1> QED BY <1>11, <1>12
\* A call that returns was made in those still in progress, and is over before or around the others.
LEMMA ReturnPlaces ==
  ASSUME DataInv, NestInv, Return
  PROVE  \E e \in Spans :
           /\ queued' = Append(queued, e) /\ Rising(e) /\ Kin(e, e)
           /\ Placed(e, calls', made', clock') /\ Stacking(calls', made')
           /\ \A d \in OwnEvents : Placed(d, calls', made', clock') /\ Kin(d, e) /\ Kin(e, d)
<1>1. PICK e : e = [id |-> Last(calls).id, function |-> Last(calls).function,
                    start |-> Last(calls).start, end |-> clock,
                    within |-> [i \in 1..Len(calls) - 1 |-> calls[i].id]]
  OBVIOUS
<1>2. queued' = Append(queued, e) /\ calls # <<>> /\ UNCHANGED <<clock, made>>
  BY <1>1 DEF Return
<1>3. e \in Spans
  BY <1>1, <1>2, ReturnedIsSpan DEF DataInv
<1>4. calls \in Seq(CallRecord) /\ made \in Nat /\ clock \in Nat
  BY DEF DataInv, CallsInv
<1>5. PICK n \in Nat \ {0} : n = Len(calls)
  BY <1>2, <1>4, EmptySeq
<1>6. Len(calls') = n - 1 /\ \A i \in 1..n - 1 : calls'[i] = calls[i]
  <2>1. calls' = SubSeq(calls, 1, n - 1)
    BY <1>5 DEF Return, Front
  <2>2. \A i \in 1..n - 1 : calls[i] \in CallRecord
    BY <1>4, <1>5, LenProperties
  <2> QED BY <2>1, <2>2, SubSeqProperties
<1>7. PICK c : c = calls[n]
  OBVIOUS
<1>8. Len(e.within) = n - 1 /\ \A i \in 1..n - 1 : e.within[i] = calls[i].id
  <2>1. e.within = [i \in 1..n - 1 |-> calls[i].id] /\ n - 1 \in Nat
    BY <1>1, <1>5
  <2> QED BY <2>1
<1>9. e.id = c.id /\ e.start = c.start /\ e.end = clock
  BY <1>1, <1>5, <1>7 DEF Last
<1>10. \A m \in 1..n : calls[m].id \in Nat /\ calls[m].start \in Int /\ calls[m].start <= clock
  BY <1>5, CallIs DEF DataInv
<1>11. \A m \in 1..n : calls[m].id <= made
  BY <1>5 DEF NestInv, Stacking
<1>12. \A m, l \in 1..n : m < l => calls[m].id < calls[l].id /\ calls[m].start <= calls[l].start
  BY <1>5 DEF NestInv, Stacking
<1>13. c.id \in Nat /\ c.start \in Int /\ c.id <= made /\ n \in 1..n
  BY <1>7, <1>10, <1>11
<1>14. \A m \in 1..n - 1 : calls[m].id < c.id /\ calls[m].start <= c.start /\ m \in 1..n
  BY <1>7, <1>12
<1>15. Rising(e)
  BY <1>8, <1>12 DEF Rising
<1>16. Kin(e, e)
  <2>1. \A i \in 1..n - 1 : e.within[i] # e.id
    BY <1>8, <1>9, <1>10, <1>13, <1>14
  <2> QED BY <1>8, <2>1 DEF Kin, Names
<1>17. Stacking(calls', made')
  <2>1. \A m \in 1..n - 1 : calls'[m].id <= made'
    BY <1>2, <1>6, <1>11
  <2>2. \A m, l \in 1..n - 1 : m < l => calls'[m].id < calls'[l].id /\ calls'[m].start <= calls'[l].start
    BY <1>6, <1>12
  <2> QED BY <1>6, <2>1, <2>2 DEF Stacking
<1>18. \A d, m : Contained(d, calls, m) /\ m \in 1..n - 1 => Contained(d, calls', m)
  <2> SUFFICES ASSUME NEW d, NEW m \in 1..n - 1, Contained(d, calls, m) PROVE Contained(d, calls', m)
    OBVIOUS
  <2>1. calls'[m] = calls[m] /\ \A r \in 1..m : calls'[r] = calls[r]
    BY <1>6
  <2> QED BY <2>1 DEF Contained
<1>19. Placed(e, calls', made', clock')
  <2>1. e.end <= clock' /\ e.id <= made' /\ \A q \in 1..Len(e.within) : e.within[q] <= made'
    <3>1. e.end <= clock' /\ e.id <= made'
      BY <1>2, <1>4, <1>9, <1>13
    <3>2. \A q \in 1..n - 1 : calls[q].id <= made
      BY <1>11
    <3> QED BY <1>2, <1>8, <3>1, <3>2
  <2>2. ASSUME NEW m \in 1..n - 1
        PROVE  e.id # calls'[m].id /\ Contained(e, calls', m)
    <3>1. e.id # calls'[m].id
      BY <1>6, <1>9, <1>10, <1>13, <1>14
    <3>2. Contained(e, calls, m)
      <4>1. m <= Len(e.within) /\ calls[m].start <= e.start
        BY <1>8, <1>9, <1>14
      <4>2. \A r \in 1..m : e.within[r] = calls[r].id
        <5>1. \A r \in 1..m : r \in 1..n - 1
          OBVIOUS
        <5> QED BY <1>8, <5>1
      <4> QED BY <4>1, <4>2 DEF Contained
    <3> QED BY <1>18, <3>1, <3>2
  <2> QED BY <1>6, <2>1, <2>2 DEF Placed
<1>20. ASSUME NEW d \in OwnEvents
       PROVE  Placed(d, calls', made', clock') /\ Kin(d, e) /\ Kin(e, d)
  <2>1. d \in Spans
    BY OwnAreSpans DEF DataInv
  <2>2. /\ d.end <= clock /\ d.id <= made /\ \A q \in 1..Len(d.within) : d.within[q] <= made
        /\ \A m \in 1..n : d.id # calls[m].id /\ (Contained(d, calls, m) \/ Precedes(d, calls[m]))
    BY <1>5 DEF NestInv, Placed
  <2>3. Placed(d, calls', made', clock')
    <3>1. \A m \in 1..n - 1 : m \in 1..n
      OBVIOUS
    <3> QED BY <1>2, <1>6, <1>18, <2>2, <3>1 DEF Placed
  <2>4. ~Names(e, d) /\ d.id # e.id
    BY <1>7, <1>8, <1>9, <1>13, <1>14, <2>2 DEF Names
  <2>5. CASE Contained(d, calls, n)
    <3>1. Encloses(e, d)
      <4>1. n \in 1..Len(d.within) /\ d.within[n] = e.id
        BY <1>7, <1>9, <1>13, <2>1, <2>5, EventIs DEF Contained
      <4>2. \A r \in 1..n - 1 : e.within[r] = d.within[r]
        BY <1>8, <2>5 DEF Contained
      <4>3. e.start <= d.start /\ d.end <= e.end
        BY <1>7, <1>9, <2>2, <2>5 DEF Contained
      <4> QED BY <1>8, <4>1, <4>2, <4>3 DEF Encloses
    <3> QED BY <2>3, <2>4, <3>1 DEF Kin
  <2>6. CASE Precedes(d, c)
    <3>1. d.end <= e.start /\ ~Names(d, e)
      BY <1>9, <2>6 DEF Precedes, Names
    <3> QED BY <2>3, <2>4, <3>1 DEF Kin
  <2> QED BY <1>7, <1>13, <2>2, <2>5, <2>6
<1> QED BY <1>2, <1>3, <1>15, <1>16, <1>17, <1>19, <1>20

LEMMA ToSetOf ==
  /\ \A S : \A s, t \in Seq(S) : ToSet(s \o t) \subseteq ToSet(s) \cup ToSet(t)
  /\ \A S : \A s \in Seq(S), e \in S : ToSet(Append(s, e)) \subseteq ToSet(s) \cup {e}
  /\ ToSet(<<>>) = {}
<1>1. ASSUME NEW S, NEW s \in Seq(S), NEW t \in Seq(S)
      PROVE  ToSet(s \o t) \subseteq ToSet(s) \cup ToSet(t)
  <2>1. PICK n \in Nat, m \in Nat : n = Len(s) /\ m = Len(t) /\ DOMAIN s = 1..n /\ DOMAIN t = 1..m
    BY LenProperties
  <2>2. PICK u \in Seq(S) : u = s \o t /\ DOMAIN u = 1..n + m
    <3>1. s \o t \in Seq(S) /\ Len(s \o t) = n + m
      BY <2>1, ConcatProperties
    <3> QED BY <3>1, LenProperties
  <2>3. \A i \in 1..n + m : u[i] = IF i <= n THEN s[i] ELSE t[i - n]
    BY <2>1, <2>2, ConcatProperties
  <2>4. ASSUME NEW i \in 1..n + m PROVE u[i] \in ToSet(s) \cup ToSet(t)
    <3>1. CASE i <= n
      <4>1. i \in 1..n
        BY <3>1
      <4> QED BY <2>1, <2>3, <3>1, <4>1 DEF ToSet
    <3>2. CASE ~(i <= n)
      <4>1. i - n \in 1..m
        BY <3>2
      <4> QED BY <2>1, <2>3, <3>2, <4>1 DEF ToSet
    <3> QED BY <3>1, <3>2
  <2> QED BY <2>2, <2>4 DEF ToSet
<1>2. ASSUME NEW S, NEW s \in Seq(S), NEW e \in S
      PROVE  ToSet(Append(s, e)) \subseteq ToSet(s) \cup {e}
  <2>1. PICK n \in Nat : n = Len(s) /\ DOMAIN s = 1..n
    BY LenProperties
  <2>2. PICK u : u = Append(s, e)
    OBVIOUS
  <2>3. DOMAIN u = 1..n + 1 /\ u[n + 1] = e /\ \A i \in 1..n : u[i] = s[i]
    BY <2>1, <2>2, AppendProperties, LenProperties
  <2>4. \A i \in 1..n + 1 : u[i] \in ToSet(s) \cup {e}
    BY <2>1, <2>3 DEF ToSet
  <2> QED BY <2>2, <2>3, <2>4 DEF ToSet
<1> QED BY <1>1, <1>2 DEF ToSet
LEMMA WindowHas ==
  ASSUME NEW S, NEW events \in Seq(S)
  PROVE  ToSet(Window(events)) \subseteq ToSet(events)
<1>1. PICK n \in Nat : n = Len(events) /\ DOMAIN events = 1..n /\ events = [i \in 1..n |-> events[i]]
  BY LenProperties
<1>2. PICK A : A = ToSet(events)
  OBVIOUS
<1>3. events \in [1..n -> A]
  BY <1>1, <1>2 DEF ToSet
<1>4. events \in Seq(A)
  BY <1>3
<1>5. Window(events) \in Seq(A)
  BY <1>4, WindowIs
<1>6. ToSet(Window(events)) \subseteq A
  BY <1>5, LenProperties DEF ToSet
<1> QED BY <1>2, <1>6

\* A step brings no event of this machine but that of a call that returns.
LEMMA OwnEventsStep ==
  ASSUME DataInv, [DataNext]_dataVars, ~Return
  PROVE  OwnEvents' \subseteq OwnEvents
<1>0. EventsInv
  BY DEF DataInv
<1>1. CASE ReceiveBatch
  <2>1. queued' = <<>> /\ rawEvents' = Window(rawEvents \o queued) /\ UNCHANGED <<file, foreign>>
    BY <1>1 DEF ReceiveBatch
  <2>2. ToSet(rawEvents') \subseteq ToSet(rawEvents) \cup ToSet(queued)
    <3>1. queued \in Seq(Known) /\ rawEvents \in Seq(Known)
      BY <1>0, SpansKnown DEF EventsInv
    <3>2. PICK joined : joined = rawEvents \o queued
      OBVIOUS
    <3>3. joined \in Seq(Known) /\ ToSet(joined) \subseteq ToSet(rawEvents) \cup ToSet(queued)
      BY <3>1, <3>2, ToSetOf, JoinedFunctions
    <3>4. ToSet(Window(joined)) \subseteq ToSet(joined)
      BY <3>3, WindowHas
    <3> QED BY <2>1, <3>2, <3>3, <3>4
  <2> QED BY <2>1, <2>2, ToSetOf DEF OwnEvents
<1>2. CASE Clear
  <2>1. rawEvents' = <<>> /\ UNCHANGED <<queued, file>>
    BY <1>2 DEF Clear
  <2> QED BY <2>1, ToSetOf DEF OwnEvents
<1>3. CASE Save
  <2>1. file' = rawEvents /\ UNCHANGED <<queued, rawEvents, foreign>>
    BY <1>3 DEF Save
  <2> QED BY <2>1 DEF OwnEvents
<1>4. ASSUME NEW events \in {file, Foreign}, Load(events)
      PROVE  OwnEvents' \subseteq OwnEvents
  <2>1. /\ rawEvents' = Window(events) /\ UNCHANGED <<queued, file>>
        /\ foreign' = (ToSet(events) \cap ToSet(Foreign) # {})
    BY <1>4 DEF Load
  <2>2. events \in Seq(Known)
    BY <1>0, SpansKnown DEF EventsInv
  <2>3. ToSet(rawEvents') \subseteq ToSet(events)
    BY <2>1, <2>2, WindowHas
  <2>4. ToSet(events) \ ToSet(Foreign) \subseteq ToSet(file) \ ToSet(Foreign)
    OBVIOUS
  <2>5. ~foreign' => ToSet(rawEvents') \subseteq ToSet(file) \ ToSet(Foreign)
    BY <2>1, <2>3, <2>4
  <2>6. ToSet(rawEvents') \ ToSet(Foreign) \subseteq ToSet(file) \ ToSet(Foreign)
    BY <2>3, <2>4
  <2> QED BY <2>1, <2>5, <2>6 DEF OwnEvents
<1>5. ASSUME NEW events \in {<<>>, Foreign}, LoadFails(events)
      PROVE  OwnEvents' \subseteq OwnEvents
  <2>1. /\ rawEvents' = Window(events) /\ UNCHANGED <<queued, file>>
        /\ foreign' = (foreign \/ ToSet(events) \cap ToSet(Foreign) # {})
    BY <1>5 DEF LoadFails
  <2>2. events \in Seq(Known)
    BY SpansKnown, EmptySeq
  <2>3. ToSet(rawEvents') \subseteq ToSet(events)
    BY <2>1, <2>2, WindowHas
  <2>4. ToSet(events) \subseteq ToSet(Foreign)
    BY ToSetOf
  <2>5. ~foreign' => ToSet(rawEvents') = {}
    BY <2>1, <2>3, <2>4
  <2>6. ToSet(rawEvents') \ ToSet(Foreign) = {}
    BY <2>3, <2>4
  <2> QED BY <2>1, <2>5, <2>6 DEF OwnEvents
<1>6. CASE UNCHANGED <<queued, rawEvents, file, foreign>>
  BY <1>6 DEF OwnEvents
<1> QED BY <1>1, <1>2, <1>3, <1>4, <1>5, <1>6 DEF DataNext, dataVars, Tick, Call, RefreshTimer, ChangeFilter

LEMMA NestStep == DataInv /\ NestInv /\ [DataNext]_dataVars => NestInv'
<1> SUFFICES ASSUME DataInv, NestInv, [DataNext]_dataVars PROVE NestInv'
  OBVIOUS
<1>1. CASE Return
  <2>1. PICK e \in Spans :
           /\ queued' = Append(queued, e) /\ Rising(e) /\ Kin(e, e)
           /\ Placed(e, calls', made', clock') /\ Stacking(calls', made')
           /\ \A d \in OwnEvents : Placed(d, calls', made', clock') /\ Kin(d, e) /\ Kin(e, d)
    BY <1>1, ReturnPlaces
  <2>2. OwnEvents' \subseteq OwnEvents \cup {e}
    <3>1. ToSet(queued') \subseteq ToSet(queued) \cup {e}
      BY <2>1, ToSetOf DEF DataInv, EventsInv
    <3>2. UNCHANGED <<rawEvents, file, foreign>>
      BY <1>1 DEF Return
    <3> QED BY <3>1, <3>2 DEF OwnEvents
  <2>3. \A d \in OwnEvents' : Rising(d) /\ Placed(d, calls', made', clock')
    BY <2>1, <2>2 DEF NestInv
  <2>4. \A a, b \in OwnEvents' : Kin(a, b)
    BY <2>1, <2>2 DEF NestInv
  <2> QED BY <2>1, <2>3, <2>4 DEF NestInv
<1>2. CASE ~Return
  <2>1. OwnEvents' \subseteq OwnEvents
    BY <1>2, OwnEventsStep
  <2>2. ASSUME Stacking(calls', made'), \A e \in OwnEvents : Placed(e, calls', made', clock')
        PROVE  NestInv'
    BY <2>1, <2>2 DEF NestInv
  <2>3. ASSUME NEW f \in Functions, Call(f) PROVE NestInv'
    BY <2>2, <2>3, CallPlaces
  <2>4. CASE Tick
    <3>1. clock' = clock + 1 /\ calls' = calls /\ made' = made /\ clock \in Nat
      BY <2>4 DEF Tick, DataInv, CallsInv
    <3>2. ASSUME NEW e \in OwnEvents PROVE Placed(e, calls', made', clock')
      <4>1. e.end \in Int /\ e.end <= clock
        BY OwnAreSpans, EventIs DEF DataInv, NestInv, Placed
      <4>2. e.end <= clock'
        BY <3>1, <4>1
      <4> QED BY <3>1, <4>2 DEF NestInv, Placed
    <3> QED BY <2>2, <3>1, <3>2 DEF NestInv
  <2>5. CASE UNCHANGED callVars
    BY <2>2, <2>5 DEF callVars, NestInv
  <2> QED BY <1>2, <2>3, <2>4, <2>5 DEF DataNext, dataVars, ReceiveBatch, RefreshTimer, ChangeFilter, Clear, Save, Load,
         LoadFails
<1> QED BY <1>1, <1>2

LEMMA NestStarts == DataInit => NestInv
<1> SUFFICES ASSUME DataInit PROVE NestInv
  OBVIOUS
<1>1. OwnEvents = {}
  BY ToSetOf DEF DataInit, OwnEvents
<1>2. Stacking(calls, made)
  <2>1. calls = <<>> /\ Len(<<>>) = 0
    BY EmptySeq DEF DataInit
  <2> QED BY <2>1 DEF Stacking
<1> QED BY <1>1, <1>2 DEF NestInv
-----------------------------------------------------------------------------
(* Totals: they count every call of the window, and those that have left it. *)

\* w is found in events, s places on.
Shifted(w, events, s) == \A i \in 1..Len(w) : i + s \in 1..Len(events) /\ w[i] = events[i + s]

LEMMA WindowPlaces ==
  ASSUME NEW S, NEW events \in Seq(S)
  PROVE  \E s \in Nat : Shifted(Window(events), events, s)
<1>0. PICK w : w = Window(events)
  OBVIOUS
<1>1. PICK n \in Nat : n = Len(events) /\ DOMAIN events = 1..n /\ \A i \in 1..n : events[i] \in S
  BY LenProperties
<1>2. PICK m \in Int : m = Max({1, n - MaxRawEvents + 1}) /\ m >= 1
  <2>1. n - MaxRawEvents + 1 \in Int /\ 1 \in Int
    BY ProfileDataAssumption
  <2>2. PICK m : m = Max({1, n - MaxRawEvents + 1})
    OBVIOUS
  <2>3. m \in {1, n - MaxRawEvents + 1} /\ m >= 1
    BY <2>1, <2>2, GreaterOf
  <2> QED BY <2>1, <2>2, <2>3
<1>3. w = SubSeq(events, m, n)
  BY <1>0, <1>1, <1>2 DEF Window
<1>4. \A i \in m..n : events[i] \in S
  BY <1>1, <1>2
<1>5. Len(w) = IF m <= n THEN n - m + 1 ELSE 0
  BY <1>3, <1>4, SubSeqProperties
<1>6. \A i \in 1..n - m + 1 : w[i] = events[m + i - 1]
  BY <1>3, <1>4, SubSeqProperties
<1>7. PICK s \in Nat : s = m - 1
  BY <1>2
<1>8. ASSUME NEW i \in 1..Len(w) PROVE i + s \in 1..n /\ w[i] = events[i + s]
  <2>1. i \in 1..n - m + 1 /\ m + i - 1 = i + s
    BY <1>2, <1>5, <1>7
  <2>2. i + s \in 1..n
    BY <1>2, <1>7, <2>1
  <2> QED BY <1>6, <2>1, <2>2
<1> QED BY <1>0, <1>1, <1>8 DEF Shifted

\* Events found elsewhere, s places on, took no more time there.
LEMMA ShiftedTime ==
  ASSUME NEW w \in Seq(Spans), NEW events \in Seq(Spans), NEW s \in Nat,
         NEW S \in SUBSET (DOMAIN w), NEW U \in SUBSET (DOMAIN events),
         \A i \in S : i + s \in U /\ w[i] = events[i + s]
  PROVE  TimeOf(w, S) <= TimeOf(events, U)
<1>1. PICK T, V : T = Tagged(w, S) /\ V = Tagged(events, U)
  OBVIOUS
<1>2. TimeOf(w, S) = Cardinality(T)
  BY <1>1, TimeIs
<1>3. IsFiniteSet(V) /\ TimeOf(events, U) = Cardinality(V)
  BY <1>1, TimeIs
<1>4. PICK f : f = [x \in V |-> <<x[1] - s, x[2]>>]
  OBVIOUS
<1>5. ASSUME NEW y \in T PROVE \E x \in V : f[x] = y
  <2>0. PICK i \in S : \E t \in Moments(w[i]) : y = <<i, t>>
    BY <1>1 DEF Tagged
  <2>1. PICK t \in Moments(w[i]) : y = <<i, t>>
    BY <2>0
  <2>2. <<i + s, t>> \in V
    BY <1>1, <2>1 DEF Tagged
  <2>3. (i + s) - s = i
    BY LenProperties
  <2> QED BY <1>4, <2>1, <2>2, <2>3
<1>6. Cardinality(T) <= Cardinality(V)
  BY <1>3, <1>5, AtMost
<1> QED BY <1>2, <1>3, <1>6

LEMMA WindowTime ==
  ASSUME NEW events \in Seq(Spans), NEW f
  PROVE  TimeOf(Window(events), Of(Window(events), f)) <= TimeOf(events, Of(events, f))
<1>1. PICK w \in Seq(Spans) : w = Window(events)
  BY WindowIs
<1>2. PICK s \in Nat : Shifted(w, events, s)
  BY <1>1, WindowPlaces
<1>3. DOMAIN w = 1..Len(w) /\ DOMAIN events = 1..Len(events)
  BY LenProperties
<1>4. PICK S \in SUBSET (DOMAIN w), U \in SUBSET (DOMAIN events) : S = Of(w, f) /\ U = Of(events, f)
  BY DEF Of
<1>5. \A i \in S : i + s \in U /\ w[i] = events[i + s]
  BY <1>2, <1>3, <1>4 DEF Of, Shifted
<1>6. TimeOf(w, S) <= TimeOf(events, U)
  BY <1>5, ShiftedTime
<1> QED BY <1>1, <1>4, <1>6

LEMMA TimeOfInt ==
  ASSUME NEW events \in Seq(Spans), NEW f
  PROVE  TimeOf(events, Of(events, f)) \in Nat
<1>1. PICK S \in SUBSET (DOMAIN events) : S = Of(events, f)
  BY DEF Of
<1>2. TimeOf(events, S) \in Nat
  BY TimeIs, FS_CardinalityType
<1> QED BY <1>1, <1>2

LEMMA JoinedTime ==
  ASSUME NEW a \in Seq(Spans), NEW b \in Seq(Spans), NEW f
  PROVE  TimeOf(a \o b, Of(a \o b, f)) <= TimeOf(a, Of(a, f)) + TimeOf(b, Of(b, f))
<1>1. PICK n \in Nat, m \in Nat : n = Len(a) /\ m = Len(b) /\ DOMAIN a = 1..n /\ DOMAIN b = 1..m
  BY LenProperties
<1>2. PICK c : c = a \o b
  OBVIOUS
<1>3. c \in Seq(Spans) /\ DOMAIN c = 1..n + m
  <2>1. c \in Seq(Spans) /\ Len(c) = n + m
    BY <1>1, <1>2, ConcatProperties
  <2> QED BY <2>1, LenProperties
<1>4. \A i \in 1..n + m : c[i] = IF i <= n THEN a[i] ELSE b[i - n]
  BY <1>1, <1>2, ConcatProperties
<1>5. PICK T, V, W : T = Tagged(c, Of(c, f)) /\ V = Tagged(a, Of(a, f)) /\ W = Tagged(b, Of(b, f))
  OBVIOUS
<1>6. /\ Of(c, f) \in SUBSET (DOMAIN c) /\ Of(a, f) \in SUBSET (DOMAIN a)
      /\ Of(b, f) \in SUBSET (DOMAIN b)
  BY DEF Of
<1>7. IsFiniteSet(T) /\ TimeOf(c, Of(c, f)) = Cardinality(T)
  BY <1>3, <1>5, <1>6, TimeIs
<1>8. IsFiniteSet(V) /\ TimeOf(a, Of(a, f)) = Cardinality(V)
  BY <1>5, <1>6, TimeIs
<1>9. IsFiniteSet(W) /\ TimeOf(b, Of(b, f)) = Cardinality(W)
  BY <1>5, <1>6, TimeIs
<1>10. PICK R : R = T \ V
  OBVIOUS
<1>11. PICK g : g = [x \in W |-> <<x[1] + n, x[2]>>]
  OBVIOUS
<1>12. ASSUME NEW y \in R PROVE \E x \in W : g[x] = y
  <2>0. PICK i \in Of(c, f) : \E t \in Moments(c[i]) : y = <<i, t>>
    BY <1>5, <1>10 DEF Tagged
  <2>1. PICK t \in Moments(c[i]) : y = <<i, t>>
    BY <2>0
  <2>2. i \in 1..n + m /\ c[i].function = f
    BY <1>3 DEF Of
  <2>3. CASE i <= n
    <3>1. i \in 1..n /\ c[i] = a[i]
      BY <1>4, <2>2, <2>3
    <3>2. i \in Of(a, f)
      BY <1>1, <2>2, <3>1 DEF Of
    <3>3. y \in V
      BY <1>5, <2>1, <3>1, <3>2 DEF Tagged
    <3> QED BY <1>10, <3>3
  <2>4. CASE ~(i <= n)
    <3>1. PICK k \in 1..m : k = i - n
      BY <2>2, <2>4
    <3>2. c[i] = b[k] /\ k + n = i
      BY <1>4, <2>2, <2>4, <3>1
    <3>3. k \in Of(b, f)
      BY <1>1, <2>2, <3>2 DEF Of
    <3>4. <<k, t>> \in W
      BY <1>5, <2>1, <3>2, <3>3 DEF Tagged
    <3> QED BY <1>11, <2>1, <3>2, <3>4
  <2> QED BY <2>3, <2>4
<1>13. IsFiniteSet(R) /\ Cardinality(R) <= Cardinality(W)
  BY <1>9, <1>12, AtMost
<1>14. Cardinality(T) <= Cardinality(V) + Cardinality(R)
  <2>1. PICK Q : Q = V \cup R
    OBVIOUS
  <2>2. IsFiniteSet(Q) /\ Cardinality(Q) = Cardinality(V) + Cardinality(R) - Cardinality(V \cap R)
    BY <1>8, <1>13, <2>1, FS_Union
  <2>3. V \cap R = {} /\ T \subseteq Q
    BY <1>10, <2>1
  <2>4. Cardinality(T) <= Cardinality(Q)
    BY <2>2, <2>3, FS_Subset
  <2>5. Cardinality(V \cap R) = 0 /\ Cardinality(V) \in Nat /\ Cardinality(R) \in Nat /\ Cardinality(T) \in Nat
    BY <1>7, <1>8, <1>13, <2>3, FS_EmptySet, FS_CardinalityType
  <2> QED BY <2>2, <2>4, <2>5
<1>15. Cardinality(V) \in Nat /\ Cardinality(R) \in Nat /\ Cardinality(T) \in Nat /\ Cardinality(W) \in Nat
  BY <1>7, <1>8, <1>9, <1>13, FS_CardinalityType
<1> QED BY <1>2, <1>7, <1>8, <1>9, <1>13, <1>14, <1>15
-----------------------------------------------------------------------------
(* The statistics: totals are never less than the window's; the rest is of the last refresh. *)

\* The fields a refresh writes and keeps.
IsStat(s) == {"total", "self"} \subseteq DOMAIN s

\* The statistics know every event of the window, and more.
Counted(st, events) ==
  \A f \in DOMAIN st : st[f].total \in Int /\ st[f].total >= TimeOf(events, Of(events, f))

StatsInv ==
  /\ IsFiniteSet(DOMAIN stats) /\ \A f \in DOMAIN stats : IsStat(stats[f])
  /\ ~foreign => Counted(stats, rawEvents)
  /\ ~refreshPending /\ ~stale =>
       /\ \A f \in DOMAIN stats : stats[f].self = SelfTime(rawEvents, f)
       /\ wall = TotalSelf(stats)

LEMMA FunctionsFinite ==
  ASSUME NEW S, NEW events \in Seq(S)
  PROVE  IsFiniteSet(FunctionsIn(events))
<1>1. PICK n \in Nat : n = Len(events) /\ DOMAIN events = 1..n
  BY LenProperties
<1>2. IsFiniteSet(1..n)
  BY FS_Interval
<1>3. PICK g : g = [i \in 1..n |-> events[i].function]
  OBVIOUS
<1>4. \A y \in FunctionsIn(events) : \E i \in 1..n : g[i] = y
  BY <1>1, <1>3 DEF FunctionsIn
<1> QED BY <1>2, <1>4, AtMost

LEMMA RecordedIs ==
  ASSUME NEW st, NEW events, NEW f, NEW s, s = RecordedOf(st, events, f),
         f \in DOMAIN st => IsStat(st[f])
  PROVE  /\ IsStat(s)
         /\ f \in DOMAIN st => s.total = st[f].total + TimeOf(events, Of(events, f))
         /\ f \notin DOMAIN st => s.total = 0 + TimeOf(events, Of(events, f))
<1>1. PICK t, d, c : t = TimeOf(events, Of(events, f)) /\ c = Cardinality(Of(events, f))
                     /\ d = {Duration(events[i]) : i \in Of(events, f)}
  OBVIOUS
<1>2. PICK old : old = IF f \in DOMAIN st THEN st[f] ELSE [count |-> 0, total |-> 0, max |-> 0, self |-> 0]
  OBVIOUS
<1>3. s = [old EXCEPT !.count = @ + c, !.total = @ + t, !.max = Max({@} \cup d)]
  BY <1>1, <1>2 DEF RecordedOf
<1>4. IsStat(old)
  BY <1>2 DEF IsStat
<1>5. DOMAIN s = DOMAIN old
  BY <1>3
<1>6. s.total = old.total + t
  BY <1>3, <1>4 DEF IsStat
<1> QED BY <1>1, <1>2, <1>4, <1>5, <1>6 DEF IsStat

LEMMA RecordedStats ==
  ASSUME NEW st, IsFiniteSet(DOMAIN st), \A f \in DOMAIN st : IsStat(st[f]), NEW S, NEW events \in Seq(S)
  PROVE  /\ IsFiniteSet(DOMAIN Recorded(st, events))
         /\ \A f \in DOMAIN Recorded(st, events) : IsStat(Recorded(st, events)[f])
<1>1. DOMAIN Recorded(st, events) = DOMAIN st \cup FunctionsIn(events)
  BY DEF Recorded
<1>2. IsFiniteSet(DOMAIN st \cup FunctionsIn(events))
  BY FunctionsFinite, FS_Union
<1>3. ASSUME NEW f \in DOMAIN Recorded(st, events) PROVE IsStat(Recorded(st, events)[f])
  <2>1. Recorded(st, events)[f] = RecordedOf(st, events, f)
    BY <1>1, <1>3 DEF Recorded
  <2>2. IsStat(RecordedOf(st, events, f))
    BY RecordedIs
  <2> QED BY <2>1, <2>2
<1> QED BY <1>1, <1>2, <1>3

LEMMA RecordedTotals ==
  ASSUME NEW st, \A f \in DOMAIN st : IsStat(st[f]),
         NEW a \in Seq(Spans), NEW b \in Seq(Spans), Counted(st, a), FunctionsIn(a) \subseteq DOMAIN st
  PROVE  Counted(Recorded(st, b), Window(a \o b))
<1>1. PICK ab \in Seq(Spans) : ab = a \o b
  BY ConcatProperties
<1>2. PICK w \in Seq(Spans) : w = Window(ab)
  BY WindowIs
<1>3. ASSUME NEW f \in DOMAIN Recorded(st, b)
      PROVE  Recorded(st, b)[f].total \in Int /\ Recorded(st, b)[f].total >= TimeOf(w, Of(w, f))
  <2>1. PICK s : s = RecordedOf(st, b, f)
    OBVIOUS
  <2>2. Recorded(st, b)[f] = s
    BY <2>1 DEF Recorded
  <2>3. PICK ta \in Nat, tb \in Nat, tab \in Nat, tw \in Nat :
          /\ ta = TimeOf(a, Of(a, f)) /\ tb = TimeOf(b, Of(b, f))
          /\ tab = TimeOf(ab, Of(ab, f)) /\ tw = TimeOf(w, Of(w, f))
    BY TimeOfInt
  <2>4. tab <= ta + tb
    BY <1>1, <2>3, JoinedTime
  <2>5. tw <= tab
    BY <1>2, <2>3, WindowTime
  <2>6. CASE f \in DOMAIN st
    <3>1. s.total = st[f].total + tb
      <4>1. s.total = st[f].total + TimeOf(b, Of(b, f))
        BY <2>1, <2>6, RecordedIs
      <4> QED BY <2>3, <4>1
    <3>2. st[f].total \in Int /\ st[f].total >= ta
      BY <2>3, <2>6 DEF Counted
    <3> QED BY <2>2, <2>3, <2>4, <2>5, <3>1, <3>2
  <2>7. CASE f \notin DOMAIN st
    <3>1. s.total = 0 + tb
      BY <2>1, <2>3, <2>7, RecordedIs
    <3>2. Of(a, f) = {}
      BY <2>7 DEF Of, FunctionsIn
    <3>3. ta = 0
      BY <2>3, <3>2, SumEmpty DEF TimeOf
    <3> QED BY <2>2, <2>3, <2>4, <2>5, <3>1, <3>3
  <2> QED BY <2>6, <2>7
<1> QED BY <1>1, <1>2, <1>3 DEF Counted
\* What a refresh makes of the statistics.
LEMMA FlushCounts ==
  ASSUME NEW st, FlushRefresh(st), IsFiniteSet(DOMAIN st), \A f \in DOMAIN st : IsStat(st[f]),
         ~foreign' => Counted(st, rawEvents')
  PROVE  StatsInv'
<1>1. stats' = [f \in DOMAIN st |-> [st[f] EXCEPT !.self = SelfTime(rawEvents', f)]]
  BY DEF FlushRefresh
<1>2. DOMAIN stats' = DOMAIN st
  BY <1>1
<1>3. ASSUME NEW f \in DOMAIN st
      PROVE  /\ IsStat(stats'[f]) /\ stats'[f].total = st[f].total
             /\ stats'[f].self = SelfTime(rawEvents', f)
  <2>1. PICK s, x : s = st[f] /\ x = SelfTime(rawEvents', f)
    OBVIOUS
  <2>2. stats'[f] = [s EXCEPT !.self = x]
    BY <1>1, <2>1
  <2>3. IsStat(s)
    BY <2>1
  <2> QED BY <2>1, <2>2, <2>3 DEF IsStat
<1>4. wall' = TotalSelf(stats')
  BY DEF FlushRefresh
<1>5. ~foreign' => Counted(stats', rawEvents')
  BY <1>2, <1>3 DEF Counted
<1> QED BY <1>2, <1>3, <1>4, <1>5 DEF StatsInv

\* What a load makes of the statistics, before a refresh.
LEMMA LoadCounts ==
  ASSUME NEW events \in Seq(Known), NEW st, st = Recorded(<<>>, events)
  PROVE  /\ IsFiniteSet(DOMAIN st) /\ \A f \in DOMAIN st : IsStat(st[f])
         /\ ToSet(events) \cap ToSet(Foreign) = {} => Counted(st, Window(events))
<1>1. IsFiniteSet(DOMAIN <<>>) /\ \A f \in DOMAIN <<>> : IsStat(<<>>[f])
  <2>1. DOMAIN <<>> = {}
    OBVIOUS
  <2> QED BY <2>1, FS_EmptySet
<1>2. IsFiniteSet(DOMAIN st) /\ \A f \in DOMAIN st : IsStat(st[f])
  BY <1>1, RecordedStats
<1>3. ASSUME ToSet(events) \cap ToSet(Foreign) = {} PROVE Counted(st, Window(events))
  <2>1. events \in Seq(Spans)
    BY <1>3, SpansKnown
  <2>2. <<>> \in Seq(Spans) /\ FunctionsIn(<<>>) \subseteq DOMAIN <<>> /\ Counted(<<>>, <<>>)
    <3>1. DOMAIN <<>> = {} /\ <<>> \in Seq(Spans)
      BY EmptySeq
    <3> QED BY <3>1, NoFunctions DEF Counted
  <2>3. <<>> \o events = events
    BY <2>1
  <2>4. Counted(Recorded(<<>>, events), Window(<<>> \o events))
    BY <1>1, <2>1, <2>2, RecordedTotals
  <2> QED BY <2>3, <2>4
<1> QED BY <1>2, <1>3

LEMMA StatsStep == DataInv /\ StatsInv /\ [DataNext]_dataVars => StatsInv'
<1> SUFFICES ASSUME DataInv, StatsInv, [DataNext]_dataVars PROVE StatsInv'
  OBVIOUS
<1>0. EventsInv /\ FunctionsIn(rawEvents) \subseteq DOMAIN stats
  BY DEF DataInv, FreshInv
<1>1. CASE ReceiveBatch
  <2>1. /\ rawEvents' = Window(rawEvents \o queued) /\ refreshPending' = TRUE
        /\ stats' = Recorded(stats, queued) /\ foreign' = foreign
    BY <1>1 DEF ReceiveBatch
  <2>2. IsFiniteSet(DOMAIN stats') /\ \A f \in DOMAIN stats' : IsStat(stats'[f])
    BY <1>0, <2>1, RecordedStats DEF StatsInv, EventsInv
  <2>3. ASSUME ~foreign PROVE Counted(stats', rawEvents')
    <3>1. rawEvents \in Seq(Spans) /\ queued \in Seq(Spans) /\ Counted(stats, rawEvents)
      BY <1>0, <2>3 DEF EventsInv, StatsInv
    <3>2. \A f \in DOMAIN stats : IsStat(stats[f])
      BY DEF StatsInv
    <3>3. Counted(Recorded(stats, queued), Window(rawEvents \o queued))
      BY <1>0, <3>1, <3>2, RecordedTotals
    <3> QED BY <2>1, <3>3
  <2> QED BY <2>1, <2>2, <2>3 DEF StatsInv
<1>2. CASE RefreshTimer
  <2>1. FlushRefresh(stats) /\ UNCHANGED <<rawEvents, foreign>>
    BY <1>2 DEF RefreshTimer
  <2> QED BY <2>1, FlushCounts DEF StatsInv
<1>3. CASE Clear
  <2>1. FlushRefresh(<<>>)
    BY <1>3 DEF Clear
  <2>2. DOMAIN <<>> = {}
    OBVIOUS
  <2>3. Counted(<<>>, rawEvents')
    BY <2>2 DEF Counted
  <2> QED BY <2>1, <2>2, <2>3, FlushCounts, FS_EmptySet
<1>4. ASSUME NEW events \in {file, Foreign}, Load(events) PROVE StatsInv'
  <2>1. /\ rawEvents' = Window(events) /\ FlushRefresh(Recorded(<<>>, events))
        /\ foreign' = (ToSet(events) \cap ToSet(Foreign) # {})
    BY <1>4 DEF Load
  <2>2. events \in Seq(Known)
    BY <1>0, SpansKnown DEF EventsInv
  <2>3. PICK st : st = Recorded(<<>>, events)
    OBVIOUS
  <2>4. IsFiniteSet(DOMAIN st) /\ \A f \in DOMAIN st : IsStat(st[f])
    BY <2>2, <2>3, LoadCounts
  <2>5. ~foreign' => Counted(st, rawEvents')
    BY <2>1, <2>2, <2>3, LoadCounts
  <2> QED BY <2>1, <2>3, <2>4, <2>5, FlushCounts
<1>5. ASSUME NEW events \in {<<>>, Foreign}, LoadFails(events) PROVE StatsInv'
  <2>1. /\ rawEvents' = Window(events) /\ stats' = Recorded(<<>>, events) /\ stale'
        /\ foreign' = (foreign \/ ToSet(events) \cap ToSet(Foreign) # {})
    BY <1>5 DEF LoadFails
  <2>2. events \in Seq(Known)
    BY SpansKnown, EmptySeq
  <2>3. IsFiniteSet(DOMAIN stats') /\ \A f \in DOMAIN stats' : IsStat(stats'[f])
    BY <2>1, <2>2, LoadCounts
  <2>4. ~foreign' => Counted(stats', rawEvents')
    BY <2>1, <2>2, LoadCounts
  <2> QED BY <2>1, <2>3, <2>4 DEF StatsInv
<1>6. CASE UNCHANGED <<rawEvents, stats, refreshPending, stale, foreign, wall>>
  BY <1>6 DEF StatsInv
<1> QED BY <1>1, <1>2, <1>3, <1>4, <1>5, <1>6 DEF DataNext, dataVars, viewVars, Tick, Call, Return, ChangeFilter, Save

LEMMA StatsStart == DataInit => StatsInv
<1> SUFFICES ASSUME DataInit PROVE StatsInv
  OBVIOUS
<1>1. DOMAIN stats = {} /\ stats = <<>> /\ wall = 0
  BY DEF DataInit
<1>2. wall = TotalSelf(stats)
  <2>1. DOMAIN [f \in DOMAIN stats |-> stats[f].self] = {}
    BY <1>1
  <2> QED BY <1>1, <2>1, SumEmpty DEF TotalSelf, SumFunction
<1> QED BY <1>1, <1>2, FS_EmptySet DEF StatsInv, Counted
-----------------------------------------------------------------------------
(* Self times of a window of calls that nest *)

\* Events of calls that nest.
Related(events) ==
  /\ events \in Seq(Spans)
  /\ \A i \in 1..Len(events) : Rising(events[i])
  /\ \A i, k \in 1..Len(events) : Kin(events[i], events[k])

LEMMA OrderedNests ==
  ASSUME NEW events, Related(events)
  PROVE  Nested(Ordered(events))
<1>1. PICK n \in Nat : n = Len(events) /\ DOMAIN events = 1..n /\ \A i \in 1..n : events[i] \in Spans
  BY LenProperties, ElementOfSeq DEF Related
<1>2. PICK R : R = BySpan(events)
  OBVIOUS
<1>3. events \in Seq(Spans) /\ Timed(events)
  BY SpansTimed DEF Related
<1>4. TotalOrder(R, n)
  BY <1>1, <1>2, <1>3, BySpanOrders
<1>5. PICK p : Places(events, R, p)
  BY <1>1, <1>3, <1>4, SortedHas
<1>6. PICK o : o = Ordered(events)
  OBVIOUS
<1>7. /\ o = [i \in 1..n |-> events[p[i]]] /\ p \in [1..n -> 1..n]
      /\ \A i, j \in 1..n : i < j => <<p[i], p[j]>> \in R
  BY <1>1, <1>2, <1>5, <1>6 DEF Places, Ordered
<1>8. Rearranged(events, o, Spans)
  BY <1>3, <1>6, OrderedIs
<1>9. o \in Seq(Spans) /\ Len(o) = n /\ \A i, j \in 1..n : i <= j => o[i].start <= o[j].start
  BY <1>1, <1>8 DEF Rearranged
<1>10. ASSUME NEW i \in 1..n, NEW j \in 1..n, i < j
       PROVE  o[i].end <= o[j].start \/ o[j].end <= o[i].end
  <2>1. PICK a \in Spans, b \in Spans : a = o[i] /\ b = o[j]
    BY <1>9, ElementOfSeq
  <2>2. p[i] \in 1..n /\ p[j] \in 1..n /\ a = events[p[i]] /\ b = events[p[j]]
    BY <1>7, <2>1
  <2>3. Kin(a, b)
    BY <1>1, <2>2 DEF Related
  <2>4. a.start < b.start \/ (a.start = b.start /\ (a.end > b.end \/ a.end = b.end))
    BY <1>1, <1>2, <1>7, <1>10, <2>2 DEF BySpan
  <2>5. /\ a.start \in Int /\ a.end \in Int /\ a.start <= a.end
        /\ b.start \in Int /\ b.end \in Int /\ b.start <= b.end
    BY SpanIs
  <2>6. Encloses(a, b) => b.end <= a.end
    BY DEF Encloses
  <2>7. Encloses(b, a) => b.start <= a.start
    BY DEF Encloses
  <2>8. a = b \/ a.end <= b.start \/ b.end <= a.start \/ Encloses(a, b) \/ Encloses(b, a)
    BY <2>3 DEF Kin
  <2> QED BY <2>1, <2>4, <2>5, <2>6, <2>7, <2>8
<1> QED BY <1>6, <1>9, <1>10 DEF Nested

\* What an order of the same events keeps.
LEMMA OrderedHas ==
  ASSUME NEW events, Related(events), NEW o, o = Ordered(events)
  PROVE  /\ o \in Seq(Spans) /\ Len(o) = Len(events) /\ DOMAIN o = DOMAIN events
         /\ DOMAIN events = 1..Len(events)
         /\ \A i \in DOMAIN events : \E k \in DOMAIN events : o[i] = events[k]
         /\ \A k \in DOMAIN events : \E i \in DOMAIN events : o[i] = events[k]
<1>1. events \in Seq(Spans) /\ Timed(events)
  BY SpansTimed DEF Related
<1>2. Rearranged(events, o, Spans)
  BY <1>1, OrderedIs
<1>3. o \in Seq(Spans) /\ Len(o) = Len(events)
  BY <1>2 DEF Rearranged
<1>4. DOMAIN o = 1..Len(events) /\ DOMAIN events = 1..Len(events)
  BY <1>1, <1>3, LenProperties
<1> QED BY <1>2, <1>3, <1>4 DEF Rearranged

LEMMA SelfTimeIs ==
  ASSUME NEW events, Related(events), NEW f, NEW o, o = Ordered(events)
  PROVE  /\ IsFiniteSet(LoneOf(o, Of(o, f)))
         /\ SelfTime(events, f) = Cardinality(LoneOf(o, Of(o, f)))
<1>1. Nested(o)
  BY OrderedNests
<1>2. PICK S \in SUBSET (DOMAIN o) : S = Of(o, f)
  BY DEF Of
<1>3. IsFiniteSet(LoneOf(o, S)) /\ SumFunctionOnSet(EventSelf(o), S) = Cardinality(LoneOf(o, S))
  BY <1>1, SelfTimesAre
<1> QED BY <1>2, <1>3 DEF SelfTime

LEMMA SelfWithinTime ==
  ASSUME NEW events, Related(events), NEW f
  PROVE  SelfTime(events, f) \in Nat /\ SelfTime(events, f) <= TimeOf(events, Of(events, f))
<1>1. PICK o : o = Ordered(events)
  OBVIOUS
<1>2. PICK A : A = LoneOf(o, Of(o, f))
  OBVIOUS
<1>3. PICK S \in SUBSET (DOMAIN events) : S = Of(events, f)
  BY DEF Of
<1>4. A \in SUBSET MomentsOf(events, S)
  <2>1. ASSUME NEW t \in A PROVE t \in MomentsOf(events, S)
    <3>1. PICK i \in Of(o, f) : t \in Lone(o, i)
      BY <1>2 DEF LoneOf
    <3>2. i \in DOMAIN events /\ o[i].function = f /\ t \in Moments(o[i])
      BY <1>1, <3>1, OrderedHas DEF Of, Lone
    <3>3. PICK k \in DOMAIN events : o[i] = events[k]
      BY <1>1, <3>2, OrderedHas
    <3>4. k \in S
      BY <1>3, <3>2, <3>3 DEF Of
    <3> QED BY <3>2, <3>3, <3>4 DEF MomentsOf
  <2> QED BY <2>1
<1>5. events \in Seq(Spans)
  BY DEF Related
<1>6. IsFiniteSet(A) /\ Cardinality(A) <= TimeOf(events, S)
  BY <1>4, <1>5, TimeCovers
<1>7. SelfTime(events, f) = Cardinality(A)
  BY <1>1, <1>2, SelfTimeIs
<1> QED BY <1>3, <1>6, <1>7, FS_CardinalityType

\* The self times of all functions are the time in which any call ran.
LEMMA SelfTimesCover ==
  ASSUME NEW events, Related(events), NEW F, IsFiniteSet(F), FunctionsIn(events) \subseteq F,
         NEW v, \A f \in F : v[f] = SelfTime(events, f)
  PROVE  SumFunctionOnSet(v, F) = Cardinality(Covered(events))
<1>1. PICK o : o = Ordered(events)
  OBVIOUS
<1>2. Nested(o)
  BY <1>1, OrderedNests
<1>3. PICK D : D = [f \in F |-> LoneOf(o, Of(o, f))]
  OBVIOUS
<1>4. \A f \in F : IsFiniteSet(D[f]) /\ v[f] = Cardinality(D[f])
  BY <1>1, <1>3, SelfTimeIs
<1>5. DOMAIN o = 1..Len(o) /\ DOMAIN o = DOMAIN events
  BY <1>1, OrderedHas
<1>6. ASSUME NEW f \in F, NEW g \in F, f # g PROVE D[f] \cap D[g] = {}
  <2> SUFFICES ASSUME NEW t \in D[f], t \in D[g] PROVE FALSE
    OBVIOUS
  <2>1. PICK i \in Of(o, f), j \in Of(o, g) : t \in Lone(o, i) /\ t \in Lone(o, j)
    BY <1>3 DEF LoneOf
  <2>2. i \in 1..Len(o) /\ j \in 1..Len(o) /\ i # j
    BY <1>5, <1>6 DEF Of
  <2> QED BY <1>2, <2>1, <2>2, LoneApart
<1>7. SizesAddUp(v, D, F)
  BY <1>4, <1>6, SumCounts
<1>8. UNION {D[f] : f \in F} = Covered(events)
  <2>1. ASSUME NEW f \in F, NEW t \in D[f] PROVE t \in Covered(events)
    <3>1. PICK i \in Of(o, f) : t \in Lone(o, i)
      BY <1>3 DEF LoneOf
    <3>2. i \in DOMAIN events /\ t \in Moments(o[i])
      BY <1>5, <3>1 DEF Of, Lone
    <3>3. PICK k \in DOMAIN events : o[i] = events[k]
      BY <1>1, <3>2, OrderedHas
    <3> QED BY <3>2, <3>3 DEF Covered, Moments
  <2>2. ASSUME NEW t \in Covered(events) PROVE \E f \in F : t \in D[f]
    <3>1. PICK k \in DOMAIN events : t \in Moments(events[k])
      BY DEF Covered, Moments
    <3>2. PICK i \in DOMAIN events : o[i] = events[k]
      BY <1>1, OrderedHas
    <3>3. t \in MomentsOf(o, 1..Len(o))
      BY <1>5, <3>1, <3>2 DEF MomentsOf
    <3>4. PICK j \in 1..Len(o) : t \in Lone(o, j)
      BY <1>2, <3>3, LoneCovers
    <3>5. PICK m \in DOMAIN events : o[j] = events[m]
      <4>1. j \in DOMAIN events
        BY <1>5
      <4> QED BY <1>1, <4>1, OrderedHas
    <3>6. PICK f \in F : f = o[j].function
      BY <3>5 DEF FunctionsIn
    <3>7. j \in Of(o, f)
      BY <1>5, <3>6 DEF Of
    <3> QED BY <1>3, <3>4, <3>7 DEF LoneOf
  <2> QED BY <2>1, <2>2
<1> QED BY <1>7, <1>8 DEF SizesAddUp

LEMMA WindowRelated == DataInv /\ NestInv /\ ~foreign => Related(rawEvents)
<1> SUFFICES ASSUME DataInv, NestInv, ~foreign PROVE Related(rawEvents)
  OBVIOUS
<1>1. rawEvents \in Seq(Spans)
  BY DEF DataInv, EventsInv
<1>2. DOMAIN rawEvents = 1..Len(rawEvents)
  BY <1>1, LenProperties
<1>3. \A i \in 1..Len(rawEvents) : rawEvents[i] \in OwnEvents
  BY <1>2 DEF OwnEvents, ToSet
<1> QED BY <1>1, <1>3 DEF NestInv, Related

LEMMA SumsHold ==
  DataInv /\ NestInv /\ StatsInv /\ ~foreign /\ ~refreshPending /\ ~stale =>
    SelfWithinTotal /\ wall = Cardinality(Covered(rawEvents))
<1> SUFFICES ASSUME DataInv, NestInv, StatsInv, ~foreign, ~refreshPending, ~stale
             PROVE  SelfWithinTotal /\ wall = Cardinality(Covered(rawEvents))
  OBVIOUS
<1>1. Related(rawEvents)
  BY WindowRelated
<1>2. SelfWithinTotal
  <2>1. ASSUME NEW f \in DOMAIN stats PROVE stats[f].self \in 0..stats[f].total
    <3>1. PICK s \in Nat : s = SelfTime(rawEvents, f) /\ s <= TimeOf(rawEvents, Of(rawEvents, f))
      BY <1>1, SelfWithinTime
    <3>2. TimeOf(rawEvents, Of(rawEvents, f)) \in Nat
      BY <1>1, TimeOfInt DEF Related
    <3>3. stats[f].total \in Int /\ stats[f].total >= TimeOf(rawEvents, Of(rawEvents, f))
      BY DEF StatsInv, Counted
    <3>4. stats[f].self = s
      BY <3>1 DEF StatsInv
    <3> QED BY <3>1, <3>2, <3>3, <3>4
  <2> QED BY <2>1 DEF SelfWithinTotal
<1>3. wall = Cardinality(Covered(rawEvents))
  <2>1. PICK F, v : F = DOMAIN stats /\ v = [f \in DOMAIN stats |-> stats[f].self]
    OBVIOUS
  <2>2. IsFiniteSet(F) /\ FunctionsIn(rawEvents) \subseteq F
    BY <2>1 DEF StatsInv, DataInv, FreshInv
  <2>3. \A f \in F : v[f] = SelfTime(rawEvents, f)
    BY <2>1 DEF StatsInv
  <2>4. SumFunctionOnSet(v, F) = Cardinality(Covered(rawEvents))
    BY <1>1, <2>2, <2>3, SelfTimesCover
  <2>5. DOMAIN v = F
    BY <2>1
  <2> QED BY <2>1, <2>4, <2>5 DEF StatsInv, TotalSelf, SumFunction
<1> QED BY <1>2, <1>3
-----------------------------------------------------------------------------
(* Self times are exact *)

\* The places of those of e's callers that are in the window.
There(events, j) == {k \in DOMAIN events[j].within : events[j].within[k] \in {events[i].id : i \in DOMAIN events}}

LEMMA CalledInIs ==
  ASSUME NEW events \in Seq(Spans), NEW i \in DOMAIN events, NEW j \in DOMAIN events
  PROVE  /\ There(events, j) \subseteq 1..Len(events[j].within)
         /\ j \in CalledIn(events, i) <=>
              \E k \in There(events, j) :
                 /\ events[j].within[k] = events[i].id
                 /\ \A m \in There(events, j) : m <= k
<1>1. PICK e \in Spans : e = events[j]
  BY LenProperties
<1>2. PICK n \in Nat : n = Len(e.within) /\ DOMAIN e.within = 1..n
  BY EventIs, LenProperties
<1>3. PICK T : T = There(events, j)
  OBVIOUS
<1>4. T \subseteq 1..n
  BY <1>1, <1>2, <1>3 DEF There
<1>5. j \in CalledIn(events, i) <=> T # {} /\ e.within[Max(T)] = events[i].id
  BY <1>1, <1>3 DEF CalledIn, There
<1>6. ASSUME T # {} PROVE Max(T) \in T /\ \A m \in T : m <= Max(T)
  <2>1. PICK A : A = {0} \cup T
    OBVIOUS
  <2>2. A \in SUBSET (0..n) /\ 0 \in A
    BY <1>4, <2>1
  <2>3. PICK x \in A : \A m \in A : m <= x
    BY <2>2, GreatestNumber
  <2>4. x \in T
    <3>1. PICK y \in T : y \in 1..n
      BY <1>4, <1>6
    <3>2. y <= x
      BY <2>1, <2>3
    <3>3. x # 0
      BY <3>1, <3>2
    <3> QED BY <2>1, <3>3
  <2>5. \A m \in T : m <= x
    BY <2>1, <2>3
  <2> QED BY <2>4, <2>5 DEF Max
<1>7. ASSUME NEW k \in T, \A m \in T : m <= k PROVE k = Max(T)
  <2>1. PICK x \in T : x = Max(T) /\ k <= x /\ x <= k
    BY <1>6, <1>7
  <2>2. x \in 1..n /\ k \in 1..n
    BY <1>4
  <2> QED BY <2>1, <2>2
<1> QED BY <1>1, <1>2, <1>3, <1>4, <1>5, <1>6, <1>7

LEMMA NamedEncloses ==
  ASSUME NEW events, Related(events), NEW i \in DOMAIN events, NEW j \in DOMAIN events,
         NEW k \in 1..Len(events[j].within), events[j].within[k] = events[i].id
  PROVE  /\ Len(events[i].within) = k - 1
         /\ \A r \in 1..k - 1 : events[i].within[r] = events[j].within[r]
         /\ events[i].start <= events[j].start /\ events[j].end <= events[i].end
         /\ Moments(events[j]) \subseteq Moments(events[i])
<1>1. PICK a \in Spans, b \in Spans : a = events[i] /\ b = events[j]
  BY LenProperties DEF Related
<1>2. Kin(a, b) /\ Rising(b)
  BY <1>1, LenProperties DEF Related
<1>3. Encloses(a, b)
  BY <1>1, <1>2 DEF Kin, Names
<1>4. PICK q \in 1..Len(b.within) :
         /\ b.within[q] = a.id /\ Len(a.within) = q - 1
         /\ \A r \in 1..q - 1 : a.within[r] = b.within[r]
         /\ a.start <= b.start /\ b.end <= a.end
  BY <1>3 DEF Encloses
<1>5. q = k
  <2>1. b.within[q] = b.within[k] /\ b.within[q] \in Nat /\ Len(b.within) \in Nat
    BY <1>1, <1>4, EventIs
  <2>2. ~(q < k) /\ ~(k < q)
    BY <1>1, <1>2, <2>1 DEF Rising
  <2> QED BY <2>1, <2>2
<1>6. Moments(b) \subseteq Moments(a)
  <2>1. a.start \in Int /\ a.end \in Int /\ b.start \in Int /\ b.end \in Int
    BY SpanIs
  <2>2. ASSUME NEW t \in Moments(b) PROVE t \in Moments(a)
    <3>1. t \in Int /\ b.start <= t /\ t < b.end
      BY MomentsAre
    <3>2. a.start <= t /\ t < a.end
      BY <1>4, <2>1, <3>1
    <3> QED BY <3>1, <3>2, MomentsAre
  <2> QED BY <2>2
<1> QED BY <1>1, <1>4, <1>5, <1>6

\* Calls made in a call, no other call of the window between, never ran at the same moment.
LEMMA CalledInApart ==
  ASSUME NEW events, Related(events), SpansDiffer(events), NEW i \in DOMAIN events,
         NEW j \in CalledIn(events, i), NEW k \in CalledIn(events, i), j # k
  PROVE  Moments(events[j]) \cap Moments(events[k]) = {}
<1>1. events \in Seq(Spans)
  BY DEF Related
<1>2. ASSUME NEW a \in CalledIn(events, i), NEW b \in CalledIn(events, i), Names(events[b], events[a])
      PROVE  FALSE
  <2>1. a \in DOMAIN events /\ b \in DOMAIN events
    BY DEF CalledIn
  <2>2. PICK q \in 1..Len(events[b].within) : events[b].within[q] = events[a].id
    BY <1>2 DEF Names
  <2>3. /\ Len(events[a].within) = q - 1
        /\ \A r \in 1..q - 1 : events[a].within[r] = events[b].within[r]
    BY <2>1, <2>2, NamedEncloses
  <2>4. PICK x \in There(events, b) : events[b].within[x] = events[i].id /\ \A m \in There(events, b) : m <= x
    BY <1>1, <2>1, CalledInIs
  <2>5. PICK y \in There(events, a) : events[a].within[y] = events[i].id
    BY <1>1, <2>1, CalledInIs
  <2>6. x \in 1..Len(events[b].within) /\ y \in 1..Len(events[a].within)
    BY <1>1, <2>1, CalledInIs
  <2>7. q \in There(events, b)
    <3>1. events[b] \in Spans
      BY <1>1, <2>1, LenProperties
    <3>2. q \in DOMAIN events[b].within
      BY <3>1, EventIs, LenProperties
    <3> QED BY <2>1, <2>2, <3>2 DEF There
  <2>8. q <= x
    BY <2>4, <2>7
  <2>9. y \in 1..q - 1 /\ y < x
    BY <2>3, <2>6, <2>8
  <2>10. events[b].within[y] = events[b].within[x]
    BY <2>3, <2>4, <2>5, <2>9
  <2>11. b \in 1..Len(events) /\ y \in 1..Len(events[b].within)
    BY <1>1, <2>1, <2>6, <2>8, <2>9, LenProperties
  <2>12. events[b].within[y] < events[b].within[x]
    BY <2>6, <2>9, <2>11 DEF Related, Rising
  <2>13. events[b].within[x] \in Nat
    <3>1. events[b] \in Spans
      BY <1>1, <2>1, LenProperties
    <3> QED BY <2>6, <3>1, EventIs
  <2> QED BY <2>10, <2>12, <2>13
<1>3. j \in DOMAIN events /\ k \in DOMAIN events
  BY DEF CalledIn
<1>4. PICK a \in Spans, b \in Spans : a = events[j] /\ b = events[k]
  BY <1>1, <1>3, LenProperties
<1>5. a # b
  BY <1>3, <1>4 DEF SpansDiffer
<1>6. \A c, d : Encloses(c, d) => Names(d, c)
  BY DEF Encloses, Names
<1>7. a.end <= b.start \/ b.end <= a.start
  <2>1. Kin(a, b)
    BY <1>1, <1>3, <1>4, LenProperties DEF Related
  <2>2. ~Names(a, b) /\ ~Names(b, a)
    BY <1>2, <1>4
  <2> QED BY <1>5, <1>6, <2>1, <2>2 DEF Kin
<1>8. ASSUME NEW t, t \in Moments(a), t \in Moments(b) PROVE FALSE
  <2>1. t \in Int /\ a.start <= t /\ t < a.end /\ b.start <= t /\ t < b.end
    BY <1>8, MomentsAre
  <2>2. a.start \in Int /\ a.end \in Int /\ b.start \in Int /\ b.end \in Int
    BY SpanIs
  <2> QED BY <1>7, <2>1, <2>2
<1> QED BY <1>4, <1>8
\* Whatever a call encloses ran within calls made in it that are in the window.
LEMMA EnclosedCovered ==
  ASSUME NEW events, Related(events), NEW i \in DOMAIN events, NEW j \in DOMAIN events,
         Names(events[j], events[i])
  PROVE  Moments(events[j]) \subseteq MomentsOf(events, CalledIn(events, i))
<1>1. events \in Seq(Spans)
  BY DEF Related
<1>2. PICK e \in Spans : e = events[j]
  BY <1>1, LenProperties
<1>3. PICK n \in Nat : n = Len(e.within) /\ DOMAIN e.within = 1..n
  BY EventIs, LenProperties
<1>4. PICK q \in 1..n : e.within[q] = events[i].id
  BY <1>2, <1>3 DEF Names
<1>5. q \in There(events, j) /\ There(events, j) \subseteq 1..n
  BY <1>1, <1>2, <1>3, <1>4 DEF There
<1>6. PICK T : T = {m \in There(events, j) : m > q}
  OBVIOUS
<1>7. CASE T = {}
  <2>1. \A m \in There(events, j) : m <= q
    BY <1>5, <1>6, <1>7
  <2>2. j \in CalledIn(events, i)
    BY <1>1, <1>2, <1>4, <1>5, <2>1, CalledInIs
  <2> QED BY <2>2 DEF MomentsOf
<1>8. CASE T # {}
  <2>1. T \in SUBSET Nat
    BY <1>5, <1>6
  <2>2. PICK r \in T : \A m \in T : r <= m
    BY <1>8, <2>1, LeastNumber
  <2>3. r \in There(events, j) /\ r \in 1..n /\ q < r
    BY <1>5, <1>6, <2>2
  <2>4. PICK k \in DOMAIN events : e.within[r] = events[k].id
    BY <1>2, <2>3 DEF There
  <2>5. /\ Len(events[k].within) = r - 1
        /\ \A s \in 1..r - 1 : events[k].within[s] = e.within[s]
        /\ Moments(e) \subseteq Moments(events[k])
    BY <1>2, <1>3, <2>3, <2>4, NamedEncloses
  <2>6. There(events, k) \subseteq 1..r - 1 /\ DOMAIN events[k].within = 1..r - 1
    <3>1. PICK d \in Spans : d = events[k]
      BY <1>1, LenProperties
    <3>2. DOMAIN d.within = 1..Len(d.within)
      BY EventIs, LenProperties
    <3> QED BY <2>5, <3>1, <3>2 DEF There
  <2>7. q \in 1..r - 1
    BY <2>3
  <2>8. q \in There(events, k) /\ events[k].within[q] = events[i].id
    BY <1>4, <2>5, <2>6, <2>7 DEF There
  <2>9. ASSUME NEW m \in There(events, k) PROVE m <= q
    <3>1. m \in 1..r - 1 /\ m \in 1..n
      BY <2>3, <2>6
    <3>2. m \in There(events, j)
      BY <1>2, <1>3, <2>5, <2>9, <3>1 DEF There
    <3>3. m \notin T
      BY <2>2, <2>3, <3>1
    <3> QED BY <1>6, <3>1, <3>2, <3>3
  <2>10. k \in CalledIn(events, i)
    BY <1>1, <2>8, <2>9, CalledInIs
  <2> QED BY <1>2, <2>5, <2>10 DEF MomentsOf
<1> QED BY <1>7, <1>8

\* The moments of a call at which none made in it ran.
OwnLone(events, i) == Moments(events[i]) \ MomentsOf(events, CalledIn(events, i))

LEMMA OwnTimeIs ==
  ASSUME NEW events, Related(events), SpansDiffer(events), NEW i \in DOMAIN events
  PROVE  IsFiniteSet(OwnLone(events, i)) /\ OwnTime(events, i) = Cardinality(OwnLone(events, i))
<1>1. events \in Seq(Spans)
  BY DEF Related
<1>2. PICK K \in SUBSET (DOMAIN events) : K = CalledIn(events, i)
  BY DEF CalledIn
<1>3. PICK M, A : M = Moments(events[i]) /\ A = MomentsOf(events, K)
  OBVIOUS
<1>4. \A j, k \in K : j # k => Moments(events[j]) \cap Moments(events[k]) = {}
  BY <1>2, CalledInApart
<1>5. IsFiniteSet(A) /\ TimeOf(events, K) = Cardinality(A)
  BY <1>1, <1>3, <1>4, TimeApart
<1>6. IsFiniteSet(M) /\ Duration(events[i]) = Cardinality(M)
  <2>1. events[i] \in Spans
    BY <1>1, LenProperties
  <2> QED BY <1>3, <2>1, MomentsCount
<1>7. A \subseteq M
  <2>1. ASSUME NEW j \in K PROVE Moments(events[j]) \subseteq M
    <3>1. PICK k \in There(events, j) : events[j].within[k] = events[i].id
      BY <1>1, <1>2, CalledInIs
    <3>2. k \in 1..Len(events[j].within)
      BY <1>1, CalledInIs
    <3> QED BY <1>3, <3>1, <3>2, NamedEncloses
  <2> QED BY <1>3, <2>1 DEF MomentsOf
<1>8. IsFiniteSet(M \ A) /\ Cardinality(M \ A) = Cardinality(M) - Cardinality(A)
  <2>1. IsFiniteSet(M \ A) /\ Cardinality(M \ A) = Cardinality(M) - Cardinality(M \cap A)
    BY <1>6, FS_Difference
  <2>2. M \cap A = A
    BY <1>7
  <2> QED BY <2>1, <2>2
<1>9. OwnTime(events, i) = Duration(events[i]) - TimeOf(events, K)
  BY <1>2 DEF OwnTime
<1> QED BY <1>2, <1>3, <1>5, <1>6, <1>8, <1>9 DEF OwnLone

LEMMA OrderedDiffer ==
  ASSUME NEW events, Related(events), SpansDiffer(events), NEW o, o = Ordered(events)
  PROVE  SpansDiffer(o)
<1>1. PICK n \in Nat : n = Len(events) /\ DOMAIN events = 1..n
  BY LenProperties DEF Related
<1>2. events \in Seq(Spans) /\ Timed(events)
  BY SpansTimed DEF Related
<1>3. TotalOrder(BySpan(events), n)
  BY <1>1, <1>2, BySpanOrders
<1>4. PICK p : Places(events, BySpan(events), p)
  BY <1>1, <1>2, <1>3, SortedHas
<1>5. /\ o = [i \in 1..n |-> events[p[i]]] /\ p \in [1..n -> 1..n]
      /\ \A k \in 1..n : \E i \in 1..n : p[i] = k
  BY <1>1, <1>4 DEF Places, Ordered
<1>6. ASSUME NEW i \in 1..n, NEW j \in 1..n, i # j PROVE p[i] # p[j]
  <2> SUFFICES ASSUME p[i] = p[j] PROVE FALSE
    OBVIOUS
  <2>1. PICK N, S : N = 1..n /\ S = N \ {j}
    OBVIOUS
  <2>2. IsFiniteSet(N) /\ Cardinality(N) = n
    <3>1. IsFiniteSet(1..n) /\ Cardinality(1..n) = IF 1 > n THEN 0 ELSE n - 1 + 1
      BY FS_Interval
    <3> QED BY <2>1, <3>1
  <2>3. IsFiniteSet(S) /\ Cardinality(S) = n - 1
    BY <2>1, <2>2, FS_RemoveElement
  <2>4. \A k \in N : \E m \in S : p[m] = k
    BY <1>5, <1>6, <2>1
  <2>5. Cardinality(N) <= Cardinality(S)
    BY <2>3, <2>4, AtMost
  <2> QED BY <2>2, <2>3, <2>5
<1>7. ASSUME NEW i \in 1..n, NEW j \in 1..n, i # j
      PROVE  <<o[i].start, o[i].end>> # <<o[j].start, o[j].end>>
  <2>1. p[i] \in DOMAIN events /\ p[j] \in DOMAIN events /\ p[i] # p[j]
    BY <1>1, <1>5, <1>6, <1>7
  <2> QED BY <1>5, <2>1 DEF SpansDiffer
<1>8. DOMAIN o = 1..n
  BY <1>5
<1> QED BY <1>7, <1>8 DEF SpansDiffer

\* Of two events at the same moment, with different spans, the one that encloses the other is first.
LEMMA EnclosingFirst ==
  ASSUME NEW o, Nested(o), SpansDiffer(o), NEW a \in 1..Len(o), NEW b \in 1..Len(o),
         o[a].start <= o[b].start, o[b].end <= o[a].end, NEW t \in Moments(o[b]), a # b
  PROVE  a < b
<1>1. DOMAIN o = 1..Len(o) /\ Len(o) \in Nat /\ o \in Seq(Spans)
  BY LenProperties DEF Nested
<1>2. PICK d \in Spans, e \in Spans : d = o[a] /\ e = o[b]
  BY <1>1, LenProperties
<1>3. d.start \in Int /\ d.end \in Int /\ e.start \in Int /\ e.end \in Int
  BY SpanIs
<1>4. t \in Int /\ e.start <= t /\ t < e.end
  BY <1>2, MomentsAre
<1>5. ASSUME b < a PROVE FALSE
  <2>1. e.start <= d.start
    BY <1>1, <1>2, <1>5 DEF Nested
  <2>2. e.end <= d.start \/ d.end <= e.end
    BY <1>2, <1>5 DEF Nested
  <2>3. e.start = d.start /\ e.end = d.end
    BY <1>2, <1>3, <1>4, <2>1, <2>2
  <2> QED BY <1>1, <1>2, <2>3 DEF SpansDiffer
<1> QED BY <1>1, <1>5
\* Without equal spans the order of the events tells which call was made in which.
LEMMA LoneIsOwn ==
  ASSUME NEW events, Related(events), SpansDiffer(events), NEW o, o = Ordered(events),
         NEW a \in 1..Len(o), NEW k \in DOMAIN events, o[a] = events[k]
  PROVE  Lone(o, a) = OwnLone(events, k)
<1>1. Nested(o) /\ SpansDiffer(o)
  BY OrderedNests, OrderedDiffer
<1>2. DOMAIN o = 1..Len(o) /\ DOMAIN o = DOMAIN events /\ events \in Seq(Spans)
  BY OrderedHas DEF Related
<1>3. PICK e \in Spans : e = events[k]
  BY <1>2, LenProperties
<1>4. e.start \in Int /\ e.end \in Int
  BY SpanIs
<1>5. ASSUME NEW t \in Moments(e), NEW j \in CalledIn(events, k), t \in Moments(events[j])
      PROVE  t \in MomentsOf(o, Kids(o, a))
  <2>1. j \in DOMAIN events
    BY DEF CalledIn
  <2>2. PICK q \in There(events, j) : events[j].within[q] = e.id
    BY <1>2, <1>3, <2>1, CalledInIs
  <2>3. q \in 1..Len(events[j].within)
    BY <1>2, <2>1, CalledInIs
  <2>4. Len(events[k].within) = q - 1 /\ e.start <= events[j].start /\ events[j].end <= e.end
    BY <1>3, <2>1, <2>2, <2>3, NamedEncloses
  <2>5. j # k
    <3> SUFFICES ASSUME j = k PROVE FALSE
      OBVIOUS
    <3>1. q \in 1..q - 1
      BY <2>3, <2>4
    <3> QED BY <3>1
  <2>6. PICK b \in DOMAIN events : o[b] = events[j]
    BY <2>1, OrderedHas
  <2>7. a # b
    BY <2>1, <2>5, <2>6 DEF SpansDiffer
  <2>8. b \in 1..Len(o) /\ o[a].start <= o[b].start /\ o[b].end <= o[a].end /\ t \in Moments(o[b])
    BY <1>2, <1>3, <1>5, <2>4, <2>6
  <2>9. a < b
    BY <1>1, <2>7, <2>8, EnclosingFirst
  <2>10. t \in Moments(o[a])
    BY <1>3
  <2> QED BY <1>1, <2>8, <2>9, <2>10, SharedWithKid
<1>6. ASSUME NEW t \in Moments(e), NEW b \in Kids(o, a), t \in Moments(o[b])
      PROVE  t \in MomentsOf(events, CalledIn(events, k))
  <2>1. b \in 1..Len(o) /\ a < b
    BY <1>1, KidsInside
  <2>2. b \in DOMAIN events
    BY <1>2, <2>1
  <2>3. PICK j \in DOMAIN events : o[b] = events[j]
    BY <2>2, OrderedHas
  <2>4. PICK d \in Spans : d = events[j]
    BY <1>2, LenProperties
  <2>5. d # e
    BY <1>1, <1>2, <1>3, <2>1, <2>3, <2>4 DEF SpansDiffer
  <2>6. Kin(e, d)
    BY <1>2, <1>3, <2>4, LenProperties DEF Related
  <2>7. d.start \in Int /\ d.end \in Int
    BY SpanIs
  <2>8. t \in Int /\ e.start <= t /\ t < e.end /\ d.start <= t /\ t < d.end
    BY <1>6, <2>3, <2>4, MomentsAre
  <2>9. ~(e.end <= d.start) /\ ~(d.end <= e.start)
    BY <1>4, <2>7, <2>8
  <2>10. ~Encloses(d, e)
    <3> SUFFICES ASSUME Encloses(d, e) PROVE FALSE
      OBVIOUS
    <3>1. d.start <= e.start /\ e.end <= d.end
      BY DEF Encloses
    <3>2. b < a
      BY <1>1, <1>3, <2>1, <2>3, <2>4, <3>1, EnclosingFirst
    <3> QED BY <1>2, <2>1, <3>2, LenProperties DEF Nested
  <2>11. Encloses(e, d)
    BY <2>5, <2>6, <2>9, <2>10 DEF Kin
  <2>12. Names(d, e)
    BY <2>11 DEF Encloses, Names
  <2>13. Moments(d) \subseteq MomentsOf(events, CalledIn(events, k))
    BY <1>3, <2>4, <2>12, EnclosedCovered
  <2> QED BY <1>6, <2>3, <2>4, <2>13
<1>7. ASSUME NEW t \in Moments(e)
      PROVE  t \in MomentsOf(o, Kids(o, a)) <=> t \in MomentsOf(events, CalledIn(events, k))
  <2>1. ASSUME t \in MomentsOf(o, Kids(o, a)) PROVE t \in MomentsOf(events, CalledIn(events, k))
    <3>1. PICK b \in Kids(o, a) : t \in Moments(o[b])
      BY <2>1 DEF MomentsOf
    <3> QED BY <1>6, <3>1
  <2>2. ASSUME t \in MomentsOf(events, CalledIn(events, k)) PROVE t \in MomentsOf(o, Kids(o, a))
    <3>1. PICK j \in CalledIn(events, k) : t \in Moments(events[j])
      BY <2>2 DEF MomentsOf
    <3> QED BY <1>5, <3>1
  <2> QED BY <2>1, <2>2
<1>8. Lone(o, a) = Moments(e) \ MomentsOf(o, Kids(o, a))
  BY <1>3 DEF Lone
<1>9. OwnLone(events, k) = Moments(e) \ MomentsOf(events, CalledIn(events, k))
  BY <1>3 DEF OwnLone
<1> QED BY <1>7, <1>8, <1>9

LEMMA SelfTimeIsOwn ==
  ASSUME NEW events, Related(events), SpansDiffer(events), NEW f
  PROVE  SelfTime(events, f) = SumFunctionOnSet([i \in DOMAIN events |-> OwnTime(events, i)], Of(events, f))
<1>1. PICK o : o = Ordered(events)
  OBVIOUS
<1>2. PICK S \in SUBSET (DOMAIN events) : S = Of(events, f)
  BY DEF Of
<1>3. PICK v : v = [i \in DOMAIN events |-> OwnTime(events, i)]
  OBVIOUS
<1>4. PICK D : D = [i \in S |-> OwnLone(events, i)]
  OBVIOUS
<1>5. \A i \in S : IsFiniteSet(D[i]) /\ v[i] = Cardinality(D[i])
  BY <1>3, <1>4, OwnTimeIs
<1>6. DOMAIN o = 1..Len(o) /\ DOMAIN o = DOMAIN events /\ Nested(o)
  BY <1>1, OrderedHas, OrderedNests
<1>7. \A k \in DOMAIN events : \E a \in 1..Len(o) : o[a] = events[k] /\ Lone(o, a) = OwnLone(events, k)
  <2> SUFFICES ASSUME NEW k \in DOMAIN events
               PROVE  \E a \in 1..Len(o) : o[a] = events[k] /\ Lone(o, a) = OwnLone(events, k)
    OBVIOUS
  <2>1. PICK a \in DOMAIN events : o[a] = events[k]
    BY <1>1, OrderedHas
  <2>2. a \in 1..Len(o)
    BY <1>6
  <2>3. Lone(o, a) = OwnLone(events, k)
    BY <1>1, <2>1, <2>2, LoneIsOwn
  <2> QED BY <2>1, <2>2, <2>3
<1>8. ASSUME NEW i \in S, NEW j \in S, i # j PROVE D[i] \cap D[j] = {}
  <2>1. PICK a \in 1..Len(o) : o[a] = events[i] /\ Lone(o, a) = D[i]
    BY <1>4, <1>7
  <2>2. PICK b \in 1..Len(o) : o[b] = events[j] /\ Lone(o, b) = D[j]
    BY <1>4, <1>7
  <2>3. a # b
    BY <1>8, <2>1, <2>2 DEF SpansDiffer
  <2> QED BY <1>6, <2>1, <2>2, <2>3, LoneApart
<1>9. IsFiniteSet(S)
  BY <1>2, PlacesFinite DEF Related
<1>10. SizesAddUp(v, D, S)
  BY <1>5, <1>8, <1>9, SumCounts
<1>11. UNION {D[i] : i \in S} = LoneOf(o, Of(o, f))
  <2>1. ASSUME NEW i \in S, NEW t \in D[i] PROVE t \in LoneOf(o, Of(o, f))
    <3>1. PICK a \in 1..Len(o) : o[a] = events[i] /\ Lone(o, a) = D[i]
      BY <1>4, <1>7
    <3>2. a \in Of(o, f)
      BY <1>2, <1>6, <3>1 DEF Of
    <3> QED BY <2>1, <3>1, <3>2 DEF LoneOf
  <2>2. ASSUME NEW t \in LoneOf(o, Of(o, f)) PROVE \E i \in S : t \in D[i]
    <3>1. PICK a \in Of(o, f) : t \in Lone(o, a)
      BY DEF LoneOf
    <3>2. a \in DOMAIN events /\ a \in 1..Len(o) /\ o[a].function = f
      BY <1>6 DEF Of
    <3>3. PICK i \in DOMAIN events : o[a] = events[i]
      BY <1>1, <3>2, OrderedHas
    <3>4. Lone(o, a) = OwnLone(events, i)
      BY <1>1, <3>2, <3>3, LoneIsOwn
    <3>5. i \in S
      BY <1>2, <3>2, <3>3 DEF Of
    <3> QED BY <1>4, <3>1, <3>4, <3>5
  <2> QED BY <2>1, <2>2
<1>12. SelfTime(events, f) = Cardinality(LoneOf(o, Of(o, f)))
  BY <1>1, SelfTimeIs
<1> QED BY <1>2, <1>3, <1>10, <1>11, <1>12 DEF SizesAddUp

TimesInv == DataInv /\ NestInv /\ StatsInv

LEMMA TimesInvHolds == DataSpec => []TimesInv
<1>1. DataInit => TimesInv
  BY DataStarts, NestStarts, StatsStart DEF TimesInv
<1>2. DataInv /\ [DataNext]_dataVars => DataInv'
  BY CallsStep, EventsStep, FreshStep DEF DataInv
<1>3. TimesInv /\ [DataNext]_dataVars => TimesInv'
  BY <1>2, NestStep, StatsStep DEF TimesInv
<1> QED BY <1>1, <1>3, PTL DEF DataSpec

LEMMA TimesHold == TimesInv => TimesAddUp
<1> SUFFICES ASSUME TimesInv, ~foreign, ~refreshPending, ~stale
             PROVE  /\ SelfWithinTotal /\ wall = Cardinality(Covered(rawEvents))
                    /\ SpansDiffer(rawEvents) => SelfIsOwn
  BY DEF TimesAddUp
<1>1. SelfWithinTotal /\ wall = Cardinality(Covered(rawEvents))
  BY SumsHold DEF TimesInv
<1>2. Related(rawEvents)
  BY WindowRelated DEF TimesInv
<1>3. ASSUME SpansDiffer(rawEvents) PROVE SelfIsOwn
  <2>1. \A f \in DOMAIN stats : stats[f].self = SelfTime(rawEvents, f)
    BY DEF TimesInv, StatsInv
  <2> QED BY <1>2, <1>3, <2>1, SelfTimeIsOwn DEF SelfIsOwn
<1> QED BY <1>1, <1>3

\* Hazard: profiler_view.py:1701. A window that starts amid a call, calls with the same start and a
\* recording added to a loaded file could take a call's time off the wrong one, or off none: self
\* times are within totals, together the time in which any call ran, and exact unless calls share
\* their span, for any window, number of calls, depth and duration.
THEOREM AlwaysAddUp == DataSpec => []TimesAddUp
BY TimesInvHolds, TimesHold, PTL

==============================================================================
