--------------------------- MODULE SessionProofs ---------------------------
(***************************************************************************)
(* Proofs about Session: for every set of connections and every capacity,  *)
(* the connection table is truthful, a player who is gone is offline, and  *)
(* one who was told "queued" is in the queue.  The last two need what the  *)
(* clean-up has still to do.                                               *)
(***************************************************************************)
EXTENDS Session, SequenceTheorems, TLAPS

\* What the room will believe once it has handled the commands in q.
WillBeOnline(q, on) ==
    \/ \E i \in DOMAIN q : q[i] = "join" /\ \A j \in DOMAIN q : j > i => q[j] # "leave"
    \/ on /\ \A i \in DOMAIN q : q[i] # "leave"

\* Where a connection still has its leave to send.
Serving == {"reading", "removing", "unqueueing", "leaving"}

\* Only a connection that is served, or was, has joined a room, and it knows.
EnteredKnow ==
    \A c \in entered : roomId[c] /\ handler[c] \in Serving \cup {"closing", "done"}

\* As long as the room believes in the player, or will, some connection that has
\* joined has yet to send the leave; or a leave was lost.
LeaveWillCome ==
    roomOpen /\ WillBeOnline(inbox, online) /\ slips \cap {"dropped", "replaced"} = {}
        => \E c \in entered : handler[c] \in Serving

\* Only for the player's current connection does "queued" stand.
ToldIsCurrent == told => conns # NoConn

SessionIInv ==
    /\ SessionInv
    /\ EnteredKnow /\ LeaveWillCome
    /\ ToldIsCurrent /\ StaysQueued

-----------------------------------------------------------------------------
(***************************************************************************)
(* The channel of a connection, and the inbox.                             *)
(***************************************************************************)
LEMMA SendKeeps ==
    ASSUME TypeOK, NEW c \in Conn, Send(c)
    PROVE  /\ buffered' \in [Conn -> 0 .. SendCap] /\ quit' \in [Conn -> BOOLEAN]
           /\ \A d \in Conn : quit[d] => quit'[d]
<1>1. SendCap \in Nat /\ buffered[c] \in 0 .. SendCap
  BY SessionConstants DEF TypeOK
<1>2. CASE buffered[c] < SendCap /\ buffered' = [buffered EXCEPT ![c] = @ + 1] /\ quit' = quit
  BY <1>1, <1>2 DEF TypeOK
<1>3. CASE buffered' = buffered /\ quit' = quit
  BY <1>3 DEF TypeOK
<1>4. CASE buffered' = buffered /\ quit' = [quit EXCEPT ![c] = TRUE]
  BY <1>4 DEF TypeOK
<1> QED
  BY <1>2, <1>3, <1>4 DEF Send, channel

LEMMA EnqueuedKeeps ==
    ASSUME TypeOK, NEW cmd \in {"join", "move", "leave"}, Enqueued(cmd)
    PROVE  inbox' \in Seq({"join", "move", "leave"}) /\ Len(inbox') <= InboxCap
<1>1. InboxCap \in Nat /\ Len(inbox) \in Nat
  BY SessionConstants DEF TypeOK
<1> QED
  BY <1>1 DEF Enqueued, TypeOK

-----------------------------------------------------------------------------
(***************************************************************************)
(* Types.                                                                  *)
(***************************************************************************)
LEMMA HandlerTypes ==
    ASSUME TypeOK, NEW c \in Conn, Connect(c) \/ Handler(c)
    PROVE  TypeOK'
<1> USE DEF TypeOK, local, channel, room, queue, Goto, At
<1>1. CASE Connect(c)
  BY <1>1 DEF Connect
<1>2. CASE CloseOld(c)
  BY <1>2 DEF CloseOld
<1>3. CASE Welcome(c)
  BY <1>3, SendKeeps DEF Welcome
<1>4. CASE ReadError(c)
  BY <1>4 DEF ReadError
<1>5. CASE removeConn(c)
  BY <1>5 DEF removeConn
<1>6. CASE LeaveQueue(c)
  BY <1>6 DEF LeaveQueue, Slip
<1>7. CASE SendLeave(c)
  <2>1. inbox' \in Seq({"join", "move", "leave"}) /\ Len(inbox') <= InboxCap
    BY <1>7, EnqueuedKeeps DEF SendLeave
  <2> QED
    BY <1>7, <2>1 DEF SendLeave, Slip
<1>8. CASE CloseSelf(c)
  BY <1>8 DEF CloseSelf
<1> QED
  BY <1>1, <1>2, <1>3, <1>4, <1>5, <1>6, <1>7, <1>8 DEF Handler

LEMMA ReadTypes ==
    ASSUME TypeOK, NEW c \in Conn,
           \/ ReadReplied(c) \/ ReadEnqueue(c) \/ ReadDequeue(c)
           \/ \E type \in {"join", "move"} : ReadForRoom(c, type)
    PROVE  TypeOK'
<1> USE DEF TypeOK, local, channel, room, queue
<1>1. CASE ReadReplied(c)
  BY <1>1, SendKeeps DEF ReadReplied
<1>2. CASE ReadEnqueue(c)
  BY <1>2, SendKeeps DEF ReadEnqueue
<1>3. CASE ReadDequeue(c)
  BY <1>3, SendKeeps DEF ReadDequeue
<1>4. ASSUME NEW type \in {"join", "move"}, ReadForRoom(c, type)
      PROVE  TypeOK'
  <2>1. inbox' \in Seq({"join", "move", "leave"}) /\ Len(inbox') <= InboxCap
    BY <1>4, EnqueuedKeeps DEF ReadForRoom
  <2>2. buffered' \in [Conn -> 0 .. SendCap] /\ quit' \in [Conn -> BOOLEAN]
    BY <1>4, SendKeeps DEF ReadForRoom
  <2> QED
    BY <1>4, <2>1, <2>2 DEF ReadForRoom
<1> QED
  BY <1>1, <1>2, <1>3, <1>4

LEMMA OtherTypes ==
    ASSUME TypeOK,
           \/ \E c \in Conn : Disconnect(c) \/ Writer(c)
           \/ RoomHandles \/ RoomEnds \/ Paired \/ SendToLooksUp \/ SendToSends
    PROVE  TypeOK'
<1> USE DEF TypeOK, local, channel, room, queue
<1>1. ASSUME NEW c \in Conn, Disconnect(c) \/ PingFails(c) \/ WriterQuits(c)
      PROVE  TypeOK'
  BY <1>1 DEF Disconnect, PingFails, WriterQuits, WriterEnds
<1>2. ASSUME NEW c \in Conn, Write(c)
      PROVE  TypeOK'
  <2>1. buffered' \in [Conn -> 0 .. SendCap]
    BY <1>2, SessionConstants DEF Write
  <2> QED
    BY <1>2, <2>1 DEF Write, WriterEnds
<1>3. CASE RoomHandles
  <2>1. /\ inbox' \in Seq({"join", "move", "leave"}) /\ Len(inbox') = Len(inbox) - 1
        /\ Len(inbox) \in Nat /\ InboxCap \in Nat
    BY <1>3, SessionConstants DEF RoomHandles
  <2>2. Len(inbox') <= InboxCap
    BY <2>1
  <2>3. online' \in BOOLEAN
    BY <1>3 DEF RoomHandles
  <2> QED
    BY <1>3, <2>1, <2>2, <2>3 DEF RoomHandles
<1>4. CASE RoomEnds
  <2>1. <<>> \in Seq({"join", "move", "leave"}) /\ Len(<<>>) = 0 /\ 0 <= InboxCap
    BY SessionConstants
  <2> QED
    BY <1>4, <2>1 DEF RoomEnds
<1>5. CASE Paired
  BY <1>5 DEF Paired
<1>6. CASE SendToLooksUp
  BY <1>6 DEF SendToLooksUp
<1>7. CASE SendToSends
  <2>1. out \in Conn
    BY <1>7 DEF SendToSends
  <2> QED
    BY <1>7, <2>1, SendKeeps DEF SendToSends
<1> QED
  BY <1>1, <1>2, <1>3, <1>4, <1>5, <1>6, <1>7 DEF Writer

LEMMA TypesStep == TypeOK /\ Next => TypeOK'
  BY HandlerTypes, ReadTypes, OtherTypes DEF Next

-----------------------------------------------------------------------------
(***************************************************************************)
(* addConn and removeConn.                                                 *)
(***************************************************************************)
\* A step that leaves the table and the handlers alone, and reopens nothing.
LEMMA SameTable ==
    ASSUME TableTruthful, UNCHANGED <<conns, handler, old>>,
           \A d \in Conn : quit[d] => quit'[d]
    PROVE  TableTruthful'
  BY DEF TableTruthful, At

LEMMA TableStep == SessionInv /\ Next => TableTruthful'
<1> SUFFICES ASSUME TypeOK, TableTruthful, Next
             PROVE  TableTruthful'
  BY DEF SessionInv
<1> USE DEF local, channel, room, queue
<1>1. ASSUME NEW c \in Conn, Connect(c)
      PROVE  TableTruthful'
  <2>1. /\ handler[c] = "none" /\ handler' = [handler EXCEPT ![c] = "adding"]
        /\ old' = [old EXCEPT ![c] = conns] /\ conns' = c /\ quit' = quit
    BY <1>1 DEF Connect, At, Goto
  <2>2. handler'[c] = "adding" /\ old'[c] = conns
    BY <2>1 DEF TypeOK
  <2>3. \A d \in Conn \ {c} : handler'[d] = handler[d] /\ old'[d] = old[d]
    BY <2>1 DEF TypeOK
  <2> QED
    BY <2>1, <2>2, <2>3 DEF TableTruthful, At
<1>2. ASSUME NEW c \in Conn, CloseOld(c)
      PROVE  TableTruthful'
  <2>1. /\ handler[c] = "adding" /\ handler' = [handler EXCEPT ![c] = "welcome"]
        /\ old' = [old EXCEPT ![c] = NoConn] /\ conns' = conns
        /\ quit' = [d \in Conn |-> quit[d] \/ d = old[c]]
    BY <1>2 DEF CloseOld, At, Goto
  <2>2. handler'[c] = "welcome"
    BY <2>1 DEF TypeOK
  <2>3. \A d \in Conn \ {c} : handler'[d] = handler[d] /\ old'[d] = old[d]
    BY <2>1 DEF TypeOK
  <2>4. ASSUME NEW e \in Conn
        PROVE  conns' = e => handler'[e] \in {"adding", "welcome", "reading", "removing"}
    BY <2>1, <2>2, <2>3 DEF TableTruthful
  <2>5. ASSUME NEW e \in Conn, handler'[e] \in {"adding", "welcome", "reading"}, conns' # e
        PROVE  quit'[e] \/ \E d \in Conn : handler'[d] = "adding" /\ old'[d] = e
    <3>1. quit[e] \/ \E d \in Conn : handler[d] = "adding" /\ old[d] = e
      BY <2>1, <2>2, <2>3, <2>5 DEF TableTruthful, At
    <3>2. CASE quit[e] \/ old[c] = e
      BY <2>1, <3>2
    <3>3. CASE \E d \in Conn \ {c} : handler[d] = "adding" /\ old[d] = e
      BY <2>3, <3>3
    <3> QED
      BY <3>1, <3>2, <3>3
  <2> QED
    BY <2>4, <2>5 DEF TableTruthful, At
<1>3. ASSUME NEW c \in Conn, Welcome(c)
      PROVE  TableTruthful'
  <2>1. /\ handler[c] = "welcome" /\ handler' = [handler EXCEPT ![c] = "reading"]
        /\ old' = old /\ conns' = conns
    BY <1>3 DEF Welcome, At, Goto
  <2>2. handler'[c] = "reading" /\ \A d \in Conn \ {c} : handler'[d] = handler[d]
    BY <2>1 DEF TypeOK
  <2>3. \A d \in Conn : quit[d] => quit'[d]
    BY <1>3, SendKeeps DEF Welcome
  <2> QED
    BY <2>1, <2>2, <2>3 DEF TableTruthful, At
<1>4. ASSUME NEW c \in Conn, ReadError(c)
      PROVE  TableTruthful'
  <2>1. /\ handler[c] = "reading" /\ handler' = [handler EXCEPT ![c] = "removing"]
        /\ old' = old /\ conns' = conns /\ quit' = quit
    BY <1>4 DEF ReadError, At, Goto
  <2>2. handler'[c] = "removing" /\ \A d \in Conn \ {c} : handler'[d] = handler[d]
    BY <2>1 DEF TypeOK
  <2> QED
    BY <2>1, <2>2 DEF TableTruthful, At
<1>5. ASSUME NEW c \in Conn, removeConn(c)
      PROVE  TableTruthful'
  <2>1. /\ handler[c] = "removing" /\ handler'[c] \in {"unqueueing", "closing"}
        /\ conns' = (IF conns = c THEN NoConn ELSE conns)
        /\ old' = old /\ quit' = quit
    BY <1>5 DEF removeConn, At, Goto, TypeOK
  <2>2. \A d \in Conn \ {c} : handler'[d] = handler[d]
    BY <1>5 DEF removeConn, Goto, TypeOK
  <2> QED
    BY <2>1, <2>2, SessionConstants DEF TableTruthful, At
<1>6. ASSUME NEW c \in Conn, LeaveQueue(c) \/ SendLeave(c) \/ CloseSelf(c)
      PROVE  TableTruthful'
  <2>1. /\ handler[c] \in {"unqueueing", "leaving", "closing"}
        /\ handler'[c] \in {"leaving", "closing", "done"}
        /\ \A d \in Conn \ {c} : handler'[d] = handler[d]
        /\ UNCHANGED <<conns, old>>
    BY <1>6 DEF LeaveQueue, SendLeave, CloseSelf, At, Goto, TypeOK
  <2>2. \A d \in Conn : quit[d] => quit'[d]
    BY <1>6 DEF LeaveQueue, SendLeave, CloseSelf, TypeOK
  <2> QED
    BY <2>1, <2>2 DEF TableTruthful, At
<1>7. ASSUME NEW c \in Conn,
             \/ ReadReplied(c) \/ ReadEnqueue(c) \/ ReadDequeue(c)
             \/ \E type \in {"join", "move"} : ReadForRoom(c, type)
      PROVE  TableTruthful'
  <2>1. UNCHANGED <<conns, handler, old>>
    BY <1>7 DEF ReadReplied, ReadEnqueue, ReadDequeue, ReadForRoom
  <2>2. \A d \in Conn : quit[d] => quit'[d]
    BY <1>7, SendKeeps DEF ReadReplied, ReadEnqueue, ReadDequeue, ReadForRoom
  <2> QED
    BY <2>1, <2>2, SameTable
<1>8. CASE SendToSends
  <2>1. UNCHANGED <<conns, handler, old>> /\ out \in Conn /\ Send(out)
    BY <1>8 DEF SendToSends, TypeOK
  <2> QED
    BY <2>1, SendKeeps, SameTable
<1>9. CASE \/ \E c \in Conn : Disconnect(c) \/ Writer(c)
           \/ RoomHandles \/ RoomEnds \/ Paired \/ SendToLooksUp
  <2>1. UNCHANGED <<conns, handler, old, quit>>
    BY <1>9 DEF Disconnect, Writer, Write, PingFails, WriterQuits, RoomHandles,
                RoomEnds, Paired, SendToLooksUp
  <2> QED
    BY <2>1, SameTable
<1> QED
  BY <1>1, <1>2, <1>3, <1>4, <1>5, <1>6, <1>7, <1>8, <1>9 DEF Next, Handler

-----------------------------------------------------------------------------
(***************************************************************************)
(* The queue.                                                              *)
(***************************************************************************)
LEMMA QueueStep ==
    SessionInv /\ ToldIsCurrent /\ StaysQueued /\ Next => (ToldIsCurrent /\ StaysQueued)'
<1> SUFFICES ASSUME TypeOK, ToldIsCurrent, StaysQueued, Next
             PROVE  (ToldIsCurrent /\ StaysQueued)'
  BY DEF SessionInv
<1> USE DEF ToldIsCurrent, StaysQueued, queue
<1>1. ASSUME NEW c \in Conn, Connect(c) \/ removeConn(c) \/ LeaveQueue(c) \/ SendLeave(c)
      PROVE  (ToldIsCurrent /\ StaysQueued)'
  <2>1. CASE Connect(c)
    BY <1>1, <2>1 DEF Connect
  <2>2. CASE removeConn(c)
    <3>1. /\ queued' = queued /\ slips \subseteq slips'
          /\ conns' = (IF conns = c THEN NoConn ELSE conns)
          /\ told' => told /\ conns # c
      BY <2>2 DEF removeConn
    <3> QED
      BY <3>1
  <2>3. CASE LeaveQueue(c) \/ SendLeave(c)
    <3>1. /\ told' = told /\ conns' = conns /\ slips \subseteq slips'
          /\ queued' = queued \/ (conns # NoConn => "late" \in slips')
      BY <2>3 DEF LeaveQueue, SendLeave, Slip
    <3> QED
      BY <3>1
  <2> QED
    BY <1>1, <2>1, <2>2, <2>3
<1>2. ASSUME NEW c \in Conn, ReadEnqueue(c) \/ ReadDequeue(c)
      PROVE  (ToldIsCurrent /\ StaysQueued)'
  BY <1>2, SessionConstants DEF ReadEnqueue, ReadDequeue, room, TypeOK
<1>3. CASE RoomEnds \/ Paired
  BY <1>3 DEF RoomEnds, Paired, room
<1>4. CASE \/ \E c \in Conn :
                 \/ Disconnect(c) \/ ReadReplied(c) \/ Writer(c)
                 \/ \E type \in {"join", "move"} : ReadForRoom(c, type)
                 \/ CloseOld(c) \/ Welcome(c) \/ ReadError(c) \/ CloseSelf(c)
           \/ RoomHandles \/ SendToLooksUp \/ SendToSends
  <2>1. UNCHANGED <<conns, told, queued, slips>>
    BY <1>4 DEF Disconnect, ReadReplied, Writer, Write, PingFails, WriterQuits, ReadForRoom,
                CloseOld, Welcome, ReadError, CloseSelf, RoomHandles, SendToLooksUp,
                SendToSends, room
  <2> QED
    BY <2>1
<1> QED
  BY <1>1, <1>2, <1>3, <1>4 DEF Next, Handler

-----------------------------------------------------------------------------
(***************************************************************************)
(* The clean-up.                                                           *)
(***************************************************************************)
\* What the room will believe, command by command.
LEMMA EmptyInbox == \A on : WillBeOnline(<<>>, on) <=> on
  BY DEF WillBeOnline

LEMMA LeaveSent ==
    ASSUME NEW q \in Seq({"join", "move", "leave"}), NEW on
    PROVE  ~WillBeOnline(Append(q, "leave"), on)
<1> DEFINE n == Len(q) + 1
<1>1. /\ DOMAIN Append(q, "leave") = 1 .. n /\ Append(q, "leave")[n] = "leave"
      /\ n \in Nat /\ n >= 1 
  OBVIOUS
<1>2. ASSUME NEW i \in 1 .. n, Append(q, "leave")[i] = "join"
      PROVE  n > i
  BY <1>1, <1>2
<1> HIDE DEF n
<1> QED
  BY <1>1, <1>2 DEF WillBeOnline

LEMMA MoveSent ==
    ASSUME NEW q \in Seq({"join", "move", "leave"}), NEW on,
           WillBeOnline(Append(q, "move"), on)
    PROVE  WillBeOnline(q, on)
<1> DEFINE r == Append(q, "move")
<1>1. /\ DOMAIN q = 1 .. Len(q) /\ DOMAIN r = 1 .. Len(q) + 1 /\ Len(q) \in Nat
      /\ r[Len(q) + 1] = "move" /\ \A i \in DOMAIN q : i \in DOMAIN r /\ r[i] = q[i]
  OBVIOUS
<1> HIDE DEF r
<1>2. CASE on /\ \A i \in DOMAIN r : r[i] # "leave"
  BY <1>1, <1>2 DEF WillBeOnline
<1>3. ASSUME NEW i \in DOMAIN r, r[i] = "join", \A j \in DOMAIN r : j > i => r[j] # "leave"
      PROVE  WillBeOnline(q, on)
  <2>1. i \in DOMAIN q /\ q[i] = "join"
    BY <1>1, <1>3
  <2>2. \A j \in DOMAIN q : j > i => q[j] # "leave"
    BY <1>1, <1>3
  <2> QED
    BY <2>1, <2>2 DEF WillBeOnline
<1> QED
  BY <1>2, <1>3 DEF WillBeOnline, r

LEMMA HeadHandled ==
    ASSUME NEW q \in Seq({"join", "move", "leave"}), q # <<>>, NEW on,
           WillBeOnline(Tail(q), CASE Head(q) = "join" -> TRUE
                                   [] Head(q) = "leave" -> FALSE
                                   [] OTHER -> on)
    PROVE  WillBeOnline(q, on)
<1> DEFINE r == Tail(q)
           then == CASE Head(q) = "join" -> TRUE [] Head(q) = "leave" -> FALSE [] OTHER -> on
<1>1. /\ DOMAIN q = 1 .. Len(q) /\ DOMAIN r = 1 .. Len(q) - 1 /\ Len(q) \in Nat /\ Len(q) >= 1
      /\ q[1] = Head(q) /\ \A i \in DOMAIN r : i + 1 \in DOMAIN q /\ r[i] = q[i + 1]
  OBVIOUS
<1>2. \A j \in DOMAIN q : j = 1 \/ (j - 1 \in DOMAIN r /\ q[j] = r[j - 1] /\ j \in Nat)
  <2> TAKE j \in DOMAIN q
  <2>1. CASE j # 1
    <3>1. j - 1 \in DOMAIN r /\ j \in Nat
      BY <1>1, <2>1
    <3>2. r[j - 1] = q[(j - 1) + 1] /\ (j - 1) + 1 = j
      BY <1>1, <3>1
    <3> QED
      BY <3>1, <3>2
  <2> QED
    BY <2>1
<1>3. WillBeOnline(r, then)
  OBVIOUS
<1>4. ASSUME NEW i \in DOMAIN r, r[i] = "join", \A j \in DOMAIN r : j > i => r[j] # "leave"
      PROVE  WillBeOnline(q, on)
  <2> HIDE DEF r, then
  <2>1. i + 1 \in DOMAIN q /\ q[i + 1] = "join" /\ i \in Nat
    BY <1>1, <1>4
  <2>2. ASSUME NEW j \in DOMAIN q, j > i + 1
        PROVE  q[j] # "leave"
    <3>1. j - 1 \in DOMAIN r /\ q[j] = r[j - 1] /\ j - 1 > i
      BY <1>1, <1>2, <2>1, <2>2
    <3> QED
      BY <1>4, <3>1
  <2> QED
    BY <2>1, <2>2 DEF WillBeOnline
<1>5. ASSUME then, \A i \in DOMAIN r : r[i] # "leave"
      PROVE  WillBeOnline(q, on)
  <2>1. \A j \in DOMAIN q : j > 1 => q[j] # "leave"
    <3> HIDE DEF r, then
    <3> QED
      BY <1>1, <1>2, <1>5
  <2>2. CASE q[1] = "join"
    BY <1>1, <2>1, <2>2 DEF WillBeOnline
  <2>3. CASE q[1] # "join"
    <3>1. on /\ q[1] # "leave"
      BY <1>1, <1>5, <2>3
    <3>2. \A j \in DOMAIN q : j = 1 \/ j > 1
      BY <1>1
    <3> QED
      BY <2>1, <3>1, <3>2 DEF WillBeOnline
  <2> QED
    BY <2>2, <2>3
<1> HIDE DEF r, then
<1> QED
  BY <1>3, <1>4, <1>5 DEF WillBeOnline

\* Who has joined has a handler that is past reading only in the clean-up, and
\* knows of the room.
LEMMA EnteredStep == SessionInv /\ EnteredKnow /\ Next => EnteredKnow'
<1> SUFFICES ASSUME TypeOK, EnteredKnow, Next
             PROVE  EnteredKnow'
  BY DEF SessionInv
<1> USE DEF local, room, At, Goto
<1>1. ASSUME NEW c \in Conn, NEW type \in {"join", "move"}, ReadForRoom(c, type)
      PROVE  EnteredKnow'
  BY <1>1 DEF ReadForRoom, Reads, EnteredKnow, Serving, TypeOK
<1>2. ASSUME NEW c \in Conn,
             \/ Connect(c) \/ CloseOld(c) \/ Welcome(c) \/ ReadError(c) \/ removeConn(c)
             \/ LeaveQueue(c) \/ SendLeave(c) \/ CloseSelf(c)
      PROVE  EnteredKnow'
  <2>1. entered' = entered /\ roomId' = roomId
    BY <1>2 DEF Connect, CloseOld, Welcome, ReadError, removeConn, LeaveQueue, SendLeave,
                CloseSelf
  <2>2. /\ \A d \in Conn \ {c} : handler'[d] = handler[d]
        /\ \/ handler[c] \in {"none", "adding", "welcome"}
           \/ handler'[c] \in Serving \cup {"closing", "done"}
    BY <1>2 DEF Connect, CloseOld, Welcome, ReadError, removeConn, LeaveQueue, SendLeave,
                CloseSelf, Serving, TypeOK
  <2> QED
    BY <2>1, <2>2 DEF EnteredKnow, Serving, TypeOK
<1>3. CASE RoomEnds
  BY <1>3 DEF RoomEnds, EnteredKnow
<1>4. CASE \/ \E c \in Conn :
                 \/ Disconnect(c) \/ ReadReplied(c) \/ ReadEnqueue(c) \/ ReadDequeue(c)
                 \/ Writer(c)
           \/ RoomHandles \/ Paired \/ SendToLooksUp \/ SendToSends
  <2>1. UNCHANGED <<entered, roomId, handler>>
    BY <1>4 DEF Disconnect, ReadReplied, ReadEnqueue, ReadDequeue, Writer, Write, PingFails,
                WriterQuits, RoomHandles, Paired, SendToLooksUp, SendToSends
  <2> QED
    BY <2>1 DEF EnteredKnow
<1> QED
  BY <1>1, <1>2, <1>3, <1>4 DEF Next, Handler

\* A step that tells the room nothing, and after which every connection that
\* served still does.
LEMMA SameDuty ==
    ASSUME EnteredKnow, LeaveWillCome, UNCHANGED <<roomOpen, inbox, online, entered>>,
           slips \subseteq slips',
           \A c \in entered : handler[c] \in Serving => handler'[c] \in Serving
    PROVE  LeaveWillCome'
  BY DEF LeaveWillCome

LEMMA LeaveStep == SessionInv /\ EnteredKnow /\ LeaveWillCome /\ Next => LeaveWillCome'
<1> SUFFICES ASSUME TypeOK, EnteredKnow, LeaveWillCome, Next
             PROVE  LeaveWillCome'
  BY DEF SessionInv
<1> USE DEF local, room, At, Goto
<1>1. ASSUME NEW c \in Conn, ReadForRoom(c, "join")
      PROVE  LeaveWillCome'
  <2>1. /\ handler[c] = "reading" /\ handler' = handler
        /\ entered' = entered \cup {c} \/ UNCHANGED <<roomOpen, inbox, online, entered, slips>>
    BY <1>1 DEF ReadForRoom, Reads
  <2>2. CASE entered' = entered \cup {c}
    BY <2>1, <2>2 DEF LeaveWillCome, Serving
  <2>3. CASE UNCHANGED <<roomOpen, inbox, online, entered, slips>>
    BY <2>1, <2>3, SameDuty
  <2> QED
    BY <2>1, <2>2, <2>3
<1>2. ASSUME NEW c \in Conn, ReadForRoom(c, "move")
      PROVE  LeaveWillCome'
  <2>1. /\ UNCHANGED <<handler, roomOpen, online, slips, entered>>
        /\ inbox' = Append(inbox, "move") \/ inbox' = inbox
    BY <1>2 DEF ReadForRoom, Enqueued
  <2>2. WillBeOnline(inbox', online') => WillBeOnline(inbox, online)
    <3> SUFFICES ASSUME WillBeOnline(inbox', online')
                 PROVE  WillBeOnline(inbox, online)
      OBVIOUS
    <3>1. online' = online /\ inbox \in Seq({"join", "move", "leave"})
      BY <2>1 DEF TypeOK
    <3>2. CASE inbox' = Append(inbox, "move")
      <4>1. WillBeOnline(Append(inbox, "move"), online)
        BY <3>1, <3>2
      <4> QED
        BY <3>1, <4>1, MoveSent
    <3>3. CASE inbox' = inbox
      BY <3>1, <3>3
    <3> QED
      BY <2>1, <3>2, <3>3
  <2> QED
    BY <2>1, <2>2 DEF LeaveWillCome
<1>3. ASSUME NEW c \in Conn, SendLeave(c)
      PROVE  LeaveWillCome'
  <2>1. CASE roomId[c] /\ Enqueued("leave")
    <3>1. inbox' = Append(inbox, "leave") /\ inbox \in Seq({"join", "move", "leave"})
      BY <2>1 DEF Enqueued, TypeOK
    <3>2. ~WillBeOnline(inbox', online')
      BY <3>1, LeaveSent
    <3> QED
      BY <3>2 DEF LeaveWillCome
  <2>2. CASE roomId[c] /\ ~Enqueued("leave")
    <3>1. roomOpen' = roomOpen /\ (roomOpen => "dropped" \in slips')
      BY <1>3, <2>2 DEF SendLeave, Slip
    <3> QED
      BY <3>1 DEF LeaveWillCome
  <2>3. CASE ~roomId[c]
    <3>1. UNCHANGED <<roomOpen, inbox, online, entered, slips>> /\ c \notin entered
      BY <1>3, <2>3 DEF SendLeave, EnteredKnow
    <3>2. \A d \in Conn \ {c} : handler'[d] = handler[d]
      BY <1>3 DEF SendLeave, TypeOK
    <3>3. \A d \in entered : d \in Conn \ {c}
      BY <3>1 DEF TypeOK
    <3> QED
      BY <3>1, <3>2, <3>3, SameDuty
  <2> QED
    BY <2>1, <2>2, <2>3
<1>4. ASSUME NEW c \in Conn, removeConn(c)
      PROVE  LeaveWillCome'
  <2>1. /\ UNCHANGED <<roomOpen, inbox, online, entered>> /\ slips \subseteq slips'
        /\ \A d \in Conn \ {c} : handler'[d] = handler[d]
        /\ handler'[c] \in Serving \/ c \notin entered \/ "replaced" \in slips'
    BY <1>4 DEF removeConn, Serving, TypeOK
  <2>2. CASE "replaced" \in slips'
    BY <2>2 DEF LeaveWillCome
  <2>3. CASE handler'[c] \in Serving \/ c \notin entered
    <3>1. \A d \in entered : handler[d] \in Serving => handler'[d] \in Serving
      BY <2>1, <2>3 DEF TypeOK
    <3> QED
      BY <2>1, <3>1, SameDuty
  <2> QED
    BY <2>1, <2>2, <2>3
<1>5. ASSUME NEW c \in Conn,
             \/ Connect(c) \/ CloseOld(c) \/ Welcome(c) \/ ReadError(c) \/ LeaveQueue(c)
             \/ CloseSelf(c)
      PROVE  LeaveWillCome'
  <2>1. UNCHANGED <<roomOpen, inbox, online, entered>> /\ slips \subseteq slips'
    BY <1>5 DEF Connect, CloseOld, Welcome, ReadError, LeaveQueue, CloseSelf, Slip
  <2>2. /\ \A d \in Conn \ {c} : handler'[d] = handler[d]
        /\ handler[c] \notin Serving \/ handler'[c] \in Serving
    BY <1>5 DEF Connect, CloseOld, Welcome, ReadError, LeaveQueue, CloseSelf, Serving, TypeOK
  <2>3. \A d \in entered : handler[d] \in Serving => handler'[d] \in Serving
    BY <2>2 DEF TypeOK
  <2> QED
    BY <2>1, <2>3, SameDuty
<1>6. CASE RoomHandles
  <2>1. /\ UNCHANGED <<roomOpen, entered, slips, handler>>
        /\ inbox' = Tail(inbox) /\ inbox # <<>> /\ inbox \in Seq({"join", "move", "leave"})
        /\ online' = CASE Head(inbox) = "join" -> TRUE
                       [] Head(inbox) = "leave" -> FALSE
                       [] OTHER -> online
    BY <1>6 DEF RoomHandles, TypeOK
  <2>2. WillBeOnline(inbox', online') => WillBeOnline(inbox, online)
    <3> SUFFICES ASSUME WillBeOnline(inbox', online')
                 PROVE  WillBeOnline(inbox, online)
      OBVIOUS
    <3>1. WillBeOnline(Tail(inbox), CASE Head(inbox) = "join" -> TRUE
                                      [] Head(inbox) = "leave" -> FALSE
                                      [] OTHER -> online)
      BY <2>1
    <3> QED
      BY <2>1, <3>1, HeadHandled
  <2> QED
    BY <2>1, <2>2 DEF LeaveWillCome
<1>7. CASE RoomEnds
  BY <1>7 DEF RoomEnds, LeaveWillCome
<1>8. CASE \/ \E c \in Conn :
                 \/ Disconnect(c) \/ ReadReplied(c) \/ ReadEnqueue(c) \/ ReadDequeue(c)
                 \/ Writer(c)
           \/ Paired \/ SendToLooksUp \/ SendToSends
  <2>1. UNCHANGED <<roomOpen, inbox, online, entered, slips, handler>>
    BY <1>8 DEF Disconnect, ReadReplied, ReadEnqueue, ReadDequeue, Writer, Write, PingFails,
                WriterQuits, Paired, SendToLooksUp, SendToSends
  <2> QED
    BY <2>1, SameDuty
<1> QED
  BY <1>1, <1>2, <1>3, <1>4, <1>5, <1>6, <1>7, <1>8 DEF Next, Handler

-----------------------------------------------------------------------------
(***************************************************************************)
(* The specification.                                                      *)
(***************************************************************************)
LEMMA InitInv == Init => SessionIInv
<1> SUFFICES ASSUME Init
             PROVE  SessionIInv
  OBVIOUS
<1> USE DEF Init
<1>1. TypeOK
  <2>1. <<>> \in Seq({"join", "move", "leave"}) /\ Len(<<>>) = 0 /\ 0 <= InboxCap
        /\ 0 \in 0 .. SendCap
    BY SessionConstants
  <2> QED
    BY <2>1 DEF TypeOK
<1>2. TableTruthful
  BY SessionConstants DEF TableTruthful
<1>3. ~WillBeOnline(inbox, online)
  BY EmptyInbox
<1> QED
  BY <1>1, <1>2, <1>3 DEF SessionIInv, SessionInv, EnteredKnow, LeaveWillCome, ToldIsCurrent,
                          StaysQueued

LEMMA StepInv == SessionIInv /\ [Next \/ Rests]_vars => SessionIInv'
<1> SUFFICES ASSUME SessionIInv, [Next \/ Rests]_vars
             PROVE  SessionIInv'
  OBVIOUS
<1>1. CASE Next
  BY <1>1, TypesStep, TableStep, QueueStep, EnteredStep, LeaveStep DEF SessionIInv, SessionInv
<1>2. CASE UNCHANGED vars
  <2> USE <1>2 DEF vars, local, channel, room, queue
  <2>1. TypeOK'
    BY DEF SessionIInv, SessionInv, TypeOK
  <2>2. TableTruthful'
    BY DEF SessionIInv, SessionInv, TableTruthful, At
  <2>3. (EnteredKnow /\ ToldIsCurrent /\ StaysQueued)'
    BY DEF SessionIInv, EnteredKnow, ToldIsCurrent, StaysQueued
  <2>4. LeaveWillCome'
    BY DEF SessionIInv, LeaveWillCome, WillBeOnline
  <2> QED
    BY <2>1, <2>2, <2>3, <2>4 DEF SessionIInv, SessionInv
<1> QED
  BY <1>1, <1>2 DEF Rests

THEOREM SessionIInvariant == Spec => []SessionIInv
  BY InitInv, StepInv, PTL DEF Spec

\* The send channels and the inbox are within their capacity, and the connection
\* table is truthful: addConn and removeConn race in any order, and yet a
\* connection that was displaced from the table is always told to quit.
THEOREM TableIsTruthful == Spec => []SessionInv
<1>1. SessionIInv => SessionInv
  BY DEF SessionIInv
<1> QED
  BY <1>1, SessionIInvariant, PTL

\* After the clean-up of the last connection the room knows that the player is
\* gone, but for the two ways in which ServerWs loses the leave.
THEOREM GoneIsNoticed == Spec => []GoneIsOffline
<1>1. SessionIInv => GoneIsOffline
  <2> SUFFICES ASSUME SessionIInv, roomOpen, inbox = <<>>, online,
                      \A c \in Conn : handler[c] \in {"none", "done"}
               PROVE  slips \cap {"dropped", "replaced"} # {}
    BY DEF GoneIsOffline
  <2>1. WillBeOnline(inbox, online)
    BY EmptyInbox
  <2>2. \A c \in entered : handler[c] \notin Serving
    BY DEF SessionIInv, SessionInv, TypeOK, Serving
  <2> QED
    BY <2>1, <2>2 DEF SessionIInv, LeaveWillCome
<1> QED
  BY <1>1, SessionIInvariant, PTL

\* Who was told "queued" on the current connection is in the queue, unless the
\* clean-up of an earlier one called MM.Leave late.
THEOREM QueuedStaysQueued == Spec => []StaysQueued
<1>1. SessionIInv => StaysQueued
  BY DEF SessionIInv
<1> QED
  BY <1>1, SessionIInvariant, PTL

=============================================================================
