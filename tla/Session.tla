------------------------------ MODULE Session ------------------------------
(***************************************************************************)
(* The connections of one player (internal/auth/ws.go).  Each connection   *)
(* has two goroutines: the handler (ServerWs: addConn, readLoop, clean-up) *)
(* and the writeLoop.  They share with the other connections of the player *)
(* the entry Conns[user] and the player's place in the matcher's queue, and*)
(* with the room its inbox.  Of the room only what it believes about this  *)
(* player is kept; Room has the rest, and Match the rest of the queue.     *)
(***************************************************************************)
EXTENDS Integers, Sequences, FiniteSets

CONSTANTS
    Conn,       \* the connections the player makes, each used once
    SendCap,    \* capacity of the send channel (code: 256)
    InboxCap,   \* capacity of the room's inbox (code: 64)
    Requests    \* bound: the types of message sent on each connection

NoConn == "none"

ASSUME SessionConstants ==
    /\ NoConn \notin Conn
    /\ SendCap \in Nat \ {0} /\ InboxCap \in Nat \ {0}
    /\ Requests \in [Conn -> SUBSET {"other", "enqueue", "dequeue", "join", "move"}]

VARIABLES
    conns,      \* Conns[user], or NoConn
    handler,    \* where the handler goroutine of each connection is
    old,        \* addConn's local variable: the connection that was replaced
    writer,     \* where the writeLoop is
    socket,     \* the websocket is open
    buffered,   \* messages in the send channel
    quit,       \* the quit channel is closed
    roomId,     \* c.roomId # ""
    inbox,      \* this player's commands in the room's inbox
    roomOpen,   \* RoomMgr.Get finds the room
    online,     \* session.online of the room
    slips,      \* history: was a leave to the open room "dropped" or, by a connection
                \* that had joined and was "replaced", not sent; was one "late" (Slip)
    queued,     \* the player is in the matcher's queue
    told,       \* history: the current connection was told "queued", and that stands
    entered,    \* history: connections whose join is in the inbox or was handled,
                \* as long as the room is open
    out         \* the connection that SendTo has looked up, or NoConn

local == <<handler, old, roomId>>
channel == <<buffered, quit>>
room == <<inbox, roomOpen, online, slips, entered>>
queue == <<queued, told>>
vars == <<conns, local, writer, socket, channel, room, queue, out>>

Init ==
    /\ conns = NoConn /\ out = NoConn
    /\ handler = [c \in Conn |-> "none"] /\ writer = [c \in Conn |-> "none"]
    /\ old = [c \in Conn |-> NoConn] /\ roomId = [c \in Conn |-> FALSE]
    /\ socket = [c \in Conn |-> FALSE]
    /\ buffered = [c \in Conn |-> 0]
    /\ quit = [c \in Conn |-> FALSE]
    /\ inbox = <<>> /\ roomOpen = TRUE /\ online = FALSE
    /\ slips = {} /\ entered = {}
    /\ queued = FALSE /\ told = FALSE

At(c, place) == handler[c] = place
Goto(c, place) == handler' = [handler EXCEPT ![c] = place]

-----------------------------------------------------------------------------
(***************************************************************************)
(* WsClient.Send: never blocks.  With room in the channel and quit closed  *)
(* select picks either; with neither the client is too slow and is kicked: *)
(* quit is closed (once, also when two senders find the channel full).     *)
(***************************************************************************)
Send(c) ==
    \/ /\ buffered[c] < SendCap
       /\ buffered' = [buffered EXCEPT ![c] = @ + 1]
       /\ UNCHANGED quit
    \/ quit[c] /\ UNCHANGED channel
    \/ /\ buffered[c] = SendCap /\ ~quit[c]
       /\ quit' = [quit EXCEPT ![c] = TRUE]
       /\ UNCHANGED buffered

\* Room.Send: a full inbox drops the command.
Enqueued(cmd) == roomOpen /\ Len(inbox) < InboxCap /\ inbox' = Append(inbox, cmd)
Dropped == ~roomOpen \/ Len(inbox) = InboxCap

-----------------------------------------------------------------------------
(***************************************************************************)
(* The handler goroutine.                                                  *)
(***************************************************************************)
\* The upgrade succeeds and addConn replaces the entry, under the lock.
Connect(c) ==
    /\ At(c, "none")
    /\ socket' = [socket EXCEPT ![c] = TRUE]
    /\ old' = [old EXCEPT ![c] = conns]
    /\ conns' = c
    /\ told' = FALSE
    /\ Goto(c, "adding")
    /\ UNCHANGED <<roomId, writer, channel, room, out, queued>>

\* Fault: the connection that was replaced is left alone.
CloseOld_Fault(c) ==
    /\ At(c, "adding")
    /\ Goto(c, "welcome")
    /\ UNCHANGED <<conns, old, roomId, writer, socket, channel, room, out, queue>>

\* addConn, after the unlock: the connection that was replaced is closed.
CloseOld(c) ==
    /\ At(c, "adding")
    /\ quit' = [d \in Conn |-> quit[d] \/ d = old[c]]
    /\ old' = [old EXCEPT ![c] = NoConn]
    /\ Goto(c, "welcome")
    /\ UNCHANGED <<conns, roomId, writer, socket, buffered, room, out, queue>>

\* writeLoop is started, and the welcome is sent.
Welcome(c) ==
    /\ At(c, "welcome")
    /\ writer' = [writer EXCEPT ![c] = "writing"]
    /\ Send(c)
    /\ Goto(c, "reading")
    /\ UNCHANGED <<conns, old, roomId, socket, room, out, queue>>

\* ReadMessage returns a message.
Reads(c, type) == type \in Requests[c] /\ At(c, "reading") /\ socket[c]

\* A message that is only answered: bad JSON, an unknown type, an enqueue that
\* fails, a command over the rate limit or for a room that is gone.
ReadReplied(c) ==
    /\ Reads(c, "other")
    /\ Send(c)
    /\ UNCHANGED <<conns, local, writer, socket, room, out, queue>>

\* Fault: the player is told so although MM.Join has failed.
ReadEnqueue_Fault(c) ==
    /\ Reads(c, "enqueue")
    /\ queued' \in {queued, TRUE} /\ told' = (told \/ conns = c)
    /\ Send(c)
    /\ UNCHANGED <<conns, local, writer, socket, room, out>>

\* MM.Join succeeds, and the player is told so.
ReadEnqueue(c) ==
    /\ Reads(c, "enqueue")
    /\ queued' = TRUE /\ told' = (told \/ conns = c)
    /\ Send(c)
    /\ UNCHANGED <<conns, local, writer, socket, room, out>>

ReadDequeue(c) ==
    /\ Reads(c, "dequeue")
    /\ queued' = FALSE /\ told' = FALSE
    /\ Send(c)
    /\ UNCHANGED <<conns, local, writer, socket, room, out>>

\* A command for the room: join, or any other one.  The room may end between
\* Get and Send.
ReadForRoom(c, type) ==
    /\ Reads(c, type)
    /\ roomId' = [roomId EXCEPT ![c] = TRUE]
    /\ \/ /\ Enqueued(type) /\ UNCHANGED channel
          /\ entered' = IF type = "join" THEN entered \cup {c} ELSE entered
       \/ Dropped /\ Send(c) /\ UNCHANGED <<inbox, entered>>
    /\ UNCHANGED <<conns, handler, old, writer, socket, roomOpen, online, slips, out, queue>>

\* ReadMessage fails: the readLoop returns.
ReadError(c) ==
    /\ At(c, "reading") /\ ~socket[c]
    /\ Goto(c, "removing")
    /\ UNCHANGED <<conns, old, roomId, writer, socket, channel, room, out, queue>>

\* removeConn: only the current connection removes the entry, and goes on to
\* tell the matcher and the room.
removeConn(c) ==
    /\ At(c, "removing")
    /\ conns' = IF conns = c THEN NoConn ELSE conns
    /\ told' = (told /\ conns # c)
    /\ Goto(c, IF conns = c THEN "unqueueing" ELSE "closing")
    /\ slips' = slips \cup (IF conns # c /\ c \in entered THEN {"replaced"} ELSE {})
    /\ UNCHANGED <<old, roomId, writer, socket, channel, inbox, roomOpen, online, entered,
                   out, queued>>

\* What removeConn decided is late when the player is back by now.
Slip(kinds) == slips' = slips \cup kinds \cup (IF conns # NoConn THEN {"late"} ELSE {})

\* Fault: the matcher is told only about a connection that was in a room.
LeaveQueue_Fault(c) ==
    /\ At(c, "unqueueing")
    /\ queued' = (queued /\ ~roomId[c])
    /\ Slip({})
    /\ Goto(c, "leaving")
    /\ UNCHANGED <<conns, old, roomId, writer, socket, channel, inbox, roomOpen, online,
                   entered, out, told>>

\* MM.Leave, a Redis call of up to two seconds, some time after removeConn.
\* That the call fails is Match's to consider.
LeaveQueue(c) ==
    /\ At(c, "unqueueing")
    /\ queued' = FALSE
    /\ Slip({})
    /\ Goto(c, "leaving")
    /\ UNCHANGED <<conns, old, roomId, writer, socket, channel, inbox, roomOpen, online,
                   entered, out, told>>

\* Fault: no leave is sent when the player is back by now.
SendLeave_Fault(c) ==
    /\ At(c, "leaving")
    /\ \/ roomId[c] /\ conns = NoConn /\ Enqueued("leave") /\ Slip({})
       \/ /\ roomId[c] /\ conns = NoConn /\ Dropped
          /\ Slip(IF roomOpen THEN {"dropped"} ELSE {}) /\ UNCHANGED inbox
       \/ (~roomId[c] \/ conns # NoConn) /\ UNCHANGED <<inbox, slips>>
    /\ Goto(c, "closing")
    /\ UNCHANGED <<conns, old, roomId, writer, socket, channel, roomOpen, online,
                   entered, out, queue>>

\* The leave, which comes after that.  A dropped leave is not tried again.
SendLeave(c) ==
    /\ At(c, "leaving")
    /\ \/ roomId[c] /\ Enqueued("leave") /\ Slip({})
       \/ /\ roomId[c] /\ Dropped
          /\ Slip(IF roomOpen THEN {"dropped"} ELSE {}) /\ UNCHANGED inbox
       \/ ~roomId[c] /\ UNCHANGED <<inbox, slips>>
    /\ Goto(c, "closing")
    /\ UNCHANGED <<conns, old, roomId, writer, socket, channel, roomOpen, online,
                   entered, out, queue>>

CloseSelf(c) ==
    /\ At(c, "closing")
    /\ quit' = [quit EXCEPT ![c] = TRUE]
    /\ Goto(c, "done")
    /\ UNCHANGED <<conns, old, roomId, writer, socket, buffered, room, out, queue>>

-----------------------------------------------------------------------------
(***************************************************************************)
(* The writeLoop, and the network.                                         *)
(***************************************************************************)
WriterEnds(c) ==
    /\ writer' = [writer EXCEPT ![c] = "done"]
    /\ socket' = [socket EXCEPT ![c] = FALSE]

\* A message is written, or the write fails.
Write(c) ==
    /\ writer[c] = "writing" /\ buffered[c] > 0
    /\ buffered' = [buffered EXCEPT ![c] = @ - 1]
    /\ \/ socket[c] /\ UNCHANGED <<writer, socket>>
       \/ ~socket[c] /\ WriterEnds(c)
    /\ UNCHANGED <<conns, local, quit, room, out, queue>>

PingFails(c) ==
    /\ writer[c] = "writing" /\ ~socket[c]
    /\ WriterEnds(c)
    /\ UNCHANGED <<conns, local, channel, room, out, queue>>

\* Fault: the writeLoop ends without closing the websocket.
WriterQuits_Fault(c) ==
    /\ writer[c] = "writing" /\ quit[c]
    /\ writer' = [writer EXCEPT ![c] = "done"]
    /\ UNCHANGED <<socket, conns, local, channel, room, out, queue>>

WriterQuits(c) ==
    /\ writer[c] = "writing" /\ quit[c]
    /\ WriterEnds(c)
    /\ UNCHANGED <<conns, local, channel, room, out, queue>>

\* The client or the network goes away.
Disconnect(c) ==
    /\ socket[c]
    /\ socket' = [socket EXCEPT ![c] = FALSE]
    /\ UNCHANGED <<conns, local, writer, channel, room, out, queue>>

-----------------------------------------------------------------------------
(***************************************************************************)
(* The room: its side of the inbox, and Out (SendTo).                      *)
(***************************************************************************)
RoomHandles ==
    /\ roomOpen /\ inbox # <<>>
    /\ inbox' = Tail(inbox)
    /\ online' = CASE Head(inbox) = "join" -> TRUE
                   [] Head(inbox) = "leave" -> FALSE
                   [] OTHER -> online
    /\ UNCHANGED <<conns, local, writer, socket, channel, roomOpen, slips, entered, out, queue>>

\* The room closes and is removed; what is in its inbox is never read.
RoomEnds ==
    /\ roomOpen
    /\ roomOpen' = FALSE /\ inbox' = <<>> /\ online' = FALSE
    /\ entered' = {} /\ slips' = slips \cap {"late"}
    /\ UNCHANGED <<conns, local, writer, socket, channel, out, queue>>

\* The matcher pairs the player.
Paired ==
    /\ queued
    /\ queued' = FALSE /\ told' = FALSE
    /\ UNCHANGED <<conns, local, writer, socket, channel, room, out>>

\* SendTo looks the connection up under the lock ...
SendToLooksUp ==
    /\ roomOpen /\ out = NoConn /\ conns # NoConn
    /\ out' = conns
    /\ UNCHANGED <<conns, local, writer, socket, channel, room, queue>>

\* ... and sends after the unlock.
SendToSends ==
    /\ out # NoConn
    /\ Send(out)
    /\ out' = NoConn
    /\ UNCHANGED <<conns, local, writer, socket, room, queue>>

-----------------------------------------------------------------------------
Handler(c) ==
    \/ CloseOld(c) \/ Welcome(c) \/ ReadError(c)
    \/ removeConn(c) \/ LeaveQueue(c) \/ SendLeave(c) \/ CloseSelf(c)

Writer(c) == Write(c) \/ PingFails(c) \/ WriterQuits(c)

Next ==
    \/ \E c \in Conn :
          \/ Connect(c) \/ Disconnect(c)
          \/ ReadReplied(c) \/ ReadEnqueue(c) \/ ReadDequeue(c)
          \/ \E type \in {"join", "move"} : ReadForRoom(c, type)
          \/ Handler(c) \/ Writer(c)
    \/ RoomHandles \/ RoomEnds \/ Paired \/ SendToLooksUp \/ SendToSends

\* Every connection is over, and so is the room.
Rests ==
    /\ ~roomOpen /\ out = NoConn
    /\ \A c \in Conn : handler[c] = "done" /\ writer[c] = "done"
    /\ UNCHANGED vars

\* Both goroutines of a connection are scheduled (reads and writes have
\* deadlines), and the select of the writeLoop does not pass over quit for ever.
Fairness ==
    \A c \in Conn : WF_vars(Handler(c)) /\ WF_vars(PingFails(c) \/ WriterQuits(c))

Spec == Init /\ [][Next \/ Rests]_vars /\ Fairness

-----------------------------------------------------------------------------
TypeOK ==
    /\ conns \in Conn \cup {NoConn} /\ out \in Conn \cup {NoConn}
    /\ handler \in [Conn -> {"none", "adding", "welcome", "reading", "removing",
                             "unqueueing", "leaving", "closing", "done"}]
    /\ writer \in [Conn -> {"none", "writing", "done"}]
    /\ old \in [Conn -> Conn \cup {NoConn}]
    /\ buffered \in [Conn -> 0 .. SendCap]
    /\ quit \in [Conn -> BOOLEAN]
    /\ socket \in [Conn -> BOOLEAN] /\ roomId \in [Conn -> BOOLEAN]
    /\ inbox \in Seq({"join", "move", "leave"}) /\ Len(inbox) <= InboxCap
    /\ roomOpen \in BOOLEAN /\ online \in BOOLEAN /\ slips \subseteq {"late", "dropped", "replaced"}
    /\ entered \subseteq Conn
    /\ queued \in BOOLEAN /\ told \in BOOLEAN

\* addConn and removeConn, whatever the order of the goroutines: the table never
\* holds a connection whose handler has given it up, and a connection that is
\* still served but no longer in the table has been told to quit (or the handler
\* that replaced it is about to).
TableTruthful ==
    \A c \in Conn :
        /\ conns = c => handler[c] \in {"adding", "welcome", "reading", "removing"}
        /\ handler[c] \in {"adding", "welcome", "reading"} /\ conns # c =>
              quit[c] \/ \E d \in Conn : At(d, "adding") /\ old[d] = c

\* The shared state of the player's connections: channels within their capacity,
\* and a truthful table.
SessionInv == TypeOK /\ TableTruthful

\* A connection that was replaced, kicked for being slow, or cut off ends for
\* good: both goroutines return, none is left behind.
LoopsEnd ==
    LET cut == {c \in Conn : handler[c] # "none" /\ (quit[c] \/ ~socket[c])}
        over == {c \in Conn : handler[c] = "done" /\ writer[c] = "done"}
    IN  cut # {} ~> cut \subseteq over

\* The clean-up of ServerWs and removeConn's check together: a waiting player who
\* is cut off is out of the queue in the end, or back with a connection that
\* works, however his connections overlap.
CutOffIsUnqueued ==
    queued /\ conns # NoConn /\ (\A c \in Conn : conns = c => ~socket[c])
        ~> ~queued \/ (\E c \in Conn : conns = c /\ socket[c])

\* README, on reconnecting: the clean-up of the old connection does not take the
\* player out of the room.  Once the room has handled everything, a player
\* whose current connection has joined is online.
StaysOnline ==
    \A c \in entered :
        roomOpen /\ inbox = <<>> /\ conns = c /\ At(c, "reading") => online

\* README, on the grace period: once every connection is gone and the room has
\* handled everything, the player is offline.  There are exactly two ways past
\* that: a leave that was dropped, and a connection that had joined and was
\* replaced, so that it sent no leave.
GoneIsOffline ==
    roomOpen /\ inbox = <<>> /\ (\A c \in Conn : handler[c] \in {"none", "done"})
        => ~online \/ slips \cap {"dropped", "replaced"} # {}

\* TestDoesNotMatchFarScores: who was not paired stays in the queue.  A player
\* told "queued" on his current connection, who has neither dequeued nor been
\* paired since, is in the queue, unless a connection that had been removed
\* before he came back has cleaned up after that.  ("late" covers both halves of
\* the clean-up, MM.Leave and the leave to the room, and stays once it has been
\* set: after a late leave of either kind nothing is promised any more.)
StaysQueued == told => queued \/ "late" \in slips

=============================================================================
