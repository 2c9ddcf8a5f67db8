------------------------------- MODULE Lifecycle -------------------------------
(***************************************************************************)
(* The tasks of blemees-peerd: per connection a handler that reads and a   *)
(* write loop that empties the outbox, and shutdown, which cancels the     *)
(* handlers, waits for them and then for the listener.                     *)
(*                                                                         *)
(* Steps are what a task does between two awaits that can suspend it, so   *)
(* a peer that stalls or leaves, a timeout and a cancellation may come     *)
(* between any two of them.  A message is a unit of the outbox's length.   *)
(* asyncio is external: cancellation is delivered at the next await, and   *)
(* one that meets a write loop or a transport just done may be swallowed   *)
(* (wait_for of Python 3.11) or not (later).                               *)
(***************************************************************************)
EXTENDS Integers

CONSTANTS
    Conn,                \* the connections accepted in a behaviour
    MaxOutbox,           \* bound: messages waiting in an outbox
    WaitsForTransports   \* Python >= 3.12: Server.wait_closed waits for them, and
                         \* the one of a cancelled handler is closed

ASSUME MaxOutboxAssumption == MaxOutbox \in Nat \ {0}
ASSUME VersionAssumption == WaitsForTransports \in BOOLEAN

VARIABLES
    phase,        \* of the server: "serving", "gathering", "waiting", "stopped"
    batch,        \* connections whose handlers shutdown gathers
    connections,  \* Server._connections
    handler,      \* "none", "created", "reading", "draining", "flushing", "done"
    cancel,       \* a cancellation on its way to the handler
    registered,   \* the router knows the connection: hello came, goodbye did not
    closed,       \* Connection.closed
    outbox,       \* messages in Connection.outbox
    poison,       \* None follows them: the write loop is to end
    writer,       \* "none", "getting", "blocked", "done"
    transport,    \* "none", "open", "closing", "closed"
    buffered,     \* the transport holds bytes that the peer did not take
    peer,         \* "reading", "stalled", "gone"
    cut           \* connections whose outbox was given up (history)

server == <<phase, batch>>
tasks  == <<handler, cancel, connections, registered, cut>>
queue  == <<outbox, poison, closed, writer>>
wire   == <<transport, buffered, peer>>
vars   == <<server, tasks, queue, wire>>

\* Server._handler_tasks that are not done.
Live == {c \in Conn : handler[c] \in {"reading", "draining", "flushing"}}

Init ==
    /\ phase = "serving"
    /\ batch = {} /\ connections = {} /\ cut = {}
    /\ handler = [c \in Conn |-> "none"]
    /\ writer = [c \in Conn |-> "none"]
    /\ transport = [c \in Conn |-> "none"]
    /\ peer = [c \in Conn |-> "reading"]
    /\ outbox = [c \in Conn |-> 0]
    /\ cancel = [c \in Conn |-> FALSE]
    /\ registered = [c \in Conn |-> FALSE]
    /\ closed = [c \in Conn |-> FALSE]
    /\ poison = [c \in Conn |-> FALSE]
    /\ buffered = [c \in Conn |-> FALSE]

-------------------------------------------------------------------------------
\* The peer.

\* A transport is made, and a task for _handle_connection.
Accept(c) ==
    /\ phase = "serving"
    /\ handler[c] = "none"
    /\ handler' = [handler EXCEPT ![c] = "created"]
    /\ transport' = [transport EXCEPT ![c] = "open"]
    /\ UNCHANGED <<server, cancel, connections, registered, cut, queue,
                   buffered, peer>>

PeerTurns(c, to) ==
    /\ transport[c] \in {"open", "closing"}
    /\ peer[c] \notin {to, "gone"}
    /\ peer' = [peer EXCEPT ![c] = to]
    /\ UNCHANGED <<server, tasks, queue, transport, buffered>>

\* The peer takes what the transport holds.
Flush(c) ==
    /\ buffered[c]
    /\ peer[c] = "reading"
    /\ buffered' = [buffered EXCEPT ![c] = FALSE]
    /\ UNCHANGED <<server, tasks, queue, transport, peer>>

\* connection_lost of a transport that was closed: nothing left to write, or
\* nobody to write to.
TransportCloses(c) ==
    /\ transport[c] = "closing"
    /\ buffered[c] => peer[c] = "gone"
    /\ transport' = [transport EXCEPT ![c] = "closed"]
    /\ buffered' = [buffered EXCEPT ![c] = FALSE]
    /\ UNCHANGED <<server, tasks, queue, peer>>

\* The garbage collector finds the stream of a handler that is done and did not
\* close it.
Collected(c) ==
    /\ handler[c] = "done"
    /\ transport[c] = "open"
    /\ transport' = [transport EXCEPT ![c] = "closing"]
    /\ UNCHANGED <<server, tasks, queue, buffered, peer>>

-------------------------------------------------------------------------------
\* The write loop.

\* ConnectionResetError from drain.
Reset(c) ==
    /\ closed' = [closed EXCEPT ![c] = TRUE]
    /\ writer' = [writer EXCEPT ![c] = "done"]
    /\ transport' = [transport EXCEPT ![c] = "closed"]
    /\ buffered' = [buffered EXCEPT ![c] = FALSE]

\* One message is written.  To a stalled peer it goes to the socket's buffer, to
\* the transport's, or fills that too: drain blocks.
WriteOne(c) ==
    /\ writer[c] = "getting"
    /\ outbox[c] > 0
    /\ outbox' = [outbox EXCEPT ![c] = @ - 1]
    /\ \/ /\ peer[c] = "gone"
          /\ Reset(c)
       \/ /\ peer[c] # "gone"
          /\ UNCHANGED <<closed, writer, transport, buffered>>
       \/ /\ peer[c] = "stalled"
          /\ buffered' = [buffered EXCEPT ![c] = TRUE]
          /\ writer' \in {writer, [writer EXCEPT ![c] = "blocked"]}
          /\ UNCHANGED <<closed, transport>>
    /\ UNCHANGED <<server, tasks, poison, peer>>

Unblock(c) ==
    /\ writer[c] = "blocked"
    /\ \/ /\ peer[c] = "gone"
          /\ Reset(c)
       \/ /\ ~buffered[c]
          /\ writer' = [writer EXCEPT ![c] = "getting"]
          /\ UNCHANGED <<closed, transport, buffered>>
    /\ UNCHANGED <<server, tasks, outbox, poison, peer>>

\* The loop takes None from the outbox.
WriterEnds(c) ==
    /\ writer[c] = "getting"
    /\ outbox[c] = 0
    /\ poison[c]
    /\ writer' = [writer EXCEPT ![c] = "done"]
    /\ UNCHANGED <<server, tasks, outbox, poison, closed, wire>>

\* A message that cannot be encoded: the loop is over, the transport stays open.
WriterCrashes(c) ==
    /\ writer[c] = "getting"
    /\ outbox[c] > 0
    /\ outbox' = [outbox EXCEPT ![c] = @ - 1]
    /\ closed' = [closed EXCEPT ![c] = TRUE]
    /\ writer' = [writer EXCEPT ![c] = "done"]
    /\ cut' = cut \cup {c}
    /\ UNCHANGED <<server, handler, cancel, connections, registered, poison, wire>>

WriterStep(c) == WriteOne(c) \/ Unblock(c) \/ WriterEnds(c)

-------------------------------------------------------------------------------
\* The handler.

\* Mutant: a connection accepted late is served.
StartHandlerAlways(c) ==
    /\ handler[c] = "created"
    /\ handler' = [handler EXCEPT ![c] = "reading"]
    /\ writer' = [writer EXCEPT ![c] = "getting"]
    /\ connections' = connections \cup {c}
    /\ UNCHANGED <<server, cancel, registered, cut, outbox, poison, closed, wire>>

\* A connection accepted just before shutdown is turned away.
StartHandler(c) ==
    /\ handler[c] = "created"
    /\ IF phase = "serving"
       THEN /\ handler' = [handler EXCEPT ![c] = "reading"]
            /\ writer' = [writer EXCEPT ![c] = "getting"]
            /\ connections' = connections \cup {c}
            /\ UNCHANGED transport
       ELSE /\ handler' = [handler EXCEPT ![c] = "done"]
            /\ transport' = [transport EXCEPT ![c] = "closing"]
            /\ UNCHANGED <<writer, connections>>
    /\ UNCHANGED <<server, cancel, registered, cut, outbox, poison, closed,
                   buffered, peer>>

\* A request is dispatched, or another session's message arrives: something goes
\* on the outbox, and the request may have been a hello.  A handler about to be
\* cancelled dispatches no more; a session still hears of others that leave.
Serve(c) ==
    /\ handler[c] = "reading"
    /\ cancel[c] => registered[c]
    /\ outbox[c] < MaxOutbox
    /\ outbox' = [outbox EXCEPT ![c] = IF closed[c] THEN @ ELSE @ + 1]
    /\ registered' \in {registered, [registered EXCEPT ![c] = TRUE]}
    /\ UNCHANGED <<server, handler, cancel, connections, cut, poison, closed,
                   writer, wire>>

CloseTransport(c) ==
    transport' = [transport EXCEPT ![c] = IF @ = "open" THEN "closing" ELSE @]

\* Mutant: the session is forgotten only once its connection is closed.
FinallyClosesFirst(c) ==
    /\ cancel' = [cancel EXCEPT ![c] = FALSE]
    /\ IF closed[c]
       THEN /\ handler' = [handler EXCEPT ![c] = "done"]
            /\ registered' = [registered EXCEPT ![c] = FALSE]
            /\ connections' = connections \ {c}
            /\ UNCHANGED <<closed, poison>>
       ELSE /\ handler' = [handler EXCEPT ![c] = "draining"]
            /\ closed' = [closed EXCEPT ![c] = TRUE]
            /\ poison' = [poison EXCEPT ![c] = TRUE]
            /\ UNCHANGED <<connections, registered>>
    /\ UNCHANGED <<server, cut, outbox, writer, buffered, peer>>

\* The finally block: goodbye, which never suspends, and close up to its first
\* await; a Connection whose write loop failed is closed already.
Finally(c) ==
    /\ registered' = [registered EXCEPT ![c] = FALSE]
    /\ cancel' = [cancel EXCEPT ![c] = FALSE]
    /\ IF closed[c]
       THEN /\ handler' = [handler EXCEPT ![c] = "done"]
            /\ connections' = connections \ {c}
            /\ UNCHANGED <<closed, poison>>
       ELSE /\ handler' = [handler EXCEPT ![c] = "draining"]
            /\ closed' = [closed EXCEPT ![c] = TRUE]
            /\ poison' = [poison EXCEPT ![c] = TRUE]
            /\ UNCHANGED connections
    /\ UNCHANGED <<server, cut, outbox, writer, buffered, peer>>

\* A line beyond the size limit ends the read loop.
Oversized(c) ==
    /\ handler[c] = "reading"
    /\ ~cancel[c]
    /\ Finally(c)
    /\ UNCHANGED transport

\* readuntil meets the end of the stream, or a cancellation is thrown into it.
\* The transport of a handler that is cancelled with nothing left to close is
\* closed by asyncio.
LeavesLoop(c) ==
    /\ handler[c] = "reading"
    /\ peer[c] = "gone" \/ cancel[c]
    /\ Finally(c)
    /\ IF WaitsForTransports /\ cancel[c] /\ closed[c] THEN CloseTransport(c)
       ELSE UNCHANGED transport

\* Mutant: the outbox is not waited for.
DrainedAtOnce(c) ==
    /\ handler[c] = "draining"
    /\ writer' = [writer EXCEPT ![c] = "done"]
    /\ handler' = [handler EXCEPT ![c] = "flushing"]
    /\ cancel' = [cancel EXCEPT ![c] = FALSE]
    /\ CloseTransport(c)
    /\ UNCHANGED <<server, connections, registered, cut, outbox, poison, closed,
                   buffered, peer>>

\* The write loop has ended; if a cancel came with that, it is swallowed.
Drained(c) ==
    /\ handler[c] = "draining"
    /\ writer[c] = "done"
    /\ handler' = [handler EXCEPT ![c] = "flushing"]
    /\ cancel' = [cancel EXCEPT ![c] = FALSE]
    /\ CloseTransport(c)
    /\ UNCHANGED <<server, connections, registered, cut, queue, buffered, peer>>

\* Mutant: no timeout.
DrainNeverTimesOut(c) == FALSE /\ UNCHANGED vars

\* CLOSE_TIMEOUT_S passes: wait_for cancels the write loop.
DrainTimesOut(c) ==
    /\ handler[c] = "draining"
    /\ writer[c] # "done"
    /\ ~cancel[c]
    /\ writer' = [writer EXCEPT ![c] = "done"]
    /\ cut' = cut \cup {c}
    /\ handler' = [handler EXCEPT ![c] = "flushing"]
    /\ CloseTransport(c)
    /\ UNCHANGED <<server, cancel, connections, registered, outbox, poison,
                   closed, buffered, peer>>

\* Mutant: the Connection is not discarded.
FlushedKeepsBooks(c) ==
    /\ handler[c] = "flushing"
    /\ transport[c] = "closed" \/ ~cancel[c]
    /\ handler' = [handler EXCEPT ![c] = "done"]
    /\ cancel' = [cancel EXCEPT ![c] = FALSE]
    /\ UNCHANGED <<server, connections, registered, cut, queue, wire>>

\* The transport is closed, or CLOSE_TIMEOUT_S passes.
Flushed(c) ==
    /\ handler[c] = "flushing"
    /\ transport[c] = "closed" \/ ~cancel[c]
    /\ handler' = [handler EXCEPT ![c] = "done"]
    /\ cancel' = [cancel EXCEPT ![c] = FALSE]
    /\ connections' = connections \ {c}
    /\ UNCHANGED <<server, registered, cut, queue, wire>>

\* Mutant: the write loop is shielded from the cancellation of close.
CloseCancelledShielded(c) ==
    /\ handler[c] = "draining"
    /\ cancel[c]
    /\ handler' = [handler EXCEPT ![c] = "done"]
    /\ cancel' = [cancel EXCEPT ![c] = FALSE]
    /\ cut' = cut \cup {c}
    /\ CloseTransport(c)
    /\ UNCHANGED <<server, connections, registered, queue, buffered, peer>>

\* A cancellation is thrown into close: the write loop is cancelled with it and
\* the transport closed; the Connection is not taken off Server._connections.
CloseCancelled(c) ==
    /\ handler[c] \in {"draining", "flushing"}
    /\ cancel[c]
    /\ handler' = [handler EXCEPT ![c] = "done"]
    /\ cancel' = [cancel EXCEPT ![c] = FALSE]
    /\ writer' = [writer EXCEPT ![c] = "done"]
    /\ cut' = IF writer[c] = "done" THEN cut ELSE cut \cup {c}
    /\ CloseTransport(c)
    /\ UNCHANGED <<server, connections, registered, outbox, poison, closed,
                   buffered, peer>>

HandlerStep(c) ==
    \/ StartHandler(c)
    \/ LeavesLoop(c)
    \/ Drained(c)
    \/ DrainTimesOut(c)
    \/ Flushed(c)
    \/ CloseCancelled(c)

-------------------------------------------------------------------------------
\* Server.shutdown.

\* Every live handler is cancelled and gathered.
CancelLive ==
    /\ batch' = Live
    /\ cancel' = [c \in Conn |-> cancel[c] \/ c \in Live]

\* Mutant: the handlers are waited for without being cancelled.
BeginShutdownPolitely ==
    /\ phase = "serving"
    /\ phase' = "gathering"
    /\ batch' = Live
    /\ UNCHANGED <<tasks, queue, wire>>

\* SIGTERM or SIGINT: the listener is closed, the first gather begins.
BeginShutdown ==
    /\ phase = "serving"
    /\ phase' = "gathering"
    /\ CancelLive
    /\ UNCHANGED <<handler, connections, registered, cut, queue, wire>>

\* The gathered handlers are done: once more if others are live, else what is
\* left of the connections is closed; those that are closed already cost nothing.
Gathered ==
    /\ phase = "gathering"
    /\ batch \cap Live = {}
    /\ IF Live # {}
       THEN /\ CancelLive
            /\ UNCHANGED <<phase, connections>>
       ELSE /\ \A c \in connections : closed[c]
            /\ phase' = "waiting"
            /\ connections' = {}
            /\ UNCHANGED <<batch, cancel>>
    /\ UNCHANGED <<handler, registered, cut, queue, wire>>

\* AbstractServer.wait_closed returns; the socket file is removed.
Stop ==
    /\ phase = "waiting"
    /\ WaitsForTransports => \A c \in Conn : transport[c] \in {"none", "closed"}
    /\ phase' = "stopped"
    /\ UNCHANGED <<batch, tasks, queue, wire>>

-------------------------------------------------------------------------------
Peer(c) ==
    \/ Accept(c)
    \/ \E to \in {"reading", "stalled", "gone"} : PeerTurns(c, to)
    \/ Flush(c)
    \/ TransportCloses(c)
    \/ Collected(c)
    \/ Serve(c)
    \/ Oversized(c)

Next ==
    \/ \E c \in Conn : Peer(c) \/ WriterStep(c) \/ WriterCrashes(c) \/ HandlerStep(c)
    \/ BeginShutdown
    \/ Gathered
    \/ Stop

\* The event loop runs every task that can run, every timer fires, and the
\* kernel moves bytes to a peer that reads; nothing makes a peer read, leave or
\* ask, the collector run, nor anybody stop the daemon.
Fairness ==
    /\ \A c \in Conn : /\ WF_vars(WriterStep(c))
                       /\ WF_vars(HandlerStep(c))
                       /\ WF_vars(Flush(c))
                       /\ WF_vars(TransportCloses(c))
    /\ WF_vars(Gathered)
    /\ WF_vars(Stop)

Spec == Init /\ [][Next]_vars
FairSpec == Spec /\ Fairness

-------------------------------------------------------------------------------
TypeOK ==
    /\ phase \in {"serving", "gathering", "waiting", "stopped"}
    /\ batch \subseteq Conn /\ connections \subseteq Conn /\ cut \subseteq Conn
    /\ handler \in [Conn -> {"none", "created", "reading", "draining",
                             "flushing", "done"}]
    /\ writer \in [Conn -> {"none", "getting", "blocked", "done"}]
    /\ transport \in [Conn -> {"none", "open", "closing", "closed"}]
    /\ peer \in [Conn -> {"reading", "stalled", "gone"}]
    /\ outbox \in [Conn -> 0..MaxOutbox]
    /\ cancel \in [Conn -> BOOLEAN]
    /\ registered \in [Conn -> BOOLEAN]
    /\ closed \in [Conn -> BOOLEAN]
    /\ poison \in [Conn -> BOOLEAN]
    /\ buffered \in [Conn -> BOOLEAN]

\* What the tasks, the outbox and the transport of a connection have to do with
\* each other at each stage of its handler.
Stage(c) ==
    /\ handler[c] \in {"none", "created"} =>
         /\ writer[c] = "none" /\ outbox[c] = 0
         /\ ~closed[c] /\ ~cancel[c] /\ ~poison[c]
         /\ transport[c] = IF handler[c] = "none" THEN "none" ELSE "open"
    /\ handler[c] = "reading" =>
         /\ writer[c] # "none" /\ ~poison[c]
         /\ closed[c] <=> writer[c] = "done"
    /\ handler[c] = "draining" => writer[c] # "none"
    /\ handler[c] \in {"draining", "flushing"} => closed[c]
    /\ handler[c] = "flushing" => writer[c] = "done"
    /\ handler[c] = "done" => writer[c] \in {"none", "done"} /\ ~cancel[c]

\* A transport is closed only under a write loop that has ended, and one ends
\* with its outbox written, its peer gone or its connection's close cut short.
Ending(c) ==
    /\ writer[c] \in {"getting", "blocked"} => transport[c] = "open"
    /\ writer[c] = "none" => outbox[c] = 0
    /\ writer[c] = "done" => outbox[c] = 0 \/ c \in cut \/ peer[c] = "gone"

\* The tasks of every connection stay in step, whatever is cancelled, times out
\* or fails between two of their awaits.
TasksInStep ==
    /\ TypeOK
    /\ \A c \in Conn : Stage(c) /\ Ending(c)

\* Whatever cuts a close short, the router has forgotten a connection whose
\* handler left its loop: nobody sends to it, its sid and alias are free.
LeaversForgotten == \A c \in Conn : registered[c] => handler[c] = "reading"

\* test_shutdown, "Task was destroyed but it is pending": no write loop outlives
\* its handler, and nothing the server tracks outlives its shutdown.
NothingLeftRunning ==
    /\ \A c \in Conn : handler[c] = "done" => writer[c] \in {"none", "done"}
    /\ phase \in {"waiting", "stopped"} => Live = {} /\ connections = {}

\* The answers a connection was given before it ended are written before its
\* transport is closed, unless the peer left or the close was cut short.
AnsweredBeforeClose ==
    \A c \in Conn : transport[c] \in {"closing", "closed"} =>
        outbox[c] = 0 \/ c \in cut \/ peer[c] = "gone"

\* Shutdown gets past the handlers, however its peers behave: no cancellation is
\* lost and no close waits for a peer that has stopped reading.
HandlersGiveWay == phase = "gathering" ~> phase \in {"waiting", "stopped"}

\* A connection whose peer left ends and is taken off the server's books.
LeaverEnds ==
    \A c \in Conn :
        peer[c] = "gone" /\ handler[c] = "reading"
            ~> handler[c] = "done" /\ c \notin connections

\* Shutdown ends unless a peer holds back what its transport has buffered, or a
\* connection whose write loop crashed was left before, its transport never closed.
ShutdownEndsUnlessStalled ==
    phase # "serving" ~>
        \/ phase = "stopped"
        \/ \E c \in Conn : \/ buffered[c] /\ peer[c] = "stalled"
                           \/ handler[c] = "done" /\ transport[c] = "open"

\* tests/test_shutdown.py: the daemon exits on SIGTERM with a client connected.
ShutdownEnds == phase # "serving" ~> phase = "stopped"
===============================================================================
