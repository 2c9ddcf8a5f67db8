-------------------------------- MODULE Sidecar --------------------------------
(***************************************************************************)
(* The MCP sidecar of one agent with its PeerClient, against a daemon that *)
(* answers, notifies and may go away.                                      *)
(*                                                                         *)
(* The tools an agent calls run as tasks of one event loop and share the   *)
(* inbox, its event and the client.  A step is what a task does between    *)
(* two awaits that suspend: the future of a call, the event of the inbox,  *)
(* the next line.  Tasks whose await is over resume first come, first      *)
(* served (`ready`), as asyncio's ready queue has it.  The daemon is seen  *)
(* through one connection: its handler, which carries out the calls, and   *)
(* its write loop, which may die before it.  What a call does to other     *)
(* sessions is module Router's.                                            *)
(***************************************************************************)
EXTENDS PersistentDeque

CONSTANTS
    Req,           \* requests of the MCP host, each made once
    Run,           \* the task of McpServer.run
    Alias, None,
    InitialAlias,  \* alias to claim at start, or None
    InboxMaxlen,
    Limits,        \* limits peer_inbox is called with
    MaxNotes       \* bound: notifications the daemon sends

ASSUME TasksAssumption == Run \notin Req /\ None \notin Req \cup {Run}
ASSUME AliasAssumption == None \notin Alias /\ InitialAlias \in Alias \cup {None}
ASSUME InboxAssumption == InboxMaxlen \in Nat \ {0} /\ Limits \subseteq Nat \ {0}
ASSUME NotesAssumption == MaxNotes \in Nat

Caller == Req \cup {Run}

SetAliasTo(al) == <<"set_alias", al>>
Calls == {<<"hello">>} \cup {SetAliasTo(al) : al \in Alias \cup {None}}
Await == <<"await">>        \* peer_await without a timeout
TimedAwait == <<"timed">>   \* and with one

\* No alias and no call looks like the mark that there is none.
ASSUME MarksAssumption == None \notin Calls /\ "none" \notin Alias \cup {None}

VARIABLES
    phase,          \* of McpServer.run: "hello", "alias", "serving", "ended"
    asked,          \* what each task does, or None
    status,         \* "idle", "calling", "waiting", "ready", "done"
    answer,         \* what its await came back with, or None
    ready,          \* tasks whose await is over, in the order they resume
    next_id,        \* PeerClient._next_id
    pending,        \* PeerClient._pending: {<<request id, task>>}
    reader,         \* PeerClient._read_loop: "reading" or "ended"
    notifications,  \* PeerClient._notifications
    inbox,          \* McpServer.inbox
    event,          \* McpServer._inbox_event is set
    waiters,        \* tasks waiting on it
    current_alias,  \* McpServer.current_alias
    read,           \* the last notification handed to the agent, or 0 (history)
    daemon,         \* "up", "mute" (its write loop dies), "gone", or "absent"
                    \* from the start
    session,        \* the alias the daemon holds for this session; "none" before hello
    sent,           \* notifications the daemon sent
    fromClient,     \* calls on their way: <<id, what, by>>
    toClient        \* lines on their way: <<"note", n>>, <<"answer", id, outcome, by>>

tasks  == <<asked, status, answer, ready>>
client == <<next_id, pending, reader, notifications>>
box    == <<inbox, event, waiters, read>>
peerd  == <<daemon, session, sent>>
socket == <<fromClient, toClient>>
vars   == <<phase, current_alias, tasks, client, box, peerd, socket>>

\* connect succeeded and hello was written; or nobody listens, and everything
\* goes to an _OfflinePeerClient.
Init ==
    /\ answer = [c \in Caller |-> None]
    /\ ready = <<>> /\ notifications = <<>> /\ inbox = <<>> /\ waiters = <<>>
    /\ event = FALSE /\ read = 0 /\ current_alias = None
    /\ session = "none" /\ sent = 0 /\ toClient = <<>>
    /\ reader = "reading"
    /\ \/ /\ daemon = "up" /\ phase = "hello" /\ next_id = 1
          /\ asked = [c \in Caller |-> IF c = Run THEN <<"hello">> ELSE None]
          /\ status = [c \in Caller |-> IF c = Run THEN "calling" ELSE "idle"]
          /\ pending = {<<1, Run>>}
          /\ fromClient = <<<<1, <<"hello">>, Run>>>>
       \/ /\ daemon = "absent" /\ phase = "serving" /\ next_id = 0
          /\ asked = [c \in Caller |-> None]
          /\ status = [c \in Caller |-> IF c = Run THEN "done" ELSE "idle"]
          /\ pending = {}
          /\ fromClient = <<>>

\* Task r comes to its end with this answer.
Finish(r, what) ==
    /\ status' = [status EXCEPT ![r] = "done"]
    /\ answer' = [answer EXCEPT ![r] = what]

-------------------------------------------------------------------------------
\* PeerClient.

\* Mutant: the counter stays.
SameId == next_id

NewId == next_id + 1

Unlisted(id) == {p \in pending : p[1] # id}

\* The daemon's handler of this connection reads.
Listening == daemon \in {"up", "mute"}

\* _call up to its await.  With the daemon gone the drain raises, after the call
\* was noted as pending, and the transport that failed ends the read loop;
\* offline the stand-in for the client raises.
Call(c, what) ==
    /\ asked' = [asked EXCEPT ![c] = what]
    /\ IF daemon = "absent"
       THEN UNCHANGED <<next_id, pending>>
       ELSE next_id' = NewId /\ pending' = Unlisted(NewId) \cup {<<NewId, c>>}
    /\ IF Listening
       THEN /\ status' = [status EXCEPT ![c] = "calling"]
            /\ fromClient' = Append(fromClient, <<NewId, what, c>>)
            /\ UNCHANGED <<answer, reader>>
       ELSE /\ Finish(c, <<"raised">>)
            /\ reader' = IF daemon = "gone" THEN "ended" ELSE reader
            /\ UNCHANGED fromClient

\* _read_loop takes one line: it resolves the future of a call, whose task can
\* then resume, or queues a notification.
ReadLine ==
    /\ phase # "ended" /\ reader = "reading" /\ toClient # <<>>
    /\ LET line == Head(toClient)
           callers == {c \in Caller : <<line[2], c>> \in pending}
       IN  IF line[1] = "note"
           THEN /\ notifications' = Append(notifications, line[2])
                /\ UNCHANGED <<pending, status, answer, ready>>
           ELSE /\ pending' = Unlisted(line[2])
                /\ answer' = [c \in Caller |-> IF c \in callers
                                              THEN <<line[3], line[4]>>
                                              ELSE answer[c]]
                /\ status' = [c \in Caller |-> IF c \in callers THEN "ready"
                                              ELSE status[c]]
                /\ ready' = IF callers = {} THEN ready
                            ELSE Append(ready, CHOOSE c \in callers : TRUE)
                /\ UNCHANGED notifications
    /\ toClient' = Tail(toClient)
    /\ UNCHANGED <<phase, current_alias, asked, next_id, reader, box, peerd,
                   fromClient>>

\* End of stream or reset.  The futures of calls in progress stay as they are.
ReadEnds ==
    /\ phase # "ended" /\ reader = "reading"
    /\ daemon = "gone" /\ toClient = <<>>
    /\ reader' = "ended"
    /\ UNCHANGED <<phase, current_alias, tasks, next_id, pending, notifications,
                   box, peerd, socket>>

\* A line beyond the stream's limit, which is 64 KiB at both ends: readuntil raises
\* what the loop does not catch, and nobody reads on from a daemon that is there.
ReadOverruns ==
    /\ phase # "ended" /\ reader = "reading" /\ toClient # <<>>
    /\ reader' = "ended"
    /\ UNCHANGED <<phase, current_alias, tasks, next_id, pending, notifications,
                   box, peerd, socket>>

-------------------------------------------------------------------------------
\* The inbox.

\* q without the first c in it.
Without(q, c) ==
    IF c \in Ids(q)
    THEN LET i == CHOOSE i \in DOMAIN q : q[i] = c
         IN  SubSeq(q, 1, i - 1) \o SubSeq(q, i + 1, Len(q))
    ELSE q

\* Mutant: the tasks that wait are told only of a first notification.
ForwardQuietly ==
    /\ phase = "serving" /\ notifications # <<>>
    /\ inbox' = AppendBounded(inbox, Head(notifications), InboxMaxlen)
    /\ notifications' = Tail(notifications)
    /\ event' = (inbox = <<>> \/ event)
    /\ waiters' = IF sent = 1 THEN <<>> ELSE waiters
    /\ ready' = IF sent = 1 THEN ready \o waiters ELSE ready
    /\ status' = [c \in Caller |-> IF waiters' # waiters /\ c \in Ids(waiters)
                                   THEN "ready" ELSE status[c]]
    /\ UNCHANGED <<phase, current_alias, asked, answer, next_id, pending, reader,
                   read, peerd, socket>>

\* _forward_notifications: into the inbox, whose oldest entry falls out when it
\* is full, and the event is set: every task that waits resumes.  Writing a
\* resource update to stdout never suspends.
Forward ==
    /\ phase = "serving" /\ notifications # <<>>
    /\ inbox' = AppendBounded(inbox, Head(notifications), InboxMaxlen)
    /\ notifications' = Tail(notifications)
    /\ event' = TRUE
    /\ waiters' = <<>>
    /\ ready' = ready \o waiters
    /\ status' = [c \in Caller |-> IF c \in Ids(waiters) THEN "ready"
                                   ELSE status[c]]
    /\ UNCHANGED <<phase, current_alias, asked, answer, next_id, pending, reader,
                   read, peerd, socket>>

\* Mutant: the entries are handed out and stay.
TakeKeeps(n) ==
    /\ UNCHANGED <<inbox, event>>
    /\ read' = inbox[n]

\* n entries leave the inbox for the agent; the event is cleared with the last.
Take(n) ==
    /\ inbox' = SubSeq(inbox, n + 1, Len(inbox))
    /\ event' = (event /\ inbox' # <<>>)
    /\ read' = inbox[n]

\* Mutant: what exceeds the limit goes, too.
PeerInboxClears(limit) ==
    /\ phase = "serving" /\ inbox # <<>>
    /\ inbox' = <<>> /\ event' = FALSE
    /\ read' = inbox[IF Len(inbox) < limit THEN Len(inbox) ELSE limit]
    /\ UNCHANGED <<phase, current_alias, tasks, client, waiters, peerd, socket>>

\* peer_inbox.
PeerInbox(limit) ==
    /\ phase = "serving" /\ inbox # <<>>
    /\ Take(IF Len(inbox) < limit THEN Len(inbox) ELSE limit)
    /\ UNCHANGED <<phase, current_alias, tasks, client, waiters, peerd, socket>>

\* Mutant: the inbox is not looked at before the event is cleared.
PeerAwaitClearsFirst(r, what) ==
    /\ phase = "serving" /\ status[r] = "idle"
    /\ asked' = [asked EXCEPT ![r] = what]
    /\ event' = FALSE
    /\ waiters' = Append(waiters, r)
    /\ status' = [status EXCEPT ![r] = "waiting"]
    /\ UNCHANGED <<phase, current_alias, answer, ready, client, inbox, read,
                   peerd, socket>>

\* peer_await up to its await.
PeerAwait(r, what) ==
    /\ phase = "serving" /\ status[r] = "idle"
    /\ asked' = [asked EXCEPT ![r] = what]
    /\ IF inbox # <<>>
       THEN /\ Finish(r, <<"note", Head(inbox)>>)
            /\ Take(1)
            /\ UNCHANGED waiters
       ELSE /\ event' = FALSE
            /\ waiters' = Append(waiters, r)
            /\ status' = [status EXCEPT ![r] = "waiting"]
            /\ UNCHANGED <<answer, inbox, read>>
    /\ UNCHANGED <<phase, current_alias, ready, client, peerd, socket>>

\* peer_await after its await: the first entry, if nobody was faster.
AwaitResumes(r) ==
    /\ asked[r] \in {Await, TimedAwait}
    /\ IF inbox # <<>>
       THEN Finish(r, <<"note", Head(inbox)>>) /\ Take(1)
       ELSE Finish(r, <<"timeout">>) /\ UNCHANGED <<inbox, event, read>>
    /\ UNCHANGED <<phase, current_alias, asked, next_id, pending, reader, waiters,
                   fromClient>>

\* The timeout of wait_for, before the event or between it and the resumption.
TimesOut(r) ==
    /\ phase # "ended"
    /\ asked[r] = TimedAwait /\ status[r] \in {"waiting", "ready"}
    /\ Finish(r, <<"timeout">>)
    /\ waiters' = Without(waiters, r)
    /\ ready' = Without(ready, r)
    /\ UNCHANGED <<phase, current_alias, asked, client, inbox, event, read, peerd,
                   socket>>

-------------------------------------------------------------------------------
\* Calls of the agent, and McpServer.run.

\* A tool that makes one call of the daemon.  set_alias stands for all of them:
\* what the others do with the result is hand it to the agent.
ToolCall(r, what) ==
    /\ phase = "serving" /\ status[r] = "idle"
    /\ Call(r, what)
    /\ UNCHANGED <<phase, current_alias, ready, notifications, box, peerd, toClient>>

\* Mutant: whatever the daemon answered.
MirroredAlways(c) ==
    current_alias' = IF asked[c][1] = "set_alias" THEN asked[c][2] ELSE current_alias

\* An alias the daemon agreed to is mirrored.
Mirrored(c) ==
    current_alias' = IF asked[c][1] = "set_alias" /\ answer[c][1] = "ok"
                     THEN asked[c][2] ELSE current_alias

\* A tool's call has come back, and so does the tool.
CallResumes(r) ==
    /\ asked[r] \in Calls
    /\ status' = [status EXCEPT ![r] = "done"]
    /\ Mirrored(r)
    /\ UNCHANGED <<phase, asked, answer, next_id, pending, reader, box, fromClient>>

\* run: after hello, refused or not, the start-up alias is claimed; what the
\* claim comes back with, the sidecar serves.  A connection that is lost here is
\* not caught: the sidecar ends.
RunResumes ==
    /\ Mirrored(Run)
    /\ IF phase = "hello" /\ InitialAlias # None
       THEN /\ Call(Run, SetAliasTo(InitialAlias))
            /\ phase' = IF Listening THEN "alias" ELSE "ended"
       ELSE /\ phase' = "serving"
            /\ status' = [status EXCEPT ![Run] = "done"]
            /\ UNCHANGED <<asked, answer, next_id, pending, reader, fromClient>>
    /\ UNCHANGED box

Resume ==
    /\ phase # "ended" /\ ready # <<>>
    /\ LET c == Head(ready)
       IN  IF c = Run THEN RunResumes
           ELSE AwaitResumes(c) \/ CallResumes(c)
    /\ ready' = Tail(ready)
    /\ UNCHANGED <<notifications, peerd, toClient>>

\* The host closes stdin, or writes a line beyond 64 KiB, which readuntil raises on
\* and nobody catches: serve comes to its end, the forwarder is cancelled,
\* PeerClient.close fails the calls in progress, what else runs is cancelled with
\* the event loop, and what the process held goes with it.  One step: what tasks
\* and the daemon still do between these they may as well do before.
StdinCloses ==
    /\ phase = "serving"
    /\ phase' = "ended"
    /\ reader' = "ended"
    /\ pending' = {}
    /\ answer' = [c \in Caller |-> IF status[c] \in {"calling", "waiting", "ready"}
                                   THEN <<"raised">> ELSE answer[c]]
    /\ status' = [c \in Caller |-> IF status[c] = "idle" THEN "idle" ELSE "done"]
    /\ ready' = <<>> /\ waiters' = <<>>
    /\ inbox' = <<>> /\ event' = FALSE /\ notifications' = <<>>
    /\ fromClient' = <<>> /\ toClient' = <<>>
    /\ UNCHANGED <<current_alias, asked, next_id, read, peerd>>

-------------------------------------------------------------------------------
\* The daemon.

\* The handler carries out the calls of a connection one after another.  hello and
\* set_alias may be refused, or fail with internal_error after they registered the
\* session or took the alias (HelloDrainFails, SetAliasDrainFails of Router).  The
\* answer goes on the outbox, where a mute daemon never writes it.
DaemonAnswers ==
    /\ phase # "ended" /\ Listening /\ fromClient # <<>>
    /\ LET id == Head(fromClient)[1]
           what == Head(fromClient)[2]
           by == Head(fromClient)[3]
       IN  \E outcome \in {"ok", "refused", "internal"} :
             /\ session = "none" /\ what[1] # "hello" => outcome = "refused"
             /\ session # "none" /\ what = SetAliasTo(None) => outcome = "ok"
             /\ session' = CASE outcome = "refused" -> session
                             [] what[1] = "hello" -> None
                             [] OTHER -> what[2]
             /\ toClient' = IF daemon = "mute" THEN toClient
                            ELSE Append(toClient, <<"answer", id, outcome, by>>)
    /\ fromClient' = Tail(fromClient)
    /\ UNCHANGED <<phase, current_alias, tasks, client, box, daemon, sent>>

\* A message or presence goes on the outbox of a registered session.  From a mute
\* daemon it never comes.
DaemonNotifies ==
    /\ phase # "ended" /\ daemon = "up" /\ session # "none"
    /\ sent < MaxNotes
    /\ sent' = sent + 1
    /\ toClient' = Append(toClient, <<"note", sent + 1>>)
    /\ UNCHANGED <<phase, current_alias, tasks, client, box, daemon, session,
                   fromClient>>

\* A message that cannot be encoded goes on the outbox: the write loop will die of
\* it, and nothing put behind it reaches the client.  What is before it does, and
\* the transport stays open, so the client learns nothing.
DaemonMutes ==
    /\ phase # "ended" /\ daemon = "up"
    /\ daemon' = "mute"
    /\ UNCHANGED <<phase, current_alias, tasks, client, box, session, sent, socket>>

\* The handler ends and closes the connection, or the daemon ends, and the session
\* with it.  Calls on their way are lost, and what was written last may be.
DaemonGoes ==
    /\ phase # "ended" /\ Listening
    /\ daemon' = "gone"
    /\ session' = "none" /\ fromClient' = <<>>
    /\ \E n \in 0..Len(toClient) : toClient' = SubSeq(toClient, 1, n)
    /\ UNCHANGED <<phase, current_alias, tasks, client, box, sent>>

Host ==
    \/ \E r \in Req, what \in {Await, TimedAwait} : PeerAwait(r, what)
    \/ \E r \in Req, what \in Calls \ {<<"hello">>} : ToolCall(r, what)
    \/ \E limit \in Limits : PeerInbox(limit)
    \/ StdinCloses

Next ==
    \/ Host
    \/ ReadLine \/ ReadEnds \/ ReadOverruns \/ Forward \/ Resume
    \/ \E r \in Req : TimesOut(r)
    \/ DaemonAnswers \/ DaemonNotifies \/ DaemonMutes \/ DaemonGoes

\* Tasks that can run do, timers fire, and the daemon's handler, which nothing
\* suspends, carries out what it is sent: it answers unless it is mute.  Nothing
\* makes it notify, write long lines, fall mute or go, nor the host call or close.
Fairness ==
    /\ WF_vars(ReadLine) /\ WF_vars(ReadEnds) /\ WF_vars(Forward)
    /\ WF_vars(Resume) /\ WF_vars(DaemonAnswers)
    /\ \A r \in Req : WF_vars(TimesOut(r))

Spec == Init /\ [][Next]_vars
FairSpec == Spec /\ Fairness
-------------------------------------------------------------------------------
TypeOK ==
    /\ phase \in {"hello", "alias", "serving", "ended"}
    /\ asked \in [Caller -> Calls \cup {None, Await, TimedAwait}]
    /\ status \in [Caller -> {"idle", "calling", "waiting", "ready", "done"}]
    /\ pending \subseteq (1..next_id) \X Caller
    /\ reader \in {"reading", "ended"}
    /\ Ids(inbox) \cup Ids(notifications) \cup {read} \subseteq 0..MaxNotes
    /\ Len(inbox) <= InboxMaxlen
    /\ Ids(ready) \cup Ids(waiters) \subseteq Caller
    /\ current_alias \in Alias \cup {None}
    /\ daemon \in {"up", "mute", "gone", "absent"}
    /\ session \in Alias \cup {None, "none"}

\* Nobody sleeps over a notification: while a peer_await waits, the inbox is
\* empty, it is among those the event wakes, and the event is not set.  Between
\* the look at the inbox and the wait nothing may suspend, and no other task may
\* clear the event for it (mcp_server.py:441-452).
NoSleeperMissed ==
    \A c \in Caller : status[c] = "waiting" => /\ inbox = <<>> /\ ~event
                                              /\ c \in Ids(waiters)

Notes(q) == LET l == Select(q, {line \in Ids(q) : line[1] = "note"})
            IN  [i \in DOMAIN l |-> l[i][2]]

\* What the agent has yet to read (inbox, client queue, socket) are consecutive
\* notifications in the order the daemon sent them, up to its last one while they
\* are read; none was read before, and no two awaits got the same one.
NotesInOrder ==
    LET unread == inbox \o notifications
                  \o (IF reader = "reading" THEN Notes(toClient) ELSE <<>>)
    IN  /\ \A i \in 2..Len(unread) : unread[i] = unread[i - 1] + 1
        /\ daemon = "up" /\ reader = "reading" /\ unread # <<>> =>
             unread[Len(unread)] = sent
        /\ \A n \in Ids(unread) : read < n
        /\ \A c, d \in Caller : c # d /\ answer[c] = answer[d] /\ answer[c] # None
                                => answer[c][1] # "note"

\* An answer of the daemon comes back from the call it answers, however many
\* tools call at once (client.py:92-95, 119-122).
AnswersMatch ==
    \A c \in Caller :
        answer[c] # None /\ Len(answer[c]) = 2 /\ answer[c][1] # "note" =>
          answer[c][2] = c

\* Whenever no set_alias is under way, none failed half-way with internal_error,
\* and the daemon holds the session, peer_whoami tells the alias it holds
\* (mcp_server.py:457-464): claims come back in the order they were carried out.
AliasMirrored ==
    LET claims == {c \in Caller : asked[c] # None /\ asked[c][1] = "set_alias"}
    IN  /\ daemon = "up" /\ session # "none" /\ phase # "ended"
        /\ \A c \in claims : status[c] = "done" /\ answer[c][1] # "internal"
        => current_alias = session

\* A notification leaves the inbox unread only as the oldest of a full inbox, for
\* a newer one (mcp_server.py:164): neither a limit of peer_inbox nor an await
\* that comes too late or times out loses any.
OnlyOverflowLoses ==
    [][\A n \in Ids(inbox) \ Ids(inbox') :
         \/ n <= read' \/ phase' = "ended"
         \/ n = Head(inbox) /\ Len(inbox) = InboxMaxlen /\ Len(inbox') = InboxMaxlen]_vars

\* The calls in progress all end, whatever the host and other tasks do, unless one
\* of two loops dies under them: the read loop of the client (end of stream, a line
\* too long), which leaves the futures in `pending` as they are (client.py:106-109),
\* or the daemon's write loop, of which the client learns nothing
\* (connection.py:124-126).  Then they hang until the sidecar closes, and nothing is
\* promised here.
CallsEnd ==
    (\E c \in Caller : status[c] = "calling") ~>
        \/ \A c \in Caller : status[c] # "calling"
        \/ reader = "ended" \/ daemon = "mute"

\* A peer_await with a timeout ends, and any peer_await ends once a
\* notification is queued for the agent, unless the sidecar closes.
AwaitsEnd ==
    \A c \in Req :
        status[c] = "waiting" /\ (asked[c] = TimedAwait \/ notifications # <<>>) ~>
          status[c] = "done" \/ phase = "ended"
===============================================================================
