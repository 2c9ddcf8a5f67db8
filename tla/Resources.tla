------------------------------- MODULE Resources -------------------------------
(***************************************************************************)
(* The resources of the MCP sidecar, end to end: a host that subscribes to *)
(* peer://inbox and peer://peers and reads again whenever it is told of an *)
(* update; the sidecar, whose event loop runs one task per request of the  *)
(* host, the forwarder and the read loop of its PeerClient; and the daemon *)
(* with the sessions it announces as they come and go.                     *)
(*                                                                         *)
(* Pipes and the socket keep order.  A step is what a task does between    *)
(* two awaits that suspend: of the handlers only the read of peer://peers  *)
(* has one, its call of the daemon, and writing to stdout has none.  An    *)
(* answer comes back to its call (AnswersMatch of Sidecar); the daemon     *)
(* stays up and its disk works (else see Sidecar and Router).              *)
(***************************************************************************)
EXTENDS PersistentDeque

CONSTANTS
    Peer,          \* other sessions of the daemon
    InboxMaxlen,
    MaxNotes,      \* bound: notifications the daemon sends
    MaxAsks        \* bound: requests the host makes unasked

ASSUME InboxAssumption == InboxMaxlen \in Nat \ {0}
ASSUME BoundsAssumption == MaxNotes \in Nat /\ MaxAsks \in Nat

VARIABLES
    peers,          \* the other sessions registered with the daemon
    sent,           \* notifications it has sent
    calls,          \* list_peers calls on their way to it
    lines,          \* its lines on their way: notifications and answers
    notifications,  \* PeerClient._notifications
    inbox, subscribed_resources,    \* of McpServer
    ready,          \* tasks that can run: new ones, and those with an answer
    stdin, stdout,  \* what the host and the sidecar wrote and the other did not read
    asks,           \* requests the host has made unasked
    wants,          \* the resources it follows
    known           \* what it read last of each resource

daemon  == <<peers, sent>>
socket  == <<calls, lines>>
sidecar == <<notifications, inbox, subscribed_resources, ready>>
host    == <<asks, wants, known>>
vars    == <<daemon, socket, sidecar, stdin, stdout, host>>

Uri == {"inbox", "peers"}

Message(n)  == <<"message", n>>     \* peer.message
Presence(n) == <<"presence", n>>    \* peer.peer_joined, peer_left, alias_changed

Read(uri)          == <<"read", uri>>
Answer(uri, what)  == <<"read", uri, what>>
Update(uri)        == <<"update", uri>>

Init ==
    /\ peers \in SUBSET Peer /\ sent = 0
    /\ calls = 0 /\ lines = <<>> /\ stdin = <<>> /\ stdout = <<>>
    /\ notifications = <<>> /\ inbox = <<>> /\ subscribed_resources = {} /\ ready = <<>>
    /\ asks = 0 /\ wants = {} /\ known = [uri \in Uri |-> {}]

-------------------------------------------------------------------------------
\* The host.

Follow(uri) ==
    /\ asks < MaxAsks /\ uri \notin wants
    /\ wants' = wants \cup {uri}
    /\ stdin' = stdin \o <<<<"subscribe", uri>>, Read(uri)>>
    /\ asks' = asks + 1
    /\ UNCHANGED <<daemon, socket, sidecar, stdout, known>>

Unfollow(uri) ==
    /\ asks < MaxAsks /\ uri \in wants
    /\ wants' = wants \ {uri}
    /\ stdin' = Append(stdin, <<"unsubscribe", uri>>)
    /\ asks' = asks + 1
    /\ UNCHANGED <<daemon, socket, sidecar, stdout, known>>

\* An update makes it read again; what it read replaces what it knew.
HostReads ==
    /\ stdout # <<>>
    /\ stdout' = Tail(stdout)
    /\ LET line == Head(stdout)
           uri == line[2]
       IN  IF line[1] = "update"
           THEN /\ stdin' = IF uri \in wants THEN Append(stdin, Read(uri)) ELSE stdin
                /\ UNCHANGED known
           ELSE /\ known' = [known EXCEPT ![uri] = line[3]]
                /\ UNCHANGED stdin
    /\ UNCHANGED <<daemon, socket, sidecar, asks, wants>>

-------------------------------------------------------------------------------
\* The sidecar.

\* StdioJsonRpc.serve reads a line and creates a task for it.
Serve ==
    /\ stdin # <<>>
    /\ stdin' = Tail(stdin)
    /\ ready' = Append(ready, Head(stdin))
    /\ UNCHANGED <<daemon, socket, notifications, inbox, subscribed_resources, stdout,
                   host>>

\* Mutant: the last one alone.
SubscribedLast(uri) == {uri}

Subscribed(uri) == subscribed_resources \cup {uri}

\* The first task that can run does, until its await or its end: the handlers of
\* resources/subscribe, unsubscribe and read.  What a read of peer://peers comes
\* back with is written when its answer is in.
Handle ==
    /\ ready # <<>>
    /\ ready' = Tail(ready)
    /\ LET task == Head(ready)
           uri == task[2]
       IN  \/ /\ task[1] = "subscribe"
              /\ subscribed_resources' = Subscribed(uri)
              /\ UNCHANGED <<calls, stdout>>
           \/ /\ task[1] = "unsubscribe"
              /\ subscribed_resources' = subscribed_resources \ {uri}
              /\ UNCHANGED <<calls, stdout>>
           \/ /\ task = Read("inbox")
              /\ stdout' = Append(stdout, Answer("inbox", Ids(inbox)))
              /\ UNCHANGED <<subscribed_resources, calls>>
           \/ /\ task = Read("peers")
              /\ calls' = calls + 1
              /\ UNCHANGED <<subscribed_resources, stdout>>
           \/ /\ task[1] = "read" /\ Len(task) = 3
              /\ stdout' = Append(stdout, task)
              /\ UNCHANGED <<subscribed_resources, calls>>
    /\ UNCHANGED <<daemon, lines, notifications, inbox, stdin, host>>

\* PeerClient._read_loop takes one line.
ReadLine ==
    /\ lines # <<>>
    /\ lines' = Tail(lines)
    /\ LET line == Head(lines)
       IN  IF line[1] = "answer"
           THEN /\ ready' = Append(ready, Answer("peers", line[2]))
                /\ UNCHANGED notifications
           ELSE /\ notifications' = Append(notifications, line)
                /\ UNCHANGED ready
    /\ UNCHANGED <<daemon, calls, inbox, subscribed_resources, stdin, stdout, host>>

\* Mutant: only the first entry of an empty inbox is worth an update.
TouchesOnce(note) ==
    IF note[1] = "presence" THEN "peers"
    ELSE IF inbox = <<>> THEN "inbox" ELSE "nothing"

\* Mutant: a presence notification is an update of the inbox it enters.
TouchesInbox(note) == "inbox"

\* The resource that a notification is an update of.
Touches(note) == IF note[1] = "presence" THEN "peers" ELSE "inbox"

\* McpServer._forward_notifications.
Forward ==
    /\ notifications # <<>>
    /\ notifications' = Tail(notifications)
    /\ LET note == Head(notifications)
       IN  /\ inbox' = AppendBounded(inbox, note, InboxMaxlen)
           /\ stdout' = IF Touches(note) \in subscribed_resources
                        THEN Append(stdout, Update(Touches(note))) ELSE stdout
    /\ UNCHANGED <<daemon, socket, subscribed_resources, ready, stdin, host>>

\* The agent takes what is in the inbox, with peer_inbox or peer_await.
AgentTakes ==
    /\ inbox # <<>>
    /\ \E n \in {1, Len(inbox)} : inbox' = SubSeq(inbox, n + 1, Len(inbox))
    /\ UNCHANGED <<daemon, socket, notifications, subscribed_resources, ready, stdin,
                   stdout, host>>

-------------------------------------------------------------------------------
\* The daemon.

Notify(note) ==
    /\ sent < MaxNotes
    /\ sent' = sent + 1
    /\ lines' = Append(lines, note)
    /\ UNCHANGED <<calls, sidecar, stdin, stdout, host>>

\* A session comes or leaves, and is announced in the same go.
PeerChanges ==
    /\ \E p \in Peer : peers' = (peers \ {p}) \cup ({p} \ peers)
    /\ Notify(Presence(sent + 1))

DaemonSends ==
    /\ Notify(Message(sent + 1))
    /\ UNCHANGED peers

DaemonAnswers ==
    /\ calls > 0
    /\ calls' = calls - 1
    /\ lines' = Append(lines, <<"answer", peers>>)
    /\ UNCHANGED <<daemon, sidecar, stdin, stdout, host>>

Next ==
    \/ \E uri \in Uri : Follow(uri) \/ Unfollow(uri)
    \/ HostReads
    \/ Serve \/ Handle \/ ReadLine \/ Forward \/ AgentTakes
    \/ PeerChanges \/ DaemonSends \/ DaemonAnswers

\* Tasks that can run do, the daemon answers and the host reads what it is told.
Fairness ==
    /\ WF_vars(Serve) /\ WF_vars(Handle) /\ WF_vars(ReadLine) /\ WF_vars(Forward)
    /\ WF_vars(DaemonAnswers) /\ WF_vars(HostReads)

Spec == Init /\ [][Next]_vars
FairSpec == Spec /\ Fairness
-------------------------------------------------------------------------------
About(uri, q) == \E i \in DOMAIN q : q[i][2] = uri /\ q[i][1] # "unsubscribe"

\* A host that follows peer://inbox knows of every message in it, unless the
\* sidecar has yet to tell it of an update or to let it read: whatever it asked in
\* between, and though it reads while messages arrive and the agent takes some
\* (mcp_server.py:226-233, 342-345).
InboxKnown ==
    "inbox" \in wants /\ ~About("inbox", stdin \o ready \o stdout) =>
      \A note \in Ids(inbox) : note[1] = "message" => note \in known["inbox"]

\* And one that follows peer://peers knows the sessions of the daemon once nothing
\* is under way from one to the other: no list it read is older than the last
\* change it was told of (mcp_server.py:234-241, 346-350).
PeersKnown ==
    /\ "peers" \in wants
    /\ ~About("peers", stdin \o ready \o stdout)
    /\ calls = 0 /\ \A i \in DOMAIN lines : lines[i][1] = "message"
    /\ \A i \in DOMAIN notifications : notifications[i][1] = "message"
    => known["peers"] = peers

\* When sessions no longer come or leave, a host that goes on following gets to
\* know them, and keeps to it.
ViewConverges ==
    \A at \in SUBSET Peer :
        <>[](peers = at /\ "peers" \in wants) => <>[](known["peers"] = at)
===============================================================================
