--------------------------- MODULE RouterProperties ---------------------------
(***************************************************************************)
(* What makes the daemon of module Router correct.                         *)
(***************************************************************************)
EXTENDS Router

MsgId == 1..Len(minted)

ConnState ==
    [open : BOOLEAN, sid : Sid \cup {None}, home : Home \cup {None},
     alias : Alias \cup {None}, subscriptions : SUBSET Topic,
     dm_filter : SUBSET FromAddr, wire : WireFilters \cup {None},
     closed : BOOLEAN]

MessageState ==
    [from : FromAddr, to : Addr, acked : BOOLEAN, delivered : Nat]

\* The registry and the connections have the types their annotations give them.
RegistryTypeOK ==
    /\ conn \in [Conn -> ConnState]
    /\ connections \in [Sid -> Conn \cup {None}]
    /\ by_home \in [Home -> SUBSET Sid]
    /\ aliases_by_home \in [Home -> [Alias -> Sid \cup {None}]]
    /\ topic_subs \in [Topic -> SUBSET Sid]

\* The stores hold sequences of message ids, and minted messages are typed.
StoreTypeOK ==
    /\ minted \in Seq(MessageState)
    /\ buffers \in [Addr -> Seq(Nat)]
    /\ files \in [Addr -> Seq(Nat)]

\* Type invariant of the daemon: registry, stores, outboxes and history.
TypeOK ==
    /\ RegistryTypeOK
    /\ StoreTypeOK
    /\ outbox \in [Conn -> Seq({"message", "wire"} \X MsgId)]
    /\ handed \subseteq MsgId
    /\ \A c \in Conn :
         /\ seen[c].view # None =>
              seen[c].view \subseteq Sid \X Home \X (Alias \cup {None})
         /\ seen[c].watchedAt \in 0..Len(minted)
         /\ \A t \in Topic : seen[c].joined[t] # None =>
              seen[c].joined[t] \in [pos : Nat, from : Nat, at : 0..Len(minted)]

-------------------------------------------------------------------------------
\* The registry.

\* connections[s] is the one open connection that said hello as s.
ConnectionsExact ==
    \A s \in Sid, c \in Conn :
        connections[s] = c <=> conn[c].open /\ conn[c].sid = s

\* by_home lists exactly the live sessions of each home.
ByHomeExact ==
    \A h \in Home, s \in Sid :
        s \in by_home[h] <=> \E c \in Conn : conn[c].sid = s /\ conn[c].home = h

\* aliases_by_home maps an alias to the live session of that home which holds it.
AliasesExact ==
    \A h \in Home, al \in Alias, s \in Sid :
        aliases_by_home[h][al] = s <=>
            \E c \in Conn : /\ conn[c].sid = s /\ conn[c].home = h
                            /\ conn[c].alias = al

\* topic_subs lists exactly the live sessions whose Connection holds the topic.
TopicSubsExact ==
    \A t \in Topic, s \in Sid :
        s \in topic_subs[t] <=>
            \E c \in Conn : conn[c].sid = s /\ t \in conn[c].subscriptions

\* A connection has a home exactly when it has a sid, holds an alias or a topic
\* only then, and is open.
IdentityWhole ==
    \A c \in Conn :
        /\ conn[c].sid # None <=> conn[c].home # None
        /\ conn[c].sid # None => conn[c].open
        /\ conn[c].sid = None => conn[c].alias = None /\ conn[c].subscriptions = {}

\* The four dictionaries of Router and the fields of the Connections never
\* disagree, in whatever order sessions say hello, rename, subscribe, fail and
\* leave: nobody is routed to a session that left, nor missed.
RegistryExact ==
    /\ ConnectionsExact
    /\ ByHomeExact
    /\ AliasesExact
    /\ TopicSubsExact
    /\ IdentityWhole

\* SPEC section 2: an alias is unique within its home among live sessions.
AliasUnique ==
    \A c, d \in Conn :
        /\ c # d
        /\ conn[c].alias # None
        /\ conn[c].home = conn[d].home
        => conn[c].alias # conn[d].alias

\* SPEC section 6: a client that listed the peers once and follows the presence
\* notifications knows the live sessions, their homes and their aliases exactly.
PresenceViewExact ==
    \A c \in Conn :
        Identified(c) /\ ~conn[c].closed /\ seen[c].view # None
            => seen[c].view = Sessions

-------------------------------------------------------------------------------
\* Direct messages.

\* Connection c is one the address names.
Names(a, c) == \E s \in Recipients(a) : connections[s] = c

\* SPEC sections 2 and 5: a DM never waits in a queue while a session its
\* address names is connected, unless that session sent it or has set a filter.
NoStrandedDm ==
    \A a \in DmAddr : \A i \in Ids(buffers[a]) : \A c \in Conn :
        Names(a, c) => minted[i].from = FromOf(c) \/ seen[c].narrowed

\* q holds messages minted for address a, each once, oldest first, within the
\* bound of a.
Orderly(q, a) ==
    /\ Len(q) <= Maxlen(a)
    /\ \A i \in 1..Len(q) : q[i] \in MsgId /\ minted[q[i]].to = a
    /\ \A i, j \in 1..Len(q) : i < j => q[i] < q[j]

\* Every queue and ring is orderly, in memory and on disk: whatever fails and
\* whenever the daemon restarts, a message is never filed under another address,
\* twice, out of order or beyond the bound.
QueuesOrderly ==
    \A a \in Addr : Orderly(buffers[a], a) /\ Orderly(files[a], a)

\* A queued DM has not been handed to anybody: neither a drain whose unlink
\* fails nor a restart makes the daemon deliver one twice.
QueuedUndelivered ==
    \A a \in DmAddr : Ids(buffers[a]) \cap handed = {}

\* The DMs of one address that others sent reach a session that never filtered
\* in the order they were sent, queued ones before live ones.
DmFifo ==
    \A c \in Conn : Identified(c) /\ ~seen[c].narrowed =>
        \A i, j \in DOMAIN outbox[c] :
            LET m == minted[outbox[c][i][2]]
            IN  /\ i < j
                /\ outbox[c][i][1] = "message" /\ outbox[c][j][1] = "message"
                /\ m.to \in DmAddr
                /\ minted[outbox[c][j][2]].to = m.to
                /\ FromOf(c) \notin {m.from, minted[outbox[c][j][2]].from}
                => outbox[c][i][2] < outbox[c][j][2]

\* The queue of a is drained into a session that came or took the name in this
\* step, whose filter turns DM i down, or whose Connection is closed.
Refused(a, i) ==
    \E c \in Conn : /\ ~Names(a, c) /\ Names(a, c)'
                    /\ minted[i].from \notin conn[c].dm_filter \/ conn[c].closed

\* The queue of a is emptied and the unlink fails: DM i is on disk alone.
LeftOnDisk(a, i) ==
    /\ "disk" \in Faults
    /\ buffers'[a] = <<>> /\ files'[a] = files[a] /\ i \in Ids(files[a])

\* Every way a DM whose sender was told it is queued can be lost.  It leaves the
\* queue by being handed to somebody, by falling off a full queue as the oldest,
\* refused by the session drained, or to be on disk alone after a failed unlink
\* (persistence.py:68-70).  What is on disk alone is lost for good when the file is
\* next written from memory or unlinked (94-104); a restart before that finds it.
LossesAccounted ==
    [][\A a \in DmAddr :
          /\ \A i \in Ids(buffers[a]) \ Ids(buffers'[a]) :
               \/ ~minted[i].acked
               \/ i \in handed'
               \/ i = buffers[a][1] /\ Len(buffers'[a]) = DmMaxlen
               \/ Refused(a, i)
               \/ LeftOnDisk(a, i)
          /\ \A i \in Ids(files[a]) \ (Ids(files'[a]) \cup Ids(buffers[a])) :
               files'[a] = buffers'[a]]_vars

\* Message i as MailService knows it, and the direct messages among those of q.
Letter(i) == [id |-> i, from |-> minted[i].from, to |-> minted[i].to,
              delivered |-> minted[i].delivered]
Letters(q) == [k \in DOMAIN q |-> Letter(q[k])]
IsDm(e) == e[1] = "message" /\ minted[e[2]].to \in DmAddr
DmsIn(c) == LET q == Select(outbox[c], {e \in Ids(outbox[c]) : IsDm(e)})
            IN  [k \in DOMAIN q |-> Letter(q[k][2])]

\* The promise about direct messages, of the sessions registered and of what is
\* queued and handed over.
Mail == INSTANCE MailService WITH
    Slot <- Conn, Id <- 1..MaxMsg, MaxLen <- DmMaxlen,
    present <- {[slot |-> c, sid |-> conn[c].sid, home |-> conn[c].home,
                 alias |-> conn[c].alias, accepts |-> conn[c].dm_filter,
                 gone |-> conn[c].closed] : c \in {c \in Conn : Identified(c)}},
    mail <- {Letter(i) : i \in {i \in MsgId : minted[i].to \in DmAddr}},
    waiting <- [a \in DmAddr |-> Letters(buffers[a])],
    inbox <- [c \in Conn |-> IF Identified(c) THEN DmsIn(c) ELSE <<>>]

\* The router, its four dictionaries, its drains, its files and all it does beside
\* implement the mail service: every message reaches exactly those its address
\* names when it is sent, or waits for the first of them that comes or takes the
\* name, behind those sent before it, and no other request, watcher, topic or
\* restart disturbs it, as long as no write to disk fails.
ImplementsMailService == Mail!Spec

-------------------------------------------------------------------------------
\* Topics.

\* The ids to topic t that satisfy Test, in the order they were minted.
Published(t, Test(_)) ==
    Select([i \in MsgId |-> i], {i \in MsgId : minted[i].to = t /\ Test(i)})

\* A topic's ring is the tail of everything published to it, across restarts.
RingIsTail ==
    \A t \in Topic :
        LET Any(i) == TRUE
        IN  buffers[t] = LastN(Published(t, Any), TopicMaxlen)

\* From its last subscribe on, a subscriber is handed the replayed messages and
\* then every later one by others: no gap, no repeat, in order.
TopicFeedExact ==
    \A c \in Conn, t \in Topic :
        LET start == seen[c].joined[t]
            news == SubSeq(outbox[c], start.pos + 1, Len(outbox[c]))
            fed == Select(news, {e \in Ids(news) : /\ e[1] = "message"
                                                   /\ minted[e[2]].to = t})
            Due(i) == /\ i > start.from
                      /\ i <= start.at \/ minted[i].from # FromOf(c)
        IN  Identified(c) /\ ~conn[c].closed /\ start # None =>
                [k \in DOMAIN fed |-> fed[k][2]] = Published(t, Due)

-------------------------------------------------------------------------------
\* Wire observation.

\* The positions of c's outbox that hold a copy of message i made by `kind`.
Copies(c, kind, i) == {k \in DOMAIN outbox[c] : outbox[c][k] = <<kind, i>>}

\* SPEC section 5: since its last watch a watcher got exactly one wire copy of
\* each message of others that both its filters match, and of no other; a send
\* that was answered internal_error is not observed.
WireExact ==
    \A c \in Conn : Identified(c) /\ ~conn[c].closed /\ conn[c].wire # None =>
        \A i \in (seen[c].watchedAt + 1)..Len(minted) :
            Cardinality(Copies(c, "wire", i)) =
                IF /\ minted[i].acked
                   /\ minted[i].from # FromOf(c)
                   /\ minted[i].from \in conn[c].wire.from
                   /\ minted[i].to \in conn[c].wire.to
                THEN 1 ELSE 0

-------------------------------------------------------------------------------
\* Disk.

\* A message its sender was told of is in the file as long as it is in memory:
\* the next start finds it, whatever flush or unlink failed before or after.
AckedDurable ==
    \A a \in Addr : \A i \in Ids(buffers[a]) :
        minted[i].acked => i \in Ids(files[a])

\* The queue or ring of one address, as MessageQueue promises it.
QueueOf(a) == INSTANCE MessageQueue WITH
                  Msg <- 1..MaxMsg, MaxLen <- Maxlen(a),
                  memory <- buffers[a], disk <- files[a]

\* Whatever the router's handlers do, one step of theirs does to each queue and
\* ring one thing a PersistentDeque can do: never a message filed and lost in one
\* go, never a file that is neither the old contents nor those of memory.
UsesMessageQueues ==
    /\ \A a \in Addr : QueueOf(a)!Init
    /\ [][\A a \in Addr :
            [QueueOf(a)!Next]_<<buffers[a], files[a]>>]_<<buffers, files>>
===============================================================================
