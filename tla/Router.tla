-------------------------------- MODULE Router --------------------------------
(***************************************************************************)
(* blemees-peerd as its event loop runs it: the Router's registry, the     *)
(* Connections it serves, the DM queues and topic rings it persists.       *)
(*                                                                         *)
(* Handlers interleave at whole-request granularity: the only awaits       *)
(* inside a handler are puts on an unbounded asyncio.Queue, which never    *)
(* suspend, so one dispatched request is one action.  A request that the   *)
(* code answers with an error before it changes anything (hello required,  *)
(* invalid params, alias taken) is a guard here: the state stays put.      *)
(*                                                                         *)
(* Abstractions: a message is the index at which it was minted; a glob     *)
(* filter is the set of canonical addresses it matches; an address is a    *)
(* pair <<home, discriminator>> or a topic; home names contain no '#'.     *)
(***************************************************************************)
EXTENDS PersistentDeque, FiniteSets

CONSTANTS
    Conn,          \* slots for Connection objects
    Sid, Home, Alias, Topic,
    None,          \* Python's None
    DmMaxlen,      \* bound of a DM queue
    TopicMaxlen,   \* bound of a topic ring
    DmFilters,     \* address sets a client may install as its DM filter
    WireFilters,   \* [from, to] address sets a watcher may install
    Replays,       \* replay counts a subscriber may ask for
    Methods,       \* the requests clients of this instance make
    Faults,        \* subset of {"writer", "disk", "restart"}
    MaxMsg,        \* bound: messages minted in a behaviour
    MaxOutbox      \* bound: outbox length up to which a replay is asked for

FromAddr == Home \X Sid
DmAddr   == Home \X (Sid \cup Alias \cup {None})
Addr     == DmAddr \cup Topic

ASSUME NamesAssumption ==
    /\ None \notin Conn \cup Sid \cup Home \cup Alias
    /\ Sid \cap Alias = {}
    /\ DmAddr \cap Topic = {}

ASSUME SlotsAssumption == IsFiniteSet(Conn)

ASSUME BoundsAssumption ==
    /\ DmMaxlen \in Nat \ {0} /\ TopicMaxlen \in Nat \ {0}
    /\ MaxMsg \in Nat /\ MaxOutbox \in Nat /\ Replays \subseteq Nat

ASSUME FiltersAssumption ==
    /\ DmFilters \subseteq SUBSET FromAddr
    /\ None \notin WireFilters
    /\ WireFilters \subseteq [from : SUBSET FromAddr, to : SUBSET Addr]

VARIABLES
    conn,             \* per slot, the fields of its Connection object
    outbox,           \* per slot, every message notification put on its outbox
    connections,      \* sid -> slot or None
    by_home,          \* home -> sids
    aliases_by_home,  \* home -> alias -> sid or None
    topic_subs,       \* topic -> sids
    buffers,          \* address -> the deque in memory
    files,            \* address -> what its JSONL file holds
    minted,           \* every message minted, by id
    handed,           \* ids of DMs put on the outbox of a live connection
    seen              \* per slot, what its client can tell (history only)

registry == <<connections, by_home, aliases_by_home, topic_subs>>
store    == <<buffers, files>>
mail     == <<outbox, minted, handed>>
vars     == <<conn, registry, store, mail, seen>>

-------------------------------------------------------------------------------
\* State functions.

FreshConn == [open |-> FALSE, sid |-> None, home |-> None, alias |-> None,
              subscriptions |-> {}, dm_filter |-> FromAddr, wire |-> None,
              closed |-> FALSE]

\* view: None, or the sessions a client knows of from one list_peers and the
\* presence notifications after it.  joined: per topic, where its feed starts.
\* watchedAt: the last message minted before its watch.  narrowed: has
\* installed a filter.
FreshSeen == [view |-> None, joined |-> [t \in Topic |-> None],
              watchedAt |-> 0, narrowed |-> FALSE]

Identified(c) == conn[c].sid # None
FromOf(c) == <<conn[c].home, conn[c].sid>>
Maxlen(a) == IF a \in Topic THEN TopicMaxlen ELSE DmMaxlen
NextId == Len(minted) + 1
May(method) == method \in Methods

\* What list_peers answers: <<sid, home, alias>> of every registered session.
Sessions ==
    {<<p[1], p[2], conn[connections[p[1]]].alias>> :
        p \in {p \in Sid \X Home : /\ p[1] \in by_home[p[2]]
                                   /\ connections[p[1]] # None}}

\* Connection._enqueue: a closed connection drops what it is sent.
Put(c, entries) == IF conn[c].closed THEN outbox[c] ELSE outbox[c] \o entries

Message(i) == <<"message", i>>
Wire(i)    == <<"wire", i>>
Messages(q) == [k \in DOMAIN q |-> Message(q[k])]

\* Router._broadcast: the client of every registered session but `except`
\* takes session `gone` off the sessions it knows of and adds `added`.
Broadcast(past, except, gone, added) ==
    [d \in Conn |->
        IF /\ \E s \in Sid \ {except} : connections'[s] = d
           /\ ~conn[d].closed
           /\ past[d].view # None
        THEN [past[d] EXCEPT !.view = {e \in @ : e[1] # gone} \cup added]
        ELSE past[d]]

\* Router._resolve_dm_recipients.
Recipients(a) ==
    CASE a[2] = None    -> by_home[a[1]]
      [] a[2] \in Alias -> {s \in Sid : aliases_by_home[a[1]][a[2]] = s}
      [] OTHER          -> {s \in Sid : /\ s = a[2] /\ connections[s] # None
                                        /\ conn[connections[s]].home = a[1]}

\* The connections Router.send hands a DM to: never the sender, only those
\* whose filter matches.
DmTargets(c, a) ==
    {d \in Conn : \E s \in Recipients(a) :
        /\ s # conn[c].sid
        /\ connections[s] = d
        /\ FromOf(c) \in conn[d].dm_filter}

\* Mutant: the publisher is not left out.
TopicTargetsEcho(c, t) ==
    {d \in Conn : \E s \in topic_subs[t] : connections[s] = d}

\* The connections Router.publish hands a topic message to.
TopicTargets(c, t) ==
    {d \in Conn : \E s \in topic_subs[t] \ {conn[c].sid} : connections[s] = d}

\* Mutant: the `to` filter is forgotten.
WatchersOfSender(c, a) ==
    {d \in Conn : /\ \E s \in Sid \ {conn[c].sid} : connections[s] = d
                  /\ conn[d].wire # None
                  /\ FromOf(c) \in conn[d].wire.from}

\* Router._fanout_to_watchers: registered, watching, both filters match, not
\* the sender.
Watchers(c, a) ==
    {d \in Conn : /\ \E s \in Sid \ {conn[c].sid} : connections[s] = d
                  /\ conn[d].wire # None
                  /\ FromOf(c) \in conn[d].wire.from
                  /\ a \in conn[d].wire.to}

\* The outboxes after message i went to targets and a copy to watchers.
FanOut(i, targets, watchers) ==
    [d \in Conn |->
        Put(d, (IF d \in targets THEN <<Message(i)>> ELSE <<>>)
            \o (IF d \in watchers THEN <<Wire(i)>> ELSE <<>>))]

-------------------------------------------------------------------------------
Init ==
    /\ conn = [c \in Conn |-> FreshConn]
    /\ outbox = [c \in Conn |-> <<>>]
    /\ connections = [s \in Sid |-> None]
    /\ by_home = [h \in Home |-> {}]
    /\ aliases_by_home = [h \in Home |-> [al \in Alias |-> None]]
    /\ topic_subs = [t \in Topic |-> {}]
    /\ buffers = [a \in Addr |-> <<>>]
    /\ files = [a \in Addr |-> <<>>]
    /\ minted = <<>>
    /\ handed = {}
    /\ seen = [c \in Conn |-> FreshSeen]

\* The client connects: _handle_connection creates its Connection.
Accept(c) ==
    /\ ~conn[c].open
    /\ conn' = [conn EXCEPT ![c] = [FreshConn EXCEPT !.open = TRUE]]
    /\ outbox' = [outbox EXCEPT ![c] = <<>>]
    /\ seen' = [seen EXCEPT ![c] = FreshSeen]
    /\ UNCHANGED <<registry, store, minted, handed>>

-------------------------------------------------------------------------------
\* Queue draining, shared by hello and set_alias.

\* What _drain_dm_queue forwards of the queue of `a` to connection c: the
\* messages its filter accepts, in queue order.
Accepted(c, a) == {i \in Ids(buffers[a]) : minted[i].from \in conn[c].dm_filter}

\* Mutant: popped from the wrong end.
DrainedNewestFirst(c, a) ==
    LET q == Select(buffers[a], Accepted(c, a))
    IN  [k \in DOMAIN q |-> q[Len(q) + 1 - k]]

Drained(c, a)  == Select(buffers[a], Accepted(c, a))

\* The queues of `done` are emptied with their files; where unlink raises
\* (`failed`) the deque is already cleared and the file stays.
Drain(done, failed) ==
    /\ buffers' = [a \in Addr |-> IF a \in done \cup failed THEN <<>>
                                  ELSE buffers[a]]
    /\ files' = [a \in Addr |-> IF a \in done /\ buffers[a] # <<>> THEN <<>>
                                ELSE files[a]]

Hand(c, q, ids) ==
    /\ outbox' = [outbox EXCEPT ![c] = Put(c, Messages(q))]
    /\ handed' = IF conn[c].closed THEN handed ELSE handed \cup ids

\* Router.hello up to its drains: the sid is free, the connection takes it.
Register(c, s, h) ==
    /\ conn[c].open
    /\ ~Identified(c)
    /\ connections[s] = None
    /\ conn' = [conn EXCEPT ![c] = [@ EXCEPT !.sid = s, !.home = h]]
    /\ connections' = [connections EXCEPT ![s] = c]
    /\ by_home' = [by_home EXCEPT ![h] = @ \cup {s}]
    /\ UNCHANGED <<aliases_by_home, topic_subs, minted>>

\* Mutant: the queue of the sid is not drained.
HelloDrainsHomeOnly(c, s, h) ==
    /\ Register(c, s, h)
    /\ Drain({<<h, None>>}, {})
    /\ Hand(c, Drained(c, <<h, None>>), Accepted(c, <<h, None>>))
    /\ seen' = Broadcast(seen, s, None, {<<s, h, None>>})

\* Mutant: the queue of the home is drained and not forwarded.
HelloForgetsHome(c, s, h) ==
    /\ Register(c, s, h)
    /\ Drain({<<h, None>>, <<h, s>>}, {})
    /\ Hand(c, Drained(c, <<h, s>>), Accepted(c, <<h, s>>))
    /\ seen' = Broadcast(seen, s, None, {<<s, h, None>>})

Hello(c, s, h) ==
    /\ Register(c, s, h)
    /\ Drain({<<h, None>>, <<h, s>>}, {})
    /\ Hand(c, Drained(c, <<h, None>>) \o Drained(c, <<h, s>>),
               Accepted(c, <<h, None>>) \cup Accepted(c, <<h, s>>))
    /\ seen' = Broadcast(seen, s, None, {<<s, h, None>>})

\* Mutant: the queue is forwarded before its file is unlinked.
HelloForwardsFirst(c, s, h) ==
    /\ "disk" \in Faults
    /\ Register(c, s, h)
    /\ buffers[<<h, None>>] # <<>>
    /\ Drain({}, {<<h, None>>})
    /\ Hand(c, Drained(c, <<h, None>>), Accepted(c, <<h, None>>))
    /\ UNCHANGED seen

\* One of the two unlinks raises OSError: the dispatcher answers
\* internal_error; the session stays registered and is not announced.
HelloDrainFails(c, s, h) ==
    /\ "disk" \in Faults
    /\ Register(c, s, h)
    /\ \/ /\ buffers[<<h, None>>] # <<>>
          /\ Drain({}, {<<h, None>>})
          /\ UNCHANGED <<outbox, handed>>
       \/ /\ buffers[<<h, s>>] # <<>>
          /\ Drain({<<h, None>>}, {<<h, s>>})
          /\ Hand(c, Drained(c, <<h, None>>), Accepted(c, <<h, None>>))
    /\ UNCHANGED seen

\* Mutant: goodbye leaves the topics and the alias behind.
DisconnectForgets(c) ==
    LET s == conn[c].sid
        h == conn[c].home
    IN  /\ conn[c].open
        /\ conn' = [conn EXCEPT ![c] = FreshConn]
        /\ connections' = [x \in Sid |-> IF x = s THEN None ELSE connections[x]]
        /\ by_home' = [x \in Home |-> IF x = h THEN by_home[x] \ {s}
                                      ELSE by_home[x]]
        /\ seen' = [Broadcast(seen, s, s, {}) EXCEPT ![c] = FreshSeen]
        /\ UNCHANGED <<aliases_by_home, topic_subs, store, mail>>

\* The client is gone, or its line is oversized: the handler's finally block
\* runs goodbye and marks the Connection closed in one go.
Disconnect(c) ==
    LET s == conn[c].sid
        h == conn[c].home
    IN  /\ conn[c].open
        /\ conn' = [conn EXCEPT ![c] = FreshConn]
        /\ connections' = [x \in Sid |-> IF x = s THEN None ELSE connections[x]]
        /\ by_home' = [x \in Home |-> IF x = h THEN by_home[x] \ {s}
                                      ELSE by_home[x]]
        /\ aliases_by_home' =
             [x \in Home |-> [al \in Alias |->
                IF x = h /\ al = conn[c].alias /\ aliases_by_home[x][al] = s
                THEN None ELSE aliases_by_home[x][al]]]
        /\ topic_subs' = [t \in Topic |-> IF t \in conn[c].subscriptions
                                          THEN topic_subs[t] \ {s}
                                          ELSE topic_subs[t]]
        /\ seen' = [Broadcast(seen, s, s, {}) EXCEPT ![c] = FreshSeen]
        /\ UNCHANGED <<store, mail>>

-------------------------------------------------------------------------------
\* set_alias with a name, or with the empty string (new = None).

\* Mutant: the holder is not looked up.
TakeAliasUnchecked(c, new) ==
    LET h == conn[c].home
        s == conn[c].sid
    IN  /\ May("set_alias")
        /\ Identified(c)
        /\ aliases_by_home' =
             [x \in Home |-> [al \in Alias |->
                IF x = h /\ al = new THEN s
                ELSE IF x = h /\ al = conn[c].alias /\ aliases_by_home[x][al] = s
                THEN None ELSE aliases_by_home[x][al]]]
        /\ conn' = [conn EXCEPT ![c].alias = new]
        /\ UNCHANGED <<connections, by_home, topic_subs, minted>>

TakeAlias(c, new) ==
    LET h == conn[c].home
        s == conn[c].sid
    IN  /\ May("set_alias")
        /\ Identified(c)
        /\ new # None => aliases_by_home[h][new] \in {None, s}
        /\ aliases_by_home' =
             [x \in Home |-> [al \in Alias |->
                IF x = h /\ al = new THEN s
                ELSE IF x = h /\ al = conn[c].alias /\ aliases_by_home[x][al] = s
                THEN None ELSE aliases_by_home[x][al]]]
        /\ conn' = [conn EXCEPT ![c].alias = new]
        /\ UNCHANGED <<connections, by_home, topic_subs, minted>>

\* Mutant: clearing an alias is not announced.
SetAliasQuietClear(c, new) ==
    LET h == conn[c].home
        s == conn[c].sid
    IN  /\ TakeAlias(c, new)
        /\ UNCHANGED <<store, outbox, handed>>
        /\ seen' = IF new = None THEN seen ELSE Broadcast(seen, None, s, {<<s, h, new>>})

\* Only a newly claimed alias drains its queue.
SetAlias(c, new) ==
    LET h == conn[c].home
        s == conn[c].sid
    IN  /\ TakeAlias(c, new)
        /\ IF new \notin {None, conn[c].alias}
           THEN /\ Drain({<<h, new>>}, {})
                /\ Hand(c, Drained(c, <<h, new>>), Accepted(c, <<h, new>>))
           ELSE UNCHANGED <<store, outbox, handed>>
        /\ seen' = Broadcast(seen, None, s, {<<s, h, new>>})

\* The unlink raises: the alias is held, nobody is told.
SetAliasDrainFails(c, new) ==
    LET a == <<conn[c].home, new>>
    IN  /\ "disk" \in Faults
        /\ TakeAlias(c, new)
        /\ new \notin {None, conn[c].alias}
        /\ buffers[a] # <<>>
        /\ Drain({}, {a})
        /\ UNCHANGED <<outbox, handed, seen>>

SetDmFilter(c, f) ==
    /\ May("set_dm_filter")
    /\ Identified(c)
    /\ conn' = [conn EXCEPT ![c].dm_filter = f]
    /\ seen' = [seen EXCEPT ![c].narrowed = TRUE]
    /\ UNCHANGED <<registry, store, mail>>

Watch(c, w) ==
    /\ May("watch")
    /\ Identified(c)
    /\ conn' = [conn EXCEPT ![c].wire = w]
    /\ seen' = [seen EXCEPT ![c].watchedAt = Len(minted)]
    /\ UNCHANGED <<registry, store, mail>>

Unwatch(c) ==
    /\ May("watch")
    /\ Identified(c)
    /\ conn' = [conn EXCEPT ![c].wire = None]
    /\ UNCHANGED <<registry, store, mail, seen>>

-------------------------------------------------------------------------------
\* Messages.

\* A message minted in this step; acked: its sender is answered with a result
\* rather than internal_error; delivered: the count in that result.
Mint(c, a, acked, delivered) ==
    /\ Len(minted) < MaxMsg
    /\ minted' = Append(minted, [from |-> FromOf(c), to |-> a,
                                 acked |-> acked, delivered |-> delivered])

\* Mutant: the line of the new message alone is added to the file.
PersistAddsLine(a, flushed) ==
    LET q == AppendBounded(buffers[a], NextId, Maxlen(a))
    IN  /\ buffers' = [buffers EXCEPT ![a] = q]
        /\ files' = IF flushed
                    THEN [files EXCEPT ![a] = AppendBounded(@, NextId, Maxlen(a))]
                    ELSE files

\* PersistentDeque.append: the deque first, then the file rewritten from it
\* unless the disk fails.
Persist(a, flushed) ==
    LET q == AppendBounded(buffers[a], NextId, Maxlen(a))
    IN  /\ buffers' = [buffers EXCEPT ![a] = q]
        /\ files' = IF flushed THEN [files EXCEPT ![a] = q] ELSE files

\* Router.send: to the live recipients, or else to the address's queue.
Send(c, a) ==
    LET targets == DmTargets(c, a)
    IN  /\ May("send")
        /\ Identified(c)
        /\ Mint(c, a, TRUE, Cardinality(targets))
        /\ outbox' = FanOut(NextId, targets, Watchers(c, a))
        /\ handed' = IF \E d \in targets : ~conn[d].closed
                     THEN handed \cup {NextId} ELSE handed
        /\ IF targets = {} THEN Persist(a, TRUE) ELSE UNCHANGED store
        /\ UNCHANGED <<conn, registry, seen>>

\* Mutant: the OSError is swallowed and the sender told all is well.
SendSwallowsError(c, a) ==
    /\ "disk" \in Faults
    /\ May("send")
    /\ Identified(c)
    /\ DmTargets(c, a) = {}
    /\ Mint(c, a, TRUE, 0)
    /\ Persist(a, FALSE)
    /\ UNCHANGED <<conn, registry, seen, outbox, handed>>

SendFlushFails(c, a) ==
    /\ "disk" \in Faults
    /\ May("send")
    /\ Identified(c)
    /\ DmTargets(c, a) = {}
    /\ Mint(c, a, FALSE, 0)
    /\ Persist(a, FALSE)
    /\ UNCHANGED <<conn, registry, seen, outbox, handed>>

\* Mutant: as a DM, filed only when nobody is there to get it.
PublishAsDm(c, t) ==
    LET targets == TopicTargets(c, t)
    IN  /\ May("publish")
        /\ Identified(c)
        /\ Mint(c, t, TRUE, Cardinality(targets))
        /\ IF targets = {} THEN Persist(t, TRUE) ELSE UNCHANGED store
        /\ outbox' = FanOut(NextId, targets, Watchers(c, t))
        /\ UNCHANGED <<conn, registry, handed, seen>>

\* Mutant: the publisher is taken off the count without being in it.
PublishMiscounts(c, t) ==
    LET targets == TopicTargets(c, t)
    IN  /\ May("publish")
        /\ Identified(c)
        /\ Mint(c, t, TRUE, Cardinality(targets) - 1)
        /\ Persist(t, TRUE)
        /\ outbox' = FanOut(NextId, targets, Watchers(c, t))
        /\ UNCHANGED <<conn, registry, handed, seen>>

\* Router.publish: the ring first, then the subscribers.
Publish(c, t) ==
    LET targets == TopicTargets(c, t)
    IN  /\ May("publish")
        /\ Identified(c)
        /\ Mint(c, t, TRUE, Cardinality(targets))
        /\ Persist(t, TRUE)
        /\ outbox' = FanOut(NextId, targets, Watchers(c, t))
        /\ UNCHANGED <<conn, registry, handed, seen>>

PublishFlushFails(c, t) ==
    /\ "disk" \in Faults
    /\ May("publish")
    /\ Identified(c)
    /\ Mint(c, t, FALSE, 0)
    /\ Persist(t, FALSE)
    /\ UNCHANGED <<conn, registry, seen, outbox, handed>>

\* The message behind which a feed starts that asks for the last r of topic t.
FeedStart(t, r) ==
    LET n == Len(buffers[t])
    IN  IF r = 0 \/ n = 0 THEN Len(minted)
        ELSE buffers[t][IF r < n THEN n - r + 1 ELSE 1] - 1

\* Router.subscribe: the last r messages of the ring are put on the outbox in
\* the same go as the session joins the topic.
Subscribe(c, t, r) ==
    LET replay == IF r = 0 THEN <<>> ELSE LastN(buffers[t], r)
    IN  /\ May("subscribe")
        /\ Identified(c)
        /\ r > 0 => Len(outbox[c]) < MaxOutbox
        /\ topic_subs' = [topic_subs EXCEPT ![t] = @ \cup {conn[c].sid}]
        /\ conn' = [conn EXCEPT ![c].subscriptions = @ \cup {t}]
        /\ outbox' = [outbox EXCEPT ![c] = Put(c, Messages(replay))]
        /\ seen' = [seen EXCEPT ![c].joined[t] =
                       [pos  |-> Len(outbox[c]), from |-> FeedStart(t, r),
                        at   |-> Len(minted)]]
        /\ UNCHANGED <<connections, by_home, aliases_by_home, store, minted,
                       handed>>

Unsubscribe(c, t) ==
    /\ May("subscribe")
    /\ Identified(c)
    /\ topic_subs' = [topic_subs EXCEPT ![t] = @ \ {conn[c].sid}]
    /\ conn' = [conn EXCEPT ![c].subscriptions = @ \ {t}]
    /\ seen' = [seen EXCEPT ![c].joined[t] = None]
    /\ UNCHANGED <<connections, by_home, aliases_by_home, store, mail>>

ListPeers(c) ==
    /\ May("list_peers")
    /\ Identified(c)
    /\ ~conn[c].closed
    /\ seen' = [seen EXCEPT ![c].view = Sessions]
    /\ UNCHANGED <<conn, registry, store, mail>>

-------------------------------------------------------------------------------
\* Faults.

\* The write loop of c dies (the peer reset the socket, or a message cannot be
\* encoded) while its handler keeps reading.
WriterFails(c) ==
    /\ "writer" \in Faults
    /\ conn[c].open
    /\ ~conn[c].closed
    /\ conn' = [conn EXCEPT ![c].closed = TRUE]
    /\ UNCHANGED <<registry, store, mail, seen>>

\* The process dies and starts again: load_all reads the files back.
Restart ==
    /\ "restart" \in Faults
    /\ conn' = [c \in Conn |-> FreshConn]
    /\ outbox' = [c \in Conn |-> <<>>]
    /\ seen' = [c \in Conn |-> FreshSeen]
    /\ connections' = [s \in Sid |-> None]
    /\ by_home' = [h \in Home |-> {}]
    /\ aliases_by_home' = [h \in Home |-> [al \in Alias |-> None]]
    /\ topic_subs' = [t \in Topic |-> {}]
    /\ buffers' = files
    /\ UNCHANGED <<files, minted, handed>>

Session(c) ==
    \/ Accept(c)
    \/ \E s \in Sid, h \in Home : Hello(c, s, h)
    \/ \E s \in Sid, h \in Home : HelloDrainFails(c, s, h)
    \/ Disconnect(c)
    \/ WriterFails(c)

Request(c) ==
    \/ \E new \in Alias \cup {None} : SetAlias(c, new)
    \/ \E new \in Alias : SetAliasDrainFails(c, new)
    \/ \E f \in DmFilters : SetDmFilter(c, f)
    \/ \E w \in WireFilters : Watch(c, w)
    \/ Unwatch(c)
    \/ \E a \in DmAddr : Send(c, a)
    \/ \E a \in DmAddr : SendFlushFails(c, a)
    \/ \E t \in Topic : Publish(c, t)
    \/ \E t \in Topic : PublishFlushFails(c, t)
    \/ \E t \in Topic, r \in Replays : Subscribe(c, t, r)
    \/ \E t \in Topic : Unsubscribe(c, t)
    \/ ListPeers(c)

Next == (\E c \in Conn : Session(c) \/ Request(c)) \/ Restart

Spec == Init /\ [][Next]_vars
===============================================================================
