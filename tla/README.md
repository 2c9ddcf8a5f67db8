# Formal models of blemees-peer

`blemees-peerd` is a local message broker for coding agents: one asyncio
process on a Unix socket that lets sessions in different working directories
send each other direct messages (DMs), publish to topics, watch the wire and
see who is there.  An MCP sidecar per agent bridges it to tools.  This
directory holds TLA+ models of it, TLC configurations that check them on small
instances, and TLAPS proofs of the properties that matter most, for every size.
Source references are relative to `src/src/blemees_peer/` unless they name
another directory; SPEC is `src/docs/SPEC.md`.

## 1. Inventory

| Component | State | Operations | Hard part | What makes it correct |
|---|---|---|---|---|
| `Router` (router.py) | `connections`, `by_home`, `aliases_by_home`, `topic_subs` | hello, goodbye, set_alias, set_dm_filter, watch, unwatch, send, publish, subscribe, unsubscribe, list_peers, list_topics, history | four dictionaries and the fields of every Connection must agree after any sequence of calls and failures; queues are drained at the right moments | `RegistryExact`, `AliasUnique`, `PresenceViewExact`, `NoStrandedDm`, `DmFifo`, `ImplementsMailService`, `TopicFeedExact`, `WireExact` |
| `PersistentDeque`, `AddressableStore`, `Persistence` (persistence.py) | a bounded deque per address, and its JSONL file | append, drain, load, load_all, history | file and memory differ after an `OSError` or a crash; a client pages while the deque moves | `ImplementsMessageQueue`, `PagesExact`, `AckedDurable`, `QueuesOrderly`, `QueuedUndelivered`, `LossesAccounted`, `RingIsTail` |
| `Connection` (connection.py) | identity, filters, outbox, `closed`, writer task | enqueue, write loop, close | three tasks (handler, writer, shutdown) and two timeouts; a peer that stops reading; a write loop that dies of what it writes | `AnsweredBeforeClose`, `TasksInStep` |
| `Server` (server.py) | listener, handler tasks, `_closing` | start, handle connection, dispatch, shutdown | cancellation at any await; shutdown must end; several daemons on one path | `LeaversForgotten`, `NothingLeftRunning`, `HandlersGiveWay`, `LeaverEnds`, `ShutdownEnds`, `UndisturbedStart`, `RaceLeavesOne`, `HandedOver` |
| `addressing` | none | name a directory; parse and validate addresses, sids, aliases | `~`, the root and links of one directory must give one name; a home path may contain `#` | `CanonicalHomes`, `DrainedByWhomItNames`, `NamesApart` |
| `PeerClient` (client.py) | pending calls, notification queue, read task | connect, call, read loop, close | several calls at once; calls racing the end of the connection | `AnswersMatch`, `CallsEnd` |
| MCP sidecar (mcp_server.py, mcp.py) | bounded inbox and its event, subscribed resources, request tasks | tools, resources, forwarder | concurrent tool calls on one inbox and one event; updates that race the reads they cause | `NoSleeperMissed`, `NotesInOrder`, `OnlyOverflowLoses`, `AliasMirrored`, `AwaitsEnd`, `InboxKnown`, `PeersKnown`, `ViewConverges` |
| daemon.py, errors.py, messages.py | none to speak of | entry point, codes, records | - | - |

How they interact.  The sidecar owns one `PeerClient`; the client and the
server talk line-delimited JSON-RPC.  `Server._handle_connection` makes a
`Connection` per socket, dispatches each request to a `Router` method and
enqueues its answer on the connection's outbox; a write-loop task per connection
empties the outbox.  `Router` methods change the registry, call
`PersistentDeque.append` and `drain` (synchronous file I/O), and put
notifications on the outboxes of other connections.  A handler's `finally` block
calls `goodbye` and closes its connection; SIGTERM makes `Server.shutdown`
cancel every handler.

Where the hard behaviour is.  Inside the router nothing suspends: the only
awaits of a handler between its `readuntil` and its answer are puts on
`asyncio.Queue()` without a bound (connection.py:104), which return without
yielding to the event loop.  So requests interleave whole, and the danger lies
in what a *sequence* of requests, failures and departures leaves behind.  Below
the router, `append` and `drain` change memory and file in several operations,
any of which may raise or be the last before the process dies.  Around it, three
tasks per connection and the shutdown meet at awaits that do suspend.
One model stands for each of the three granularities.  Before any of this, a
daemon takes over a socket path and a state directory which another may still
hold, in steps no lock ties together.  At the other end of the socket the tools
of one agent run as tasks that share an inbox, its event and a client, and
suspend in the middle of what they do.

## 2. Modules

| Module | Models | State and actions |
|---|---|---|
| `PersistentDeque` | the pure part of a bounded `collections.deque` | `AppendBounded`, `LastN` (the slice `items[-n:]` of a replay), `Ids`, `Select` (the entries a comprehension lets through, as a recursive function) |
| `Router` | router.py, the dispatch of server.py, identity, filters and outbox of connection.py, the queues as the router uses them | see below |
| `RouterProperties` | - | the properties of `Router` |
| `MessageQueue` | what the daemon is promised of one `PersistentDeque` | `memory`, `disk`; `Add`, `AddFails`, `TakeAll`, `TakeAllFails`, `Reload` |
| `DurableDeque` | persistence.py:62-104 and load, one file operation per action | `deque`, `file`, `tmp`, program counter; `StartAppend`, `OpenTmp`, `WriteLine`, `Replace`, `StartDrain`, `Unlink`, `Fail`, `Crash`, `Load` |
| `Paging` | persistence.py:78-92, router.py history | `DurableDeque` with a client that asks for one page after another: `History` |
| `MailService` | what clients are promised of direct messages | `present`, `mail`, `waiting`, `inbox`; `Join`, `Leave`, `Rename`, `Choose`, `Fade`, `Send`, `Restart` |
| `Startup` | server.py:57-83, 97-125 as seen from the socket path, load_all | `pc`, `file`, `memory`, `disk`; one action per system call of start and stop |
| `Addressing` | addressing.py | `text`, `user_home`; operators `normalize_path`, `is_normalized_path`, `parse_address`, `is_valid_sid`, `is_valid_alias` |
| `Lifecycle` | the tasks of connection.py and server.py, one step per stretch between awaits that can suspend | see below |
| `Sidecar` | client.py and the tasks of mcp_server.py, one step per stretch between awaits that suspend, against a daemon that answers, notifies and may go | see below |
| `Resources` | subscriptions, reads and updates of mcp_server.py, from the MCP host through the sidecar to the daemon's sessions and back | see below |
| `MCRegistry`, `MCMail`, `MCDurableDeque`, `MCStartup`, `MCAddressing`, `MCLifecycle`, `MCSidecar`, `MCResources` | - | instances for TLC |
| `PersistentDequeProof`; `RouterProof` (registry, stores, DMs, presence, topics, wire, the refinement of `MailService`); `DurableDequeProof`, `LifecycleProof`, `SidecarProof`, `ResourcesProof`, `StartupProof`, `AddressingProof` | - | theorems |

Three refinements tie the modules together.  `DurableDeque` implements
`MessageQueue` (`ImplementsMessageQueue`): whatever file operation fails and
wherever the process dies, an append or a drain happens to memory and disk, to
memory alone, or not at all.  `Router` uses one `MessageQueue` per address
(`UsesMessageQueues`): its `Persist`, `Drain` and `Restart` do to `buffers` and
`files` exactly what such a queue allows.  So the file operations need not be
repeated in the router's model.  And `Router` implements `MailService`
(`ImplementsMailService`) as long as no file operation fails: sessions are the
identified connections, mail is what was minted to an address of a home, and
dictionaries, files, topics and watches are gone.  There a message reaches whom
its address names when it is sent, counts them, or waits for the first of them
that comes or takes the name.  A session may be `gone` (its write loop died and
its handler does not know); it is counted as reached, as router.py:289 counts it.

**Router.**  `conn` holds the fields of each `Connection` (`sid`, `home`,
`alias`, `subscriptions`, `dm_filter`, `wire`, `closed`) in a slot that a new
connection may reuse; `connections`, `by_home`, `aliases_by_home` and
`topic_subs` are the dictionaries of the same names; `buffers` and `files` are the
DM queues and topic rings in memory and on disk; `outbox` records every message
notification in the order it was put.  `minted`, `handed` and `seen` are history: what was
sent and what its sender was told, which DMs reached an outbox, and what each
client can tell from what it was sent.  Each request is one action
(`Hello`, `SetAlias`, `SetDmFilter`, `Watch`, `Unwatch`, `Send`, `Publish`,
`Subscribe`, `Unsubscribe`, `ListPeers`); `Disconnect` is the end of a handler,
`goodbye` with it.  Requests that are refused before they change anything are
guards.  A request in which a file operation raises is an action of its own (`HelloDrainFails`,
`SetAliasDrainFails`, `SendFlushFails`, `PublishFlushFails`): the code has
changed memory by then, the dispatcher answers `internal_error`, and the rest of
the handler is skipped.  `WriterFails` is a write loop that dies while its
handler still reads; `Restart` is a crash and a new start that loads the files.
A message is the index at which it was minted, an address a canonical pair, and
a glob filter the set of addresses it matches.

**Startup.**  Each daemon is a process that looks at the path, probes it, unlinks
it, loads the state directory, binds, listens, changes the mode and serves, one
system call at a time, and later closes its listener and unlinks the path; it may
be killed anywhere.  `file` is who bound what is at the path; `asyncio` removes a
socket that is there before it binds (`Clear`), and from Python 3.13 on removes
its own when it closes (`BeginStop`, a choice).  `crossed` and `raced` are history:
whose start or service met the start or shutdown of another, and whether two were
ever past their probes at once.

**Paging.**  `peer.history` runs between the calls that change the deque, so a
page is one step; the client takes the last message of a page as its next cursor.
`start` notes where a page began that no cursor led to.

**Addressing.**  A text is a sequence of letters, one for each class of characters
the code tells apart; `sess_` is one letter of width 5, so that sids fit.  A path
is the sequence of its components and `realpath` resolves `.`, `..` and repeated
slashes; links belong to the file system.  The behaviours spell out texts letter
by letter: what is checked is the operators, in every state.  What the code does part by
part is a `Fold`, a recursive function, so that it can be proved about for texts of
every length.

**Lifecycle.**  Per connection the place of its handler (`created`, `reading`,
`draining` = waiting in `close` for the write loop, `flushing` = waiting for the
transport, `done`), the write loop (`getting`, `blocked` in `drain`, `done`),
the transport, what it has buffered, and a peer that reads, stalls or is gone;
for the server the stages of `shutdown`.  A cancellation is a flag delivered at
the handler's next await.  What asyncio does is external to the repository and
modelled from how the code relies on it: `wait_for` of Python 3.11 may swallow a
cancellation that meets a finished future (`Drained`, `Flushed`), the later one
delivers it (`CloseCancelled`): both are possible steps.
A write loop may also die of a message it cannot encode (`WriterCrashes`: a lone
surrogate passes `json.dumps` and fails `encode`): `closed` is set, the transport
stays open, and when the peer leaves only the garbage collector closes it
(`Collected`).  `WaitsForTransports` says whether `Server.wait_closed` waits for
every transport (Python 3.12 and later) or returns at once (3.11).

**Sidecar.**  `phase` is how far `McpServer.run` has come; `asked`, `status` and
`answer` say of each request of the MCP host (and of `run`) what it does, where
it is and what it came back with; `ready` is the event loop's queue of tasks
whose await is over.  `next_id`, `pending`, `reader` and `notifications` are the
client's, `inbox`, `event`, `waiters` and `current_alias` the sidecar's.  A task
is split where it suspends: `PeerAwait` up to its wait, `AwaitResumes` after it,
`TimesOut` in between (also between the event and the resumption, where
`wait_for` lets the timeout win); `Call` up to the future, `CallResumes` and
`RunResumes` after it.  `peer_set_alias` stands for all tools that call the daemon
once.  Of the daemon there is the handler of this one connection, from server.py and
router.py: it answers in order, may refuse, may answer `internal_error` after it
registered the session or took the alias (`HelloDrainFails` and `SetAliasDrainFails`
of `Router`), and `DaemonGoes` takes calls and the end of what it wrote with it.
After `DaemonMutes`, a message its write loop dies of, it goes on carrying out what
it reads, and nothing it says gets out any more (connection.py:102-103).  With
nobody listening at the
start `daemon` is `absent`: that is `_OfflinePeerClient`.  Under Python 3.11 an
await with a timeout resumes one turn of the loop later than here, after tasks
woken with it.  Several turns of `close()` are one step, `StdinCloses`: what
others do between them they may do before it.  A line beyond the 64 KiB of an
asyncio stream ends the read loop of the client (`ReadOverruns`), the sidecar when
the host wrote it (`StdinCloses`), and at the daemon one connection (`Oversized` of
`Lifecycle`).

**Resources.**  The host follows a resource (subscribe, then read) and reads again
at every update; `stdin` and `stdout` keep order, `Serve` makes a task of each line,
`Handle` runs the first task that can run up to its await: of the handlers only the
read of peer://peers suspends, in its call of the daemon.  `Forward` files a
notification in the inbox and writes the update; `PeerChanges` is a session that
comes or goes and its announcement, one step as in `Router`.  The agent takes from
the inbox as it likes, and nothing tells the host of that.

Definitions commented `Mutant:` are plausible bugs, each next to the definition
it would replace.  Every property of every passing run has been seen to fail
with one of them, so none holds by the shape of the model.

## 3. Runs

| Run | Instance | Shows |
|---|---|---|
| `registry` | 3 slots, 2 sids, 2 homes, 2 aliases, 1 topic; writers die, restarts | `RegistryExact`, `PresenceViewExact` |
| `dms` | 3 slots, 3 sids, 1 home, 1 alias; 2 messages, queues of 2; filters that accept all or nobody; restarts | `NoStrandedDm`, `DmFifo`, `ImplementsMailService` |
| `topics` | 2 slots, 2 sids, 1 topic, ring of 2, 3 messages, replays 0, 1, 3; restarts | `TypeOK`, `RingIsTail`, `TopicFeedExact` |
| `disk` | 2 slots, 2 sids, 1 alias, 1 topic; queues of 1, ring of 2, 2 messages; one watch; every file operation may fail, restarts | `WireExact`, `AckedDurable`, `QueuesOrderly`, `QueuedUndelivered`, `LossesAccounted`, `UsesMessageQueues` |
| `durable` | 5 messages, a deque of 3, pages of 1 and 2 | `FlushInv`, `PagesExact`, `ImplementsMessageQueue` |
| `startup` | 3 daemons, 2 messages filed | `UndisturbedStart`, `RaceLeavesOne`, `HandedOver` |
| `addressing` | every text of up to 6 letters; `~` is `/`, `/a` or `/a/a` | `CanonicalHomes`, `DrainedByWhomItNames`, `NamesApart` |
| `lifecycle` | 2 connections, outboxes of 1, Python >= 3.12 | `TasksInStep`, `LeaversForgotten`, `NothingLeftRunning`, `AnsweredBeforeClose`, `HandlersGiveWay`, `LeaverEnds`, `ShutdownEndsUnlessStalled` |
| `sidecar` | 2 requests and the task of `run`, 1 alias claimed at start; 3 notifications, an inbox of 2, drains of 1 | `NoSleeperMissed`, `NotesInOrder`, `AnswersMatch`, `AliasMirrored`, `OnlyOverflowLoses`, `CallsEnd`, `AwaitsEnd` |
| `resources` | 1 other session, 2 notifications, an inbox of 1, 3 requests unasked | `InboxKnown`, `PeersKnown`, `ViewConverges` |
| `shutdown_hangs`, `startup_race` | 1 connection; 2 daemons | violated: section 6 |

Why these bounds are enough.  The registry's laws relate two sessions at a time:
two sids compete for an alias, a home or a topic, and the third slot lets a new
connection say hello under a sid while the old slot of that sid and another live
session are still around; two homes and two aliases let a rename be confused
with a move.  No message is minted there, so its behaviours are unbounded in
length, and deadlock is checked.  The order of two DMs is the least `DmFifo` can
be about, and a queue of two the least that can be drained in the wrong order;
three sessions in a home are one sender and two recipients, of whom one may refuse.
A ring of two with three messages overflows and still has an order; a replay of
three asks for more than there is.  In `disk` a DM queue of one overflows at the
second message and the ring of two shows a file that is neither old nor new; its
watch is of one sender, to topics and to the whole home, so that each filter is
met, missed by the sender and missed by the addressee.  It has no DM filters, so
no DM is refused in it; `LossesAccounted` is proved for every filter.
Five messages run over a deque of three by two, which is what pushes a cursor out
between two pages.  Three daemons are one that serves or stops and two that race.
Six letters hold a home of two components with a `#` in it and a discriminator.
Two connections are what `gather`
needs to wait for one while another is still closing, or is accepted late.
`MaxMsg` bounds the messages minted, so the daemons of the mail runs come to an
end of what they may do: their configurations leave deadlock unchecked, as do
those of the other modules but `durable`, where a process stops, a text is complete
or the host has asked for all it may.  Two requests are two
awaits for one notification, two claims in flight, or a drain that meets an
await; three notifications overflow an inbox of two, and a drain of one leaves
something in it.  The same safety properties were seen to hold with three
requests, two notifications and an inbox of one (4.6 million states).  `MaxNotes` bounds the
notifications, and each request is made once.  In `resources` two notifications
overflow the inbox of one, or are a message and a change of the sessions in either
order, or a change and its reverse; three requests are two resources followed and
one given up, or one that is followed again.  `MaxOutbox` bounds the
outbox up to which a replay is asked for.

Symmetry is used for safety only, over slots, and over sids where no filter
names one; the runs with liveness use none.

Hazards and properties.  `PROJECT.json` lists what can go wrong in this code
that a test would hardly reach, each at its line, with the properties that would
show it.  Those without a property say why: most are things
the code does, listed in section 6.

## 4. Fairness

`Router`, `MailService`, `MessageQueue`, `DurableDeque`, `Paging`, `Startup` and
`Addressing` state safety only.  `Lifecycle`
assumes weak fairness of each write loop, each handler with its two timers,
of the gather, of the final wait, of a transport that has nothing to
write or nobody to write to, and of a peer taking bytes *while it reads*.  The
event loop justifies the first ones: a task that is ready runs, a timer that is
due fires.  Nothing makes a peer read, leave or ask, nothing sends SIGTERM, and
a step of a connection already accepted may be overtaken by all of these; no
message has to be one that cannot be encoded, and the garbage collector need never
come.
Under this, shutdown gets past every handler (`HandlersGiveWay`), a connection
whose peer left is taken off the books (`LeaverEnds`), and the daemon ends
unless a peer holds bytes back or a transport was left open by a crashed write
loop and never collected (`ShutdownEndsUnlessStalled`).

`Sidecar` assumes weak fairness of the read loop, the forwarder, the tasks that
are ready, of time-outs, and of the daemon's handler, which nothing suspends, carrying
out every request it reads; its answer gets out unless the write loop has died
before it.  Nothing makes the daemon notify, fall mute or go, nor the host call or
close, nor anybody write a line too long.  Once the read loop has ended or the
daemon is mute calls stay open, and `CallsEnd` promises nothing; it says that
nothing else keeps one open, whatever meets on the way back to its future.

`Resources` assumes weak fairness of the tasks that are ready, the read loop, the
forwarder, the daemon's answers and the host reading what it is told: an MCP
client that does not read its pipe gets no guarantee.  Nothing makes it follow a
resource, nor sessions come and go; `ViewConverges` is about when they stop.

## 5. Theorems

What they rest on beyond the library are lemmas about `Select`, what a filter lets
through of a sequence, by induction over prefixes as the least number not in a set
of numbers (`NatSetInduction`); `Select` is a recursive function, so this needs no
induction theorem over a predicate.

All for every finite set of connections and every set of sids, homes, aliases,
topics and filters, every bound and every set of faults unless said otherwise.
What is assumed of the constants is named in the modules: sids and aliases do
not overlap and are not `None` (`NamesAssumption`: the code keeps them apart by
their form), there are finitely many slots, bounds are positive; in `Sidecar` no
alias and no call is one of the marks for "none yet" (`MarksAssumption`; the code
has `None` for both); in `Addressing` the user's home is a path as `realpath` returns
it, of components without a slash none of which is empty, `.` or `..`
(`HomesAssumption`).

| Theorem | Says | Along which argument |
|---|---|---|
| `AppendBoundedPromise`, `AppendBoundedIncreasing` (`PersistentDequeProof`) | an append ends in the new message, stays within the bound, keeps order | cases on whether the deque is full |
| `RegistryTyped`, `RegistryCorrect` (`RouterProof`) | `[]RegistryExact` | `RegistryInv == RegistryTypeOK /\ RegistryExact` is inductive: the five parts only hold together, since goodbye finds what to clean in the Connection's own fields |
| `AliasIsUnique` (`RouterProof`) | `[]AliasUnique` | from `AliasesExact`: a map has one value |
| `StoreTyped`, `QueuesStayOrderly`, `AcknowledgedIsDurable` (`RouterProof`) | `[]QueuesOrderly`, `[]AckedDurable` | every action is one of four kinds of step on the stores (`StoreStep`); `StoreInv` is inductive.  Orderliness needs the files' too, since a restart makes them memory; durability needs order, since only the oldest message may drop |
| `QueuesAreMessageQueues` (`RouterProof`) | `UsesMessageQueues` | each kind of step is a `MessageQueue` step of each address |
| `NeverDeliveredTwice` (`RouterProof`) | `[]QueuedUndelivered` | `UndeliveredInv` adds that files hold no delivered DM either: a failed unlink leaves one, but then nothing was forwarded |
| `NothingStranded` (`RouterProof`) | `[]NoStrandedDm` when no file operation fails | `NamesMeans` turns the router's three lookups into a condition on the connection's fields by `RegistryInv`; `SeenInv` ties "never narrowed" to the filter.  With faults `NoneStranded` still holds of every address but the sids' |
| `DmLossesAccounted` (`RouterProof`) | the action property `LossesAccounted`, whatever fails, for every filter | the four kinds of step again: a drain hands over all the filter accepts, or keeps its file, or does not run to its end; an append drops one message, the first, of a full queue.  A file only ever becomes the queue in memory or stays (`FileStep`), so a step that takes from it what memory no longer has is one that makes it the queue |
| `Typed` (`RouterProof`) | `[]TypeOK` | with `OutboxInv` and `HistoryInv` |
| `DmsComeInOrder` (`RouterProof`) | `[]DmFifo`, whatever fails | `FifoInv`: what a session was told of an address rises, *and* lies below all that is queued under it while the address names the session, so a later drain cannot bring an older message |
| `FollowersKnowThePeers` (`RouterProof`) | `[]PresenceViewExact` when no file operation fails | `Sessions` is the roster of the Connections' own fields (`SessionsAreRoster`), and each step announces exactly its change of it |
| `RingsAreTails` (`RouterProof`) | `[]RingIsTail` unless both file operations fail and daemons restart | the ring is `LastN` of all published, and so is its file unless a flush failed |
| `WatchersSeeAll` (`RouterProof`) | `[]WireExact`, whatever fails | `Watched` counts copies; an id is copied when it is minted and never again |
| `FeedsAreExact` (`RouterProof`) | `[]TopicFeedExact` when no file operation fails | `Feed`: what an outbox holds of a topic since its subscribe is a `Select` of the minted ids; the replay is one by `RingInv` |
| `MailIsServed` (`RouterProof`) | `Router` implements `MailService` when no file operation fails | `Post` reads the letters off an outbox as an `Image` of a `Select`; letters stay what they are when messages are minted (`BookGrows`), a drain hands over what waits for the session (`WaitingMeans`), and those the router finds are those the address names (`TargetsMean`), as many as the reply counts.  A hello is a `Join` only because its connection was told nothing before (`FifoInv`) and has no filter yet, a restart keeps what waits because files are the queues (`MailInv`) |
| `FlushesAreSound`, `FileIsNeverTorn` (`DurableDequeProof`) | `[]FlushInv`; `DurableDeque` implements `MessageQueue` | `FlushInv`: the `.tmp` file is a prefix of the deque while lines are written, whatever an earlier failure left in it |
| `PagingIsHarmless` (`DurableDequeProof`) | every behaviour of `Paging` is one of `DurableDeque`: a client that pages changes nothing, so `FlushInv` and the refinement carry over | each step of `Paging` is a step of `DurableDeque` or leaves its variables alone |
| `PageIsRun` (`PersistentDequeProof`) | a page is one run of the deque: after the cursor if it is there, up to the end if not | cases on the cursor |
| `ReadersMissNothing` (`DurableDequeProof`) | `[]PagesExact` | `PagesInv` says of two sequences, what a history shows and what the call in progress has already made of memory, that nothing up to the cursor is left in them unless the cursor is: an append pushes out the oldest, a drain takes all.  Which of the two is shown next is then all that a return, a failure or a crash decides |
| `TasksStayInStep`, `AnswersAreWritten`, `LeaversAreForgotten`, `NothingIsLeftRunning` (`LifecycleProof`) | the four invariants of `Lifecycle` | `TasksInStep` is inductive: `Stage` says which task may be where at each stage of the handler, `Ending` how a write loop may have ended |
| `NobodySleepsOver` (`SidecarProof`) | `[]NoSleeperMissed` | inductive with `waiters` typed: while somebody waits the inbox is empty, so whoever takes from it disturbs no one, and taking one task off the waiters keeps the others (`WithoutKeeps`) |
| `AnswersAreTheirOwn` (`SidecarProof`) | `[]AnswersMatch` | `CallInv`: every id on its way either way was given out, and is pending, if at all, for the task that sent it (`Bound`); a new id is above them all |
| `NotesComeInOrder` (`SidecarProof`) | `[]NotesInOrder` | `OrderInv`: the inbox, what the client queued and what is on the wire are one unbroken row of numbers above what was read; every stretch between two awaits only moves along it or cuts pieces off its ends |
| `OnlyOverflow` (`SidecarProof`) | the action property `OnlyOverflowLoses` | from the same invariant: a step keeps, takes, or drops the first of a full inbox |
| `AliasIsMirrored` (`SidecarProof`) | `[]AliasMirrored` | two invariants.  `FlightInv`: a call or an answer on its way is the only one of its task, which is suspended on it, and a task is in one queue once.  `MirrorInv`: claims the daemon carried out travel in their order, first as lines, then as tasks that are ready; the last of them, or if none is left the sidecar's alias, is the one the daemon holds.  A claim answered `internal_error` ends this for good (`HalfDone`), as the property says |
| `FollowersKnowTheInbox` (`ResourcesProof`) | `[]InboxKnown` | `HeedInv`: a resource the host wants is subscribed and no line that asks otherwise is on its way, or a subscribe *with a read after it* is still to be heard.  So when an entry comes in without an update, a read is yet to come; and `InboxInv`: unless one is, the last answer on its way, or what the host knows, has every message of the inbox |
| `FollowersKnowTheSessions` (`ResourcesProof`) | `[]PeersKnown` | `PeersInv`: unless a read, a call or a presence notification is under way, the last list there is, looked for in the daemon's lines, then among the tasks that are ready, then in stdout, then at the host, is of the daemon's sessions (`Current`).  Each queue keeps order, so a list moves from one to the next without overtaking |
| `ARaceLeavesOne`, `UndisturbedServes`, `MailIsHandedOver` (`StartupProof`) | the three invariants of `Startup`, for any number of daemons | in a calm history a daemon that bound the path is listening, changing its mode or serving, and while anyone is past its probe somebody is yet to bind or holds the path |
| `HomesAreCanonical` (`AddressingProof`) | `[]CanonicalHomes`, for texts of every length | splitting and joining are inverse (`SplitJoin`, `JoinSplit`), also of a text behind another and a slash (`SplitConcat`), and a path of names is its own real path (`ResolveClean`): each by induction over letters or parts.  So a path whose text begins with a home's *and a slash* lies in that home (`Under`), and one that lies there has such a text (`Within`): then the three branches of `normalize_path` and of `is_normalized_path` are compared |
| `NamesStayApart` (`AddressingProof`) | `[]NamesApart` | what a pattern lets through is a word but for a newline at its end (`Matching`), and a home begins with `~` or `/` (`HomeFirst`) |
| `AddressesNameDrainers` (`AddressingProof`) | `[]DrainedByWhomItNames` | there is one first `#` (`FirstHashExists`), and a parse that splits elsewhere has another home: one of another length, or the empty one of `Invalid`, which is not accepted |

No theorem assumes anything of the clients.  Where one supposes that no file
operation fails (`"disk" \notin Faults`), the property is false without:

* a hello whose first unlink raises never drains the queue of the sid, and a
  message stays behind a session it names (`NothingStranded`);
* a hello or set_alias whose unlink raises is carried out and announced to nobody
  (`FollowersKnowThePeers`);
* a drain whose unlink raises empties the queue and hands over nothing, which no
  step of the mail service does (`MailIsServed`);
* a publish whose flush raises stays in the ring, is answered `internal_error` and
  handed to no subscriber (`FeedsAreExact`); if the daemon then restarts it is not
  in the ring either, and what is there is no tail (`RingsAreTails`).

Checked by TLC only: the liveness properties (fairness and `ENABLED` are beyond
the prover here).  Every invariant and every action property of the runs, and each
of the three refinements, is a theorem.

## 6. Where the code and what is said of it part

* **Shutdown may hang** (`shutdown_hangs`, server.py:122).  `shutdown` awaits
  `wait_closed()` without a bound.  On Python 3.12 and later that waits for
  every transport.  A peer that has stopped reading with bytes in its transport
  keeps it from closing; `Connection.close` rightly gives up after its timeout
  (connection.py:145-146 says why), and then nobody ends the transport.
  src/tests/test_shutdown.py expects the daemon to exit on SIGTERM with a client
  connected; its client does not stall.
* **Daemons that start together** (`startup_race`, server.py:75).  The probe is
  not tied to what follows it.  Between it and the unlink, or the bind, where
  asyncio removes a socket that is there, another daemon may have begun to listen;
  and the unlink of line 124 removes the path whoever owns it by then.  The comment
  of line 58 says that start refuses if the socket is live.  `RaceLeavesOne` says
  what holds nonetheless: one that serves is left at the path.

Others take a step or two to see and have no run:

* A drain clears the queue and then unlinks its file (persistence.py:68-70).  When
  the unlink raises, the DMs in it were acknowledged, are handed to nobody and are
  on disk alone: the next append to that address rewrites the file without them
  (94-104), the next drain unlinks it, and only a restart before that brings them
  back.  SPEC:429-430 says what is queued is handed to whoever it waits for.
  `LossesAccounted` names this among the ways a DM is lost.
* What a claimer's filter refuses is deleted (router.py:319); SPEC:87-89 says
  queued DMs are delivered to whoever next claims the alias.
* A session without a write loop counts as reached (router.py:289); SPEC:387-388
  says `delivered` counts the peers reached.
* One notification wakes every `peer_await`; the first, or a `peer_inbox` before
  any of them, takes it and the others answer `{timeout: true}`, those without a
  timeout too (mcp_server.py:454; 585-586 promise to block).
* A refused hello keeps its connection (server.py:212; SPEC:427 says it is closed).
* A watcher that is a recipient gets a message on both methods (router.py:247;
  SPEC:395-399 says there is no overlap).
* A sidecar serves on when the daemon is gone, although the docstring of `run`
  (mcp_server.py:175) says it ends; a line of the daemon beyond 64 KiB ends the
  client's read loop as silently (client.py:106).
* A call has no time limit.  It hangs until the sidecar closes when the client's
  read loop ends under it (client.py:106-109), and when the daemon's write loop died
  of a message it cannot encode: `_enqueue` then drops every answer while the handler
  reads on and the transport stays open (connection.py:102-103, 124-126).
* After an `internal_error` of a claim the daemon holds the new alias and
  `peer_whoami` tells the old one (mcp_server.py:463).
* The patterns of sids and aliases end in `$`, which lets a newline follow
  (addressing.py; `Matched`).
* A session whose home contains `#` gets no DMs: the address is split at the first
  one (`DrainedByWhomItNames`).
* When the cursor of a client has left the deque, history answers the newest page,
  and what lies between is passed over without a word (persistence.py:78-92).
* Every notification enters the inbox (mcp_server.py:226), but only `peer.message`
  is an update of peer://inbox: a host that follows it does not learn of presence
  and wire notifications in it.  SPEC:454 calls only peer://inbox subscribable.

## 7. Not modelled, and why

* Power loss: the code never calls fsync; a crash here is the death of the
  process, after which the kernel still has what was written.
* Two addresses whose file names collide (a truncated hash), lines damaged by
  hand: data, not control.
* `list_topics`, which reads two dictionaries and changes nothing; the grammar of
  topic names, which nothing is read out of; the minting of sids.  `Router` assumes
  homes without `#` (`DrainedByWhomItNames` says what others get).
* Of the client: `next_notification` with a timeout and `drain_notifications`,
  which the sidecar does not use.
* Of the sidecar: the texts of `initialize` and `tools/list`, error answers to
  malformed requests, the identity read from the environment.
* daemon.py's argument parsing, errors.py, `_version.py`: no state.
* No run of `ImplementsMailService` has write loops that die; `registry` has them,
  without mail.  The theorem covers them.

## 8. Plan

Done, in this order: `Router` with its registry, then its mail, topics, wire and
disk; the abstract `MessageQueue` and the `DurableDeque` that implements it;
`Lifecycle`; `Sidecar` with the `PeerClient` it calls; their proofs; `Startup`;
crashed write loops and overlong lines; `Paging`; `Addressing`; `MailService`,
which `Router` implements; `Resources`.

Proofs since: the pages of a history; the order of DMs, `LossesAccounted`, presence,
rings, feeds and wire of the router, and that it implements `MailService`; the order and the bound of
the sidecar's inbox, and its alias; `Startup`; what a host knows of its resources;
what addresses and homes mean, for every text.

To do, the most important first:

1. Mail with write loops that die as a run.
2. `Sidecar` composed with one session of `Router`, so that a notification is
   followed from `Send` to the agent.
