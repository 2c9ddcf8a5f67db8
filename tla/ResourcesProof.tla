---------------------------- MODULE ResourcesProof ----------------------------
(***************************************************************************)
(* What a host that follows a resource of the sidecar knows of it, for any *)
(* bound of the inbox and any number of requests, notifications and        *)
(* sessions.                                                               *)
(*                                                                         *)
(* Both invariants rest on HeedInv: a resource the host wants is one the   *)
(* sidecar is subscribed to, or the host's subscribe and a read after it   *)
(* are still to be heard.  So no update is missed that a later read does   *)
(* not make good.  Then InboxInv and PeersInv say what the last read on    *)
(* its way brings.  A list of the sessions passes three queues, the        *)
(* daemon's lines, the tasks that are ready and stdout; as each keeps      *)
(* order, the last of all is judged by the last one that is not empty of   *)
(* lists (Current).                                                        *)
(***************************************************************************)
EXTENDS Resources, PersistentDequeProof, SequenceTheorems, TLAPS

Note == {Message(n) : n \in Nat} \cup {Presence(n) : n \in Nat}
Wish == {<<"subscribe", uri>> : uri \in Uri} \cup {<<"unsubscribe", uri>> : uri \in Uri}
        \cup {Read(uri) : uri \in Uri}
List == {Answer("peers", at) : at \in SUBSET Peer}
Out  == {Update(uri) : uri \in Uri} \cup List
        \cup {Answer("inbox", notes) : notes \in SUBSET Note}
Sent == Note \cup {<<"answer", at>> : at \in SUBSET Peer}

Shapes ==
    /\ peers \subseteq Peer /\ sent \in Nat /\ calls \in Nat
    /\ lines \in Seq(Sent) /\ notifications \in Seq(Note)
    /\ inbox \in Seq(Note) /\ Len(inbox) <= InboxMaxlen
    /\ ready \in Seq(Wish \cup List) /\ stdin \in Seq(Wish) /\ stdout \in Seq(Out)
    /\ wants \subseteq Uri /\ known = [uri \in Uri |-> known[uri]]

\* What the host asked and the sidecar has not done: tasks, then lines.
Asked == ready \o stdin

\* Updates go to the host and nothing asked takes that back; or it is asked for
\* once more, with a read after it.
Heeded(q, on, uri) ==
    \/ on /\ \A k \in DOMAIN q : q[k] # <<"unsubscribe", uri>>
    \/ \E i, j \in DOMAIN q :
         /\ i < j /\ q[i] = <<"subscribe", uri>> /\ q[j] = Read(uri)
         /\ \A k \in DOMAIN q : i < k => q[k] # <<"unsubscribe", uri>>

HeedInv == \A uri \in wants : Heeded(Asked, uri \in subscribed_resources, uri)

\* A read of it is to come, asked by the host or for an update on its way.
ToRead(uri) == \/ Read(uri) \in Ids(ready) \cup Ids(stdin)
               \/ Update(uri) \in Ids(stdout)

\* What the host read last of the inbox, or is about to, has its messages.
Messages == {note \in Ids(inbox) : note[1] = "message"}
Drains == {Answer("inbox", notes) : notes \in SUBSET Note}
Enough == {Answer("inbox", notes) : notes \in {s \in SUBSET Note : Messages \subseteq s}}

InboxRead ==
    /\ LastIn(stdout, Drains, Enough)
    /\ Ids(stdout) \cap Drains = {} => Messages \subseteq known["inbox"]

InboxInv == "inbox" \in wants => ToRead("inbox") \/ InboxRead

\* Of the lists on their way, from the daemon through the sidecar to the host, the
\* last is of the sessions the daemon has.
ListLines == {<<"answer", at>> : at \in SUBSET Peer}
KnownAt ==
    /\ LastIn(stdout, List, {Answer("peers", peers)})
    /\ Ids(stdout) \cap List = {} => known["peers"] = peers

ReadyAt ==
    /\ LastIn(ready, List, {Answer("peers", peers)})
    /\ Ids(ready) \cap List = {} => KnownAt

Current ==
    /\ LastIn(lines, ListLines, {<<"answer", peers>>})
    /\ Ids(lines) \cap ListLines = {} => ReadyAt

\* The host is to be told of a change, or to get a new list.
News(q) == \E note \in Ids(q) : note[1] = "presence"

PeersInv ==
    "peers" \in wants =>
      ToRead("peers") \/ calls > 0 \/ News(lines) \/ News(notifications) \/ Current

(***************************************************************************)
(* What is on its way is told apart by its parts, and keeps its shape.     *)
(***************************************************************************)

\* Tasks and lines are told apart by their parts.
LEMMA TaskShapes ==
    /\ \A uri \in Uri : /\ <<"subscribe", uri>> \in Wish /\ <<"unsubscribe", uri>> \in Wish
                        /\ Read(uri) \in Wish /\ Read(uri)[1] = "read"
                        /\ Read(uri)[2] = uri
                        /\ Read(uri) # <<"subscribe", uri>>
                        /\ Read(uri) # <<"unsubscribe", uri>>
    /\ \A uri \in Uri : Read("inbox") # <<"unsubscribe", uri>>
                        /\ Read("peers") # <<"unsubscribe", uri>>
    /\ \A task \in List : /\ task[1] = "read" /\ task[2] = "peers" /\ Len(task) = 3
                          /\ \E at \in SUBSET Peer : task = Answer("peers", at)
    /\ \A task \in Wish : /\ Len(task) = 2 /\ task[2] \in Uri
                          /\ task[1] \in {"subscribe", "unsubscribe", "read"}
                          /\ task = <<task[1], task[2]>>
    /\ Wish \cap List = {}
    /\ "inbox" \in Uri /\ "peers" \in Uri
<1>1. \A uri \in Uri : /\ <<"subscribe", uri>> \in Wish /\ <<"unsubscribe", uri>> \in Wish
                       /\ Read(uri) \in Wish
  BY DEF Wish
<1>2. \A uri : /\ Read(uri)[1] = "read" /\ Read(uri)[2] = uri
               /\ <<"subscribe", uri>>[1] = "subscribe"
               /\ <<"unsubscribe", uri>>[1] = "unsubscribe"
  BY DEF Read
<1>3. \A task \in List : /\ task[1] = "read" /\ task[2] = "peers" /\ Len(task) = 3
                         /\ \E at \in SUBSET Peer : task = Answer("peers", at)
  BY DEF List, Answer
<1>4. \A task \in Wish : /\ Len(task) = 2 /\ task[2] \in Uri
                         /\ task[1] \in {"subscribe", "unsubscribe", "read"}
                         /\ task = <<task[1], task[2]>>
  BY DEF Wish, Read
<1>5. Wish \cap List = {}
  BY <1>3, <1>4
<1>6. "inbox" \in Uri /\ "peers" \in Uri
  BY DEF Uri
<1>7. \A uri \in Uri : /\ Read(uri) # <<"subscribe", uri>>
                       /\ Read(uri) # <<"unsubscribe", uri>>
                       /\ Read("inbox") # <<"unsubscribe", uri>>
                       /\ Read("peers") # <<"unsubscribe", uri>>
  BY <1>2
<1>8. QED
  BY <1>1, <1>2, <1>3, <1>4, <1>5, <1>6, <1>7

\* So is what is written to the host.
LEMMA OutShapes ==
    /\ \A line \in Out : \/ line \in {Update(uri) : uri \in Uri} /\ line[1] = "update"
                         \/ line \in List \cup Drains /\ line[1] = "read"
    /\ \A line \in Drains : line[1] = "read" /\ line[2] = "inbox"
                            /\ \E notes \in SUBSET Note : line = Answer("inbox", notes)
    /\ \A uri \in Uri : /\ Update(uri) \in Out \ (List \cup Drains)
                        /\ Update(uri)[1] = "update" /\ Update(uri)[2] = uri
    /\ \A line \in Out : line[2] \in Uri
    /\ List \cap Drains = {} /\ List \subseteq Out /\ Drains \subseteq Out
<1>1. \A line \in Drains : line[1] = "read" /\ line[2] = "inbox"
                           /\ \E notes \in SUBSET Note : line = Answer("inbox", notes)
  BY DEF Drains, Answer
<1>2. \A uri : Update(uri)[1] = "update" /\ Update(uri)[2] = uri
  BY DEF Update
<1>3. \A line \in List : line[1] = "read" /\ line[2] = "peers"
  BY TaskShapes
<1>4. List \subseteq Out /\ Drains \subseteq Out
      /\ {Update(uri) : uri \in Uri} \subseteq Out
      /\ Out \subseteq {Update(uri) : uri \in Uri} \cup List \cup Drains
  BY DEF Out, Drains
<1>5. List \cap Drains = {}
  BY <1>1, <1>3
<1>6. \A line \in {Update(uri) : uri \in Uri} :
          line[1] = "update" /\ line[2] \in Uri /\ line \notin List \cup Drains
  BY <1>1, <1>2, <1>3
<1>7. "inbox" \in Uri /\ "peers" \in Uri
  BY DEF Uri
<1>8. QED
  BY <1>1, <1>2, <1>3, <1>4, <1>5, <1>6, <1>7

\* So is what the daemon writes.
LEMMA SentShapes ==
    /\ \A n \in Nat : /\ Message(n) \in Note /\ Presence(n) \in Note
                      /\ Message(n)[1] = "message" /\ Presence(n)[1] = "presence"
    /\ \A line \in Note : line[1] \in {"message", "presence"}
    /\ \A line \in ListLines : line[1] = "answer" /\ line[2] \in SUBSET Peer
    /\ \A line \in Sent : line \in Note \/ line \in ListLines
    /\ \A at \in SUBSET Peer : <<"answer", at>> \in ListLines
    /\ ListLines \subseteq Sent /\ Note \subseteq Sent /\ Note \cap ListLines = {}
<1>1. \A n \in Nat : /\ Message(n) \in Note /\ Presence(n) \in Note
                     /\ Message(n)[1] = "message" /\ Presence(n)[1] = "presence"
  BY DEF Note, Message, Presence
<1>2. \A line \in Note : line[1] \in {"message", "presence"}
  BY DEF Note, Message, Presence
<1>3. \A line \in ListLines : line[1] = "answer" /\ line[2] \in SUBSET Peer
  BY DEF ListLines
<1>4. QED
  BY <1>1, <1>2, <1>3 DEF Sent, ListLines

\* One more of what may be in a sequence.
LEMMA AppendTyped ==
    ASSUME NEW S, NEW q \in Seq(S), NEW x \in S
    PROVE  Append(q, x) \in Seq(S)
OBVIOUS

\* Every variable keeps its shape.
LEMMA ShapesStep == Shapes /\ [Next]_vars => Shapes'
<1> SUFFICES ASSUME Shapes, [Next]_vars PROVE Shapes'
  OBVIOUS
<1> USE DEF Shapes
<1>1. ASSUME NEW uri \in Uri, Follow(uri) PROVE Shapes'
  <2>1. PICK two : two = <<<<"subscribe", uri>>, Read(uri)>>
    OBVIOUS
  <2>2. two \in Seq(Wish)
    <3>1. PICK a, b : a = <<"subscribe", uri>> /\ b = Read(uri)
      OBVIOUS
    <3>2. a \in Wish /\ b \in Wish
      BY <3>1, TaskShapes
    <3>3. <<a, b>> \in Seq(Wish)
      BY <3>2
    <3>4. QED
      BY <2>1, <3>1, <3>3
  <2>3. stdin' = stdin \o two
    BY <1>1, <2>1 DEF Follow
  <2>4. stdin' \in Seq(Wish)
    BY <2>2, <2>3, ConcatProperties
  <2>5. QED
    BY <1>1, <2>4 DEF Follow, daemon, socket, sidecar
<1>2. ASSUME NEW uri \in Uri, Unfollow(uri) PROVE Shapes'
  <2>1. PICK line : line = <<"unsubscribe", uri>>
    OBVIOUS
  <2>2. line \in Wish /\ stdin' = Append(stdin, line)
    BY <1>2, <2>1, TaskShapes DEF Unfollow
  <2>3. stdin' \in Seq(Wish)
    BY ONLY <2>2, stdin \in Seq(Wish), AppendTyped
  <2>4. wants' \subseteq Uri
    BY <1>2 DEF Unfollow
  <2>5. QED
    BY <1>2, <2>3, <2>4 DEF Unfollow, daemon, socket, sidecar
<1>3. CASE HostReads
  <2>1. PICK line : line = Head(stdout)
    OBVIOUS
  <2>2. line \in Out /\ line[2] \in Uri /\ stdout' \in Seq(Out)
    BY <1>3, <2>1, OutShapes DEF HostReads
  <2>3. stdin' \in Seq(Wish)
    <3>1. PICK what : what = Read(line[2])
      OBVIOUS
    <3>2. what \in Wish
      BY <2>2, <3>1, TaskShapes
    <3>3. stdin' = stdin \/ stdin' = Append(stdin, what)
      BY <1>3, <2>1, <3>1 DEF HostReads
    <3>4. Append(stdin, what) \in Seq(Wish)
      BY ONLY <3>2, stdin \in Seq(Wish), AppendTyped
    <3>5. QED
      BY <3>3, <3>4
  <2>4. known' = [uri \in Uri |-> known'[uri]]
    BY <1>3, <2>1, <2>2 DEF HostReads
  <2>5. QED
    BY <1>3, <2>2, <2>3, <2>4 DEF HostReads, daemon, socket, sidecar
<1>4. CASE Serve
  BY <1>4 DEF Serve, daemon, socket, host
<1>5. CASE Handle
  <2>1. PICK task : task = Head(ready)
    OBVIOUS
  <2>2. task \in Wish \cup List /\ ready' \in Seq(Wish \cup List)
    BY <1>5, <2>1 DEF Handle
  <2>3. Answer("inbox", Ids(inbox)) \in Out
    <3>1. Ids(inbox) \in SUBSET Note
      BY DEF Ids
    <3>2. QED
      BY <3>1 DEF Out
  <2>4. task[1] = "read" /\ Len(task) = 3 => task \in Out
    <3>1. task \in Wish => Len(task) = 2
      BY TaskShapes
    <3>2. task \in List => task \in Out
      BY OutShapes
    <3>3. QED
      BY <2>2, <3>1, <3>2
  <2>5. stdout' \in Seq(Out) /\ calls' \in Nat
    <3>1. PICK drain : drain = Answer("inbox", Ids(inbox))
      OBVIOUS
    <3>2. /\ calls' = calls \/ calls' = calls + 1
          /\ \/ stdout' = stdout \/ stdout' = Append(stdout, drain)
             \/ stdout' = Append(stdout, task) /\ task[1] = "read" /\ Len(task) = 3
      BY <1>5, <2>1, <3>1 DEF Handle
    <3>3. calls' \in Nat
      BY <3>2
    <3>4. Append(stdout, drain) \in Seq(Out)
      BY ONLY <2>3, <3>1, stdout \in Seq(Out), AppendTyped
    <3>5. task[1] = "read" /\ Len(task) = 3 => Append(stdout, task) \in Seq(Out)
      BY ONLY <2>4, stdout \in Seq(Out), AppendTyped
    <3>6. QED
      BY <3>2, <3>3, <3>4, <3>5
  <2>6. QED
    BY <1>5, <2>2, <2>5 DEF Handle, daemon, host
<1>6. CASE ReadLine
  <2>1. PICK line : line = Head(lines)
    OBVIOUS
  <2>2. line \in Sent /\ lines' \in Seq(Sent)
    BY <1>6, <2>1 DEF ReadLine
  <2>3. CASE line[1] = "answer"
    <3>1. Answer("peers", line[2]) \in List
      BY <2>2, <2>3, SentShapes DEF List
    <3>2. PICK task : task = Answer("peers", line[2])
      OBVIOUS
    <3>3. ready' = Append(ready, task) /\ notifications' = notifications
      BY <1>6, <2>1, <2>3, <3>2 DEF ReadLine
    <3>4. ready' \in Seq(Wish \cup List)
      BY <3>1, <3>2, <3>3
    <3>5. QED
      BY <1>6, <2>2, <3>3, <3>4 DEF ReadLine, daemon, host
  <2>4. CASE line[1] # "answer"
    <3>1. line \in Note
      BY <2>2, <2>4, SentShapes
    <3>2. ready' = ready /\ notifications' = Append(notifications, line)
      BY <1>6, <2>1, <2>4 DEF ReadLine
    <3>3. notifications' \in Seq(Note)
      BY <3>1, <3>2
    <3>4. QED
      BY <1>6, <2>2, <3>2, <3>3 DEF ReadLine, daemon, host
  <2>5. QED
    BY <2>3, <2>4
<1>7. CASE Forward
  <2>1. PICK note : note = Head(notifications)
    OBVIOUS
  <2>2. note \in Note /\ notifications' \in Seq(Note)
    BY <1>7, <2>1 DEF Forward
  <2>3. inbox' = AppendBounded(inbox, note, InboxMaxlen)
    BY <1>7, <2>1 DEF Forward
  <2>4. inbox' \in Seq(Note) /\ Len(inbox') <= InboxMaxlen
    BY <2>2, <2>3, InboxAssumption, AppendBoundedPromise
  <2>5. Update(Touches(note)) \in Out
    BY OutShapes, TaskShapes DEF Touches
  <2>6. stdout' \in Seq(Out)
    BY <1>7, <2>1, <2>5 DEF Forward
  <2>7. QED
    BY <1>7, <2>2, <2>4, <2>6 DEF Forward, daemon, socket, host
<1>8. CASE AgentTakes
  <2>1. PICK n \in {1, Len(inbox)} : inbox' = SubSeq(inbox, n + 1, Len(inbox))
    BY <1>8 DEF AgentTakes
  <2>2. inbox' \in Seq(Note) /\ Len(inbox') <= InboxMaxlen
    BY <1>8, <2>1, InboxAssumption DEF AgentTakes
  <2>3. QED
    BY <1>8, <2>2 DEF AgentTakes, daemon, socket, host
<1>9. CASE PeerChanges \/ DaemonSends
  <2>1. PICK note \in Note : Notify(note) /\ peers' \subseteq Peer
    <3>1. Message(sent + 1) \in Note /\ Presence(sent + 1) \in Note
      BY SentShapes
    <3>2. CASE PeerChanges
      <4>1. Notify(Presence(sent + 1)) /\ peers' \subseteq Peer
        BY <3>2 DEF PeerChanges
      <4>2. QED
        BY <3>1, <4>1
    <3>3. CASE DaemonSends
      <4>1. Notify(Message(sent + 1)) /\ peers' \subseteq Peer
        BY <3>3 DEF DaemonSends
      <4>2. QED
        BY <3>1, <4>1
    <3>4. QED
      BY <1>9, <3>2, <3>3
  <2>2. lines' \in Seq(Sent) /\ sent' \in Nat
    BY <2>1, SentShapes DEF Notify
  <2>3. QED
    BY <2>1, <2>2 DEF Notify, sidecar, host
<1>10. CASE DaemonAnswers
  <2>1. <<"answer", peers>> \in Sent
    BY SentShapes
  <2>2. QED
    BY <1>10, <2>1 DEF DaemonAnswers, daemon, sidecar, host
<1>11. CASE UNCHANGED vars
  BY <1>11 DEF vars, daemon, socket, sidecar, host
<1>12. QED
  BY <1>1, <1>2, <1>3, <1>4, <1>5, <1>6, <1>7, <1>8, <1>9, <1>10, <1>11 DEF Next

(***************************************************************************)
(* HeedInv: who follows a resource is subscribed, or is yet to be heard.   *)
(***************************************************************************)

\* One more is a sequence of one after it, and a sequence starts with its first.
LEMMA OneMore ==
    ASSUME NEW S, NEW q \in Seq(S), NEW x \in S
    PROVE  <<x>> \in Seq(S) /\ Append(q, x) = q \o <<x>> /\ Tail(<<x>> \o q) = q
OBVIOUS

\* A sequence is its first element and the rest.
LEMMA FirstAndRest ==
    ASSUME NEW S, NEW q \in Seq(S), q # <<>>
    PROVE  Head(q) \in S /\ Tail(q) \in Seq(S) /\ q = <<Head(q)>> \o Tail(q)
OBVIOUS

\* What is asked goes from the lines to the tasks and from there to its end.
LEMMA AskedMoves ==
    ASSUME NEW S, NEW q \in Seq(S), NEW s \in Seq(S)
    PROVE  /\ s # <<>> => Append(q, Head(s)) \o Tail(s) = q \o s
           /\ q # <<>> => /\ Tail(q \o s) = Tail(q) \o s /\ q \o s # <<>>
                          /\ (q \o s)[1] = Head(q)
           /\ \A x \in S : q \o Append(s, x) = Append(q \o s, x)
           /\ q \o s \in Seq(S)
<1>1. ASSUME s # <<>> PROVE Append(q, Head(s)) \o Tail(s) = q \o s
  <2>1. PICK x, t : x = Head(s) /\ t = Tail(s)
    OBVIOUS
  <2>2. x \in S /\ t \in Seq(S) /\ s = <<x>> \o t
    BY <1>1, <2>1, FirstAndRest
  <2>3. <<x>> \in Seq(S) /\ Append(q, x) = q \o <<x>>
    BY <2>2, OneMore
  <2>4. (q \o <<x>>) \o t = q \o (<<x>> \o t)
    BY ONLY <2>2, <2>3, q \in Seq(S), ConcatAssociative
  <2>5. QED
    BY <2>1, <2>2, <2>3, <2>4
<1>2. ASSUME q # <<>>
      PROVE  /\ Tail(q \o s) = Tail(q) \o s /\ q \o s # <<>>
             /\ (q \o s)[1] = Head(q)
  <2>1. PICK x, t : x = Head(q) /\ t = Tail(q)
    OBVIOUS
  <2>2. x \in S /\ t \in Seq(S) /\ q = <<x>> \o t
    BY <1>2, <2>1, FirstAndRest
  <2>3. <<x>> \in Seq(S)
    BY <2>2
  <2>4. (<<x>> \o t) \o s = <<x>> \o (t \o s)
    BY ONLY <2>2, <2>3, s \in Seq(S), ConcatAssociative
  <2>5. t \o s \in Seq(S)
    BY <2>2, ConcatProperties
  <2>6. Tail(<<x>> \o (t \o s)) = t \o s
    BY ONLY <2>2, <2>5, OneMore
  <2>7. q \o s \in Seq(S) /\ Len(q \o s) = Len(q) + Len(s) /\ Len(q) \in Nat \ {0}
        /\ Len(s) \in Nat /\ (q \o s)[1] = q[1]
    <3>1. Len(q) \in Nat \ {0} /\ Len(s) \in Nat
      BY <1>2
    <3>2. 1 \in 1..(Len(q) + Len(s)) /\ 1 <= Len(q)
      BY <3>1
    <3>3. QED
      BY <3>1, <3>2, ConcatProperties
  <2>8. q \o s # <<>>
    BY <2>7
  <2>9. QED
    BY <1>2, <2>1, <2>2, <2>4, <2>6, <2>7, <2>8
<1>3. ASSUME NEW x \in S PROVE q \o Append(s, x) = Append(q \o s, x)
  <2>1. <<x>> \in Seq(S) /\ Append(s, x) = s \o <<x>>
    BY OneMore
  <2>2. q \o s \in Seq(S)
    BY ConcatProperties
  <2>3. Append(q \o s, x) = (q \o s) \o <<x>>
    BY ONLY <2>2, x \in S, OneMore
  <2>4. QED
    BY <2>1, <2>3, ConcatAssociative
<1>4. QED
  BY <1>1, <1>2, <1>3, ConcatProperties

\* One more that takes nothing back, anywhere among what is asked.
LEMMA HeededInsert ==
    ASSUME NEW S, NEW p \in Seq(S), NEW s \in Seq(S), NEW x \in S, NEW on, NEW uri,
           x # <<"unsubscribe", uri>>, NEW q, q = p \o s, NEW r, r = Append(p, x) \o s,
           Heeded(q, on, uri)
    PROVE  Heeded(r, on, uri)
<1>1. PICK m, n, y : m = Len(p) /\ n = Len(s) /\ y = Append(p, x)
  OBVIOUS
<1>2. /\ m \in Nat /\ n \in Nat /\ DOMAIN q = 1..(m + n)
      /\ \A i \in 1..m : q[i] = p[i]
      /\ \A i \in (m + 1)..(m + n) : q[i] = s[i - m] /\ i - m \in 1..n
  BY <1>1, ConcatMeans
<1>3. y \in Seq(S) /\ Len(y) = m + 1 /\ y[m + 1] = x /\ \A i \in 1..m : y[i] = p[i]
  BY <1>1
<1>4. /\ DOMAIN r = 1..((m + 1) + n)
      /\ \A i \in 1..(m + 1) : r[i] = y[i]
      /\ \A i \in ((m + 1) + 1)..((m + 1) + n) : r[i] = s[i - (m + 1)]
  <2>1. PICK l : l = m + 1
    OBVIOUS
  <2>2. r = y \o s /\ l = Len(y) /\ n = Len(s) /\ y \in Seq(S)
    BY <1>1, <1>3, <2>1
  <2>3. /\ r \in Seq(S) /\ Len(r) = l + n
        /\ \A i \in 1..l : r[i] = y[i]
        /\ \A i \in (l + 1)..(l + n) : r[i] = s[i - l] /\ i - l \in 1..n
    BY ONLY <2>2, s \in Seq(S), ConcatMeans
  <2>4. DOMAIN r = 1..(l + n)
    BY ONLY <2>3
  <2>5. QED
    BY <2>1, <2>3, <2>4
<1> DEFINE f(k) == IF k <= m THEN k ELSE k + 1
<1>5. ASSUME NEW k \in DOMAIN q PROVE f(k) \in DOMAIN r /\ r[f(k)] = q[k]
  <2>1. CASE k <= m
    <3>1. k \in 1..m /\ k \in 1..(m + 1) /\ k \in 1..((m + 1) + n) /\ f(k) = k
      BY <1>2, <2>1
    <3>2. r[k] = q[k]
      BY <1>2, <1>3, <1>4, <3>1
    <3>3. QED
      BY <1>4, <3>1, <3>2
  <2>2. CASE ~(k <= m)
    <3>1. /\ k \in (m + 1)..(m + n) /\ k + 1 \in ((m + 1) + 1)..((m + 1) + n)
          /\ (k + 1) - (m + 1) = k - m /\ k + 1 \in 1..((m + 1) + n)
      <4>1. k \in 1..(m + n) /\ m \in Nat /\ n \in Nat
        BY <1>2
      <4>2. QED
        BY ONLY <4>1, <2>2
    <3>2. f(k) = k + 1
      BY <2>2
    <3>3. r[k + 1] = q[k]
      BY <1>2, <1>4, <3>1
    <3>4. QED
      BY <1>4, <3>1, <3>2, <3>3
  <2>3. QED
    BY <2>1, <2>2
<1>6. ASSUME NEW k \in DOMAIN r, r[k] = <<"unsubscribe", uri>>
      PROVE  \E l \in DOMAIN q : k = f(l) /\ q[l] = <<"unsubscribe", uri>>
  <2>0. k \in 1..((m + 1) + n)
    BY <1>4
  <2>1. k # m + 1
    <3>1. m + 1 \in 1..(m + 1)
      BY <1>2
    <3>2. r[m + 1] = x
      BY <1>3, <1>4, <3>1
    <3>3. QED
      BY <1>6, <3>2
  <2>2. CASE k <= m
    <3>1. k \in DOMAIN q /\ f(k) = k
      BY <1>2, <2>0, <2>2
    <3>2. q[k] = <<"unsubscribe", uri>>
      BY <1>5, <1>6, <3>1
    <3>3. QED
      BY <3>1, <3>2
  <2>3. CASE k > m + 1
    <3>1. k - 1 \in DOMAIN q /\ f(k - 1) = k
      BY <1>2, <2>0, <2>3
    <3>2. q[k - 1] = <<"unsubscribe", uri>>
      BY <1>5, <1>6, <3>1
    <3>3. QED
      BY <3>1, <3>2
  <2>4. k <= m \/ k > m + 1
    BY <1>2, <2>0, <2>1
  <2>5. QED
    BY <2>2, <2>3, <2>4
<1>7. \A k, l \in DOMAIN q : k < l <=> f(k) < f(l)
  BY <1>2
<1> HIDE DEF f
<1>8. CASE on /\ \A k \in DOMAIN q : q[k] # <<"unsubscribe", uri>>
  BY <1>6, <1>8 DEF Heeded
<1>9. ASSUME NEW i \in DOMAIN q, NEW j \in DOMAIN q,
             i < j, q[i] = <<"subscribe", uri>>, q[j] = Read(uri),
             \A k \in DOMAIN q : i < k => q[k] # <<"unsubscribe", uri>>
      PROVE  Heeded(r, on, uri)
  <2>1. /\ f(i) \in DOMAIN r /\ f(j) \in DOMAIN r /\ f(i) < f(j)
        /\ r[f(i)] = <<"subscribe", uri>> /\ r[f(j)] = Read(uri)
    BY <1>5, <1>7, <1>9
  <2>2. ASSUME NEW k \in DOMAIN r, f(i) < k PROVE r[k] # <<"unsubscribe", uri>>
    <3>1. SUFFICES ASSUME r[k] = <<"unsubscribe", uri>> PROVE FALSE
      OBVIOUS
    <3>2. PICK l \in DOMAIN q : k = f(l) /\ q[l] = <<"unsubscribe", uri>>
      BY <1>6, <3>1
    <3>3. i < l
      BY <1>7, <2>2, <3>2
    <3>4. QED
      BY <1>9, <3>2, <3>3
  <2>3. QED
    BY <2>1, <2>2 DEF Heeded
<1>10. QED
  BY <1>8, <1>9 DEF Heeded

\* One more at the end that takes nothing back.
LEMMA HeededAppend ==
    ASSUME NEW S, NEW q \in Seq(S), NEW x \in S, NEW on, NEW uri,
           x # <<"unsubscribe", uri>>, Heeded(q, on, uri)
    PROVE  Heeded(Append(q, x), on, uri)
<1>1. <<>> \in Seq(S) /\ q \o <<>> = q
  BY ConcatEmptySeq
<1>2. PICK r : r = Append(q, x)
  OBVIOUS
<1>3. r \in Seq(S) /\ r = r \o <<>>
  BY <1>2, ConcatEmptySeq
<1>4. Heeded(r, on, uri)
  BY <1>1, <1>2, <1>3, HeededInsert
<1>5. QED
  BY <1>2, <1>4

\* The first is done: what it asked is on, or nothing of this was asked.
LEMMA HeededTail ==
    ASSUME NEW S, NEW q \in Seq(S), q # <<>>, NEW on, NEW now, NEW uri,
           Heeded(q, on, uri), q[1] = <<"subscribe", uri>> => now,
           on /\ q[1] # <<"unsubscribe", uri>> => now
    PROVE  Heeded(Tail(q), now, uri)
<1>1. PICK r : r = Tail(q)
  OBVIOUS
<1>2. /\ Len(r) = Len(q) - 1 /\ Len(q) \in Nat \ {0}
      /\ \A k \in 1..Len(r) : r[k] = q[k + 1] /\ k + 1 \in 1..Len(q)
      /\ DOMAIN r = 1..Len(r) /\ DOMAIN q = 1..Len(q) /\ 1 \in DOMAIN q
  BY <1>1
<1>3. CASE on /\ \A k \in DOMAIN q : q[k] # <<"unsubscribe", uri>>
  <2>1. now /\ \A k \in DOMAIN r : r[k] # <<"unsubscribe", uri>>
    BY <1>2, <1>3
  <2>2. QED
    BY <1>1, <2>1 DEF Heeded
<1>4. ASSUME NEW i \in DOMAIN q, NEW j \in DOMAIN q,
             i < j, q[i] = <<"subscribe", uri>>, q[j] = Read(uri),
             \A k \in DOMAIN q : i < k => q[k] # <<"unsubscribe", uri>>
      PROVE  Heeded(r, now, uri)
  <2>1. \A k \in DOMAIN r : k >= i => r[k] # <<"unsubscribe", uri>>
    <3> SUFFICES ASSUME NEW k \in DOMAIN r, k >= i PROVE r[k] # <<"unsubscribe", uri>>
      OBVIOUS
    <3>1. k + 1 \in DOMAIN q /\ i < k + 1
      BY <1>2
    <3>2. QED
      BY <1>2, <1>4, <3>1
  <2>2. CASE i = 1
    <3>1. now /\ \A k \in DOMAIN r : r[k] # <<"unsubscribe", uri>>
      BY <1>2, <1>4, <2>1, <2>2
    <3>2. QED
      BY <3>1 DEF Heeded
  <2>3. CASE i # 1
    <3>1. /\ i - 1 \in DOMAIN r /\ j - 1 \in DOMAIN r /\ i - 1 < j - 1
          /\ (i - 1) + 1 = i /\ (j - 1) + 1 = j
      BY <1>2, <1>4, <2>3
    <3>2. r[i - 1] = <<"subscribe", uri>> /\ r[j - 1] = Read(uri)
      BY <1>2, <1>4, <3>1
    <3>3. \A k \in DOMAIN r : i - 1 < k => r[k] # <<"unsubscribe", uri>>
      BY <1>2, <2>1
    <3>4. QED
      BY <3>1, <3>2, <3>3 DEF Heeded
  <2>4. QED
    BY <2>2, <2>3
<1>5. QED
  BY <1>1, <1>3, <1>4 DEF Heeded

\* To follow is to subscribe and to read.
LEMMA HeededAsked ==
    ASSUME NEW S, NEW q \in Seq(S), NEW on, NEW uri,
           NEW a, NEW b, a = <<"subscribe", uri>>, b = Read(uri), a \in S, b \in S,
           a # <<"unsubscribe", uri>>, b # <<"unsubscribe", uri>>
    PROVE  Heeded(Append(Append(q, a), b), on, uri)
<1>1. PICK n, r : n = Len(q) /\ r = Append(Append(q, a), b)
  OBVIOUS
<1>2. /\ n \in Nat /\ DOMAIN r = 1..(n + 2) /\ r[n + 1] = a /\ r[n + 2] = b
  BY <1>1
<1>3. /\ n + 1 \in DOMAIN r /\ n + 2 \in DOMAIN r /\ n + 1 < n + 2
      /\ \A k \in DOMAIN r : n + 1 < k => k = n + 2
  BY <1>2
<1>4. \A k \in DOMAIN r : n + 1 < k => r[k] # <<"unsubscribe", uri>>
  BY <1>2, <1>3
<1>5. Heeded(r, on, uri)
  BY <1>2, <1>3, <1>4 DEF Heeded
<1>6. QED
  BY <1>1, <1>5

\* What a task does that runs.
LEMMA HandleMeans ==
    ASSUME Shapes, Handle
    PROVE  \E task \in Wish \cup List :
             /\ ready # <<>> /\ task = Head(ready) /\ ready' = Tail(ready)
             /\ UNCHANGED <<peers, lines, notifications, inbox, stdin, wants, known>>
             /\ \/ /\ \E uri \in Uri : /\ task = <<"subscribe", uri>>
                                       /\ subscribed_resources' =
                                            subscribed_resources \cup {uri}
                   /\ UNCHANGED <<calls, stdout>>
                \/ /\ \E uri \in Uri : /\ task = <<"unsubscribe", uri>>
                                       /\ subscribed_resources' =
                                            subscribed_resources \ {uri}
                   /\ UNCHANGED <<calls, stdout>>
                \/ /\ task = Read("inbox")
                   /\ stdout' = Append(stdout, Answer("inbox", Ids(inbox)))
                   /\ UNCHANGED <<subscribed_resources, calls>>
                \/ /\ task = Read("peers") /\ calls' = calls + 1
                   /\ UNCHANGED <<subscribed_resources, stdout>>
                \/ /\ task \in List /\ stdout' = Append(stdout, task)
                   /\ UNCHANGED <<subscribed_resources, calls>>
<1>1. PICK task : task = Head(ready)
  OBVIOUS
<1>2. /\ ready # <<>> /\ ready' = Tail(ready) /\ task \in Wish \cup List
      /\ UNCHANGED <<peers, lines, notifications, inbox, stdin, wants, known>>
  BY <1>1 DEF Handle, Shapes, daemon, host
<1>3. task[1] \in {"subscribe", "unsubscribe"} =>
        task[2] \in Uri /\ task = <<task[1], task[2]>>
  <2>1. task \in List => task[1] = "read"
    BY TaskShapes
  <2>2. task \in Wish => task[2] \in Uri /\ task = <<task[1], task[2]>>
    BY TaskShapes
  <2>3. QED
    BY <1>2, <2>1, <2>2
<1>4. Len(task) = 3 => task \in List
  <2>1. task \in Wish => Len(task) = 2
    BY TaskShapes
  <2>2. QED
    BY <1>2, <2>1
<1>5. \/ /\ task[1] = "subscribe"
         /\ subscribed_resources' = subscribed_resources \cup {task[2]}
         /\ UNCHANGED <<calls, stdout>>
      \/ /\ task[1] = "unsubscribe"
         /\ subscribed_resources' = subscribed_resources \ {task[2]}
         /\ UNCHANGED <<calls, stdout>>
      \/ /\ task = Read("inbox")
         /\ stdout' = Append(stdout, Answer("inbox", Ids(inbox)))
         /\ UNCHANGED <<subscribed_resources, calls>>
      \/ /\ task = Read("peers") /\ calls' = calls + 1
         /\ UNCHANGED <<subscribed_resources, stdout>>
      \/ /\ task[1] = "read" /\ Len(task) = 3
         /\ stdout' = Append(stdout, task)
         /\ UNCHANGED <<subscribed_resources, calls>>
  BY <1>1 DEF Handle, Subscribed
<1>6. QED
  BY <1>1, <1>2, <1>3, <1>4, <1>5

\* Who follows a resource is told of its updates, or is yet to be heard.
LEMMA HeedStep == Shapes /\ HeedInv /\ [Next]_vars => HeedInv'
<1> SUFFICES ASSUME Shapes, HeedInv, [Next]_vars, NEW u \in wants'
             PROVE  Heeded(Asked', u \in subscribed_resources', u)
  BY DEF HeedInv
<1>0. ready \in Seq(Wish \cup List) /\ stdin \in Seq(Wish \cup List)
      /\ stdin \in Seq(Wish) /\ wants \subseteq Uri
  <2>1. stdin \in Seq(Wish) /\ Wish \subseteq Wish \cup List
    BY DEF Shapes
  <2>2. stdin \in Seq(Wish \cup List)
    BY ONLY <2>1, SeqMonotonic
  <2>3. QED
    BY <2>1, <2>2 DEF Shapes
<1>1. PICK q : q = Asked
  OBVIOUS
<1>2. /\ q \in Seq(Wish \cup List)
      /\ stdin # <<>> => Append(ready, Head(stdin)) \o Tail(stdin) = q
      /\ ready # <<>> => Tail(q) = Tail(ready) \o stdin /\ q # <<>> /\ q[1] = Head(ready)
      /\ \A x \in Wish \cup List : ready \o Append(stdin, x) = Append(q, x)
  <2>1. PICK S, p, s : S = Wish \cup List /\ p = ready /\ s = stdin
    OBVIOUS
  <2>2. p \in Seq(S) /\ s \in Seq(S) /\ q = p \o s
    BY <1>0, <1>1, <2>1 DEF Asked
  <2>3. /\ s # <<>> => Append(p, Head(s)) \o Tail(s) = p \o s
        /\ p # <<>> => Tail(p \o s) = Tail(p) \o s /\ p \o s # <<>>
                       /\ (p \o s)[1] = Head(p)
        /\ \A x \in S : p \o Append(s, x) = Append(p \o s, x)
        /\ p \o s \in Seq(S)
    BY ONLY <2>2, AskedMoves
  <2>4. QED
    BY ONLY <2>1, <2>2, <2>3
<1>3. u \in wants => Heeded(q, u \in subscribed_resources, u)
  BY <1>1 DEF HeedInv
<1>4. ASSUME NEW uri \in Uri, Follow(uri)
      PROVE  Heeded(Asked', u \in subscribed_resources', u)
  <2>1. PICK a, b : a = <<"subscribe", uri>> /\ b = Read(uri)
    OBVIOUS
  <2>2. a \in Wish /\ b \in Wish /\ a # b /\ a[1] = "subscribe" /\ b[1] = "read"
    BY <2>1, TaskShapes DEF Read
  <2>3. stdin' = stdin \o <<a, b>> /\ ready' = ready /\ wants' = wants \cup {uri}
        /\ subscribed_resources' = subscribed_resources
    BY <1>4, <2>1 DEF Follow, sidecar
  <2>4. stdin \o <<a, b>> = Append(Append(stdin, a), b)
    BY <1>0, <2>2
  <2>5. Append(stdin, a) \in Seq(Wish \cup List)
    BY ONLY <1>0, <2>2, AppendTyped
  <2>6. ready \o Append(Append(stdin, a), b) = Append(ready \o Append(stdin, a), b)
    BY ONLY <1>0, <2>2, <2>5, AskedMoves
  <2>7. Asked' = Append(Append(q, a), b)
    BY <1>2, <2>2, <2>3, <2>4, <2>6 DEF Asked
  <2>8. \A v : a # <<"unsubscribe", v>> /\ b # <<"unsubscribe", v>>
    BY <2>2
  <2>9. CASE u = uri
    <3>1. Heeded(Append(Append(q, a), b), u \in subscribed_resources, u)
      BY <1>2, <2>1, <2>2, <2>8, <2>9, HeededAsked
    <3>2. QED
      BY <2>3, <2>7, <3>1
  <2>10. CASE u # uri
    <3>1. Heeded(q, u \in subscribed_resources, u)
      BY <1>3, <2>3, <2>10
    <3>2. Append(q, a) \in Seq(Wish \cup List)
      BY ONLY <1>2, <2>2, AppendTyped
    <3>3. Heeded(Append(q, a), u \in subscribed_resources, u)
      BY <1>2, <2>2, <2>8, <3>1, HeededAppend
    <3>4. Heeded(Append(Append(q, a), b), u \in subscribed_resources, u)
      BY <2>2, <2>8, <3>2, <3>3, HeededAppend
    <3>5. QED
      BY <2>3, <2>7, <3>4
  <2>11. QED
    BY <2>9, <2>10
<1>5. ASSUME NEW uri \in Uri, Unfollow(uri)
      PROVE  Heeded(Asked', u \in subscribed_resources', u)
  <2>1. PICK x : x = <<"unsubscribe", uri>>
    OBVIOUS
  <2>2. /\ x \in Wish \cup List /\ u \in wants /\ u # uri /\ ready' = ready
        /\ stdin' = Append(stdin, x) /\ subscribed_resources' = subscribed_resources
    BY <1>5, <2>1, TaskShapes DEF Unfollow, sidecar
  <2>3. x # <<"unsubscribe", u>>
    BY <2>1, <2>2
  <2>4. Asked' = Append(q, x)
    BY <1>2, <2>2 DEF Asked
  <2>5. Heeded(Append(q, x), u \in subscribed_resources, u)
    BY <1>2, <1>3, <2>2, <2>3, HeededAppend
  <2>6. QED
    BY <2>2, <2>4, <2>5
<1>6. CASE HostReads
  <2>1. PICK line, x : line = Head(stdout) /\ x = Read(line[2])
    OBVIOUS
  <2>2. line[2] \in Uri
    BY <1>6, <2>1, OutShapes DEF HostReads, Shapes
  <2>3. x \in Wish \cup List /\ x[1] = "read"
    BY <2>1, <2>2, TaskShapes
  <2>4. x # <<"unsubscribe", u>>
    BY <2>3
  <2>5. /\ wants' = wants /\ ready' = ready /\ subscribed_resources' = subscribed_resources
        /\ stdin' = stdin \/ stdin' = Append(stdin, x)
    BY <1>6, <2>1 DEF HostReads, sidecar
  <2>6. Heeded(Append(q, x), u \in subscribed_resources, u)
    BY <1>2, <1>3, <2>3, <2>4, <2>5, HeededAppend
  <2>7. Asked' = q \/ Asked' = Append(q, x)
    BY <1>1, <1>2, <2>3, <2>5 DEF Asked
  <2>8. QED
    BY <1>3, <2>5, <2>6, <2>7
<1>7. CASE Serve
  <2>1. /\ wants' = wants /\ subscribed_resources' = subscribed_resources
        /\ stdin # <<>> /\ ready' = Append(ready, Head(stdin)) /\ stdin' = Tail(stdin)
    BY <1>7 DEF Serve, host
  <2>2. Asked' = q
    BY <1>2, <2>1 DEF Asked
  <2>3. QED
    BY <1>3, <2>1, <2>2
<1>8. CASE Handle
  <2>1. PICK task \in Wish \cup List :
             /\ ready # <<>> /\ task = Head(ready) /\ ready' = Tail(ready)
             /\ UNCHANGED <<stdin, wants>>
             /\ \/ \E uri \in Uri : /\ task = <<"subscribe", uri>>
                                    /\ subscribed_resources' =
                                         subscribed_resources \cup {uri}
                \/ \E uri \in Uri : /\ task = <<"unsubscribe", uri>>
                                    /\ subscribed_resources' =
                                         subscribed_resources \ {uri}
                \/ /\ task = Read("inbox") \/ task = Read("peers") \/ task \in List
                   /\ UNCHANGED subscribed_resources
    BY <1>8, HandleMeans
  <2>2. PICK on, now : on = (u \in subscribed_resources)
                       /\ now = (u \in subscribed_resources')
    OBVIOUS
  <2>3. (task = Read("inbox") \/ task = Read("peers") \/ task \in List) => task[1] = "read"
    BY TaskShapes
  <2>4. q[1] = <<"subscribe", u>> => u \in subscribed_resources'
    <3>1. SUFFICES ASSUME task = <<"subscribe", u>> PROVE u \in subscribed_resources'
      BY <1>2, <2>1
    <3>2. task[1] = "subscribe" /\ task[2] = u
      BY <3>1
    <3>3. QED
      BY <2>1, <2>3, <3>2
  <2>5. (u \in subscribed_resources) /\ q[1] # <<"unsubscribe", u>> =>
          u \in subscribed_resources'
    BY <1>2, <2>1
  <2>6. Heeded(q, u \in subscribed_resources, u) /\ q # <<>>
    BY <1>2, <1>3, <2>1
  <2>7. Heeded(Tail(q), u \in subscribed_resources', u)
    BY <1>2, <2>4, <2>5, <2>6, HeededTail
  <2>8. Asked' = Tail(q)
    BY <1>2, <2>1 DEF Asked
  <2>9. QED
    BY <2>7, <2>8
<1>9. CASE ReadLine
  <2>1. PICK line, x : line = Head(lines) /\ x = Answer("peers", line[2])
    OBVIOUS
  <2>2. /\ wants' = wants /\ stdin' = stdin /\ subscribed_resources' = subscribed_resources
        /\ IF line[1] = "answer" THEN ready' = Append(ready, x) ELSE ready' = ready
        /\ lines # <<>> /\ line \in Sent
    BY <1>9, <2>1 DEF ReadLine, host, Shapes
  <2>3. CASE line[1] # "answer"
    BY <1>1, <1>3, <2>2, <2>3 DEF Asked
  <2>4. CASE line[1] = "answer"
    <3>1. line \in ListLines
      BY <2>2, <2>4, SentShapes
    <3>2. x \in List
      BY <2>1, <3>1, SentShapes DEF List
    <3>3. x[1] = "read" /\ x \in Wish \cup List
      BY <3>2, TaskShapes
    <3>4. x # <<"unsubscribe", u>>
      BY <3>3
    <3>5. PICK r : r = Append(ready, x) \o stdin
      OBVIOUS
    <3>6. q = ready \o stdin /\ Heeded(q, u \in subscribed_resources, u)
      BY <1>1, <1>3, <2>2 DEF Asked
    <3>7. Heeded(r, u \in subscribed_resources, u)
      BY ONLY <1>0, <3>3, <3>4, <3>5, <3>6, HeededInsert
    <3>8. QED
      BY <2>2, <2>4, <3>5, <3>7 DEF Asked
  <2>5. QED
    BY <2>3, <2>4
<1>10. CASE Forward \/ AgentTakes \/ PeerChanges \/ DaemonSends \/ DaemonAnswers
            \/ UNCHANGED vars
  <2>1. UNCHANGED <<wants, ready, stdin, subscribed_resources>>
    BY <1>10 DEF Forward, AgentTakes, PeerChanges, DaemonSends, DaemonAnswers, Notify,
                 vars, sidecar, host
  <2>2. QED
    BY <1>1, <1>3, <2>1 DEF Asked
<1>11. QED
  BY <1>4, <1>5, <1>6, <1>7, <1>8, <1>9, <1>10 DEF Next

\* A read that is to come stays so until it is done, while the host follows.
LEMMA ToReadStep ==
    ASSUME Shapes, [Next]_vars, NEW u \in wants \cap wants', ToRead(u),
           ~(Handle /\ Head(ready) = Read(u))
    PROVE  ToRead(u)'
<1>0. /\ ready \in Seq(Wish \cup List) /\ stdin \in Seq(Wish) /\ stdout \in Seq(Out)
      /\ u \in Uri
  BY DEF Shapes
<1>1. ASSUME Ids(ready) \cup Ids(stdin) \subseteq Ids(ready') \cup Ids(stdin'),
             Ids(stdout) \subseteq Ids(stdout')
      PROVE  ToRead(u)'
  BY <1>1 DEF ToRead, Read, Update
<1>2. ASSUME NEW uri \in Uri, Follow(uri) PROVE ToRead(u)'
  <2>1. PICK two : two = <<<<"subscribe", uri>>, Read(uri)>>
    OBVIOUS
  <2>2. UNCHANGED <<ready, stdout>> /\ stdin' = stdin \o two
    BY <1>2, <2>1 DEF Follow, sidecar
  <2>3. two \in Seq(Wish)
    <3>1. PICK a, b : a = <<"subscribe", uri>> /\ b = Read(uri)
      OBVIOUS
    <3>2. a \in Wish /\ b \in Wish
      BY <3>1, TaskShapes
    <3>3. <<a, b>> \in Seq(Wish)
      BY <3>2
    <3>4. QED
      BY <2>1, <3>1, <3>3
  <2>4. Ids(stdin \o two) = Ids(stdin) \cup Ids(two)
    <3>1. stdin \in Seq(Wish)
      BY <1>0
    <3>2. QED
      BY ONLY <2>3, <3>1, IdsConcat
  <2>5. QED
    BY <1>1, <2>2, <2>4
<1>3. ASSUME NEW uri \in Uri, Unfollow(uri) PROVE ToRead(u)'
  <2>1. PICK x : x = <<"unsubscribe", uri>>
    OBVIOUS
  <2>2. UNCHANGED <<ready, stdout>> /\ stdin' = Append(stdin, x) /\ x \in Wish
    BY <1>3, <2>1, TaskShapes DEF Unfollow, sidecar
  <2>3. Ids(Append(stdin, x)) = Ids(stdin) \cup {x}
    BY ONLY <1>0, <2>2, IdsAppend
  <2>4. QED
    BY <1>1, <2>2, <2>3
<1>4. CASE HostReads
  <2>1. PICK line, t, x : line = stdout[1] /\ t = Tail(stdout) /\ x = Read(line[2])
    OBVIOUS
  <2>2. stdout # <<>> /\ stdout' = t /\ line = Head(stdout) /\ ready' = ready
        /\ line \in Out
    BY <1>0, <1>4, <2>1 DEF HostReads, sidecar
  <2>3. Ids(stdout) = {line} \cup Ids(t)
    <3>1. stdout \in Seq(Out) /\ stdout # <<>> /\ t = Tail(stdout)
      BY <1>0, <2>1, <2>2
    <3>2. Ids(stdout) = {stdout[1]} \cup Ids(t)
      BY ONLY <3>1, IdsTail
    <3>3. QED
      BY <2>1, <3>2
  <2>4. stdin' = stdin \/ (stdin' = Append(stdin, x) /\ x \in Wish)
    <3>1. line[2] \in Uri
      BY <2>2, OutShapes
    <3>2. x \in Wish
      BY <2>1, <3>1, TaskShapes
    <3>3. QED
      BY <1>4, <2>1, <2>2, <3>2 DEF HostReads
  <2>5. x \in Wish => Ids(Append(stdin, x)) = Ids(stdin) \cup {x}
    BY ONLY <1>0, IdsAppend
  <2>6. CASE line = Update(u)
    <3>1. line[1] = "update" /\ line[2] = u
      BY <2>6 DEF Update
    <3>2. stdin' = Append(stdin, x) /\ x = Read(u) /\ x \in Wish
      BY <1>0, <1>4, <2>1, <2>2, <3>1, TaskShapes DEF HostReads
    <3>3. x \in Ids(stdin')
      BY <2>5, <3>2
    <3>4. QED
      BY <3>2, <3>3 DEF ToRead, Read, Update
  <2>7. CASE line # Update(u)
    <3>1. Ids(stdin) \subseteq Ids(stdin')
      BY <2>4, <2>5
    <3>2. Update(u) \in Ids(stdout) => Update(u) \in Ids(stdout')
      BY <2>2, <2>3, <2>7
    <3>3. QED
      BY <2>2, <3>1, <3>2 DEF ToRead, Read, Update
  <2>8. QED
    BY <2>6, <2>7
<1>5. CASE Serve
  <2>1. PICK x, t : x = stdin[1] /\ t = Tail(stdin)
    OBVIOUS
  <2>2. /\ stdin # <<>> /\ stdin' = t /\ x \in Wish \cup List /\ ready' = Append(ready, x)
        /\ stdout' = stdout
    BY <1>0, <1>5, <2>1 DEF Serve
  <2>3. Ids(stdin) = {x} \cup Ids(t)
    <3>1. stdin \in Seq(Wish) /\ stdin # <<>> /\ t = Tail(stdin)
      BY <1>0, <2>1, <2>2
    <3>2. Ids(stdin) = {stdin[1]} \cup Ids(t)
      BY ONLY <3>1, IdsTail
    <3>3. QED
      BY <2>1, <3>2
  <2>4. Ids(Append(ready, x)) = Ids(ready) \cup {x}
    BY ONLY <1>0, <2>2, IdsAppend
  <2>5. QED
    BY <1>1, <2>2, <2>3, <2>4
<1>6. CASE Handle
  <2>1. PICK task \in Wish \cup List :
             /\ ready # <<>> /\ task = Head(ready) /\ ready' = Tail(ready)
             /\ stdin' = stdin
             /\ \/ stdout' = stdout
                \/ stdout' = Append(stdout, Answer("inbox", Ids(inbox)))
                \/ task \in List /\ stdout' = Append(stdout, task)
    BY <1>6, HandleMeans
  <2>2. PICK x, t : x = ready[1] /\ t = Tail(ready)
    OBVIOUS
  <2>3. Ids(ready) = {x} \cup Ids(t)
    <3>1. ready \in Seq(Wish \cup List) /\ ready # <<>> /\ t = Tail(ready)
      BY <1>0, <2>1, <2>2
    <3>2. Ids(ready) = {ready[1]} \cup Ids(t)
      BY ONLY <3>1, IdsTail
    <3>3. QED
      BY <2>2, <3>2
  <2>4. x = task /\ task # Read(u)
    BY <1>0, <1>6, <2>1, <2>2
  <2>5. Ids(stdout) \subseteq Ids(stdout')
    <3>1. PICK d : d = Answer("inbox", Ids(inbox))
      OBVIOUS
    <3>2. Ids(inbox) \in SUBSET Note
      BY DEF Shapes, Ids
    <3>3. d \in Out /\ List \subseteq Out
      BY <3>1, <3>2 DEF Out
    <3>4. \A y \in Out : Ids(Append(stdout, y)) = Ids(stdout) \cup {y}
      BY ONLY <1>0, IdsAppend
    <3>5. QED
      BY <2>1, <3>1, <3>3, <3>4
  <2>6. QED
    BY <2>1, <2>2, <2>3, <2>4, <2>5 DEF ToRead, Read, Update
<1>7. CASE ReadLine
  <2>1. PICK line, x : line = Head(lines) /\ x = Answer("peers", line[2])
    OBVIOUS
  <2>2. /\ stdin' = stdin /\ stdout' = stdout /\ line \in Sent
        /\ IF line[1] = "answer" THEN ready' = Append(ready, x) ELSE ready' = ready
    BY <1>7, <2>1 DEF ReadLine, Shapes
  <2>3. line[1] = "answer" => x \in Wish \cup List
    <3>1. line[1] = "answer" => line \in ListLines
      BY <2>2, SentShapes
    <3>2. QED
      BY <2>1, <3>1, SentShapes DEF List
  <2>4. x \in Wish \cup List => Ids(Append(ready, x)) = Ids(ready) \cup {x}
    BY ONLY <1>0, IdsAppend
  <2>5. QED
    BY <1>1, <2>2, <2>3, <2>4
<1>8. CASE Forward
  <2>1. PICK x : x = Update(Touches(Head(notifications)))
    OBVIOUS
  <2>2. /\ UNCHANGED <<ready, stdin>>
        /\ stdout' = stdout \/ stdout' = Append(stdout, x)
    BY <1>8, <2>1 DEF Forward
  <2>3. x \in Out
    BY <2>1, OutShapes, TaskShapes DEF Touches
  <2>4. Ids(Append(stdout, x)) = Ids(stdout) \cup {x}
    BY ONLY <1>0, <2>3, IdsAppend
  <2>5. QED
    BY <1>1, <2>2, <2>4
<1>9. CASE AgentTakes \/ PeerChanges \/ DaemonSends \/ DaemonAnswers \/ UNCHANGED vars
  <2>1. UNCHANGED <<ready, stdin, stdout>>
    BY <1>9 DEF AgentTakes, PeerChanges, DaemonSends, DaemonAnswers, Notify, vars, sidecar
  <2>2. QED
    BY <1>1, <2>1
<1>10. QED
  BY <1>2, <1>3, <1>4, <1>5, <1>6, <1>7, <1>8, <1>9 DEF Next

\* To follow a resource is to read it.
LEMMA FollowReads ==
    ASSUME Shapes, [Next]_vars, NEW u \in wants' \ wants
    PROVE  ToRead(u)'
<1>1. PICK uri \in Uri : Follow(uri)
  <2>1. HostReads \/ Serve \/ Handle \/ ReadLine \/ Forward \/ AgentTakes \/ PeerChanges
        \/ DaemonSends \/ DaemonAnswers \/ UNCHANGED vars => wants' = wants
    BY DEF HostReads, Serve, Handle, ReadLine, Forward, AgentTakes, PeerChanges,
           DaemonSends, DaemonAnswers, Notify, vars, host
  <2>2. \A uri \in Uri : Unfollow(uri) => wants' \subseteq wants
    BY DEF Unfollow
  <2>3. QED
    BY <2>1, <2>2 DEF Next
<1>2. PICK a, b : a = <<"subscribe", uri>> /\ b = Read(uri)
  OBVIOUS
<1>3. /\ u = uri /\ stdin' = stdin \o <<a, b>> /\ stdin \in Seq(Wish)
      /\ a \in Wish /\ b \in Wish
  BY <1>1, <1>2, TaskShapes DEF Follow, Shapes
<1>4. <<a, b>> \in Seq(Wish) /\ DOMAIN <<a, b>> = 1..2 /\ <<a, b>>[2] = b
  BY <1>3
<1>5. b \in Ids(<<a, b>>)
  BY <1>4 DEF Ids
<1>6. Ids(stdin \o <<a, b>>) = Ids(stdin) \cup Ids(<<a, b>>)
  <2>1. PICK two : two = <<a, b>>
    OBVIOUS
  <2>2. stdin \in Seq(Wish) /\ two \in Seq(Wish)
    BY <1>3, <1>4, <2>1
  <2>3. Ids(stdin \o two) = Ids(stdin) \cup Ids(two)
    BY ONLY <2>2, IdsConcat
  <2>4. QED
    BY <2>1, <2>3
<1>7. Read(u) \in Ids(stdin')
  BY <1>2, <1>3, <1>5, <1>6
<1>8. QED
  BY <1>7 DEF ToRead, Read

(***************************************************************************)
(* InboxInv.                                                               *)
(***************************************************************************)

\* Who follows a resource and is not subscribed asked for both.
LEMMA UnheededReads ==
    ASSUME Shapes, HeedInv, NEW u \in wants, u \notin subscribed_resources
    PROVE  ToRead(u)
<1>1. PICK on : on = (u \in subscribed_resources)
  OBVIOUS
<1>2. Read(u) \in Ids(Asked)
  <2>1. Heeded(Asked, on, u)
    BY <1>1 DEF HeedInv
  <2>2. ~on
    BY <1>1
  <2>3. QED
    BY <2>1, <2>2 DEF Heeded, Ids
<1>3. ready \in Seq(Wish \cup List) /\ stdin \in Seq(Wish \cup List)
  <2>1. stdin \in Seq(Wish) /\ Wish \subseteq Wish \cup List
    BY DEF Shapes
  <2>2. stdin \in Seq(Wish \cup List)
    BY ONLY <2>1, SeqMonotonic
  <2>3. QED
    BY <2>2 DEF Shapes
<1>4. Ids(ready \o stdin) = Ids(ready) \cup Ids(stdin)
  BY ONLY <1>3, IdsConcat
<1>5. QED
  BY <1>2, <1>4 DEF Asked, ToRead

\* What the host read last of the inbox stays enough as long as no message comes.
LEMMA InboxKept ==
    ASSUME Shapes, InboxRead, Messages' \subseteq Messages,
           known'["inbox"] = known["inbox"],
           stdout' = stdout \/ \E x \in Out \ Drains : stdout' = Append(stdout, x)
    PROVE  InboxRead'
<1>1. Enough \subseteq Enough'
  BY DEF Enough
<1>2. LastIn(stdout, Drains, Enough')
  BY <1>1, LastSame DEF InboxRead
<1>3. CASE stdout' = stdout
  BY <1>2, <1>3 DEF InboxRead, Drains
<1>4. ASSUME NEW x \in Out \ Drains, stdout' = Append(stdout, x) PROVE InboxRead'
  <2>1. PICK G, r : G = Enough' /\ r = stdout'
    OBVIOUS
  <2>2. stdout \in Seq(Out) /\ x \in Out /\ x \notin Drains /\ LastIn(stdout, Drains, G)
        /\ r = Append(stdout, x)
    BY <1>2, <1>4, <2>1 DEF Shapes
  <2>3. LastIn(r, Drains, G)
    BY ONLY <2>2, LastAppend
  <2>4. Ids(r) = Ids(stdout) \cup {x}
    BY ONLY <2>2, IdsAppend
  <2>5. Ids(r) \cap Drains = {} => Messages' \subseteq known'["inbox"]
    BY <2>2, <2>4 DEF InboxRead
  <2>6. QED
    BY <2>1, <2>3, <2>5 DEF InboxRead, Drains
<1>5. QED
  BY <1>3, <1>4

\* The host that follows peer://inbox knows its messages, or will read it.
LEMMA InboxStep == Shapes /\ HeedInv /\ InboxInv /\ [Next]_vars => InboxInv'
<1> SUFFICES ASSUME Shapes, HeedInv, InboxInv, [Next]_vars,
                    "inbox" \in wants', ~ToRead("inbox")'
             PROVE  InboxRead'
  BY DEF InboxInv
<1>0. stdout \in Seq(Out) /\ inbox \in Seq(Note) /\ Len(inbox) <= InboxMaxlen
      /\ notifications \in Seq(Note) /\ Drains \subseteq Out
  BY OutShapes DEF Shapes
<1>1. "inbox" \in wants
  BY FollowReads
<1>2. CASE Handle /\ Head(ready) = Read("inbox")
  <2>1. PICK d : d = Answer("inbox", Ids(inbox))
    OBVIOUS
  <2>2. Ids(inbox) \in SUBSET Note
    BY <1>0 DEF Ids
  <2>3. d \in Drains
    BY <2>1, <2>2 DEF Drains
  <2>4. inbox' = inbox /\ stdout' = Append(stdout, d)
    <3>1. PICK task \in Wish \cup List :
             /\ task = Head(ready) /\ inbox' = inbox
             /\ \/ task[1] \in {"subscribe", "unsubscribe"}
                \/ task = Read("inbox") /\ stdout' = Append(stdout, d)
                \/ task = Read("peers") \/ task \in List
      <4>1. \A uri \in Uri : <<"subscribe", uri>>[1] = "subscribe"
                             /\ <<"unsubscribe", uri>>[1] = "unsubscribe"
        OBVIOUS
      <4>2. QED
        BY <1>2, <2>1, <4>1, HandleMeans
    <3>2. task = Read("inbox") /\ Read("inbox") \in Wish /\ Read("inbox")[1] = "read"
          /\ Read("inbox")[2] = "inbox" /\ Read("peers")[2] = "peers"
      BY <1>2, <3>1, TaskShapes
    <3>3. task \notin List
      BY <3>2, TaskShapes
    <3>4. QED
      BY <3>1, <3>2, <3>3
  <2>5. d \in Enough'
    <3>1. Messages' \subseteq Ids(inbox)
      BY <2>4 DEF Messages
    <3>2. QED
      BY <2>1, <2>2, <3>1 DEF Enough
  <2>6. PICK G, r : G = Enough' /\ r = stdout'
    OBVIOUS
  <2>7. stdout \in Seq(Out) /\ d \in Out /\ d \in Drains \cap G /\ r = Append(stdout, d)
    BY <1>0, <2>3, <2>4, <2>5, <2>6
  <2>8. LastIn(r, Drains, G)
    BY ONLY <2>7, LastAppend
  <2>9. Ids(r) = Ids(stdout) \cup {d}
    BY ONLY <2>7, IdsAppend
  <2>10. Ids(r) \cap Drains # {}
    BY <2>3, <2>9
  <2>11. QED
    BY <2>6, <2>8, <2>10 DEF InboxRead, Drains
<1>3. CASE ~(Handle /\ Head(ready) = Read("inbox"))
  <2>1. ~ToRead("inbox")
    BY <1>1, <1>3, ToReadStep
  <2>2. InboxRead
    BY <1>1, <2>1 DEF InboxInv
  <2>3. ASSUME UNCHANGED <<inbox, known, stdout>> PROVE InboxRead'
    <3>1. Messages' = Messages
      BY <2>3 DEF Messages
    <3>2. QED
      BY <2>2, <2>3, <3>1, InboxKept
  <2>4. CASE HostReads
    <3>1. PICK line, t, G : line = stdout[1] /\ t = Tail(stdout) /\ G = Enough
      OBVIOUS
    <3>2. /\ stdout # <<>> /\ stdout' = t /\ line = Head(stdout) /\ inbox' = inbox
          /\ line \in Out
      BY <1>0, <2>4, <3>1 DEF HostReads, sidecar
    <3>3. stdout \in Seq(Out) /\ stdout # <<>> /\ t = Tail(stdout)
          /\ LastIn(stdout, Drains, G)
      BY <1>0, <2>2, <3>1, <3>2 DEF InboxRead
    <3>4. LastIn(t, Drains, G)
          /\ (stdout[1] \in Drains /\ Ids(t) \cap Drains = {} => stdout[1] \in G)
      BY ONLY <3>3, LastTail
    <3>5. Ids(stdout) = {stdout[1]} \cup Ids(t)
      BY ONLY <3>3, IdsTail
    <3>6. Messages' = Messages /\ Enough' = G
      BY <3>1, <3>2 DEF Messages, Enough
    <3>7. ASSUME Ids(t) \cap Drains = {} PROVE Messages \subseteq known'["inbox"]
      <4>1. CASE line \notin Drains
        <5>1. Messages \subseteq known["inbox"]
          BY <2>2, <3>1, <3>5, <3>7, <4>1 DEF InboxRead
        <5>2. line[1] = "update" \/ (line[1] = "read" /\ line[2] = "peers")
          <6>1. line \in List => line[1] = "read" /\ line[2] = "peers"
            BY TaskShapes
          <6>2. QED
            BY <3>2, <4>1, <6>1, OutShapes
        <5>3. known'["inbox"] = known["inbox"]
          <6>1. CASE line[1] = "update"
            BY <2>4, <3>2, <6>1 DEF HostReads
          <6>2. CASE line[1] = "read" /\ line[2] = "peers"
            <7>1. known' = [known EXCEPT !["peers"] = line[3]]
              BY <2>4, <3>2, <6>2 DEF HostReads
            <7>2. known = [uri \in Uri |-> known[uri]] /\ "inbox" \in Uri
              BY DEF Shapes, Uri
            <7>3. QED
              BY <7>1, <7>2
          <6>3. QED
            BY <5>2, <6>1, <6>2
        <5>4. QED
          BY <5>1, <5>3
      <4>2. CASE line \in Drains
        <5>1. line \in Enough
          BY <3>1, <3>4, <3>7, <4>2
        <5>2. PICK notes \in SUBSET Note : line = Answer("inbox", notes)
                                           /\ Messages \subseteq notes
          BY <5>1 DEF Enough
        <5>3. line[1] = "read" /\ line[2] = "inbox" /\ line[3] = notes
          BY <5>2 DEF Answer
        <5>4. known' = [known EXCEPT !["inbox"] = line[3]]
          BY <2>4, <3>2, <5>3 DEF HostReads
        <5>5. known = [uri \in Uri |-> known[uri]] /\ "inbox" \in Uri
          BY DEF Shapes, Uri
        <5>6. known'["inbox"] = notes
          BY <5>3, <5>4, <5>5
        <5>7. QED
          BY <5>2, <5>6
      <4>3. QED
        BY <4>1, <4>2
    <3>8. QED
      BY <3>2, <3>4, <3>6, <3>7 DEF InboxRead, Drains
  <2>5. CASE Handle
    <3>1. PICK task \in Wish \cup List :
             /\ task = Head(ready) /\ UNCHANGED <<inbox, known>>
             /\ \/ stdout' = stdout \/ task = Read("inbox")
                \/ task \in List /\ stdout' = Append(stdout, task)
      BY <2>5, HandleMeans
    <3>2. task # Read("inbox")
      BY <1>3, <2>5, <3>1
    <3>3. stdout' = stdout \/ \E x \in Out \ Drains : stdout' = Append(stdout, x)
      BY <3>1, <3>2, OutShapes
    <3>4. Messages' = Messages
      BY <3>1 DEF Messages
    <3>5. QED
      BY <2>2, <3>1, <3>3, <3>4, InboxKept
  <2>6. CASE Forward
    <3>1. PICK note, x : note = Head(notifications) /\ x = Update(Touches(note))
      OBVIOUS
    <3>2. /\ note \in Note /\ inbox' = AppendBounded(inbox, note, InboxMaxlen)
          /\ stdout' = IF Touches(note) \in subscribed_resources
                       THEN Append(stdout, x) ELSE stdout
          /\ UNCHANGED <<known, subscribed_resources, ready, stdin>>
      BY <1>0, <2>6, <3>1 DEF Forward, host
    <3>3. note[1] \in {"message", "presence"}
      BY <3>2, SentShapes
    <3>4. CASE note[1] = "message"
      <4>1. Touches(note) = "inbox" /\ x = Update("inbox")
        BY <3>1, <3>4 DEF Touches
      <4>2. "inbox" \in subscribed_resources
        BY <1>1, <2>1, UnheededReads
      <4>3. stdout' = Append(stdout, x) /\ x \in Out
        BY <3>2, <4>1, <4>2, OutShapes, TaskShapes
      <4>4. Ids(Append(stdout, x)) = Ids(stdout) \cup {x}
        BY ONLY <1>0, <4>3, IdsAppend
      <4>5. ToRead("inbox")'
        BY <4>1, <4>3, <4>4 DEF ToRead, Update
      <4>6. QED
        BY <4>5
    <3>5. CASE note[1] = "presence"
      <4>1. Touches(note) = "peers" /\ x = Update("peers")
        BY <3>1, <3>5 DEF Touches
      <4>2. x \in Out \ Drains
        BY <4>1, OutShapes, TaskShapes
      <4>3. Ids(inbox') \subseteq Ids(inbox) \cup {note}
        BY <1>0, <3>2, InboxAssumption, AppendBoundedIds
      <4>4. Messages' \subseteq Messages
        BY <3>5, <4>3 DEF Messages
      <4>5. stdout' = stdout \/ \E y \in Out \ Drains : stdout' = Append(stdout, y)
        BY <3>2, <4>2
      <4>6. QED
        BY <2>2, <3>2, <4>4, <4>5, InboxKept
    <3>6. QED
      BY <3>3, <3>4, <3>5
  <2>7. CASE AgentTakes
    <3>1. PICK n \in {1, Len(inbox)} : inbox' = SubSeq(inbox, n + 1, Len(inbox))
      BY <2>7 DEF AgentTakes
    <3>2. Ids(inbox') \subseteq Ids(inbox)
      <4>1. /\ n \in Nat /\ Len(inbox) \in Nat /\ inbox \in Seq(Note)
            /\ DOMAIN inbox = 1..Len(inbox)
        BY <1>0, <3>1
      <4>2. PICK l, r : l = Len(inbox) /\ r = inbox'
        OBVIOUS
      <4>3. /\ n \in Nat /\ l \in Nat /\ n \in {1, l} /\ l = Len(inbox)
            /\ inbox \in Seq(Note) /\ r = SubSeq(inbox, n + 1, l)
        BY <3>1, <4>1, <4>2
      <4>4. /\ \A i \in DOMAIN r : i + n \in 1..l /\ r[i] = inbox[i + n]
        BY ONLY <4>3
      <4>5. QED
        BY <4>1, <4>2, <4>4 DEF Ids
    <3>3. Messages' \subseteq Messages
      BY <3>2 DEF Messages
    <3>4. UNCHANGED <<stdout, known>>
      BY <2>7 DEF AgentTakes, host
    <3>5. QED
      BY <2>2, <3>3, <3>4, InboxKept
  <2>8. CASE \E uri \in Uri : Follow(uri) \/ Unfollow(uri)
    <3>1. UNCHANGED <<inbox, known, stdout>>
      BY <2>8 DEF Follow, Unfollow, sidecar
    <3>2. QED
      BY <2>3, <3>1
  <2>9. CASE Serve \/ ReadLine \/ PeerChanges \/ DaemonSends \/ DaemonAnswers
             \/ UNCHANGED vars
    <3>1. UNCHANGED <<inbox, known, stdout>>
      BY <2>9 DEF Serve, ReadLine, PeerChanges, DaemonSends, DaemonAnswers, Notify,
                  vars, sidecar, host
    <3>2. QED
      BY <2>3, <3>1
  <2>10. QED
    BY <2>4, <2>5, <2>6, <2>7, <2>8, <2>9 DEF Next
<1>4. QED
  BY <1>2, <1>3

(***************************************************************************)
(* PeersInv.                                                               *)
(***************************************************************************)

\* Something else leaves the last of A what it was.
LEMMA LatestMore ==
    ASSUME NEW S, NEW q \in Seq(S), NEW x \in S, NEW A, NEW G, NEW r, r = Append(q, x),
           x \notin A, LastIn(q, A, G)
    PROVE  LastIn(r, A, G) /\ (Ids(r) \cap A = {} => Ids(q) \cap A = {})
<1>1. Ids(r) = Ids(q) \cup {x}
  BY IdsAppend
<1>2. LastIn(r, A, G)
  BY LastAppend
<1>3. QED
  BY <1>1, <1>2

\* One of A is the last there is.
LEMMA LatestNew ==
    ASSUME NEW S, NEW q \in Seq(S), NEW x \in S, NEW A, NEW r, r = Append(q, x), x \in A
    PROVE  LastIn(r, A, {x}) /\ Ids(r) \cap A # {}
<1>1. Ids(r) = Ids(q) \cup {x}
  BY IdsAppend
<1>2. x \in A \cap {x}
  OBVIOUS
<1>3. LastIn(r, A, {x})
  BY <1>2, LastAppend
<1>4. QED
  BY <1>1, <1>3

\* The first was the last of A only if no other is left.
LEMMA LatestLess ==
    ASSUME NEW S, NEW q \in Seq(S), q # <<>>, NEW A, NEW g, NEW r, r = Tail(q),
           LastIn(q, A, {g})
    PROVE  /\ LastIn(r, A, {g})
           /\ q[1] \notin A /\ Ids(r) \cap A = {} => Ids(q) \cap A = {}
           /\ q[1] \in A /\ Ids(r) \cap A = {} => q[1] = g
<1>1. Ids(q) = {q[1]} \cup Ids(r)
  BY IdsTail
<1>2. LastIn(r, A, {g}) /\ (q[1] \in A /\ Ids(r) \cap A = {} => q[1] \in {g})
  BY LastTail
<1>3. QED
  BY <1>1, <1>2

\* What the host knows of the sessions changes when it reads a list.
LEMMA KnownAtStep ==
    ASSUME Shapes, KnownAt, HostReads
    PROVE  KnownAt'
<1>1. PICK line, t, g : line = stdout[1] /\ t = Tail(stdout) /\ g = Answer("peers", peers)
  OBVIOUS
<1>2. /\ stdout \in Seq(Out) /\ stdout # <<>> /\ stdout' = t /\ line = Head(stdout)
      /\ peers' = peers /\ line \in Out /\ LastIn(stdout, List, {g})
  BY <1>1 DEF HostReads, daemon, KnownAt, Shapes
<1>3. stdout \in Seq(Out) /\ stdout # <<>> /\ t = Tail(stdout) /\ LastIn(stdout, List, {g})
  BY <1>1, <1>2
<1>4. /\ LastIn(t, List, {g})
      /\ stdout[1] \notin List /\ Ids(t) \cap List = {} => Ids(stdout) \cap List = {}
      /\ stdout[1] \in List /\ Ids(t) \cap List = {} => stdout[1] = g
  BY ONLY <1>3, LatestLess
<1>5. known = [uri \in Uri |-> known[uri]] /\ "inbox" \in Uri /\ "peers" \in Uri
  BY DEF Shapes, Uri
<1>6. ASSUME Ids(t) \cap List = {} PROVE known'["peers"] = peers
  <2>1. CASE line \in List
    <3>1. line = g
      BY <1>1, <1>4, <1>6, <2>1
    <3>2. line[1] = "read" /\ line[2] = "peers" /\ line[3] = peers
      BY <1>1, <3>1 DEF Answer
    <3>3. known' = [known EXCEPT !["peers"] = line[3]]
      BY <1>2, <3>2 DEF HostReads
    <3>4. QED
      BY <1>5, <3>2, <3>3
  <2>2. CASE line \notin List
    <3>1. known["peers"] = peers
      BY <1>1, <1>4, <1>6, <2>2 DEF KnownAt
    <3>2. line[1] = "update" \/ (line[1] = "read" /\ line[2] = "inbox")
      BY <1>2, <2>2, OutShapes
    <3>3. CASE line[1] = "update"
      BY <1>2, <3>1, <3>3 DEF HostReads
    <3>4. CASE line[1] = "read" /\ line[2] = "inbox"
      <4>1. known' = [known EXCEPT !["inbox"] = line[3]]
        BY <1>2, <3>4 DEF HostReads
      <4>2. QED
        BY <1>5, <3>1, <4>1
    <3>5. QED
      BY <3>2, <3>3, <3>4
  <2>3. QED
    BY <2>1, <2>2
<1>7. QED
  BY <1>1, <1>2, <1>4, <1>6 DEF KnownAt, List

\* What is written of anything else changes nothing.
LEMMA KnownAtKept ==
    ASSUME Shapes, KnownAt, UNCHANGED <<peers, known>>,
           stdout' = stdout \/ \E x \in Out \ List : stdout' = Append(stdout, x)
    PROVE  KnownAt'
<1>1. CASE stdout' = stdout
  BY <1>1 DEF KnownAt, List
<1>2. ASSUME NEW x \in Out \ List, stdout' = Append(stdout, x) PROVE KnownAt'
  <2>1. PICK g, r : g = Answer("peers", peers) /\ r = stdout'
    OBVIOUS
  <2>2. stdout \in Seq(Out) /\ x \in Out /\ x \notin List /\ r = Append(stdout, x)
        /\ LastIn(stdout, List, {g})
    BY <1>2, <2>1 DEF Shapes, KnownAt
  <2>3. LastIn(r, List, {g}) /\ (Ids(r) \cap List = {} => Ids(stdout) \cap List = {})
    BY ONLY <2>2, LatestMore
  <2>4. QED
    BY <2>1, <2>3 DEF KnownAt, List
<1>3. QED
  BY <1>1, <1>2

\* A list that an answer brought is written when its task runs.
LEMMA ReadyAtStep ==
    ASSUME Shapes, ReadyAt, Handle
    PROVE  ReadyAt'
<1>1. PICK task, t, g : task = ready[1] /\ t = Tail(ready) /\ g = Answer("peers", peers)
  OBVIOUS
<1>2. /\ ready \in Seq(Wish \cup List) /\ ready # <<>> /\ ready' = t
      /\ UNCHANGED <<peers, known>> /\ task \in Wish \cup List
      /\ \/ stdout' = stdout \/ stdout' = Append(stdout, Answer("inbox", Ids(inbox)))
         \/ task \in List /\ stdout' = Append(stdout, task)
      /\ task \in List => stdout' = Append(stdout, task)
  <2>1. PICK k \in Wish \cup List :
           /\ ready # <<>> /\ k = Head(ready) /\ ready' = Tail(ready)
           /\ UNCHANGED <<peers, known>>
           /\ \/ /\ k[1] \in {"subscribe", "unsubscribe"} \/ k = Read("peers")
                 /\ stdout' = stdout
              \/ k = Read("inbox") /\ stdout' = Append(stdout, Answer("inbox", Ids(inbox)))
              \/ k \in List /\ stdout' = Append(stdout, k)
    <3>1. \A uri \in Uri : <<"subscribe", uri>>[1] = "subscribe"
                           /\ <<"unsubscribe", uri>>[1] = "unsubscribe"
      OBVIOUS
    <3>2. QED
      BY <3>1, HandleMeans
  <2>2. ready \in Seq(Wish \cup List)
    BY DEF Shapes
  <2>3. k = task
    BY <1>1, <2>1, <2>2
  <2>4. k \in List => k[1] = "read" /\ k # Read("peers") /\ k # Read("inbox")
    BY TaskShapes
  <2>5. QED
    BY <1>1, <2>1, <2>2, <2>3, <2>4
<1>3. ready \in Seq(Wish \cup List) /\ ready # <<>> /\ t = Tail(ready)
      /\ LastIn(ready, List, {g})
  BY <1>1, <1>2 DEF ReadyAt
<1>4. /\ LastIn(t, List, {g})
      /\ ready[1] \notin List /\ Ids(t) \cap List = {} => Ids(ready) \cap List = {}
      /\ ready[1] \in List /\ Ids(t) \cap List = {} => ready[1] = g
  BY ONLY <1>3, LatestLess
<1>5. ASSUME Ids(t) \cap List = {} PROVE KnownAt'
  <2>1. CASE task \in List
    <3>1. PICK r : r = stdout'
      OBVIOUS
    <3>2. stdout \in Seq(Out) /\ task \in Out /\ r = Append(stdout, task)
          /\ task \in List
      BY <1>2, <2>1, <3>1, OutShapes DEF Shapes
    <3>3. LastIn(r, List, {task}) /\ Ids(r) \cap List # {}
      BY ONLY <3>2, LatestNew
    <3>4. task = g
      BY <1>1, <1>4, <1>5, <2>1
    <3>5. QED
      BY <1>1, <1>2, <3>1, <3>3, <3>4 DEF KnownAt, List
  <2>2. CASE task \notin List
    <3>1. KnownAt
      BY <1>1, <1>4, <1>5, <2>2 DEF ReadyAt
    <3>2. PICK d : d = Answer("inbox", Ids(inbox))
      OBVIOUS
    <3>3. Ids(inbox) \in SUBSET Note
      BY DEF Shapes, Ids
    <3>4. d \in Drains
      BY <3>2, <3>3 DEF Drains
    <3>5. stdout' = stdout \/ \E x \in Out \ List : stdout' = Append(stdout, x)
      BY <1>2, <2>2, <3>2, <3>4, OutShapes
    <3>6. QED
      BY <1>2, <3>1, <3>5, KnownAtKept
  <2>3. QED
    BY <2>1, <2>2
<1>6. QED
  BY <1>1, <1>2, <1>4, <1>5 DEF ReadyAt, List

\* A line that is an answer becomes a task, any other a notification.
LEMMA CurrentRead ==
    ASSUME Shapes, Current, ReadLine
    PROVE  Current'
<1>1. PICK line, t, g : line = lines[1] /\ t = Tail(lines) /\ g = <<"answer", peers>>
  OBVIOUS
<1>2. /\ lines \in Seq(Sent) /\ lines # <<>> /\ t = Tail(lines)
      /\ LastIn(lines, ListLines, {g})
      /\ line \in Sent /\ line = Head(lines) /\ lines' = t
      /\ UNCHANGED <<peers, stdout, known>>
  BY <1>1 DEF ReadLine, daemon, host, Current, Shapes
<1>3. /\ LastIn(t, ListLines, {g})
      /\ lines[1] \notin ListLines /\ Ids(t) \cap ListLines = {} =>
           Ids(lines) \cap ListLines = {}
      /\ lines[1] \in ListLines /\ Ids(t) \cap ListLines = {} => lines[1] = g
  BY ONLY <1>2, LatestLess
<1>4. ASSUME Ids(t) \cap ListLines = {} PROVE ReadyAt'
  <2>1. CASE line \in ListLines
    <3>1. PICK x, r : x = Answer("peers", line[2]) /\ r = ready'
      OBVIOUS
    <3>2. line[1] = "answer" /\ line[2] \in SUBSET Peer
      BY <2>1, SentShapes
    <3>3. ready \in Seq(Wish \cup List) /\ x \in Wish \cup List /\ r = Append(ready, x)
          /\ x \in List
      BY <1>2, <3>1, <3>2 DEF ReadLine, Shapes, List
    <3>4. LastIn(r, List, {x}) /\ Ids(r) \cap List # {}
      BY ONLY <3>3, LatestNew
    <3>5. line = <<"answer", peers>>
      BY <1>1, <1>3, <1>4, <2>1
    <3>6. line[2] = peers
      BY <3>5
    <3>7. x = Answer("peers", peers)
      BY <3>1, <3>6
    <3>8. QED
      BY <1>2, <3>1, <3>4, <3>7 DEF ReadyAt, List
  <2>2. CASE line \notin ListLines
    <3>1. ReadyAt
      BY <1>1, <1>3, <1>4, <2>2 DEF Current
    <3>2. line[1] # "answer"
      BY <1>2, <2>2, SentShapes
    <3>3. ready' = ready
      BY <1>2, <3>2 DEF ReadLine
    <3>4. QED
      BY <1>2, <3>1, <3>3 DEF ReadyAt, KnownAt, List
  <2>3. QED
    BY <2>1, <2>2
<1>5. QED
  BY <1>1, <1>2, <1>3, <1>4 DEF Current, ListLines

\* Nothing older gets in between: what is current stays so while no session comes or
\* leaves.
LEMMA CurrentStep ==
    ASSUME Shapes, Current, [Next]_vars, ~PeerChanges
    PROVE  Current'
<1>1. ASSUME UNCHANGED <<peers, lines>>, ReadyAt => ReadyAt' PROVE Current'
  BY <1>1 DEF Current, ListLines
<1>2. ASSUME UNCHANGED <<peers, ready>>, KnownAt => KnownAt' PROVE ReadyAt => ReadyAt'
  BY <1>2 DEF ReadyAt, List
<1>3. ASSUME UNCHANGED <<peers, lines, ready, stdout, known>> PROVE Current'
  BY <1>3 DEF Current, ReadyAt, KnownAt, ListLines, List
<1>4. CASE \E uri \in Uri : Follow(uri) \/ Unfollow(uri)
  BY <1>3, <1>4 DEF Follow, Unfollow, daemon, socket, sidecar
<1>5. CASE HostReads
  <2>1. UNCHANGED <<peers, lines, ready>>
    BY <1>5 DEF HostReads, daemon, socket, sidecar
  <2>2. KnownAt => KnownAt'
    BY <1>5, KnownAtStep
  <2>3. QED
    BY <1>1, <1>2, <2>1, <2>2
<1>6. CASE Serve
  <2>1. PICK x, r, g : x = Head(stdin) /\ r = ready' /\ g = Answer("peers", peers)
    OBVIOUS
  <2>2. /\ UNCHANGED <<peers, lines, stdout, known>> /\ r = Append(ready, x)
        /\ ready \in Seq(Wish \cup List) /\ x \in Wish
    BY <1>6, <2>1 DEF Serve, Shapes, daemon, socket, host
  <2>3. x \notin List /\ x \in Wish \cup List
    BY <2>2, TaskShapes
  <2>4. ASSUME ReadyAt PROVE ReadyAt'
    <3>1. LastIn(ready, List, {g})
      BY <2>1, <2>4 DEF ReadyAt
    <3>2. LastIn(r, List, {g}) /\ (Ids(r) \cap List = {} => Ids(ready) \cap List = {})
      BY ONLY <2>2, <2>3, <3>1, LatestMore
    <3>3. QED
      BY <2>1, <2>2, <2>4, <3>2 DEF ReadyAt, KnownAt, List
  <2>5. QED
    BY <1>1, <2>2, <2>4
<1>7. CASE Handle
  <2>1. UNCHANGED <<peers, lines>>
    BY <1>7, HandleMeans
  <2>2. ReadyAt => ReadyAt'
    BY <1>7, ReadyAtStep
  <2>3. QED
    BY <1>1, <2>1, <2>2
<1>8. CASE ReadLine
  BY <1>8, CurrentRead
<1>9. CASE Forward
  <2>1. PICK x : x = Update(Touches(Head(notifications)))
    OBVIOUS
  <2>2. /\ UNCHANGED <<peers, lines, ready, known>>
        /\ stdout' = stdout \/ stdout' = Append(stdout, x)
    BY <1>9, <2>1 DEF Forward, daemon, socket, host
  <2>3. x \in Out \ List
    BY <2>1, OutShapes, TaskShapes DEF Touches
  <2>4. KnownAt => KnownAt'
    BY <2>2, <2>3, KnownAtKept
  <2>5. QED
    BY <1>1, <1>2, <2>2, <2>4
<1>10. CASE DaemonSends
  <2>1. PICK n, x, r, g : n = sent + 1 /\ x = Message(n) /\ r = lines'
                          /\ g = <<"answer", peers>>
    OBVIOUS
  <2>2. /\ UNCHANGED <<peers, ready, stdout, known>> /\ r = Append(lines, x)
        /\ lines \in Seq(Sent) /\ x \in Note /\ LastIn(lines, ListLines, {g})
    <3>1. n \in Nat
      BY <2>1 DEF Shapes
    <3>2. x \in Note
      BY <2>1, <3>1, SentShapes
    <3>3. QED
      BY <1>10, <2>1, <3>2 DEF DaemonSends, Notify, Shapes, sidecar, host, Current
  <2>3. x \notin ListLines /\ x \in Sent
    BY <2>2, SentShapes
  <2>4. LastIn(r, ListLines, {g})
        /\ (Ids(r) \cap ListLines = {} => Ids(lines) \cap ListLines = {})
    BY ONLY <2>2, <2>3, LatestMore
  <2>5. ReadyAt => ReadyAt'
    BY <2>2 DEF ReadyAt, KnownAt, List
  <2>6. QED
    BY <2>1, <2>2, <2>4, <2>5 DEF Current, ListLines
<1>11. CASE DaemonAnswers
  <2>1. PICK x, r : x = <<"answer", peers>> /\ r = lines'
    OBVIOUS
  <2>2. peers \in SUBSET Peer /\ r = Append(lines, x) /\ peers' = peers
        /\ lines \in Seq(Sent)
    BY <1>11, <2>1 DEF DaemonAnswers, Shapes, daemon
  <2>3. x \in ListLines /\ x \in Sent
    BY <2>1, <2>2, SentShapes
  <2>4. LastIn(r, ListLines, {x}) /\ Ids(r) \cap ListLines # {}
    BY ONLY <2>2, <2>3, LatestNew
  <2>5. QED
    BY <2>1, <2>2, <2>4 DEF Current, ListLines
<1>12. CASE AgentTakes \/ UNCHANGED vars
  BY <1>3, <1>12 DEF AgentTakes, vars, daemon, socket, sidecar, host
<1>13. QED
  BY <1>4, <1>5, <1>6, <1>7, <1>8, <1>9, <1>10, <1>11, <1>12 DEF Next

\* The host that follows peer://peers knows the sessions, or will read them.
LEMMA PeersStep == Shapes /\ HeedInv /\ PeersInv /\ [Next]_vars => PeersInv'
<1> SUFFICES ASSUME Shapes, HeedInv, PeersInv, [Next]_vars,
                    "peers" \in wants', ~ToRead("peers")', ~(calls' > 0),
                    ~News(lines'), ~News(notifications')
             PROVE  Current'
  BY DEF PeersInv, News
<1>0. /\ lines \in Seq(Sent) /\ notifications \in Seq(Note) /\ calls \in Nat
      /\ stdout \in Seq(Out)
  BY DEF Shapes
<1>1. "peers" \in wants
  BY FollowReads
<1>2. ~(Handle /\ Head(ready) = Read("peers"))
  <2>1. SUFFICES ASSUME Handle, Head(ready) = Read("peers") PROVE FALSE
    OBVIOUS
  <2>2. /\ Read("peers")[1] = "read" /\ Read("peers")[2] = "peers"
        /\ Read("inbox")[2] = "inbox"
        /\ Read("peers") \in Wish /\ Read("peers") \notin List
    BY TaskShapes
  <2>3. \A uri \in Uri : <<"subscribe", uri>>[1] = "subscribe"
                         /\ <<"unsubscribe", uri>>[1] = "unsubscribe"
    OBVIOUS
  <2>4. calls' = calls + 1
    BY <2>1, <2>2, <2>3, HandleMeans
  <2>5. QED
    BY <1>0, <2>4
<1>3. ~ToRead("peers")
  BY <1>1, <1>2, ToReadStep
<1>4. CASE PeerChanges
  <2>1. PICK n, x : n = sent + 1 /\ x = Presence(n)
    OBVIOUS
  <2>2. x \in Sent /\ x[1] = "presence" /\ lines' = Append(lines, x)
    <3>1. n \in Nat
      BY <2>1 DEF Shapes
    <3>2. x \in Sent /\ x[1] = "presence"
      BY <2>1, <3>1, SentShapes
    <3>3. QED
      BY <1>4, <2>1, <3>2 DEF PeerChanges, Notify
  <2>3. Ids(Append(lines, x)) = Ids(lines) \cup {x}
    BY ONLY <1>0, <2>2, IdsAppend
  <2>4. QED
    BY <2>2, <2>3 DEF News
<1>5. CASE DaemonAnswers
  <2>1. PICK x, r : x = <<"answer", peers>> /\ r = lines'
    OBVIOUS
  <2>2. peers \in SUBSET Peer /\ r = Append(lines, x) /\ peers' = peers
        /\ lines \in Seq(Sent)
    BY <1>5, <2>1 DEF DaemonAnswers, Shapes, daemon
  <2>3. x \in ListLines /\ x \in Sent
    BY <2>1, <2>2, SentShapes
  <2>4. LastIn(r, ListLines, {x}) /\ Ids(r) \cap ListLines # {}
    BY ONLY <2>2, <2>3, LatestNew
  <2>5. QED
    BY <2>1, <2>2, <2>4 DEF Current, ListLines
<1>6. CASE ~PeerChanges /\ ~DaemonAnswers
  <2>1. ~(calls > 0)
    <3>1. \A uri \in Uri : Follow(uri) \/ Unfollow(uri) => calls' = calls
      BY DEF Follow, Unfollow, socket
    <3>2. Handle => calls' = calls \/ calls' = calls + 1
      BY HandleMeans
    <3>3. HostReads \/ Serve \/ ReadLine \/ Forward \/ AgentTakes \/ DaemonSends
          \/ UNCHANGED vars => calls' = calls
      BY DEF HostReads, Serve, ReadLine, Forward, AgentTakes, DaemonSends, Notify, vars,
             socket
    <3>4. calls' = calls \/ calls' = calls + 1
      BY <1>6, <3>1, <3>2, <3>3 DEF Next
    <3>5. QED
      BY <1>0, <3>4
  <2>2. ~News(lines)
    <3>1. CASE ReadLine
      <4>1. PICK line, t : line = lines[1] /\ t = Tail(lines)
        OBVIOUS
      <4>2. lines \in Seq(Sent) /\ lines # <<>> /\ t = Tail(lines)
        BY <1>0, <3>1, <4>1 DEF ReadLine
      <4>3. Ids(lines) = {lines[1]} \cup Ids(t)
        BY ONLY <4>2, IdsTail
      <4>4. line = Head(lines) /\ line \in Sent /\ lines' = t
        BY <3>1, <4>1, <4>2 DEF ReadLine
      <4>5. line[1] # "presence"
        <5>1. SUFFICES ASSUME line[1] = "presence" PROVE FALSE
          OBVIOUS
        <5>2. line \in Note /\ line[1] # "answer"
          BY <4>4, <5>1, SentShapes
        <5>3. notifications' = Append(notifications, line)
          BY <3>1, <4>4, <5>2 DEF ReadLine
        <5>4. Ids(Append(notifications, line)) = Ids(notifications) \cup {line}
          BY ONLY <1>0, <5>2, IdsAppend
        <5>5. QED
          BY <5>1, <5>3, <5>4 DEF News
      <4>6. QED
        BY <4>1, <4>3, <4>4, <4>5 DEF News
    <3>2. CASE DaemonSends
      <4>1. PICK n, x : n = sent + 1 /\ x = Message(n)
        OBVIOUS
      <4>2. x \in Sent /\ x[1] = "message" /\ lines' = Append(lines, x)
        <5>1. n \in Nat
          BY <4>1 DEF Shapes
        <5>2. x \in Sent /\ x[1] = "message"
          BY <4>1, <5>1, SentShapes
        <5>3. QED
          BY <3>2, <4>1, <5>2 DEF DaemonSends, Notify
      <4>3. Ids(Append(lines, x)) = Ids(lines) \cup {x}
        BY ONLY <1>0, <4>2, IdsAppend
      <4>4. QED
        BY <4>2, <4>3 DEF News
    <3>3. CASE ~ReadLine /\ ~DaemonSends
      <4>1. \A uri \in Uri : Follow(uri) \/ Unfollow(uri) => lines' = lines
        BY DEF Follow, Unfollow, socket
      <4>2. HostReads \/ Serve \/ Handle \/ Forward \/ AgentTakes \/ UNCHANGED vars
              => lines' = lines
        BY DEF HostReads, Serve, Handle, Forward, AgentTakes, vars, socket
      <4>3. lines' = lines
        BY <1>6, <3>3, <4>1, <4>2 DEF Next
      <4>4. QED
        BY <4>3
    <3>4. QED
      BY <3>1, <3>2, <3>3
  <2>3. ~News(notifications)
    <3>1. CASE Forward
      <4>1. PICK note, t, x : note = notifications[1] /\ t = Tail(notifications)
                              /\ x = Update(Touches(note))
        OBVIOUS
      <4>2. notifications \in Seq(Note) /\ notifications # <<>> /\ t = Tail(notifications)
        BY <1>0, <3>1, <4>1 DEF Forward
      <4>3. Ids(notifications) = {notifications[1]} \cup Ids(t)
        BY ONLY <4>2, IdsTail
      <4>4. /\ note = Head(notifications) /\ notifications' = t
            /\ stdout' = IF Touches(note) \in subscribed_resources
                         THEN Append(stdout, x) ELSE stdout
        BY <3>1, <4>1, <4>2 DEF Forward
      <4>5. note[1] # "presence"
        <5>1. SUFFICES ASSUME note[1] = "presence" PROVE FALSE
          OBVIOUS
        <5>2. Touches(note) = "peers" /\ x = Update("peers")
          BY <4>1, <5>1 DEF Touches
        <5>3. "peers" \in subscribed_resources
          BY <1>1, <1>3, UnheededReads
        <5>4. stdout' = Append(stdout, x) /\ x \in Out
          BY <4>4, <5>2, <5>3, OutShapes, TaskShapes
        <5>5. Ids(Append(stdout, x)) = Ids(stdout) \cup {x}
          BY ONLY <1>0, <5>4, IdsAppend
        <5>6. QED
          BY <5>2, <5>4, <5>5 DEF ToRead, Update
      <4>6. QED
        BY <4>1, <4>3, <4>4, <4>5 DEF News
    <3>2. CASE ReadLine
      <4>1. PICK line : line = Head(lines)
        OBVIOUS
      <4>2. /\ line \in Sent /\ lines # <<>>
            /\ \/ notifications' = notifications
               \/ notifications' = Append(notifications, line) /\ line[1] # "answer"
        BY <1>0, <3>2, <4>1 DEF ReadLine
      <4>3. line[1] # "answer" => line \in Note
        BY <4>2, SentShapes
      <4>4. line \in Note =>
              Ids(Append(notifications, line)) = Ids(notifications) \cup {line}
        BY ONLY <1>0, IdsAppend
      <4>5. QED
        BY <4>2, <4>3, <4>4 DEF News
    <3>3. CASE ~Forward /\ ~ReadLine
      <4>1. \A uri \in Uri : Follow(uri) \/ Unfollow(uri) => notifications' = notifications
        BY DEF Follow, Unfollow, sidecar
      <4>2. HostReads \/ Serve \/ Handle \/ AgentTakes \/ DaemonSends \/ UNCHANGED vars
              => notifications' = notifications
        BY DEF HostReads, Serve, Handle, AgentTakes, DaemonSends, Notify, vars, sidecar
      <4>3. notifications' = notifications
        BY <1>6, <3>3, <4>1, <4>2 DEF Next
      <4>4. QED
        BY <4>3
    <3>4. QED
      BY <3>1, <3>2, <3>3
  <2>4. Current
    BY <1>1, <1>3, <2>1, <2>2, <2>3 DEF PeersInv
  <2>5. QED
    BY <1>6, <2>4, CurrentStep
<1>7. QED
  BY <1>4, <1>5, <1>6

(***************************************************************************)
(* The theorems.                                                           *)
(***************************************************************************)

\* At the start nothing is followed.
LEMMA ResourcesInit == Init => Shapes /\ HeedInv /\ InboxInv /\ PeersInv
<1> SUFFICES ASSUME Init PROVE Shapes /\ HeedInv /\ InboxInv /\ PeersInv
  OBVIOUS
<1>1. wants = {} /\ inbox = <<>> /\ Len(inbox) = 0
  BY DEF Init
<1>2. Len(inbox) <= InboxMaxlen
  BY <1>1, InboxAssumption
<1>3. Shapes
  BY <1>2 DEF Init, Shapes
<1>4. HeedInv /\ InboxInv /\ PeersInv
  BY <1>1 DEF HeedInv, InboxInv, PeersInv
<1>5. QED
  BY <1>3, <1>4

\* The four hold together in every state.
LEMMA ResourcesInv == Spec => [](Shapes /\ HeedInv /\ InboxInv /\ PeersInv)
<1>1. Shapes /\ HeedInv /\ InboxInv /\ PeersInv /\ [Next]_vars =>
        (Shapes /\ HeedInv /\ InboxInv /\ PeersInv)'
  BY ShapesStep, HeedStep, InboxStep, PeersStep
<1>2. QED
  BY <1>1, ResourcesInit, PTL DEF Spec

\* With nothing about it on its way, no read is to come and nothing to be read.
LEMMA NothingAbout ==
    ASSUME Shapes, NEW u \in Uri, ~About(u, stdin \o ready \o stdout)
    PROVE  /\ ~ToRead(u)
           /\ u = "inbox" => Ids(stdout) \cap Drains = {}
           /\ u = "peers" => Ids(ready) \cap List = {} /\ Ids(stdout) \cap List = {}
<1>1. PICK S, p, q, r : S = Wish \cup List \cup Out /\ p = stdin /\ q = ready /\ r = stdout
  OBVIOUS
<1>2. p \in Seq(S) /\ q \in Seq(S) /\ r \in Seq(S)
  <2>1. Wish \subseteq S /\ Wish \cup List \subseteq S /\ Out \subseteq S
    BY <1>1
  <2>2. stdin \in Seq(Wish) /\ ready \in Seq(Wish \cup List) /\ stdout \in Seq(Out)
    BY DEF Shapes
  <2>3. stdin \in Seq(S) /\ ready \in Seq(S) /\ stdout \in Seq(S)
    BY ONLY <2>1, <2>2, SeqMonotonic
  <2>4. QED
    BY <1>1, <2>3
<1>3. p \o q \in Seq(S) /\ Ids(p \o q) = Ids(p) \cup Ids(q)
  BY ONLY <1>2, IdsConcat, ConcatProperties
<1>4. Ids((p \o q) \o r) = Ids(p \o q) \cup Ids(r)
  <2>1. PICK s : s = p \o q
    OBVIOUS
  <2>2. s \in Seq(S) /\ r \in Seq(S)
    BY <1>2, <1>3, <2>1
  <2>3. Ids(s \o r) = Ids(s) \cup Ids(r)
    BY ONLY <2>2, IdsConcat
  <2>4. QED
    BY <2>1, <2>3
<1>5. ~About(u, (p \o q) \o r)
  BY <1>1
<1>6. \A x \in Ids((p \o q) \o r) : x[2] = u => x[1] = "unsubscribe"
  BY <1>5 DEF About, Ids
<1>7. \A x \in Ids(p) \cup Ids(q) \cup Ids(r) : x[2] = u => x[1] = "unsubscribe"
  BY <1>3, <1>4, <1>6
<1>8. Read(u)[1] = "read" /\ Read(u)[2] = u /\ Update(u)[1] = "update" /\ Update(u)[2] = u
  BY DEF Read, Update
<1>9. \A x \in Drains : x[1] = "read" /\ x[2] = "inbox"
  BY OutShapes
<1>10. \A x \in List : x[1] = "read" /\ x[2] = "peers"
  BY TaskShapes
<1>11. ~ToRead(u)
  BY <1>1, <1>7, <1>8 DEF ToRead
<1>12. QED
  BY <1>1, <1>7, <1>9, <1>10, <1>11

\* A host that follows peer://inbox and has nothing about it on its way knows every
\* message in it (mcp_server.py:226-233, 342-345).
THEOREM FollowersKnowTheInbox == Spec => []InboxKnown
<1>1. Shapes /\ InboxInv => InboxKnown
  <2> SUFFICES ASSUME Shapes, InboxInv, "inbox" \in wants,
                      ~About("inbox", stdin \o ready \o stdout)
               PROVE  \A note \in Ids(inbox) :
                        note[1] = "message" => note \in known["inbox"]
    BY DEF InboxKnown
  <2>1. ~ToRead("inbox") /\ Ids(stdout) \cap Drains = {}
    BY NothingAbout, TaskShapes
  <2>2. Messages \subseteq known["inbox"]
    BY <2>1 DEF InboxInv, InboxRead
  <2>3. QED
    BY <2>2 DEF Messages
<1>2. QED
  BY <1>1, ResourcesInv, PTL

\* And one that follows peer://peers knows the sessions of the daemon when neither a
\* presence notification nor a list is on its way (mcp_server.py:234-241, 346-350).
THEOREM FollowersKnowTheSessions == Spec => []PeersKnown
<1>1. Shapes /\ PeersInv => PeersKnown
  <2> SUFFICES ASSUME Shapes, PeersInv, "peers" \in wants,
                      ~About("peers", stdin \o ready \o stdout), calls = 0,
                      \A i \in DOMAIN lines : lines[i][1] = "message",
                      \A i \in DOMAIN notifications : notifications[i][1] = "message"
               PROVE  known["peers"] = peers
    BY DEF PeersKnown
  <2>1. ~ToRead("peers") /\ Ids(ready) \cap List = {} /\ Ids(stdout) \cap List = {}
    BY NothingAbout, TaskShapes
  <2>2. \A x \in Ids(lines) \cup Ids(notifications) : x[1] = "message"
    BY DEF Ids
  <2>3. ~News(lines) /\ ~News(notifications)
    BY <2>2 DEF News
  <2>4. Ids(lines) \cap ListLines = {}
    BY <2>2, SentShapes
  <2>5. Current
    BY <2>1, <2>3 DEF PeersInv
  <2>6. QED
    BY <2>1, <2>4, <2>5 DEF Current, ReadyAt, KnownAt
<1>2. QED
  BY <1>1, ResourcesInv, PTL
===============================================================================
