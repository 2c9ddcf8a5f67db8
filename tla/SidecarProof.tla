------------------------------ MODULE SidecarProof ------------------------------
(***************************************************************************)
(* What the tasks of a sidecar may rely on, for any number of requests.    *)
(*                                                                         *)
(* That nobody sleeps over a notification needs the event to be clear and  *)
(* the inbox empty while a task waits, and every task that waits to be     *)
(* among those the event wakes.  That answers match needs every id on its  *)
(* way to be one already given out, and to be pending, if at all, for the  *)
(* task that sent it.                                                      *)
(* That notifications stay in order, and only a full inbox loses any, is   *)
(* about one row: what was taken, the inbox, what the client has queued    *)
(* and what is on the wire.  Steps move along it or cut pieces off.        *)
(* That the alias is mirrored follows the claims the daemon carried out    *)
(* along the wire and the tasks that are ready, both first in, first out.  *)
(***************************************************************************)
EXTENDS Sidecar, PersistentDequeProof, SequenceTheorems, TLAPS

SleepInv ==
    /\ status = [c \in Caller |-> status[c]]
    /\ waiters \in Seq(Caller)
    /\ NoSleeperMissed

\* What is left of a sequence has its elements.
LEMMA WithoutTyped ==
    ASSUME NEW S, NEW q \in Seq(S), NEW c
    PROVE  Without(q, c) \in Seq(S)
<1>1. CASE c \notin Ids(q)
  BY <1>1 DEF Without
<1>2. CASE c \in Ids(q)
  <2> DEFINE i == CHOOSE j \in DOMAIN q : q[j] = c
  <2>1. i \in 1..Len(q)
    <3>1. \E j \in DOMAIN q : q[j] = c
      BY <1>2 DEF Ids
    <3>2. i \in DOMAIN q
      BY <3>1
    <3>3. QED
      BY <3>2
  <2>2. Without(q, c) = SubSeq(q, 1, i - 1) \o SubSeq(q, i + 1, Len(q))
    BY <1>2 DEF Without
  <2> HIDE DEF i
  <2>3. SubSeq(q, 1, i - 1) \in Seq(S) /\ SubSeq(q, i + 1, Len(q)) \in Seq(S)
    BY <2>1
  <2>4. QED
    BY <2>2, <2>3, ConcatProperties
<1>3. QED
  BY <1>1, <1>2

\* Whoever else waited still does when c is taken off the waiters.
LEMMA WithoutKeeps ==
    ASSUME NEW S, NEW q \in Seq(S), NEW c, NEW d \in Ids(q), d # c
    PROVE  d \in Ids(Without(q, c))
<1>1. CASE c \notin Ids(q)
  BY <1>1 DEF Without
<1>2. CASE c \in Ids(q)
  <2> DEFINE i == CHOOSE j \in DOMAIN q : q[j] = c
  <2>1. i \in DOMAIN q /\ q[i] = c
    BY <1>2 DEF Ids
  <2>2. PICK k \in DOMAIN q : q[k] = d
    BY DEF Ids
  <2>3. i \in 1..Len(q) /\ k \in 1..Len(q) /\ i # k
    BY <2>1, <2>2
  <2>4. Without(q, c) = SubSeq(q, 1, i - 1) \o SubSeq(q, i + 1, Len(q))
    BY <1>2 DEF Without
  <2> HIDE DEF i
  <2>5. PICK front : front = SubSeq(q, 1, i - 1)
    OBVIOUS
  <2>6. PICK back : back = SubSeq(q, i + 1, Len(q))
    OBVIOUS
  <2>7. /\ front \in Seq(S) /\ Len(front) = i - 1
        /\ \A j \in 1..(i - 1) : front[j] = q[j]
    BY <2>3, <2>5
  <2>8. /\ back \in Seq(S) /\ Len(back) = Len(q) - i
        /\ \A j \in 1..(Len(q) - i) : back[j] = q[i + j]
    BY <2>3, <2>6
  <2>9. PICK r : r = front \o back
    OBVIOUS
  <2>10. /\ r \in Seq(S) /\ Len(r) = Len(front) + Len(back)
         /\ \A j \in 1..Len(r) : r[j] = IF j <= Len(front) THEN front[j]
                                        ELSE back[j - Len(front)]
    <3>1. front \in Seq(S) /\ back \in Seq(S)
      BY <2>7, <2>8
    <3>2. /\ front \o back \in Seq(S)
          /\ Len(front \o back) = Len(front) + Len(back)
          /\ \A j \in 1..(Len(front) + Len(back)) :
               (front \o back)[j] = IF j <= Len(front) THEN front[j]
                                   ELSE back[j - Len(front)]
      BY <3>1, ConcatProperties
    <3>3. QED
      BY <2>9, <3>2
  <2>11. \E j \in 1..Len(r) : r[j] = d
    <3>1. CASE k < i
      <4>1. k \in 1..(i - 1) /\ k \in 1..Len(r) /\ k <= Len(front)
        BY <2>3, <2>7, <2>8, <2>10, <3>1
      <4>2. r[k] = front[k] /\ front[k] = q[k]
        BY <2>7, <2>10, <4>1
      <4>3. QED
        BY <2>2, <4>1, <4>2
    <3>2. CASE k > i
      <4>1. /\ k - 1 \in 1..Len(r) /\ ~(k - 1 <= Len(front))
            /\ (k - 1) - Len(front) = k - i
            /\ k - i \in 1..(Len(q) - i) /\ i + (k - i) = k
        BY <2>3, <2>7, <2>8, <2>10, <3>2
      <4>2. r[k - 1] = back[k - i]
        BY <2>10, <4>1
      <4>3. back[k - i] = q[k]
        BY <2>8, <4>1
      <4>4. QED
        BY <2>2, <4>1, <4>2, <4>3
    <3>3. QED
      BY <2>3, <3>1, <3>2
  <2>12. DOMAIN r = 1..Len(r)
    BY <2>10
  <2>13. d \in Ids(r)
    BY <2>11, <2>12 DEF Ids
  <2>14. QED
    BY <2>4, <2>5, <2>6, <2>9, <2>10, <2>13
<1>3. QED
  BY <1>1, <1>2

\* A step after which nobody waits who did not before, with the inbox, the event
\* and the waiters as they were, lets nobody sleep over anything.
LEMMA SleepKept ==
    ASSUME SleepInv, UNCHANGED <<inbox, event, waiters>>,
           status' = [c \in Caller |-> status'[c]],
           \A c \in Caller : status'[c] = "waiting" => status[c] = "waiting"
    PROVE  SleepInv'
BY DEF SleepInv, NoSleeperMissed

\* Nor does a step when the inbox has something, whatever it takes: nobody waits.
LEMMA SleepWithFullInbox ==
    ASSUME SleepInv, inbox # <<>>, waiters' = waiters,
           status' = [c \in Caller |-> status'[c]],
           \A c \in Caller : status'[c] = "waiting" => status[c] = "waiting"
    PROVE  SleepInv'
BY DEF SleepInv, NoSleeperMissed

\* Every step keeps the inbox empty while somebody waits.
LEMMA SleepStep == SleepInv /\ [Next]_vars => SleepInv'
<1> SUFFICES ASSUME SleepInv, [Next]_vars PROVE SleepInv'
  OBVIOUS
<1>0. status = [c \in Caller |-> status[c]] /\ waiters \in Seq(Caller)
  BY DEF SleepInv
<1>1. ASSUME NEW c, NEW v \in {"idle", "calling", "ready", "done"},
             status' = [status EXCEPT ![c] = v]
      PROVE  /\ status' = [d \in Caller |-> status'[d]]
             /\ \A d \in Caller : status'[d] = "waiting" => status[d] = "waiting"
  BY <1>0, <1>1
<1>2. ASSUME NEW r \in Req, NEW what, PeerAwait(r, what) PROVE SleepInv'
  <2>1. CASE inbox # <<>>
    BY <1>1, <1>2, <2>1, SleepWithFullInbox DEF PeerAwait, Finish
  <2>2. CASE inbox = <<>>
    <3>1. /\ inbox' = <<>> /\ event' = FALSE /\ waiters' = Append(waiters, r)
          /\ status' = [status EXCEPT ![r] = "waiting"]
      BY <1>2, <2>2 DEF PeerAwait
    <3>2. r \in Caller
      BY DEF Caller
    <3>3. /\ waiters' \in Seq(Caller) /\ r \in Ids(waiters')
          /\ Ids(waiters) \subseteq Ids(waiters')
      BY <1>0, <3>1, <3>2 DEF Ids
    <3>4. /\ status' = [d \in Caller |-> status'[d]]
          /\ \A d \in Caller : d = r \/ status'[d] = status[d]
      BY <1>0, <3>1
    <3>5. QED
      BY <3>1, <3>3, <3>4 DEF SleepInv, NoSleeperMissed
  <2>3. QED
    BY <2>1, <2>2
<1>3. ASSUME NEW c, NEW what, Call(c, what)
      PROVE  /\ status' = [d \in Caller |-> status'[d]]
             /\ \A d \in Caller : status'[d] = "waiting" => status[d] = "waiting"
  BY <1>1, <1>3 DEF Call, Finish
<1>4. ASSUME NEW r \in Req, NEW what, ToolCall(r, what) PROVE SleepInv'
  BY <1>3, <1>4, SleepKept DEF ToolCall, box
<1>5. ASSUME NEW limit, PeerInbox(limit) PROVE SleepInv'
  BY <1>0, <1>5, SleepWithFullInbox DEF PeerInbox, tasks
<1>6. CASE StdinCloses
  <2>1. waiters' = <<>> /\ \A c \in Caller : status'[c] # "waiting"
    BY <1>6 DEF StdinCloses
  <2>2. status' = [c \in Caller |-> status'[c]]
    BY <1>6 DEF StdinCloses
  <2>3. QED
    BY <2>1, <2>2 DEF SleepInv, NoSleeperMissed
<1>7. CASE ReadLine
  <2>1. UNCHANGED <<inbox, event, waiters>>
    BY <1>7 DEF ReadLine, box
  <2>2. /\ status' = [c \in Caller |-> status'[c]]
        /\ \A c \in Caller : status'[c] = status[c] \/ status'[c] = "ready"
    BY <1>0, <1>7 DEF ReadLine
  <2>3. QED
    BY <2>1, <2>2, SleepKept
<1>8. CASE Forward
  <2>1. /\ waiters' = <<>>
        /\ status' = [c \in Caller |-> IF c \in Ids(waiters) THEN "ready"
                                       ELSE status[c]]
    BY <1>8 DEF Forward
  <2>2. /\ status' = [c \in Caller |-> status'[c]]
        /\ \A c \in Caller : status'[c] # "waiting"
    BY <2>1 DEF SleepInv, NoSleeperMissed
  <2>3. QED
    BY <2>1, <2>2 DEF SleepInv, NoSleeperMissed
<1>9. CASE Resume
  <2>1. CASE Head(ready) = Run
    <3>1. RunResumes
      BY <1>9, <2>1 DEF Resume
    <3>2. UNCHANGED <<inbox, event, waiters>>
      BY <3>1 DEF RunResumes, box
    <3>3. /\ status' = [d \in Caller |-> status'[d]]
          /\ \A d \in Caller : status'[d] = "waiting" => status[d] = "waiting"
      BY <1>1, <1>3, <3>1 DEF RunResumes
    <3>4. QED
      BY <3>2, <3>3, SleepKept
  <2>2. ASSUME NEW r, AwaitResumes(r) PROVE SleepInv'
    <3>1. /\ status' = [d \in Caller |-> status'[d]]
          /\ \A d \in Caller : status'[d] = "waiting" => status[d] = "waiting"
      BY <1>1, <2>2 DEF AwaitResumes, Finish
    <3>2. waiters' = waiters
      BY <2>2 DEF AwaitResumes
    <3>3. CASE inbox # <<>>
      BY <3>1, <3>2, <3>3, SleepWithFullInbox
    <3>4. CASE inbox = <<>>
      BY <2>2, <3>1, <3>2, <3>4, SleepKept DEF AwaitResumes
    <3>5. QED
      BY <3>3, <3>4
  <2>3. ASSUME NEW r, CallResumes(r) PROVE SleepInv'
    BY <1>1, <2>3, SleepKept DEF CallResumes, box
  <2>4. QED
    BY <1>9, <2>1, <2>2, <2>3 DEF Resume
<1>10. ASSUME NEW r \in Req, TimesOut(r) PROVE SleepInv'
  <2>1. /\ status' = [status EXCEPT ![r] = "done"]
        /\ waiters' = Without(waiters, r)
        /\ UNCHANGED <<inbox, event>>
    BY <1>10 DEF TimesOut, Finish
  <2>2. /\ status' = [d \in Caller |-> status'[d]]
        /\ \A d \in Caller : d # r => status'[d] = status[d]
        /\ status'[r] = "done"
    BY <1>0, <2>1 DEF Caller
  <2>3. waiters' \in Seq(Caller)
    BY <1>0, <2>1, WithoutTyped
  <2>4. \A d \in Ids(waiters) : d # r => d \in Ids(waiters')
    BY <1>0, <2>1, WithoutKeeps
  <2>5. QED
    BY <2>1, <2>2, <2>3, <2>4 DEF SleepInv, NoSleeperMissed
<1>11. CASE \/ ReadEnds \/ ReadOverruns \/ UNCHANGED vars
            \/ DaemonAnswers \/ DaemonNotifies \/ DaemonMutes \/ DaemonGoes
  BY <1>0, <1>11, SleepKept DEF ReadEnds, ReadOverruns, DaemonAnswers, DaemonNotifies,
                                DaemonMutes, DaemonGoes, vars, tasks, box
<1>12. QED
  BY <1>2, <1>4, <1>5, <1>6, <1>7, <1>8, <1>9, <1>10, <1>11 DEF Next, Host

\* Nobody sleeps over a notification, however many awaits, time-outs and drains
\* of the inbox there are, and whatever the daemon does.
THEOREM NobodySleepsOver == Spec => []NoSleeperMissed
<1>1. Init => SleepInv
  BY DEF Init, SleepInv, NoSleeperMissed, Ids
<1>2. SleepInv => NoSleeperMissed
  BY DEF SleepInv
<1>3. QED
  BY <1>1, <1>2, SleepStep, PTL DEF Spec

Outcome == {"ok", "refused", "internal"}
Sent == Nat \X Calls \X Caller
Line == {<<"note", n>> : n \in Nat}
        \cup {<<"answer", i, o, c>> : i \in Nat, o \in Outcome, c \in Caller}

\* An id given out for a task; if it is pending, it is so for that task.
Bound(id, by) ==
    id \in 1..next_id /\ \A c \in Caller : <<id, c>> \in pending => c = by

IsAnswer(line) == line[1] # "note"

\* Nothing an answer may be but one of the daemon to this task.
Own(c, a) == a # None /\ Len(a) = 2 /\ a[1] # "note" => a[2] = c

CallShape ==
    /\ next_id \in Nat
    /\ answer = [c \in Caller |-> answer[c]]
    /\ fromClient \in Seq(Sent)
    /\ toClient \in Seq(Line)
    /\ sent \in Nat

CallInv ==
    /\ CallShape
    /\ \A k \in 1..Len(fromClient) : Bound(fromClient[k][1], fromClient[k][3])
    /\ \A k \in 1..Len(toClient) :
         IsAnswer(toClient[k]) => Bound(toClient[k][2], toClient[k][4])
    /\ \A c \in Caller : Own(c, answer[c])

\* Ids stay bound when none is taken back and a pending one is only added with a
\* new id.
LEMMA BoundKept ==
    ASSUME next_id \in Nat, next_id' \in Nat, next_id' >= next_id,
           \A id \in 1..next_id : \A c \in Caller :
               <<id, c>> \in pending' => <<id, c>> \in pending,
           NEW id, NEW by, Bound(id, by)
    PROVE  Bound(id, by)'
BY DEF Bound

\* A step that gives out no id and sends nothing.
LEMMA CallKept ==
    ASSUME CallInv, UNCHANGED <<next_id, pending, fromClient, toClient>>,
           sent' \in Nat,
           answer' = [c \in Caller |-> answer'[c]],
           \A c \in Caller : Own(c, answer'[c])
    PROVE  CallInv'
BY DEF CallInv, CallShape, Bound

\* What tools answer by themselves is no answer of the daemon.
LEMMA FinishOwn ==
    ASSUME CallInv, NEW r, NEW a, Finish(r, a),
           a = <<"raised">> \/ a = <<"timeout">> \/ \E n : a = <<"note", n>>
    PROVE  /\ answer' = [c \in Caller |-> answer'[c]]
           /\ \A c \in Caller : Own(c, answer'[c])
<1>1. \A c \in Caller : Own(c, a)
  BY DEF Own
<1>2. \A c \in Caller : answer'[c] = answer[c] \/ answer'[c] = a
  BY DEF Finish, CallInv, CallShape
<1>3. QED
  BY <1>1, <1>2 DEF Finish, CallInv, CallShape

\* A task calls.
LEMMA CallStep ==
    ASSUME CallInv, NEW c \in Caller, NEW what \in Calls, Call(c, what),
           UNCHANGED <<toClient, sent>>
    PROVE  CallInv'
<1>1. CASE daemon = "absent"
  <2>1. /\ UNCHANGED <<next_id, pending, fromClient>>
        /\ Finish(c, <<"raised">>)
    BY <1>1 DEF Call, Listening
  <2>2. sent' \in Nat
    BY DEF CallInv, CallShape
  <2>3. /\ answer' = [d \in Caller |-> answer'[d]]
        /\ \A d \in Caller : Own(d, answer'[d])
    BY <2>1, FinishOwn
  <2>4. QED
    BY <2>1, <2>2, <2>3, CallKept
<1>2. CASE daemon # "absent"
  <2>1. /\ next_id \in Nat /\ next_id' = next_id + 1
        /\ pending' = {p \in pending : p[1] # next_id + 1} \cup {<<next_id + 1, c>>}
    BY <1>2 DEF Call, NewId, Unlisted, CallInv, CallShape
  <2>2. \A id, by : Bound(id, by) => Bound(id, by)'
    <3>1. \A id \in 1..next_id : \A d \in Caller :
            <<id, d>> \in pending' => <<id, d>> \in pending
      BY <2>1
    <3>2. QED
      BY <2>1, <3>1, BoundKept
  <2>3. PICK new : new = next_id + 1
    OBVIOUS
  <2>4. Bound(new, c)'
    <3>1. \A d \in Caller : <<new, d>> \in pending' => d = c
      BY <2>1, <2>3
    <3>2. QED
      BY <2>1, <2>3, <3>1 DEF Bound
  <2>5. /\ answer' = [d \in Caller |-> answer'[d]]
        /\ \A d \in Caller : Own(d, answer'[d])
    <3>1. CASE Listening
      BY <3>1 DEF Call, CallInv, CallShape
    <3>2. CASE ~Listening
      BY <3>2, FinishOwn DEF Call
    <3>3. QED
      BY <3>1, <3>2
  <2>6. CASE Listening
    <3>1. fromClient' = Append(fromClient, <<new, what, c>>)
      BY <2>3, <2>6 DEF Call, NewId
    <3>2. fromClient \in Seq(Sent) /\ <<new, what, c>> \in Sent
      BY <2>1, <2>3 DEF CallInv, CallShape, Sent
    <3>3. /\ fromClient' \in Seq(Sent) /\ Len(fromClient') = Len(fromClient) + 1
          /\ fromClient'[Len(fromClient) + 1] = <<new, what, c>>
          /\ \A k \in 1..Len(fromClient) : fromClient'[k] = fromClient[k]
      BY <3>1, <3>2
    <3>4. ASSUME NEW k \in 1..Len(fromClient')
          PROVE  Bound(fromClient[k][1], fromClient[k][3])'
      <4>1. CASE k = Len(fromClient) + 1
        <5>1. fromClient'[k][1] = new /\ fromClient'[k][3] = c
          BY <3>3, <4>1
        <5>2. QED
          BY <2>4, <5>1
      <4>2. CASE k # Len(fromClient) + 1
        <5>1. k \in 1..Len(fromClient)
          BY <3>2, <3>3, <4>2
        <5>2. Bound(fromClient[k][1], fromClient[k][3])
          BY <5>1 DEF CallInv
        <5>3. QED
          BY <2>2, <3>3, <5>1, <5>2
      <4>3. QED
        BY <4>1, <4>2
    <3>5. QED
      BY <2>1, <2>2, <2>5, <3>3, <3>4 DEF CallInv, CallShape
  <2>7. CASE ~Listening
    <3>1. UNCHANGED fromClient
      BY <2>7 DEF Call
    <3>2. QED
      BY <2>1, <2>2, <2>5, <3>1 DEF CallInv, CallShape
  <2>8. QED
    BY <2>6, <2>7
<1>3. QED
  BY <1>1, <1>2

\* A line that is taken off the front, or cut off the end, unbinds none.
LEMMA LinesKept ==
    ASSUME CallInv, NEW new \in Seq(Line), toClient' = new, NEW d \in Nat,
           \A k \in 1..Len(new) : k + d \in 1..Len(toClient)
                                 /\ new[k] = toClient[k + d],
           next_id' = next_id, pending' \subseteq pending,
           fromClient' = fromClient \/ fromClient' = <<>>, sent' = sent,
           answer' = [c \in Caller |-> answer'[c]],
           \A c \in Caller : Own(c, answer'[c])
    PROVE  CallInv'
<1>1. next_id \in Nat /\ \A id, by : Bound(id, by) => Bound(id, by)'
  BY DEF Bound, CallInv, CallShape
<1>2. ASSUME NEW k \in 1..Len(toClient'), IsAnswer(toClient'[k])
      PROVE  Bound(toClient[k][2], toClient[k][4])'
  <2>1. k + d \in 1..Len(toClient) /\ toClient'[k] = toClient[k + d]
    BY <1>2
  <2>2. Bound(toClient[k + d][2], toClient[k + d][4])
    BY <1>2, <2>1 DEF CallInv, IsAnswer
  <2>3. QED
    BY <1>1, <2>1, <2>2
<1>3. \A k \in 1..Len(fromClient') : Bound(fromClient[k][1], fromClient[k][3])'
  BY <1>1 DEF CallInv
<1>4. CallShape'
  <2>1. fromClient' \in Seq(Sent)
    <3>1. fromClient \in Seq(Sent) /\ <<>> \in Seq(Sent)
      BY DEF CallInv, CallShape
    <3>2. QED
      BY <3>1
  <2>2. next_id' \in Nat /\ sent' \in Nat /\ toClient' \in Seq(Line)
    BY DEF CallInv, CallShape
  <2>3. QED
    BY <2>1, <2>2 DEF CallShape
<1>5. QED
  BY <1>2, <1>3, <1>4 DEF CallInv, IsAnswer

\* Every step keeps ids and calls bound to each other.
LEMMA CallInvStep == CallInv /\ [Next]_vars => CallInv'
<1> SUFFICES ASSUME CallInv, [Next]_vars PROVE CallInv'
  OBVIOUS
<1>0. /\ next_id \in Nat /\ sent \in Nat
      /\ answer = [c \in Caller |-> answer[c]]
      /\ fromClient \in Seq(Sent) /\ toClient \in Seq(Line)
      /\ \A c \in Caller : Own(c, answer[c])
  BY DEF CallInv, CallShape
<1>1. ASSUME NEW r \in Req, NEW what, PeerAwait(r, what) PROVE CallInv'
  <2>1. UNCHANGED <<next_id, pending, fromClient, toClient, sent>>
    BY <1>1 DEF PeerAwait, client, peerd, socket
  <2>2. answer' = answer \/ Finish(r, <<"note", Head(inbox)>>)
    BY <1>1 DEF PeerAwait
  <2>3. QED
    BY <1>0, <2>1, <2>2, FinishOwn, CallKept
<1>2. ASSUME NEW r \in Req, NEW what \in Calls, ToolCall(r, what) PROVE CallInv'
  <2>1. r \in Caller /\ Call(r, what) /\ UNCHANGED <<toClient, sent>>
    BY <1>2 DEF ToolCall, Caller, peerd
  <2>2. QED
    BY <2>1, CallStep
<1>3. ASSUME NEW limit, PeerInbox(limit) PROVE CallInv'
  BY <1>0, <1>3, CallKept DEF PeerInbox, tasks, client, peerd, socket
<1>4. CASE StdinCloses
  <2>1. /\ next_id' = next_id /\ sent' = sent
        /\ fromClient' = <<>> /\ toClient' = <<>>
    BY <1>4 DEF StdinCloses, peerd
  <2>2. /\ answer' = [c \in Caller |-> answer'[c]]
        /\ \A c \in Caller : answer'[c] = answer[c] \/ answer'[c] = <<"raised">>
    BY <1>4 DEF StdinCloses
  <2>3. \A c \in Caller : Own(c, answer'[c])
    <3>1. \A c \in Caller : Own(c, <<"raised">>)
      BY DEF Own
    <3>2. QED
      BY <1>0, <2>2, <3>1
  <2>4. QED
    BY <1>0, <2>1, <2>2, <2>3 DEF CallInv, CallShape
<1>5. CASE ReadLine
  <2>1. PICK line : line = Head(toClient)
    OBVIOUS
  <2>2. PICK rest : rest = Tail(toClient)
    OBVIOUS
  <2>3. toClient # <<>> /\ toClient' = rest /\ UNCHANGED <<next_id, fromClient, sent>>
    BY <1>5, <2>2 DEF ReadLine, peerd
  <2>4. /\ line \in Line /\ line = toClient[1] /\ 1 \in 1..Len(toClient)
        /\ rest \in Seq(Line)
        /\ \A k \in 1..Len(rest) : /\ k + 1 \in 1..Len(toClient)
                                   /\ rest[k] = toClient[k + 1]
    BY <1>0, <2>1, <2>2, <2>3
  <2>5. CASE line[1] = "note"
    <3>1. UNCHANGED <<pending, answer>>
      BY <1>5, <2>1, <2>5 DEF ReadLine
    <3>2. QED
      BY <1>0, <2>3, <2>4, <3>1, LinesKept
  <2>6. CASE line[1] # "note"
    <3>1. Bound(line[2], line[4])
      BY <2>4, <2>6 DEF CallInv, IsAnswer
    <3>2. /\ pending' = Unlisted(line[2])
          /\ answer' = [c \in Caller |->
                          IF c \in {b \in Caller : <<line[2], b>> \in pending}
                          THEN <<line[3], line[4]>> ELSE answer[c]]
      BY <1>5, <2>1, <2>6 DEF ReadLine
    <3>3. pending' \subseteq pending
      BY <3>2 DEF Unlisted
    <3>4. ASSUME NEW c \in Caller PROVE Own(c, answer'[c])
      <4>1. CASE <<line[2], c>> \in pending
        <5>1. line[4] = c
          BY <3>1, <4>1 DEF Bound
        <5>2. answer'[c] = <<line[3], c>>
          BY <3>2, <4>1, <5>1
        <5>3. QED
          BY <5>2 DEF Own
      <4>2. CASE <<line[2], c>> \notin pending
        BY <1>0, <3>2, <4>2
      <4>3. QED
        BY <4>1, <4>2
    <3>5. answer' = [c \in Caller |-> answer'[c]]
      BY <3>2
    <3>6. QED
      BY <2>3, <2>4, <3>3, <3>4, <3>5, LinesKept
  <2>7. QED
    BY <2>5, <2>6
<1>6. CASE Resume
  <2>1. UNCHANGED <<sent, toClient>>
    BY <1>6 DEF Resume, peerd
  <2>2. CASE RunResumes
    <3>1. CASE Call(Run, SetAliasTo(InitialAlias))
      <4>1. Run \in Caller /\ SetAliasTo(InitialAlias) \in Calls
        BY AliasAssumption DEF Caller, Calls
      <4>2. QED
        BY <2>1, <3>1, <4>1, CallStep
    <3>2. CASE UNCHANGED <<answer, next_id, pending, fromClient>>
      BY <1>0, <2>1, <3>2, CallKept
    <3>3. QED
      BY <2>2, <3>1, <3>2 DEF RunResumes
  <2>3. ASSUME NEW r, AwaitResumes(r) PROVE CallInv'
    <3>1. /\ Finish(r, <<"note", Head(inbox)>>) \/ Finish(r, <<"timeout">>)
          /\ UNCHANGED <<next_id, pending, fromClient>>
      BY <2>3 DEF AwaitResumes
    <3>2. QED
      BY <1>0, <2>1, <3>1, FinishOwn, CallKept
  <2>4. ASSUME NEW r, CallResumes(r) PROVE CallInv'
    BY <1>0, <2>1, <2>4, CallKept DEF CallResumes
  <2>5. QED
    BY <1>6, <2>2, <2>3, <2>4 DEF Resume
<1>7. ASSUME NEW r, TimesOut(r) PROVE CallInv'
  <2>1. /\ Finish(r, <<"timeout">>)
        /\ UNCHANGED <<next_id, pending, fromClient, toClient, sent>>
    BY <1>7 DEF TimesOut, client, peerd, socket
  <2>2. QED
    BY <1>0, <2>1, FinishOwn, CallKept
<1>8. CASE DaemonAnswers
  <2>1. fromClient # <<>>
    BY <1>8 DEF DaemonAnswers
  <2>2. PICK call : call = Head(fromClient)
    OBVIOUS
  <2>3. /\ fromClient' = Tail(fromClient)
        /\ UNCHANGED <<answer, next_id, pending, sent>>
    BY <1>8 DEF DaemonAnswers, tasks, client
  <2>4. /\ call = fromClient[1] /\ 1 \in 1..Len(fromClient)
        /\ fromClient' \in Seq(Sent)
        /\ \A k \in 1..Len(fromClient') : /\ k + 1 \in 1..Len(fromClient)
                                          /\ fromClient'[k] = fromClient[k + 1]
    BY <1>0, <2>1, <2>2, <2>3
  <2>5. Bound(call[1], call[3])
    BY <2>4 DEF CallInv
  <2>6. \A id, by : Bound(id, by) => Bound(id, by)'
    BY <2>3 DEF Bound
  <2>7. CASE daemon = "mute"
    <3>1. UNCHANGED toClient
      BY <1>8, <2>7 DEF DaemonAnswers
    <3>2. \A k \in 1..Len(fromClient') : Bound(fromClient[k][1], fromClient[k][3])'
      BY <2>4, <2>6 DEF CallInv
    <3>3. CallShape'
      BY <1>0, <2>3, <2>4, <3>1 DEF CallShape
    <3>4. QED
      BY <1>0, <2>3, <2>6, <3>1, <3>2, <3>3 DEF CallInv
  <2>8. CASE daemon # "mute"
    <3>1. PICK o \in Outcome :
            toClient' = Append(toClient, <<"answer", call[1], o, call[3]>>)
      BY <1>8, <2>2, <2>8 DEF DaemonAnswers, Outcome
    <3>2. PICK line : line = <<"answer", call[1], o, call[3]>>
      OBVIOUS
    <3>3. line \in Line /\ line[2] = call[1] /\ line[4] = call[3]
      <4>1. call \in Sent
        BY <1>0, <2>4
      <4>2. QED
        BY <3>2, <4>1 DEF Sent, Line
    <3>4. /\ toClient' \in Seq(Line) /\ Len(toClient') = Len(toClient) + 1
          /\ toClient'[Len(toClient) + 1] = line
          /\ \A k \in 1..Len(toClient) : toClient'[k] = toClient[k]
      BY <1>0, <3>1, <3>2, <3>3
    <3>5. ASSUME NEW k \in 1..Len(toClient'), IsAnswer(toClient'[k])
          PROVE  Bound(toClient[k][2], toClient[k][4])'
      <4>1. CASE k = Len(toClient) + 1
        BY <2>5, <2>6, <3>3, <3>4, <4>1
      <4>2. CASE k # Len(toClient) + 1
        <5>1. k \in 1..Len(toClient)
          BY <1>0, <3>4, <4>2
        <5>2. Bound(toClient[k][2], toClient[k][4])
          BY <3>4, <3>5, <5>1 DEF CallInv, IsAnswer
        <5>3. QED
          BY <2>6, <3>4, <5>1, <5>2
      <4>3. QED
        BY <4>1, <4>2
    <3>6. \A k \in 1..Len(fromClient') : Bound(fromClient[k][1], fromClient[k][3])'
      BY <2>4, <2>6 DEF CallInv
    <3>7. CallShape'
      BY <1>0, <2>3, <2>4, <3>4 DEF CallShape
    <3>8. QED
      BY <1>0, <2>3, <3>5, <3>6, <3>7 DEF CallInv, IsAnswer
  <2>9. QED
    BY <2>7, <2>8
<1>9. CASE DaemonNotifies
  <2>1. PICK line : line = <<"note", sent + 1>>
    OBVIOUS
  <2>2. /\ toClient' = Append(toClient, line) /\ sent' = sent + 1
        /\ UNCHANGED <<answer, next_id, pending, fromClient>>
    BY <1>9, <2>1 DEF DaemonNotifies, tasks, client
  <2>3. line \in Line /\ line[1] = "note"
    BY <1>0, <2>1 DEF Line
  <2>4. /\ toClient' \in Seq(Line) /\ Len(toClient') = Len(toClient) + 1
        /\ toClient'[Len(toClient) + 1] = line
        /\ \A k \in 1..Len(toClient) : toClient'[k] = toClient[k]
    BY <1>0, <2>2, <2>3
  <2>5. \A id, by : Bound(id, by) => Bound(id, by)'
    BY <2>2 DEF Bound
  <2>6. ASSUME NEW k \in 1..Len(toClient'), IsAnswer(toClient'[k])
        PROVE  Bound(toClient[k][2], toClient[k][4])'
    <3>1. k \in 1..Len(toClient)
      BY <1>0, <2>3, <2>4, <2>6 DEF IsAnswer
    <3>2. Bound(toClient[k][2], toClient[k][4])
      BY <2>4, <2>6, <3>1 DEF CallInv, IsAnswer
    <3>3. QED
      BY <2>4, <2>5, <3>1, <3>2
  <2>7. CallShape'
    BY <1>0, <2>2, <2>4 DEF CallShape
  <2>8. \A k \in 1..Len(fromClient') : Bound(fromClient[k][1], fromClient[k][3])'
    BY <2>2, <2>5 DEF CallInv
  <2>9. QED
    BY <1>0, <2>2, <2>6, <2>7, <2>8 DEF CallInv, IsAnswer
<1>10. CASE DaemonGoes
  <2>1. PICK n \in 0..Len(toClient) : toClient' = SubSeq(toClient, 1, n)
    BY <1>10 DEF DaemonGoes
  <2>2. UNCHANGED <<answer, next_id, pending, sent>> /\ fromClient' = <<>>
    BY <1>10 DEF DaemonGoes, tasks, client
  <2>3. PICK new : new = SubSeq(toClient, 1, n)
    OBVIOUS
  <2>4. /\ new \in Seq(Line) /\ Len(new) = n
        /\ \A k \in 1..n : new[k] = toClient[k]
    BY <1>0, <2>3
  <2>5. \A k \in 1..Len(new) : k + 0 \in 1..Len(toClient) /\ new[k] = toClient[k + 0]
    BY <1>0, <2>4
  <2>6. QED
    BY <1>0, <2>1, <2>2, <2>3, <2>4, <2>5, LinesKept
<1>11. CASE Forward \/ ReadEnds \/ ReadOverruns \/ DaemonMutes \/ UNCHANGED vars
  BY <1>0, <1>11, CallKept DEF Forward, ReadEnds, ReadOverruns, DaemonMutes, vars,
                               tasks, client, peerd, socket
<1>12. QED
  BY <1>1, <1>2, <1>3, <1>4, <1>5, <1>6, <1>7, <1>8, <1>9, <1>10, <1>11
     DEF Next, Host

\* The sidecar has said hello, or stands alone.
LEMMA CallInit == Init => CallInv
<1> SUFFICES ASSUME Init PROVE CallInv
  OBVIOUS
<1>1. /\ answer = [c \in Caller |-> None] /\ toClient = <<>> /\ sent = 0
  BY DEF Init
<1>2. Run \in Caller /\ <<"hello">> \in Calls
  BY DEF Caller, Calls
<1>3. \A c \in Caller : Own(c, answer[c])
  BY <1>1 DEF Own
<1>4. CASE next_id = 0 /\ fromClient = <<>>
  BY <1>1, <1>3, <1>4 DEF CallInv, CallShape
<1>5. CASE next_id = 1 /\ pending = {<<1, Run>>}
           /\ fromClient = <<<<1, <<"hello">>, Run>>>>
  <2>1. <<1, <<"hello">>, Run>> \in Sent
    BY <1>2 DEF Sent
  <2>2. fromClient \in Seq(Sent) /\ Len(fromClient) = 1
        /\ fromClient[1] = <<1, <<"hello">>, Run>>
    BY <1>5, <2>1
  <2>3. Bound(fromClient[1][1], fromClient[1][3])
    BY <1>5, <2>2 DEF Bound
  <2>4. QED
    BY <1>1, <1>3, <1>5, <2>2, <2>3 DEF CallInv, CallShape
<1>6. QED
  BY <1>4, <1>5 DEF Init

\* An answer comes back from the call it answers, however many tools call at
\* once, and whichever calls the daemon leaves unanswered.
THEOREM AnswersAreTheirOwn == Spec => []AnswersMatch
<1>1. CallInv => AnswersMatch
  BY DEF CallInv, Own, AnswersMatch
<1>2. QED
  BY <1>1, CallInit, CallInvStep, PTL DEF Spec

-------------------------------------------------------------------------------
(***************************************************************************)
(* Notifications in order.  What the agent has yet to read is one row of   *)
(* numbers, from the inbox through the client to the socket: a step takes  *)
(* some off its front, cuts some off its end, or adds the next one.        *)
(***************************************************************************)
News == {line \in Line : line[1] = "note"}

\* A line of the socket is a notification and its number, or an answer.
LEMMA LineShapes ==
    /\ \A line \in News : line[2] \in Nat
    /\ \A n \in Nat : <<"note", n>> \in News /\ <<"note", n>> \in Line
    /\ \A i \in Nat, o \in Outcome, c \in Caller :
         /\ <<"answer", i, o, c>> \in Line \ News
<1>1. ASSUME NEW line \in News PROVE line[2] \in Nat
  <2>1. CASE line \in {<<"note", n>> : n \in Nat}
    BY <2>1
  <2>2. CASE line \in {<<"answer", i, o, c>> : i \in Nat, o \in Outcome, c \in Caller}
    BY <2>2, <1>1 DEF News
  <2>3. QED
    BY <1>1, <2>1, <2>2 DEF News, Line
<1>2. QED
  BY <1>1 DEF News, Line

\* The notifications on their way are those lines, each by its number.
LEMMA NotesMeans ==
    ASSUME NEW q \in Seq(Line)
    PROVE  /\ Notes(q) \in Seq(Nat)
           /\ Select(q, News) \in Seq(News)
           /\ Len(Notes(q)) = Len(Select(q, News))
           /\ \A i \in 1..Len(Select(q, News)) : Notes(q)[i] = Select(q, News)[i][2]
<1>1. PICK l : l = Select(q, {line \in Ids(q) : line[1] = "note"})
  OBVIOUS
<1>2. q \in Seq(Ids(q)) /\ Ids(q) \subseteq Line
  <2>1. /\ Len(q) \in Nat /\ DOMAIN q = 1..Len(q) /\ q = [i \in 1..Len(q) |-> q[i]]
        /\ \A i \in 1..Len(q) : q[i] \in Line
    OBVIOUS
  <2>2. \A i \in 1..Len(q) : q[i] \in Ids(q)
    BY <2>1 DEF Ids
  <2>3. Ids(q) \subseteq Line
    BY <2>1 DEF Ids
  <2> DEFINE S == Ids(q)
  <2>4. \A i \in 1..Len(q) : q[i] \in S
    BY <2>2
  <2> HIDE DEF S
  <2>5. q \in Seq(S)
    BY ONLY <2>1, <2>4
  <2>6. QED
    BY <2>3, <2>5 DEF S
<1>3. l = Select(q, News)
  <2>1. \A x \in Ids(q) : x \in {line \in Ids(q) : line[1] = "note"} <=> x \in News
    BY <1>2 DEF News
  <2>2. QED
    BY <1>1, <1>2, <2>1, SelectSame
<1>4. l \in Seq(News)
  <2>1. l \in Seq(Line) /\ Ids(l) = Ids(q) \cap News
    BY <1>3, SelectIds
  <2>2. /\ Len(l) \in Nat /\ DOMAIN l = 1..Len(l) /\ l = [i \in 1..Len(l) |-> l[i]]
    BY <2>1
  <2>3. \A i \in 1..Len(l) : l[i] \in News
    BY <2>1, <2>2 DEF Ids
  <2>4. QED
    BY <2>2, <2>3
<1>5. PICK n : n = Notes(q)
  OBVIOUS
<1>6. n = [i \in DOMAIN l |-> l[i][2]]
  BY <1>1, <1>5 DEF Notes
<1>7. DOMAIN l = 1..Len(l) /\ Len(l) \in Nat /\ \A i \in 1..Len(l) : l[i] \in News
  BY <1>4
<1>8. n = [i \in 1..Len(l) |-> l[i][2]] /\ \A i \in 1..Len(l) : l[i][2] \in Nat
  BY <1>6, <1>7, LineShapes
<1>9. n \in Seq(Nat) /\ Len(n) = Len(l) /\ \A i \in 1..Len(l) : n[i] = l[i][2]
  BY <1>7, <1>8
<1>10. QED
  BY <1>3, <1>4, <1>5, <1>9

\* The notifications in two pieces of what is on its way.
LEMMA NotesConcat ==
    ASSUME NEW p \in Seq(Line), NEW q \in Seq(Line)
    PROVE  Notes(p \o q) = Notes(p) \o Notes(q)
<1>1. PICK a, b, r, e : /\ a = Select(p, News) /\ b = Select(q, News)
                        /\ r = p \o q /\ e = Select(r, News)
  OBVIOUS
<1>2. r \in Seq(Line) /\ e = a \o b
  <2>1. Select(p \o q, News) = Select(p, News) \o Select(q, News)
    BY SelectConcat
  <2>2. QED
    BY <1>1, <2>1
<1>3. PICK s, t, u : s = Notes(p) /\ t = Notes(q) /\ u = Notes(r)
  OBVIOUS
<1>4. /\ a \in Seq(News) /\ b \in Seq(News) /\ e \in Seq(News)
      /\ s \in Seq(Nat) /\ t \in Seq(Nat) /\ u \in Seq(Nat)
      /\ Len(s) = Len(a) /\ Len(t) = Len(b) /\ Len(u) = Len(e)
      /\ \A i \in 1..Len(a) : s[i] = a[i][2]
      /\ \A i \in 1..Len(b) : t[i] = b[i][2]
      /\ \A i \in 1..Len(e) : u[i] = e[i][2]
  BY <1>1, <1>2, <1>3, NotesMeans
<1>5. PICK m, n : m = Len(a) /\ n = Len(b)
  OBVIOUS
<1>6. /\ m \in Nat /\ n \in Nat /\ Len(e) = m + n
      /\ \A i \in 1..m : e[i] = a[i]
      /\ \A i \in (m + 1)..(m + n) : e[i] = b[i - m] /\ i - m \in 1..n
  <2> DEFINE S == News
  <2>1. a \in Seq(S) /\ b \in Seq(S) /\ e = a \o b /\ m = Len(a) /\ n = Len(b)
    BY <1>2, <1>4, <1>5
  <2> HIDE DEF S
  <2>2. QED
    BY ONLY <2>1, ConcatMeans
<1>7. PICK v : v = s \o t
  OBVIOUS
<1>8. /\ v \in Seq(Nat) /\ Len(v) = m + n
      /\ \A i \in 1..m : v[i] = s[i]
      /\ \A i \in (m + 1)..(m + n) : v[i] = t[i - m]
  <2>1. s \in Seq(Nat) /\ t \in Seq(Nat) /\ m = Len(s) /\ n = Len(t) /\ v = s \o t
    BY <1>4, <1>5, <1>7
  <2>2. QED
    BY ONLY <2>1, ConcatMeans
<1>9. ASSUME NEW i \in 1..(m + n) PROVE u[i] = v[i]
  <2>1. CASE i <= m
    <3>1. i \in 1..m /\ i \in 1..Len(a) /\ i \in 1..Len(e)
      BY <1>5, <1>6, <2>1
    <3>2. u[i] = e[i][2] /\ e[i] = a[i] /\ v[i] = s[i] /\ s[i] = a[i][2]
      BY <1>4, <1>6, <1>8, <3>1
    <3>3. QED
      BY <3>2
  <2>2. CASE i > m
    <3>1. /\ i \in (m + 1)..(m + n) /\ i \in 1..Len(e)
          /\ i - m \in 1..n /\ i - m \in 1..Len(b)
      BY <1>5, <1>6, <2>2
    <3>2. u[i] = e[i][2] /\ e[i] = b[i - m] /\ v[i] = t[i - m] /\ t[i - m] = b[i - m][2]
      BY <1>4, <1>5, <1>6, <1>8, <3>1
    <3>3. QED
      BY <3>2
  <2>3. QED
    BY <1>6, <2>1, <2>2
<1>10. Len(u) = Len(v) /\ \A i \in 1..Len(u) : u[i] = v[i]
  BY <1>4, <1>6, <1>8, <1>9
<1>11. u = v
  BY <1>4, <1>8, <1>10, SeqEqual
<1>12. QED
  BY <1>1, <1>3, <1>7, <1>11

\* One line more, or the first one less.
LEMMA NotesOneLine ==
    ASSUME NEW q \in Seq(Line), NEW line \in Line
    PROVE  /\ Notes(Append(q, line)) = Notes(q) \o Notes(<<line>>)
           /\ q # <<>> => Notes(q) = Notes(<<Head(q)>>) \o Notes(Tail(q))
           /\ line \in News => Notes(<<line>>) = <<line[2]>>
           /\ line \notin News => Notes(<<line>>) = <<>>
<1>1. <<line>> \in Seq(Line) /\ Append(q, line) = q \o <<line>>
  OBVIOUS
<1>2. ASSUME q # <<>> PROVE Notes(q) = Notes(<<Head(q)>>) \o Notes(Tail(q))
  <2>1. /\ Head(q) \in Line /\ <<Head(q)>> \in Seq(Line) /\ Tail(q) \in Seq(Line)
        /\ q = <<Head(q)>> \o Tail(q)
    BY <1>2
  <2>2. Notes(<<Head(q)>> \o Tail(q)) = Notes(<<Head(q)>>) \o Notes(Tail(q))
    BY <2>1, NotesConcat
  <2>3. QED
    BY <2>1, <2>2
<1>3. PICK l : l = <<line>>
  OBVIOUS
<1>4. l = Append(<<>>, line) /\ <<>> \in Seq(Line) /\ l \in Seq(Line)
  BY <1>3
<1>5. Select(l, News) = IF line \in News THEN <<line>> ELSE <<>>
  <2>1. PICK e : e = <<>>
    OBVIOUS
  <2>2. e \in Seq(Line) /\ line \in Line /\ l = Append(e, line)
    BY <1>4, <2>1
  <2>3. Select(Append(e, line), News) = IF line \in News
                                        THEN Append(Select(e, News), line)
                                        ELSE Select(e, News)
    BY ONLY <2>2, SelectAppend
  <2>4. Select(e, News) = <<>>
    BY <2>1, SelectAppend
  <2>5. QED
    BY <2>2, <2>3, <2>4
<1>6. ASSUME line \in News PROVE Notes(l) = <<line[2]>>
  <2>1. Select(l, News) = <<line>>
    BY <1>5, <1>6
  <2>2. PICK e, n : e = Select(l, News) /\ n = Notes(l)
    OBVIOUS
  <2>3. Len(e) = 1 /\ e[1] = line
    BY <2>1, <2>2
  <2>4. n \in Seq(Nat) /\ Len(n) = Len(e) /\ \A i \in 1..Len(e) : n[i] = e[i][2]
    BY <1>4, <2>2, NotesMeans
  <2>5. Len(n) = 1 /\ n[1] = line[2] /\ n \in Seq(Nat)
    BY <2>3, <2>4
  <2>6. n = <<line[2]>>
    BY <2>5
  <2>7. QED
    BY <2>2, <2>6
<1>7. ASSUME line \notin News PROVE Notes(l) = <<>>
  <2>1. Len(Select(l, News)) = 0
    BY <1>5, <1>7
  <2>2. Len(Notes(l)) = 0 /\ Notes(l) \in Seq(Nat)
    BY <1>4, <2>1, NotesMeans
  <2>3. QED
    BY <2>2
<1>8. QED
  BY <1>1, <1>2, <1>3, <1>6, <1>7, NotesConcat

Heard == IF reader = "reading" THEN Notes(toClient) ELSE <<>>
Unread == inbox \o notifications \o Heard

\* Numbers that follow each other, above lo and up to hi.
Row(q, lo, hi) ==
    /\ q \in Seq(Nat)
    /\ \A i, j \in 1..Len(q) : q[j] = q[i] + (j - i)
    /\ \A i \in 1..Len(q) : lo < q[i] /\ q[i] <= hi

Noted(c) == answer[c] # None /\ answer[c][1] = "note"

RowInv ==
    /\ read \in Nat /\ sent \in Nat /\ read <= sent
    /\ Row(Unread, read, sent)
    /\ daemon = "up" /\ reader = "reading" /\ Unread # <<>> =>
         Unread[Len(Unread)] = sent

NotedInv ==
    /\ \A c \in Caller : Noted(c) => \E k \in 1..read : answer[c] = <<"note", k>>
    /\ \A c, d \in Caller : c # d /\ Noted(c) => answer[c] # answer[d]

BoxShape == inbox \in Seq(Nat) /\ notifications \in Seq(Nat)

\* A step that cuts the row at its ends; what is read last is the last of what is
\* cut off the front.
Cuts(front, back) ==
    /\ front \in Seq(Nat) /\ back \in Seq(Nat) /\ Unread' \in Seq(Nat)
    /\ Unread = front \o (Unread' \o back)
    /\ read' = read \/ (front # <<>> /\ read' = front[Len(front)])
    /\ sent' = sent
    /\ daemon' = "up" /\ reader' = "reading" =>
         daemon = "up" /\ reader = "reading" /\ back = <<>>

\* A row that is cut is a row.
LEMMA CutsKeep ==
    ASSUME RowInv, NEW front, NEW back, Cuts(front, back) PROVE RowInv'
<1>1. PICK u, v, w : u = Unread /\ v = Unread' /\ w = v \o back
  OBVIOUS
<1>2. PICK k, m, n : k = Len(front) /\ m = Len(v) /\ n = Len(back)
  OBVIOUS
<1>3. /\ front \in Seq(Nat) /\ back \in Seq(Nat) /\ v \in Seq(Nat) /\ u = front \o w
  BY <1>1 DEF Cuts
<1>4. /\ m \in Nat /\ n \in Nat /\ w \in Seq(Nat) /\ Len(w) = m + n
      /\ \A i \in 1..m : w[i] = v[i]
  BY <1>1, <1>2, <1>3, ConcatMeans
<1>5. PICK l : l = Len(w)
  OBVIOUS
<1>6. /\ k \in Nat /\ u \in Seq(Nat) /\ Len(u) = k + l
      /\ \A i \in 1..k : u[i] = front[i]
      /\ \A i \in (k + 1)..(k + l) : u[i] = w[i - k]
  <2>1. /\ front \in Seq(Nat) /\ w \in Seq(Nat) /\ u = front \o w
        /\ k = Len(front) /\ l = Len(w)
    BY <1>2, <1>3, <1>4, <1>5
  <2>2. QED
    BY ONLY <2>1, ConcatMeans
<1>7. \A i \in 1..m : i + k \in 1..Len(u) /\ v[i] = u[i + k]
  <2> SUFFICES ASSUME NEW i \in 1..m PROVE i + k \in 1..Len(u) /\ v[i] = u[i + k]
    OBVIOUS
  <2>1. i + k \in (k + 1)..(k + l) /\ i + k \in 1..Len(u) /\ (i + k) - k = i
    BY <1>4, <1>5, <1>6
  <2>2. u[i + k] = w[(i + k) - k] /\ w[i] = v[i]
    BY <1>4, <1>6, <2>1
  <2>3. QED
    BY <2>1, <2>2
<1>8. /\ \A i, j \in 1..Len(u) : u[j] = u[i] + (j - i)
      /\ \A i \in 1..Len(u) : read < u[i] /\ u[i] <= sent
      /\ read \in Nat /\ sent \in Nat /\ read <= sent
      /\ \A i \in 1..Len(u) : u[i] \in Nat
  BY <1>1, <1>6 DEF RowInv, Row
<1>9. \A i, j \in 1..m : v[j] = v[i] + (j - i)
  <2> SUFFICES ASSUME NEW i \in 1..m, NEW j \in 1..m PROVE v[j] = v[i] + (j - i)
    OBVIOUS
  <2>1. u[j + k] = u[i + k] + ((j + k) - (i + k))
    BY <1>7, <1>8
  <2>2. (j + k) - (i + k) = j - i
    BY <1>4, <1>6
  <2>3. QED
    BY <1>7, <2>1, <2>2
<1>10. sent' = sent /\ read' \in Nat /\ read' <= sent
       /\ \A i \in 1..m : read' < v[i] /\ v[i] <= sent
  <2>1. sent' = sent
    BY DEF Cuts
  <2>2. CASE read' = read
    BY <1>7, <1>8, <2>1, <2>2
  <2>3. CASE front # <<>> /\ read' = front[Len(front)]
    <3>1. k \in 1..k /\ k \in 1..Len(u)
      BY <1>2, <1>3, <1>4, <1>5, <1>6, <2>3
    <3>2. read' = u[k]
      BY <1>2, <1>6, <2>3, <3>1
    <3>3. ASSUME NEW i \in 1..m PROVE read' < v[i]
      <4>1. u[i + k] = u[k] + ((i + k) - k)
        BY <1>7, <1>8, <3>1
      <4>2. (i + k) - k = i /\ i > 0 /\ u[k] \in Nat
        BY <1>4, <1>6, <1>8, <3>1
      <4>3. QED
        BY <1>7, <3>2, <4>1, <4>2
    <3>4. QED
      BY <1>7, <1>8, <2>1, <3>1, <3>2, <3>3
  <2>4. QED
    BY <2>2, <2>3 DEF Cuts
<1>11. ASSUME daemon' = "up", reader' = "reading", v # <<>>
       PROVE  v[Len(v)] = sent
  <2>1. daemon = "up" /\ reader = "reading" /\ back = <<>>
    BY <1>11 DEF Cuts
  <2>2. n = 0 /\ m \in 1..m
    BY <1>2, <1>3, <1>4, <1>11, <2>1
  <2>3. m + k = Len(u) /\ m + k \in 1..Len(u)
    BY <1>4, <1>5, <1>6, <2>2
  <2>4. v[m] = u[Len(u)]
    BY <1>7, <2>2, <2>3
  <2>5. u # <<>>
    BY <1>6, <2>3
  <2>6. u[Len(u)] = sent
    BY <1>1, <2>1, <2>5 DEF RowInv
  <2>7. QED
    BY <1>2, <2>4, <2>6
<1>12. Row(v, read', sent')
  BY <1>2, <1>3, <1>9, <1>10 DEF Row
<1>13. QED
  BY <1>1, <1>8, <1>10, <1>11, <1>12 DEF RowInv

\* The next notification ends the row.
LEMMA GrowsKeep ==
    ASSUME RowInv, read' = read, sent' = sent + 1,
           \/ Unread' = Append(Unread, sent + 1) /\ daemon = "up" /\ reader = "reading"
           \/ Unread' = Unread /\ reader' # "reading"
    PROVE  RowInv'
<1>1. PICK u, v, m : u = Unread /\ v = Unread' /\ m = Len(u)
  OBVIOUS
<1>2. /\ u \in Seq(Nat) /\ m \in Nat
      /\ \A i, j \in 1..m : u[j] = u[i] + (j - i)
      /\ \A i \in 1..m : read < u[i] /\ u[i] <= sent
      /\ read \in Nat /\ sent \in Nat /\ read <= sent
      /\ \A i \in 1..m : u[i] \in Nat
  BY <1>1 DEF RowInv, Row
<1>3. CASE Unread' = Unread /\ reader' # "reading"
  <2>1. Row(v, read', sent')
    BY <1>1, <1>2, <1>3 DEF Row
  <2>2. QED
    BY <1>1, <1>2, <1>3, <2>1 DEF RowInv
<1>4. CASE Unread' = Append(Unread, sent + 1) /\ daemon = "up" /\ reader = "reading"
  <2>1. v = Append(u, sent + 1)
    BY <1>1, <1>4
  <2>2. /\ v \in Seq(Nat) /\ Len(v) = m + 1 /\ v[m + 1] = sent + 1
        /\ \A i \in 1..m : v[i] = u[i]
    BY <1>1, <1>2, <2>1
  <2>3. m = 0 \/ (m \in 1..m /\ u[m] = sent)
    <3>1. m # 0 => u # <<>>
      BY <1>1
    <3>2. u # <<>> => u[m] = sent
      BY <1>1, <1>4 DEF RowInv
    <3>3. QED
      BY <1>2, <3>1, <3>2
  <2>4. \A i \in 1..m : u[i] = sent + (i - m)
    BY <1>2, <2>3
  <2>5. \A i \in 1..(m + 1) : v[i] = sent + 1 + (i - (m + 1))
    BY <1>2, <2>2, <2>4
  <2>6. \A i, j \in 1..(m + 1) : v[j] = v[i] + (j - i)
    BY <1>2, <2>5
  <2>7. ASSUME NEW i \in 1..(m + 1) PROVE read < v[i] /\ v[i] <= sent + 1
    <3>1. CASE i = m + 1
      BY <1>2, <2>2, <3>1
    <3>2. CASE i # m + 1
      <4>1. i \in 1..m
        BY <1>2, <3>2
      <4>2. v[i] = u[i] /\ read < u[i] /\ u[i] <= sent /\ u[i] \in Nat
        BY <1>2, <2>2, <4>1
      <4>3. QED
        BY <1>2, <4>2
    <3>3. QED
      BY <3>1, <3>2
  <2>8. Row(v, read', sent')
    BY <2>2, <2>6, <2>7 DEF Row
  <2>9. v[Len(v)] = sent'
    BY <2>2
  <2>10. QED
    BY <1>1, <1>2, <2>8, <2>9 DEF RowInv
<1>5. QED
  BY <1>3, <1>4

\* What awaits came back with stays apart when no other task gets a notification
\* and the agent does not fall back.
LEMMA NotedKept ==
    ASSUME NotedInv, read \in Nat, read' \in Nat, read <= read',
           \A c \in Caller : answer'[c] = answer[c] \/ ~Noted(c)'
    PROVE  NotedInv'
<1>1. \A c \in Caller : Noted(c)' => Noted(c) /\ answer'[c] = answer[c]
  BY DEF Noted
<1>2. \A k \in 1..read : k \in 1..read'
  OBVIOUS
<1>3. ASSUME NEW c \in Caller, Noted(c)'
      PROVE  \E k \in 1..read' : answer'[c] = <<"note", k>>
  <2>1. Noted(c) /\ answer'[c] = answer[c]
    BY <1>1, <1>3
  <2>2. PICK k \in 1..read : answer[c] = <<"note", k>>
    BY <2>1 DEF NotedInv
  <2>3. QED
    BY <1>2, <2>1, <2>2
<1>4. ASSUME NEW c \in Caller, NEW d \in Caller, c # d, Noted(c)'
      PROVE  answer'[c] # answer'[d]
  <2>1. Noted(c) /\ answer'[c] = answer[c] /\ answer[c] # answer[d]
    BY <1>1, <1>4 DEF NotedInv
  <2>2. CASE answer'[d] = answer[d]
    BY <2>1, <2>2
  <2>3. CASE ~Noted(d)'
    BY <1>4, <2>3 DEF Noted
  <2>4. QED
    BY <2>2, <2>3
<1>5. QED
  BY <1>3, <1>4 DEF NotedInv

\* A task gets what is read now and was not before.
LEMMA NotedTaken ==
    ASSUME NotedInv, read \in Nat, read' \in Nat, read < read', NEW r \in Caller,
           answer = [c \in Caller |-> answer[c]],
           answer' = [answer EXCEPT ![r] = <<"note", read'>>]
    PROVE  NotedInv'
<1>1. PICK new, n : n = read' /\ new = <<"note", n>>
  OBVIOUS
<1>2. answer'[r] = new /\ \A c \in Caller \ {r} : answer'[c] = answer[c]
  BY <1>1
<1>3. n \in 1..n /\ \A k \in 1..read : k \in 1..n /\ k # n
  BY <1>1
<1>4. \A c \in Caller \ {r} : Noted(c)' => Noted(c)
  BY <1>2 DEF Noted
<1>5. \A c \in Caller \ {r} : Noted(c) => answer[c] # new
  <2> SUFFICES ASSUME NEW c \in Caller \ {r}, Noted(c), answer[c] = new PROVE FALSE
    OBVIOUS
  <2>1. PICK k \in 1..read : answer[c] = <<"note", k>>
    BY DEF NotedInv
  <2>2. k = n
    BY <1>1, <2>1
  <2>3. QED
    BY <1>3, <2>2
<1>6. ASSUME NEW c \in Caller, Noted(c)' PROVE \E k \in 1..n : answer'[c] = <<"note", k>>
  <2>1. CASE c = r
    BY <1>1, <1>2, <1>3, <2>1
  <2>2. CASE c # r
    <3>1. Noted(c) /\ answer'[c] = answer[c]
      BY <1>2, <1>4, <1>6, <2>2
    <3>2. QED
      BY <1>3, <3>1 DEF NotedInv
  <2>3. QED
    BY <2>1, <2>2
<1>7. ASSUME NEW c \in Caller, NEW d \in Caller, c # d, Noted(c)'
      PROVE  answer'[c] # answer'[d]
  <2>1. CASE c = r
    <3>1. d # r /\ answer'[d] = answer[d] /\ answer'[c] = new
      BY <1>2, <1>7, <2>1
    <3>2. CASE Noted(d)
      BY <1>5, <3>1, <3>2
    <3>3. CASE ~Noted(d)
      BY <1>7, <3>1, <3>3 DEF Noted
    <3>4. QED
      BY <3>2, <3>3
  <2>2. CASE d = r
    <3>1. c # r /\ answer'[c] = answer[c] /\ answer'[d] = new /\ Noted(c)
      BY <1>2, <1>4, <1>7, <2>2
    <3>2. QED
      BY <1>5, <3>1
  <2>3. CASE c # r /\ d # r
    BY <1>2, <1>4, <1>7, <2>3 DEF NotedInv
  <2>4. QED
    BY <2>1, <2>2, <2>3
<1>8. QED
  BY <1>1, <1>6, <1>7 DEF NotedInv

OrderInv == BoxShape /\ RowInv /\ NotedInv

\* A step that leaves the row alone.
LEMMA RowKept ==
    ASSUME RowInv, Unread' = Unread, read' = read, sent' = sent,
           daemon' = "up" /\ reader' = "reading" => daemon = "up" /\ reader = "reading"
    PROVE  RowInv'
BY DEF RowInv

\* What there is to the row.
LEMMA UnreadShape ==
    ASSUME BoxShape, toClient \in Seq(Line)
    PROVE  /\ Heard \in Seq(Nat) /\ Unread \in Seq(Nat)
           /\ inbox \o notifications \in Seq(Nat)
<1>1. Notes(toClient) \in Seq(Nat) /\ <<>> \in Seq(Nat)
  BY NotesMeans
<1>2. Heard \in Seq(Nat)
  BY <1>1 DEF Heard
<1>3. inbox \o notifications \in Seq(Nat)
  BY DEF BoxShape
<1>4. QED
  BY <1>2, <1>3 DEF Unread

\* Putting rows together associates.
LEMMA Assoc ==
    \A s, t, u \in Seq(Nat) : (s \o t) \o u = s \o (t \o u)
BY ConcatAssociative

\* One number more, or the first one less.
LEMMA OneNumber ==
    ASSUME NEW q \in Seq(Nat)
    PROVE  /\ \A n \in Nat : /\ <<n>> \in Seq(Nat) /\ Append(q, n) \in Seq(Nat)
                             /\ Append(q, n) # <<>>
                             /\ Append(q, n) = q \o <<n>>
           /\ q # <<>> => /\ Head(q) \in Nat /\ <<Head(q)>> \in Seq(Nat)
                          /\ Tail(q) \in Seq(Nat)
                          /\ q = <<Head(q)>> \o Tail(q)
<1>1. ASSUME NEW n \in Nat
      PROVE  /\ <<n>> \in Seq(Nat) /\ Append(q, n) \in Seq(Nat)
             /\ Append(q, n) # <<>> /\ Append(q, n) = q \o <<n>>
  <2>1. <<n>> \in Seq(Nat) /\ Append(q, n) = q \o <<n>>
    OBVIOUS
  <2>2. Append(q, n) \in Seq(Nat) /\ Len(Append(q, n)) = Len(q) + 1 /\ Len(q) \in Nat
    OBVIOUS
  <2>3. Append(q, n) # <<>>
    BY <2>2
  <2>4. QED
    BY <2>1, <2>2, <2>3
<1>2. ASSUME q # <<>>
      PROVE  /\ Head(q) \in Nat /\ <<Head(q)>> \in Seq(Nat) /\ Tail(q) \in Seq(Nat)
             /\ q = <<Head(q)>> \o Tail(q)
  BY <1>2
<1>3. QED
  BY <1>1, <1>2

\* Entries leave the inbox for the agent.
LEMMA TakeCuts ==
    ASSUME BoxShape, CallShape, RowInv, NEW n \in 1..Len(inbox), Take(n),
           UNCHANGED <<notifications, toClient, reader, daemon, sent>>
    PROVE  BoxShape' /\ RowInv' /\ read' = inbox[n] /\ read < read'
<1>1. PICK p, q, r, f, g, k : /\ p = inbox /\ q = notifications /\ r = Heard
                              /\ k = Len(p)
                              /\ f = SubSeq(p, 1, n) /\ g = SubSeq(p, n + 1, k)
  OBVIOUS
<1>2. /\ inbox' = g /\ notifications' = q /\ Heard' = r /\ read' = p[n]
  BY <1>1 DEF Take, Heard
<1>3. /\ p \in Seq(Nat) /\ q \in Seq(Nat) /\ r \in Seq(Nat) /\ k \in Nat
      /\ n \in 1..k
  BY <1>1, UnreadShape DEF BoxShape, CallShape
<1>4. /\ f \in Seq(Nat) /\ Len(f) = n /\ f[n] = p[n]
      /\ g \in Seq(Nat) /\ Len(g) = k - n
      /\ \A i \in 1..n : f[i] = p[i]
      /\ \A i \in 1..(k - n) : g[i] = p[n + i]
  BY <1>1, <1>3
<1>5. p = f \o g
  <2>1. n + 1 \in 1..(Len(p) + 1) /\ (n + 1) - 1 = n
    BY <1>1, <1>3
  <2>2. p = SubSeq(p, 1, n) \o SubSeq(p, n + 1, Len(p))
    BY <1>3, <2>1, SplitAt
  <2>3. QED
    BY <1>1, <2>2
<1>6. /\ g \o q \in Seq(Nat) /\ (g \o q) \o r \in Seq(Nat)
      /\ (f \o g) \o q = f \o (g \o q)
      /\ (f \o (g \o q)) \o r = f \o ((g \o q) \o r)
  <2>1. g \o q \in Seq(Nat)
    BY <1>3, <1>4
  <2>2. (g \o q) \o r \in Seq(Nat)
    BY <1>3, <2>1
  <2>3. (f \o g) \o q = f \o (g \o q)
    BY <1>3, <1>4, Assoc
  <2>4. (f \o (g \o q)) \o r = f \o ((g \o q) \o r)
    <3>1. PICK w : w = g \o q
      OBVIOUS
    <3>2. (f \o w) \o r = f \o (w \o r)
      BY <1>3, <1>4, <2>1, <3>1, Assoc
    <3>3. QED
      BY <3>1, <3>2
  <2>5. QED
    BY <2>1, <2>2, <2>3, <2>4
<1>7. Unread = f \o Unread' /\ Unread' \in Seq(Nat)
  BY <1>1, <1>2, <1>5, <1>6 DEF Unread
<1>8. Unread' \o <<>> = Unread'
  BY <1>7
<1>9. Cuts(f, <<>>)
  <2>1. f # <<>> /\ read' = f[Len(f)]
    BY <1>2, <1>3, <1>4
  <2>2. QED
    BY <1>4, <1>7, <1>8, <2>1 DEF Cuts
<1>10. RowInv'
  BY <1>9, CutsKeep
<1>11. BoxShape'
  BY <1>2, <1>3, <1>4 DEF BoxShape
<1>12. read < read'
  <2>1. PICK u, v : u = Unread /\ v = Unread'
    OBVIOUS
  <2>2. u = f \o v /\ v \in Seq(Nat)
    BY <1>7, <2>1
  <2>3. u[n] = f[n] /\ n \in 1..Len(u)
    BY <1>3, <1>4, <2>2, ConcatMeans
  <2>4. \A i \in 1..Len(u) : read < u[i]
    BY <2>1 DEF RowInv, Row
  <2>5. QED
    BY <1>2, <1>4, <2>3, <2>4
<1>13. QED
  BY <1>1, <1>2, <1>10, <1>11, <1>12

\* A line is read: the row is the same.
LEMMA ReadKeepsRow ==
    ASSUME BoxShape, CallShape, ReadLine
    PROVE  BoxShape' /\ Unread' = Unread
<1>1. PICK p, q, l, line, rest, r, s :
        /\ p = inbox /\ q = notifications /\ l = toClient
        /\ line = Head(l) /\ rest = Tail(l)
        /\ r = Notes(<<line>>) /\ s = Notes(rest)
  OBVIOUS
<1>2. /\ p \in Seq(Nat) /\ q \in Seq(Nat) /\ l \in Seq(Line) /\ l # <<>>
      /\ toClient' = rest /\ inbox' = p /\ reader = "reading" /\ reader' = reader
  BY <1>1 DEF BoxShape, CallShape, ReadLine, box
<1>3. line \in Line /\ rest \in Seq(Line) /\ <<line>> \in Seq(Line)
  BY <1>1, <1>2
<1>4. r \in Seq(Nat) /\ s \in Seq(Nat) /\ Notes(l) = r \o s
  BY <1>1, <1>2, <1>3, NotesMeans, NotesOneLine
<1>5. notifications' = q \o r /\ notifications' \in Seq(Nat)
  <2>1. CASE line \in News
    <3>1. line[1] = "note" /\ line[2] \in Nat
      BY <2>1, LineShapes DEF News
    <3>2. notifications' = Append(q, line[2])
      BY <1>1, <3>1 DEF ReadLine
    <3>3. r = <<line[2]>>
      BY <1>1, <1>3, <2>1, NotesOneLine
    <3>4. PICK n : n = line[2]
      OBVIOUS
    <3>5. Append(q, n) = q \o <<n>> /\ Append(q, n) \in Seq(Nat)
      BY <1>2, <3>1, <3>4, OneNumber
    <3>6. QED
      BY <3>2, <3>3, <3>4, <3>5
  <2>2. CASE line \notin News
    <3>1. line[1] # "note"
      BY <1>3, <2>2 DEF News
    <3>2. notifications' = q
      BY <1>1, <3>1 DEF ReadLine
    <3>3. r = <<>>
      BY <1>1, <1>3, <2>2, NotesOneLine
    <3>4. QED
      BY <1>2, <3>2, <3>3
  <2>3. QED
    BY <2>1, <2>2
<1>6. (p \o (q \o r)) \o s = (p \o q) \o (r \o s)
  <2>1. p \o q \in Seq(Nat)
    BY <1>2
  <2>2. p \o (q \o r) = (p \o q) \o r
    BY <1>2, <1>4, Assoc
  <2>3. PICK w : w = p \o q
    OBVIOUS
  <2>4. (w \o r) \o s = w \o (r \o s)
    BY <1>4, <2>1, <2>3, Assoc
  <2>5. QED
    BY <2>2, <2>3, <2>4
<1>7. Heard = r \o s /\ Heard' = s
  BY <1>1, <1>2, <1>4 DEF Heard
<1>8. QED
  BY <1>1, <1>2, <1>5, <1>6, <1>7 DEF Unread, BoxShape

\* Something is cut off the end.
LEMMA EndCuts ==
    ASSUME BoxShape, BoxShape', RowInv,
           NEW u \in Seq(Nat), NEW back \in Seq(Nat), Unread' = u, Unread = u \o back,
           read' = read, sent' = sent,
           ~(daemon' = "up" /\ reader' = "reading")
    PROVE  RowInv'
<1>1. <<>> \o (u \o back) = u \o back
  OBVIOUS
<1>2. Cuts(<<>>, back)
  BY <1>1 DEF Cuts
<1>3. QED
  BY <1>2, CutsKeep

\* The read loop ends: what is still on its way will not be read.
LEMMA ReaderEnds ==
    ASSUME BoxShape, CallShape, RowInv, reader' = "ended",
           UNCHANGED <<inbox, notifications, read, sent>>
    PROVE  BoxShape' /\ RowInv'
<1>1. PICK p, r : p = inbox \o notifications /\ r = Heard
  OBVIOUS
<1>2. p \in Seq(Nat) /\ r \in Seq(Nat) /\ <<>> \in Seq(Nat)
  BY <1>1, UnreadShape DEF CallShape
<1>3. Heard' = <<>> /\ inbox' \o notifications' = p
  BY <1>1 DEF Heard
<1>4. p \o <<>> = p
  BY <1>2
<1>5. Unread' = p /\ Unread = p \o r
  BY <1>1, <1>3, <1>4 DEF Unread
<1>6. BoxShape'
  BY DEF BoxShape
<1>7. QED
  BY <1>2, <1>5, <1>6, EndCuts

\* What the daemon wrote last is lost.
LEMMA DaemonGoesCuts ==
    ASSUME BoxShape, CallShape, RowInv, DaemonGoes
    PROVE  BoxShape' /\ RowInv'
<1>1. PICK n \in 0..Len(toClient) : toClient' = SubSeq(toClient, 1, n)
  BY DEF DaemonGoes
<1>2. PICK l, a, b : l = toClient /\ a = SubSeq(l, 1, n) /\ b = SubSeq(l, n + 1, Len(l))
  OBVIOUS
<1>3. /\ UNCHANGED <<inbox, notifications, read, sent, reader>> /\ daemon' = "gone"
      /\ toClient' = a
  BY <1>1, <1>2 DEF DaemonGoes, client, box
<1>4. l \in Seq(Line) /\ n \in 0..Len(l) /\ Len(l) \in Nat
  BY <1>1, <1>2 DEF CallShape
<1>5. a \in Seq(Line) /\ b \in Seq(Line) /\ l = a \o b
  <2>1. n + 1 \in 1..(Len(l) + 1) /\ (n + 1) - 1 = n
    BY <1>4
  <2>2. /\ SubSeq(l, 1, n) \in Seq(Line) /\ SubSeq(l, n + 1, Len(l)) \in Seq(Line)
        /\ l = SubSeq(l, 1, n) \o SubSeq(l, n + 1, Len(l))
    BY <1>4, <2>1, SplitAt
  <2>3. QED
    BY <1>2, <2>2
<1>6. BoxShape'
  BY <1>3 DEF BoxShape
<1>7. CASE reader # "reading"
  <2>1. Unread' = Unread
    BY <1>3, <1>7 DEF Unread, Heard
  <2>2. QED
    BY <1>3, <1>6, <2>1, RowKept
<1>8. CASE reader = "reading"
  <2>1. PICK p, r, s : p = inbox \o notifications /\ r = Notes(a) /\ s = Notes(b)
    OBVIOUS
  <2>2. p \in Seq(Nat) /\ r \in Seq(Nat) /\ s \in Seq(Nat) /\ Notes(l) = r \o s
    BY <1>4, <1>5, <2>1, UnreadShape, NotesMeans, NotesConcat DEF CallShape
  <2>3. Unread' = p \o r /\ Unread = p \o (r \o s)
    BY <1>2, <1>3, <1>8, <2>1, <2>2 DEF Unread, Heard
  <2>4. p \o r \in Seq(Nat) /\ p \o (r \o s) = (p \o r) \o s
    <3>1. p \o r \in Seq(Nat)
      BY <2>2
    <3>2. (p \o r) \o s = p \o (r \o s)
      BY <2>2, Assoc
    <3>3. QED
      BY <3>1, <3>2
  <2>5. QED
    BY <1>3, <1>6, <2>2, <2>3, <2>4, EndCuts
<1>9. QED
  BY <1>7, <1>8

\* A notification goes from the client's queue into the inbox, whose oldest may
\* fall off: that is cut off the front.
LEMMA ForwardCuts ==
    ASSUME BoxShape, CallShape, RowInv, Forward
    PROVE  BoxShape' /\ RowInv'
<1>1. PICK p, q, x, rest, long :
        /\ p = inbox /\ q = notifications /\ x = Head(q) /\ rest = Tail(q)
        /\ long = Append(p, x)
  OBVIOUS
<1>2. /\ p \in Seq(Nat) /\ q \in Seq(Nat) /\ q # <<>>
      /\ notifications' = rest /\ inbox' = AppendBounded(p, x, InboxMaxlen)
      /\ UNCHANGED <<read, sent, reader, daemon, toClient>>
  BY <1>1 DEF BoxShape, Forward, peerd, socket
<1>3. /\ x \in Nat /\ rest \in Seq(Nat) /\ <<x>> \in Seq(Nat) /\ q = <<x>> \o rest
      /\ long \in Seq(Nat) /\ long # <<>> /\ long = p \o <<x>>
  BY <1>1, <1>2, OneNumber
<1>4. p \o q = long \o rest
  <2>1. PICK e : e = <<x>>
    OBVIOUS
  <2>2. p \in Seq(Nat) /\ e \in Seq(Nat) /\ rest \in Seq(Nat)
    BY <1>2, <1>3, <2>1
  <2>3. (p \o e) \o rest = p \o (e \o rest)
    BY ONLY <2>2, Assoc
  <2>4. QED
    BY <1>3, <2>1, <2>3
<1>5. PICK r : r = Heard
  OBVIOUS
<1>6. r \in Seq(Nat) /\ Heard' = r
  BY <1>2, <1>5, UnreadShape DEF CallShape, Heard
<1>7. CASE inbox' = long
  <2>1. BoxShape'
    BY <1>2, <1>3, <1>7 DEF BoxShape
  <2>2. Unread' = Unread
    BY <1>1, <1>2, <1>4, <1>5, <1>6, <1>7 DEF Unread
  <2>3. QED
    BY <1>2, <2>1, <2>2, RowKept
<1>8. CASE inbox' = Tail(long)
  <2>1. PICK e, t : e = <<Head(long)>> /\ t = Tail(long)
    OBVIOUS
  <2>2. e \in Seq(Nat) /\ t \in Seq(Nat) /\ long = e \o t
    BY <1>3, <2>1
  <2>3. BoxShape'
    BY <1>2, <1>3, <1>8, <2>1, <2>2 DEF BoxShape
  <2>4. PICK w : w = t \o rest
    OBVIOUS
  <2>5. w \in Seq(Nat) /\ w \o r \in Seq(Nat)
    BY <1>3, <1>6, <2>2, <2>4
  <2>6. (e \o t) \o rest = e \o w
    BY <1>3, <2>2, <2>4, Assoc
  <2>7. (e \o w) \o r = e \o (w \o r)
    BY <1>6, <2>2, <2>5, Assoc
  <2>8. Unread' = w \o r
    BY <1>2, <1>6, <1>8, <2>1, <2>4 DEF Unread
  <2>9. Unread = e \o (w \o r)
    BY <1>1, <1>4, <1>5, <2>2, <2>6, <2>7 DEF Unread
  <2>10. Unread' \o <<>> = Unread' /\ <<>> \in Seq(Nat)
    BY <2>5, <2>8
  <2>11. Cuts(e, <<>>)
    BY <1>2, <2>2, <2>5, <2>8, <2>9, <2>10 DEF Cuts
  <2>12. QED
    BY <2>3, <2>11, CutsKeep
<1>9. QED
  BY <1>2, <1>1, <1>7, <1>8 DEF AppendBounded

\* The daemon writes a line: a notification ends the row, an answer is none.
LEMMA DaemonWrites ==
    ASSUME BoxShape, CallShape, RowInv, NEW line \in Line,
           toClient' = Append(toClient, line), daemon = "up",
           UNCHANGED <<inbox, notifications, read, reader, daemon>>,
           \/ line \notin News /\ sent' = sent
           \/ line = <<"note", sent + 1>> /\ sent' = sent + 1
    PROVE  BoxShape' /\ RowInv'
<1>1. BoxShape'
  BY DEF BoxShape
<1>2. PICK l, p, r, e : /\ l = toClient /\ p = inbox \o notifications
                        /\ r = Notes(l) /\ e = Notes(<<line>>)
  OBVIOUS
<1>3. l \in Seq(Line) /\ p \in Seq(Nat) /\ r \in Seq(Nat)
  BY <1>2, UnreadShape, NotesMeans DEF CallShape
<1>4. Notes(toClient') = r \o e
  BY <1>2, <1>3, NotesOneLine
<1>5. CASE line \notin News /\ sent' = sent
  <2>1. e = <<>>
    BY <1>2, <1>3, <1>5, NotesOneLine
  <2>2. r \o <<>> = r
    BY <1>3
  <2>3. Unread' = Unread
    BY <1>2, <1>4, <2>1, <2>2 DEF Unread, Heard
  <2>4. QED
    BY <1>1, <1>5, <2>3, RowKept
<1>6. CASE line = <<"note", sent + 1>> /\ sent' = sent + 1
  <2>1. PICK n : n = sent + 1
    OBVIOUS
  <2>2. n \in Nat /\ line \in News /\ line[2] = n
    BY <1>6, <2>1, LineShapes DEF CallShape
  <2>3. e = <<n>>
    BY <1>2, <1>3, <2>2, NotesOneLine
  <2>4. CASE reader = "reading"
    <3>1. e \in Seq(Nat) /\ (p \o r) \o e = p \o (r \o e)
      BY <1>3, <2>2, <2>3, Assoc
    <3>2. PICK u : u = p \o r
      OBVIOUS
    <3>3. u \in Seq(Nat) /\ u \o <<n>> = Append(u, n)
      BY <1>3, <2>2, <3>2
    <3>4. Unread = u /\ Unread' = Append(u, n)
      BY <1>2, <1>4, <2>3, <2>4, <3>1, <3>2, <3>3 DEF Unread, Heard
    <3>5. QED
      BY <1>1, <1>6, <2>1, <2>4, <3>4, GrowsKeep
  <2>5. CASE reader # "reading"
    <3>1. Unread' = Unread
      BY <2>5 DEF Unread, Heard
    <3>2. QED
      BY <1>1, <1>6, <2>5, <3>1, GrowsKeep
  <2>6. QED
    BY <2>4, <2>5
<1>7. QED
  BY <1>5, <1>6

\* The host closes stdin: nothing is left of the row.
LEMMA ClosesCuts ==
    ASSUME BoxShape, CallShape, RowInv, StdinCloses
    PROVE  BoxShape' /\ RowInv'
<1>1. /\ inbox' = <<>> /\ notifications' = <<>> /\ reader' = "ended"
      /\ read' = read /\ sent' = sent
  BY DEF StdinCloses, peerd
<1>2. BoxShape'
  BY <1>1 DEF BoxShape
<1>3. PICK e : e = <<>>
  OBVIOUS
<1>4. e \in Seq(Nat) /\ e \o e = e
  BY <1>3
<1>5. Unread' = e
  BY <1>1, <1>3, <1>4 DEF Unread, Heard
<1>6. Unread \in Seq(Nat) /\ e \o Unread = Unread
  BY <1>3, UnreadShape DEF CallShape
<1>7. QED
  BY <1>1, <1>2, <1>4, <1>5, <1>6, EndCuts

\* Every step keeps the row of the unread and what awaits got out of it.
LEMMA OrderStep == CallInv /\ OrderInv /\ [Next]_vars => OrderInv'
<1> SUFFICES ASSUME CallInv, OrderInv, [Next]_vars PROVE OrderInv'
  OBVIOUS
<1>0. /\ BoxShape /\ RowInv /\ NotedInv /\ CallShape
      /\ read \in Nat /\ answer = [c \in Caller |-> answer[c]] /\ toClient \in Seq(Line)
  BY DEF OrderInv, CallInv, RowInv, CallShape
<1>1. ASSUME UNCHANGED <<inbox, notifications, toClient, read, sent, daemon>>,
             reader' = reader \/ reader' = "ended",
             \A c \in Caller : answer'[c] = answer[c] \/ ~Noted(c)'
      PROVE  OrderInv'
  <2>1. NotedInv'
    BY <1>0, <1>1, NotedKept
  <2>2. CASE reader' = reader
    <3>1. BoxShape' /\ Unread' = Unread
      BY <1>0, <1>1, <2>2 DEF BoxShape, Unread, Heard
    <3>2. RowInv'
      BY <1>0, <1>1, <2>2, <3>1, RowKept
    <3>3. QED
      BY <2>1, <3>1, <3>2 DEF OrderInv
  <2>3. CASE reader' = "ended"
    <3>1. BoxShape' /\ RowInv'
      BY <1>0, <1>1, <2>3, ReaderEnds
    <3>2. QED
      BY <2>1, <3>1 DEF OrderInv
  <2>4. QED
    BY <1>1, <2>2, <2>3
<1>2. ASSUME NEW r, NEW a, Finish(r, a), a = <<"raised">> \/ a = <<"timeout">>
      PROVE  \A c \in Caller : answer'[c] = answer[c] \/ ~Noted(c)'
  <2>1. answer' = [answer EXCEPT ![r] = a]
    BY <1>2 DEF Finish
  <2>2. \A c \in Caller : answer'[c] = answer[c] \/ answer'[c] = a
    BY <1>0, <2>1
  <2>3. a[1] # "note"
    BY <1>2
  <2>4. QED
    BY <2>2, <2>3 DEF Noted
<1>3. ASSUME NEW r, inbox # <<>>,
             Finish(r, <<"note", Head(inbox)>>), Take(1),
             UNCHANGED <<notifications, toClient, reader, daemon, sent>>
      PROVE  OrderInv'
  <2>1. 1 \in 1..Len(inbox) /\ Head(inbox) = inbox[1] /\ inbox \in Seq(Nat)
    BY <1>0, <1>3 DEF BoxShape
  <2>2. BoxShape' /\ RowInv' /\ read' = inbox[1] /\ read < read'
    BY <1>0, <1>3, <2>1, TakeCuts
  <2>3. answer' = [answer EXCEPT ![r] = <<"note", read'>>]
    BY <1>3, <2>1, <2>2 DEF Finish
  <2>4. read' \in Nat
    BY <2>2 DEF RowInv
  <2>5. NotedInv'
    <3>1. CASE r \in Caller
      BY <1>0, <2>2, <2>3, <2>4, <3>1, NotedTaken
    <3>2. CASE r \notin Caller
      <4>1. \A c \in Caller : answer'[c] = answer[c]
        BY <1>0, <2>3, <3>2
      <4>2. QED
        BY <1>0, <2>2, <2>4, <4>1, NotedKept
    <3>3. QED
      BY <3>1, <3>2
  <2>6. QED
    BY <2>2, <2>5 DEF OrderInv
<1>4. ASSUME NEW r \in Req, NEW what, PeerAwait(r, what) PROVE OrderInv'
  <2>1. UNCHANGED <<notifications, toClient, reader, daemon, sent>>
    BY <1>4 DEF PeerAwait, client, peerd, socket
  <2>2. CASE inbox # <<>>
    BY <1>3, <1>4, <2>1, <2>2 DEF PeerAwait
  <2>3. CASE inbox = <<>>
    BY <1>1, <1>4, <2>1, <2>3 DEF PeerAwait
  <2>4. QED
    BY <2>2, <2>3
<1>5. ASSUME NEW c, NEW what, Call(c, what),
             UNCHANGED <<inbox, notifications, toClient, read, sent, daemon>>
      PROVE  OrderInv'
  <2>1. reader' = reader \/ reader' = "ended"
    BY <1>5 DEF Call
  <2>2. \A d \in Caller : answer'[d] = answer[d] \/ ~Noted(d)'
    BY <1>2, <1>5 DEF Call
  <2>3. QED
    BY <1>1, <1>5, <2>1, <2>2
<1>6. ASSUME NEW r \in Req, NEW what, ToolCall(r, what) PROVE OrderInv'
  BY <1>5, <1>6 DEF ToolCall, box, peerd
<1>7. ASSUME NEW limit \in Limits, PeerInbox(limit) PROVE OrderInv'
  <2>1. PICK n : n = IF Len(inbox) < limit THEN Len(inbox) ELSE limit
    OBVIOUS
  <2>2. n \in 1..Len(inbox)
    <3>1. Len(inbox) \in Nat \ {0} /\ limit \in Nat \ {0}
      BY <1>0, <1>7, InboxAssumption DEF PeerInbox, BoxShape
    <3>2. QED
      BY <2>1, <3>1
  <2>3. Take(n) /\ UNCHANGED <<notifications, toClient, reader, daemon, sent, answer>>
    BY <1>7, <2>1 DEF PeerInbox, tasks, client, peerd, socket
  <2>4. BoxShape' /\ RowInv' /\ read' = inbox[n] /\ read < read'
    BY <1>0, <2>2, <2>3, TakeCuts
  <2>5. read' \in Nat
    BY <2>4 DEF RowInv
  <2>6. NotedInv'
    BY <1>0, <2>3, <2>4, <2>5, NotedKept
  <2>7. QED
    BY <2>4, <2>6 DEF OrderInv
<1>8. ASSUME BoxShape', RowInv', read' = read,
             \A c \in Caller : answer'[c] = answer[c] \/ ~Noted(c)'
      PROVE  OrderInv'
  BY <1>0, <1>8, NotedKept DEF OrderInv
<1>9. CASE StdinCloses
  <2>1. \A c \in Caller : answer'[c] = answer[c] \/ answer'[c] = <<"raised">>
    BY <1>9 DEF StdinCloses
  <2>2. \A c \in Caller : answer'[c] = answer[c] \/ ~Noted(c)'
    BY <2>1 DEF Noted
  <2>3. read' = read
    BY <1>9 DEF StdinCloses
  <2>4. QED
    BY <1>0, <1>8, <1>9, <2>2, <2>3, ClosesCuts
<1>10. CASE ReadLine
  <2>1. PICK line : line = Head(toClient)
    OBVIOUS
  <2>2. line \in Line
    BY <1>0, <1>10, <2>1 DEF ReadLine
  <2>3. \A c \in Caller : answer'[c] = answer[c] \/ ~Noted(c)'
    <3>1. CASE line[1] = "note"
      BY <1>10, <2>1, <3>1 DEF ReadLine
    <3>2. CASE line[1] # "note"
      <4>1. PICK o \in Outcome : line[3] = o
        BY <2>2, <3>2 DEF Line
      <4>2. \A c \in Caller : answer'[c] = answer[c] \/ answer'[c] = <<o, line[4]>>
        BY <1>10, <2>1, <3>2, <4>1 DEF ReadLine
      <4>3. o # "note"
        BY DEF Outcome
      <4>4. QED
        BY <4>2, <4>3 DEF Noted
    <3>3. QED
      BY <3>1, <3>2
  <2>4. UNCHANGED <<read, sent, reader, daemon>>
    BY <1>10 DEF ReadLine, box, peerd
  <2>5. BoxShape' /\ Unread' = Unread
    BY <1>0, <1>10, ReadKeepsRow
  <2>6. RowInv'
    BY <1>0, <2>4, <2>5, RowKept
  <2>7. QED
    BY <1>8, <2>3, <2>4, <2>5, <2>6
<1>11. CASE Forward
  BY <1>0, <1>8, <1>11, ForwardCuts DEF Forward
<1>12. CASE Resume
  <2>1. UNCHANGED <<notifications, toClient, sent, daemon>>
    BY <1>12 DEF Resume, peerd
  <2>2. CASE RunResumes
    <3>1. UNCHANGED <<inbox, read>>
      BY <2>2 DEF RunResumes, box
    <3>2. CASE Call(Run, SetAliasTo(InitialAlias))
      BY <1>5, <2>1, <3>1, <3>2
    <3>3. CASE UNCHANGED <<answer, reader>>
      BY <1>1, <2>1, <3>1, <3>3
    <3>4. QED
      BY <2>2, <3>2, <3>3 DEF RunResumes
  <2>3. ASSUME NEW r, AwaitResumes(r) PROVE OrderInv'
    <3>1. reader' = reader
      BY <2>3 DEF AwaitResumes
    <3>2. CASE inbox # <<>>
      BY <1>3, <2>1, <2>3, <3>1, <3>2 DEF AwaitResumes
    <3>3. CASE inbox = <<>>
      BY <1>1, <1>2, <2>1, <2>3, <3>1, <3>3 DEF AwaitResumes
    <3>4. QED
      BY <3>2, <3>3
  <2>4. ASSUME NEW r, CallResumes(r) PROVE OrderInv'
    BY <1>1, <2>1, <2>4 DEF CallResumes, box
  <2>5. QED
    BY <1>12, <2>2, <2>3, <2>4 DEF Resume
<1>13. ASSUME NEW r, TimesOut(r) PROVE OrderInv'
  BY <1>1, <1>2, <1>13 DEF TimesOut, client, peerd, socket
<1>14. CASE DaemonAnswers
  <2>1. fromClient # <<>> /\ fromClient \in Seq(Sent)
    BY <1>14 DEF DaemonAnswers, CallInv, CallShape
  <2>2. PICK call : call = Head(fromClient)
    OBVIOUS
  <2>3. UNCHANGED <<inbox, notifications, read, reader, daemon, sent, answer>>
    BY <1>14 DEF DaemonAnswers, tasks, client, box
  <2>4. CASE daemon = "mute"
    <3>1. UNCHANGED toClient
      BY <1>14, <2>4 DEF DaemonAnswers
    <3>2. QED
      BY <1>1, <2>3, <3>1
  <2>5. CASE daemon # "mute"
    <3>1. PICK o \in Outcome :
            toClient' = Append(toClient, <<"answer", call[1], o, call[3]>>)
      BY <1>14, <2>2, <2>5 DEF DaemonAnswers, Outcome
    <3>2. <<"answer", call[1], o, call[3]>> \in Line \ News
      <4>1. call[1] \in Nat /\ call[3] \in Caller
        BY <2>1, <2>2 DEF Sent
      <4>2. QED
        BY <4>1, LineShapes
    <3>3. daemon = "up"
      BY <1>14, <2>5 DEF DaemonAnswers, Listening
    <3>4. BoxShape' /\ RowInv'
      BY <1>0, <2>3, <3>1, <3>2, <3>3, DaemonWrites
    <3>5. QED
      BY <1>8, <2>3, <3>4
  <2>6. QED
    BY <2>4, <2>5
<1>15. CASE DaemonNotifies
  <2>1. /\ UNCHANGED <<inbox, notifications, read, reader, daemon, answer>>
        /\ toClient' = Append(toClient, <<"note", sent + 1>>)
        /\ daemon = "up" /\ sent' = sent + 1 /\ sent \in Nat
    BY <1>15 DEF DaemonNotifies, tasks, client, box, CallInv, CallShape
  <2>2. <<"note", sent + 1>> \in Line
    BY <2>1, LineShapes
  <2>3. BoxShape' /\ RowInv'
    BY <1>0, <2>1, <2>2, DaemonWrites
  <2>4. QED
    BY <1>8, <2>1, <2>3
<1>16. CASE DaemonGoes
  BY <1>0, <1>8, <1>16, DaemonGoesCuts DEF DaemonGoes, tasks, box
<1>17. CASE ReadEnds \/ ReadOverruns \/ UNCHANGED vars
  BY <1>1, <1>17 DEF ReadEnds, ReadOverruns, vars, tasks, client, box, peerd, socket
<1>18. CASE DaemonMutes
  <2>1. /\ UNCHANGED <<inbox, notifications, toClient, read, reader, sent, answer>>
        /\ daemon' # "up"
    BY <1>18 DEF DaemonMutes, tasks, client, box, socket
  <2>2. BoxShape' /\ Unread' = Unread
    BY <1>0, <2>1 DEF BoxShape, Unread, Heard
  <2>3. RowInv'
    BY <1>0, <2>1, <2>2, RowKept
  <2>4. QED
    BY <1>8, <2>1, <2>2, <2>3
<1>19. QED
  BY <1>4, <1>6, <1>7, <1>9, <1>10, <1>11, <1>12, <1>13, <1>14, <1>15, <1>16, <1>17, <1>18
     DEF Next, Host

\* The sidecar starts with nothing to read.
LEMMA OrderInit == Init => OrderInv
<1> SUFFICES ASSUME Init PROVE OrderInv
  OBVIOUS
<1>1. /\ inbox = <<>> /\ notifications = <<>> /\ toClient = <<>>
      /\ reader = "reading" /\ read = 0 /\ sent = 0
      /\ answer = [c \in Caller |-> None]
  BY DEF Init
<1>2. PICK e : e = <<>>
  OBVIOUS
<1>3. e \in Seq(Nat) /\ e \in Seq(Line) /\ e \o e = e /\ Len(e) = 0
  BY <1>2
<1>4. Notes(e) = e
  <2>1. PICK s, n : s = Select(e, News) /\ n = Notes(e)
    OBVIOUS
  <2>2. s = <<>>
    BY <1>2, <2>1, SelectAppend
  <2>3. n \in Seq(Nat) /\ Len(n) = Len(s)
    BY <1>3, <2>1, NotesMeans
  <2>4. QED
    BY <1>2, <2>1, <2>2, <2>3
<1>5. Unread = e
  BY <1>1, <1>2, <1>3, <1>4 DEF Unread, Heard
<1>6. RowInv
  BY <1>1, <1>2, <1>3, <1>5 DEF RowInv, Row
<1>7. NotedInv
  BY <1>1 DEF NotedInv, Noted
<1>8. BoxShape
  BY <1>1, <1>2, <1>3 DEF BoxShape
<1>9. QED
  BY <1>6, <1>7, <1>8 DEF OrderInv

\* What the agent has yet to read is in order and without a gap from the inbox to
\* the socket, and each notification is read once, whatever limits, time-outs and
\* awaits there are, and whenever the daemon goes.
THEOREM NotesComeInOrder == Spec => []NotesInOrder
<1>1. OrderInv => NotesInOrder
  <2> SUFFICES ASSUME OrderInv PROVE NotesInOrder
    OBVIOUS
  <2>1. PICK u : u = Unread
    OBVIOUS
  <2>2. /\ u \in Seq(Nat) /\ Len(u) \in Nat /\ DOMAIN u = 1..Len(u)
        /\ \A i, j \in 1..Len(u) : u[j] = u[i] + (j - i)
        /\ \A i \in 1..Len(u) : read < u[i] /\ u[i] \in Nat
    BY <2>1 DEF OrderInv, RowInv, Row
  <2>3. \A i \in 2..Len(u) : u[i] = u[i - 1] + 1
    <3> SUFFICES ASSUME NEW i \in 2..Len(u) PROVE u[i] = u[i - 1] + 1
      OBVIOUS
    <3>1. i \in 1..Len(u) /\ i - 1 \in 1..Len(u) /\ i - (i - 1) = 1
      BY <2>2
    <3>2. u[i] = u[i - 1] + (i - (i - 1))
      BY <2>2, <3>1
    <3>3. QED
      BY <3>1, <3>2
  <2>4. daemon = "up" /\ reader = "reading" /\ u # <<>> => u[Len(u)] = sent
    BY <2>1 DEF OrderInv, RowInv
  <2>5. \A n \in Ids(u) : read < n
    BY <2>2 DEF Ids
  <2>6. \A c, d \in Caller : c # d /\ answer[c] = answer[d] /\ answer[c] # None
                              => answer[c][1] # "note"
    BY DEF OrderInv, NotedInv, Noted
  <2>7. QED
    BY <2>1, <2>3, <2>4, <2>5, <2>6 DEF NotesInOrder, Unread, Heard
<1>2. QED
  BY <1>1, OrderInit, CallInit, CallInvStep, OrderStep, PTL DEF Spec

\* The inbox keeps its bound, and loses nothing unread but the oldest of a full one.
LEMMA InboxStep ==
    ASSUME CallInv, OrderInv, Len(inbox) <= InboxMaxlen, [Next]_vars
    PROVE  /\ Len(inbox') <= InboxMaxlen
           /\ \A n \in Ids(inbox) \ Ids(inbox') :
                \/ n <= read' \/ phase' = "ended"
                \/ n = Head(inbox) /\ Len(inbox) = InboxMaxlen
                   /\ Len(inbox') = InboxMaxlen
<1> DEFINE Lost == \A n \in Ids(inbox) \ Ids(inbox') :
                     \/ n <= read' \/ phase' = "ended"
                     \/ n = Head(inbox) /\ Len(inbox) = InboxMaxlen
                        /\ Len(inbox') = InboxMaxlen
           Kept == Len(inbox') <= InboxMaxlen /\ Lost
<1> SUFFICES Kept
  OBVIOUS
<1>0. /\ inbox \in Seq(Nat) /\ notifications \in Seq(Nat) /\ Len(inbox) \in Nat
      /\ DOMAIN inbox = 1..Len(inbox) /\ InboxMaxlen \in Nat \ {0}
  BY InboxAssumption DEF OrderInv, BoxShape
<1>1. ASSUME inbox' = inbox PROVE Kept
  BY <1>1
<1>2. \A i, j \in 1..Len(inbox) : inbox[j] = inbox[i] + (j - i)
  <2>1. PICK p, q, u, l, m : /\ p = inbox /\ q = notifications \o Heard /\ u = Unread
                             /\ l = Len(p) /\ m = Len(q)
    OBVIOUS
  <2>2. q \in Seq(Nat) /\ Heard \in Seq(Nat)
    BY <1>0, <2>1, UnreadShape DEF OrderInv, CallInv, CallShape
  <2>3. u = p \o q
    <3>1. PICK r, s : r = notifications /\ s = Heard
      OBVIOUS
    <3>2. p \in Seq(Nat) /\ r \in Seq(Nat) /\ s \in Seq(Nat)
      BY <1>0, <2>1, <2>2, <3>1
    <3>3. (p \o r) \o s = p \o (r \o s)
      BY ONLY <3>2, Assoc
    <3>4. QED
      BY <2>1, <3>1, <3>3 DEF Unread
  <2>4. /\ p \in Seq(Nat) /\ q \in Seq(Nat) /\ u = p \o q /\ l = Len(p) /\ m = Len(q)
    BY <1>0, <2>1, <2>2, <2>3
  <2>5. /\ l \in Nat /\ m \in Nat /\ Len(u) = l + m /\ \A i \in 1..l : u[i] = p[i]
    BY ONLY <2>4, ConcatMeans
  <2>6. \A i, j \in 1..(l + m) : u[j] = u[i] + (j - i)
    BY <2>1, <2>5 DEF OrderInv, RowInv, Row
  <2>7. \A i \in 1..l : i \in 1..(l + m)
    BY <2>5
  <2>8. QED
    BY <2>1, <2>5, <2>6, <2>7
<1>3. ASSUME NEW n \in 1..Len(inbox), Take(n) PROVE Kept
  <2>1. PICK p, r, k : p = inbox /\ r = inbox' /\ k = Len(p)
    OBVIOUS
  <2>2. r = SubSeq(p, n + 1, k) /\ read' = p[n]
    BY <1>3, <2>1 DEF Take
  <2>3. /\ Len(r) = k - n /\ DOMAIN r = 1..(k - n)
        /\ \A i \in 1..(k - n) : r[i] = p[n + i]
    <3>1. p \in Seq(Nat) /\ k = Len(p) /\ n \in 1..k /\ r = SubSeq(p, n + 1, k)
      BY <1>0, <2>1, <2>2
    <3>2. k - n \in Nat /\ Len(r) = k - n /\ r \in Seq(Nat)
      BY ONLY <3>1
    <3>3. ASSUME NEW i \in 1..(k - n) PROVE r[i] = p[n + i]
      BY ONLY <3>1, <3>3
    <3>4. QED
      BY <3>2, <3>3
  <2>4. ASSUME NEW x \in Ids(p) \ Ids(r) PROVE x <= read'
    <3>1. PICK i \in 1..k : p[i] = x
      BY <1>0, <2>1 DEF Ids
    <3>2. CASE i > n
      <4>1. i - n \in 1..(k - n) /\ n + (i - n) = i
        BY <1>0, <1>3, <2>1, <3>2
      <4>2. r[i - n] = x
        BY <2>3, <3>1, <4>1
      <4>3. x \in Ids(r)
        BY <2>3, <4>1, <4>2 DEF Ids
      <4>4. QED
        BY <4>3
    <3>3. CASE i <= n
      <4>1. p[n] = p[i] + (n - i) /\ p[i] \in Nat
        BY <1>0, <1>2, <1>3, <2>1, <3>1
      <4>2. QED
        BY <1>3, <2>2, <3>1, <3>3, <4>1
    <3>4. QED
      BY <1>3, <3>2, <3>3
  <2>5. Len(r) <= k
    BY <1>0, <2>1, <2>3
  <2>6. k <= InboxMaxlen
    BY <2>1
  <2>7. Len(r) \in Nat /\ k \in Nat
    BY <1>0, <2>1, <2>3
  <2>8. Len(inbox') <= InboxMaxlen
    BY <1>0, <2>1, <2>5, <2>6, <2>7
  <2>9. Lost
    BY <2>1, <2>4
  <2>10. QED
    BY <2>8, <2>9
<1>4. ASSUME NEW limit \in Limits, PeerInbox(limit) PROVE Kept
  <2>1. PICK n : n = IF Len(inbox) < limit THEN Len(inbox) ELSE limit
    OBVIOUS
  <2>2. n \in 1..Len(inbox)
    <3>1. Len(inbox) \in Nat \ {0} /\ limit \in Nat \ {0}
      BY <1>0, <1>4, InboxAssumption DEF PeerInbox
    <3>2. QED
      BY <2>1, <3>1
  <2>3. QED
    BY <1>3, <1>4, <2>1, <2>2 DEF PeerInbox
<1>5. ASSUME inbox # <<>>, Take(1) PROVE Kept
  <2>1. 1 \in 1..Len(inbox)
    BY <1>0, <1>5
  <2>2. QED
    BY <1>3, <1>5, <2>1
<1>6. ASSUME NEW r, NEW what, PeerAwait(r, what) PROVE Kept
  BY <1>1, <1>5, <1>6 DEF PeerAwait
<1>7. CASE StdinCloses
  <2>1. inbox' = <<>> /\ phase' = "ended"
    BY <1>7 DEF StdinCloses
  <2>2. QED
    BY <1>0, <2>1
<1>8. CASE Forward
  <2>1. PICK x : x = Head(notifications)
    OBVIOUS
  <2>2. x \in Nat /\ inbox' = AppendBounded(inbox, x, InboxMaxlen)
    BY <1>0, <1>8, <2>1 DEF Forward
  <2>3. Len(inbox') \in 1..InboxMaxlen
    <3>1. PICK r : r = AppendBounded(inbox, x, InboxMaxlen)
      OBVIOUS
    <3>2. Len(r) \in 1..InboxMaxlen
      BY <1>0, <2>2, <3>1, AppendBoundedPromise
    <3>3. QED
      BY <2>2, <3>1, <3>2
  <2>4. ASSUME NEW n \in Ids(inbox) \ Ids(inbox')
        PROVE  n = Head(inbox) /\ Len(inbox) = InboxMaxlen /\ Len(inbox') = InboxMaxlen
    <3>1. n = inbox[1] /\ Len(inbox') = InboxMaxlen
      BY <1>0, <2>2, <2>4, AppendBoundedLoses
    <3>2. inbox # <<>>
      BY <2>4 DEF Ids
    <3>3. Len(inbox) = InboxMaxlen
      <4>1. PICK long : long = Append(inbox, x)
        OBVIOUS
      <4>2. /\ long \in Seq(Nat) /\ Len(long) = Len(inbox) + 1
            /\ DOMAIN long = 1..Len(long) /\ \A i \in 1..Len(inbox) : long[i] = inbox[i]
        BY <1>0, <2>2, <4>1
      <4>3. CASE inbox' = long
        <5>1. PICK i \in 1..Len(inbox) : inbox[i] = n
          BY <1>0, <2>4 DEF Ids
        <5>2. i \in DOMAIN long /\ long[i] = n
          BY <1>0, <4>2, <5>1
        <5>3. n \in Ids(inbox')
          BY <4>3, <5>2 DEF Ids
        <5>4. QED
          BY <2>4, <5>3
      <4>4. CASE Len(long) > InboxMaxlen
        <5>1. PICK l \in Nat : l = Len(inbox)
          BY <1>0
        <5>2. InboxMaxlen \in Nat /\ l <= InboxMaxlen /\ l + 1 > InboxMaxlen
          BY <1>0, <4>2, <4>4, <5>1
        <5>3. l = InboxMaxlen
          BY ONLY <5>2
        <5>4. QED
          BY <5>1, <5>3
      <4>5. QED
        BY <2>2, <4>1, <4>3, <4>4 DEF AppendBounded
    <3>4. QED
      BY <1>0, <3>1, <3>2, <3>3
  <2>5. Len(inbox') <= InboxMaxlen
    BY <1>0, <2>3
  <2>6. QED
    BY <2>4, <2>5
<1>9. CASE Resume
  <2>1. CASE RunResumes
    BY <1>1, <2>1 DEF RunResumes, box
  <2>2. ASSUME NEW r, AwaitResumes(r) PROVE Kept
    BY <1>1, <1>5, <2>2 DEF AwaitResumes
  <2>3. ASSUME NEW r, CallResumes(r) PROVE Kept
    BY <1>1, <2>3 DEF CallResumes, box
  <2>4. QED
    BY <1>9, <2>1, <2>2, <2>3 DEF Resume
<1>10. CASE ReadLine \/ ReadEnds \/ ReadOverruns \/ DaemonAnswers \/ DaemonNotifies
            \/ DaemonMutes \/ DaemonGoes \/ UNCHANGED vars
  BY <1>1, <1>10 DEF ReadLine, ReadEnds, ReadOverruns, DaemonAnswers, DaemonNotifies,
                     DaemonMutes, DaemonGoes, vars, box
<1>11. ASSUME NEW r, TimesOut(r) \/ \E what : ToolCall(r, what) PROVE Kept
  BY <1>1, <1>11 DEF TimesOut, ToolCall, box
<1>12. QED
  BY <1>4, <1>6, <1>7, <1>8, <1>9, <1>10, <1>11 DEF Next, Host

\* A notification leaves the inbox unread only by the inbox overflowing, or with the
\* sidecar.
THEOREM OnlyOverflow == Spec => OnlyOverflowLoses
<1> DEFINE Bounded == Len(inbox) <= InboxMaxlen
<1>1. Init => CallInv /\ OrderInv /\ Bounded
  BY CallInit, OrderInit, InboxAssumption DEF Init
<1>2. CallInv /\ OrderInv /\ Bounded /\ [Next]_vars => (CallInv /\ OrderInv /\ Bounded)'
  BY CallInvStep, OrderStep, InboxStep
<1>3. CallInv /\ OrderInv /\ Bounded /\ [Next]_vars
        => [\A n \in Ids(inbox) \ Ids(inbox') :
              \/ n <= read' \/ phase' = "ended"
              \/ n = Head(inbox) /\ Len(inbox) = InboxMaxlen
                 /\ Len(inbox') = InboxMaxlen]_vars
  BY InboxStep
<1>4. QED
  BY <1>1, <1>2, <1>3, PTL DEF Spec, OnlyOverflowLoses

-------------------------------------------------------------------------------
(***************************************************************************)
(* The alias.  A claim the daemon carried out is on its way to the sidecar *)
(* as a line, then as a task that is ready; both queues keep the order in  *)
(* which the claims were carried out.  So the last one on the way, or if   *)
(* there is none what was mirrored last, is the alias the daemon holds.    *)
(***************************************************************************)
Live == daemon = "up" /\ phase # "ended"

Distinct(q) == \A i, j \in DOMAIN q : q[i] = q[j] => i = j

Claimers == {c \in Caller : \E al \in Alias \cup {None} : asked[c] = SetAliasTo(al)}

\* Each task is where its status says, once.
Queued ==
    /\ asked \in [Caller -> Calls \cup {None, Await, TimedAwait}]
    /\ asked[Run] \in Calls
    /\ \A c \in Caller : asked[c] = <<"hello">> => c = Run
    /\ phase = "hello" => asked[Run] = <<"hello">>
    /\ status = [c \in Caller |-> status[c]]
    /\ ready \in Seq(Caller) /\ Distinct(ready)
    /\ \A c \in Ids(ready) : status[c] = "ready"
    /\ waiters \in Seq(Caller) /\ Distinct(waiters)
    /\ \A c \in Ids(waiters) : status[c] = "waiting"
    /\ \A c \in Caller : status[c] = "waiting" => asked[c] \in {Await, TimedAwait}

\* A call on its way is the only one of its task, which waits for it.
Called ==
    /\ session \in Alias \cup {None, "none"}
    /\ \A i \in DOMAIN fromClient :
         LET e == fromClient[i]
         IN  /\ status[e[3]] = "calling" /\ asked[e[3]] = e[2]
             /\ <<e[1], e[3]>> \in pending
             /\ e[2] = <<"hello">> => session = "none"
    /\ \A i, j \in DOMAIN fromClient : fromClient[i][3] = fromClient[j][3] => i = j

\* So is an answer on its way.
Answered ==
    /\ \A i \in DOMAIN toClient : IsAnswer(toClient[i]) =>
         LET line == toClient[i]
         IN  /\ status[line[4]] = "calling"
             /\ <<line[2], line[4]>> \in pending
             /\ \A j \in DOMAIN fromClient : fromClient[j][3] # line[4]
    /\ \A i, j \in DOMAIN toClient :
         IsAnswer(toClient[i]) /\ IsAnswer(toClient[j])
         /\ toClient[i][4] = toClient[j][4] => i = j

FlightInv == Live => Queued /\ Called /\ Answered

\* What the daemon holds, as the sidecar mirrors it.
Held == IF session = "none" THEN None ELSE session

\* Claims that were carried out, on the wire and among the tasks.
OkLines == {line \in Ids(toClient) :
              IsAnswer(line) /\ line[3] = "ok" /\ line[4] \in Claimers}
OkTasks == {c \in Ids(ready) : c \in Claimers /\ answer[c][1] = "ok"}

\* Those for the alias the daemon holds.
Fits == {c \in Caller : asked[c] = SetAliasTo(Held)}
FitLines == {line \in Ids(toClient) : IsAnswer(line) /\ line[4] \in Fits}

\* A claim the daemon carried out and answered internal_error.
HalfLines == {line \in Ids(toClient) :
                IsAnswer(line) /\ line[3] = "internal" /\ line[4] \in Claimers}
HalfDone ==
    \/ HalfLines # {}
    \/ \E c \in Claimers : status[c] \in {"ready", "done"} /\ answer[c][1] = "internal"

Mirrors ==
    /\ LastIn(toClient, OkLines, FitLines)
    /\ OkLines = {} => LastIn(ready, OkTasks, Fits)
    /\ OkLines = {} /\ OkTasks = {} => current_alias = Held

MirrorInv == Live /\ ~HalfDone => Mirrors
\* What is left of a sequence without the first c, position by position.
LEMMA WithoutMeans ==
    ASSUME NEW S, NEW q \in Seq(S), NEW c, NEW r, r = Without(q, c)
    PROVE  /\ r \in Seq(S)
           /\ \/ r = q /\ c \notin Ids(q)
              \/ \E p \in 1..Len(q) :
                   /\ q[p] = c /\ Len(r) = Len(q) - 1
                   /\ \A k \in 1..(p - 1) : r[k] = q[k]
                   /\ \A k \in p..Len(r) : r[k] = q[k + 1]
<1>1. CASE c \notin Ids(q)
  BY <1>1 DEF Without
<1>2. CASE c \in Ids(q)
  <2> DEFINE p == CHOOSE j \in DOMAIN q : q[j] = c
  <2>1. p \in 1..Len(q) /\ q[p] = c /\ Len(q) \in Nat
    <3>1. \E j \in DOMAIN q : q[j] = c
      BY <1>2 DEF Ids
    <3>2. p \in DOMAIN q /\ q[p] = c
      BY <3>1
    <3>3. QED
      BY <3>2
  <2>2. Without(q, c) = SubSeq(q, 1, p - 1) \o SubSeq(q, p + 1, Len(q))
    BY <1>2 DEF Without
  <2> HIDE DEF p
  <2>3. PICK front, back : front = SubSeq(q, 1, p - 1) /\ back = SubSeq(q, p + 1, Len(q))
    OBVIOUS
  <2>4. /\ front \in Seq(S) /\ Len(front) = p - 1
        /\ \A k \in 1..(p - 1) : front[k] = q[k]
    BY <2>1, <2>3
  <2>5. /\ back \in Seq(S) /\ Len(back) = Len(q) - p
        /\ \A k \in 1..(Len(q) - p) : back[k] = q[p + k]
    BY <2>1, <2>3
  <2>6. r = front \o back
    BY <2>2, <2>3
  <2>7. /\ r \in Seq(S) /\ Len(r) = (p - 1) + (Len(q) - p)
        /\ \A k \in 1..(p - 1) : r[k] = front[k]
        /\ \A k \in ((p - 1) + 1)..((p - 1) + (Len(q) - p)) :
              r[k] = back[k - (p - 1)] /\ k - (p - 1) \in 1..(Len(q) - p)
    <3>1. PICK m, n : m = Len(front) /\ n = Len(back)
      OBVIOUS
    <3>2. /\ m \in Nat /\ n \in Nat /\ r \in Seq(S) /\ Len(r) = m + n
          /\ \A i \in 1..m : r[i] = front[i]
          /\ \A i \in (m + 1)..(m + n) : r[i] = back[i - m] /\ i - m \in 1..n
      <4>1. front \in Seq(S) /\ back \in Seq(S)
        BY <2>4, <2>5
      <4>2. QED
        BY ONLY <2>6, <3>1, <4>1, ConcatMeans
    <3>3. m = p - 1 /\ n = Len(q) - p
      BY <2>4, <2>5, <3>1
    <3>4. QED
      BY ONLY <3>2, <3>3
  <2>8. Len(r) = Len(q) - 1
    BY <2>1, <2>7
  <2>9. ASSUME NEW k \in p..Len(r) PROVE r[k] = q[k + 1]
    <3>1. k \in ((p - 1) + 1)..((p - 1) + (Len(q) - p))
      BY <2>1, <2>8
    <3>2. r[k] = back[k - (p - 1)] /\ k - (p - 1) \in 1..(Len(q) - p)
      BY <2>7, <3>1
    <3>3. p + (k - (p - 1)) = k + 1
      BY <2>1, <3>1
    <3>4. QED
      BY <2>5, <3>2, <3>3
  <2>10. QED
    BY <2>1, <2>4, <2>7, <2>8, <2>9
<1>3. QED
  BY <1>1, <1>2

\* What is left keeps its order, and c is gone if it was there once.
LEMMA WithoutDistinct ==
    ASSUME NEW S, NEW q \in Seq(S), NEW c, Distinct(q), NEW r, r = Without(q, c)
    PROVE  r \in Seq(S) /\ Distinct(r) /\ Ids(r) = Ids(q) \ {c}
<1>1. CASE r = q /\ c \notin Ids(q)
  BY <1>1
<1>2. CASE r \in Seq(S) /\ \E p \in 1..Len(q) :
                   /\ q[p] = c /\ Len(r) = Len(q) - 1
                   /\ \A k \in 1..(p - 1) : r[k] = q[k]
                   /\ \A k \in p..Len(r) : r[k] = q[k + 1]
  <2>1. PICK p \in 1..Len(q) :
                   /\ q[p] = c /\ Len(r) = Len(q) - 1
                   /\ \A k \in 1..(p - 1) : r[k] = q[k]
                   /\ \A k \in p..Len(r) : r[k] = q[k + 1]
    BY <1>2
  <2>2. /\ DOMAIN r = 1..Len(r) /\ DOMAIN q = 1..Len(q) /\ Len(q) \in Nat
        /\ Len(r) = Len(q) - 1
    BY <1>2, <2>1
  <2>3. \A i, j \in 1..Len(q) : q[i] = q[j] => i = j
    BY <2>2 DEF Distinct
  <2>4. \A k \in 1..Len(r) : /\ k < p => k \in 1..Len(q) /\ r[k] = q[k]
                             /\ ~(k < p) => k + 1 \in 1..Len(q) /\ r[k] = q[k + 1]
    BY <2>1, <2>2
  <2>5. ASSUME NEW i \in 1..Len(r), NEW j \in 1..Len(r), r[i] = r[j] PROVE i = j
    <3>1. CASE i < p /\ j < p
      BY <2>3, <2>4, <2>5, <3>1
    <3>2. CASE ~(i < p) /\ ~(j < p)
      BY <2>3, <2>4, <2>5, <3>2
    <3>3. CASE i < p /\ ~(j < p)
      BY <2>3, <2>4, <2>5, <3>3
    <3>4. CASE ~(i < p) /\ j < p
      BY <2>3, <2>4, <2>5, <3>4
    <3>5. QED
      BY <3>1, <3>2, <3>3, <3>4
  <2>6. ASSUME NEW k \in 1..Len(r) PROVE r[k] \in Ids(q) \ {c}
    <3>1. PICK j \in 1..Len(q) : r[k] = q[j] /\ j # p
      BY <2>1, <2>2, <2>4
    <3>2. r[k] # c
      BY <2>1, <2>3, <3>1
    <3>3. QED
      BY <2>2, <3>1, <3>2 DEF Ids
  <2>7. ASSUME NEW k \in 1..Len(q), k # p
        PROVE  \E j \in 1..Len(r) : r[j] = q[k]
    <3>1. CASE k < p
      <4>1. k \in 1..Len(r) /\ r[k] = q[k]
        BY <2>2, <2>4, <3>1
      <4>2. QED
        BY <4>1
    <3>2. CASE k > p
      <4>1. k - 1 \in 1..Len(r) /\ ~(k - 1 < p) /\ (k - 1) + 1 = k
        BY <2>2, <3>2
      <4>2. r[k - 1] = q[k]
        BY <2>4, <4>1
      <4>3. QED
        BY <4>1, <4>2
    <3>3. QED
      BY <2>2, <2>7, <3>1, <3>2
  <2>8. Ids(r) = Ids(q) \ {c}
    <3>1. Ids(r) \subseteq Ids(q) \ {c}
      BY <2>2, <2>6 DEF Ids
    <3>2. ASSUME NEW d \in Ids(q), d # c PROVE d \in Ids(r)
      <4>1. PICK k \in 1..Len(q) : q[k] = d
        BY <2>2 DEF Ids
      <4>2. k # p
        BY <2>1, <3>2, <4>1
      <4>3. PICK j \in 1..Len(r) : r[j] = d
        BY <2>7, <4>1, <4>2
      <4>4. QED
        BY <2>2, <4>3 DEF Ids
    <3>3. QED
      BY <3>1, <3>2
  <2>9. QED
    BY <1>2, <2>2, <2>5, <2>8 DEF Distinct
<1>3. QED
  BY <1>1, <1>2, WithoutMeans

\* One more that was not there.
LEMMA DistinctAppend ==
    ASSUME NEW S, NEW q \in Seq(S), NEW x \in S, Distinct(q), x \notin Ids(q),
           NEW r, r = Append(q, x)
    PROVE  r \in Seq(S) /\ Distinct(r)
<1>1. /\ r \in Seq(S) /\ Len(r) = Len(q) + 1 /\ Len(q) \in Nat
      /\ r[Len(q) + 1] = x /\ \A k \in 1..Len(q) : r[k] = q[k]
      /\ DOMAIN r = 1..(Len(q) + 1) /\ DOMAIN q = 1..Len(q)
  OBVIOUS
<1>2. \A k \in 1..Len(q) : q[k] # x
  BY <1>1 DEF Ids
<1>3. ASSUME NEW i \in 1..(Len(q) + 1), NEW j \in 1..(Len(q) + 1), r[i] = r[j]
      PROVE  i = j
  <2>1. CASE i \in 1..Len(q) /\ j \in 1..Len(q)
    BY <1>1, <1>3, <2>1 DEF Distinct
  <2>2. CASE ~(i \in 1..Len(q) /\ j \in 1..Len(q))
    BY <1>1, <1>2, <1>3, <2>2
  <2>3. QED
    BY <2>1, <2>2
<1>4. QED
  BY <1>1, <1>3 DEF Distinct

\* One sequence after another that has nothing in common with it.
LEMMA DistinctConcat ==
    ASSUME NEW S, NEW p \in Seq(S), NEW q \in Seq(S), Distinct(p), Distinct(q),
           Ids(p) \cap Ids(q) = {}, NEW r, r = p \o q
    PROVE  r \in Seq(S) /\ Distinct(r)
<1>1. PICK m, n : m = Len(p) /\ n = Len(q)
  OBVIOUS
<1>2. /\ m \in Nat /\ n \in Nat /\ r \in Seq(S) /\ Len(r) = m + n
      /\ \A i \in 1..m : r[i] = p[i]
      /\ \A i \in (m + 1)..(m + n) : r[i] = q[i - m] /\ i - m \in 1..n
  BY <1>1, ConcatMeans
<1>3. DOMAIN r = 1..(m + n) /\ DOMAIN p = 1..m /\ DOMAIN q = 1..n
  BY <1>1, <1>2
<1>4. \A i \in 1..m, j \in 1..n : p[i] # q[j]
  BY <1>3 DEF Ids
<1>5. ASSUME NEW i \in 1..(m + n), NEW j \in 1..(m + n), r[i] = r[j] PROVE i = j
  <2>1. CASE i \in 1..m /\ j \in 1..m
    BY <1>2, <1>3, <1>5, <2>1 DEF Distinct
  <2>2. CASE i \in (m + 1)..(m + n) /\ j \in (m + 1)..(m + n)
    <3>1. /\ i - m \in DOMAIN q /\ j - m \in DOMAIN q
          /\ q[i - m] = q[j - m]
      BY <1>2, <1>3, <1>5, <2>2
    <3>2. i - m = j - m
      BY ONLY <3>1, Distinct(q) DEF Distinct
    <3>3. QED
      BY <1>2, <3>2
  <2>3. CASE i \in 1..m /\ j \in (m + 1)..(m + n)
    BY <1>2, <1>4, <1>5, <2>3
  <2>4. CASE i \in (m + 1)..(m + n) /\ j \in 1..m
    BY <1>2, <1>4, <1>5, <2>4
  <2>5. QED
    BY <1>2, <2>1, <2>2, <2>3, <2>4
<1>6. QED
  BY <1>2, <1>3, <1>5 DEF Distinct

\* All but the first.
LEMMA DistinctTail ==
    ASSUME NEW S, NEW q \in Seq(S), q # <<>>, Distinct(q), NEW r, r = Tail(q)
    PROVE  r \in Seq(S) /\ Distinct(r) /\ Ids(r) = Ids(q) \ {q[1]} /\ q[1] \in Ids(q)
<1>1. /\ r \in Seq(S) /\ Len(r) = Len(q) - 1 /\ Len(q) \in Nat \ {0}
      /\ \A k \in 1..Len(r) : r[k] = q[k + 1] /\ k + 1 \in 1..Len(q)
      /\ DOMAIN r = 1..Len(r) /\ DOMAIN q = 1..Len(q)
  OBVIOUS
<1>2. ASSUME NEW i \in 1..Len(r), NEW j \in 1..Len(r), r[i] = r[j] PROVE i = j
  <2>1. i + 1 = j + 1
    BY <1>1, <1>2 DEF Distinct
  <2>2. QED
    BY <1>1, <2>1
<1>3. ASSUME NEW k \in 1..Len(r) PROVE r[k] \in Ids(q) \ {q[1]}
  <2>1. k + 1 # 1 /\ 1 \in DOMAIN q
    BY <1>1
  <2>2. r[k] # q[1]
    BY <1>1, <2>1 DEF Distinct
  <2>3. QED
    BY <1>1, <2>2 DEF Ids
<1>4. ASSUME NEW k \in 1..Len(q), k # 1 PROVE \E j \in 1..Len(r) : r[j] = q[k]
  <2>1. k - 1 \in 1..Len(r) /\ (k - 1) + 1 = k
    BY <1>1, <1>4
  <2>2. r[k - 1] = q[k]
    BY <1>1, <2>1
  <2>3. QED
    BY <2>1, <2>2
<1>5. Ids(q) \ {q[1]} \subseteq Ids(r)
  <2> SUFFICES ASSUME NEW d \in Ids(q), d # q[1] PROVE d \in Ids(r)
    OBVIOUS
  <2>1. PICK k \in 1..Len(q) : q[k] = d
    BY <1>1 DEF Ids
  <2>2. PICK j \in 1..Len(r) : r[j] = d
    BY <1>4, <2>1
  <2>3. QED
    BY <1>1, <2>2 DEF Ids
<1>6. Ids(r) \subseteq Ids(q) \ {q[1]}
  BY <1>1, <1>3 DEF Ids
<1>7. q[1] \in Ids(q) /\ Distinct(r)
  BY <1>1, <1>2 DEF Ids, Distinct
<1>8. QED
  BY <1>1, <1>5, <1>6, <1>7

\* Without one that is not in A.
LEMMA LastWithout ==
    ASSUME NEW S, NEW q \in Seq(S), NEW c, NEW A, NEW G, LastIn(q, A, G), c \notin A,
           NEW r, r = Without(q, c)
    PROVE  LastIn(r, A, G)
<1>1. CASE r = q /\ c \notin Ids(q)
  BY <1>1
<1>2. CASE r \in Seq(S) /\ \E p \in 1..Len(q) :
                   /\ q[p] = c /\ Len(r) = Len(q) - 1
                   /\ \A k \in 1..(p - 1) : r[k] = q[k]
                   /\ \A k \in p..Len(r) : r[k] = q[k + 1]
  <2>1. PICK p \in 1..Len(q) :
                   /\ q[p] = c /\ Len(r) = Len(q) - 1
                   /\ \A k \in 1..(p - 1) : r[k] = q[k]
                   /\ \A k \in p..Len(r) : r[k] = q[k + 1]
    BY <1>2
  <2>2. /\ DOMAIN r = 1..Len(r) /\ DOMAIN q = 1..Len(q) /\ Len(q) \in Nat
        /\ Len(r) = Len(q) - 1
    BY <1>2, <2>1
  <2>3. SUFFICES ASSUME NEW i \in 1..Len(r), r[i] \in A,
                        \A j \in 1..Len(r) : i < j => r[j] \notin A
                 PROVE  r[i] \in G
    BY <2>2 DEF LastIn
  <2>4. PICK s : s = IF i < p THEN i ELSE i + 1
    OBVIOUS
  <2>5. s \in 1..Len(q) /\ q[s] = r[i]
    <3>1. CASE i < p
      BY <2>1, <2>2, <2>4, <3>1
    <3>2. CASE ~(i < p)
      BY <2>1, <2>2, <2>4, <3>2
    <3>3. QED
      BY <3>1, <3>2
  <2>6. ASSUME NEW j \in 1..Len(q), s < j PROVE q[j] \notin A
    <3>1. CASE j = p
      BY <2>1, <3>1
    <3>2. CASE j < p
      <4>1. j \in 1..Len(r) /\ r[j] = q[j]
        BY <2>1, <2>2, <3>2
      <4>2. i < j
        <5>1. CASE i < p
          BY <2>4, <2>6, <5>1
        <5>2. CASE ~(i < p)
          BY <2>2, <2>4, <2>6, <3>2, <5>2
        <5>3. QED
          BY <5>1, <5>2
      <4>3. QED
        BY <2>3, <4>1, <4>2
    <3>3. CASE j > p
      <4>1. j - 1 \in p..Len(r) /\ j - 1 \in 1..Len(r) /\ (j - 1) + 1 = j
        BY <2>2, <3>3
      <4>2. r[j - 1] = q[j]
        BY <2>1, <4>1
      <4>3. i < j - 1
        <5>1. CASE i < p
          BY <2>2, <3>3, <5>1
        <5>2. CASE ~(i < p)
          BY <2>2, <2>4, <2>6, <5>2
        <5>3. QED
          BY <5>1, <5>2
      <4>4. QED
        BY <2>3, <4>1, <4>2, <4>3
    <3>4. QED
      BY <2>2, <3>1, <3>2, <3>3
  <2>7. QED
    BY <2>2, <2>3, <2>5, <2>6 DEF LastIn
<1>3. QED
  BY ONLY <1>1, <1>2, WithoutMeans, q \in Seq(S), r = Without(q, c)

\* Requests and awaits are told apart, and a claim says for which alias it is.
LEMMA RequestsApart ==
    /\ \A al : /\ SetAliasTo(al)[1] = "set_alias" /\ SetAliasTo(al)[2] = al
               /\ SetAliasTo(al) # <<"hello">>
               /\ SetAliasTo(al) # Await /\ SetAliasTo(al) # TimedAwait
    /\ \A al, b : SetAliasTo(al) = SetAliasTo(b) => al = b
    /\ <<"hello">> # Await /\ <<"hello">> # TimedAwait
    /\ <<"hello">>[1] # "set_alias"
    /\ \A al \in Alias \cup {None} : SetAliasTo(al) \in Calls
    /\ \A what \in Calls : what = <<"hello">>
                           \/ \E al \in Alias \cup {None} : what = SetAliasTo(al)
    /\ None \notin Calls /\ "none" \notin Alias \cup {None}
<1>1. \A al : /\ SetAliasTo(al)[1] = "set_alias" /\ SetAliasTo(al)[2] = al
  BY DEF SetAliasTo
<1>2. \A al : /\ SetAliasTo(al) # <<"hello">>
              /\ SetAliasTo(al) # Await /\ SetAliasTo(al) # TimedAwait
  BY DEF SetAliasTo, Await, TimedAwait
<1>3. ASSUME NEW al, NEW b, SetAliasTo(al) = SetAliasTo(b) PROVE al = b
  BY <1>3 DEF SetAliasTo
<1>4. <<"hello">> # Await /\ <<"hello">> # TimedAwait /\ <<"hello">>[1] # "set_alias"
  BY DEF Await, TimedAwait
<1>5. /\ \A al \in Alias \cup {None} : SetAliasTo(al) \in Calls
      /\ \A what \in Calls : what = <<"hello">>
                             \/ \E al \in Alias \cup {None} : what = SetAliasTo(al)
  BY DEF Calls
<1>6. QED
  BY <1>1, <1>2, <1>3, <1>4, <1>5, MarksAssumption

\* Who claims an alias, and that await is no claim.
LEMMA ClaimsApart ==
    ASSUME NEW c \in Caller
    PROVE  /\ asked[c] \in Calls => (c \in Claimers <=> asked[c][1] = "set_alias")
           /\ asked[c] \in {Await, TimedAwait, None, <<"hello">>} => c \notin Claimers
           /\ c \in Claimers => \E al \in Alias \cup {None} : asked[c] = SetAliasTo(al)
           /\ \A al \in Alias \cup {None} : asked[c] = SetAliasTo(al) => c \in Claimers
BY RequestsApart DEF Claimers

\* A step that leaves the socket alone, and the tasks that wait for an answer.
LEMMA WayKept ==
    ASSUME Called, Answered, UNCHANGED <<session, fromClient, toClient, pending>>,
           fromClient \in Seq(Sent), toClient \in Seq(Line),
           \A c \in Caller : status[c] = "calling" =>
               status'[c] = "calling" /\ asked'[c] = asked[c]
    PROVE  Called' /\ Answered'
<1>1. \A i \in DOMAIN fromClient : fromClient[i][3] \in Caller
  BY DEF Sent
<1>2. \A i \in DOMAIN toClient : IsAnswer(toClient[i]) => toClient[i][4] \in Caller
  <2>1. \A line \in Line : IsAnswer(line) => line[4] \in Caller
    BY DEF Line, IsAnswer
  <2>2. \A i \in DOMAIN toClient : toClient[i] \in Line
    OBVIOUS
  <2>3. QED
    BY <2>1, <2>2
<1>3. \A c \in Claimers : asked'[c] = asked[c] => c \in Claimers'
  BY DEF Claimers
<1>4. Called'
  BY <1>1 DEF Called
<1>5. Answered'
  BY <1>2, <1>3 DEF Answered, IsAnswer
<1>6. QED
  BY <1>4, <1>5

\* A task that had no call on its way makes one.
LEMMA CallGoes ==
    ASSUME CallInv, Called, Answered, Listening,
           NEW c \in Caller, NEW what \in Calls \ {<<"hello">>}, Call(c, what),
           asked = [d \in Caller |-> asked[d]], status = [d \in Caller |-> status[d]],
           status[c] # "calling", UNCHANGED <<session, toClient>>
    PROVE  Called' /\ Answered'
<1>1. /\ next_id \in Nat /\ fromClient \in Seq(Sent) /\ toClient \in Seq(Line)
  BY DEF CallInv, CallShape
<1>2. PICK new : new = next_id + 1
  OBVIOUS
<1>3. /\ pending' = {p \in pending : p[1] # new} \cup {<<new, c>>}
      /\ asked' = [asked EXCEPT ![c] = what]
      /\ status' = [status EXCEPT ![c] = "calling"]
      /\ fromClient' = Append(fromClient, <<new, what, c>>)
  BY <1>2 DEF Call, NewId, Unlisted, Listening
<1>4. /\ asked'[c] = what /\ status'[c] = "calling"
      /\ \A d \in Caller : d # c => asked'[d] = asked[d] /\ status'[d] = status[d]
  BY <1>3
<1>5. \A i \in DOMAIN fromClient :
          /\ fromClient[i][3] \in Caller /\ fromClient[i][3] # c
          /\ fromClient[i][1] # new
  <2>1. \A i \in DOMAIN fromClient : fromClient[i][3] \in Caller
    BY <1>1 DEF Sent
  <2>2. \A i \in DOMAIN fromClient : fromClient[i][1] \in 1..next_id
    <3>1. DOMAIN fromClient = 1..Len(fromClient)
      BY <1>1
    <3>2. QED
      BY <3>1 DEF CallInv, Bound
  <2>3. \A i \in DOMAIN fromClient : status[fromClient[i][3]] = "calling"
    BY DEF Called
  <2>4. \A id \in 1..next_id : id # new
    BY <1>1, <1>2
  <2>5. QED
    BY <2>1, <2>2, <2>3, <2>4
<1>6. \A i \in DOMAIN toClient : IsAnswer(toClient[i]) =>
          /\ toClient[i][4] \in Caller /\ toClient[i][4] # c
          /\ toClient[i][2] # new
  <2>1. \A line \in Line : IsAnswer(line) => line[4] \in Caller
    BY DEF Line, IsAnswer
  <2>2. \A i \in DOMAIN toClient : toClient[i] \in Line
    BY <1>1
  <2>3. \A i \in DOMAIN toClient : IsAnswer(toClient[i]) => toClient[i][2] \in 1..next_id
    <3>1. DOMAIN toClient = 1..Len(toClient)
      BY <1>1
    <3>2. QED
      BY <3>1 DEF CallInv, Bound
  <2>4. \A i \in DOMAIN toClient : IsAnswer(toClient[i]) =>
            status[toClient[i][4]] = "calling"
    BY DEF Answered
  <2>5. \A id \in 1..next_id : id # new
    BY <1>1, <1>2
  <2>6. QED
    BY <2>1, <2>2, <2>3, <2>4, <2>5
<1>7. PICK q, n : q = fromClient' /\ n = Len(fromClient)
  OBVIOUS
<1>8. /\ n \in Nat /\ DOMAIN fromClient = 1..n /\ DOMAIN q = 1..(n + 1)
      /\ q[n + 1] = <<new, what, c>>
      /\ \A i \in 1..n : q[i] = fromClient[i]
  <2>1. <<new, what, c>> \in Sent
    BY <1>1, <1>2 DEF Sent
  <2>2. QED
    BY <1>1, <1>3, <1>7, <2>1
<1>9. ASSUME NEW i \in DOMAIN q
      PROVE  /\ status'[q[i][3]] = "calling" /\ asked'[q[i][3]] = q[i][2]
             /\ <<q[i][1], q[i][3]>> \in pending'
             /\ q[i][2] = <<"hello">> => session' = "none"
  <2>1. CASE i = n + 1
    <3>1. q[i][1] = new /\ q[i][2] = what /\ q[i][3] = c
      BY <1>8, <2>1
    <3>2. QED
      BY <1>3, <1>4, <3>1
  <2>2. CASE i \in 1..n
    <3>1. /\ status[fromClient[i][3]] = "calling"
          /\ asked[fromClient[i][3]] = fromClient[i][2]
          /\ <<fromClient[i][1], fromClient[i][3]>> \in pending
          /\ fromClient[i][2] = <<"hello">> => session = "none"
      BY <1>8, <2>2 DEF Called
    <3>2. QED
      BY <1>3, <1>4, <1>5, <1>8, <2>2, <3>1
  <2>3. QED
    BY <1>8, <2>1, <2>2
<1>10. ASSUME NEW i \in DOMAIN q, NEW j \in DOMAIN q, q[i][3] = q[j][3] PROVE i = j
  <2>1. \A k \in 1..n : q[k][3] # c
    BY <1>5, <1>8
  <2>2. q[n + 1][3] = c
    BY <1>8
  <2>3. CASE i \in 1..n /\ j \in 1..n
    BY <1>8, <1>10, <2>3 DEF Called
  <2>4. QED
    BY <1>8, <1>10, <2>1, <2>2, <2>3
<1>11. Called'
  <2>1. session' \in Alias \cup {None, "none"}
    BY DEF Called
  <2>2. QED
    BY <1>7, <1>9, <1>10, <2>1 DEF Called
<1>12. \A d \in Claimers : d # c => d \in Claimers'
  BY <1>4 DEF Claimers
<1>13. ASSUME NEW i \in DOMAIN toClient, IsAnswer(toClient[i])
       PROVE  LET line == toClient[i]
              IN  /\ status'[line[4]] = "calling"
                  /\ <<line[2], line[4]>> \in pending'
                  /\ \A j \in DOMAIN q : q[j][3] # line[4]
  <2>1. PICK line : line = toClient[i]
    OBVIOUS
  <2>2. /\ status[line[4]] = "calling" /\ <<line[2], line[4]>> \in pending
        /\ \A j \in DOMAIN fromClient : fromClient[j][3] # line[4]
    BY <1>13, <2>1 DEF Answered
  <2>3. line[4] \in Caller /\ line[4] # c /\ line[2] # new
    BY <1>6, <1>13, <2>1
  <2>4. \A j \in DOMAIN q : q[j][3] # line[4]
    <3>1. q[n + 1][3] = c
      BY <1>8
    <3>2. \A j \in 1..n : q[j][3] # line[4]
      BY <1>8, <2>2
    <3>3. QED
      BY <1>8, <2>3, <3>1, <3>2
  <2>5. QED
    BY <1>3, <1>4, <1>12, <2>1, <2>2, <2>3, <2>4
<1>14. Answered'
  BY <1>7, <1>13 DEF Answered, IsAnswer
<1>15. QED
  BY <1>11, <1>14

\* What the daemon does with a call.
LEMMA AnswerMeans ==
    ASSUME CallInv, Queued, Called, daemon = "up", DaemonAnswers
    PROVE  \E call \in Sent, o \in Outcome :
             /\ fromClient # <<>> /\ call = fromClient[1] /\ fromClient' = Tail(fromClient)
             /\ toClient' = Append(toClient, <<"answer", call[1], o, call[3]>>)
             /\ call[3] \in Caller /\ asked[call[3]] = call[2]
             /\ session = "none" /\ session' # "none" =>
                  call[3] = Run /\ session' = None /\ call[3] \notin Claimers
             /\ session = "none" /\ call[3] \in Claimers => o = "refused"
             /\ session # "none" => session' # "none"
             /\ session' \in Alias \cup {None, "none"}
             /\ call[3] \in Claimers /\ o = "ok" => asked[call[3]] = SetAliasTo(session')
             /\ ~(call[3] \in Claimers /\ o # "refused") =>
                  session' = session \/ (session = "none" /\ session' = None)
<1>1. /\ fromClient # <<>> /\ fromClient \in Seq(Sent)
      /\ fromClient' = Tail(fromClient)
  BY DEF DaemonAnswers, CallInv, CallShape
<1>2. PICK call : call = fromClient[1]
  OBVIOUS
<1>3. call = Head(fromClient) /\ call \in Sent /\ 1 \in DOMAIN fromClient
  BY <1>1, <1>2
<1>4. PICK what, by : what = call[2] /\ by = call[3]
  OBVIOUS
<1>5. /\ what \in Calls /\ by \in Caller /\ asked[by] = what
      /\ what = <<"hello">> => session = "none" /\ by = Run
  <2>1. what \in Calls /\ by \in Caller
    BY <1>3, <1>4 DEF Sent
  <2>2. asked[by] = what /\ (what = <<"hello">> => session = "none")
    BY <1>2, <1>3, <1>4 DEF Called
  <2>3. what = <<"hello">> => by = Run
    BY <2>1, <2>2 DEF Queued
  <2>4. QED
    BY <2>1, <2>2, <2>3
<1>6. PICK o \in Outcome :
        /\ session = "none" /\ what[1] # "hello" => o = "refused"
        /\ session' = CASE o = "refused" -> session
                        [] what[1] = "hello" -> None
                        [] OTHER -> what[2]
        /\ toClient' = Append(toClient, <<"answer", call[1], o, by>>)
  BY <1>3, <1>4 DEF DaemonAnswers, Outcome
<1>7. session \in Alias \cup {None, "none"}
  BY DEF Called
<1> DEFINE Means ==
      /\ session = "none" /\ session' # "none" =>
           by = Run /\ session' = None /\ by \notin Claimers
      /\ session = "none" /\ by \in Claimers => o = "refused"
      /\ session # "none" => session' # "none"
      /\ session' \in Alias \cup {None, "none"}
      /\ by \in Claimers /\ o = "ok" => asked[by] = SetAliasTo(session')
      /\ ~(by \in Claimers /\ o # "refused") =>
           session' = session \/ (session = "none" /\ session' = None)
<1>8. ASSUME what = <<"hello">> PROVE Means
  <2>1. what[1] = "hello" /\ by \notin Claimers
    BY <1>5, <1>8, ClaimsApart
  <2>2. session' = None \/ session' = session
    BY <1>6, <2>1
  <2>3. QED
    BY ONLY <1>5, <1>7, <1>8, <2>1, <2>2, RequestsApart
<1>9. ASSUME NEW al \in Alias \cup {None}, what = SetAliasTo(al)
      PROVE  /\ what[1] = "set_alias" /\ what[1] # "hello" /\ by \in Claimers
             /\ session' = IF o # "refused" THEN al ELSE session
             /\ al # "none"
             /\ session = "none" => o = "refused"
  <2>1. what[1] = "set_alias" /\ what[2] = al /\ al # "none"
    BY <1>9, RequestsApart
  <2>2. by \in Claimers
    BY <1>5, <1>9, ClaimsApart
  <2>3. QED
    BY <1>6, <2>1, <2>2
<1>10. ASSUME what # <<"hello">> PROVE Means
  <2>1. PICK al \in Alias \cup {None} : what = SetAliasTo(al)
    BY <1>5, <1>10, RequestsApart
  <2>2. /\ by \in Claimers /\ al # "none"
        /\ o # "refused" => session' = al
        /\ o = "refused" => session' = session
        /\ session = "none" => o = "refused"
    BY <1>9, <2>1
  <2>3. /\ session = "none" => session' = "none"
        /\ session # "none" => session' # "none"
        /\ session' \in Alias \cup {None, "none"}
        /\ o = "ok" => asked[by] = SetAliasTo(session')
        /\ o = "refused" => session' = session
    BY <1>5, <1>7, <2>1, <2>2
  <2>4. QED
    BY ONLY <1>5, <2>2, <2>3
<1>11. Means
  BY <1>8, <1>10
<1>12. QED
  <2> HIDE DEF Means
  <2>1. /\ fromClient # <<>> /\ call = fromClient[1] /\ fromClient' = Tail(fromClient)
        /\ toClient' = Append(toClient, <<"answer", call[1], o, by>>)
        /\ by \in Caller /\ asked[by] = call[2] /\ by = call[3] /\ call \in Sent
    BY <1>1, <1>2, <1>3, <1>4, <1>5, <1>6
  <2>2. QED
    BY <1>11, <2>1 DEF Means

\* An answer takes the place of its call.
LEMMA AnswerGoes ==
    ASSUME CallInv, Queued, Called, Answered, daemon = "up", DaemonAnswers
    PROVE  Called' /\ Answered'
<1>1. PICK call \in Sent, o \in Outcome :
             /\ fromClient # <<>> /\ call = fromClient[1] /\ fromClient' = Tail(fromClient)
             /\ toClient' = Append(toClient, <<"answer", call[1], o, call[3]>>)
             /\ call[3] \in Caller
             /\ session = "none" /\ session' # "none" => call[3] = Run
             /\ session' \in Alias \cup {None, "none"}
  BY AnswerMeans
<1>2. /\ fromClient \in Seq(Sent) /\ toClient \in Seq(Line)
  BY DEF CallInv, CallShape
<1>3. UNCHANGED <<asked, status, pending>> /\ Claimers' = Claimers
  BY DEF DaemonAnswers, tasks, client, Claimers
<1>4. PICK n : n = Len(fromClient)
  OBVIOUS
<1>5. /\ n \in Nat \ {0} /\ DOMAIN fromClient = 1..n
      /\ DOMAIN fromClient' = 1..(n - 1)
      /\ \A i \in 1..(n - 1) : fromClient'[i] = fromClient[i + 1]
  BY <1>1, <1>2, <1>4
<1>6. \A i \in 1..(n - 1) : i + 1 \in 1..n /\ i + 1 # 1 /\ 1 \in 1..n
  BY <1>5
<1>7. \A i \in 1..(n - 1) : fromClient'[i][3] # call[3]
  BY <1>1, <1>5, <1>6 DEF Called
<1>8. ASSUME NEW i \in DOMAIN fromClient'
      PROVE  /\ status'[fromClient'[i][3]] = "calling"
             /\ asked'[fromClient'[i][3]] = fromClient'[i][2]
             /\ <<fromClient'[i][1], fromClient'[i][3]>> \in pending'
             /\ fromClient'[i][2] = <<"hello">> => session' = "none"
  <2>1. PICK e : e = fromClient[i + 1]
    OBVIOUS
  <2>2. i + 1 \in DOMAIN fromClient /\ fromClient'[i] = e /\ i \in 1..(n - 1)
    BY <1>5, <1>6, <2>1
  <2>3. /\ status[e[3]] = "calling" /\ asked[e[3]] = e[2]
        /\ <<e[1], e[3]>> \in pending
        /\ e[2] = <<"hello">> => session = "none"
    BY <2>1, <2>2 DEF Called
  <2>4. e[3] \in Caller
    BY <1>2, <2>1, <2>2 DEF Sent
  <2>5. e[2] = <<"hello">> => e[3] = Run
    BY <2>3, <2>4 DEF Queued
  <2>6. e[3] # call[3]
    BY <1>7, <2>2
  <2>7. QED
    BY <1>1, <1>3, <2>2, <2>3, <2>5, <2>6
<1>9. ASSUME NEW i \in DOMAIN fromClient', NEW j \in DOMAIN fromClient',
             fromClient'[i][3] = fromClient'[j][3]
      PROVE  i = j
  <2>1. i + 1 = j + 1
    BY <1>5, <1>6, <1>9 DEF Called
  <2>2. QED
    BY <1>5, <2>1
<1>10. Called'
  BY <1>1, <1>8, <1>9 DEF Called
<1>11. PICK line, m : line = <<"answer", call[1], o, call[3]>> /\ m = Len(toClient)
  OBVIOUS
<1>12. line \in Line /\ IsAnswer(line) /\ line[2] = call[1] /\ line[3] = o
       /\ line[4] = call[3]
  <2>1. call[1] \in Nat
    BY DEF Sent
  <2>2. QED
    BY <1>1, <1>11, <2>1 DEF Line, IsAnswer
<1>13. /\ m \in Nat /\ DOMAIN toClient = 1..m /\ DOMAIN toClient' = 1..(m + 1)
       /\ toClient'[m + 1] = line /\ \A i \in 1..m : toClient'[i] = toClient[i]
  BY <1>1, <1>2, <1>11, <1>12
<1>14. \A i \in 1..m : IsAnswer(toClient[i]) => toClient[i][4] # call[3]
  <2>1. 1 \in DOMAIN fromClient
    BY <1>5
  <2>2. QED
    BY <1>1, <1>13, <2>1 DEF Answered
<1>15. ASSUME NEW i \in 1..(m + 1), IsAnswer(toClient'[i])
       PROVE  /\ status'[toClient'[i][4]] = "calling"
              /\ <<toClient'[i][2], toClient'[i][4]>> \in pending'
              /\ \A j \in DOMAIN fromClient' : fromClient'[j][3] # toClient'[i][4]
  <2>1. CASE i = m + 1
    <3>1. 1 \in DOMAIN fromClient
      BY <1>5
    <3>2. status[call[3]] = "calling" /\ <<call[1], call[3]>> \in pending
      BY <1>1, <3>1 DEF Called
    <3>3. toClient'[i] = line
      BY <1>13, <2>1
    <3>4. \A j \in DOMAIN fromClient' : fromClient'[j][3] # line[4]
      BY <1>5, <1>7, <1>12
    <3>5. QED
      BY <1>3, <1>12, <3>2, <3>3, <3>4
  <2>2. CASE i \in 1..m
    <3>1. PICK l : l = toClient[i]
      OBVIOUS
    <3>2. /\ status[l[4]] = "calling" /\ <<l[2], l[4]>> \in pending
          /\ \A j \in DOMAIN fromClient : fromClient[j][3] # l[4]
      BY <1>13, <1>15, <2>2, <3>1 DEF Answered
    <3>3. \A j \in DOMAIN fromClient' : fromClient'[j][3] # l[4]
      BY <1>5, <1>6, <3>2
    <3>4. QED
      BY <1>3, <1>13, <2>2, <3>1, <3>2, <3>3
  <2>3. QED
    BY <1>13, <2>1, <2>2
<1>16. ASSUME NEW i \in 1..(m + 1), NEW j \in 1..(m + 1),
              IsAnswer(toClient'[i]), IsAnswer(toClient'[j]),
              toClient'[i][4] = toClient'[j][4]
       PROVE  i = j
  <2>1. CASE i \in 1..m /\ j \in 1..m
    BY <1>13, <1>16, <2>1 DEF Answered
  <2>2. CASE ~(i \in 1..m /\ j \in 1..m)
    BY <1>12, <1>13, <1>14, <1>16, <2>2
  <2>3. QED
    BY <2>1, <2>2
<1>17. Answered'
  BY <1>13, <1>15, <1>16 DEF Answered, IsAnswer
<1>18. QED
  BY <1>10, <1>17

\* The tasks in the queues.
LEMMA QueuedTasks ==
    ASSUME Queued
    PROVE  /\ \A c \in Ids(ready) : c \in Caller /\ status[c] = "ready"
           /\ \A c \in Ids(waiters) : c \in Caller /\ status[c] = "waiting"
           /\ ready \in Seq(Caller) /\ Distinct(ready)
           /\ waiters \in Seq(Caller) /\ Distinct(waiters)
<1>1. \A c \in Ids(ready) : c \in Caller
  BY DEF Queued, Ids
<1>2. \A c \in Ids(waiters) : c \in Caller
  BY DEF Queued, Ids
<1>3. QED
  BY <1>1, <1>2 DEF Queued

\* What the read loop does with an answer: it is taken by its task.
LEMMA ReadMeans ==
    ASSUME CallInv, Queued, Called, Answered, ReadLine,
           NEW line, line = toClient[1], IsAnswer(line)
    PROVE  /\ line \in Line /\ line[4] \in Caller
           /\ pending' = {p \in pending : p[1] # line[2]}
           /\ status' = [status EXCEPT ![line[4]] = "ready"]
           /\ answer' = [answer EXCEPT ![line[4]] = <<line[3], line[4]>>]
           /\ ready' = Append(ready, line[4])
           /\ status[line[4]] = "calling"
<1>1. toClient # <<>> /\ toClient \in Seq(Line)
  BY DEF ReadLine, CallInv, CallShape
<1>2. line = Head(toClient) /\ line \in Line /\ 1 \in DOMAIN toClient
      /\ 1 \in 1..Len(toClient)
  BY <1>1
<1>3. line[4] \in Caller
  BY <1>2 DEF Line, IsAnswer
<1>4. status[line[4]] = "calling" /\ <<line[2], line[4]>> \in pending
  BY <1>2 DEF Answered
<1>5. \A c \in Caller : <<line[2], c>> \in pending => c = line[4]
  BY <1>2 DEF CallInv, Bound, IsAnswer
<1>6. {c \in Caller : <<line[2], c>> \in pending} = {line[4]}
  BY <1>3, <1>4, <1>5
<1>7. PICK by, callers : by = line[4] /\ callers = {by}
  OBVIOUS
<1>8. /\ pending' = Unlisted(line[2])
      /\ answer' = [c \in Caller |-> IF c \in callers
                                     THEN <<line[3], line[4]>> ELSE answer[c]]
      /\ status' = [c \in Caller |-> IF c \in callers THEN "ready" ELSE status[c]]
      /\ ready' = IF callers = {} THEN ready
                  ELSE Append(ready, CHOOSE c \in callers : TRUE)
  BY <1>2, <1>6, <1>7 DEF ReadLine, IsAnswer
<1>9. (CHOOSE c \in callers : TRUE) = by /\ callers # {}
  BY <1>7
<1>10. status = [c \in Caller |-> status[c]] /\ answer = [c \in Caller |-> answer[c]]
  BY DEF Queued, CallInv, CallShape
<1>11. status' = [status EXCEPT ![by] = "ready"]
  BY <1>3, <1>7, <1>8, <1>10
<1>12. answer' = [answer EXCEPT ![by] = <<line[3], line[4]>>]
  BY <1>3, <1>7, <1>8, <1>10
<1>13. QED
  BY <1>2, <1>3, <1>4, <1>7, <1>8, <1>9, <1>11, <1>12 DEF Unlisted

\* A line that is taken leaves the others on their way, and puts its task, if it is
\* an answer, among those that are ready.
LEMMA ReadGoes ==
    ASSUME CallInv, Queued, Called, Answered, ReadLine
    PROVE  Queued' /\ Called' /\ Answered'
<1>1. /\ toClient # <<>> /\ toClient \in Seq(Line) /\ toClient' = Tail(toClient)
      /\ fromClient \in Seq(Sent)
      /\ UNCHANGED <<phase, session, fromClient, asked, waiters>>
      /\ Claimers' = Claimers
  BY DEF ReadLine, CallInv, CallShape, peerd, box, Claimers
<1>2. PICK n, line : n = Len(toClient) /\ line = toClient[1]
  OBVIOUS
<1>3. /\ n \in Nat \ {0} /\ DOMAIN toClient = 1..n /\ DOMAIN toClient' = 1..(n - 1)
      /\ \A i \in 1..(n - 1) : toClient'[i] = toClient[i + 1]
      /\ line = Head(toClient)
  BY <1>1, <1>2
<1>4. \A i \in 1..(n - 1) : i + 1 \in 1..n /\ i + 1 # 1 /\ 1 \in 1..n
  BY <1>3
<1>5. \A i, j \in 1..(n - 1) :
          IsAnswer(toClient'[i]) /\ IsAnswer(toClient'[j])
          /\ toClient'[i][4] = toClient'[j][4] => i = j
  <2> SUFFICES ASSUME NEW i \in 1..(n - 1), NEW j \in 1..(n - 1),
                      IsAnswer(toClient'[i]), IsAnswer(toClient'[j]),
                      toClient'[i][4] = toClient'[j][4]
               PROVE  i = j
    OBVIOUS
  <2>1. i + 1 = j + 1
    BY <1>3, <1>4 DEF Answered
  <2>2. QED
    BY <1>3, <2>1
<1>6. CASE ~IsAnswer(line)
  <2>1. UNCHANGED <<pending, status, ready>>
    BY <1>3, <1>6 DEF ReadLine, IsAnswer
  <2>2. Queued'
    BY <1>1, <2>1 DEF Queued
  <2>3. Called'
    BY <1>1, <2>1 DEF Called
  <2>4. ASSUME NEW i \in 1..(n - 1), IsAnswer(toClient'[i])
        PROVE  /\ status'[toClient'[i][4]] = "calling"
               /\ <<toClient'[i][2], toClient'[i][4]>> \in pending'
               /\ \A j \in DOMAIN fromClient' : fromClient'[j][3] # toClient'[i][4]
    <3>1. i + 1 \in DOMAIN toClient /\ toClient'[i] = toClient[i + 1]
      BY <1>3, <1>4
    <3>2. QED
      BY <1>1, <2>1, <2>4, <3>1 DEF Answered
  <2>5. Answered'
    BY <1>3, <1>5, <2>4 DEF Answered, IsAnswer
  <2>6. QED
    BY <2>2, <2>3, <2>5
<1>7. CASE IsAnswer(line)
  <2>1. PICK id, by : id = line[2] /\ by = line[4]
    OBVIOUS
  <2>2. /\ by \in Caller /\ status[by] = "calling"
        /\ pending' = {p \in pending : p[1] # id}
        /\ status' = [status EXCEPT ![by] = "ready"]
        /\ ready' = Append(ready, by)
    BY <1>2, <1>7, <2>1, ReadMeans
  <2>3. /\ status' = [c \in Caller |-> status'[c]]
        /\ status'[by] = "ready"
        /\ \A c \in Caller : c # by => status'[c] = status[c]
    BY <2>2 DEF Queued
  <2>4. \A c \in Caller : <<id, c>> \in pending => c = by
    <3>1. 1 \in 1..Len(toClient)
      BY <1>2, <1>3
    <3>2. QED
      BY <1>2, <1>7, <2>1, <3>1 DEF CallInv, Bound, IsAnswer
  <2>5. \A j, c : c \in Caller /\ c # by /\ <<j, c>> \in pending => <<j, c>> \in pending'
    BY <2>2, <2>4
  <2>6. Queued'
    <3>1. by \notin Ids(ready) /\ by \notin Ids(waiters)
      BY <2>2, QueuedTasks
    <3>2. ready' \in Seq(Caller) /\ Distinct(ready') /\ Ids(ready') = Ids(ready) \cup {by}
      <4>1. ready \in Seq(Caller) /\ Distinct(ready)
        BY QueuedTasks
      <4>2. PICK r : r = ready'
        OBVIOUS
      <4>3. by \in Caller /\ by \notin Ids(ready) /\ r = Append(ready, by)
        BY <2>2, <3>1, <4>2
      <4>4. r \in Seq(Caller) /\ Distinct(r)
        BY ONLY <4>1, <4>3, DistinctAppend
      <4>5. Ids(r) = Ids(ready) \cup {by}
        BY ONLY <4>1, <4>3, IdsAppend
      <4>6. QED
        BY <4>2, <4>4, <4>5 DEF Distinct, Ids
    <3>3. \A c \in Ids(ready') : status'[c] = "ready"
      <4>1. \A c \in Ids(ready) : c \in Caller /\ status[c] = "ready"
        BY QueuedTasks
      <4>2. QED
        BY <2>3, <3>1, <3>2, <4>1
    <3>4. \A c \in Ids(waiters') : status'[c] = "waiting"
      <4>1. \A c \in Ids(waiters) : c \in Caller /\ status[c] = "waiting"
        BY QueuedTasks
      <4>2. QED
        BY <1>1, <2>3, <3>1, <4>1
    <3>5. \A c \in Caller : status'[c] = "waiting" => asked'[c] \in {Await, TimedAwait}
      BY <1>1, <2>3 DEF Queued
    <3>6. QED
      BY <1>1, <2>3, <3>2, <3>3, <3>4, <3>5 DEF Queued
  <2>7. ASSUME NEW i \in DOMAIN fromClient'
        PROVE  /\ status'[fromClient'[i][3]] = "calling"
               /\ asked'[fromClient'[i][3]] = fromClient'[i][2]
               /\ <<fromClient'[i][1], fromClient'[i][3]>> \in pending'
               /\ fromClient'[i][2] = <<"hello">> => session' = "none"
    <3>1. i \in DOMAIN fromClient /\ fromClient'[i] = fromClient[i]
          /\ fromClient[i][3] \in Caller
      BY <1>1 DEF Sent
    <3>2. fromClient[i][3] # by
      <4>1. 1 \in DOMAIN toClient
        BY <1>3
      <4>2. QED
        BY <1>2, <1>7, <2>1, <3>1, <4>1 DEF Answered
    <3>3. /\ status[fromClient[i][3]] = "calling"
          /\ asked[fromClient[i][3]] = fromClient[i][2]
          /\ <<fromClient[i][1], fromClient[i][3]>> \in pending
          /\ fromClient[i][2] = <<"hello">> => session = "none"
      BY <3>1 DEF Called
    <3>4. QED
      BY <1>1, <2>3, <2>5, <3>1, <3>2, <3>3
  <2>8. Called'
    BY <1>1, <2>7 DEF Called
  <2>9. ASSUME NEW i \in 1..(n - 1), IsAnswer(toClient'[i])
        PROVE  /\ status'[toClient'[i][4]] = "calling"
               /\ <<toClient'[i][2], toClient'[i][4]>> \in pending'
               /\ \A j \in DOMAIN fromClient' : fromClient'[j][3] # toClient'[i][4]
    <3>1. PICK l : l = toClient[i + 1]
      OBVIOUS
    <3>2. i + 1 \in DOMAIN toClient /\ toClient'[i] = l /\ l \in Line /\ IsAnswer(l)
      BY <1>1, <1>3, <1>4, <2>9, <3>1
    <3>3. l[4] \in Caller
      BY <3>2 DEF Line, IsAnswer
    <3>4. l[4] # by
      <4>1. i + 1 # 1 /\ 1 \in DOMAIN toClient
        BY <1>3, <1>4
      <4>2. QED
        BY <1>2, <1>7, <2>1, <3>1, <3>2, <4>1 DEF Answered
    <3>5. /\ status[l[4]] = "calling" /\ <<l[2], l[4]>> \in pending
          /\ \A j \in DOMAIN fromClient : fromClient[j][3] # l[4]
      BY <3>1, <3>2 DEF Answered
    <3>6. QED
      BY <1>1, <2>3, <2>5, <3>2, <3>3, <3>4, <3>5
  <2>10. Answered'
    BY <1>3, <1>5, <2>9 DEF Answered, IsAnswer
  <2>11. QED
    BY <2>6, <2>8, <2>10
<1>8. QED
  BY <1>6, <1>7

\* A task that is in neither queue, or leaves the one it is in.
LEMMA TaskMoves ==
    ASSUME Queued, NEW r \in Caller, NEW s \in {"calling", "done"},
           status' = [status EXCEPT ![r] = s],
           \/ asked' = asked
           \/ \E what \in (Calls \ {<<"hello">>}) \cup {Await, TimedAwait} :
                asked' = [asked EXCEPT ![r] = what],
           r = Run => phase' # "hello" /\ asked'[Run] \in Calls,
           phase' = "hello" => phase = "hello",
           ready' \in Seq(Caller), Distinct(ready'), Ids(ready') \subseteq Ids(ready) \ {r},
           waiters' \in Seq(Caller), Distinct(waiters'),
           Ids(waiters') \subseteq Ids(waiters) \ {r}
    PROVE  Queued'
<1>1. /\ status' = [c \in Caller |-> status'[c]] /\ status'[r] = s
      /\ \A c \in Caller : c # r => status'[c] = status[c]
  BY DEF Queued
<1>2. /\ asked' \in [Caller -> Calls \cup {None, Await, TimedAwait}]
      /\ asked'[r] = <<"hello">> => asked[r] = <<"hello">>
      /\ \A c \in Caller : c # r => asked'[c] = asked[c]
  <2>1. asked \in [Caller -> Calls \cup {None, Await, TimedAwait}]
    BY DEF Queued
  <2>2. CASE asked' = asked
    BY <2>1, <2>2
  <2>3. CASE \E what \in (Calls \ {<<"hello">>}) \cup {Await, TimedAwait} :
                asked' = [asked EXCEPT ![r] = what]
    <3>1. PICK what \in (Calls \ {<<"hello">>}) \cup {Await, TimedAwait} :
                asked' = [asked EXCEPT ![r] = what]
      BY <2>3
    <3>2. what # <<"hello">> /\ what \in Calls \cup {None, Await, TimedAwait}
      BY RequestsApart
    <3>3. QED
      BY <2>1, <3>1, <3>2
  <2>4. QED
    BY <2>2, <2>3
<1>3. Run \in Caller
  BY DEF Caller
<1>4. asked'[Run] \in Calls /\ (phase' = "hello" => asked'[Run] = <<"hello">>)
  BY <1>2, <1>3 DEF Queued
<1>5. \A c \in Caller : asked'[c] = <<"hello">> => c = Run
  BY <1>2 DEF Queued
<1>6. /\ \A c \in Ids(ready') : c \in Caller /\ status'[c] = "ready"
      /\ \A c \in Ids(waiters') : c \in Caller /\ status'[c] = "waiting"
  <2>1. \A c \in Ids(ready) \cup Ids(waiters) : c \in Caller
    BY DEF Queued, Ids
  <2>2. QED
    BY <1>1, <2>1 DEF Queued
<1>7. \A c \in Caller : status'[c] = "waiting" => asked'[c] \in {Await, TimedAwait}
  BY <1>1, <1>2 DEF Queued
<1>8. QED
  BY <1>1, <1>2, <1>4, <1>5, <1>6, <1>7 DEF Queued

\* The tasks that were waiting join those that are ready.
LEMMA ForwardQueues ==
    ASSUME Queued, Forward PROVE Queued'
<1>1. /\ UNCHANGED <<asked, phase>> /\ waiters' = <<>> /\ ready' = ready \o waiters
      /\ status' = [c \in Caller |-> IF c \in Ids(waiters) THEN "ready" ELSE status[c]]
  BY DEF Forward
<1>2. /\ \A c \in Ids(ready) : c \in Caller /\ status[c] = "ready"
      /\ \A c \in Ids(waiters) : c \in Caller /\ status[c] = "waiting"
      /\ ready \in Seq(Caller) /\ Distinct(ready)
      /\ waiters \in Seq(Caller) /\ Distinct(waiters)
  BY QueuedTasks
<1>3. PICK r : r = ready \o waiters
  OBVIOUS
<1>4. Ids(ready) \cap Ids(waiters) = {}
  BY <1>2
<1>5. r \in Seq(Caller) /\ Distinct(r)
  BY ONLY <1>2, <1>3, <1>4, DistinctConcat
<1>6. Ids(r) = Ids(ready) \cup Ids(waiters)
  BY ONLY <1>2, <1>3, IdsConcat
<1>7. \A c \in Ids(ready') : status'[c] = "ready"
  BY <1>1, <1>2, <1>3, <1>6
<1>8. \A c \in Caller : status'[c] = "waiting" => status[c] = "waiting"
  BY <1>1
<1>9. status' = [c \in Caller |-> status'[c]]
  BY <1>1
<1>10. waiters' \in Seq(Caller) /\ Distinct(waiters') /\ Ids(waiters') = {}
  BY <1>1 DEF Distinct, Ids
<1>11. ready' \in Seq(Caller) /\ Distinct(ready')
  BY <1>1, <1>3, <1>5
<1>12. QED
  BY <1>1, <1>7, <1>8, <1>9, <1>10, <1>11 DEF Queued

\* A task starts to wait.
LEMMA WaitQueues ==
    ASSUME Queued, NEW r \in Caller, r # Run, NEW what \in {Await, TimedAwait},
           asked' = [asked EXCEPT ![r] = what],
           status' = [status EXCEPT ![r] = "waiting"],
           waiters' = Append(waiters, r), UNCHANGED <<ready, phase>>,
           status[r] = "idle"
    PROVE  Queued'
<1>1. /\ \A c \in Ids(ready) : c \in Caller /\ status[c] = "ready"
      /\ \A c \in Ids(waiters) : c \in Caller /\ status[c] = "waiting"
      /\ ready \in Seq(Caller) /\ Distinct(ready)
      /\ waiters \in Seq(Caller) /\ Distinct(waiters)
  BY QueuedTasks
<1>2. /\ status' = [c \in Caller |-> status'[c]] /\ status'[r] = "waiting"
      /\ \A c \in Caller : c # r => status'[c] = status[c]
  BY DEF Queued
<1>3. /\ asked' \in [Caller -> Calls \cup {None, Await, TimedAwait}]
      /\ asked'[r] = what /\ \A c \in Caller : c # r => asked'[c] = asked[c]
  BY DEF Queued
<1>4. PICK w : w = Append(waiters, r)
  OBVIOUS
<1>5. r \notin Ids(waiters) /\ r \notin Ids(ready)
  BY <1>1
<1>6. w \in Seq(Caller) /\ Distinct(w)
  BY ONLY <1>1, <1>4, <1>5, r \in Caller, DistinctAppend
<1>7. Ids(w) = Ids(waiters) \cup {r}
  BY ONLY <1>1, <1>4, r \in Caller, IdsAppend
<1>8. \A c \in Ids(waiters') : status'[c] = "waiting"
  BY <1>1, <1>2, <1>4, <1>7
<1>9. \A c \in Ids(ready') : status'[c] = "ready"
  BY <1>1, <1>2, <1>5
<1>10. \A c \in Caller : status'[c] = "waiting" => asked'[c] \in {Await, TimedAwait}
  BY <1>2, <1>3 DEF Queued
<1>11. Run \in Caller /\ what # <<"hello">>
  BY RequestsApart DEF Caller
<1>12. /\ asked'[Run] \in Calls /\ (phase' = "hello" => asked'[Run] = <<"hello">>)
       /\ \A c \in Caller : asked'[c] = <<"hello">> => c = Run
  BY <1>3, <1>11 DEF Queued
<1>13. waiters' \in Seq(Caller) /\ Distinct(waiters') /\ ready' \in Seq(Caller)
       /\ Distinct(ready')
  BY <1>1, <1>4, <1>6
<1>14. QED
  BY <1>2, <1>3, <1>8, <1>9, <1>10, <1>12, <1>13 DEF Queued

\* The first of the tasks that are ready leaves their queue.
LEMMA HeadLeaves ==
    ASSUME Queued, ready # <<>>, NEW c, c = Head(ready)
    PROVE  /\ c \in Caller /\ status[c] = "ready" /\ c \in Ids(ready) /\ c = ready[1]
           /\ Tail(ready) \in Seq(Caller) /\ Distinct(Tail(ready))
           /\ Ids(Tail(ready)) \subseteq Ids(ready) \ {c}
           /\ Ids(ready) \subseteq Ids(Tail(ready)) \cup {c}
           /\ Ids(waiters) \subseteq Ids(waiters) \ {c}
<1>1. PICK r : r = Tail(ready)
  OBVIOUS
<1>2. /\ \A d \in Ids(ready) : d \in Caller /\ status[d] = "ready"
      /\ \A d \in Ids(waiters) : d \in Caller /\ status[d] = "waiting"
      /\ ready \in Seq(Caller) /\ Distinct(ready)
  BY QueuedTasks
<1>3. c = ready[1]
  BY <1>2
<1>4. /\ r \in Seq(Caller) /\ Distinct(r) /\ Ids(r) = Ids(ready) \ {ready[1]}
      /\ ready[1] \in Ids(ready)
  BY ONLY <1>1, <1>2, ready # <<>>, DistinctTail
<1>5. QED
  BY <1>1, <1>2, <1>3, <1>4

\* Nothing of the tasks' queues or of the socket changes.
LEMMA FlightKept ==
    ASSUME Queued, Called, Answered,
           UNCHANGED <<phase, asked, status, ready, waiters, session, fromClient,
                       toClient, pending>>
    PROVE  Queued' /\ Called' /\ Answered'
<1>1. Claimers' = Claimers
  BY DEF Claimers
<1>2. Queued'
  BY DEF Queued
<1>3. Called'
  BY DEF Called
<1>4. Answered'
  BY <1>1 DEF Answered, IsAnswer
<1>5. QED
  BY <1>2, <1>3, <1>4

\* A notification joins the lines on their way.
LEMMA NotifyGoes ==
    ASSUME CallInv, Called, Answered, DaemonNotifies
    PROVE  Called' /\ Answered'
<1>1. PICK line, m : line = <<"note", sent + 1>> /\ m = Len(toClient)
  OBVIOUS
<1>2. /\ UNCHANGED <<asked, status, pending, session, fromClient>>
      /\ Claimers' = Claimers /\ toClient' = Append(toClient, line)
      /\ toClient \in Seq(Line) /\ line \in Line /\ ~IsAnswer(line)
  BY <1>1 DEF DaemonNotifies, tasks, client, Claimers, CallInv, CallShape, Line, IsAnswer
<1>3. /\ m \in Nat /\ DOMAIN toClient = 1..m /\ DOMAIN toClient' = 1..(m + 1)
      /\ toClient'[m + 1] = line /\ \A i \in 1..m : toClient'[i] = toClient[i]
  BY <1>1, <1>2
<1>4. \A i \in DOMAIN toClient' : IsAnswer(toClient'[i]) =>
          i \in DOMAIN toClient /\ toClient'[i] = toClient[i]
  BY <1>2, <1>3
<1>5. Called'
  BY <1>2 DEF Called
<1>6. ASSUME NEW i \in DOMAIN toClient', IsAnswer(toClient'[i])
      PROVE  /\ status'[toClient'[i][4]] = "calling"
             /\ <<toClient'[i][2], toClient'[i][4]>> \in pending'
             /\ \A j \in DOMAIN fromClient' : fromClient'[j][3] # toClient'[i][4]
  BY <1>2, <1>4, <1>6 DEF Answered
<1>7. ASSUME NEW i \in DOMAIN toClient', NEW j \in DOMAIN toClient',
             IsAnswer(toClient'[i]), IsAnswer(toClient'[j]),
             toClient'[i][4] = toClient'[j][4]
      PROVE  i = j
  BY <1>4, <1>7 DEF Answered
<1>8. Answered'
  BY <1>6, <1>7 DEF Answered, IsAnswer
<1>9. QED
  BY <1>5, <1>8

\* A session that is there has been, and so has the sidecar.
LEMMA WasLive == [Next]_vars /\ Live' => Live
<1> SUFFICES ASSUME [Next]_vars, Live', ~Live PROVE FALSE
  OBVIOUS
<1>1. daemon' = "up" /\ phase' # "ended"
  BY DEF Live
<1>2. daemon = "up"
  <2>1. daemon' = daemon \/ daemon' \in {"mute", "gone"}
    BY DEF Next, Host, PeerAwait, ToolCall, PeerInbox, StdinCloses, ReadLine, ReadEnds,
           ReadOverruns, Forward, Resume, TimesOut, DaemonAnswers, DaemonNotifies,
           DaemonMutes, DaemonGoes, peerd, vars
  <2>2. QED
    BY <1>1, <2>1
<1>3. phase = "ended"
  BY <1>2 DEF Live
<1>4. QED
  <2>1. Resume => FALSE
    BY <1>3 DEF Resume
  <2>2. phase' = phase
    BY <1>3, <2>1 DEF Next, Host, PeerAwait, ToolCall, PeerInbox, StdinCloses, ReadLine,
           ReadEnds, ReadOverruns, Forward, TimesOut, DaemonAnswers, DaemonNotifies,
           DaemonMutes, DaemonGoes, vars
  <2>3. QED
    BY <1>1, <1>3, <2>2

\* Each kind of step keeps tasks, calls and answers where they belong.
LEMMA FlightStep == CallInv /\ FlightInv /\ [Next]_vars => FlightInv'
<1> SUFFICES ASSUME CallInv, FlightInv, [Next]_vars, Live'
             PROVE  Queued' /\ Called' /\ Answered'
  BY DEF FlightInv
<1>0. /\ Live /\ Queued /\ Called /\ Answered /\ daemon = "up" /\ Listening
      /\ fromClient \in Seq(Sent) /\ toClient \in Seq(Line)
      /\ status = [c \in Caller |-> status[c]] /\ asked = [c \in Caller |-> asked[c]]
      /\ phase' # "ended" /\ daemon' = "up"
  <2>1. Live
    BY WasLive
  <2>2. QED
    BY <2>1 DEF FlightInv, Live, Listening, Queued, CallInv, CallShape
<1>1. ASSUME NEW r \in Caller, NEW s, status' = [status EXCEPT ![r] = s],
             status[r] # "calling",
             \A c \in Caller : c # r => asked'[c] = asked[c],
             UNCHANGED <<session, fromClient, toClient, pending>>
      PROVE  Called' /\ Answered'
  <2>1. \A c \in Caller : status[c] = "calling" =>
            status'[c] = "calling" /\ asked'[c] = asked[c]
    BY <1>0, <1>1
  <2>2. QED
    BY <1>0, <1>1, <2>1, WayKept
<1>2. ASSUME NEW r \in Req, NEW what \in {Await, TimedAwait}, PeerAwait(r, what)
      PROVE  Queued' /\ Called' /\ Answered'
  <2>1. /\ r \in Caller /\ r # Run /\ status[r] = "idle"
        /\ asked' = [asked EXCEPT ![r] = what]
        /\ UNCHANGED <<phase, ready, session, fromClient, toClient, pending>>
    BY <1>2, TasksAssumption DEF PeerAwait, Caller, client, peerd, socket
  <2>2. \A c \in Caller : c # r => asked'[c] = asked[c]
    BY <1>0, <2>1
  <2>3. /\ r \notin Ids(ready) /\ r \notin Ids(waiters)
        /\ ready \in Seq(Caller) /\ Distinct(ready)
        /\ waiters \in Seq(Caller) /\ Distinct(waiters)
    BY <1>0, <2>1, QueuedTasks
  <2>4. CASE inbox # <<>>
    <3>1. status' = [status EXCEPT ![r] = "done"] /\ waiters' = waiters
      BY <1>2, <2>4 DEF PeerAwait, Finish
    <3>2. /\ ready' \in Seq(Caller) /\ Distinct(ready')
          /\ Ids(ready') \subseteq Ids(ready) \ {r}
          /\ waiters' \in Seq(Caller) /\ Distinct(waiters')
          /\ Ids(waiters') \subseteq Ids(waiters) \ {r}
      BY <2>1, <2>3, <3>1
    <3>3. Queued'
      BY <1>0, <2>1, <3>1, <3>2, TaskMoves
    <3>4. QED
      BY <1>1, <2>1, <2>2, <3>1, <3>3
  <2>5. CASE inbox = <<>>
    <3>1. status' = [status EXCEPT ![r] = "waiting"] /\ waiters' = Append(waiters, r)
      BY <1>2, <2>5 DEF PeerAwait
    <3>2. Queued'
      BY <1>0, <2>1, <3>1, WaitQueues
    <3>3. QED
      BY <1>1, <2>1, <2>2, <3>1, <3>2
  <2>6. QED
    BY <2>4, <2>5
<1>3. ASSUME NEW r \in Req, NEW what \in Calls \ {<<"hello">>}, ToolCall(r, what)
      PROVE  Queued' /\ Called' /\ Answered'
  <2>1. /\ r \in Caller /\ r # Run /\ status[r] = "idle" /\ Call(r, what)
        /\ UNCHANGED <<phase, ready, waiters, session, toClient>>
    BY <1>3, TasksAssumption DEF ToolCall, Caller, box, peerd
  <2>2. /\ asked' = [asked EXCEPT ![r] = what]
        /\ status' = [status EXCEPT ![r] = "calling"]
    BY <1>0, <2>1 DEF Call
  <2>3. /\ r \notin Ids(ready) /\ r \notin Ids(waiters)
        /\ ready \in Seq(Caller) /\ Distinct(ready)
        /\ waiters \in Seq(Caller) /\ Distinct(waiters)
    BY <1>0, <2>1, QueuedTasks
  <2>4. /\ ready' \in Seq(Caller) /\ Distinct(ready')
        /\ Ids(ready') \subseteq Ids(ready) \ {r}
        /\ waiters' \in Seq(Caller) /\ Distinct(waiters')
        /\ Ids(waiters') \subseteq Ids(waiters) \ {r}
    BY <2>1, <2>3
  <2>5. Queued'
    BY <1>0, <2>1, <2>2, <2>4, TaskMoves
  <2>6. Called' /\ Answered'
    BY <1>0, <2>1, CallGoes
  <2>7. QED
    BY <2>5, <2>6
<1>4. ASSUME Resume PROVE Queued' /\ Called' /\ Answered'
  <2>1. PICK c, rest : c = Head(ready) /\ rest = Tail(ready)
    OBVIOUS
  <2>2. /\ ready # <<>> /\ ready' = rest
        /\ UNCHANGED <<session, toClient>>
    BY <1>4, <2>1 DEF Resume, peerd
  <2>3. /\ c \in Caller /\ status[c] = "ready" /\ c \in Ids(ready)
        /\ rest \in Seq(Caller) /\ Distinct(rest)
        /\ Ids(rest) \subseteq Ids(ready) \ {c}
        /\ Ids(waiters) \subseteq Ids(waiters) \ {c}
    BY <1>0, <2>1, <2>2, HeadLeaves
  <2>4. /\ ready' \in Seq(Caller) /\ Distinct(ready')
        /\ Ids(ready') \subseteq Ids(ready) \ {c}
    BY <2>2, <2>3
  <2>5. waiters \in Seq(Caller) /\ Distinct(waiters)
    BY <1>0, QueuedTasks
  <2>6. CASE c = Run
    <3>1. RunResumes
      BY <1>4, <2>1, <2>6 DEF Resume
    <3>2. waiters' = waiters
      BY <3>1 DEF RunResumes, box
    <3>3. CASE phase = "hello" /\ InitialAlias # None
      <4>1. Call(Run, SetAliasTo(InitialAlias)) /\ phase' = "alias"
        BY <1>0, <3>1, <3>3 DEF RunResumes
      <4>2. PICK what : what = SetAliasTo(InitialAlias)
        OBVIOUS
      <4>3. what \in Calls \ {<<"hello">>} /\ Call(c, what)
        BY <2>6, <4>1, <4>2, AliasAssumption, RequestsApart
      <4>4. /\ asked' = [asked EXCEPT ![c] = what]
            /\ status' = [status EXCEPT ![c] = "calling"]
        BY <1>0, <4>3 DEF Call
      <4>5. asked'[c] = what
        BY <1>0, <2>3, <4>4
      <4>6. Called' /\ Answered'
        BY <1>0, <2>2, <2>3, <4>3, CallGoes
      <4>7. Queued'
        BY <1>0, <2>3, <2>4, <2>5, <2>6, <3>2, <4>1, <4>3, <4>4, <4>5, TaskMoves
      <4>8. QED
        BY <4>6, <4>7
    <3>4. CASE ~(phase = "hello" /\ InitialAlias # None)
      <4>1. /\ phase' = "serving" /\ status' = [status EXCEPT ![c] = "done"]
            /\ UNCHANGED <<asked, pending, fromClient>>
        BY <2>6, <3>1, <3>4 DEF RunResumes
      <4>2. Called' /\ Answered'
        BY <1>1, <2>2, <2>3, <4>1
      <4>3. asked[Run] \in Calls
        BY <1>0 DEF Queued
      <4>4. Queued'
        BY <1>0, <2>3, <2>4, <2>5, <2>6, <3>2, <4>1, <4>3, TaskMoves
      <4>5. QED
        BY <4>2, <4>4
    <3>5. QED
      BY <3>3, <3>4
  <2>7. CASE c # Run
    <3>1. /\ status' = [status EXCEPT ![c] = "done"]
          /\ UNCHANGED <<phase, asked, waiters, pending, fromClient>>
      BY <1>4, <2>1, <2>7 DEF Resume, AwaitResumes, CallResumes, Finish, box
    <3>2. Called' /\ Answered'
      BY <1>1, <2>2, <2>3, <3>1
    <3>3. Queued'
      BY <1>0, <2>3, <2>4, <2>5, <2>7, <3>1, TaskMoves
    <3>4. QED
      BY <3>2, <3>3
  <2>8. QED
    BY <2>6, <2>7
<1>5. ASSUME NEW r \in Req, TimesOut(r) PROVE Queued' /\ Called' /\ Answered'
  <2>1. /\ r \in Caller /\ r # Run /\ status[r] # "calling"
        /\ status' = [status EXCEPT ![r] = "done"]
        /\ UNCHANGED <<phase, asked, session, fromClient, toClient, pending>>
        /\ waiters' = Without(waiters, r) /\ ready' = Without(ready, r)
    BY <1>5, TasksAssumption DEF TimesOut, Finish, Caller, client, peerd, socket
  <2>2. /\ ready \in Seq(Caller) /\ Distinct(ready)
        /\ waiters \in Seq(Caller) /\ Distinct(waiters)
    BY <1>0, QueuedTasks
  <2>3. PICK w, q : w = Without(waiters, r) /\ q = Without(ready, r)
    OBVIOUS
  <2>4. w \in Seq(Caller) /\ Distinct(w) /\ Ids(w) = Ids(waiters) \ {r}
    BY ONLY <2>2, <2>3, WithoutDistinct
  <2>5. q \in Seq(Caller) /\ Distinct(q) /\ Ids(q) = Ids(ready) \ {r}
    BY ONLY <2>2, <2>3, WithoutDistinct
  <2>6. /\ ready' \in Seq(Caller) /\ Distinct(ready')
        /\ Ids(ready') \subseteq Ids(ready) \ {r}
        /\ waiters' \in Seq(Caller) /\ Distinct(waiters')
        /\ Ids(waiters') \subseteq Ids(waiters) \ {r}
    BY <2>1, <2>3, <2>4, <2>5
  <2>7. Queued'
    BY <1>0, <2>1, <2>6, TaskMoves
  <2>8. QED
    BY <1>1, <2>1, <2>7
<1>6. ASSUME Forward PROVE Queued' /\ Called' /\ Answered'
  <2>1. /\ UNCHANGED <<session, fromClient, toClient, pending, asked>>
        /\ status' = [c \in Caller |-> IF c \in Ids(waiters) THEN "ready" ELSE status[c]]
    BY <1>6 DEF Forward, peerd, socket
  <2>2. \A c \in Ids(waiters) : status[c] = "waiting"
    BY <1>0, QueuedTasks
  <2>3. \A c \in Caller : status[c] = "calling" =>
            status'[c] = "calling" /\ asked'[c] = asked[c]
    BY <2>1, <2>2
  <2>4. Called' /\ Answered'
    BY <1>0, <2>1, <2>3, WayKept
  <2>5. QED
    BY <1>0, <1>6, <2>4, ForwardQueues
<1>7. CASE DaemonAnswers
  <2>1. UNCHANGED <<phase, asked, status, ready, waiters>>
    BY <1>7 DEF DaemonAnswers, tasks, box
  <2>2. Queued'
    BY <1>0, <2>1 DEF Queued
  <2>3. QED
    BY <1>0, <1>7, <2>2, AnswerGoes
<1>8. CASE DaemonNotifies
  <2>1. UNCHANGED <<phase, asked, status, ready, waiters>>
    BY <1>8 DEF DaemonNotifies, tasks, box
  <2>2. Queued'
    BY <1>0, <2>1 DEF Queued
  <2>3. QED
    BY <1>0, <1>8, <2>2, NotifyGoes
<1>9. CASE ReadLine
  BY <1>0, <1>9, ReadGoes
<1>10. CASE ReadOverruns \/ (\E limit \in Limits : PeerInbox(limit)) \/ UNCHANGED vars
  <2>1. UNCHANGED <<phase, asked, status, ready, waiters, session, fromClient,
                    toClient, pending>>
    BY <1>10 DEF ReadOverruns, PeerInbox, vars, tasks, box, client, peerd, socket
  <2>2. QED
    BY <1>0, <2>1, FlightKept
<1>11. CASE StdinCloses \/ ReadEnds \/ DaemonMutes \/ DaemonGoes
  BY <1>0, <1>11 DEF StdinCloses, ReadEnds, DaemonMutes, DaemonGoes
<1>12. QED
  BY <1>2, <1>3, <1>4, <1>5, <1>6, <1>7, <1>8, <1>9, <1>10, <1>11 DEF Next, Host

\* Whether a task claims, and for which alias, is about what it was asked.
LEMMA ClaimKept ==
    ASSUME NEW c \in Caller, asked'[c] = asked[c]
    PROVE  /\ c \in Claimers' <=> c \in Claimers
           /\ Held' = Held => (c \in Fits' <=> c \in Fits)
BY DEF Claimers, Fits

\* The answers on their way.
LEMMA AnswersOut ==
    ASSUME toClient \in Seq(Line), Answered, NEW line \in Ids(toClient), IsAnswer(line)
    PROVE  /\ line[4] \in Caller /\ status[line[4]] = "calling"
<1>1. PICK i \in DOMAIN toClient : toClient[i] = line
  BY DEF Ids
<1>2. line \in Line
  BY <1>1
<1>3. line[4] \in Caller
  BY <1>2 DEF Line, IsAnswer
<1>4. QED
  BY <1>1, <1>3 DEF Answered

\* A claim that failed half-way stays one.
LEMMA HalfKept ==
    ASSUME \A line \in HalfLines : line \in Ids(toClient') /\ line[4] \in Claimers',
           \A c \in Claimers : status[c] \in {"ready", "done"} =>
               /\ c \in Claimers' /\ status'[c] \in {"ready", "done"}
               /\ answer'[c] = answer[c]
    PROVE  HalfDone => HalfDone'
<1>1. CASE HalfLines # {}
  <2>1. HalfLines' # {}
    BY <1>1 DEF HalfLines, IsAnswer
  <2>2. QED
    BY <2>1 DEF HalfDone
<1>2. CASE \E c \in Claimers : status[c] \in {"ready", "done"} /\ answer[c][1] = "internal"
  <2>1. PICK c \in Claimers : status[c] \in {"ready", "done"} /\ answer[c][1] = "internal"
    BY <1>2
  <2>2. c \in Claimers' /\ status'[c] \in {"ready", "done"} /\ answer'[c][1] = "internal"
    BY <2>1
  <2>3. QED
    BY <2>2 DEF HalfDone
<1>3. QED
  BY <1>1, <1>2 DEF HalfDone

\* A step that leaves the lines and those who wait for them alone.
LEMMA OkLinesKept ==
    ASSUME toClient \in Seq(Line), Answered, UNCHANGED <<toClient, session>>,
           \A c \in Caller : status[c] = "calling" => asked'[c] = asked[c]
    PROVE  /\ OkLines' = OkLines
           /\ LastIn(toClient, OkLines, FitLines) => LastIn(toClient, OkLines, FitLines)'
<1>1. Held' = Held
  BY DEF Held
<1>2. ASSUME NEW line \in Ids(toClient), IsAnswer(line)
      PROVE  /\ line[4] \in Claimers' <=> line[4] \in Claimers
             /\ line[4] \in Fits' <=> line[4] \in Fits
  <2>1. line[4] \in Caller /\ asked'[line[4]] = asked[line[4]]
    BY <1>2, AnswersOut
  <2>2. QED
    BY <1>1, <2>1, ClaimKept
<1>3. Ids(toClient') = Ids(toClient)
  OBVIOUS
<1>4. OkLines' = OkLines
  BY <1>2, <1>3 DEF OkLines, IsAnswer
<1>5. FitLines' = FitLines
  BY <1>2, <1>3 DEF FitLines, IsAnswer
<1>6. QED
  BY <1>4, <1>5

\* A step that leaves some of the ready tasks, and brings none that claims.
LEMMA OkTasksKept ==
    ASSUME Queued, Held' = Held,
           \A c \in Ids(ready) \cap Ids(ready') :
               asked'[c] = asked[c] /\ answer'[c] = answer[c],
           \A c \in Ids(ready') \ Ids(ready) : c \notin OkTasks'
    PROVE  /\ OkTasks' = OkTasks \cap Ids(ready')
           /\ LastIn(ready', OkTasks, Fits) => LastIn(ready', OkTasks', Fits')
<1>1. \A c \in Ids(ready) : c \in Caller
  BY QueuedTasks
<1>2. ASSUME NEW c \in Ids(ready) \cap Ids(ready')
      PROVE  (c \in OkTasks' <=> c \in OkTasks) /\ (c \in Fits' <=> c \in Fits)
  <2>1. (c \in Claimers' <=> c \in Claimers) /\ (c \in Fits' <=> c \in Fits)
    BY <1>1, ClaimKept
  <2>2. QED
    BY <2>1 DEF OkTasks
<1>3. OkTasks \subseteq Ids(ready) /\ OkTasks' \subseteq Ids(ready')
  BY DEF OkTasks
<1>4. \A c \in Ids(ready') : (c \in OkTasks' <=> c \in OkTasks)
                             /\ (c \in OkTasks \cap Fits => c \in Fits')
  BY <1>2, <1>3
<1>5. OkTasks' = OkTasks \cap Ids(ready')
  BY <1>3, <1>4
<1>6. PICK q, A, B, G, H : q = ready' /\ A = OkTasks /\ B = OkTasks' /\ G = Fits /\ H = Fits'
  OBVIOUS
<1>7. LastIn(q, A, G) => LastIn(q, B, H)
  <2>1. \A c \in Ids(q) : (c \in B <=> c \in A) /\ (c \in A \cap G => c \in H)
    BY <1>4, <1>6
  <2>2. QED
    BY ONLY <2>1, LastSame
<1>8. LastIn(ready', OkTasks, Fits) => LastIn(ready', OkTasks', Fits')
  BY <1>6, <1>7
<1>9. QED
  BY <1>5, <1>8

\* A step that leaves all of this alone.
LEMMA MirrorKept ==
    ASSUME toClient \in Seq(Line), Queued, Answered,
           UNCHANGED <<toClient, session, ready, current_alias>>,
           \A c \in Caller : status[c] \in {"calling", "ready", "done"} =>
               asked'[c] = asked[c],
           \A c \in Caller : status[c] \in {"ready", "done"} =>
               answer'[c] = answer[c] /\ status'[c] = status[c]
    PROVE  (HalfDone => HalfDone') /\ (Mirrors => Mirrors')
<1>1. HalfDone => HalfDone'
  <2>1. ASSUME NEW c \in Claimers, status[c] \in {"ready", "done"}
        PROVE  /\ c \in Claimers' /\ status'[c] \in {"ready", "done"}
               /\ answer'[c] = answer[c]
    <3>1. c \in Caller
      BY DEF Claimers
    <3>2. QED
      BY <2>1, <3>1, ClaimKept
  <2>2. ASSUME NEW line \in HalfLines
        PROVE  line \in Ids(toClient') /\ line[4] \in Claimers'
    <3>1. line \in Ids(toClient) /\ IsAnswer(line) /\ line[4] \in Claimers
      BY DEF HalfLines
    <3>2. line[4] \in Caller /\ asked'[line[4]] = asked[line[4]]
      BY <3>1, AnswersOut
    <3>3. QED
      BY <3>1, <3>2, ClaimKept
  <2>3. QED
    BY <2>1, <2>2, HalfKept
<1>2. /\ OkLines' = OkLines
      /\ LastIn(toClient, OkLines, FitLines) => LastIn(toClient, OkLines, FitLines)'
  BY OkLinesKept
<1>3. Held' = Held /\ Ids(ready') = Ids(ready)
  BY DEF Held
<1>4. \A c \in Ids(ready) : asked'[c] = asked[c] /\ answer'[c] = answer[c]
  BY QueuedTasks
<1>5. /\ OkTasks' = OkTasks \cap Ids(ready')
      /\ LastIn(ready', OkTasks, Fits) => LastIn(ready', OkTasks', Fits')
  BY <1>3, <1>4, OkTasksKept
<1>6. OkTasks \subseteq Ids(ready)
  BY DEF OkTasks
<1>7. OkTasks' = OkTasks
  BY <1>3, <1>5, <1>6
<1>8. QED
  BY <1>1, <1>2, <1>3, <1>5, <1>7 DEF Mirrors

\* A line that is no claim carried out joins those on their way.
LEMMA LineJoins ==
    ASSUME Queued, Mirrors, toClient \in Seq(Line), NEW line \in Line,
           ~(IsAnswer(line) /\ line[3] = "ok" /\ line[4] \in Claimers),
           toClient' = Append(toClient, line), Held' = Held,
           UNCHANGED <<asked, answer, ready, current_alias>>
    PROVE  Mirrors'
<1>1. PICK q, r : q = toClient /\ r = toClient'
  OBVIOUS
<1>2. Ids(r) = Ids(q) \cup {line}
  BY ONLY <1>1, toClient \in Seq(Line), toClient' = Append(toClient, line),
          line \in Line, IdsAppend
<1>3. Claimers' = Claimers /\ Fits' = Fits /\ OkTasks' = OkTasks
  BY DEF Claimers, Fits, OkTasks
<1>4. OkLines' = OkLines
  BY <1>1, <1>2, <1>3 DEF OkLines, IsAnswer
<1>5. FitLines \subseteq FitLines' /\ line \notin OkLines
  BY <1>1, <1>2, <1>3 DEF FitLines, OkLines, IsAnswer
<1>6. PICK A, G, H : A = OkLines /\ G = FitLines /\ H = FitLines'
  OBVIOUS
<1>7. LastIn(q, A, H)
  <2>1. LastIn(q, A, G) /\ \A x \in Ids(q) : (x \in A <=> x \in A)
                                             /\ (x \in A \cap G => x \in H)
    BY <1>1, <1>5, <1>6 DEF Mirrors
  <2>2. QED
    BY ONLY <2>1, LastSame
<1>8. LastIn(r, A, H)
  <2>1. line \notin A /\ q \in Seq(Line) /\ r = Append(q, line)
    BY <1>1, <1>5, <1>6
  <2>2. QED
    BY ONLY <2>1, <1>7, line \in Line, LastAppend
<1>9. LastIn(toClient', OkLines', FitLines')
  BY <1>1, <1>4, <1>6, <1>8
<1>10. QED
  BY <1>3, <1>4, <1>9 DEF Mirrors

\* The daemon answers: a claim it carries out becomes the last one on its way, and
\* nothing else changes what it holds.
LEMMA AnswerMirrors ==
    ASSUME CallInv, Queued, Called, Answered, daemon = "up", DaemonAnswers
    PROVE  (HalfDone => HalfDone') /\ (~HalfDone' /\ Mirrors => Mirrors')
<1>1. PICK call \in Sent, o \in Outcome :
             /\ fromClient # <<>> /\ call = fromClient[1] /\ fromClient' = Tail(fromClient)
             /\ toClient' = Append(toClient, <<"answer", call[1], o, call[3]>>)
             /\ call[3] \in Caller /\ asked[call[3]] = call[2]
             /\ session = "none" /\ session' # "none" =>
                  call[3] = Run /\ session' = None /\ call[3] \notin Claimers
             /\ session = "none" /\ call[3] \in Claimers => o = "refused"
             /\ session # "none" => session' # "none"
             /\ session' \in Alias \cup {None, "none"}
             /\ call[3] \in Claimers /\ o = "ok" => asked[call[3]] = SetAliasTo(session')
             /\ ~(call[3] \in Claimers /\ o # "refused") =>
                  session' = session \/ (session = "none" /\ session' = None)
  BY AnswerMeans
<1>2. /\ UNCHANGED <<asked, status, answer, ready, current_alias>>
      /\ toClient \in Seq(Line)
  BY DEF DaemonAnswers, tasks, CallInv, CallShape
<1>3. PICK line, by : by = call[3] /\ line = <<"answer", call[1], o, by>>
  OBVIOUS
<1>4. /\ line \in Line /\ IsAnswer(line) /\ line[3] = o /\ line[4] = by
      /\ toClient' = Append(toClient, line) /\ by \in Caller
  <2>1. call[1] \in Nat /\ by \in Caller
    BY <1>1, <1>3 DEF Sent
  <2>2. QED
    BY <1>1, <1>3, <2>1 DEF Line, IsAnswer
<1>5. PICK q, r : q = toClient /\ r = toClient'
  OBVIOUS
<1>6. Ids(r) = Ids(q) \cup {line}
  BY ONLY <1>2, <1>4, <1>5, IdsAppend
<1>7. Claimers' = Claimers
  BY <1>2 DEF Claimers
<1>8. HalfDone => HalfDone'
  <2>1. \A x \in HalfLines : x \in Ids(toClient') /\ x[4] \in Claimers'
    BY <1>5, <1>6, <1>7 DEF HalfLines
  <2>2. QED
    BY <1>2, <1>7, <2>1, HalfKept
<1>9. o = "internal" /\ by \in Claimers => HalfDone'
  BY <1>4, <1>5, <1>6, <1>7 DEF HalfDone, HalfLines, IsAnswer
<1>10. CASE by \in Claimers /\ o = "ok"
  <2>1. session' # "none" /\ asked[by] = SetAliasTo(session')
    BY <1>1, <1>3, <1>10
  <2>2. by \in Fits' /\ by \in Claimers'
    BY <1>2, <1>4, <1>7, <1>10, <2>1 DEF Fits, Held
  <2>3. line \in OkLines' \cap FitLines'
    BY <1>4, <1>5, <1>6, <1>10, <2>2 DEF OkLines, FitLines, IsAnswer
  <2>4. PICK A, G : A = OkLines' /\ G = FitLines'
    OBVIOUS
  <2>5. LastIn(r, A, G)
    BY ONLY <1>2, <1>4, <1>5, <2>3, <2>4, LastAppend
  <2>6. LastIn(toClient', OkLines', FitLines') /\ OkLines' # {}
    BY <1>5, <2>3, <2>4, <2>5
  <2>7. Mirrors'
    BY <2>6 DEF Mirrors
  <2>8. QED
    BY <1>8, <2>7
<1>11. CASE ~(by \in Claimers /\ o = "ok") /\ ~(by \in Claimers /\ o = "internal")
  <2>1. o = "refused" \/ by \notin Claimers
    BY <1>11 DEF Outcome
  <2>2. Held' = Held
    BY <1>1, <1>3, <2>1 DEF Held
  <2>3. ~(IsAnswer(line) /\ line[3] = "ok" /\ line[4] \in Claimers)
    BY <1>4, <1>11
  <2>4. Mirrors => Mirrors'
    BY <1>2, <1>4, <2>2, <2>3, LineJoins
  <2>5. QED
    BY <1>8, <2>4
<1>12. QED
  BY <1>8, <1>9, <1>10, <1>11

\* The daemon notifies.
LEMMA NotifyMirrors ==
    ASSUME CallInv, Queued, DaemonNotifies
    PROVE  (HalfDone => HalfDone') /\ (Mirrors => Mirrors')
<1>1. PICK line : line = <<"note", sent + 1>>
  OBVIOUS
<1>2. /\ UNCHANGED <<asked, status, answer, ready, current_alias, session>>
      /\ toClient' = Append(toClient, line)
      /\ toClient \in Seq(Line) /\ line \in Line /\ ~IsAnswer(line)
  BY <1>1 DEF DaemonNotifies, tasks, CallInv, CallShape, Line, IsAnswer
<1>3. PICK q, r : q = toClient /\ r = toClient'
  OBVIOUS
<1>4. Ids(r) = Ids(q) \cup {line}
  BY ONLY <1>2, <1>3, IdsAppend
<1>5. Claimers' = Claimers /\ Held' = Held
  BY <1>2 DEF Claimers, Held
<1>6. HalfDone => HalfDone'
  <2>1. \A x \in HalfLines : x \in Ids(toClient') /\ x[4] \in Claimers'
    BY <1>3, <1>4, <1>5 DEF HalfLines
  <2>2. QED
    BY <1>2, <1>5, <2>1, HalfKept
<1>7. Mirrors => Mirrors'
  BY <1>2, <1>5, LineJoins
<1>8. QED
  BY <1>6, <1>7

\* The waiting tasks that resume claim nothing.
LEMMA ForwardMirrors ==
    ASSUME CallInv, Queued, Answered, Forward
    PROVE  (HalfDone => HalfDone') /\ (Mirrors => Mirrors')
<1>1. /\ UNCHANGED <<asked, answer, current_alias, session, toClient>>
      /\ ready' = ready \o waiters /\ toClient \in Seq(Line)
      /\ status' = [c \in Caller |-> IF c \in Ids(waiters) THEN "ready" ELSE status[c]]
  BY DEF Forward, peerd, socket, CallInv, CallShape
<1>2. /\ \A c \in Ids(ready) : c \in Caller /\ status[c] = "ready"
      /\ \A c \in Ids(waiters) : c \in Caller /\ status[c] = "waiting"
      /\ ready \in Seq(Caller) /\ waiters \in Seq(Caller)
  BY QueuedTasks
<1>3. PICK q, w, r : q = ready /\ w = waiters /\ r = ready'
  OBVIOUS
<1>4. Ids(r) = Ids(q) \cup Ids(w)
  BY ONLY <1>1, <1>2, <1>3, IdsConcat
<1>5. Claimers' = Claimers /\ Held' = Held
  BY <1>1 DEF Claimers, Held
<1>6. \A c \in Ids(waiters) : c \notin Claimers
  <2>1. ASSUME NEW c \in Ids(waiters) PROVE c \notin Claimers
    <3>1. c \in Caller /\ asked[c] \in {Await, TimedAwait}
      BY <1>2 DEF Queued
    <3>2. QED
      BY <3>1, ClaimsApart
  <2>2. QED
    BY <2>1
<1>7. HalfDone => HalfDone'
  <2>1. ASSUME NEW c \in Claimers, status[c] \in {"ready", "done"}
        PROVE  /\ c \in Claimers' /\ status'[c] \in {"ready", "done"}
               /\ answer'[c] = answer[c]
    BY <1>1, <1>5, <2>1 DEF Claimers
  <2>2. \A x \in HalfLines : x \in Ids(toClient') /\ x[4] \in Claimers'
    BY <1>1, <1>5 DEF HalfLines
  <2>3. QED
    BY <2>1, <2>2, HalfKept
<1>8. /\ OkLines' = OkLines
      /\ LastIn(toClient, OkLines, FitLines) => LastIn(toClient, OkLines, FitLines)'
  BY <1>1, OkLinesKept
<1>9. /\ OkTasks' = OkTasks \cap Ids(ready')
      /\ LastIn(ready', OkTasks, Fits) => LastIn(ready', OkTasks', Fits')
  <2>1. \A c \in Ids(ready') \ Ids(ready) : c \notin OkTasks'
    BY <1>3, <1>4, <1>5, <1>6 DEF OkTasks
  <2>2. QED
    BY <1>1, <1>5, <2>1, OkTasksKept
<1>10. OkTasks \subseteq Ids(ready) /\ OkTasks \subseteq Claimers
  BY DEF OkTasks
<1>11. OkTasks' = OkTasks
  BY <1>3, <1>4, <1>9, <1>10
<1>12. LastIn(ready, OkTasks, Fits) => LastIn(ready', OkTasks, Fits)
  <2>1. PICK A, G : A = OkTasks /\ G = Fits
    OBVIOUS
  <2>2. Ids(w) \cap A = {} /\ r = q \o w /\ q \in Seq(Caller) /\ w \in Seq(Caller)
    BY <1>1, <1>2, <1>3, <1>6, <1>10, <2>1
  <2>3. LastIn(q, A, G) => LastIn(r, A, G)
    BY ONLY <2>2, LastConcat
  <2>4. QED
    BY <1>3, <2>1, <2>3
<1>13. QED
  BY <1>1, <1>5, <1>7, <1>8, <1>9, <1>11, <1>12 DEF Mirrors

\* A task that gives up waiting does not claim either.
LEMMA TimesOutMirrors ==
    ASSUME CallInv, Queued, Answered, NEW r \in Req, TimesOut(r)
    PROVE  (HalfDone => HalfDone') /\ (Mirrors => Mirrors')
<1>1. /\ UNCHANGED <<asked, current_alias, session, toClient>>
      /\ ready' = Without(ready, r) /\ toClient \in Seq(Line)
      /\ status' = [status EXCEPT ![r] = "done"]
      /\ answer' = [answer EXCEPT ![r] = <<"timeout">>]
      /\ asked[r] = TimedAwait /\ r \in Caller
  BY DEF TimesOut, Finish, peerd, socket, CallInv, CallShape, Caller
<1>2. /\ status = [c \in Caller |-> status[c]] /\ answer = [c \in Caller |-> answer[c]]
      /\ ready \in Seq(Caller) /\ Distinct(ready)
  BY DEF Queued, CallInv, CallShape
<1>3. r \notin Claimers
  BY <1>1, ClaimsApart
<1>4. Claimers' = Claimers /\ Held' = Held
  BY <1>1 DEF Claimers, Held
<1>5. \A c \in Caller : c # r => status'[c] = status[c] /\ answer'[c] = answer[c]
  BY <1>1, <1>2
<1>6. HalfDone => HalfDone'
  <2>1. \A c \in Claimers : c \in Caller /\ c # r
    BY <1>3 DEF Claimers
  <2>2. \A x \in HalfLines : x \in Ids(toClient') /\ x[4] \in Claimers'
    BY <1>1, <1>4 DEF HalfLines
  <2>3. QED
    BY <1>1, <1>4, <1>5, <2>1, <2>2, HalfKept
<1>7. PICK q, s : q = ready /\ s = ready'
  OBVIOUS
<1>8. Ids(s) = Ids(q) \ {r}
  BY ONLY <1>1, <1>2, <1>7, WithoutDistinct
<1>9. /\ OkLines' = OkLines
      /\ LastIn(toClient, OkLines, FitLines) => LastIn(toClient, OkLines, FitLines)'
  BY <1>1, OkLinesKept
<1>10. /\ OkTasks' = OkTasks \cap Ids(ready')
       /\ LastIn(ready', OkTasks, Fits) => LastIn(ready', OkTasks', Fits')
  <2>1. \A c \in Ids(ready) \cap Ids(ready') : c \in Caller /\ c # r
    BY <1>7, <1>8, QueuedTasks
  <2>2. \A c \in Ids(ready') \ Ids(ready) : c \notin OkTasks'
    BY <1>7, <1>8
  <2>3. QED
    BY <1>1, <1>4, <1>5, <2>1, <2>2, OkTasksKept
<1>11. OkTasks \subseteq Ids(ready) /\ r \notin OkTasks
  BY <1>3 DEF OkTasks
<1>12. OkTasks' = OkTasks
  BY <1>7, <1>8, <1>10, <1>11
<1>13. LastIn(ready, OkTasks, Fits) => LastIn(ready', OkTasks, Fits)
  <2>1. PICK A, G : A = OkTasks /\ G = Fits
    OBVIOUS
  <2>2. r \notin A /\ s = Without(q, r) /\ q \in Seq(Caller)
    BY <1>1, <1>2, <1>7, <1>11, <2>1
  <2>3. LastIn(q, A, G) => LastIn(s, A, G)
    BY ONLY <2>2, LastWithout
  <2>4. QED
    BY <1>7, <2>1, <2>3
<1>14. QED
  BY <1>1, <1>4, <1>6, <1>9, <1>10, <1>12, <1>13 DEF Mirrors

\* A claim that comes back is the next task to tell of one.
LEMMA ReadMirrors ==
    ASSUME CallInv, Queued, Called, Answered, ReadLine
    PROVE  (HalfDone => HalfDone') /\ (~HalfDone' /\ Mirrors => Mirrors')
<1>1. /\ toClient # <<>> /\ toClient \in Seq(Line) /\ toClient' = Tail(toClient)
      /\ UNCHANGED <<session, asked, current_alias>>
      /\ Claimers' = Claimers /\ Held' = Held /\ Fits' = Fits
  BY DEF ReadLine, CallInv, CallShape, peerd, Claimers, Held, Fits
<1>2. PICK q, r, line : q = toClient /\ r = toClient' /\ line = q[1]
  OBVIOUS
<1>3. r \in Seq(Line) /\ Ids(q) = {line} \cup Ids(r)
  BY ONLY <1>1, <1>2, IdsTail
<1>4. line = toClient[1] /\ line = Head(toClient)
  BY <1>1, <1>2
<1>5. OkLines' = OkLines \cap Ids(r)
  BY <1>1, <1>2, <1>3 DEF OkLines, IsAnswer
<1>6. FitLines' = FitLines \cap Ids(r)
  BY <1>1, <1>2, <1>3 DEF FitLines, IsAnswer
<1>7. PICK A, G, B, H : A = OkLines /\ G = FitLines /\ B = OkLines' /\ H = FitLines'
  OBVIOUS
<1>8. LastIn(q, A, G) => LastIn(r, B, H) /\ (line \in A /\ Ids(r) \cap A = {} => line \in G)
  <2>1. \A x \in Ids(r) : (x \in B <=> x \in A) /\ (x \in A \cap G => x \in H)
    BY <1>5, <1>6, <1>7
  <2>2. q \in Seq(Line) /\ q # <<>> /\ r = Tail(q) /\ line = q[1]
    BY <1>1, <1>2
  <2>3. LastIn(q, A, G) => LastIn(r, A, G)
                           /\ (line \in A /\ Ids(r) \cap A = {} => line \in G)
    BY ONLY <2>2, LastTail
  <2>4. LastIn(r, A, G) => LastIn(r, B, H)
    BY ONLY <2>1, LastSame
  <2>5. QED
    BY <2>3, <2>4
<1>9. Mirrors => LastIn(toClient', OkLines', FitLines')
                 /\ (line \in OkLines /\ OkLines' = {} => line \in FitLines)
  BY <1>2, <1>5, <1>7, <1>8 DEF Mirrors
<1>10. A \subseteq Ids(q)
  BY <1>2, <1>7 DEF OkLines
<1>11. CASE ~IsAnswer(line)
  <2>1. UNCHANGED <<status, answer, ready>>
    BY <1>4, <1>11 DEF ReadLine, IsAnswer
  <2>2. HalfDone => HalfDone'
    <3>1. \A x \in HalfLines : x \in Ids(toClient') /\ x[4] \in Claimers'
      BY <1>1, <1>2, <1>3, <1>11 DEF HalfLines
    <3>2. QED
      BY <1>1, <2>1, <3>1, HalfKept
  <2>3. line \notin OkLines
    BY <1>11 DEF OkLines
  <2>4. OkLines' = OkLines /\ OkTasks' = OkTasks
    BY <1>1, <1>3, <1>5, <1>7, <1>10, <2>1, <2>3 DEF OkTasks
  <2>5. QED
    BY <1>1, <1>9, <2>1, <2>2, <2>4 DEF Mirrors
<1>12. CASE IsAnswer(line)
  <2>1. PICK by : by = line[4]
    OBVIOUS
  <2>2. /\ by \in Caller /\ status[by] = "calling"
        /\ status' = [status EXCEPT ![by] = "ready"]
        /\ answer' = [answer EXCEPT ![by] = <<line[3], line[4]>>]
        /\ ready' = Append(ready, by) /\ line \in Line
    BY <1>4, <1>12, <2>1, ReadMeans
  <2>3. /\ status = [c \in Caller |-> status[c]] /\ answer = [c \in Caller |-> answer[c]]
        /\ ready \in Seq(Caller)
    BY DEF Queued, CallInv, CallShape
  <2>4. /\ status'[by] = "ready" /\ answer'[by][1] = line[3]
        /\ \A c \in Caller : c # by => status'[c] = status[c] /\ answer'[c] = answer[c]
    BY <2>2, <2>3
  <2>5. line[3] = "internal" /\ by \in Claimers => HalfDone'
    BY <1>1, <2>4 DEF HalfDone
  <2>6. HalfDone => HalfDone'
    <3>1. SUFFICES ASSUME ~(line[3] = "internal" /\ by \in Claimers)
                   PROVE  HalfDone => HalfDone'
      BY <2>5
    <3>2. \A x \in HalfLines : x \in Ids(toClient') /\ x[4] \in Claimers'
      BY <1>1, <1>2, <1>3, <2>1, <3>1 DEF HalfLines
    <3>3. \A c \in Claimers : c \in Caller
      BY DEF Claimers
    <3>4. \A c \in Claimers : status[c] \in {"ready", "done"} =>
              /\ c \in Claimers' /\ status'[c] \in {"ready", "done"}
              /\ answer'[c] = answer[c]
      BY <1>1, <2>2, <2>4, <3>3
    <3>5. QED
      BY ONLY <3>2, <3>4, HalfKept
  <2>7. by \notin Ids(ready)
    BY <2>2, QueuedTasks
  <2>8. PICK p, s : p = ready /\ s = ready'
    OBVIOUS
  <2>9. Ids(s) = Ids(p) \cup {by}
    BY ONLY <2>2, <2>3, <2>8, IdsAppend
  <2>10. \A c \in Ids(ready) : c \in Caller /\ c # by /\ answer'[c] = answer[c]
    BY <2>4, <2>7, QueuedTasks
  <2>11. by \in OkTasks' <=> by \in Claimers /\ line[3] = "ok"
    BY <1>1, <2>4, <2>8, <2>9 DEF OkTasks
  <2>12. line \in OkLines <=> by \in Claimers /\ line[3] = "ok"
    BY <1>2, <1>3, <1>12, <2>1 DEF OkLines
  <2>13. OkTasks' \cap Ids(ready) = OkTasks
    BY <1>1, <2>8, <2>9, <2>10 DEF OkTasks
  <2>14. OkLines' = {} /\ line \notin OkLines => OkLines = {}
    BY <1>3, <1>5, <1>7, <1>10
  <2>15. PICK T, F, U : T = OkTasks /\ F = Fits /\ U = OkTasks'
    OBVIOUS
  <2>16. ASSUME Mirrors, OkLines' = {} PROVE LastIn(ready', OkTasks', Fits')
    <3>1. CASE line \in OkLines
      <4>1. line \in FitLines
        BY <1>9, <2>16, <3>1
      <4>2. by \in U \cap F
        BY <2>1, <2>11, <2>12, <2>15, <3>1, <4>1 DEF FitLines
      <4>3. p \in Seq(Caller) /\ s = Append(p, by) /\ by \in Caller
        BY <2>2, <2>3, <2>8
      <4>4. LastIn(s, U, F)
        BY ONLY <4>2, <4>3, LastAppend
      <4>5. QED
        BY <1>1, <2>8, <2>15, <4>4
    <3>2. CASE line \notin OkLines
      <4>1. LastIn(p, T, F)
        BY <2>8, <2>14, <2>15, <2>16, <3>2 DEF Mirrors
      <4>2. \A x \in Ids(p) : (x \in U <=> x \in T) /\ (x \in T \cap F => x \in F)
        BY <2>8, <2>13, <2>15
      <4>3. LastIn(p, U, F)
        BY ONLY <4>1, <4>2, LastSame
      <4>4. p \in Seq(Caller) /\ s = Append(p, by) /\ by \in Caller /\ by \notin U
        BY <2>2, <2>3, <2>8, <2>11, <2>12, <2>15, <3>2
      <4>5. LastIn(s, U, F)
        BY ONLY <4>3, <4>4, LastAppend
      <4>6. QED
        BY <1>1, <2>8, <2>15, <4>5
    <3>3. QED
      BY <3>1, <3>2
  <2>17. ASSUME Mirrors, OkLines' = {}, OkTasks' = {} PROVE current_alias' = Held'
    <3>1. line \notin OkLines
      BY <2>11, <2>12, <2>17
    <3>2. OkLines = {} /\ OkTasks = {}
      BY <2>13, <2>14, <2>17, <3>1
    <3>3. QED
      BY <1>1, <2>17, <3>2 DEF Mirrors
  <2>18. QED
    BY <1>9, <2>6, <2>16, <2>17 DEF Mirrors
<1>13. QED
  BY <1>11, <1>12

\* What a task that resumes does: it mirrors the alias it claimed, if it did.
LEMMA ResumeMeans ==
    ASSUME CallInv, Queued, daemon = "up", Resume, NEW c, c = Head(ready)
    PROVE  /\ c \in Caller /\ ready # <<>> /\ ready' = Tail(ready)
           /\ UNCHANGED <<session, toClient>>
           /\ \A d \in Caller : d # c => /\ asked'[d] = asked[d] /\ answer'[d] = answer[d]
                                         /\ status'[d] = status[d]
           /\ c \in Claimers => /\ asked'[c] = asked[c] /\ answer'[c] = answer[c]
                                /\ status'[c] = "done"
           /\ c \in Claimers /\ answer[c][1] = "ok" => current_alias' = asked[c][2]
           /\ ~(c \in Claimers /\ answer[c][1] = "ok") => current_alias' = current_alias
<1>1. /\ ready # <<>> /\ ready' = Tail(ready) /\ UNCHANGED <<session, toClient>>
  BY DEF Resume, peerd
<1>2. c \in Caller
  BY <1>1, HeadLeaves
<1>3. /\ status = [d \in Caller |-> status[d]] /\ answer = [d \in Caller |-> answer[d]]
      /\ asked = [d \in Caller |-> asked[d]]
  BY DEF Queued, CallInv, CallShape
<1>4. ASSUME asked[c] \in Calls, Mirrored(c)
      PROVE  /\ c \in Claimers /\ answer[c][1] = "ok" => current_alias' = asked[c][2]
             /\ ~(c \in Claimers /\ answer[c][1] = "ok") => current_alias' = current_alias
  <2>1. c \in Claimers <=> asked[c][1] = "set_alias"
    BY <1>2, <1>4, ClaimsApart
  <2>2. QED
    BY <1>4, <2>1 DEF Mirrored
<1>5. ASSUME status' = [status EXCEPT ![c] = "done"]
      PROVE  /\ status'[c] = "done"
             /\ \A d \in Caller : d # c => status'[d] = status[d]
  BY <1>2, <1>3, <1>5
<1>6. CASE c = Run
  <2>1. RunResumes
    BY <1>6 DEF Resume
  <2>2. asked[c] \in Calls /\ Mirrored(c)
    BY <1>6, <2>1 DEF Queued, RunResumes
  <2>3. CASE phase = "hello" /\ InitialAlias # None
    <3>1. Call(Run, SetAliasTo(InitialAlias))
      BY <2>1, <2>3 DEF RunResumes
    <3>2. /\ asked' = [asked EXCEPT ![c] = SetAliasTo(InitialAlias)]
          /\ status' = [status EXCEPT ![c] = "calling"] /\ answer' = answer
      BY <1>6, <3>1 DEF Call, Listening
    <3>3. c \notin Claimers
      <4>1. asked[c] = <<"hello">>
        BY <1>6, <2>3 DEF Queued
      <4>2. QED
        BY <1>2, <4>1, ClaimsApart
    <3>4. \A d \in Caller : d # c => asked'[d] = asked[d] /\ status'[d] = status[d]
      BY <1>3, <3>2
    <3>5. QED
      BY <1>1, <1>2, <1>4, <2>2, <3>2, <3>3, <3>4
  <2>4. CASE ~(phase = "hello" /\ InitialAlias # None)
    <3>1. status' = [status EXCEPT ![c] = "done"] /\ UNCHANGED <<asked, answer>>
      BY <1>6, <2>1, <2>4 DEF RunResumes
    <3>2. QED
      BY <1>1, <1>2, <1>4, <1>5, <2>2, <3>1
  <2>5. QED
    BY <2>3, <2>4
<1>7. CASE c # Run /\ AwaitResumes(c)
  <2>1. /\ asked' = asked /\ current_alias' = current_alias
        /\ status' = [status EXCEPT ![c] = "done"]
    BY <1>7 DEF AwaitResumes, Finish
  <2>2. \A d \in Caller : d # c => answer'[d] = answer[d]
    BY <1>3, <1>7 DEF AwaitResumes, Finish
  <2>3. c \notin Claimers
    BY <1>2, <1>7, ClaimsApart DEF AwaitResumes
  <2>4. QED
    BY <1>1, <1>2, <1>5, <2>1, <2>2, <2>3
<1>8. CASE c # Run /\ CallResumes(c)
  <2>1. /\ asked[c] \in Calls /\ Mirrored(c) /\ UNCHANGED <<asked, answer>>
        /\ status' = [status EXCEPT ![c] = "done"]
    BY <1>8 DEF CallResumes
  <2>2. QED
    BY <1>1, <1>2, <1>4, <1>5, <2>1
<1>9. QED
  BY <1>6, <1>7, <1>8 DEF Resume

\* The last claim to come back is the one that stays mirrored.
LEMMA ResumeMirrors ==
    ASSUME CallInv, Queued, Answered, daemon = "up", Resume
    PROVE  (HalfDone => HalfDone') /\ (Mirrors => Mirrors')
<1>1. PICK c : c = Head(ready)
  OBVIOUS
<1>2. /\ c \in Caller /\ ready # <<>> /\ ready' = Tail(ready)
      /\ UNCHANGED <<session, toClient>>
      /\ \A d \in Caller : d # c => /\ asked'[d] = asked[d] /\ answer'[d] = answer[d]
                                    /\ status'[d] = status[d]
      /\ c \in Claimers => /\ asked'[c] = asked[c] /\ answer'[c] = answer[c]
                           /\ status'[c] = "done"
      /\ c \in Claimers /\ answer[c][1] = "ok" => current_alias' = asked[c][2]
      /\ ~(c \in Claimers /\ answer[c][1] = "ok") => current_alias' = current_alias
  BY <1>1, ResumeMeans
<1>3. PICK q, r : q = ready /\ r = ready'
  OBVIOUS
<1>4. /\ status[c] = "ready" /\ c = q[1]
      /\ Ids(r) \subseteq Ids(q) \ {c} /\ Ids(q) \subseteq Ids(r) \cup {c} /\ c \in Ids(q)
  BY <1>1, <1>2, <1>3, HeadLeaves
<1>5. /\ Held' = Held /\ toClient \in Seq(Line) /\ ready \in Seq(Caller)
  BY <1>2 DEF Held, CallInv, CallShape, Queued
<1>6. HalfDone => HalfDone'
  <2>1. ASSUME NEW d \in Claimers, status[d] \in {"ready", "done"}
        PROVE  /\ d \in Claimers' /\ status'[d] \in {"ready", "done"}
               /\ answer'[d] = answer[d]
    <3>1. d \in Caller /\ asked'[d] = asked[d]
      BY <1>2 DEF Claimers
    <3>2. d \in Claimers'
      BY <3>1, ClaimKept
    <3>3. QED
      BY <1>2, <2>1, <3>1, <3>2
  <2>2. ASSUME NEW line \in HalfLines
        PROVE  line \in Ids(toClient') /\ line[4] \in Claimers'
    <3>1. line \in Ids(toClient) /\ IsAnswer(line) /\ line[4] \in Claimers
      BY DEF HalfLines
    <3>2. line[4] \in Caller /\ line[4] # c
      BY <1>4, <1>5, <3>1, AnswersOut
    <3>3. QED
      BY <1>2, <3>1, <3>2, ClaimKept
  <2>3. QED
    BY <2>1, <2>2, HalfKept
<1>7. /\ OkLines' = OkLines
      /\ LastIn(toClient, OkLines, FitLines) => LastIn(toClient, OkLines, FitLines)'
  <2>1. \A d \in Caller : status[d] = "calling" => asked'[d] = asked[d]
    BY <1>2, <1>4
  <2>2. QED
    BY <1>2, <1>5, <2>1, OkLinesKept
<1>8. /\ OkTasks' = OkTasks \cap Ids(ready')
      /\ LastIn(ready', OkTasks, Fits) => LastIn(ready', OkTasks', Fits')
  <2>1. \A d \in Ids(ready) \cap Ids(ready') : d \in Caller /\ d # c
    BY <1>3, <1>4, QueuedTasks
  <2>2. \A d \in Ids(ready') \ Ids(ready) : d \notin OkTasks'
    BY <1>3, <1>4
  <2>3. QED
    BY <1>2, <1>5, <2>1, <2>2, OkTasksKept
<1>9. PICK A, G : A = OkTasks /\ G = Fits
  OBVIOUS
<1>10. LastIn(q, A, G) => LastIn(r, A, G) /\ (c \in A /\ Ids(r) \cap A = {} => c \in G)
  <2>1. q \in Seq(Caller) /\ q # <<>> /\ r = Tail(q) /\ c = q[1]
    BY <1>2, <1>3, <1>4, <1>5
  <2>2. QED
    BY ONLY <2>1, LastTail
<1>11. LastIn(ready, OkTasks, Fits) =>
          /\ LastIn(ready', OkTasks, Fits)
          /\ (c \in OkTasks /\ OkTasks' = {} => c \in Fits)
  BY <1>3, <1>8, <1>9, <1>10
<1>12. /\ OkTasks \subseteq Ids(ready)
       /\ c \in OkTasks <=> c \in Claimers /\ answer[c][1] = "ok"
  BY <1>3, <1>4 DEF OkTasks
<1>13. ASSUME Mirrors, OkLines' = {}, OkTasks' = {} PROVE current_alias' = Held'
  <2>1. CASE c \in OkTasks
    <3>1. c \in Fits
      BY <1>7, <1>11, <1>13, <2>1 DEF Mirrors
    <3>2. asked[c] = SetAliasTo(Held) /\ current_alias' = asked[c][2]
      BY <1>2, <1>12, <2>1, <3>1 DEF Fits
    <3>3. QED
      BY <1>5, <3>2, RequestsApart
  <2>2. CASE c \notin OkTasks
    <3>1. OkTasks = {} /\ current_alias' = current_alias
      BY <1>2, <1>3, <1>4, <1>8, <1>12, <1>13, <2>2
    <3>2. QED
      BY <1>5, <1>7, <1>13, <3>1 DEF Mirrors
  <2>3. QED
    BY <2>1, <2>2
<1>14. QED
  BY <1>2, <1>5, <1>6, <1>7, <1>8, <1>11, <1>13 DEF Mirrors

\* Each kind of step keeps what is mirrored and what is on its way together.
LEMMA MirrorStep == CallInv /\ FlightInv /\ MirrorInv /\ [Next]_vars => MirrorInv'
<1> SUFFICES ASSUME CallInv, FlightInv, MirrorInv, [Next]_vars, Live', ~HalfDone'
             PROVE  Mirrors'
  BY DEF MirrorInv
<1>0. /\ Live /\ Queued /\ Called /\ Answered /\ daemon = "up" /\ Listening
      /\ toClient \in Seq(Line) /\ phase' # "ended" /\ daemon' = "up"
      /\ status = [c \in Caller |-> status[c]] /\ answer = [c \in Caller |-> answer[c]]
      /\ asked = [c \in Caller |-> asked[c]]
  <2>1. Live
    BY WasLive
  <2>2. QED
    BY <2>1 DEF FlightInv, Live, Listening, Queued, CallInv, CallShape
<1>1. SUFFICES (HalfDone => HalfDone') /\ (~HalfDone' /\ Mirrors => Mirrors')
  BY <1>0 DEF MirrorInv
<1>2. ASSUME NEW r \in Req, NEW what \in {Await, TimedAwait}, PeerAwait(r, what)
      PROVE  (HalfDone => HalfDone') /\ (Mirrors => Mirrors')
  <2>1. /\ status[r] = "idle" /\ asked' = [asked EXCEPT ![r] = what]
        /\ UNCHANGED <<toClient, session, ready, current_alias>>
    BY <1>2 DEF PeerAwait, peerd, socket
  <2>2. \A c \in Caller : c # r => /\ asked'[c] = asked[c] /\ answer'[c] = answer[c]
                                   /\ status'[c] = status[c]
    BY <1>0, <1>2, <2>1 DEF PeerAwait, Finish
  <2>3. QED
    BY <1>0, <2>1, <2>2, MirrorKept
<1>3. ASSUME NEW r \in Req, NEW what \in Calls \ {<<"hello">>}, ToolCall(r, what)
      PROVE  (HalfDone => HalfDone') /\ (Mirrors => Mirrors')
  <2>1. /\ status[r] = "idle" /\ Call(r, what)
        /\ UNCHANGED <<toClient, session, ready, current_alias>>
    BY <1>3 DEF ToolCall, peerd
  <2>2. \A c \in Caller : c # r => /\ asked'[c] = asked[c] /\ answer'[c] = answer[c]
                                   /\ status'[c] = status[c]
    BY <1>0, <2>1 DEF Call
  <2>3. QED
    BY <1>0, <2>1, <2>2, MirrorKept
<1>4. CASE ReadOverruns \/ (\E limit \in Limits : PeerInbox(limit)) \/ UNCHANGED vars
  <2>1. UNCHANGED <<toClient, session, ready, current_alias, asked, answer, status>>
    BY <1>4 DEF ReadOverruns, PeerInbox, vars, tasks, peerd, socket
  <2>2. QED
    BY <1>0, <2>1, MirrorKept
<1>5. CASE StdinCloses \/ ReadEnds \/ DaemonMutes \/ DaemonGoes
  BY <1>0, <1>5 DEF StdinCloses, ReadEnds, DaemonMutes, DaemonGoes
<1>6. CASE Resume
  BY <1>0, <1>6, ResumeMirrors
<1>7. ASSUME NEW r \in Req, TimesOut(r)
      PROVE  (HalfDone => HalfDone') /\ (Mirrors => Mirrors')
  BY <1>0, <1>7, TimesOutMirrors
<1>8. CASE Forward
  BY <1>0, <1>8, ForwardMirrors
<1>9. CASE ReadLine
  BY <1>0, <1>9, ReadMirrors
<1>10. CASE DaemonAnswers
  BY <1>0, <1>10, AnswerMirrors
<1>11. CASE DaemonNotifies
  BY <1>0, <1>11, NotifyMirrors
<1>12. QED
  BY <1>2, <1>3, <1>4, <1>5, <1>6, <1>7, <1>8, <1>9, <1>10, <1>11 DEF Next, Host

\* At first hello is on its way, and nothing else is.
LEMMA FlightInit == Init => FlightInv /\ MirrorInv
<1> SUFFICES ASSUME Init, Live PROVE Queued /\ Called /\ Answered /\ Mirrors
  BY DEF FlightInv, MirrorInv
<1>1. /\ daemon = "up" /\ phase = "hello" /\ ready = <<>> /\ waiters = <<>>
      /\ toClient = <<>> /\ session = "none" /\ current_alias = None
      /\ asked = [c \in Caller |-> IF c = Run THEN <<"hello">> ELSE None]
      /\ status = [c \in Caller |-> IF c = Run THEN "calling" ELSE "idle"]
      /\ pending = {<<1, Run>>}
      /\ fromClient = <<<<1, <<"hello">>, Run>>>>
  BY DEF Init, Live
<1>2. /\ Run \in Caller /\ <<"hello">> \in Calls
      /\ None # <<"hello">>
  BY RequestsApart DEF Caller, Calls
<1>3. Queued
  <2>1. /\ asked \in [Caller -> Calls \cup {None, Await, TimedAwait}]
        /\ asked[Run] = <<"hello">>
        /\ \A c \in Caller : asked[c] = <<"hello">> => c = Run
    BY <1>1, <1>2
  <2>2. /\ status = [c \in Caller |-> status[c]]
        /\ \A c \in Caller : status[c] # "waiting"
    BY <1>1
  <2>3. /\ ready \in Seq(Caller) /\ waiters \in Seq(Caller)
        /\ Distinct(ready) /\ Distinct(waiters) /\ Ids(ready) = {} /\ Ids(waiters) = {}
    BY <1>1 DEF Distinct, Ids
  <2>4. QED
    BY <1>2, <2>1, <2>2, <2>3 DEF Queued
<1>4. Called
  <2>1. DOMAIN fromClient = {1} /\ fromClient[1] = <<1, <<"hello">>, Run>>
    BY <1>1
  <2>2. status[Run] = "calling" /\ asked[Run] = <<"hello">> /\ <<1, Run>> \in pending
    BY <1>1, <1>2
  <2>3. QED
    BY <1>1, <2>1, <2>2 DEF Called
<1>5. Answered
  BY <1>1 DEF Answered
<1>6. Mirrors
  BY <1>1 DEF Mirrors, LastIn, Held
<1>7. QED
  BY <1>3, <1>4, <1>5, <1>6

\* When no claim is under way nothing of one is on the wire or among the tasks.
LEMMA MirrorMeans == CallInv /\ FlightInv /\ MirrorInv => AliasMirrored
<1> DEFINE claims == {c \in Caller : asked[c] # None /\ asked[c][1] = "set_alias"}
<1> SUFFICES ASSUME CallInv, FlightInv, MirrorInv,
                    daemon = "up", session # "none", phase # "ended",
                    \A c \in claims : status[c] = "done" /\ answer[c][1] # "internal"
             PROVE  current_alias = session
  BY DEF AliasMirrored
<1>1. Mirrors \/ HalfDone
  BY DEF Live, FlightInv, MirrorInv
<1>2. Queued /\ Answered /\ toClient \in Seq(Line)
  BY DEF Live, FlightInv, CallInv, CallShape
<1>3. \A c \in Claimers : status[c] = "done" /\ answer[c][1] # "internal"
  <2>1. ASSUME NEW c \in Claimers PROVE c \in claims
    <3>1. c \in Caller
      BY DEF Claimers
    <3>2. PICK al \in Alias \cup {None} : asked[c] = SetAliasTo(al)
      BY DEF Claimers
    <3>3. asked[c] \in Calls /\ asked[c][1] = "set_alias" /\ asked[c] # None
      BY <3>2, RequestsApart
    <3>4. QED
      BY <3>1, <3>3
  <2>2. QED
    BY <2>1
<1>4. \A line \in Ids(toClient) : IsAnswer(line) => line[4] \notin Claimers
  <2>1. ASSUME NEW line \in Ids(toClient), IsAnswer(line)
        PROVE  line[4] \notin Claimers
    <3>1. status[line[4]] = "calling"
      BY <1>2, <2>1, AnswersOut
    <3>2. QED
      BY <1>3, <3>1
  <2>2. QED
    BY <2>1
<1>5. ~HalfDone
  BY <1>3, <1>4 DEF HalfDone, HalfLines
<1>6. OkLines = {}
  BY <1>4 DEF OkLines
<1>7. OkTasks = {}
  <2>1. \A c \in Ids(ready) : status[c] = "ready"
    BY <1>2, QueuedTasks
  <2>2. QED
    BY <1>3, <2>1 DEF OkTasks
<1>8. QED
  BY <1>1, <1>5, <1>6, <1>7 DEF Mirrors, Held

\* Whenever no claim is under way and none failed half-way, the alias the agent is
\* told is the one the daemon holds for it, however many tools claimed at once, in
\* whatever order the answers were taken and the tasks resumed.
THEOREM AliasIsMirrored == Spec => []AliasMirrored
<1>1. Init => CallInv /\ FlightInv /\ MirrorInv
  BY CallInit, FlightInit
<1>2. CallInv /\ FlightInv /\ MirrorInv /\ [Next]_vars
        => (CallInv /\ FlightInv /\ MirrorInv)'
  BY CallInvStep, FlightStep, MirrorStep
<1>3. QED
  BY <1>1, <1>2, MirrorMeans, PTL DEF Spec
=================================================================================
