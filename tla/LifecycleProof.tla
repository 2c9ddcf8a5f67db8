----------------------------- MODULE LifecycleProof -----------------------------
(***************************************************************************)
(* Theorems about Lifecycle, for any number of connections, any length of  *)
(* outboxes and both behaviours of wait_closed.                            *)
(***************************************************************************)
EXTENDS Lifecycle, TLAPS

(***************************************************************************)
(* TasksInStep is inductive.                                               *)
(***************************************************************************)

\* No task runs at first.
LEMMA TasksInStepInit == Init => TasksInStep
BY MaxOutboxAssumption DEF Init, TasksInStep, TypeOK, Stage, Ending

\* The finally block keeps the tasks in step, whether the write loop has failed
\* before it or is still to be awaited.
LEMMA FinallyKeepsStep ==
    ASSUME TasksInStep, NEW c \in Conn, handler[c] = "reading", Finally(c),
           UNCHANGED transport \/ (closed[c] /\ CloseTransport(c))
    PROVE  TasksInStep'
<1> USE DEF TasksInStep, TypeOK, Stage, Ending, Finally, CloseTransport,
            server, tasks, queue, wire
<1>1. CASE closed[c]
  <2>1. TypeOK'
    BY <1>1
  <2>2. \A d \in Conn : Stage(d)' /\ Ending(d)'
    BY <1>1
  <2>3. QED
    BY <2>1, <2>2
<1>2. CASE ~closed[c]
  <2>1. TypeOK'
    BY <1>2
  <2>2. \A d \in Conn : Stage(d)' /\ Ending(d)'
    BY <1>2
  <2>3. QED
    BY <2>1, <2>2
<1>3. QED
  BY <1>1, <1>2

\* Neither the peer nor the event loop's transports bring the tasks out of step.
LEMMA PeerKeepsStep ==
    ASSUME TasksInStep, NEW c \in Conn, Peer(c) PROVE TasksInStep'
<1> USE MaxOutboxAssumption DEF TasksInStep, TypeOK, Stage, Ending, server, tasks, queue, wire
<1>1. CASE Accept(c)
  BY <1>1 DEF Accept
<1>2. CASE \E to \in {"reading", "stalled", "gone"} : PeerTurns(c, to)
  BY <1>2 DEF PeerTurns
<1>3. CASE Flush(c)
  BY <1>3 DEF Flush
<1>4. CASE TransportCloses(c)
  BY <1>4 DEF TransportCloses
<1>5. CASE Serve(c)
  <2>1. TypeOK'
    <3>1. outbox' \in [Conn -> 0..MaxOutbox]
      BY <1>5 DEF Serve
    <3>2. registered' \in [Conn -> BOOLEAN]
      BY <1>5 DEF Serve
    <3>3. QED
      BY <1>5, <3>1, <3>2 DEF Serve
  <2>2. Stage(c)' /\ Ending(c)'
    BY <1>5 DEF Serve
  <2>3. \A d \in Conn \ {c} : Stage(d)' /\ Ending(d)'
    BY <1>5 DEF Serve
  <2>4. QED
    BY <2>1, <2>2, <2>3
<1>6. CASE Oversized(c)
  BY <1>6, FinallyKeepsStep DEF Oversized
<1>7. CASE Collected(c)
  BY <1>7 DEF Collected
<1>8. QED
  BY <1>1, <1>2, <1>3, <1>4, <1>5, <1>6, <1>7 DEF Peer

\* Nor do the write loops.
LEMMA WriterKeepsStep ==
    ASSUME TasksInStep, NEW c \in Conn, WriterStep(c) \/ WriterCrashes(c)
    PROVE  TasksInStep'
<1> USE MaxOutboxAssumption DEF TasksInStep, TypeOK, Stage, Ending, server, tasks, queue, wire
<1>1. CASE WriteOne(c)
  <2>1. TypeOK'
    <3>1. outbox' \in [Conn -> 0..MaxOutbox]
      BY <1>1 DEF WriteOne
    <3>2. writer' \in [Conn -> {"none", "getting", "blocked", "done"}]
      BY <1>1 DEF WriteOne, Reset
    <3>3. /\ closed' \in [Conn -> BOOLEAN]
          /\ transport' \in [Conn -> {"none", "open", "closing", "closed"}]
          /\ buffered' \in [Conn -> BOOLEAN]
      BY <1>1 DEF WriteOne, Reset
    <3>4. QED
      BY <1>1, <3>1, <3>2, <3>3 DEF WriteOne
  <2>2. Stage(c)' /\ Ending(c)'
    BY <1>1 DEF WriteOne, Reset
  <2>3. \A d \in Conn \ {c} : Stage(d)' /\ Ending(d)'
    BY <1>1 DEF WriteOne, Reset
  <2>4. QED
    BY <2>1, <2>2, <2>3
<1>2. CASE Unblock(c)
  <2>1. TypeOK'
    BY <1>2 DEF Unblock, Reset
  <2>2. Stage(c)' /\ Ending(c)'
    BY <1>2 DEF Unblock, Reset
  <2>3. \A d \in Conn \ {c} : Stage(d)' /\ Ending(d)'
    BY <1>2 DEF Unblock, Reset
  <2>4. QED
    BY <2>1, <2>2, <2>3
<1>3. CASE WriterEnds(c)
  BY <1>3 DEF WriterEnds
<1>4. CASE WriterCrashes(c)
  <2>1. TypeOK'
    <3>1. outbox' \in [Conn -> 0..MaxOutbox]
      BY <1>4 DEF WriterCrashes
    <3>2. QED
      BY <1>4, <3>1 DEF WriterCrashes
  <2>2. Stage(c)' /\ Ending(c)'
    BY <1>4 DEF WriterCrashes
  <2>3. \A d \in Conn \ {c} : Stage(d)' /\ Ending(d)'
    BY <1>4 DEF WriterCrashes
  <2>4. QED
    BY <2>1, <2>2, <2>3
<1>5. QED
  BY <1>1, <1>2, <1>3, <1>4 DEF WriterStep

\* Nor do the handlers, on their way out included.
LEMMA HandlerKeepsStep ==
    ASSUME TasksInStep, NEW c \in Conn, HandlerStep(c) PROVE TasksInStep'
<1> USE MaxOutboxAssumption DEF TasksInStep, TypeOK, Stage, Ending, server, tasks, queue, wire
<1>1. CASE StartHandler(c)
  <2>1. TypeOK'
    BY <1>1 DEF StartHandler
  <2>2. Stage(c)' /\ Ending(c)'
    <3>1. CASE phase = "serving"
      BY <1>1, <3>1 DEF StartHandler
    <3>2. CASE phase # "serving"
      BY <1>1, <3>2 DEF StartHandler
    <3>3. QED
      BY <3>1, <3>2
  <2>3. \A d \in Conn \ {c} : Stage(d)' /\ Ending(d)'
    BY <1>1 DEF StartHandler
  <2>4. QED
    BY <2>1, <2>2, <2>3
<1>2. CASE LeavesLoop(c)
  BY <1>2, FinallyKeepsStep DEF LeavesLoop
<1>3. CASE Drained(c)
  <2>1. TypeOK'
    BY <1>3 DEF Drained, CloseTransport
  <2>2. Stage(c)' /\ Ending(c)'
    BY <1>3 DEF Drained, CloseTransport
  <2>3. \A d \in Conn \ {c} : Stage(d)' /\ Ending(d)'
    BY <1>3 DEF Drained, CloseTransport
  <2>4. QED
    BY <2>1, <2>2, <2>3
<1>4. CASE DrainTimesOut(c)
  <2>1. TypeOK'
    BY <1>4 DEF DrainTimesOut, CloseTransport
  <2>2. Stage(c)' /\ Ending(c)'
    BY <1>4 DEF DrainTimesOut, CloseTransport
  <2>3. \A d \in Conn \ {c} : Stage(d)' /\ Ending(d)'
    BY <1>4 DEF DrainTimesOut, CloseTransport
  <2>4. QED
    BY <2>1, <2>2, <2>3
<1>5. CASE Flushed(c)
  BY <1>5 DEF Flushed
<1>6. CASE CloseCancelled(c)
  <2>1. TypeOK'
    BY <1>6 DEF CloseCancelled, CloseTransport
  <2>2. Stage(c)' /\ Ending(c)'
    BY <1>6 DEF CloseCancelled, CloseTransport
  <2>3. \A d \in Conn \ {c} : Stage(d)' /\ Ending(d)'
    BY <1>6 DEF CloseCancelled, CloseTransport
  <2>4. QED
    BY <2>1, <2>2, <2>3
<1>7. QED
  BY <1>1, <1>2, <1>3, <1>4, <1>5, <1>6 DEF HandlerStep

\* Nor does shutdown, which cancels live handlers only.
LEMMA ShutdownKeepsStep ==
    ASSUME TasksInStep, BeginShutdown \/ Gathered \/ Stop PROVE TasksInStep'
<1> USE DEF TasksInStep, TypeOK, Stage, Ending, server, tasks, queue, wire
<1>1. ASSUME CancelLive,
             UNCHANGED <<handler, registered, cut, queue, wire>>,
             phase' \in {"gathering", phase}, connections' = connections
      PROVE  TasksInStep'
  <2>1. TypeOK'
    BY <1>1 DEF CancelLive, Live
  <2>2. \A d \in Conn : Stage(d)' /\ Ending(d)'
    BY <1>1 DEF CancelLive, Live
  <2>3. QED
    BY <2>1, <2>2
<1>2. CASE BeginShutdown
  BY <1>1, <1>2 DEF BeginShutdown
<1>3. CASE Gathered /\ Live # {}
  BY <1>1, <1>3 DEF Gathered
<1>4. CASE Gathered /\ Live = {}
  BY <1>4 DEF Gathered
<1>5. CASE Stop
  BY <1>5 DEF Stop
<1>6. QED
  BY <1>2, <1>3, <1>4, <1>5

\* No step brings the tasks out of step.
LEMMA TasksInStepNext == TasksInStep /\ [Next]_vars => TasksInStep'
<1>1. ASSUME TasksInStep, UNCHANGED vars PROVE TasksInStep'
  BY <1>1 DEF vars, server, tasks, queue, wire, TasksInStep, TypeOK, Stage, Ending
<1>2. QED
  BY <1>1, PeerKeepsStep, WriterKeepsStep, HandlerKeepsStep, ShutdownKeepsStep
     DEF Next

\* Handlers, write loops and transports stay in step (TasksInStep).
THEOREM TasksStayInStep == Spec => []TasksInStep
BY TasksInStepInit, TasksInStepNext, PTL DEF Spec

\* What a connection was answered is written before its transport is closed
\* (AnsweredBeforeClose).
THEOREM AnswersAreWritten == Spec => []AnsweredBeforeClose
<1>1. TasksInStep => AnsweredBeforeClose
  BY DEF TasksInStep, Ending, TypeOK, AnsweredBeforeClose
<1>2. QED
  BY <1>1, TasksStayInStep, PTL

(***************************************************************************)
(* What is forgotten, and what is left.  Both are inductive along with     *)
(* TasksInStep.                                                            *)
(***************************************************************************)

\* goodbye comes with leaving the read loop, and a hello only within it.
LEMMA LeaversForgottenNext ==
    ASSUME TasksInStep, LeaversForgotten, [Next]_vars PROVE LeaversForgotten'
<1> USE DEF LeaversForgotten, TasksInStep, TypeOK, server, tasks, queue, wire
<1>1. ASSUME NEW c \in Conn, Peer(c) PROVE LeaversForgotten'
  BY <1>1 DEF Peer, Accept, PeerTurns, Flush, TransportCloses, Collected,
              Serve, Oversized, Finally
<1>2. ASSUME NEW c \in Conn, WriterStep(c) \/ WriterCrashes(c) PROVE LeaversForgotten'
  BY <1>2 DEF WriterStep, WriteOne, Unblock, WriterEnds, WriterCrashes
<1>3. ASSUME NEW c \in Conn, HandlerStep(c) PROVE LeaversForgotten'
  BY <1>3 DEF HandlerStep, StartHandler, LeavesLoop, Finally, Drained,
              DrainTimesOut, Flushed, CloseCancelled
<1>4. CASE BeginShutdown \/ Gathered \/ Stop
  BY <1>4 DEF BeginShutdown, Gathered, Stop, CancelLive
<1>5. CASE UNCHANGED vars
  BY <1>5 DEF vars
<1>6. QED
  BY <1>1, <1>2, <1>3, <1>4, <1>5 DEF Next

\* Past the gathering nothing comes to life, since late connections are refused.
LEMMA NothingLeftNext ==
    ASSUME TasksInStep, NothingLeftRunning, [Next]_vars PROVE NothingLeftRunning'
<1> DEFINE Past == phase \in {"waiting", "stopped"}
           Idle == Live = {} /\ connections = {}
<1> USE DEF TypeOK, server, tasks, queue, wire
<1>1. TasksInStep'
  BY TasksInStepNext
<1>2. \A c \in Conn : handler'[c] = "done" => writer'[c] \in {"none", "done"}
  BY <1>1 DEF TasksInStep, Stage
<1>3. TypeOK /\ (Past => Idle)
  BY DEF TasksInStep, NothingLeftRunning
<1>4. ASSUME NEW c \in Conn, Peer(c) PROVE Past' => Idle'
  BY <1>3, <1>4 DEF Peer, Accept, PeerTurns, Flush, TransportCloses, Collected,
              Serve, Oversized, Finally, Live
<1>5. ASSUME NEW c \in Conn, WriterStep(c) \/ WriterCrashes(c) PROVE Past' => Idle'
  BY <1>3, <1>5 DEF WriterStep, WriteOne, Unblock, WriterEnds, WriterCrashes, Live
<1>6. ASSUME NEW c \in Conn, HandlerStep(c) PROVE Past' => Idle'
  BY <1>3, <1>6 DEF HandlerStep, StartHandler, LeavesLoop, Finally, Drained,
              DrainTimesOut, Flushed, CloseCancelled, Live
<1>7. ASSUME BeginShutdown \/ Gathered \/ Stop PROVE Past' => Idle'
  <2>1. CASE BeginShutdown
    BY <2>1 DEF BeginShutdown
  <2>2. CASE Gathered /\ Live # {}
    BY <2>2 DEF Gathered
  <2>3. CASE Gathered /\ Live = {}
    BY <2>3 DEF Gathered, Live
  <2>4. CASE Stop
    BY <1>3, <2>4 DEF Stop, Live
  <2>5. QED
    BY <1>7, <2>1, <2>2, <2>3, <2>4
<1>8. ASSUME UNCHANGED vars PROVE Past' => Idle'
  BY <1>3, <1>8 DEF vars, Live
<1> HIDE DEF Past, Idle
<1>9. Past' => Idle'
  BY <1>4, <1>5, <1>6, <1>7, <1>8 DEF Next
<1>10. QED
  BY <1>2, <1>9 DEF NothingLeftRunning, Past, Idle

\* The router forgets a connection as its handler leaves the read loop, however
\* it is made to leave (LeaversForgotten).
THEOREM LeaversAreForgotten == Spec => []LeaversForgotten
<1>1. Init => LeaversForgotten
  BY DEF Init, LeaversForgotten
<1>2. QED
  BY <1>1, TasksInStepInit, TasksInStepNext, LeaversForgottenNext, PTL DEF Spec

\* No write loop outlives its handler and no handler the gathering
\* (NothingLeftRunning).
THEOREM NothingIsLeftRunning == Spec => []NothingLeftRunning
<1>1. Init => NothingLeftRunning
  BY DEF Init, NothingLeftRunning, Live
<1>2. QED
  BY <1>1, TasksInStepInit, TasksInStepNext, NothingLeftNext, PTL DEF Spec
===============================================================================
