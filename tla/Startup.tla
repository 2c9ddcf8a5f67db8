-------------------------------- MODULE Startup --------------------------------
(***************************************************************************)
(* Daemons that are started on one socket path and one state directory:    *)
(* what Server.start and Server.shutdown do to the path, step by step, and *)
(* what of the state directory a daemon takes over.                        *)
(*                                                                         *)
(* Every daemon is a process of its own with one life, so the calls of two *)
(* interleave freely.  A signal that comes during start is seen after it   *)
(* (daemon.py: the future `stop`), as one that comes while it serves.  The *)
(* file is known by who bound it.  What asyncio.start_unix_server does to  *)
(* the path is external: it removes a socket that is there, binds, and     *)
(* listens; from Python 3.13 on its close removes the file it bound.       *)
(***************************************************************************)
EXTENDS Integers

CONSTANTS
    Daemon,    \* processes
    Absent,    \* nothing at the path
    Stale,     \* a socket file that a daemon of the past left
    Foreign,   \* a file that is not a socket
    MaxFiled   \* bound: messages filed

ASSUME PathAssumption ==
    /\ Absent \notin Daemon \cup {Stale, Foreign}
    /\ Stale \notin Daemon \cup {Foreign}
    /\ Foreign \notin Daemon

ASSUME MaxFiledAssumption == MaxFiled \in Nat

VARIABLES
    pc,       \* where a daemon is
    file,     \* what is at the socket path
    memory,   \* per daemon, the DMs it keeps
    disk,     \* the DMs its state directory keeps
    filed,    \* DMs whose senders were told they are kept: 1..filed (history)
    handed,   \* of these, handed to somebody (history)
    crossed,  \* daemons that another's start or shutdown met (history)
    raced     \* two daemons were past their probe at once (history)

path    == <<file>>
state   == <<memory, disk, filed, handed>>
history == <<crossed, raced>>
vars    == <<pc, path, state, history>>

Listens  == {"chmod", "serving"}
PastProbe == {"unlink", "load", "clear", "bind", "listen", "chmod", "serving"}
Starting == (PastProbe \cup {"check", "probe"}) \ {"serving"}
Ended    == {"refused", "failed", "stopped", "crashed"}

Init ==
    /\ pc = [d \in Daemon |-> "new"]
    /\ file \in {Absent, Stale, Foreign}
    /\ memory = [d \in Daemon |-> {}]
    /\ disk = {} /\ filed = 0 /\ handed = {}
    /\ crossed = {} /\ raced = FALSE

\* Daemon d goes on to `where`; the history notes who is there meanwhile.
Go(d, where) ==
    /\ pc' = [pc EXCEPT ![d] = where]
    /\ crossed' = crossed \cup
         {x \in Daemon : \E y \in Daemon \ {x} :
             \/ pc'[x] \in Starting /\ pc'[y] \in Starting \cup {"stopping"}
             \/ pc'[x] = "serving" /\ pc'[y] = "stopping"}
    /\ raced' = \/ raced
                \/ \E x, y \in Daemon : x # y /\ {pc'[x], pc'[y]} \subseteq PastProbe

-------------------------------------------------------------------------------
\* Server.start.

\* socket_path.exists().
Start(d) ==
    /\ pc[d] = "new"
    /\ Go(d, IF file = Absent THEN "load" ELSE "check")
    /\ UNCHANGED <<path, state>>

\* socket_path.is_socket(), which nothing is that is gone by now.
Check(d) ==
    /\ pc[d] = "check"
    /\ Go(d, IF file \in {Absent, Foreign} THEN "failed" ELSE "probe")
    /\ UNCHANGED <<path, state>>

\* Mutant: a daemon that answers is taken for a stale one.
ProbeIgnored(d) ==
    /\ pc[d] = "probe"
    /\ Go(d, "unlink")
    /\ UNCHANGED <<path, state>>

\* The probe connects if whoever bound the file listens.
Probe(d) ==
    /\ pc[d] = "probe"
    /\ Go(d, IF file \in Daemon /\ pc[file] \in Listens THEN "refused" ELSE "unlink")
    /\ UNCHANGED <<path, state>>

Unlink(d) ==
    /\ pc[d] = "unlink"
    /\ file' = Absent
    /\ Go(d, "load")
    /\ UNCHANGED state

\* Mutant: what the last daemon kept is not read.
LoadNothing(d) ==
    /\ pc[d] = "load"
    /\ Go(d, "clear")
    /\ UNCHANGED <<path, state>>

\* Persistence.load_all.
Load(d) ==
    /\ pc[d] = "load"
    /\ memory' = [memory EXCEPT ![d] = disk]
    /\ Go(d, "clear")
    /\ UNCHANGED <<path, disk, filed, handed>>

\* start_unix_server: a socket at the path is removed, whoever listens on it.
Clear(d) ==
    /\ pc[d] = "clear"
    /\ file' = IF file = Foreign THEN file ELSE Absent
    /\ Go(d, "bind")
    /\ UNCHANGED state

\* Mutant: a daemon that cannot bind cleans up the path behind it.
BindCleansUp(d) ==
    /\ pc[d] = "bind"
    /\ IF file = Absent
       THEN file' = d /\ Go(d, "listen")
       ELSE file' = Absent /\ Go(d, "failed")
    /\ UNCHANGED state

\* bind: EADDRINUSE if another was faster.
Bind(d) ==
    /\ pc[d] = "bind"
    /\ IF file = Absent
       THEN file' = d /\ Go(d, "listen")
       ELSE UNCHANGED path /\ Go(d, "failed")
    /\ UNCHANGED state

Listen(d) ==
    /\ pc[d] = "listen"
    /\ Go(d, "chmod")
    /\ UNCHANGED <<path, state>>

\* os.chmod of whatever is at the path raises if that is nothing: start, and the
\* process with it, comes to an end.
Chmod(d) ==
    /\ pc[d] = "chmod"
    /\ Go(d, IF file = Absent THEN "failed" ELSE "serving")
    /\ UNCHANGED <<path, state>>

-------------------------------------------------------------------------------
\* Serving: a queue is in memory, and its file is rewritten from memory.

\* A DM nobody is there to get.
File(d) ==
    /\ pc[d] = "serving"
    /\ filed < MaxFiled
    /\ filed' = filed + 1
    /\ memory' = [memory EXCEPT ![d] = @ \cup {filed'}]
    /\ disk' = memory'[d]
    /\ UNCHANGED <<pc, path, handed, history>>

\* Its recipient says hello.
HandOut(d) ==
    /\ pc[d] = "serving"
    /\ memory[d] # {}
    /\ handed' = handed \cup memory[d]
    /\ memory' = [memory EXCEPT ![d] = {}]
    /\ disk' = {}
    /\ UNCHANGED <<pc, path, filed, history>>

-------------------------------------------------------------------------------
\* Server.shutdown, and sudden death.

\* The listener is closed and the handlers cancelled: nothing is filed any more.
BeginStop(d) ==
    /\ pc[d] = "serving"
    /\ file' \in {file, IF file = d THEN Absent ELSE file}
    /\ Go(d, "stopping")
    /\ UNCHANGED state

\* Handlers and connections have ended: whatever is at the path is removed.
EndStop(d) ==
    /\ pc[d] = "stopping"
    /\ file' = Absent
    /\ Go(d, "stopped")
    /\ UNCHANGED state

Crash(d) ==
    /\ pc[d] \in Starting \cup {"serving", "stopping"}
    /\ Go(d, "crashed")
    /\ UNCHANGED <<path, state>>

StartStep(d) ==
    \/ Start(d)
    \/ Check(d)
    \/ Probe(d)
    \/ Unlink(d)
    \/ Load(d)
    \/ Clear(d)
    \/ Bind(d)
    \/ Listen(d)
    \/ Chmod(d)

Next ==
    \E d \in Daemon :
        \/ StartStep(d)
        \/ File(d) \/ HandOut(d)
        \/ BeginStop(d) \/ EndStop(d) \/ Crash(d)

Spec == Init /\ [][Next]_vars

-------------------------------------------------------------------------------
TypeOK ==
    /\ pc \in [Daemon -> {"new", "serving", "stopping"} \cup Starting \cup Ended]
    /\ file \in Daemon \cup {Absent, Stale, Foreign}
    /\ memory \in [Daemon -> SUBSET Nat]
    /\ disk \subseteq Nat /\ handed \subseteq Nat /\ filed \in 0..MaxFiled
    /\ crossed \subseteq Daemon /\ raced \in BOOLEAN

\* A daemon whose start and service met no other's start or shutdown serves at
\* the path, be there the socket of one that crashed or of one that is still
\* refused there; it does not start only where something else is in its place.
UndisturbedStart ==
    \A d \in Daemon \ crossed :
        /\ pc[d] = "serving" => file = d
        /\ pc[d] = "failed" => file = Foreign

\* However many daemons start at once, and whatever they remove from under each
\* other: when all of them serve, were refused or failed, and none was stopped or
\* killed, the path leads to one that serves.
RaceLeavesOne ==
    /\ \A d \in Daemon : pc[d] \in {"new", "serving", "refused", "failed"}
    /\ \E d \in Daemon : pc[d] # "new"
    /\ file # Foreign
    => \E d \in Daemon : pc[d] = "serving" /\ file = d

\* As long as no two daemons are past their probe at once, one that serves keeps
\* exactly the DMs that were ever filed and not handed out, in memory and on disk,
\* whoever filed them and however he ended: nothing is lost or handed out twice
\* when one follows another, while that one shuts down included.
HandedOver ==
    ~raced => \A d \in Daemon : pc[d] = "serving" =>
        /\ memory[d] = (1..filed) \ handed
        /\ disk = memory[d]

\* server.py:58, "Refuse to start if the socket file exists and is live; remove if
\* stale": the socket of a daemon that listens goes only by what that daemon does.
LiveSocketKept ==
    [][\A d \in Daemon :
          file = d /\ pc[d] \in Listens /\ file' # d => pc'[d] # pc[d]]_vars
===============================================================================
