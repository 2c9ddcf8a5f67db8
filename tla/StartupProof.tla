------------------------------ MODULE StartupProof ------------------------------
(***************************************************************************)
(* Theorems about daemons that start and stop on one socket path and one   *)
(* state directory, however many there are.                                *)
(***************************************************************************)
EXTENDS Startup, TLAPS

\* Where a daemon is after Go, and where the others are.
LEMMA GoMoves ==
    ASSUME TypeOK, NEW d \in Daemon, NEW where, Go(d, where)
    PROVE  /\ pc'[d] = where
           /\ \A x \in Daemon \ {d} : pc'[x] = pc[x]
           /\ DOMAIN pc' = Daemon
BY DEF Go, TypeOK

\* The daemons start typed.
LEMMA TypeInit == Init => TypeOK
<1> SUFFICES ASSUME Init PROVE TypeOK
  OBVIOUS
<1>1. pc \in [Daemon -> {"new", "serving", "stopping"} \cup Starting \cup Ended]
  BY DEF Init
<1>2. memory \in [Daemon -> SUBSET Nat]
  BY DEF Init
<1>3. filed \in 0..MaxFiled
  BY MaxFiledAssumption DEF Init
<1>4. QED
  BY <1>1, <1>2, <1>3 DEF Init, TypeOK

\* Every step keeps the types.
LEMMA TypeNext == TypeOK /\ [Next]_vars => TypeOK'
<1> SUFFICES ASSUME TypeOK, [Next]_vars PROVE TypeOK'
  OBVIOUS
<1> USE DEF TypeOK, PastProbe, Starting, Ended, path, state, history
<1>1. ASSUME NEW d \in Daemon, NEW where, Go(d, where),
             where \in {"new", "serving", "stopping"} \cup Starting \cup Ended
      PROVE  /\ pc' \in [Daemon -> {"new", "serving", "stopping"} \cup Starting \cup Ended]
             /\ crossed' \subseteq Daemon /\ raced' \in BOOLEAN
  BY <1>1 DEF Go
<1>2. ASSUME NEW d \in Daemon, StartStep(d) PROVE TypeOK'
  <2>1. CASE Start(d) \/ Check(d) \/ Probe(d) \/ Unlink(d)
    BY <1>1, <2>1 DEF Start, Check, Probe, Unlink
  <2>2. CASE Load(d)
    BY <1>1, <2>2 DEF Load
  <2>3. CASE Clear(d) \/ Bind(d) \/ Listen(d) \/ Chmod(d)
    BY <1>1, <2>3 DEF Clear, Bind, Listen, Chmod
  <2>4. QED
    BY <1>2, <2>1, <2>2, <2>3 DEF StartStep
<1>3. ASSUME NEW d \in Daemon, File(d) PROVE TypeOK'
  BY <1>3, MaxFiledAssumption DEF File
<1>4. ASSUME NEW d \in Daemon, HandOut(d) PROVE TypeOK'
  BY <1>4 DEF HandOut
<1>5. ASSUME NEW d \in Daemon, BeginStop(d) \/ EndStop(d) \/ Crash(d) PROVE TypeOK'
  BY <1>1, <1>5 DEF BeginStop, EndStop, Crash
<1>6. CASE UNCHANGED vars
  BY <1>6 DEF vars
<1>7. QED
  BY <1>2, <1>3, <1>4, <1>5, <1>6 DEF Next

-------------------------------------------------------------------------------
(***************************************************************************)
(* A race leaves one.  Until a daemon is stopped or killed, the file is    *)
(* that of one who listens or will, or somebody who has yet to bind took   *)
(* it away.                                                                *)
(***************************************************************************)
Calm == \A d \in Daemon : pc[d] \notin {"stopping", "stopped", "crashed"}

PathInv ==
    /\ file = Foreign => \A d \in Daemon : pc[d] \in {"new", "check", "failed", "crashed"}
    /\ file = Stale => \A d \in Daemon : pc[d] \in {"new", "check", "probe", "unlink", "crashed"}
    /\ Calm /\ file \in Daemon => pc[file] \in {"listen", "chmod", "serving"}
    /\ Calm /\ file = Absent /\ (\E d \in Daemon : pc[d] # "new") =>
         \E d \in Daemon : pc[d] \in {"load", "clear", "bind"}

\* At the start nobody holds the path.
LEMMA PathInit == Init => PathInv
BY PathAssumption DEF Init, PathInv

\* Every step keeps the account of who holds the path.
LEMMA PathNext == TypeOK /\ PathInv /\ [Next]_vars => PathInv'
<1> SUFFICES ASSUME TypeOK, PathInv, [Next]_vars PROVE PathInv'
  OBVIOUS
<1> USE PathAssumption DEF path, state
<1>1. ASSUME NEW d \in Daemon, StartStep(d) PROVE PathInv'
  <2>1. CASE Start(d)
    BY <2>1, GoMoves DEF PathInv, Calm, Start
  <2>2. CASE Check(d)
    BY <2>2, GoMoves DEF PathInv, Calm, Check
  <2>3. CASE Probe(d)
    BY <2>3, GoMoves DEF PathInv, Calm, Probe, Listens
  <2>4. CASE Unlink(d)
    BY <2>4, GoMoves DEF PathInv, Calm, Unlink
  <2>5. CASE Load(d)
    BY <2>5, GoMoves DEF PathInv, Calm, Load
  <2>6. CASE Clear(d)
    BY <2>6, GoMoves DEF PathInv, Calm, Clear
  <2>7. CASE Bind(d)
    BY <2>7, GoMoves DEF PathInv, Calm, Bind, TypeOK
  <2>8. CASE Listen(d)
    BY <2>8, GoMoves DEF PathInv, Calm, Listen
  <2>9. CASE Chmod(d)
    BY <2>9, GoMoves DEF PathInv, Calm, Chmod
  <2>10. QED
    BY <1>1, <2>1, <2>2, <2>3, <2>4, <2>5, <2>6, <2>7, <2>8, <2>9 DEF StartStep
<1>2. ASSUME NEW d \in Daemon, File(d) \/ HandOut(d) PROVE PathInv'
  BY <1>2 DEF PathInv, Calm, File, HandOut
<1>3. ASSUME NEW d \in Daemon, BeginStop(d) \/ EndStop(d) PROVE PathInv'
  BY <1>3, GoMoves DEF PathInv, Calm, BeginStop, EndStop
<1>4. ASSUME NEW d \in Daemon, Crash(d) PROVE PathInv'
  BY <1>4, GoMoves DEF PathInv, Calm, Crash
<1>5. CASE UNCHANGED vars
  BY <1>5 DEF PathInv, Calm, vars
<1>6. QED
  BY <1>1, <1>2, <1>3, <1>4, <1>5 DEF Next

\* However many daemons start at once, the path leads to one that serves when all
\* of them serve, were refused or failed (RaceLeavesOne).
THEOREM ARaceLeavesOne == Spec => []RaceLeavesOne
<1>1. TypeOK /\ PathInv => RaceLeavesOne
  BY DEF TypeOK, PathInv, Calm, RaceLeavesOne
<1>2. QED
  BY <1>1, TypeInit, TypeNext, PathInit, PathNext, PTL DEF Spec

-------------------------------------------------------------------------------
(***************************************************************************)
(* Undisturbed.  While a daemon that nobody crosses starts, nobody else    *)
(* touches the path, and once it serves everybody else is refused there.   *)
(***************************************************************************)
Undisturbed(d) ==
    /\ pc[d] \in Starting =>
         \A y \in Daemon \ {d} : pc[y] \notin Starting \cup {"stopping"}
    /\ pc[d] = "serving" =>
         \A y \in Daemon \ {d} : pc[y] \in {"new", "check", "probe", "serving"} \cup Ended
    /\ pc[d] = "check" => file # Absent
    /\ pc[d] = "bind" => file = Absent
    /\ pc[d] \in {"listen", "chmod", "serving"} => file = d
    /\ pc[d] = "failed" => file = Foreign

UndisturbedInv == \A d \in Daemon \ crossed : Undisturbed(d)

\* At the start nobody has been disturbed.
LEMMA UndisturbedInit == Init => UndisturbedInv
BY DEF Init, UndisturbedInv, Undisturbed, Starting, PastProbe

\* Who is not crossed by a step was not before, and met nobody in it.
LEMMA GoMeets ==
    ASSUME TypeOK, NEW d \in Daemon, NEW where, Go(d, where), NEW x \in Daemon \ crossed'
    PROVE  /\ x \notin crossed
           /\ \A y \in Daemon \ {x} :
                /\ pc'[x] \in Starting => pc'[y] \notin Starting \cup {"stopping"}
                /\ pc'[x] = "serving" => pc'[y] # "stopping"
BY DEF Go

\* Every step keeps an undisturbed daemon at the path.
LEMMA UndisturbedNext ==
    TypeOK /\ PathInv /\ UndisturbedInv /\ [Next]_vars => UndisturbedInv'
<1> SUFFICES ASSUME TypeOK, PathInv, UndisturbedInv, [Next]_vars PROVE UndisturbedInv'
  OBVIOUS
<1> USE PathAssumption DEF path, state
<1>1. ASSUME NEW d \in Daemon, StartStep(d), NEW x \in Daemon \ crossed'
      PROVE  Undisturbed(x)'
  <2>1. PICK where : Go(d, where)
    BY <1>1 DEF StartStep, Start, Check, Probe, Unlink, Load, Clear, Bind, Listen, Chmod
  <2>2. x \notin crossed /\ Undisturbed(x)
    BY <2>1, GoMeets DEF UndisturbedInv
  <2>3. /\ pc'[d] = where
        /\ \A y \in Daemon \ {d} : pc'[y] = pc[y]
        /\ \A y \in Daemon \ {x} :
             /\ pc'[x] \in Starting => pc'[y] \notin Starting \cup {"stopping"}
             /\ pc'[x] = "serving" => pc'[y] # "stopping"
    BY <2>1, GoMoves, GoMeets
  <2> USE DEF Undisturbed, Starting, PastProbe, Ended
  <2>4. CASE Start(d)
    BY <2>2, <2>3, <2>4, GoMoves DEF Start
  <2>5. CASE Check(d)
    BY <2>2, <2>3, <2>5, GoMoves DEF Check
  <2>6. CASE Probe(d)
    <3>1. /\ file' = file
          /\ pc'[d] = IF file \in Daemon /\ pc[file] \in Listens THEN "refused" ELSE "unlink"
      BY <2>6, GoMoves DEF Probe
    <3>2. x # d /\ pc[x] = "serving" => pc'[d] = "refused"
      BY <2>2, <3>1 DEF Listens
    <3>3. QED
      BY <2>2, <2>3, <3>1, <3>2
  <2>7. CASE Unlink(d)
    BY <2>2, <2>3, <2>7, GoMoves DEF Unlink, PathInv
  <2>8. CASE Load(d)
    BY <2>2, <2>3, <2>8, GoMoves DEF Load
  <2>9. CASE Clear(d)
    BY <2>2, <2>3, <2>9, GoMoves DEF Clear, PathInv
  <2>10. CASE Bind(d)
    BY <2>2, <2>3, <2>10, GoMoves DEF Bind
  <2>11. CASE Listen(d)
    BY <2>2, <2>3, <2>11, GoMoves DEF Listen
  <2>12. CASE Chmod(d)
    BY <2>2, <2>3, <2>12, GoMoves DEF Chmod, TypeOK
  <2>13. QED
    BY <1>1, <2>4, <2>5, <2>6, <2>7, <2>8, <2>9, <2>10, <2>11, <2>12 DEF StartStep
<1>2. ASSUME NEW d \in Daemon, File(d) \/ HandOut(d) PROVE UndisturbedInv'
  BY <1>2 DEF UndisturbedInv, Undisturbed, File, HandOut, history
<1>3. ASSUME NEW d \in Daemon, BeginStop(d) \/ EndStop(d) \/ Crash(d),
             NEW x \in Daemon \ crossed'
      PROVE  Undisturbed(x)'
  <2>1. PICK where \in {"stopping", "stopped", "crashed"} : Go(d, where)
    BY <1>3 DEF BeginStop, EndStop, Crash
  <2>2. x \notin crossed /\ Undisturbed(x)
    BY <2>1, GoMeets DEF UndisturbedInv
  <2>3. /\ pc'[d] = where
        /\ \A y \in Daemon \ {d} : pc'[y] = pc[y]
        /\ \A y \in Daemon \ {x} :
             /\ pc'[x] \in Starting => pc'[y] \notin Starting \cup {"stopping"}
             /\ pc'[x] = "serving" => pc'[y] # "stopping"
    BY <2>1, GoMoves, GoMeets
  <2>4. QED
    BY <1>3, <2>2, <2>3, GoMoves
       DEF Undisturbed, Starting, PastProbe, Ended, PathInv, BeginStop, EndStop, Crash
<1>4. CASE UNCHANGED vars
  BY <1>4 DEF UndisturbedInv, Undisturbed, vars, history
<1>5. QED
  BY <1>1, <1>2, <1>3, <1>4 DEF Next, UndisturbedInv

\* A daemon that no other crosses serves at the path or was in the way of a file
\* that is no socket (UndisturbedStart).
THEOREM UndisturbedServes == Spec => []UndisturbedStart
<1>1. UndisturbedInv => UndisturbedStart
  BY DEF UndisturbedInv, Undisturbed, UndisturbedStart
<1>2. QED
  BY <1>1, TypeInit, TypeNext, PathInit, PathNext, UndisturbedInit, UndisturbedNext, PTL
     DEF Spec

-------------------------------------------------------------------------------
(***************************************************************************)
(* Handed over.  The state directory holds what was filed and not handed   *)
(* out, and the only daemon past its probe, once it has loaded, the same.  *)
(***************************************************************************)
Loaded == {"clear", "bind", "listen", "chmod", "serving"}

OnlyOne == \A x, y \in Daemon : x # y => ~({pc[x], pc[y]} \subseteq PastProbe)

HandedInv ==
    /\ handed \cup disk \subseteq 1..filed
    /\ \A d \in Daemon : memory[d] \subseteq 1..filed
    /\ ~raced =>
         /\ OnlyOne
         /\ disk = (1..filed) \ handed
         /\ \A d \in Daemon : pc[d] \in Loaded => memory[d] = disk

\* At the start nothing is filed, nothing is in memory.
LEMMA HandedInit == Init => HandedInv
BY DEF Init, HandedInv, OnlyOne, Loaded, PastProbe

\* Every step keeps memory and disk together while one daemon follows another.
LEMMA HandedNext == TypeOK /\ HandedInv /\ [Next]_vars => HandedInv'
<1> SUFFICES ASSUME TypeOK, HandedInv, [Next]_vars PROVE HandedInv'
  OBVIOUS
<1>1. ASSUME NEW d \in Daemon, NEW where, Go(d, where) PROVE
             /\ raced => raced'
             /\ ~raced' => OnlyOne'
  BY <1>1 DEF Go, OnlyOne
<1>2. ASSUME NEW d \in Daemon, StartStep(d) PROVE HandedInv'
  <2>1. CASE Load(d)
    BY <1>1, <2>1, GoMoves DEF Load, HandedInv, OnlyOne, Loaded, PastProbe, TypeOK, path
  <2>2. CASE Start(d) \/ Check(d) \/ Probe(d) \/ Unlink(d)
    BY <1>1, <2>2, GoMoves DEF Start, Check, Probe, Unlink, HandedInv, Loaded, state
  <2>3. CASE Clear(d) \/ Bind(d) \/ Listen(d) \/ Chmod(d)
    BY <1>1, <2>3, GoMoves DEF Clear, Bind, Listen, Chmod, HandedInv, Loaded, state
  <2>4. QED
    BY <1>2, <2>1, <2>2, <2>3 DEF StartStep
<1>3. ASSUME NEW d \in Daemon, File(d) PROVE HandedInv'
  <2>1. filed' = filed + 1 /\ filed \in Nat
    BY <1>3, MaxFiledAssumption DEF File, TypeOK
  <2>2. /\ memory'[d] = memory[d] \cup {filed'} /\ disk' = memory'[d]
        /\ \A x \in Daemon \ {d} : memory'[x] = memory[x]
        /\ pc[d] = "serving" /\ handed' = handed /\ pc' = pc /\ raced' = raced
    BY <1>3 DEF File, TypeOK, history
  <2>3. /\ handed' \cup disk' \subseteq 1..filed'
        /\ \A x \in Daemon : memory'[x] \subseteq 1..filed'
    BY <2>1, <2>2 DEF HandedInv
  <2>4. ASSUME ~raced
        PROVE  /\ OnlyOne'
               /\ disk' = (1..filed') \ handed'
               /\ \A x \in Daemon : pc'[x] \in Loaded => memory'[x] = disk'
    BY <2>1, <2>2, <2>4 DEF HandedInv, OnlyOne, Loaded, PastProbe
  <2>5. QED
    BY <2>2, <2>3, <2>4 DEF HandedInv
<1>4. ASSUME NEW d \in Daemon, HandOut(d) PROVE HandedInv'
  BY <1>4 DEF HandOut, HandedInv, OnlyOne, Loaded, PastProbe, TypeOK, history
<1>5. ASSUME NEW d \in Daemon, BeginStop(d) \/ EndStop(d) \/ Crash(d) PROVE HandedInv'
  BY <1>1, <1>5, GoMoves DEF BeginStop, EndStop, Crash, HandedInv, Loaded, state
<1>6. CASE UNCHANGED vars
  BY <1>6 DEF vars, state, history, HandedInv, OnlyOne
<1>7. QED
  BY <1>2, <1>3, <1>4, <1>5, <1>6 DEF Next

\* As long as no two daemons raced, one that serves keeps exactly the mail that
\* was filed and not handed out, whoever filed it (HandedOver).
THEOREM MailIsHandedOver == Spec => []HandedOver
<1>1. HandedInv => HandedOver
  BY DEF HandedInv, HandedOver, Loaded
<1>2. QED
  BY <1>1, TypeInit, TypeNext, HandedInit, HandedNext, PTL DEF Spec
==================================================================================
