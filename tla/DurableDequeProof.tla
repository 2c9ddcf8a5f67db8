--------------------------- MODULE DurableDequeProof ---------------------------
(***************************************************************************)
(* DurableDeque implements MessageQueue, for every set of messages and     *)
(* every bound: no failure or crash tears a file.  And a client that pages *)
(* through the deque meanwhile misses nothing (Paging).                    *)
(***************************************************************************)
EXTENDS Paging, PersistentDequeProof

\* An append keeps the deque a sequence of messages.
LEMMA AppendBoundedType ==
    ASSUME NEW q \in Seq(Msg), NEW m \in Msg
    PROVE  AppendBounded(q, m, MaxLen) \in Seq(Msg)
<1> DEFINE long == Append(q, m)
<1>1. long \in Seq(Msg) /\ Len(long) = Len(q) + 1 /\ Len(q) \in Nat
  OBVIOUS
<1>2. Tail(long) \in Seq(Msg)
  <2> HIDE DEF long
  <2>1. QED
    BY <1>1
<1>3. QED
  BY <1>1, <1>2 DEF AppendBounded

\* One more line keeps the .tmp file a prefix of the deque.
LEMMA WriteLineStep ==
    ASSUME FlushInv, WriteLine PROVE FlushInv'
<1> USE DEF FlushInv, WriteLine
<1>1. tmp \in Seq(Msg) /\ deque \in Seq(Msg) /\ Len(tmp) < Len(deque)
  BY DEF TmpIsPrefix, TypeOK
<1>2. deque[Len(tmp) + 1] \in Msg
  BY <1>1
<1>3. TypeOK'
  BY <1>1, <1>2 DEF TypeOK, Busy
<1>4. TmpIsPrefix'
  <2>1. /\ tmp' \in Seq(Msg)
        /\ Len(tmp') = Len(tmp) + 1
        /\ \A i \in 1..Len(tmp) : tmp'[i] = tmp[i]
        /\ tmp'[Len(tmp) + 1] = deque[Len(tmp) + 1]
    BY <1>1, <1>2
  <2>2. Len(tmp') <= Len(deque)
    BY <1>1, <2>1
  <2>3. ASSUME NEW i \in 1..Len(tmp') PROVE tmp'[i] = deque[i]
    BY <1>1, <2>1 DEF TmpIsPrefix
  <2>4. QED
    BY <2>1, <2>2, <2>3 DEF TmpIsPrefix
<1>5. CallInProgress'
  BY DEF CallInProgress
<1>6. QED
  BY <1>3, <1>4, <1>5

\* Every file operation, failure, crash and restart keeps FlushInv.
LEMMA FlushNext == FlushInv /\ [Next]_vars => FlushInv'
<1> SUFFICES ASSUME FlushInv, [Next]_vars PROVE FlushInv'
  OBVIOUS
<1> USE DEF FlushInv, TypeOK, TmpIsPrefix, CallInProgress, Busy
<1>1. ASSUME NEW m \in Msg, StartAppend(m) PROVE FlushInv'
  <2>1. deque' \in Seq(Msg)
    BY <1>1, AppendBoundedType DEF StartAppend
  <2>2. QED
    BY <1>1, <2>1 DEF StartAppend
<1>2. CASE OpenTmp
  BY <1>2 DEF OpenTmp
<1>3. CASE WriteLine
  BY <1>3, WriteLineStep
<1>4. CASE Replace
  BY <1>4 DEF Replace
<1>5. CASE StartDrain
  BY <1>5 DEF StartDrain
<1>6. CASE Unlink
  BY <1>6 DEF Unlink
<1>7. CASE Fail
  BY <1>7 DEF Fail
<1>8. CASE Crash
  BY <1>8 DEF Crash
<1>9. CASE Load
  BY <1>9 DEF Load
<1>10. CASE UNCHANGED vars
  BY <1>10 DEF vars
<1>11. QED
  BY <1>1, <1>2, <1>3, <1>4, <1>5, <1>6, <1>7, <1>8, <1>9, <1>10 DEF Next

\* The .tmp file is a prefix of the deque while it is written, and a call in
\* progress has changed memory as it will change disk (FlushInv).
THEOREM FlushesAreSound == Spec => []FlushInv
<1>1. Init => FlushInv
  BY DEF Init, FlushInv, TypeOK, TmpIsPrefix, CallInProgress, Busy
<1>2. QED
  BY <1>1, FlushNext, PTL DEF Spec

-------------------------------------------------------------------------------
\* When the file is replaced, it is by all of the deque.
LEMMA ReplaceIsWhole ==
    ASSUME FlushInv, Replace PROVE file' = deque
<1>1. /\ tmp \in Seq(Msg) /\ deque \in Seq(Msg) /\ Len(tmp) = Len(deque)
      /\ \A i \in 1..Len(tmp) : tmp[i] = deque[i]
  BY DEF FlushInv, TypeOK, TmpIsPrefix, Replace
<1>2. tmp = deque
  BY <1>1
<1>3. QED
  BY <1>2 DEF Replace

\* append and drain take effect at once, when they return or raise; a crash is
\* where the queue falls back to its file (ImplementsMessageQueue).
THEOREM FileIsNeverTorn == Spec => ImplementsMessageQueue
<1>1. Init => Queue!Init
  BY DEF Init, Queue!Init, Busy
<1>2. ASSUME FlushInv, [Next]_vars
      PROVE  [Queue!Next]_<<IF pc \in Busy THEN before
                           ELSE IF pc = "down" THEN file ELSE deque, file>>
  <2> USE DEF Busy
  <2>1. ASSUME NEW m \in Msg, StartAppend(m) PROVE UNCHANGED
            <<IF pc \in Busy THEN before
              ELSE IF pc = "down" THEN file ELSE deque, file>>
    BY <2>1 DEF StartAppend
  <2>2. CASE OpenTmp
    BY <2>2 DEF OpenTmp
  <2>3. CASE WriteLine
    BY <2>3 DEF WriteLine
  <2>4. CASE Replace
    <3>1. PICK m \in Msg : deque = AppendBounded(before, m, MaxLen)
      BY <1>2, <2>4 DEF Replace, FlushInv, CallInProgress
    <3>2. file' = deque
      BY <1>2, <2>4, ReplaceIsWhole
    <3>3. Queue!Add(m)
      BY <2>4, <3>1, <3>2 DEF Replace, Queue!Add,
           Queue!AppendBounded, AppendBounded
    <3>4. QED
      BY <3>3 DEF Queue!Next
  <2>5. CASE StartDrain
    BY <2>5 DEF StartDrain
  <2>6. CASE Unlink
    <3>1. Queue!TakeAll
      BY <1>2, <2>6 DEF Unlink, FlushInv, CallInProgress, Queue!TakeAll
    <3>2. QED
      BY <3>1 DEF Queue!Next
  <2>7. CASE Fail
    <3>1. CASE pc = "unlink"
      <4>1. Queue!TakeAllFails
        BY <1>2, <2>7, <3>1
           DEF Fail, FlushInv, CallInProgress, Queue!TakeAllFails
      <4>2. QED
        BY <4>1 DEF Queue!Next
    <3>2. CASE pc \in {"flush", "write"}
      <4>1. PICK m \in Msg : deque = AppendBounded(before, m, MaxLen)
        BY <1>2, <3>2 DEF FlushInv, CallInProgress
      <4>2. Queue!AddFails(m)
        BY <2>7, <3>2, <4>1 DEF Fail, Queue!AddFails,
             Queue!AppendBounded, AppendBounded
      <4>3. QED
        BY <4>2 DEF Queue!Next
    <3>3. QED
      BY <2>7, <3>1, <3>2 DEF Fail
  <2>8. CASE Crash
    <3>1. Queue!Reload
      BY <2>8 DEF Crash, Queue!Reload
    <3>2. QED
      BY <3>1 DEF Queue!Next
  <2>9. CASE Load
    BY <2>9 DEF Load
  <2>10. CASE UNCHANGED vars
    BY <2>10 DEF vars
  <2>11. QED
    BY <1>2, <2>1, <2>2, <2>3, <2>4, <2>5, <2>6, <2>7, <2>8, <2>9, <2>10
       DEF Next
<1>3. QED
  BY <1>1, <1>2, FlushesAreSound, PTL DEF Spec, Queue!Spec, ImplementsMessageQueue

\* A client that pages through the deque takes no part in what becomes of it:
\* all of this holds while one does, the repeated use of a message id excluded.
THEOREM PagingIsHarmless == PSpec => []FlushInv /\ ImplementsMessageQueue
<1>1. PInit => Init
  BY DEF PInit
<1>2. [PNext]_pvars => [Next]_vars
  BY DEF PNext, Append1, FileStep, Dies, History, Next, pvars
<1>3. PSpec => Spec
  BY <1>1, <1>2, PTL DEF PSpec, Spec
<1>4. QED
  BY <1>3, FlushesAreSound, FileIsNeverTorn

-------------------------------------------------------------------------------
(***************************************************************************)
(* A client that pages.  What it relies on is said of two sequences: the   *)
(* messages a history shows, and the deque a call in progress has already  *)
(* changed, which is shown next if the call returns or raises.             *)
(***************************************************************************)

\* The messages as a history may show them next, Queue's memory.
Shown == IF pc \in Busy THEN before ELSE IF pc = "down" THEN file ELSE deque

\* The messages of q are old and rise; up to the cursor none is left unless the
\* cursor is, and of those since start the client has each.
PagedTo(q) ==
    /\ q \in Seq(Msg)
    /\ Len(q) <= MaxLen
    /\ \A i \in DOMAIN q : q[i] <= minted
    /\ \A i, j \in DOMAIN q : i < j => q[i] < q[j]
    /\ cursor # None =>
          \A m \in Ids(q) : m <= cursor =>
              /\ cursor \in Ids(q)
              /\ start <= m => m \in Ids(got)

\* The pages rise, and the cursor is the last message of them.
PagesRise ==
    /\ got \in Seq(Msg) /\ start \in Nat
    /\ \A i \in DOMAIN got : got[i] <= minted
    /\ \A i, j \in DOMAIN got : i < j => got[i] < got[j]
    /\ IF got = <<>> THEN cursor = None ELSE cursor = got[Len(got)]

PagesInv ==
    /\ minted \in Nat
    /\ ~undone => PagedTo(Shown) /\ PagedTo(deque) /\ PagesRise

\* A message newer than all pages, appended, leaves nothing unread behind the
\* cursor: what it pushes out is the oldest.
LEMMA PagedAppend ==
    ASSUME PagesInv, ~undone, minted + 1 \in Msg,
           NEW r, r = AppendBounded(deque, minted + 1, MaxLen)
    PROVE  /\ r \in Seq(Msg)
           /\ Len(r) <= MaxLen
           /\ \A i \in DOMAIN r : r[i] <= minted + 1
           /\ \A i, j \in DOMAIN r : i < j => r[i] < r[j]
           /\ cursor # None =>
                 \A m \in Ids(r) : m <= cursor =>
                     /\ cursor \in Ids(r)
                     /\ start <= m => m \in Ids(got)
<1>1. /\ deque \in Seq(Msg) /\ Len(deque) <= MaxLen
      /\ \A i \in 1..Len(deque) : deque[i] \in Nat /\ deque[i] <= minted
      /\ \A i, j \in 1..Len(deque) : i < j => deque[i] < deque[j]
      /\ minted \in Nat /\ MaxLen \in Nat \ {0} /\ Len(deque) \in Nat
  <2>1. /\ deque \in Seq(Msg) /\ Len(deque) <= MaxLen
        /\ \A i \in DOMAIN deque : deque[i] <= minted
        /\ \A i, j \in DOMAIN deque : i < j => deque[i] < deque[j]
        /\ minted \in Nat
    BY DEF PagesInv, PagedTo
  <2>2. Len(deque) \in Nat /\ DOMAIN deque = 1..Len(deque)
    BY <2>1
  <2>3. \A i \in 1..Len(deque) : deque[i] \in Nat
    <3>1. \A i \in 1..Len(deque) : deque[i] \in Msg
      BY <2>1
    <3>2. QED
      BY <3>1, PagingAssumption
  <2>4. QED
    BY <2>1, <2>2, <2>3, MaxLenAssumption
<1>2. /\ r \in Seq(Msg) /\ Len(r) \in 1..MaxLen
      /\ r[Len(r)] = minted + 1
      /\ Len(r) \in {Len(deque), Len(deque) + 1}
      /\ \A i \in 1..(Len(r) - 1) : r[i] = deque[i + (Len(deque) + 1 - Len(r))]
  BY <1>1, AppendBoundedPromise
<1>3. PICK d : d = Len(deque) + 1 - Len(r)
  OBVIOUS
<1>4. /\ d \in {0, 1} /\ Len(r) \in Nat /\ Len(r) - 1 = Len(deque) - d
      /\ DOMAIN r = 1..Len(r)
      /\ \A i \in 1..(Len(r) - 1) : i + d \in 1..Len(deque) /\ r[i] = deque[i + d]
  BY <1>1, <1>2, <1>3
<1>5. ASSUME NEW i \in 1..Len(r) PROVE r[i] <= minted + 1
  <2>1. CASE i = Len(r)
    BY <1>1, <1>2, <2>1
  <2>2. CASE i # Len(r)
    <3>1. i \in 1..(Len(r) - 1)
      BY <1>4, <2>2
    <3>2. QED
      BY <1>1, <1>4, <3>1
  <2>3. QED
    BY <2>1, <2>2
<1>6. ASSUME NEW i \in 1..Len(r), NEW j \in 1..Len(r), i < j PROVE r[i] < r[j]
  <2>1. i \in 1..(Len(r) - 1) /\ r[i] = deque[i + d]
    BY <1>4, <1>6
  <2>2. CASE j = Len(r)
    BY <1>1, <1>2, <1>4, <2>1, <2>2
  <2>3. CASE j # Len(r)
    <3>1. j \in 1..(Len(r) - 1) /\ r[j] = deque[j + d]
      BY <1>4, <1>6, <2>3
    <3>2. i + d < j + d
      BY <1>4, <1>6
    <3>3. QED
      BY <1>1, <1>4, <2>1, <3>1, <3>2
  <2>4. QED
    BY <2>2, <2>3
<1>7. ASSUME cursor # None, NEW m \in Ids(r), m <= cursor
      PROVE  cursor \in Ids(r) /\ (start <= m => m \in Ids(got))
  <2>1. cursor \in Nat /\ cursor <= minted
    <3>1. /\ got \in Seq(Msg) /\ got # <<>> /\ cursor = got[Len(got)]
          /\ \A i \in DOMAIN got : got[i] <= minted
      BY <1>7 DEF PagesInv, PagesRise
    <3>2. Len(got) \in DOMAIN got /\ got[Len(got)] \in Msg
      BY <3>1
    <3>3. QED
      BY <3>1, <3>2, PagingAssumption
  <2>2. PICK i \in 1..Len(r) : m = r[i]
    BY <1>4 DEF Ids
  <2>3. i \in 1..(Len(r) - 1)
    BY <1>1, <1>2, <1>4, <1>7, <2>1, <2>2
  <2>4. i + d \in 1..Len(deque) /\ m = deque[i + d]
    BY <1>4, <2>2, <2>3
  <2>5. m \in Ids(deque)
    BY <1>1, <2>4 DEF Ids
  <2>6. cursor \in Ids(deque) /\ (start <= m => m \in Ids(got))
    BY <1>7, <2>5 DEF PagesInv, PagedTo
  <2>7. PICK j \in 1..Len(deque) : cursor = deque[j]
    BY <1>1, <2>6 DEF Ids
  <2>8. ~(j < i + d)
    <3>1. j < i + d => deque[j] < deque[i + d]
      BY <1>1, <2>4
    <3>2. QED
      BY <1>1, <1>7, <2>1, <2>4, <2>7, <3>1
  <2>9. j - d \in 1..(Len(r) - 1)
    BY <1>1, <1>4, <2>3, <2>7, <2>8
  <2>10. r[j - d] = deque[j] /\ j - d \in DOMAIN r
    BY <1>4, <2>7, <2>9
  <2>11. QED
    BY <2>6, <2>7, <2>10 DEF Ids
<1>8. QED
  BY <1>2, <1>4, <1>5, <1>6, <1>7

\* A page goes on from where the last one ended.
LEMMA HistoryStep ==
    ASSUME PagesInv, NEW limit \in Limits, History(limit)
    PROVE  PagesInv'
<1>1. PICK r : r = Page(deque, cursor, limit)
  OBVIOUS
<1>2. /\ pc = "idle" /\ r # <<>> /\ got' = got \o r /\ cursor' = r[Len(r)]
      /\ start' = IF cursor \in Ids(deque) THEN start ELSE r[1]
      /\ minted' = minted /\ undone' = undone /\ deque' = deque
      /\ pc' = pc /\ file' = file /\ before' = before
  BY <1>1 DEF History, vars
<1>3. Shown = deque /\ Shown' = deque'
  BY <1>2 DEF Shown, Busy
<1>4. minted \in Nat /\ limit \in Nat \ {0}
  BY PagingAssumption DEF PagesInv
<1>5. SUFFICES ASSUME ~undone PROVE PagedTo(deque)' /\ PagesRise'
  BY <1>2, <1>3, <1>4 DEF PagesInv, PagedTo
<1>6. /\ deque \in Seq(Msg) /\ Len(deque) <= MaxLen
      /\ \A i \in DOMAIN deque : deque[i] <= minted
      /\ \A i, j \in DOMAIN deque : i < j => deque[i] < deque[j]
      /\ got \in Seq(Msg) /\ start \in Nat
      /\ \A i \in DOMAIN got : got[i] <= minted
      /\ \A i, j \in DOMAIN got : i < j => got[i] < got[j]
  BY <1>5 DEF PagesInv, PagedTo, PagesRise
<1>7. /\ Len(deque) \in Nat /\ DOMAIN deque = 1..Len(deque)
      /\ Len(got) \in Nat /\ DOMAIN got = 1..Len(got)
      /\ \A i \in 1..Len(deque) : deque[i] \in Msg
      /\ \A i \in 1..Len(got) : got[i] \in Msg
  BY <1>6
<1>8. /\ \A i \in 1..Len(deque) : deque[i] \in Nat
      /\ \A i \in 1..Len(got) : got[i] \in Nat
  BY <1>7, PagingAssumption
<1>9. PICK off \in 0..Len(deque) :
          /\ r \in Seq(Msg) /\ off + Len(r) <= Len(deque)
          /\ \A k \in 1..Len(r) : r[k] = deque[off + k]
          /\ cursor \in Ids(deque) => off # 0 /\ deque[off] = cursor
  <2> DEFINE S == Msg
  <2>1. deque \in Seq(S) /\ limit \in Nat \ {0} /\ r = Page(deque, cursor, limit)
    BY <1>1, <1>4, <1>6
  <2> HIDE DEF S
  <2>2. /\ r \in Seq(S)
        /\ \E off \in 0..Len(deque) :
              /\ off + Len(r) <= Len(deque)
              /\ \A k \in 1..Len(r) : r[k] = deque[off + k]
              /\ cursor \in Ids(deque) => off # 0 /\ deque[off] = cursor
              /\ cursor \notin Ids(deque) => off + Len(r) = Len(deque)
    BY ONLY <2>1, PageIsRun
  <2>3. QED
    BY <2>2 DEF S
<1>10. /\ Len(r) \in Nat \ {0} /\ DOMAIN r = 1..Len(r)
       /\ \A k \in 1..Len(r) : off + k \in 1..Len(deque)
  BY <1>2, <1>7, <1>9
<1>11. \A k \in 1..Len(r) : /\ r[k] \in Nat /\ r[k] \in Msg /\ r[k] <= minted
                            /\ r[k] = deque[off + k]
  BY <1>6, <1>7, <1>8, <1>9, <1>10
\* All of the page is newer than what came before.
<1>12. ASSUME NEW i \in 1..Len(got), NEW k \in 1..Len(r) PROVE got[i] < r[k]
  <2>1. cursor = got[Len(got)] /\ cursor \in Msg /\ cursor # None
    BY <1>5, <1>7, PagingAssumption DEF PagesInv, PagesRise
  <2>2. cursor \in Nat /\ got[i] <= cursor
    BY <1>6, <1>7, <1>8, <2>1
  <2>3. CASE cursor \in Ids(deque)
    <3>1. off \in 1..Len(deque) /\ deque[off] = cursor
      BY <1>7, <1>9, <2>3
    <3>2. deque[off] < deque[off + k]
      BY <1>6, <1>7, <1>10, <3>1
    <3>3. QED
      BY <1>8, <1>11, <2>2, <3>1, <3>2
  <2>4. CASE cursor \notin Ids(deque)
    <3>1. r[k] \in Ids(deque)
      BY <1>7, <1>10, <1>11 DEF Ids
    <3>2. ~(r[k] <= cursor)
      BY <1>5, <2>1, <2>4, <3>1 DEF PagesInv, PagedTo
    <3>3. QED
      BY <1>8, <1>11, <2>2, <3>2
  <2>5. QED
    BY <2>3, <2>4
<1>13. PICK all, m, n : all = got \o r /\ m = Len(got) /\ n = Len(r)
  OBVIOUS
<1>14. /\ m \in Nat /\ n \in Nat \ {0} /\ all \in Seq(Msg) /\ Len(all) = m + n
       /\ DOMAIN all = 1..(m + n)
       /\ \A i \in 1..m : all[i] = got[i]
       /\ \A i \in (m + 1)..(m + n) : all[i] = r[i - m] /\ i - m \in 1..n
  <2>1. /\ m \in Nat /\ n \in Nat /\ all \in Seq(Msg) /\ Len(all) = m + n
        /\ \A i \in 1..m : all[i] = got[i]
        /\ \A i \in (m + 1)..(m + n) : all[i] = r[i - m] /\ i - m \in 1..n
    BY <1>6, <1>9, <1>13, ConcatMeans
  <2>2. QED
    BY <1>10, <1>13, <2>1
<1>15. Ids(got) \subseteq Ids(all) /\ Ids(r) \subseteq Ids(all)
  <2>1. \A i \in 1..m : i \in 1..(m + n) /\ got[i] = all[i]
    BY <1>14
  <2>2. \A k \in 1..n : m + k \in 1..(m + n) /\ r[k] = all[m + k]
    <3> SUFFICES ASSUME NEW k \in 1..n
                 PROVE  m + k \in 1..(m + n) /\ r[k] = all[m + k]
      OBVIOUS
    <3>1. m + k \in (m + 1)..(m + n) /\ (m + k) - m = k
      BY <1>14
    <3>2. QED
      BY <1>14, <3>1
  <2>3. /\ DOMAIN got = 1..m /\ DOMAIN r = 1..n /\ DOMAIN all = 1..(m + n)
    BY <1>7, <1>10, <1>13, <1>14
  <2>4. QED
    BY ONLY <2>1, <2>2, <2>3 DEF Ids
<1>16. PagesRise'
  <2>1. \A i \in DOMAIN all : all[i] <= minted
    <3> SUFFICES ASSUME NEW i \in 1..(m + n) PROVE all[i] <= minted
      BY <1>14
    <3>1. CASE i \in 1..m
      BY <1>6, <1>7, <1>13, <1>14, <3>1
    <3>2. CASE i \in (m + 1)..(m + n)
      BY <1>11, <1>13, <1>14, <3>2
    <3>3. QED
      BY <1>14, <3>1, <3>2
  <2>2. ASSUME NEW i \in DOMAIN all, NEW j \in DOMAIN all, i < j
        PROVE  all[i] < all[j]
    <3>1. CASE j \in 1..m
      <4>1. i \in 1..m
        BY <1>14, <2>2, <3>1
      <4>2. QED
        BY <1>6, <1>7, <1>13, <1>14, <2>2, <3>1, <4>1
    <3>2. CASE i \in 1..m /\ j \in (m + 1)..(m + n)
      BY <1>12, <1>13, <1>14, <3>2
    <3>3. CASE i \in (m + 1)..(m + n)
      <4>1. j \in (m + 1)..(m + n)
        BY <1>14, <2>2, <3>3
      <4>2. /\ i - m \in 1..n /\ j - m \in 1..n /\ all[i] = r[i - m]
            /\ all[j] = r[j - m] /\ i - m < j - m
        BY <1>14, <2>2, <3>3, <4>1
      <4>3. off + (i - m) \in 1..Len(deque) /\ off + (j - m) \in 1..Len(deque)
        BY ONLY <1>10, <1>13, <4>2
      <4>4. off + (i - m) < off + (j - m)
        <5>1. off \in Nat /\ m \in Nat /\ i \in Nat /\ j \in Nat
          BY <1>7, <1>14, <2>2
        <5>2. QED
          BY ONLY <4>2, <5>1
      <4>5. QED
        BY <1>6, <1>7, <1>11, <1>13, <4>2, <4>3, <4>4
    <3>4. QED
      BY <1>14, <3>1, <3>2, <3>3
  <2>3. all # <<>> /\ all[m + n] = r[n]
    <3>1. m + n \in (m + 1)..(m + n) /\ (m + n) - m = n
      BY <1>14
    <3>2. QED
      BY <1>14, <3>1
  <2>4. start' \in Nat
    <3>1. r[1] \in Nat
      BY <1>10, <1>11
    <3>2. QED
      BY <1>2, <1>6, <3>1
  <2>5. got' = all /\ cursor' = all[Len(all)] /\ minted' = minted
    BY <1>2, <1>13, <1>14, <2>3
  <2>6. QED
    BY <1>14, <2>1, <2>2, <2>3, <2>4, <2>5 DEF PagesRise
<1>17. PagedTo(deque)'
  <2>1. /\ off + n \in 1..Len(deque) /\ cursor' = deque[off + n]
        /\ cursor' \in Ids(deque)
    <3>1. n \in 1..Len(r) /\ r[n] = cursor' /\ n = Len(r)
      BY <1>2, <1>13, <1>14
    <3>2. off + n \in 1..Len(deque) /\ cursor' = deque[off + n]
      BY <1>10, <1>11, <3>1
    <3>3. QED
      BY <1>7, <3>2 DEF Ids
  <2>2. ASSUME NEW x \in Ids(deque), x <= cursor', start' <= x
        PROVE  x \in Ids(all)
    <3>1. PICK i \in 1..Len(deque) : x = deque[i]
      BY <1>7 DEF Ids
    <3>2. ~(off + n < i)
      <4>1. off + n < i => deque[off + n] < deque[i]
        BY <1>6, <1>7, <2>1, <3>1
      <4>2. QED
        BY <1>8, <2>1, <2>2, <3>1, <4>1
    <3>3. CASE i > off
      <4>1. i - off \in 1..n /\ off + (i - off) = i
        BY <1>7, <1>9, <1>14, <3>1, <3>2, <3>3
      <4>2. x = r[i - off]
        BY <1>11, <1>13, <3>1, <4>1
      <4>3. x \in Ids(r)
        BY <1>10, <1>13, <4>1, <4>2 DEF Ids
      <4>4. QED
        BY <1>15, <4>3
    <3>4. CASE ~(i > off) /\ cursor \in Ids(deque)
      <4>1. off \in 1..Len(deque) /\ deque[off] = cursor /\ start' = start
        BY <1>2, <1>7, <1>9, <3>4
      <4>2. deque[i] <= deque[off]
        <5>1. i < off => deque[i] < deque[off]
          BY <1>6, <1>7, <3>1, <4>1
        <5>2. QED
          BY <1>8, <3>1, <3>4, <4>1, <5>1
      <4>3. cursor # None
        BY <1>7, <4>1, PagingAssumption
      <4>4. x \in Ids(got)
        BY <1>5, <2>2, <3>1, <4>1, <4>2, <4>3 DEF PagesInv, PagedTo
      <4>5. QED
        BY <1>15, <4>4
    <3>5. CASE ~(i > off) /\ cursor \notin Ids(deque)
      <4>1. start' = deque[off + 1] /\ off + 1 \in 1..Len(deque) /\ i < off + 1
        BY <1>2, <1>10, <1>11, <3>1, <3>5
      <4>2. deque[i] < deque[off + 1]
        BY <1>6, <1>7, <3>1, <4>1
      <4>3. QED
        BY <1>8, <2>2, <3>1, <4>1, <4>2
    <3>6. QED
      BY <3>3, <3>4, <3>5
  <2>3. deque' = deque /\ minted' = minted /\ got' = all
    BY <1>2, <1>13
  <2>4. QED
    BY <1>6, <2>1, <2>2, <2>3 DEF PagedTo
<1>18. QED
  BY <1>16, <1>17

\* Steps that only change which of the two sequences is shown, or empty one.
LEMMA ShownMoves ==
    ASSUME PagesInv, UNCHANGED <<minted, paging>>, undone => undone',
           ~undone' =>
              \/ Shown' = Shown /\ deque' = deque
              \/ Shown' = deque /\ deque' \in {deque, <<>>}
              \/ Shown' = Shown /\ deque' = Shown
    PROVE  PagesInv'
<1>1. minted' = minted /\ cursor' = cursor /\ got' = got /\ start' = start
  BY DEF paging
<1>2. SUFFICES ASSUME ~undone'
               PROVE  PagedTo(Shown)' /\ PagedTo(deque)' /\ PagesRise'
  BY <1>1 DEF PagesInv
<1>3. PagedTo(Shown) /\ PagedTo(deque) /\ PagesRise
  BY <1>2 DEF PagesInv
<1>4. PagedTo(<<>>)
  BY MaxLenAssumption DEF PagedTo, Ids
<1>5. PagedTo(deque)'
  BY <1>1, <1>2, <1>3, <1>4 DEF PagedTo
<1>6. PagedTo(Shown)'
  BY <1>1, <1>2, <1>3, <1>5 DEF PagedTo
<1>7. PagesRise'
  BY <1>1, <1>3 DEF PagesRise
<1>8. QED
  BY <1>5, <1>6, <1>7

\* Every step keeps PagesInv.
LEMMA PagesNext == FlushInv /\ PagesInv /\ [PNext]_pvars => PagesInv'
<1> SUFFICES ASSUME FlushInv, PagesInv, [PNext]_pvars PROVE PagesInv'
  OBVIOUS
<1> USE DEF Busy
<1>1. pc \in Busy \cup {"idle", "down"}
  BY DEF FlushInv, TypeOK
<1>2. CASE Append1
  <2>1. /\ pc = "idle" /\ minted + 1 \in Msg /\ before' = deque
        /\ deque' = AppendBounded(deque, minted + 1, MaxLen)
        /\ pc' = "flush" /\ minted' = minted + 1 /\ undone' = undone
        /\ cursor' = cursor /\ got' = got /\ start' = start
    BY <1>2 DEF Append1, StartAppend, paging
  <2>2. Shown = deque /\ Shown' = deque
    BY <2>1 DEF Shown
  <2>3. minted \in Nat
    BY DEF PagesInv
  <2>4. SUFFICES ASSUME ~undone
                 PROVE  PagedTo(Shown)' /\ PagedTo(deque)' /\ PagesRise'
    BY <2>1, <2>3 DEF PagesInv
  <2>5. PICK r : r = AppendBounded(deque, minted + 1, MaxLen)
    OBVIOUS
  <2>6. PagedTo(deque)'
    <3>1. /\ r \in Seq(Msg)
          /\ Len(r) <= MaxLen
          /\ \A i \in DOMAIN r : r[i] <= minted + 1
          /\ \A i, j \in DOMAIN r : i < j => r[i] < r[j]
          /\ cursor # None =>
                \A m \in Ids(r) : m <= cursor =>
                    /\ cursor \in Ids(r)
                    /\ start <= m => m \in Ids(got)
      BY <2>1, <2>4, <2>5, PagedAppend
    <3>2. deque' = r
      BY <2>1, <2>5
    <3>3. QED
      BY <2>1, <3>1, <3>2 DEF PagedTo
  <2>7. PagedTo(Shown)'
    <3>1. PagedTo(deque)
      BY <2>4 DEF PagesInv
    <3>2. \A i \in DOMAIN deque : deque[i] <= minted + 1
      <4>1. \A i \in DOMAIN deque : deque[i] \in Msg /\ deque[i] <= minted
        BY <3>1 DEF PagedTo
      <4>2. \A i \in DOMAIN deque : deque[i] \in Nat
        BY ONLY <4>1, PagingAssumption
      <4>3. QED
        BY ONLY <2>3, <4>1, <4>2
    <3>3. QED
      BY <2>1, <2>2, <3>1, <3>2 DEF PagedTo
  <2>8. PagesRise'
    <3>1. PagesRise
      BY <2>4 DEF PagesInv
    <3>2. \A i \in DOMAIN got : got[i] <= minted + 1
      <4>1. \A i \in DOMAIN got : got[i] \in Msg /\ got[i] <= minted
        BY <3>1 DEF PagesRise
      <4>2. \A i \in DOMAIN got : got[i] \in Nat
        BY ONLY <4>1, PagingAssumption
      <4>3. QED
        BY ONLY <2>3, <4>1, <4>2
    <3>3. QED
      BY <2>1, <3>1, <3>2 DEF PagesRise
  <2>9. QED
    BY <2>6, <2>7, <2>8
<1>3. CASE FileStep
  <2>1. UNCHANGED <<minted, paging>> /\ undone' = undone
    BY <1>3 DEF FileStep
  <2>2. \/ Shown' = Shown /\ deque' = deque
        \/ Shown' = deque /\ deque' \in {deque, <<>>}
        \/ Shown' = Shown /\ deque' = Shown
    <3>1. CASE OpenTmp
      BY <3>1 DEF OpenTmp, Shown
    <3>2. CASE WriteLine
      BY <3>2 DEF WriteLine, Shown
    <3>3. CASE Replace
      BY <3>3 DEF Replace, Shown
    <3>4. CASE StartDrain
      BY <3>4 DEF StartDrain, Shown
    <3>5. CASE Unlink
      BY <3>5 DEF Unlink, Shown
    <3>6. CASE Fail
      BY <3>6 DEF Fail, Shown
    <3>7. CASE Load
      BY <3>7 DEF Load, Shown
    <3>8. QED
      BY <1>3, <3>1, <3>2, <3>3, <3>4, <3>5, <3>6, <3>7 DEF FileStep
  <2>3. QED
    BY <2>1, <2>2, ShownMoves
\* Unless undone, the file says what was shown last.
<1>4. CASE Dies
  <2>1. UNCHANGED <<minted, paging>> /\ (undone => undone') /\ deque' = deque
    BY <1>4 DEF Dies, Crash
  <2>2. ~undone' => Shown' = Shown
    BY <1>1, <1>4 DEF Dies, Crash, Shown
  <2>3. QED
    BY <2>1, <2>2, ShownMoves
<1>5. ASSUME NEW limit \in Limits, History(limit) PROVE PagesInv'
  BY <1>5, HistoryStep
<1>6. CASE UNCHANGED pvars
  <2>1. UNCHANGED <<minted, paging>> /\ undone' = undone /\ deque' = deque
        /\ Shown' = Shown
    BY <1>6 DEF pvars, vars, Shown
  <2>2. QED
    BY <2>1, ShownMoves
<1>7. QED
  BY <1>2, <1>3, <1>4, <1>5, <1>6 DEF PNext

\* Unless a restart undoes what only memory had, the pages rise, and up to the
\* cursor hold every message since `start` that is still there (PagesExact).
THEOREM ReadersMissNothing == PSpec => []PagesExact
<1>1. PInit => FlushInv /\ PagesInv
  <2> SUFFICES ASSUME PInit PROVE FlushInv /\ PagesInv
    OBVIOUS
  <2>1. FlushInv
    BY DEF PInit, Init, FlushInv, TypeOK, TmpIsPrefix, CallInProgress, Busy
  <2>2. Shown = <<>> /\ deque = <<>> /\ got = <<>> /\ cursor = None /\ start = 0
        /\ minted = 0
    BY DEF PInit, Init, Shown, Busy
  <2>3. PagedTo(<<>>) /\ PagesRise
    BY <2>2, MaxLenAssumption DEF PagedTo, PagesRise
  <2>4. QED
    BY <2>1, <2>2, <2>3 DEF PagesInv
<1>2. [PNext]_pvars => [Next]_vars
  BY DEF PNext, Append1, FileStep, Dies, History, Next, pvars
<1>3. FlushInv /\ PagesInv /\ [PNext]_pvars => (FlushInv /\ PagesInv)'
  BY <1>2, FlushNext, PagesNext
<1>4. PagesInv => PagesExact
  BY DEF PagesInv, PagedTo, PagesRise, PagesExact
<1>5. QED
  BY <1>1, <1>3, <1>4, PTL DEF PSpec
===============================================================================
