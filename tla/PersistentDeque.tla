--------------------------- MODULE PersistentDeque ---------------------------
(***************************************************************************)
(* The pure part of persistence.py's PersistentDeque: a bounded            *)
(* collections.deque of messages, seen as a sequence, oldest first.        *)
(* A message is whatever the extending module puts in the sequence.        *)
(***************************************************************************)
EXTENDS Integers, Sequences

\* Mutant: one more than the bound.
AppendLoose(q, m, maxlen) ==
    LET r == Append(q, m)
    IN  IF Len(r) > maxlen + 1 THEN Tail(r) ELSE r

\* deque(maxlen=maxlen).append(m): a full deque drops its oldest entry.
AppendBounded(q, m, maxlen) ==
    LET r == Append(q, m)
    IN  IF Len(r) > maxlen THEN Tail(r) ELSE r

\* items[-n:] for n > 0 (all of them when there are fewer than n).
LastN(q, n) == SubSeq(q, IF Len(q) > n THEN Len(q) - n + 1 ELSE 1, Len(q))

\* The messages of a deque as a set.
Ids(q) == {q[i] : i \in DOMAIN q}

\* [m for m in q if m in A].  A recursive function and not SelectSeq, of which the
\* provers know nothing.
Select(q, A) ==
    LET kept[n \in 0..Len(q)] ==
            IF n = 0 THEN <<>>
            ELSE IF q[n] \in A THEN Append(kept[n - 1], q[n]) ELSE kept[n - 1]
    IN  kept[Len(q)]

\* Mutant: the newest of what is after the cursor, as without one.
PageFromTheEnd(q, since, limit) ==
    LET rest == IF since \in Ids(q)
                THEN SelectSeq(q, LAMBDA m : m > since) ELSE q
    IN  LastN(rest, limit)

\* history(since, limit) for limit > 0: what follows `since`, as far as `limit`
\* goes; the last ones if there is no such message any more, or none is given.
Page(q, since, limit) ==
    IF since \in Ids(q)
    THEN LET i == CHOOSE i \in DOMAIN q : q[i] = since
         IN  SubSeq(q, i + 1, IF i + limit < Len(q) THEN i + limit ELSE Len(q))
    ELSE LastN(q, limit)
==============================================================================
