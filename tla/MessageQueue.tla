---------------------------- MODULE MessageQueue ----------------------------
(***************************************************************************)
(* What the daemon is promised of one PersistentDeque, the queue of a DM   *)
(* address or the ring of a topic: append and drain happen to memory and   *)
(* disk at once, or, when the file system refuses, to memory alone; a      *)
(* restart finds what disk holds.  DurableDeque implements it step by      *)
(* step, and module Router uses it for every address.                      *)
(***************************************************************************)
EXTENDS PersistentDeque

CONSTANTS Msg, MaxLen

VARIABLES memory, disk

Init == memory = <<>> /\ disk = <<>>

\* append(m) returns: m is on disk with all that is in memory.
Add(m) ==
    /\ memory' = AppendBounded(memory, m, MaxLen)
    /\ disk' = memory'

\* append(m) raises: m is in memory only.
AddFails(m) ==
    /\ memory' = AppendBounded(memory, m, MaxLen)
    /\ UNCHANGED disk

\* drain() returns.
TakeAll ==
    /\ memory # <<>>
    /\ memory' = <<>>
    /\ disk' = <<>>

\* drain() raises: its caller gets nothing, and disk keeps what it had.
TakeAllFails ==
    /\ memory # <<>>
    /\ memory' = <<>>
    /\ UNCHANGED disk

\* The process died and another one loaded the file.
Reload ==
    /\ memory' = disk
    /\ UNCHANGED disk

Next ==
    \/ \E m \in Msg : Add(m) \/ AddFails(m)
    \/ TakeAll
    \/ TakeAllFails
    \/ Reload

Spec == Init /\ [][Next]_<<memory, disk>>
==============================================================================
