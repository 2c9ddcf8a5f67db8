---------------------------- MODULE DurableDeque ----------------------------
(***************************************************************************)
(* One PersistentDeque at the granularity of its file operations.  The     *)
(* daemon may die between any two of them, and any of them may raise       *)
(* OSError.  An absent file is an empty one: load reads both the same way. *)
(* A crash loses the process, not what the kernel was given: power loss    *)
(* (there is no fsync) is out of scope.                                    *)
(***************************************************************************)
EXTENDS PersistentDeque

CONSTANTS
    Msg,     \* messages
    MaxLen,  \* the deque's maxlen
    NoFile   \* there is no .tmp file

ASSUME MaxLenAssumption == MaxLen \in Nat \ {0}
ASSUME NoFileAssumption == NoFile \notin Seq(Msg)

VARIABLES
    deque,  \* the deque in memory
    file,   \* messages in the .jsonl file
    tmp,    \* messages in the .jsonl.tmp file, or NoFile
    before, \* the deque as the call in progress found it (history only)
    pc      \* where append, drain or start-up is

vars == <<deque, file, tmp, before, pc>>

Busy == {"flush", "write", "unlink"}

Init ==
    /\ deque = <<>> /\ file = <<>> /\ tmp = NoFile
    /\ before = <<>>
    /\ pc = "idle"

\* append: the deque first.
StartAppend(m) ==
    /\ pc = "idle"
    /\ before' = deque
    /\ deque' = AppendBounded(deque, m, MaxLen)
    /\ pc' = "flush"
    /\ UNCHANGED <<file, tmp>>

\* Mutant: opened for appending.
OpenTmpAppends ==
    /\ pc = "flush"
    /\ tmp' = IF tmp = NoFile THEN <<>> ELSE tmp
    /\ pc' = "write"
    /\ UNCHANGED <<deque, file, before>>

\* _flush: open("w") truncates whatever an earlier failure left.
OpenTmp ==
    /\ pc = "flush"
    /\ tmp' = <<>>
    /\ pc' = "write"
    /\ UNCHANGED <<deque, file, before>>

\* Mutant: the lines go to the file itself.
WriteLineInPlace ==
    /\ pc = "write"
    /\ Len(tmp) < Len(deque)
    /\ tmp' = Append(tmp, deque[Len(tmp) + 1])
    /\ file' = tmp'
    /\ UNCHANGED <<deque, before, pc>>

WriteLine ==
    /\ pc = "write"
    /\ Len(tmp) < Len(deque)
    /\ tmp' = Append(tmp, deque[Len(tmp) + 1])
    /\ UNCHANGED <<deque, file, before, pc>>

\* os.replace.
Replace ==
    /\ pc = "write"
    /\ Len(tmp) = Len(deque)
    /\ file' = tmp
    /\ tmp' = NoFile
    /\ pc' = "idle"
    /\ UNCHANGED <<deque, before>>

\* drain: the deque first.
StartDrain ==
    /\ pc = "idle"
    /\ deque # <<>>
    /\ before' = deque
    /\ deque' = <<>>
    /\ pc' = "unlink"
    /\ UNCHANGED <<file, tmp>>

Unlink ==
    /\ pc = "unlink"
    /\ file' = <<>>
    /\ pc' = "idle"
    /\ UNCHANGED <<deque, tmp, before>>

\* mkdir, open, write, replace or unlink raises OSError.
Fail ==
    /\ pc \in Busy
    /\ pc' = "idle"
    /\ UNCHANGED <<deque, file, tmp, before>>

\* The daemon dies.
Crash ==
    /\ pc' = "down"
    /\ UNCHANGED <<deque, file, tmp, before>>

\* load_all: only *.jsonl files are read, a left-over .tmp is not.
Load ==
    /\ pc = "down"
    /\ deque' = file
    /\ pc' = "idle"
    /\ UNCHANGED <<file, tmp, before>>

Next ==
    \/ \E m \in Msg : StartAppend(m)
    \/ OpenTmp \/ WriteLine \/ Replace
    \/ StartDrain \/ Unlink
    \/ Fail \/ Crash \/ Load

Spec == Init /\ [][Next]_vars

-------------------------------------------------------------------------------
TypeOK ==
    /\ deque \in Seq(Msg)
    /\ file \in Seq(Msg)
    /\ tmp \in Seq(Msg) \cup {NoFile}
    /\ before \in Seq(Msg)
    /\ pc \in Busy \cup {"idle", "down"}

\* While lines are written the .tmp file is a prefix of the deque, whatever an
\* earlier failure or crash left in it.
TmpIsPrefix ==
    pc = "write" =>
        /\ tmp \in Seq(Msg)
        /\ Len(tmp) <= Len(deque)
        /\ \A i \in 1..Len(tmp) : tmp[i] = deque[i]

\* A call in progress has done to the deque what it will do to the file.
CallInProgress ==
    /\ pc \in {"flush", "write"} =>
          \E m \in Msg : deque = AppendBounded(before, m, MaxLen)
    /\ pc = "unlink" => deque = <<>> /\ before # <<>>

\* What every file operation of append and drain relies on, after any failure,
\* crash or restart: types, TmpIsPrefix and CallInProgress.
FlushInv == TypeOK /\ TmpIsPrefix /\ CallInProgress

-------------------------------------------------------------------------------
\* append and drain take effect, for the rest of the daemon and for the next
\* start, when they return, raise or die: until then memory counts as it was.
Queue ==
    INSTANCE MessageQueue WITH
        memory <- IF pc \in Busy THEN before
                  ELSE IF pc = "down" THEN file ELSE deque,
        disk <- file

\* The docstring of persistence.py: every mutation rewrites the file atomically.
\* A crash or an OSError at any file operation leaves the old contents or the
\* new, never a part.
ImplementsMessageQueue == Queue!Spec
===============================================================================
