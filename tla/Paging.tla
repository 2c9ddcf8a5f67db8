-------------------------------- MODULE Paging --------------------------------
(***************************************************************************)
(* A client that reads one queue or ring page by page with peer.history,   *)
(* each time from the last message it got, while the daemon appends,       *)
(* drains, fails and restarts underneath (DurableDeque).  Router.history   *)
(* changes nothing, and runs between the calls that do.                    *)
(***************************************************************************)
EXTENDS DurableDeque

CONSTANTS
    None,    \* no cursor yet
    Limits   \* page sizes the client asks for

ASSUME PagingAssumption == Msg \subseteq Nat /\ None \notin Msg /\ Limits \subseteq Nat \ {0}

VARIABLES
    minted,  \* messages appended so far: 1..minted
    cursor,  \* the last message of the last page, or None
    got,     \* the pages, one after another (history)
    start,   \* first message of the last page that no cursor led to (history)
    undone   \* a restart found other messages than memory had (history)

paging == <<cursor, got, start>>
pvars  == <<vars, minted, paging, undone>>

PInit ==
    /\ Init
    /\ minted = 0 /\ cursor = None /\ got = <<>> /\ start = 0
    /\ undone = FALSE

\* Message ids are fresh.
Append1 ==
    /\ minted + 1 \in Msg
    /\ StartAppend(minted + 1)
    /\ minted' = minted + 1
    /\ UNCHANGED <<paging, undone>>

FileStep ==
    /\ OpenTmp \/ WriteLine \/ Replace \/ StartDrain \/ Unlink \/ Fail \/ Load
    /\ UNCHANGED <<minted, paging, undone>>

\* The daemon dies; a call in progress has not shown anybody what it changed.
Dies ==
    /\ Crash
    /\ undone' = \/ undone
                 \/ pc \in Busy /\ file # before
                 \/ pc = "idle" /\ file # deque
    /\ UNCHANGED <<minted, paging>>

\* peer.history from where the last page ended.
History(limit) ==
    /\ pc = "idle"
    /\ LET page == Page(deque, cursor, limit)
       IN  /\ page # <<>>
           /\ got' = got \o page
           /\ cursor' = page[Len(page)]
           /\ start' = IF cursor \in Ids(deque) THEN start ELSE page[1]
    /\ UNCHANGED <<vars, minted, undone>>

PNext ==
    \/ Append1 \/ FileStep \/ Dies
    \/ \E limit \in Limits : History(limit)

PSpec == PInit /\ [][PNext]_pvars

-------------------------------------------------------------------------------
\* Unless a restart undoes what a failed file operation left in memory alone, the
\* pages hold no message twice and none before an older one, and pass over one
\* that is still there only where the cursor has meanwhile left the deque
\* (persistence.py:78-92): a client that keeps up reads everything.
PagesExact ==
    ~undone =>
        /\ \A i, j \in DOMAIN got : i < j => got[i] < got[j]
        /\ \A m \in Ids(deque) : start <= m /\ cursor # None /\ m <= cursor
                                => m \in Ids(got)
===============================================================================
