----------------------------- MODULE MailService -----------------------------
(***************************************************************************)
(* What the daemon promises its clients of direct messages while its disk  *)
(* works: sessions come, go and change names, and a message reaches those  *)
(* its address names when it is sent, or waits for the first that comes.   *)
(* There are no dictionaries, no files, no requests and no other traffic;  *)
(* module Router implements it with all of them.                           *)
(***************************************************************************)
EXTENDS PersistentDeque, FiniteSets

CONSTANTS
    Slot,                \* where a session is connected
    Sid, Home, Alias,
    None,
    Id,                  \* identities of messages, in the order they are sent
    MaxLen               \* how many messages wait for one address

Sender == Home \X Sid
Address == Home \X (Sid \cup Alias \cup {None})

VARIABLES
    present,   \* the sessions: slot, sid, home, alias, whom they accept mail
               \* from, and whether what is handed to them is lost (gone)
    mail,      \* every message sent: id, from, to, and how many it reached
    waiting,   \* per address, messages nobody got yet
    inbox      \* per slot, the messages its session got, in order

vars == <<present, mail, waiting, inbox>>

Session == [slot : Slot, sid : Sid, home : Home, alias : Alias \cup {None},
            accepts : SUBSET Sender, gone : BOOLEAN]

NameOf(x) == <<x.home, x.sid>>

Named(to) == {x \in present : x.home = to[1] /\ to[2] \in {None, x.sid, x.alias}}

\* What waits under address a and session x accepts.
For(x, a) == Select(waiting[a], {m \in Ids(waiting[a]) : m.from \in x.accepts})

\* x empties these addresses of what waits, what it does not accept included.
Empty(addresses) == waiting' = [a \in Address |-> IF a \in addresses THEN <<>>
                                                  ELSE waiting[a]]

Get(x, q) == inbox' = [inbox EXCEPT ![x.slot] = IF x.gone THEN @ ELSE @ \o q]

Become(x, y) == present' = (present \ {x}) \cup {y}

-------------------------------------------------------------------------------
Init ==
    /\ present = {}
    /\ mail = {}
    /\ waiting = [a \in Address |-> <<>>]
    /\ inbox = [s \in Slot |-> <<>>]

Join(s, sid, home, gone) ==
    LET x == [slot |-> s, sid |-> sid, home |-> home, alias |-> None,
              accepts |-> Sender, gone |-> gone]
    IN  /\ \A y \in present : y.slot # s /\ y.sid # sid
        /\ present' = present \cup {x}
        /\ Get(x, For(x, <<home, None>>) \o For(x, <<home, sid>>))
        /\ Empty({<<home, None>>, <<home, sid>>})
        /\ UNCHANGED mail

Leave(x) ==
    /\ present' = present \ {x}
    /\ inbox' = [inbox EXCEPT ![x.slot] = <<>>]
    /\ UNCHANGED <<mail, waiting>>

\* A name is free to those of one home who are there; taking a new one brings what
\* waits under it, dropping one (None) nothing.
Rename(x, name) ==
    /\ name # x.alias
    /\ \A y \in present : y.home = x.home => name = None \/ y.alias # name
    /\ Become(x, [x EXCEPT !.alias = name])
    /\ IF name = None THEN UNCHANGED <<waiting, inbox>>
       ELSE /\ Get(x, For(x, <<x.home, name>>))
            /\ Empty({<<x.home, name>>})
    /\ UNCHANGED mail

Choose(x, senders) ==
    /\ Become(x, [x EXCEPT !.accepts = senders])
    /\ UNCHANGED <<mail, waiting, inbox>>

\* The client is gone and its session does not know yet.
Fade(x) ==
    /\ Become(x, [x EXCEPT !.gone = TRUE])
    /\ UNCHANGED <<mail, waiting, inbox>>

Send(x, to) ==
    LET reached == {y \in Named(to) \ {x} : NameOf(x) \in y.accepts}
    IN  \E id \in Id :
          LET m == [id |-> id, from |-> NameOf(x), to |-> to,
                    delivered |-> Cardinality(reached)]
          IN  /\ \A n \in mail : n.id < id
              /\ mail' = mail \cup {m}
              /\ inbox' = [s \in Slot |->
                            IF \E y \in reached : y.slot = s /\ ~y.gone
                            THEN Append(inbox[s], m) ELSE inbox[s]]
              /\ waiting' = IF reached # {} THEN waiting
                            ELSE [waiting EXCEPT ![to] = AppendBounded(@, m, MaxLen)]
              /\ UNCHANGED present

\* The daemon dies and starts again: nobody is there, and what waited waits.
Restart ==
    /\ present' = {}
    /\ inbox' = [s \in Slot |-> <<>>]
    /\ UNCHANGED <<mail, waiting>>

Next ==
    \/ \E s \in Slot, sid \in Sid, home \in Home, gone \in BOOLEAN :
           Join(s, sid, home, gone)
    \/ \E x \in present :
           \/ Leave(x)
           \/ \E name \in Alias \cup {None} : Rename(x, name)
           \/ \E senders \in SUBSET Sender : Choose(x, senders)
           \/ Fade(x)
           \/ \E to \in Address : Send(x, to)
    \/ Restart

Spec == Init /\ [][Next]_vars
==============================================================================
