------------------------------ MODULE RouterProof ------------------------------
(***************************************************************************)
(* Theorems about Router, for every value of its constants: the registry;  *)
(* the queues and rings in memory and on disk; and who gets the DMs in     *)
(* them: nothing is handed over twice, nothing waits for a session that is *)
(* connected, every loss is accounted for, each outbox gets them in order; *)
(* the types of all of Router's variables; what clients are told of who is *)
(* there, of what is published and of the wire; and that all the router    *)
(* does with direct messages is what module MailService describes.         *)
(***************************************************************************)
EXTENDS RouterProperties, PersistentDequeProof, FiniteSetTheorems, TLAPS

(***************************************************************************)
(* The registry.  RegistryExact is not inductive without the types of the  *)
(* dictionaries and of the Connections' fields.                            *)
(***************************************************************************)

RegistryInv == RegistryTypeOK /\ RegistryExact

\* Fields updated by the handlers keep the type of a Connection.
LEMMA ConnUpdates ==
    ASSUME NEW r \in ConnState
    PROVE  /\ \A s \in Sid, h \in Home : [r EXCEPT !.sid = s, !.home = h] \in ConnState
           /\ \A al \in Alias \cup {None} : [r EXCEPT !.alias = al] \in ConnState
           /\ \A S \in SUBSET Topic : [r EXCEPT !.subscriptions = S] \in ConnState
           /\ \A f \in SUBSET FromAddr : [r EXCEPT !.dm_filter = f] \in ConnState
           /\ \A w \in WireFilters \cup {None} : [r EXCEPT !.wire = w] \in ConnState
           /\ [r EXCEPT !.closed = TRUE] \in ConnState
BY DEF ConnState

\* Once unfolded, what a proof about the registry sees.
USE DEF RegistryInv, RegistryTypeOK, ConnState, RegistryExact, ConnectionsExact,
        ByHomeExact, AliasesExact, TopicSubsExact, IdentityWhole

\* A Connection as its constructor leaves it is typed.
LEMMA FreshConnType == FreshConn \in ConnState
BY DEF FreshConn, FromAddr

\* The router starts with an empty registry that is exact.
LEMMA RegistryInit == Init => RegistryInv
<1> SUFFICES ASSUME Init PROVE RegistryInv
  OBVIOUS
<1>1. RegistryTypeOK
  BY FreshConnType DEF Init
<1>2. RegistryExact
  BY NamesAssumption DEF Init, FreshConn
<1>3. QED
  BY <1>1, <1>2

\* A step that leaves identities alone: it may change a filter, a watch or the
\* closed flag of connections.
LEMMA IdentityKept ==
    ASSUME RegistryInv, UNCHANGED registry, conn' \in [Conn -> ConnState],
           \A d \in Conn : /\ conn'[d].open = conn[d].open
                           /\ conn'[d].sid = conn[d].sid
                           /\ conn'[d].home = conn[d].home
                           /\ conn'[d].alias = conn[d].alias
                           /\ conn'[d].subscriptions = conn[d].subscriptions
    PROVE  RegistryInv'
<1>1. RegistryTypeOK'
  BY DEF registry
<1>2. RegistryExact'
  BY DEF registry
<1>3. QED
  BY <1>1, <1>2

\* An identified connection has a home and a sid, and the sid names it.
LEMMA IdentifiedFacts ==
    ASSUME RegistryInv, NEW c \in Conn, conn[c].sid # None
    PROVE  /\ conn[c].sid \in Sid /\ conn[c].home \in Home
           /\ FromOf(c) \in FromAddr
           /\ connections[conn[c].sid] = c
<1>1. conn[c].sid \in Sid /\ conn[c].home \in Home /\ conn[c].open
  BY NamesAssumption
<1>2. QED
  BY <1>1 DEF FromOf, FromAddr

\* A client connecting to a free slot brings no identity with it.
LEMMA AcceptStep ==
    ASSUME RegistryInv, NEW c \in Conn, Accept(c) PROVE RegistryInv'
<1> USE DEF Accept, registry, FreshConn
<1>1. RegistryTypeOK'
  BY FreshConnType
<1>2. conn[c].sid = None
  OBVIOUS
<1>a. conn'[c] = [FreshConn EXCEPT !.open = TRUE]
  OBVIOUS
<1>b. conn'[c].sid = None
  BY <1>a
<1>3. RegistryExact'
  BY <1>2, NamesAssumption
<1>4. QED
  BY <1>1, <1>3

\* hello of a free sid writes the Connection, connections and by_home alike.
LEMMA RegisterStep ==
    ASSUME RegistryInv, NEW c \in Conn, NEW s \in Sid, NEW h \in Home,
           Register(c, s, h)
    PROVE  RegistryInv'
<1> DEFINE new == [conn[c] EXCEPT !.sid = s, !.home = h]
<1> USE DEF Register, Identified
<1>1. new \in ConnState
  <2> HIDE DEF ConnState
  <2>1. QED
    BY ConnUpdates
<1>2. conn' = [conn EXCEPT ![c] = new]
  OBVIOUS
<1>3. RegistryTypeOK'
  <2>1. conn' \in [Conn -> ConnState]
    BY <1>1, <1>2
  <2>2. connections' \in [Sid -> Conn \cup {None}] /\ by_home' \in [Home -> SUBSET Sid]
    OBVIOUS
  <2>3. QED
    BY <2>1, <2>2
<1>4. /\ \A d \in Conn : conn[d].sid # s
      /\ \A d \in Conn : d # c => conn'[d] = conn[d]
      /\ conn'[c].open /\ conn'[c].sid = s /\ conn'[c].home = h
      /\ conn'[c].alias = None /\ conn'[c].subscriptions = {}
      /\ conn[c].sid = None
  BY <1>2, NamesAssumption
<1>5. ConnectionsExact'
  BY <1>4, NamesAssumption
<1>6. ByHomeExact'
  <2>1. SUFFICES ASSUME NEW x \in Home, NEW y \in Sid
                 PROVE y \in by_home'[x] <=>
                         \E d \in Conn : conn'[d].sid = y /\ conn'[d].home = x
    OBVIOUS
  <2>2. y \in by_home'[x] <=> y \in by_home[x] \/ (x = h /\ y = s)
    OBVIOUS
  <2>3. y \in by_home[x] <=> \E d \in Conn : conn[d].sid = y /\ conn[d].home = x
    OBVIOUS
  <2>4. QED
    BY <1>4, <2>2, <2>3, NamesAssumption
<1>7. AliasesExact'
  BY <1>4, NamesAssumption
<1>8. TopicSubsExact'
  BY <1>4, NamesAssumption
<1>9. IdentityWhole'
  BY <1>4, NamesAssumption
<1>10. QED
  BY <1>3, <1>5, <1>6, <1>7, <1>8, <1>9

\* goodbye takes the session out of each of the four dictionaries, also out
\* of the alias and the topics its Connection holds.
LEMMA DisconnectStep ==
    ASSUME RegistryInv, NEW c \in Conn, Disconnect(c) PROVE RegistryInv'
<1> DEFINE s == conn[c].sid
<1> DEFINE h == conn[c].home
<1> USE DEF Disconnect
<1>1. /\ conn' = [conn EXCEPT ![c] = FreshConn]
      /\ connections' = [x \in Sid |-> IF x = s THEN None ELSE connections[x]]
      /\ by_home' = [x \in Home |-> IF x = h THEN by_home[x] \ {s} ELSE by_home[x]]
      /\ topic_subs' = [t \in Topic |-> IF t \in conn[c].subscriptions
                                        THEN topic_subs[t] \ {s} ELSE topic_subs[t]]
  OBVIOUS
<1>2. aliases_by_home' =
         [x \in Home |-> [al \in Alias |->
            IF x = h /\ al = conn[c].alias /\ aliases_by_home[x][al] = s
            THEN None ELSE aliases_by_home[x][al]]]
  OBVIOUS
<1> HIDE DEF Disconnect
<1>3. RegistryTypeOK'
  BY <1>1, <1>2, FreshConnType
<1>4. /\ \A d \in Conn : d # c => conn'[d] = conn[d]
      /\ \A d \in Conn : d # c /\ s # None => conn[d].sid # s
      /\ ~conn'[c].open /\ conn'[c].sid = None /\ conn'[c].home = None
      /\ conn'[c].alias = None /\ conn'[c].subscriptions = {}
  BY <1>1 DEF FreshConn
<1>5. ConnectionsExact'
  BY <1>1, <1>4, NamesAssumption
<1>6. ByHomeExact'
  BY <1>1, <1>4, NamesAssumption
<1>7. AliasesExact'
  <2>1. SUFFICES ASSUME NEW x \in Home, NEW al \in Alias, NEW y \in Sid
                 PROVE aliases_by_home'[x][al] = y <=>
                         \E d \in Conn : /\ conn'[d].sid = y /\ conn'[d].home = x
                                        /\ conn'[d].alias = al
    OBVIOUS
  <2>2. aliases_by_home[x][al] = y <=>
           \E d \in Conn : /\ conn[d].sid = y /\ conn[d].home = x
                          /\ conn[d].alias = al
    OBVIOUS
  <2>3. aliases_by_home'[x][al] = y <=>
          /\ aliases_by_home[x][al] = y
          /\ ~(x = h /\ al = conn[c].alias /\ y = s)
    <3>1. aliases_by_home'[x][al] =
             IF x = h /\ al = conn[c].alias /\ aliases_by_home[x][al] = s
             THEN None ELSE aliases_by_home[x][al]
      BY <1>2, Zenon
    <3>2. y # None
      BY NamesAssumption
    <3>3. CASE x = h /\ al = conn[c].alias /\ aliases_by_home[x][al] = s
      <4>1. aliases_by_home'[x][al] = None
        BY <3>1, <3>3, Zenon
      <4>2. QED
        BY <3>2, <3>3, <4>1, Zenon
    <3>4. CASE ~(x = h /\ al = conn[c].alias /\ aliases_by_home[x][al] = s)
      <4>1. aliases_by_home'[x][al] = aliases_by_home[x][al]
        BY <3>1, <3>4, Zenon
      <4>2. QED
        BY <3>4, <4>1, Zenon
    <3>5. QED
      BY <3>3, <3>4
  <2>4. ASSUME NEW d \in Conn
        PROVE  /\ conn'[d].sid = y /\ conn'[d].home = x /\ conn'[d].alias = al
               <=> /\ conn[d].sid = y /\ conn[d].home = x /\ conn[d].alias = al
                   /\ d # c
    BY <1>4, NamesAssumption
  <2>5. ASSUME NEW d \in Conn, conn[d].sid = y, conn[d].home = x, conn[d].alias = al
        PROVE  d # c <=> ~(x = h /\ al = conn[c].alias /\ y = s)
    BY <2>5, <1>4, NamesAssumption
  <2>6. QED
    BY <2>2, <2>3, <2>4, <2>5
<1>8. TopicSubsExact'
  BY <1>1, <1>4, NamesAssumption
<1>9. IdentityWhole'
  BY <1>4, NamesAssumption
<1>10. QED
  BY <1>3, <1>5, <1>6, <1>7, <1>8, <1>9

\* set_alias frees the name held before and writes the new one in both places.
LEMMA TakeAliasStep ==
    ASSUME RegistryInv, NEW c \in Conn, NEW new \in Alias \cup {None},
           TakeAlias(c, new)
    PROVE  RegistryInv'
<1> DEFINE s == conn[c].sid
<1> DEFINE h == conn[c].home
<1>1. /\ conn' = [conn EXCEPT ![c].alias = new]
      /\ UNCHANGED <<connections, by_home, topic_subs>>
      /\ s # None
      /\ new # None => aliases_by_home[h][new] \in {None, s}
  BY DEF TakeAlias, Identified
<1>2. aliases_by_home' =
         [x \in Home |-> [al \in Alias |->
            IF x = h /\ al = new THEN s
            ELSE IF x = h /\ al = conn[c].alias /\ aliases_by_home[x][al] = s
            THEN None ELSE aliases_by_home[x][al]]]
  BY DEF TakeAlias
<1>3. s \in Sid /\ h \in Home
  BY <1>1, NamesAssumption
<1>4. RegistryTypeOK'
  <2>1. conn' \in [Conn -> ConnState]
    <3>1. conn' = [conn EXCEPT ![c] = [conn[c] EXCEPT !.alias = new]]
      BY <1>1
    <3> HIDE DEF ConnState
    <3>2. QED
      BY <3>1, ConnUpdates
  <2>2. ASSUME NEW x \in Home, NEW al \in Alias
        PROVE  aliases_by_home[x][al] \in Sid \cup {None}
    OBVIOUS
  <2>3. aliases_by_home' \in [Home -> [Alias -> Sid \cup {None}]]
    BY <1>2, <1>3, <2>2
  <2>4. QED
    BY <1>1, <2>1, <2>3
<1>5. /\ \A d \in Conn : /\ conn'[d].open = conn[d].open
                         /\ conn'[d].sid = conn[d].sid
                         /\ conn'[d].home = conn[d].home
                         /\ conn'[d].subscriptions = conn[d].subscriptions
                         /\ d # c => conn'[d].alias = conn[d].alias
                         /\ d # c => conn[d].sid # s
      /\ conn'[c].alias = new
  BY <1>1
<1>6. ConnectionsExact' /\ ByHomeExact' /\ TopicSubsExact'
  BY <1>1, <1>5
<1>7. AliasesExact'
  <2>1. SUFFICES ASSUME NEW x \in Home, NEW al \in Alias, NEW y \in Sid
                 PROVE aliases_by_home'[x][al] = y <=>
                         \E d \in Conn : /\ conn'[d].sid = y /\ conn'[d].home = x
                                        /\ conn'[d].alias = al
    OBVIOUS
  <2>2. aliases_by_home[x][al] = y <=>
           \E d \in Conn : /\ conn[d].sid = y /\ conn[d].home = x
                          /\ conn[d].alias = al
    OBVIOUS
  <2>3. y # None /\ al # None
    BY NamesAssumption
  <2>4. CASE x = h /\ al = new
    <3>1. aliases_by_home'[x][al] = s
      BY <1>2, <2>4, Zenon
    <3>2. \A d \in Conn : d # c =>
             ~(conn[d].sid = y /\ conn[d].home = x /\ conn[d].alias = al)
      BY <1>1, <1>5, <2>2, <2>3, <2>4
    <3>3. ASSUME NEW d \in Conn
          PROVE  /\ conn'[d].sid = y /\ conn'[d].home = x /\ conn'[d].alias = al
                 <=> d = c /\ y = s
      BY <1>5, <2>4, <3>2
    <3>4. aliases_by_home'[x][al] = y <=> y = s
      BY <3>1, Zenon
    <3>5. QED
      BY <3>3, <3>4, Zenon
  <2>5. CASE x = h /\ al # new /\ al = conn[c].alias /\ aliases_by_home[x][al] = s
    <3>1. aliases_by_home'[x][al] = None
      BY <1>2, <2>5, Zenon
    <3>2. \A d \in Conn : d # c => ~(conn[d].home = x /\ conn[d].alias = al)
      BY <1>3, <1>5, <2>3, <2>5
    <3>3. QED
      BY <1>5, <2>3, <2>5, <3>1, <3>2
  <2>6. CASE /\ ~(x = h /\ al = new)
             /\ ~(x = h /\ al = conn[c].alias /\ aliases_by_home[x][al] = s)
    <3>1. aliases_by_home'[x][al] = aliases_by_home[x][al]
      BY <1>2, <2>6, Zenon
    <3>2. ASSUME NEW d \in Conn
          PROVE  /\ conn'[d].sid = y /\ conn'[d].home = x /\ conn'[d].alias = al
                 <=> /\ conn[d].sid = y /\ conn[d].home = x /\ conn[d].alias = al
      BY <1>3, <1>5, <2>6
    <3>3. (\E d \in Conn : /\ conn'[d].sid = y /\ conn'[d].home = x
                           /\ conn'[d].alias = al)
          <=> \E d \in Conn : /\ conn[d].sid = y /\ conn[d].home = x
                              /\ conn[d].alias = al
      BY <3>2, Zenon
    <3>4. aliases_by_home'[x][al] = y <=> aliases_by_home[x][al] = y
      BY <3>1, Zenon
    <3>5. QED
      BY <2>2, <3>3, <3>4, Zenon
  <2>7. QED
    BY <2>4, <2>5, <2>6
<1>8. IdentityWhole'
  BY <1>1, <1>5
<1>9. QED
  BY <1>4, <1>6, <1>7, <1>8

\* subscribe and unsubscribe write topic_subs and the Connection alike.
LEMMA SubscriptionStep ==
    ASSUME RegistryInv, NEW c \in Conn, NEW t \in Topic, conn[c].sid # None,
           NEW joins \in BOOLEAN,
           topic_subs' = [topic_subs EXCEPT ![t] =
               IF joins THEN @ \cup {conn[c].sid} ELSE @ \ {conn[c].sid}],
           conn' = [conn EXCEPT ![c].subscriptions =
               IF joins THEN @ \cup {t} ELSE @ \ {t}],
           UNCHANGED <<connections, by_home, aliases_by_home>>
    PROVE  RegistryInv'
<1>1. conn[c].sid \in Sid
  OBVIOUS
<1>2. RegistryTypeOK'
  <2>1. conn' \in [Conn -> ConnState]
    <3> DEFINE subs == IF joins THEN conn[c].subscriptions \cup {t}
                       ELSE conn[c].subscriptions \ {t}
    <3>1. subs \in SUBSET Topic
      OBVIOUS
    <3>2. conn[c] \in ConnState
      OBVIOUS
    <3>3. conn' = [conn EXCEPT ![c] = [conn[c] EXCEPT !.subscriptions = subs]]
      OBVIOUS
    <3> HIDE DEF subs, ConnState
    <3>4. [conn[c] EXCEPT !.subscriptions = subs] \in ConnState
      BY <3>1, <3>2, ConnUpdates
    <3>5. conn \in [Conn -> ConnState]
      OBVIOUS
    <3>6. QED
      BY ONLY <3>3, <3>4, <3>5
  <2>2. topic_subs' \in [Topic -> SUBSET Sid]
    BY <1>1
  <2>3. QED
    BY <2>1, <2>2
<1>3. /\ \A d \in Conn : /\ conn'[d].open = conn[d].open
                         /\ conn'[d].sid = conn[d].sid
                         /\ conn'[d].home = conn[d].home
                         /\ conn'[d].alias = conn[d].alias
                         /\ d # c => conn'[d].subscriptions = conn[d].subscriptions
                         /\ d # c => conn[d].sid # conn[c].sid
      /\ conn'[c].subscriptions = IF joins THEN conn[c].subscriptions \cup {t}
                                  ELSE conn[c].subscriptions \ {t}
  BY <1>1
<1>4. ConnectionsExact' /\ ByHomeExact' /\ AliasesExact' /\ IdentityWhole'
  BY <1>3
<1>5. TopicSubsExact'
  <2>1. SUFFICES ASSUME NEW x \in Topic, NEW y \in Sid
                 PROVE y \in topic_subs'[x] <=>
                   \E d \in Conn : conn'[d].sid = y /\ x \in conn'[d].subscriptions
    OBVIOUS
  <2>2. y \in topic_subs[x] <=>
           \E d \in Conn : conn[d].sid = y /\ x \in conn[d].subscriptions
    OBVIOUS
  <2>3. CASE x = t /\ y = conn[c].sid
    BY <1>3, <2>2, <2>3
  <2>4. CASE ~(x = t /\ y = conn[c].sid)
    <3>1. y \in topic_subs'[x] <=> y \in topic_subs[x]
      BY <2>4
    <3>2. \A d \in Conn : conn'[d].sid = y /\ x \in conn'[d].subscriptions
             <=> conn[d].sid = y /\ x \in conn[d].subscriptions
      BY <1>3, <2>4
    <3>3. QED
      BY <2>2, <3>1, <3>2
  <2>5. QED
    BY <2>3, <2>4
<1>6. QED
  BY <1>2, <1>4, <1>5

\* After a restart nobody is registered and nobody is connected.
LEMMA RestartStep == ASSUME RegistryInv, Restart PROVE RegistryInv'
<1>1. RegistryTypeOK'
  BY FreshConnType DEF Restart
<1>2. RegistryExact'
  BY NamesAssumption DEF Restart, FreshConn
<1>3. QED
  BY <1>1, <1>2

\* Filters, watches and the death of a write loop touch no identity.
LEMMA FieldStep ==
    ASSUME RegistryInv, NEW c \in Conn, UNCHANGED registry,
           \/ \E f \in SUBSET FromAddr : conn' = [conn EXCEPT ![c].dm_filter = f]
           \/ \E w \in WireFilters \cup {None} : conn' = [conn EXCEPT ![c].wire = w]
           \/ conn' = [conn EXCEPT ![c].closed = TRUE]
    PROVE  RegistryInv'
<1>1. conn \in [Conn -> ConnState] /\ conn[c] \in ConnState
  OBVIOUS
<1>2. PICK new \in ConnState :
         /\ conn' = [conn EXCEPT ![c] = new]
         /\ new.open = conn[c].open /\ new.sid = conn[c].sid
         /\ new.home = conn[c].home /\ new.alias = conn[c].alias
         /\ new.subscriptions = conn[c].subscriptions
  <2>1. CASE \E f \in SUBSET FromAddr : conn' = [conn EXCEPT ![c].dm_filter = f]
    <3>1. PICK f \in SUBSET FromAddr : conn' = [conn EXCEPT ![c].dm_filter = f]
      BY <2>1
    <3>2. conn' = [conn EXCEPT ![c] = [conn[c] EXCEPT !.dm_filter = f]]
      BY ONLY <3>1
    <3>3. [conn[c] EXCEPT !.dm_filter = f] \in ConnState
      BY ONLY <1>1, ConnUpdates
    <3>4. QED
      BY <1>1, <3>2, <3>3
  <2>2. CASE \E w \in WireFilters \cup {None} : conn' = [conn EXCEPT ![c].wire = w]
    <3>1. PICK w \in WireFilters \cup {None} : conn' = [conn EXCEPT ![c].wire = w]
      BY <2>2
    <3>2. conn' = [conn EXCEPT ![c] = [conn[c] EXCEPT !.wire = w]]
      BY ONLY <3>1
    <3>3. [conn[c] EXCEPT !.wire = w] \in ConnState
      BY ONLY <1>1, ConnUpdates
    <3>4. QED
      BY <1>1, <3>2, <3>3
  <2>3. CASE conn' = [conn EXCEPT ![c].closed = TRUE]
    <3>1. conn' = [conn EXCEPT ![c] = [conn[c] EXCEPT !.closed = TRUE]]
      BY ONLY <2>3
    <3>2. [conn[c] EXCEPT !.closed = TRUE] \in ConnState
      BY ONLY <1>1, ConnUpdates
    <3>3. QED
      BY <1>1, <3>1, <3>2
  <2>4. QED
    BY <2>1, <2>2, <2>3
<1>3. conn' \in [Conn -> ConnState]
  BY ONLY <1>1, <1>2
<1>4. \A d \in Conn : /\ conn'[d].open = conn[d].open
                      /\ conn'[d].sid = conn[d].sid
                      /\ conn'[d].home = conn[d].home
                      /\ conn'[d].alias = conn[d].alias
                      /\ conn'[d].subscriptions = conn[d].subscriptions
  BY ONLY <1>1, <1>2
<1>5. QED
  BY <1>3, <1>4, IdentityKept

\* Every step of the daemon keeps the registry typed and exact.
LEMMA RegistryNext == RegistryInv /\ [Next]_vars => RegistryInv'
<1> SUFFICES ASSUME RegistryInv, [Next]_vars PROVE RegistryInv'
  OBVIOUS
<1> HIDE DEF RegistryInv
<1>1. ASSUME UNCHANGED <<conn, registry>> PROVE RegistryInv'
  BY <1>1 DEF RegistryInv, registry
<1>2. ASSUME NEW c \in Conn, Session(c) PROVE RegistryInv'
  <2>1. CASE Accept(c)
    BY <2>1, AcceptStep
  <2>2. ASSUME NEW s \in Sid, NEW h \in Home,
               Hello(c, s, h) \/ HelloDrainFails(c, s, h)
        PROVE  RegistryInv'
    BY <2>2, RegisterStep DEF Hello, HelloDrainFails
  <2>3. CASE Disconnect(c)
    BY <2>3, DisconnectStep
  <2>4. CASE WriterFails(c)
    BY <2>4, FieldStep DEF WriterFails
  <2>5. QED
    BY <1>2, <2>1, <2>2, <2>3, <2>4 DEF Session
<1>3. ASSUME NEW c \in Conn, Request(c) PROVE RegistryInv'
  <2>1. ASSUME NEW new \in Alias \cup {None},
               SetAlias(c, new) \/ SetAliasDrainFails(c, new)
        PROVE  RegistryInv'
    BY <2>1, TakeAliasStep DEF SetAlias, SetAliasDrainFails
  <2>2. ASSUME NEW f \in DmFilters, SetDmFilter(c, f) PROVE RegistryInv'
    BY <2>2, FieldStep, FiltersAssumption DEF SetDmFilter
  <2>3. ASSUME NEW w \in WireFilters, Watch(c, w) PROVE RegistryInv'
    BY <2>3, FieldStep DEF Watch
  <2>4. CASE Unwatch(c)
    BY <2>4, FieldStep DEF Unwatch
  <2>5. ASSUME NEW a \in DmAddr, Send(c, a) \/ SendFlushFails(c, a)
        PROVE  RegistryInv'
    BY <2>5, <1>1 DEF Send, SendFlushFails
  <2>6. ASSUME NEW t \in Topic, Publish(c, t) \/ PublishFlushFails(c, t)
        PROVE  RegistryInv'
    BY <2>6, <1>1 DEF Publish, PublishFlushFails
  <2>7. ASSUME NEW t \in Topic, NEW r \in Replays, Subscribe(c, t, r)
        PROVE  RegistryInv'
    <3>1. /\ conn[c].sid # None
          /\ topic_subs' = [topic_subs EXCEPT ![t] = @ \cup {conn[c].sid}]
          /\ conn' = [conn EXCEPT ![c].subscriptions = @ \cup {t}]
          /\ UNCHANGED <<connections, by_home, aliases_by_home>>
      BY <2>7 DEF Subscribe, Identified
    <3>2. QED
      BY <3>1, SubscriptionStep
  <2>8. ASSUME NEW t \in Topic, Unsubscribe(c, t) PROVE RegistryInv'
    <3>1. /\ conn[c].sid # None
          /\ topic_subs' = [topic_subs EXCEPT ![t] = @ \ {conn[c].sid}]
          /\ conn' = [conn EXCEPT ![c].subscriptions = @ \ {t}]
          /\ UNCHANGED <<connections, by_home, aliases_by_home>>
      BY <2>8 DEF Unsubscribe, Identified
    <3>2. QED
      BY <3>1, SubscriptionStep
  <2>9. CASE ListPeers(c)
    BY <2>9, <1>1 DEF ListPeers
  <2>10. QED
    BY <1>3, <2>1, <2>2, <2>3, <2>4, <2>5, <2>6, <2>7, <2>8, <2>9 DEF Request
<1>4. CASE Restart
  BY <1>4, RestartStep
<1>5. CASE UNCHANGED vars
  BY <1>5, <1>1 DEF vars
<1>6. QED
  BY <1>2, <1>3, <1>4, <1>5 DEF Next

\* The registry's dictionaries and the Connections' fields keep their types.
THEOREM RegistryTyped == Spec => []RegistryTypeOK
<1>1. RegistryInv => RegistryTypeOK
  BY DEF RegistryInv
<1>2. QED
  BY <1>1, RegistryInit, RegistryNext, PTL DEF Spec

\* The registry and the Connections never disagree (RegistryExact).
THEOREM RegistryCorrect == Spec => []RegistryExact
<1>1. RegistryInv => RegistryExact
  BY DEF RegistryInv
<1>2. QED
  BY <1>1, RegistryInit, RegistryNext, PTL DEF Spec

\* Two live sessions of one home never hold the same alias: it follows from
\* aliases_by_home and connections each naming one of them.
THEOREM AliasIsUnique == Spec => []AliasUnique
<1>1. RegistryInv => AliasUnique
  <2> SUFFICES ASSUME RegistryInv, NEW c \in Conn, NEW d \in Conn, c # d,
                      conn[c].alias # None, conn[c].home = conn[d].home,
                      conn[c].alias = conn[d].alias
               PROVE  FALSE
    BY DEF AliasUnique
  <2>1. /\ conn[c].alias \in Alias /\ conn[c].sid \in Sid /\ conn[c].home \in Home
        /\ conn[d].sid \in Sid
    BY NamesAssumption
  <2>2. /\ aliases_by_home[conn[c].home][conn[c].alias] = conn[c].sid
        /\ aliases_by_home[conn[c].home][conn[c].alias] = conn[d].sid
    BY <2>1
  <2>3. conn[c].open /\ conn[d].open
    BY <2>1, NamesAssumption
  <2>4. connections[conn[c].sid] = c /\ connections[conn[c].sid] = d
    BY <2>1, <2>2, <2>3
  <2>5. QED
    BY <2>4
<1>2. QED
  BY <1>1, RegistryInit, RegistryNext, PTL DEF Spec

HIDE DEF RegistryInv, RegistryTypeOK, ConnState, RegistryExact, ConnectionsExact,
         ByHomeExact, AliasesExact, TopicSubsExact, IdentityWhole

-------------------------------------------------------------------------------
\* What a step may do to the stores: nothing, drain, mint (and append), reload.
StoreKept == UNCHANGED <<minted, buffers, files>>

Drains(done, failed) == UNCHANGED minted /\ Drain(done, failed)

Mints(a, acked, stores, flushed) ==
    \E f \in FromAddr, n \in Nat :
        /\ Len(minted) < MaxMsg
        /\ minted' = Append(minted, [from |-> f, to |-> a, acked |-> acked,
                                     delivered |-> n])
        /\ IF stores THEN Persist(a, flushed) ELSE UNCHANGED store

Reloads == buffers' = files /\ UNCHANGED <<files, minted>>

\* Every step of Router is one of those: only queues are drained, what is published
\* is always stored, and a message whose flush fails is not acknowledged.
StoreStep ==
    \/ StoreKept
    \/ \E done, failed \in SUBSET DmAddr :
          Drains(done, failed) /\ (failed # {} => "disk" \in Faults)
    \/ \E a \in Addr, stores \in BOOLEAN :
          Mints(a, TRUE, stores, TRUE) /\ (a \in Topic => stores)
    \/ \E a \in Addr : Mints(a, FALSE, TRUE, FALSE) /\ "disk" \in Faults
    \/ Reloads /\ "restart" \in Faults

\* The type of a sender's address comes from the registry's invariant; the
\* number of recipients from there being finitely many connections.
LEMMA StepsAreStoreSteps ==
    ASSUME RegistryInv, [Next]_vars PROVE StoreStep
<1> USE DEF StoreStep, StoreKept, Drains, Mints, Reloads
<1>1. ASSUME NEW c \in Conn, conn[c].sid # None PROVE FromOf(c) \in FromAddr
  BY <1>1, IdentifiedFacts
<1>2. ASSUME NEW T \in SUBSET Conn PROVE Cardinality(T) \in Nat
  BY SlotsAssumption, FS_Subset, FS_CardinalityType
<1> HIDE DEF RegistryInv
<1>3. ASSUME NEW c \in Conn, Session(c) PROVE StoreStep
  <2>1. ASSUME NEW s \in Sid, NEW h \in Home, Hello(c, s, h) PROVE StoreStep
    <3>1. {<<h, None>>, <<h, s>>} \in SUBSET DmAddr /\ {} \in SUBSET DmAddr
      BY DEF DmAddr
    <3>2. Drains({<<h, None>>, <<h, s>>}, {})
      BY <2>1 DEF Hello, Register
    <3>3. QED
      BY <3>1, <3>2
  <2>2. ASSUME NEW s \in Sid, NEW h \in Home, HelloDrainFails(c, s, h)
        PROVE  StoreStep
    <3>1. {<<h, None>>} \in SUBSET DmAddr /\ {<<h, s>>} \in SUBSET DmAddr
          /\ {} \in SUBSET DmAddr
      BY DEF DmAddr
    <3>2. /\ Drains({}, {<<h, None>>}) \/ Drains({<<h, None>>}, {<<h, s>>})
          /\ "disk" \in Faults
      BY <2>2 DEF HelloDrainFails, Register
    <3>3. QED
      BY <3>1, <3>2
  <2>3. QED
    BY <1>3, <2>1, <2>2
       DEF Session, Accept, Disconnect, WriterFails, store, mail
<1>4. ASSUME NEW c \in Conn, Request(c) PROVE StoreStep
  <2>1. ASSUME NEW new \in Alias \cup {None}, SetAlias(c, new) PROVE StoreStep
    <3>1. conn[c].home \in Home
      BY <2>1, IdentifiedFacts DEF SetAlias, TakeAlias, Identified
    <3>2. {<<conn[c].home, new>>} \in SUBSET DmAddr /\ {} \in SUBSET DmAddr
      BY <3>1 DEF DmAddr
    <3>3. Drains({<<conn[c].home, new>>}, {}) \/ StoreKept
      BY <2>1 DEF SetAlias, TakeAlias, store
    <3>4. QED
      BY <3>2, <3>3
  <2>2. ASSUME NEW new \in Alias, SetAliasDrainFails(c, new) PROVE StoreStep
    <3>1. conn[c].home \in Home
      BY <2>2, IdentifiedFacts DEF SetAliasDrainFails, TakeAlias, Identified
    <3>2. {<<conn[c].home, new>>} \in SUBSET DmAddr /\ {} \in SUBSET DmAddr
      BY <3>1 DEF DmAddr
    <3>3. Drains({}, {<<conn[c].home, new>>}) /\ "disk" \in Faults
      BY <2>2 DEF SetAliasDrainFails, TakeAlias
    <3>4. QED
      BY <3>2, <3>3
  <2>3. ASSUME NEW a \in DmAddr, Send(c, a) PROVE StoreStep
    <3>1. FromOf(c) \in FromAddr /\ a \in Addr
      BY <1>1, <2>3 DEF Send, Identified, Addr
    <3>2. Cardinality(DmTargets(c, a)) \in Nat
      BY <1>2 DEF DmTargets
    <3>3. Mints(a, TRUE, DmTargets(c, a) = {}, TRUE)
      BY <2>3, <3>1, <3>2 DEF Send, Mint
    <3>4. a \notin Topic
      BY NamesAssumption
    <3>5. QED
      BY <3>1, <3>3, <3>4
  <2>4. ASSUME NEW a \in DmAddr, SendFlushFails(c, a) PROVE StoreStep
    <3>1. FromOf(c) \in FromAddr /\ a \in Addr
      BY <1>1, <2>4 DEF SendFlushFails, Identified, Addr
    <3>2. Mints(a, FALSE, TRUE, FALSE) /\ "disk" \in Faults
      BY <2>4, <3>1 DEF SendFlushFails, Mint
    <3>3. QED
      BY <3>1, <3>2
  <2>5. ASSUME NEW t \in Topic, Publish(c, t) PROVE StoreStep
    <3>1. FromOf(c) \in FromAddr /\ t \in Addr
      BY <1>1, <2>5 DEF Publish, Identified, Addr
    <3>2. Cardinality(TopicTargets(c, t)) \in Nat
      BY <1>2 DEF TopicTargets
    <3>3. Mints(t, TRUE, TRUE, TRUE)
      BY <2>5, <3>1, <3>2 DEF Publish, Mint
    <3>4. QED
      BY <3>1, <3>3
  <2>6. ASSUME NEW t \in Topic, PublishFlushFails(c, t) PROVE StoreStep
    <3>1. FromOf(c) \in FromAddr /\ t \in Addr
      BY <1>1, <2>6 DEF PublishFlushFails, Identified, Addr
    <3>2. Mints(t, FALSE, TRUE, FALSE) /\ "disk" \in Faults
      BY <2>6, <3>1 DEF PublishFlushFails, Mint
    <3>3. QED
      BY <3>1, <3>2
  <2>7. QED
    BY <1>4, <2>1, <2>2, <2>3, <2>4, <2>5, <2>6
       DEF Request, SetDmFilter, Watch, Unwatch, Subscribe, Unsubscribe, ListPeers,
           store, mail
<1>5. QED
  BY <1>3, <1>4 DEF Next, Restart, vars, store, mail
(***************************************************************************)
(* The inductive invariant: the files must be orderly too, as a restart    *)
(* makes them the queues, and ids must be minted for `acked` to mean       *)
(* anything.                                                               *)
(***************************************************************************)
StoreInv == StoreTypeOK /\ QueuesOrderly /\ AckedDurable

\* Minting changes nothing about the messages already minted.
LEMMA MintedGrows ==
    ASSUME minted \in Seq(MessageState), NEW m \in MessageState,
           minted' = Append(minted, m)
    PROVE  /\ minted' \in Seq(MessageState)
           /\ Len(minted') = Len(minted) + 1
           /\ minted'[NextId] = m
           /\ \A i \in 1..Len(minted) : minted'[i] = minted[i]
BY DEF NextId

\* An orderly queue stays so when a message is minted.
LEMMA OrderlyStays ==
    ASSUME minted \in Seq(MessageState), NEW m \in MessageState,
           minted' = Append(minted, m), NEW a \in Addr, NEW q \in Seq(Nat),
           Orderly(q, a)
    PROVE  Orderly(q, a)'
<1>1. /\ minted' \in Seq(MessageState) /\ Len(minted') = Len(minted) + 1
      /\ \A i \in 1..Len(minted) : minted'[i] = minted[i]
  BY MintedGrows
<1>2. Len(minted) \in Nat /\ Len(minted') \in Nat
  BY <1>1
<1>3. \A i \in 1..Len(q) : q[i] \in 1..Len(minted) /\ minted[q[i]].to = a
  BY DEF Orderly, MsgId
<1>4. \A i \in 1..Len(q) : q[i] \in 1..Len(minted') /\ minted'[q[i]].to = a
  BY <1>1, <1>2, <1>3
<1>5. QED
  BY <1>4 DEF Orderly, MsgId, Maxlen

\* Appending the message minted keeps the queue of its address orderly: its id
\* is larger than all others.
LEMMA OrderlyAppend ==
    ASSUME minted \in Seq(MessageState), NEW m \in MessageState,
           minted' = Append(minted, m), m.to \in Addr,
           NEW q \in Seq(Nat), Orderly(q, m.to),
           NEW r, r = AppendBounded(q, NextId, Maxlen(m.to))
    PROVE  r \in Seq(Nat) /\ Orderly(r, m.to)'
<1> DEFINE a == m.to
<1> DEFINE n == Len(minted) + 1
<1>1. n \in Nat /\ n > 0 /\ (MsgId)' = 1..n /\ MsgId = 1..(n - 1)
  BY MintedGrows DEF MsgId
<1>2. Maxlen(a) \in Nat \ {0} /\ Maxlen(a)' = Maxlen(a)
  BY BoundsAssumption DEF Maxlen
<1>3. r = AppendBounded(q, n, Maxlen(a))
  BY DEF NextId
<1>4. minted'[n] = m /\ \A i \in 1..(n - 1) : minted'[i] = minted[i]
  BY MintedGrows DEF NextId
<1>5. m.to = a
  OBVIOUS
<1> HIDE DEF n, a
<1>6. /\ Len(q) <= Maxlen(a)
      /\ \A i \in 1..Len(q) : q[i] \in 1..(n - 1) /\ minted[q[i]].to = a
      /\ \A i, j \in 1..Len(q) : i < j => q[i] < q[j]
  BY <1>1, <1>5 DEF Orderly
<1>7. \A i \in 1..Len(q) : q[i] < n
  BY <1>1, <1>6
<1>8. /\ r \in Seq(Nat) /\ Len(r) <= Maxlen(a)
      /\ \A i \in 1..Len(r) : r[i] = n \/ \E k \in 1..Len(q) : r[i] = q[k]
      /\ \A i, j \in 1..Len(r) : i < j => r[i] < r[j]
  BY ONLY <1>1, <1>2, <1>3, <1>6, <1>7, q \in Seq(Nat), AppendBoundedIncreasing
<1>9. ASSUME NEW i \in 1..Len(r) PROVE r[i] \in 1..n /\ minted'[r[i]].to = a
  <2>1. CASE r[i] = n
    BY ONLY <1>1, <1>4, <1>5, <2>1
  <2>2. CASE \E k \in 1..Len(q) : r[i] = q[k]
    <3>1. r[i] \in 1..(n - 1) /\ minted[r[i]].to = a
      BY <1>6, <2>2
    <3>2. QED
      BY ONLY <1>1, <1>4, <3>1
  <2>3. QED
    BY <1>8, <2>1, <2>2
<1>10. Orderly(r, a)'
  BY <1>1, <1>2, <1>8, <1>9 DEF Orderly
<1>11. QED
  BY <1>5, <1>8, <1>10

\* The stores start empty.
LEMMA StoreInit == Init => StoreInv
<1> SUFFICES ASSUME Init PROVE StoreInv
  OBVIOUS
<1>1. /\ minted = <<>> /\ Len(minted) = 0
      /\ buffers = [a \in Addr |-> <<>>] /\ files = [a \in Addr |-> <<>>]
  BY DEF Init
<1>2. StoreTypeOK
  BY <1>1 DEF StoreTypeOK
<1>3. \A a \in Addr : Maxlen(a) \in Nat
  BY BoundsAssumption DEF Maxlen
<1>4. QueuesOrderly
  BY <1>1, <1>3 DEF QueuesOrderly, Orderly
<1>5. AckedDurable
  BY <1>1 DEF AckedDurable, Ids
<1>6. QED
  BY <1>2, <1>4, <1>5 DEF StoreInv

\* A step that touches no store keeps StoreInv.
LEMMA StoreKeptStep == ASSUME StoreInv, StoreKept PROVE StoreInv'
<1>1. buffers' = buffers /\ files' = files /\ minted' = minted
  BY DEF StoreKept
<1>2. StoreTypeOK'
  BY <1>1 DEF StoreInv, StoreTypeOK
<1>3. QueuesOrderly'
  BY <1>1 DEF StoreInv, QueuesOrderly, Orderly, MsgId, Maxlen
<1>4. AckedDurable'
  BY <1>1 DEF StoreInv, AckedDurable
<1>5. QED
  BY <1>2, <1>3, <1>4 DEF StoreInv

\* A drain keeps StoreInv, the unlink that fails included: the file stays, the
\* deque is empty.
LEMMA DrainsStep ==
    ASSUME StoreInv, NEW done \in SUBSET DmAddr, NEW failed \in SUBSET DmAddr,
           Drains(done, failed)
    PROVE  StoreInv'
<1>1. /\ minted' = minted
      /\ \A a \in Addr : buffers'[a] \in {buffers[a], <<>>}
      /\ \A a \in Addr : /\ files'[a] \in {files[a], <<>>}
                         /\ files'[a] # files[a] => buffers'[a] = <<>>
  BY DEF Drains, Drain, StoreInv, StoreTypeOK
<1>2. <<>> \in Seq(Nat) /\ Len(<<>>) = 0 /\ Ids(<<>>) = {}
  BY DEF Ids
<1>3. StoreTypeOK'
  BY <1>1, <1>2 DEF Drains, Drain, StoreInv, StoreTypeOK
<1>4. QueuesOrderly'
  <2> SUFFICES ASSUME NEW a \in Addr
               PROVE  Orderly(buffers[a], a)' /\ Orderly(files[a], a)'
    BY DEF QueuesOrderly
  <2>1. Orderly(buffers[a], a) /\ Orderly(files[a], a)
    BY DEF StoreInv, QueuesOrderly
  <2>2. \A q : Orderly(q, a) => Orderly(q, a)'
    BY <1>1 DEF Orderly, MsgId, Maxlen
  <2>3. Orderly(<<>>, a)
    BY <1>2, BoundsAssumption DEF Orderly, Maxlen
  <2>4. ASSUME NEW q, q \in {buffers[a], files[a], <<>>} PROVE Orderly(q, a)'
    BY <2>1, <2>2, <2>3, <2>4
  <2>5. ASSUME NEW q, Orderly(q, a)', buffers'[a] = q PROVE Orderly(buffers[a], a)'
    BY <2>5 DEF Orderly
  <2>6. ASSUME NEW q, Orderly(q, a)', files'[a] = q PROVE Orderly(files[a], a)'
    BY <2>6 DEF Orderly
  <2>7. QED
    BY <1>1, <2>4, <2>5, <2>6
<1>5. AckedDurable'
  <2> SUFFICES ASSUME NEW a \in Addr, NEW i \in Ids(buffers'[a]), minted'[i].acked
               PROVE  i \in Ids(files'[a])
    BY DEF AckedDurable
  <2>1. buffers'[a] # <<>>
    BY <1>2
  <2>2. buffers'[a] = buffers[a] /\ files'[a] = files[a]
    BY <1>1, <2>1
  <2>3. QED
    BY <1>1, <2>2 DEF StoreInv, AckedDurable
<1>6. QED
  BY <1>3, <1>4, <1>5 DEF StoreInv

\* A restart keeps StoreInv: memory becomes what the files hold.
LEMMA ReloadsStep == ASSUME StoreInv, Reloads PROVE StoreInv'
<1>1. buffers' = files /\ files' = files /\ minted' = minted
  BY DEF Reloads
<1>2. StoreTypeOK'
  BY <1>1 DEF StoreInv, StoreTypeOK
<1>3. QueuesOrderly'
  BY <1>1 DEF StoreInv, QueuesOrderly, Orderly, MsgId, Maxlen
<1>4. AckedDurable'
  BY <1>1 DEF AckedDurable
<1>5. QED
  BY <1>2, <1>3, <1>4 DEF StoreInv

\* An append keeps StoreInv, the flush that fails included: its message is not
\* acknowledged.
LEMMA MintsStep ==
    ASSUME StoreInv, NEW a \in Addr, NEW acked \in BOOLEAN, NEW stores \in BOOLEAN,
           NEW flushed \in BOOLEAN, acked => flushed, Mints(a, acked, stores, flushed)
    PROVE  StoreInv'
<1>1. PICK m \in MessageState :
         /\ minted' = Append(minted, m) /\ m.to = a /\ m.acked = acked
         /\ IF stores THEN Persist(a, flushed) ELSE UNCHANGED store
  BY DEF Mints, MessageState
<1>2. minted \in Seq(MessageState) /\ buffers \in [Addr -> Seq(Nat)]
      /\ files \in [Addr -> Seq(Nat)]
  BY DEF StoreInv, StoreTypeOK
<1>3. \A b \in Addr : Orderly(buffers[b], b) /\ Orderly(files[b], b)
  BY DEF StoreInv, QueuesOrderly
<1>4. PICK q : q = AppendBounded(buffers[a], NextId, Maxlen(a))
  OBVIOUS
<1>5. q \in Seq(Nat) /\ Orderly(q, a)'
  BY <1>1, <1>2, <1>3, <1>4, OrderlyAppend
<1>6. Ids(q) \subseteq Ids(buffers[a]) \cup {NextId}
  <2>1. Maxlen(a) \in Nat \ {0} /\ Len(buffers[a]) <= Maxlen(a) /\ NextId \in Nat
    BY <1>2, <1>3, BoundsAssumption DEF Maxlen, Orderly, NextId
  <2> DEFINE S == Nat
  <2>2. buffers[a] \in Seq(S) /\ NextId \in S
    BY <1>2, <2>1
  <2> HIDE DEF S
  <2>3. QED
    BY <1>4, <2>1, <2>2, AppendBoundedIds
<1>7. /\ \A b \in Addr : buffers'[b] \in {buffers[b], q}
      /\ \A b \in Addr : files'[b] \in {files[b], q}
      /\ \A b \in Addr \ {a} : buffers'[b] = buffers[b] /\ files'[b] = files[b]
      /\ \/ buffers'[a] = buffers[a] /\ files'[a] = files[a]
         \/ buffers'[a] = q /\ files'[a] = IF flushed THEN q ELSE files[a]
      /\ DOMAIN buffers' = Addr /\ DOMAIN files' = Addr
      /\ buffers' = [b \in Addr |-> buffers'[b]] /\ files' = [b \in Addr |-> files'[b]]
  BY <1>1, <1>2, <1>4 DEF Persist, store
<1>8. StoreTypeOK'
  <2>1. buffers' \in [Addr -> Seq(Nat)] /\ files' \in [Addr -> Seq(Nat)]
    BY <1>2, <1>5, <1>7
  <2>2. QED
    BY <1>1, <1>2, <2>1, MintedGrows DEF StoreTypeOK
<1>9. QueuesOrderly'
  <2> SUFFICES ASSUME NEW b \in Addr
               PROVE  Orderly(buffers[b], b)' /\ Orderly(files[b], b)'
    BY DEF QueuesOrderly
  <2>1. ASSUME NEW x \in Seq(Nat), Orderly(x, b) PROVE Orderly(x, b)'
    BY <1>1, <1>2, <2>1, OrderlyStays
  <2>2. ASSUME NEW x, x = buffers[b] \/ x = files[b] \/ (b = a /\ x = q)
        PROVE  Orderly(x, b)'
    BY <1>2, <1>3, <1>5, <2>1, <2>2
  <2>3. ASSUME NEW x, Orderly(x, b)', buffers'[b] = x PROVE Orderly(buffers[b], b)'
    BY <2>3 DEF Orderly
  <2>4. ASSUME NEW x, Orderly(x, b)', files'[b] = x PROVE Orderly(files[b], b)'
    BY <2>4 DEF Orderly
  <2>5. /\ buffers'[b] = buffers[b] \/ (b = a /\ buffers'[b] = q)
        /\ files'[b] = files[b] \/ (b = a /\ files'[b] = q)
    BY <1>7
  <2>6. QED
    BY <2>2, <2>3, <2>4, <2>5
<1>10. AckedDurable'
  <2> SUFFICES ASSUME NEW b \in Addr, NEW i \in Ids(buffers'[b]), minted'[i].acked
               PROVE  i \in Ids(files'[b])
    BY DEF AckedDurable
  <2>1. \A j \in Ids(buffers[b]) : minted'[j] = minted[j]
    BY <1>1, <1>2, <1>3, MintedGrows DEF Orderly, MsgId, Ids
  <2>2. ASSUME i \in Ids(buffers[b]) PROVE i \in Ids(files[b])
    BY <2>1, <2>2 DEF StoreInv, AckedDurable
  <2>3. CASE buffers'[b] = buffers[b] /\ files'[b] = files[b]
    BY <2>2, <2>3
  <2>4. CASE b = a /\ buffers'[a] = q /\ files'[a] = q
    BY <2>4
  <2>5. CASE b = a /\ buffers'[a] = q /\ files'[a] = files[a] /\ ~flushed
    <3>1. i # NextId
      BY <1>1, <1>2, <2>5, MintedGrows
    <3>2. i \in Ids(buffers[a])
      BY <1>6, <2>5, <3>1
    <3>3. QED
      BY <2>2, <2>5, <3>2
  <2>6. QED
    BY <1>7, <2>3, <2>4, <2>5
<1>11. QED
  BY <1>8, <1>9, <1>10 DEF StoreInv

\* Every step of the daemon keeps StoreInv.
LEMMA StoreNext == RegistryInv /\ StoreInv /\ [Next]_vars => StoreInv'
<1> SUFFICES ASSUME RegistryInv, StoreInv, [Next]_vars PROVE StoreInv'
  OBVIOUS
<1>1. StoreStep
  BY StepsAreStoreSteps
<1>2. QED
  BY <1>1, StoreKeptStep, DrainsStep, MintsStep, ReloadsStep DEF StoreStep

\* Memory and disk hold typed messages in sequences of ids (StoreTypeOK).
THEOREM StoreTyped == Spec => []StoreTypeOK
<1>1. StoreInv => StoreTypeOK
  BY DEF StoreInv
<1>2. QED
  BY <1>1, RegistryInit, RegistryNext, StoreInit, StoreNext, PTL DEF Spec

\* Every queue, ring and file stays orderly whatever fails (QueuesOrderly).
THEOREM QueuesStayOrderly == Spec => []QueuesOrderly
<1>1. StoreInv => QueuesOrderly
  BY DEF StoreInv
<1>2. QED
  BY <1>1, RegistryInit, RegistryNext, StoreInit, StoreNext, PTL DEF Spec

\* An acknowledged message in memory is on disk, whatever fails (AckedDurable).
THEOREM AcknowledgedIsDurable == Spec => []AckedDurable
<1>1. StoreInv => AckedDurable
  BY DEF StoreInv
<1>2. QED
  BY <1>1, RegistryInit, RegistryNext, StoreInit, StoreNext, PTL DEF Spec

-------------------------------------------------------------------------------
\* One step of the daemon is at most one operation on the queue of an address.
LEMMA QueueStep ==
    ASSUME StoreInv, StoreStep, NEW a \in Addr
    PROVE  [QueueOf(a)!Next]_<<buffers[a], files[a]>>
<1>1. buffers \in [Addr -> Seq(Nat)] /\ files \in [Addr -> Seq(Nat)]
      /\ Len(minted) \in Nat
  BY DEF StoreInv, StoreTypeOK
<1>2. CASE StoreKept
  BY <1>2 DEF StoreKept
<1>3. ASSUME NEW done \in SUBSET DmAddr, NEW failed \in SUBSET DmAddr,
             Drains(done, failed)
      PROVE  \/ UNCHANGED <<buffers[a], files[a]>>
             \/ QueueOf(a)!TakeAll
             \/ QueueOf(a)!TakeAllFails
  BY <1>3 DEF Drains, Drain, QueueOf!TakeAll, QueueOf!TakeAllFails
<1>4. ASSUME NEW b \in Addr, NEW acked \in BOOLEAN, NEW stores \in BOOLEAN,
             NEW flushed \in BOOLEAN, Mints(b, acked, stores, flushed)
      PROVE  \/ UNCHANGED <<buffers[a], files[a]>>
             \/ \E m \in 1..MaxMsg : QueueOf(a)!Add(m) \/ QueueOf(a)!AddFails(m)
  <2>1. NextId \in 1..MaxMsg
    BY <1>1, <1>4, BoundsAssumption DEF Mints, NextId
  <2>2. CASE a = b /\ stores
    <3>1. /\ buffers'[a] = AppendBounded(buffers[a], NextId, Maxlen(a))
          /\ files'[a] = IF flushed THEN buffers'[a] ELSE files[a]
      BY <1>1, <1>4, <2>2 DEF Mints, Persist
    <3>2. QueueOf(a)!Add(NextId) \/ QueueOf(a)!AddFails(NextId)
      BY <3>1 DEF QueueOf!Add, QueueOf!AddFails, QueueOf!AppendBounded,
                  AppendBounded
    <3>3. QED
      BY <2>1, <3>2
  <2>3. CASE ~(a = b /\ stores)
    BY <1>1, <1>4, <2>3 DEF Mints, Persist, store
  <2>4. QED
    BY <2>2, <2>3
<1>5. CASE Reloads
  <2>1. QueueOf(a)!Reload
    BY <1>1, <1>5 DEF Reloads, QueueOf!Reload
  <2>2. QED
    BY <2>1 DEF QueueOf!Next
<1>6. QED
  BY <1>2, <1>3, <1>4, <1>5 DEF StoreStep, QueueOf!Next

\* The router's queues and rings are MessageQueues, one per address, through
\* every failure and restart (UsesMessageQueues).
THEOREM QueuesAreMessageQueues == Spec => UsesMessageQueues
<1>1. Init => \A a \in Addr : QueueOf(a)!Init
  BY DEF Init, QueueOf!Init
<1>2. RegistryInv /\ StoreInv /\ [Next]_vars
      => [\A a \in Addr :
            [QueueOf(a)!Next]_<<buffers[a], files[a]>>]_<<buffers, files>>
  BY QueueStep, StepsAreStoreSteps
<1>3. QED
  BY <1>1, <1>2, RegistryInit, RegistryNext, StoreInit, StoreNext, PTL
     DEF Spec, UsesMessageQueues

(***************************************************************************)
(* Never twice.  The files must be free of handed DMs as well, since a     *)
(* restart reads them back.                                                *)
(***************************************************************************)
UndeliveredInv ==
    /\ handed \subseteq MsgId
    /\ \A a \in DmAddr : /\ Ids(buffers[a]) \cap handed = {}
                         /\ Ids(files[a]) \cap handed = {}

\* How a step may add to `handed`: not at all, from the queues it drains, or the
\* message it mints when it queues nothing.
HandStep ==
    \/ handed' = handed /\ StoreStep
    \/ \E done, failed \in SUBSET Addr :
          /\ Drains(done, failed)
          /\ \A i \in handed' \ handed : \E a \in done : i \in Ids(buffers[a])
    \/ \E a \in Addr : /\ Mints(a, TRUE, FALSE, TRUE)
                       /\ handed' \subseteq handed \cup {NextId}

\* Every step of the daemon is one of the three kinds of HandStep.
LEMMA StepsAreHandSteps ==
    ASSUME RegistryInv, [Next]_vars PROVE HandStep
<1>1. StoreStep
  BY StepsAreStoreSteps
<1> HIDE DEF RegistryInv
<1>2. ASSUME NEW c \in Conn, NEW s \in Sid, NEW h \in Home, Hello(c, s, h)
      PROVE  HandStep
  <2> DEFINE done == {<<h, None>>, <<h, s>>}
  <2>1. done \in SUBSET Addr /\ {} \in SUBSET Addr
    BY DEF Addr, DmAddr
  <2>2. Drains(done, {})
    BY <1>2 DEF Hello, Register, Drains
  <2>3. \A i \in handed' \ handed : \E a \in done : i \in Ids(buffers[a])
    BY <1>2 DEF Hello, Hand, Accepted
  <2> HIDE DEF done
  <2>4. QED
    BY <2>1, <2>2, <2>3 DEF HandStep
<1>3. ASSUME NEW c \in Conn, NEW s \in Sid, NEW h \in Home, HelloDrainFails(c, s, h)
      PROVE  HandStep
  <2>1. CASE handed' = handed
    BY <1>1, <2>1 DEF HandStep
  <2>2. CASE handed' # handed
    <3>1. {<<h, None>>} \in SUBSET Addr /\ {<<h, s>>} \in SUBSET Addr
      BY DEF Addr, DmAddr
    <3>2. Drains({<<h, None>>}, {<<h, s>>})
      BY <1>3, <2>2 DEF HelloDrainFails, Register, Drains
    <3>3. \A i \in handed' \ handed : \E a \in {<<h, None>>} : i \in Ids(buffers[a])
      BY <1>3, <2>2 DEF HelloDrainFails, Hand, Accepted
    <3>4. QED
      BY <3>1, <3>2, <3>3 DEF HandStep
  <2>3. QED
    BY <2>1, <2>2
<1>4. ASSUME NEW c \in Conn, NEW new \in Alias \cup {None}, SetAlias(c, new)
      PROVE  HandStep
  <2> DEFINE done == {<<conn[c].home, new>>}
  <2>1. CASE handed' = handed
    BY <1>1, <2>1 DEF HandStep
  <2>2. CASE handed' # handed
    <3>1. conn[c].home \in Home
      BY <1>4, IdentifiedFacts DEF SetAlias, TakeAlias, Identified
    <3>2. done \in SUBSET Addr /\ {} \in SUBSET Addr
      BY <3>1 DEF Addr, DmAddr
    <3>3. Drains(done, {})
      BY <1>4, <2>2 DEF SetAlias, TakeAlias, Drains
    <3>4. \A i \in handed' \ handed : \E a \in done : i \in Ids(buffers[a])
      BY <1>4, <2>2 DEF SetAlias, Hand, Accepted
    <3> HIDE DEF done
    <3>5. QED
      BY <3>2, <3>3, <3>4 DEF HandStep
  <2>3. QED
    BY <2>1, <2>2
<1>5. ASSUME NEW c \in Conn, NEW a \in DmAddr, Send(c, a) PROVE HandStep
  <2>1. CASE handed' = handed
    BY <1>1, <2>1 DEF HandStep
  <2>2. CASE handed' # handed
    <3>1. DmTargets(c, a) # {}
      BY <1>5, <2>2 DEF Send
    <3>2. handed' \subseteq handed \cup {NextId}
      BY <1>5, <2>2 DEF Send
    <3>3. FromOf(c) \in FromAddr /\ a \in Addr
      BY <1>5, IdentifiedFacts DEF Send, Identified, Addr
    <3>4. Cardinality(DmTargets(c, a)) \in Nat
      BY SlotsAssumption, FS_Subset, FS_CardinalityType DEF DmTargets
    <3>5. Mints(a, TRUE, FALSE, TRUE)
      BY <1>5, <3>1, <3>3, <3>4 DEF Send, Mint, Mints
    <3>6. QED
      BY <3>2, <3>3, <3>5 DEF HandStep
  <2>3. QED
    BY <2>1, <2>2
<1>6. CASE handed' = handed
  BY <1>1, <1>6 DEF HandStep
<1>7. ASSUME NEW c \in Conn, Session(c) PROVE HandStep
  <2>1. CASE Accept(c)
    BY <1>6, <2>1 DEF Accept
  <2>2. CASE Disconnect(c) \/ WriterFails(c)
    BY <1>6, <2>2 DEF Disconnect, WriterFails, mail
  <2>3. QED
    BY <1>2, <1>3, <1>7, <2>1, <2>2 DEF Session
<1>8. ASSUME NEW c \in Conn, Request(c) PROVE HandStep
  <2>1. CASE \E new \in Alias : SetAliasDrainFails(c, new)
    BY <1>6, <2>1 DEF SetAliasDrainFails
  <2>2. CASE \/ \E f \in DmFilters : SetDmFilter(c, f)
             \/ \E w \in WireFilters : Watch(c, w)
             \/ Unwatch(c)
             \/ ListPeers(c)
    BY <1>6, <2>2 DEF SetDmFilter, Watch, Unwatch, ListPeers, mail
  <2>3. CASE \E a \in DmAddr : SendFlushFails(c, a)
    BY <1>6, <2>3 DEF SendFlushFails
  <2>4. CASE \E t \in Topic : Publish(c, t) \/ PublishFlushFails(c, t)
    BY <1>6, <2>4 DEF Publish, PublishFlushFails
  <2>5. CASE \E t \in Topic : Unsubscribe(c, t) \/ \E r \in Replays : Subscribe(c, t, r)
    BY <1>6, <2>5 DEF Subscribe, Unsubscribe, mail
  <2>6. QED
    BY <1>4, <1>5, <1>8, <2>1, <2>2, <2>3, <2>4, <2>5 DEF Request
<1>9. CASE Restart \/ UNCHANGED vars
  BY <1>6, <1>9 DEF Restart, vars, mail
<1>10. QED
  BY <1>7, <1>8, <1>9 DEF Next

\* Nothing is queued or handed over at the start.
LEMMA UndeliveredInit == Init => UndeliveredInv
BY DEF Init, UndeliveredInv

\* The ids of a queue or file are minted, and for its own address.
LEMMA QueueIds ==
    ASSUME StoreInv, NEW a \in Addr,
           NEW i, i \in Ids(buffers[a]) \/ i \in Ids(files[a])
    PROVE  i \in MsgId /\ minted[i].to = a
BY DEF StoreInv, StoreTypeOK, QueuesOrderly, Orderly, Ids

\* Every step keeps what was handed over apart from what is queued: a drain
\* empties the queue it hands over, and a live DM is not queued.
LEMMA UndeliveredNext ==
    RegistryInv /\ StoreInv /\ UndeliveredInv /\ [Next]_vars => UndeliveredInv'
<1> SUFFICES ASSUME RegistryInv, StoreInv, UndeliveredInv, [Next]_vars
             PROVE  UndeliveredInv'
  OBVIOUS
<1>1. HandStep
  BY StepsAreHandSteps
<1>2. minted \in Seq(MessageState) /\ buffers \in [Addr -> Seq(Nat)]
      /\ files \in [Addr -> Seq(Nat)] /\ Len(minted) \in Nat
  BY DEF StoreInv, StoreTypeOK
<1>3. DmAddr \subseteq Addr
  BY DEF Addr
<1>4. CASE handed' = handed /\ StoreStep
  <2>1. CASE StoreKept
    BY <1>4, <2>1 DEF StoreKept, UndeliveredInv, MsgId
  <2>2. CASE \E done, failed \in SUBSET DmAddr : Drains(done, failed)
    <3>1. /\ minted' = minted
          /\ \A a \in Addr : /\ buffers'[a] \in {buffers[a], <<>>}
                             /\ files'[a] \in {files[a], <<>>}
      BY <1>2, <2>2 DEF Drains, Drain
    <3>2. Ids(<<>>) = {}
      BY DEF Ids
    <3>3. QED
      BY <1>3, <1>4, <3>1, <3>2 DEF UndeliveredInv, MsgId
  <2>3. ASSUME NEW a \in Addr, NEW acked \in BOOLEAN, NEW stores \in BOOLEAN,
               NEW flushed \in BOOLEAN, Mints(a, acked, stores, flushed)
        PROVE  UndeliveredInv'
    <3>1. PICK m \in MessageState : minted' = Append(minted, m)
      BY <2>3 DEF Mints, MessageState
    <3>2. MsgId' = MsgId \cup {NextId} /\ NextId \notin MsgId
      BY <1>2, <3>1, MintedGrows DEF MsgId, NextId
    <3>3. PICK q : q = AppendBounded(buffers[a], NextId, Maxlen(a))
      OBVIOUS
    <3>4. Ids(q) \subseteq Ids(buffers[a]) \cup {NextId}
      <4>1. /\ Maxlen(a) \in Nat \ {0} /\ Len(buffers[a]) <= Maxlen(a)
            /\ NextId \in Nat
        BY <1>2, BoundsAssumption DEF StoreInv, QueuesOrderly, Maxlen, Orderly, NextId
      <4> DEFINE S == Nat
      <4>2. buffers[a] \in Seq(S) /\ NextId \in S
        BY <1>2, <4>1
      <4> HIDE DEF S
      <4>3. QED
        BY <3>3, <4>1, <4>2, AppendBoundedIds
    <3>5. \A b \in Addr : /\ buffers'[b] \in {buffers[b], q}
                          /\ files'[b] \in {files[b], q}
                          /\ b # a => buffers'[b] = buffers[b] /\ files'[b] = files[b]
      BY <1>2, <2>3, <3>3 DEF Mints, Persist, store
    <3>6. a \in DmAddr => Ids(q) \cap handed = {}
      BY <3>2, <3>4 DEF UndeliveredInv
    <3>7. QED
      BY <1>3, <1>4, <3>2, <3>5, <3>6 DEF UndeliveredInv
  <2>4. CASE Reloads
    BY <1>4, <2>4 DEF Reloads, UndeliveredInv, MsgId
  <2>5. QED
    BY <1>4, <2>1, <2>2, <2>3, <2>4 DEF StoreStep
<1>5. ASSUME NEW done \in SUBSET Addr, NEW failed \in SUBSET Addr,
             Drains(done, failed),
             \A i \in handed' \ handed : \E a \in done : i \in Ids(buffers[a])
      PROVE  UndeliveredInv'
  <2>1. /\ minted' = minted
        /\ \A a \in Addr : buffers'[a] \in {buffers[a], <<>>}
        /\ \A a \in Addr : files'[a] \in {files[a], <<>>}
        /\ \A a \in done : /\ buffers'[a] = <<>>
                           /\ buffers[a] # <<>> => files'[a] = <<>>
    BY <1>2, <1>5 DEF Drains, Drain
  <2>2. Ids(<<>>) = {}
    BY DEF Ids
  <2>3. \A i \in handed' \ handed : /\ i \in MsgId /\ minted[i].to \in done
                                    /\ i \in Ids(buffers[minted[i].to])
    BY <1>5, QueueIds
  <2>4. ASSUME NEW a \in DmAddr, NEW i \in Ids(buffers'[a]) \cup Ids(files'[a]),
               i \in handed'
        PROVE  FALSE
    <3>1. i \in Ids(buffers[a]) \cup Ids(files[a])
      BY <1>3, <2>1, <2>2
    <3>2. i \notin handed
      BY <3>1 DEF UndeliveredInv
    <3>3. minted[i].to = a
      BY <1>3, <3>1, QueueIds
    <3>4. a \in done /\ i \in Ids(buffers[a])
      BY <2>3, <2>4, <3>2, <3>3
    <3>5. buffers[a] # <<>>
      BY <2>2, <3>4
    <3>6. QED
      BY <2>1, <2>2, <3>4, <3>5
  <2>5. handed' \subseteq MsgId'
    BY <2>1, <2>3 DEF UndeliveredInv, MsgId
  <2>6. QED
    BY <2>4, <2>5 DEF UndeliveredInv
<1>6. ASSUME NEW a \in Addr, Mints(a, TRUE, FALSE, TRUE),
             handed' \subseteq handed \cup {NextId}
      PROVE  UndeliveredInv'
  <2>1. PICK m \in MessageState : minted' = Append(minted, m)
    BY <1>6 DEF Mints, MessageState
  <2>2. MsgId' = MsgId \cup {NextId} /\ NextId \notin MsgId
    BY <1>2, <2>1, MintedGrows DEF MsgId, NextId
  <2>3. buffers' = buffers /\ files' = files
    BY <1>6 DEF Mints, store
  <2>4. \A b \in DmAddr : NextId \notin Ids(buffers[b]) \cup Ids(files[b])
    BY <1>3, <2>2, QueueIds
  <2>5. QED
    BY <1>6, <2>2, <2>3, <2>4 DEF UndeliveredInv
<1>7. QED
  BY <1>1, <1>4, <1>5, <1>6 DEF HandStep

\* A queued DM was never handed to anybody (QueuedUndelivered): not after a
\* failed unlink, not after a restart.
THEOREM NeverDeliveredTwice == Spec => []QueuedUndelivered
<1>1. UndeliveredInv => QueuedUndelivered
  BY DEF UndeliveredInv, QueuedUndelivered
<1>2. QED
  BY <1>1, RegistryInit, RegistryNext, StoreInit, StoreNext, UndeliveredInit,
     UndeliveredNext, PTL DEF Spec

-------------------------------------------------------------------------------
(***************************************************************************)
(* Nothing stranded: a DM never waits in a queue while a session its       *)
(* address names is connected, provided that no file operation fails: a    *)
(* hello whose first unlink raises never comes to drain its second queue,  *)
(* that of the sid.  The other queues are drained whatever fails.          *)
(***************************************************************************)

\* Names, read off the Connection: its home, and no discriminator, its alias or
\* its sid.
Named(a, d) ==
    /\ conn[d].sid # None
    /\ conn[d].home = a[1]
    /\ a[2] \in {None, conn[d].alias, conn[d].sid}

\* The router finds a session by home, alias or sid exactly when the Connection
\* says so.
LEMMA NamesMeans ==
    ASSUME RegistryInv, NEW a \in DmAddr, NEW d \in Conn
    PROVE  Names(a, d) <=> Named(a, d)
<1>1. a[1] \in Home /\ a[2] \in Sid \cup Alias \cup {None}
  BY DEF DmAddr
<1>2. /\ \A s \in Sid, c \in Conn : connections[s] = c <=> conn[c].open /\ conn[c].sid = s
      /\ \A c \in Conn : conn[c].sid # None => conn[c].open
      /\ \A c \in Conn : conn[c].sid \in Sid \cup {None}
      /\ \A s \in Sid : connections[s] \in Conn \cup {None}
  BY DEF RegistryInv, RegistryTypeOK, ConnState, RegistryExact,
         ConnectionsExact, IdentityWhole
<1>3. \A h \in Home, s \in Sid :
         s \in by_home[h] <=> \E c \in Conn : conn[c].sid = s /\ conn[c].home = h
  BY DEF RegistryInv, RegistryExact, ByHomeExact
<1>4. \A h \in Home, al \in Alias, s \in Sid :
         aliases_by_home[h][al] = s <=>
            \E c \in Conn : /\ conn[c].sid = s /\ conn[c].home = h
                            /\ conn[c].alias = al
  BY DEF RegistryInv, RegistryExact, AliasesExact
<1>5. \A h \in Home : by_home[h] \subseteq Sid
  BY DEF RegistryInv, RegistryTypeOK
<1>6. \A s \in Sid, c \in Conn : conn[c].sid = s => connections[s] = c
  BY <1>2, NamesAssumption
<1>7. CASE a[2] = None
  <2>1. Recipients(a) = by_home[a[1]]
    BY <1>7, NamesAssumption DEF Recipients
  <2>2. QED
    BY <1>1, <1>2, <1>3, <1>5, <1>6, <1>7, <2>1, NamesAssumption
       DEF Names, Named
<1>8. CASE a[2] \in Alias
  <2>1. a[2] # None /\ a[2] \notin Sid
    BY <1>8, NamesAssumption
  <2>2. Recipients(a) = {s \in Sid : aliases_by_home[a[1]][a[2]] = s}
    BY <1>8, <2>1 DEF Recipients
  <2>3. QED
    BY <1>1, <1>2, <1>4, <1>6, <1>8, <2>1, <2>2, NamesAssumption
       DEF Names, Named
<1>9. CASE a[2] \in Sid
  <2>1. a[2] # None /\ a[2] \notin Alias
    BY <1>9, NamesAssumption
  <2>2. Recipients(a) = {s \in Sid : /\ s = a[2] /\ connections[s] # None
                                     /\ conn[connections[s]].home = a[1]}
    BY <2>1 DEF Recipients
  <2>3. conn[d].alias # a[2]
    BY <2>1 DEF RegistryInv, RegistryTypeOK, ConnState
  <2>4. QED
    BY <1>1, <1>2, <1>6, <1>9, <2>1, <2>2, <2>3, NamesAssumption
       DEF Names, Named
<1>10. QED
  BY <1>1, <1>7, <1>8, <1>9

(***************************************************************************)
(* The histories.  A session that has not called set_dm_filter accepts     *)
(* everybody.                                                              *)
(***************************************************************************)
SeenShape(r) == "narrowed" \in DOMAIN r

SeenInv ==
    /\ seen = [d \in Conn |-> seen[d]]
    /\ \A d \in Conn : /\ SeenShape(seen[d])
                       /\ ~seen[d].narrowed => conn[d].dm_filter = FromAddr

\* Updates of a history keep its shape, and but for one of them `narrowed`.
LEMMA SeenUpdates ==
    ASSUME NEW r, SeenShape(r), NEW x
    PROVE  /\ SeenShape([r EXCEPT !.view = x])
           /\ [r EXCEPT !.view = x].narrowed = r.narrowed
           /\ SeenShape([r EXCEPT !.joined = x])
           /\ [r EXCEPT !.joined = x].narrowed = r.narrowed
           /\ SeenShape([r EXCEPT !.watchedAt = x])
           /\ [r EXCEPT !.watchedAt = x].narrowed = r.narrowed
           /\ SeenShape([r EXCEPT !.narrowed = x])
           /\ [r EXCEPT !.narrowed = x].narrowed = x
BY DEF SeenShape

\* A history as it starts.
LEMMA FreshSeenShape == SeenShape(FreshSeen) /\ ~FreshSeen.narrowed
BY DEF SeenShape, FreshSeen

\* No step makes a live session forget that it called set_dm_filter, and only
\* set_dm_filter narrows what it accepts.
LEMMA SeenStep ==
    ASSUME RegistryInv, SeenInv, [Next]_vars
    PROVE  /\ SeenInv'
           /\ \A d \in Conn : conn'[d].sid # None /\ seen[d].narrowed
                               => seen'[d].narrowed
<1> DEFINE Kept(d) == /\ SeenShape(seen'[d])
                      /\ ~seen'[d].narrowed => conn'[d].dm_filter = FromAddr
                      /\ conn'[d].sid # None /\ seen[d].narrowed
                         => seen'[d].narrowed
<1> SUFFICES seen' = [d \in Conn |-> seen'[d]] /\ \A d \in Conn : Kept(d)
  BY DEF SeenInv, SeenShape
<1>1. conn \in [Conn -> ConnState]
  BY DEF RegistryInv, RegistryTypeOK
<1>0. DOMAIN conn = Conn /\ \A d \in Conn : "dm_filter" \in DOMAIN conn[d]
  BY <1>1 DEF ConnState
<1>2. \A d \in Conn : SeenShape(seen[d])
                      /\ (~seen[d].narrowed => conn[d].dm_filter = FromAddr)
  BY DEF SeenInv
<1>3. seen = [d \in Conn |-> seen[d]]
  BY DEF SeenInv
<1>4. CASE /\ seen' = [d \in Conn |-> seen'[d]]
           /\ \A d \in Conn : /\ SeenShape(seen'[d])
                               /\ seen'[d].narrowed = seen[d].narrowed
                               /\ conn'[d].dm_filter = conn[d].dm_filter
  BY <1>2, <1>4
<1>5. ASSUME UNCHANGED seen,
             \A d \in Conn : conn'[d].dm_filter = conn[d].dm_filter
      PROVE  seen' = [d \in Conn |-> seen'[d]] /\ \A d \in Conn : Kept(d)
  BY <1>2, <1>3, <1>5
<1>6. ASSUME NEW c \in Conn, Session(c)
      PROVE  seen' = [d \in Conn |-> seen'[d]] /\ \A d \in Conn : Kept(d)
  <2>1. CASE Accept(c)
    <3>1. conn'[c].dm_filter = FromAddr /\ seen'[c] = FreshSeen
          /\ conn'[c].sid = None
          /\ \A d \in Conn \ {c} : conn'[d] = conn[d] /\ seen'[d] = seen[d]
      BY <1>1, <1>3, <2>1 DEF Accept, FreshConn
    <3>2. seen' = [d \in Conn |-> seen'[d]]
      BY <1>3, <2>1 DEF Accept
    <3>3. Kept(c)
      BY <3>1, FreshSeenShape
    <3>4. \A d \in Conn \ {c} : Kept(d)
      BY <1>2, <3>1
    <3>5. QED
      BY <3>2, <3>3, <3>4
  <2>2. ASSUME NEW s \in Sid, NEW h \in Home, Hello(c, s, h) \/ HelloDrainFails(c, s, h)
        PROVE  seen' = [d \in Conn |-> seen'[d]] /\ \A d \in Conn : Kept(d)
    <3>1. conn' = [conn EXCEPT ![c] = [@ EXCEPT !.sid = s, !.home = h]]
      BY <2>2 DEF Hello, HelloDrainFails, Register
    <3>2. \A d \in Conn : conn'[d].dm_filter = conn[d].dm_filter
      BY <1>1, <3>1 DEF ConnState
    <3>3. CASE Hello(c, s, h)
      <4>1. seen' = Broadcast(seen, s, None, {<<s, h, None>>})
        BY <3>3 DEF Hello
      <4>2. /\ seen' = [d \in Conn |-> seen'[d]]
            /\ \A d \in Conn : seen'[d] = seen[d]
                               \/ \E v : seen'[d] = [seen[d] EXCEPT !.view = v]
        BY <4>1 DEF Broadcast
      <4>3. \A d \in Conn : SeenShape(seen'[d]) /\ seen'[d].narrowed = seen[d].narrowed
        BY <1>2, <4>2, SeenUpdates DEF SeenShape
      <4>4. QED
        BY <1>4, <3>2, <4>2, <4>3
    <3>4. CASE HelloDrainFails(c, s, h)
      BY <1>2, <1>3, <1>4, <3>2, <3>4 DEF HelloDrainFails
    <3>5. QED
      BY <2>2, <3>3, <3>4
  <2>3. CASE Disconnect(c)
    <3>1. PICK b : b = Broadcast(seen, conn[c].sid, conn[c].sid, {})
      OBVIOUS
    <3>2. /\ b = [d \in Conn |-> b[d]]
          /\ \A d \in Conn : b[d] = seen[d]
                             \/ \E v : b[d] = [seen[d] EXCEPT !.view = v]
      BY <3>1 DEF Broadcast
    <3>3. \A d \in Conn : SeenShape(b[d]) /\ b[d].narrowed = seen[d].narrowed
      BY <1>2, <3>2, SeenUpdates DEF SeenShape
    <3>4. seen' = [b EXCEPT ![c] = FreshSeen]
      BY <2>3, <3>1 DEF Disconnect
    <3>5. conn'[c].dm_filter = FromAddr /\ conn'[c].sid = None
          /\ \A d \in Conn \ {c} : conn'[d] = conn[d]
      BY <1>1, <2>3 DEF Disconnect, FreshConn
    <3>6. QED
      BY <1>2, <3>2, <3>3, <3>4, <3>5, FreshSeenShape DEF SeenShape
  <2>4. CASE WriterFails(c)
    BY <1>1, <1>5, <2>4 DEF WriterFails, ConnState
  <2>5. QED
    BY <1>6, <2>1, <2>2, <2>3, <2>4 DEF Session
<1>7. ASSUME NEW c \in Conn, Request(c)
      PROVE  seen' = [d \in Conn |-> seen'[d]] /\ \A d \in Conn : Kept(d)
  <2>1. ASSUME NEW new \in Alias \cup {None}, TakeAlias(c, new)
        PROVE  \A d \in Conn : conn'[d].dm_filter = conn[d].dm_filter
    BY <1>0, <2>1 DEF TakeAlias
  <2>2. ASSUME NEW new \in Alias \cup {None}, SetAlias(c, new)
        PROVE  seen' = [d \in Conn |-> seen'[d]] /\ \A d \in Conn : Kept(d)
    <3>1. PICK added : seen' = Broadcast(seen, None, conn[c].sid, added)
      BY <2>2 DEF SetAlias
    <3>2. /\ seen' = [d \in Conn |-> seen'[d]]
          /\ \A d \in Conn : seen'[d] = seen[d]
                             \/ \E v : seen'[d] = [seen[d] EXCEPT !.view = v]
      BY <3>1 DEF Broadcast
    <3>3. \A d \in Conn : SeenShape(seen'[d]) /\ seen'[d].narrowed = seen[d].narrowed
      BY <1>2, <3>2, SeenUpdates DEF SeenShape
    <3>4. \A d \in Conn : conn'[d].dm_filter = conn[d].dm_filter
      BY <2>1, <2>2 DEF SetAlias
    <3>5. QED
      BY <1>4, <3>2, <3>3, <3>4
  <2>3. ASSUME NEW new \in Alias, SetAliasDrainFails(c, new)
        PROVE  seen' = [d \in Conn |-> seen'[d]] /\ \A d \in Conn : Kept(d)
    BY <1>5, <2>1, <2>3 DEF SetAliasDrainFails
  <2>4. ASSUME NEW f, SetDmFilter(c, f)
        PROVE  seen' = [d \in Conn |-> seen'[d]] /\ \A d \in Conn : Kept(d)
    <3>1. seen' = [d \in Conn |-> IF d = c THEN [seen[d] EXCEPT !.narrowed = TRUE]
                                  ELSE seen[d]]
      BY <1>3, <2>4 DEF SetDmFilter
    <3>2. SeenShape(seen'[c]) /\ seen'[c].narrowed
      BY <1>2, <3>1, SeenUpdates DEF SeenShape
    <3>3. \A d \in Conn \ {c} : seen'[d] = seen[d] /\ conn'[d] = conn[d]
      BY <1>1, <2>4, <3>1 DEF SetDmFilter
    <3>4. QED
      BY <1>2, <3>1, <3>2, <3>3
  <2>5. ASSUME NEW w, Watch(c, w)
        PROVE  seen' = [d \in Conn |-> seen'[d]] /\ \A d \in Conn : Kept(d)
    <3>1. seen' = [d \in Conn |->
                     IF d = c THEN [seen[d] EXCEPT !.watchedAt = Len(minted)]
                     ELSE seen[d]]
      BY <1>3, <2>5 DEF Watch
    <3>2. \A d \in Conn : conn'[d].dm_filter = conn[d].dm_filter
      BY <1>0, <2>5 DEF Watch
    <3>3. QED
      BY <1>2, <1>4, <3>1, <3>2, SeenUpdates DEF SeenShape
  <2>6. CASE Unwatch(c)
    BY <1>0, <1>5, <2>6 DEF Unwatch
  <2>7. CASE \/ \E a \in DmAddr : Send(c, a) \/ SendFlushFails(c, a)
             \/ \E t \in Topic : Publish(c, t) \/ PublishFlushFails(c, t)
    BY <1>5, <2>7 DEF Send, SendFlushFails, Publish, PublishFlushFails
  <2>8. ASSUME NEW t \in Topic,
               Unsubscribe(c, t) \/ \E r \in Replays : Subscribe(c, t, r)
        PROVE  seen' = [d \in Conn |-> seen'[d]] /\ \A d \in Conn : Kept(d)
    <3>1. PICK v : seen' = [seen EXCEPT ![c].joined[t] = v]
      BY <2>8 DEF Subscribe, Unsubscribe
    <3>2. PICK j : j = [seen[c].joined EXCEPT ![t] = v]
      OBVIOUS
    <3>3. seen' = [d \in Conn |-> IF d = c THEN [seen[d] EXCEPT !.joined = j]
                                  ELSE seen[d]]
      BY <1>3, <3>1, <3>2
    <3>4. \A d \in Conn : conn'[d].dm_filter = conn[d].dm_filter
      BY <1>0, <2>8 DEF Subscribe, Unsubscribe
    <3>5. QED
      BY <1>2, <1>4, <3>3, <3>4, SeenUpdates DEF SeenShape
  <2>9. CASE ListPeers(c)
    <3>1. seen' = [d \in Conn |-> IF d = c THEN [seen[d] EXCEPT !.view = Sessions]
                                  ELSE seen[d]] /\ conn' = conn
      BY <1>3, <2>9 DEF ListPeers
    <3>2. QED
      BY <1>2, <1>4, <3>1, SeenUpdates DEF SeenShape
  <2>10. QED
    BY <1>7, <2>2, <2>3, <2>4, <2>5, <2>6, <2>7, <2>8, <2>9 DEF Request
<1>8. CASE Restart
  <2>1. \A d \in Conn : seen'[d] = FreshSeen /\ conn'[d].dm_filter = FromAddr
                        /\ conn'[d].sid = None
    BY <1>8 DEF Restart, FreshConn
  <2>2. seen' = [d \in Conn |-> seen'[d]]
    BY <1>8 DEF Restart
  <2>3. QED
    BY <2>1, <2>2, FreshSeenShape DEF SeenShape
<1>9. CASE UNCHANGED vars
  BY <1>5, <1>9 DEF vars
<1>10. QED
  BY <1>6, <1>7, <1>8, <1>9 DEF Next

(***************************************************************************)
(* The invariant, over Named.                                              *)
(***************************************************************************)
SurelyDrained(a) == "disk" \notin Faults \/ a[2] \notin Sid

NoneStranded ==
    \A a \in DmAddr, d \in Conn : SurelyDrained(a) /\ Named(a, d) =>
        \A i \in Ids(buffers[a]) :
            minted[i].from = FromOf(d) \/ seen[d].narrowed

\* A connection that an address comes to name finds the queue drained; one that
\* it named before is the same session still.
LEMMA IdentityStep ==
    ASSUME RegistryInv, [Next]_vars,
           NEW a \in DmAddr, SurelyDrained(a), NEW d \in Conn, Named(a, d)'
    PROVE  \/ Named(a, d) /\ FromOf(d)' = FromOf(d)
           \/ buffers'[a] = <<>>
<1>1. /\ DOMAIN conn = Conn
      /\ \A c \in Conn : /\ DOMAIN conn[c] = {"open", "sid", "home", "alias",
                                "subscriptions", "dm_filter", "wire", "closed"}
                         /\ conn[c].sid = None => conn[c].alias = None
  BY DEF RegistryInv, RegistryTypeOK, ConnState, RegistryExact, IdentityWhole
<1>2. a = <<a[1], a[2]>> /\ a \in Addr
  BY DEF DmAddr, Addr
<1>3. ASSUME /\ conn'[d].sid = conn[d].sid /\ conn'[d].home = conn[d].home
             /\ conn'[d].alias = conn[d].alias
      PROVE  Named(a, d) /\ FromOf(d)' = FromOf(d)
  BY <1>3 DEF Named, FromOf
<1>4. ASSUME NEW c \in Conn, Session(c)
      PROVE  (Named(a, d) /\ FromOf(d)' = FromOf(d)) \/ buffers'[a] = <<>>
  <2>1. CASE c # d
    <3>1. conn'[d] = conn[d]
      BY <1>1, <1>4, <2>1 DEF Session, Accept, Hello, HelloDrainFails, Register,
                              Disconnect, WriterFails
    <3>2. QED
      BY <1>3, <3>1
  <2>2. CASE c = d /\ (Accept(c) \/ Disconnect(c))
    BY <1>1, <2>2 DEF Accept, Disconnect, FreshConn, Named
  <2>3. ASSUME c = d, NEW s \in Sid, NEW h \in Home, Hello(c, s, h)
        PROVE  buffers'[a] = <<>>
    <3>1. conn'[d].sid = s /\ conn'[d].home = h /\ conn'[d].alias = None
      BY <1>1, <2>3 DEF Hello, Register, Identified
    <3>2. a \in {<<h, None>>, <<h, s>>}
      BY <1>2, <3>1 DEF Named
    <3>3. QED
      BY <1>2, <2>3, <3>2 DEF Hello, Drain
  <2>4. CASE c = d /\ WriterFails(c)
    BY <1>1, <1>3, <2>4 DEF WriterFails
  <2>5. ASSUME c = d, NEW s \in Sid, NEW h \in Home, HelloDrainFails(c, s, h)
        PROVE  buffers'[a] = <<>>
    <3>1. conn'[d].sid = s /\ conn'[d].home = h /\ conn'[d].alias = None
      BY <1>1, <2>5 DEF HelloDrainFails, Register, Identified
    <3>2. a = <<h, None>>
      <4>1. a \in {<<h, None>>, <<h, s>>} /\ "disk" \in Faults
        BY <1>2, <2>5, <3>1 DEF Named, HelloDrainFails
      <4>2. a[2] \notin Sid
        BY <4>1 DEF SurelyDrained
      <4>3. QED
        BY <4>1, <4>2
    <3>3. QED
      BY <1>2, <2>5, <3>2 DEF HelloDrainFails, Drain
  <2>6. QED
    BY <1>4, <2>1, <2>2, <2>3, <2>4, <2>5 DEF Session
<1>5. ASSUME NEW c \in Conn, Request(c)
      PROVE  (Named(a, d) /\ FromOf(d)' = FromOf(d)) \/ buffers'[a] = <<>>
  <2>1. ASSUME NEW new \in Alias \cup {None},
               SetAlias(c, new) \/ SetAliasDrainFails(c, new)
        PROVE  (Named(a, d) /\ FromOf(d)' = FromOf(d)) \/ buffers'[a] = <<>>
    <3>1. /\ conn'[d].sid = conn[d].sid /\ conn'[d].home = conn[d].home
          /\ conn'[d].alias = IF c = d THEN new ELSE conn[d].alias
      BY <1>1, <2>1 DEF SetAlias, SetAliasDrainFails, TakeAlias
    <3>2. CASE c = d /\ a[2] = new /\ new \notin {None, conn[c].alias}
      <4>1. a = <<conn[c].home, new>>
        BY <1>2, <3>1, <3>2 DEF Named
      <4>2. QED
        BY <1>2, <2>1, <3>2, <4>1 DEF SetAlias, SetAliasDrainFails, Drain
    <3>3. CASE ~(c = d /\ a[2] = new /\ new \notin {None, conn[c].alias})
      BY <3>1, <3>3 DEF Named, FromOf
    <3>4. QED
      BY <3>2, <3>3
  <2>2. CASE ~\E new \in Alias \cup {None} :
                    SetAlias(c, new) \/ SetAliasDrainFails(c, new)
    <3> DEFINE Same == /\ conn'[d].sid = conn[d].sid
                       /\ conn'[d].home = conn[d].home
                       /\ conn'[d].alias = conn[d].alias
    <3>1. CASE \E f \in DmFilters : SetDmFilter(c, f)
      <4>1. Same
        BY <1>1, <3>1 DEF SetDmFilter
      <4>2. QED
        BY <1>3, <4>1
    <3>2. CASE Unwatch(c) \/ \E w \in WireFilters : Watch(c, w)
      <4>1. Same
        BY <1>1, <3>2 DEF Watch, Unwatch
      <4>2. QED
        BY <1>3, <4>1
    <3>3. CASE \E t \in Topic : Unsubscribe(c, t)
                              \/ \E r \in Replays : Subscribe(c, t, r)
      <4>1. Same
        BY <1>1, <3>3 DEF Subscribe, Unsubscribe
      <4>2. QED
        BY <1>3, <4>1
    <3>4. CASE \/ \E b \in DmAddr : Send(c, b) \/ SendFlushFails(c, b)
               \/ \E t \in Topic : Publish(c, t) \/ PublishFlushFails(c, t)
               \/ ListPeers(c)
      <4>1. Same
        BY <3>4 DEF Send, SendFlushFails, Publish, PublishFlushFails, ListPeers
      <4>2. QED
        BY <1>3, <4>1
    <3>5. QED
      BY <1>5, <2>2, <3>1, <3>2, <3>3, <3>4 DEF Request
  <2>3. QED
    BY <2>1, <2>2
<1>6. CASE Restart
  BY <1>6 DEF Restart, FreshConn, Named
<1>7. CASE UNCHANGED vars
  BY <1>3, <1>7 DEF vars
<1>8. QED
  BY <1>4, <1>5, <1>6, <1>7 DEF Next

\* What a step other than a restart leaves in a DM queue was there before, or is
\* a DM just sent that nobody was there to take.
LEMMA ContentStep ==
    ASSUME RegistryInv, StoreInv, [Next]_vars, ~Restart,
           NEW a \in DmAddr, NEW i \in Ids(buffers'[a])
    PROVE  \/ i \in Ids(buffers[a]) /\ minted'[i] = minted[i]
           \/ /\ i = NextId
              /\ \E c \in Conn : /\ conn[c].sid # None
                                 /\ DmTargets(c, a) = {}
                                 /\ minted'[i].from = FromOf(c)
<1>1. /\ a \in Addr /\ a \notin Topic
      /\ buffers \in [Addr -> Seq(Nat)] /\ minted \in Seq(MessageState)
      /\ Orderly(buffers[a], a)
  BY NamesAssumption DEF Addr, StoreInv, StoreTypeOK, QueuesOrderly
<1>2. CASE UNCHANGED minted /\ Ids(buffers'[a]) \subseteq Ids(buffers[a])
  BY <1>2
<1>3. ASSUME NEW m, minted' = Append(minted, m)
      PROVE  /\ \A j \in Ids(buffers[a]) : minted'[j] = minted[j]
             /\ minted'[NextId] = m
  BY <1>1, <1>3 DEF Orderly, MsgId, Ids, NextId
<1>4. ASSUME NEW done, NEW failed, Drain(done, failed)
      PROVE  Ids(buffers'[a]) \subseteq Ids(buffers[a])
  BY <1>1, <1>4 DEF Drain, Ids
<1>5. ASSUME NEW c \in Conn, Session(c)
      PROVE  UNCHANGED minted /\ Ids(buffers'[a]) \subseteq Ids(buffers[a])
  BY <1>4, <1>5 DEF Session, Accept, Hello, HelloDrainFails, Register,
                    Disconnect, WriterFails, store, mail
<1>6. ASSUME NEW c \in Conn, NEW b \in DmAddr, Send(c, b) \/ SendFlushFails(c, b)
      PROVE  \/ i \in Ids(buffers[a]) /\ minted'[i] = minted[i]
             \/ /\ i = NextId
                /\ conn[c].sid # None
                /\ DmTargets(c, a) = {}
                /\ minted'[i].from = FromOf(c)
  <2>1. PICK m : minted' = Append(minted, m) /\ m.from = FromOf(c)
    <3>1. PICK acked, n : Mint(c, b, acked, n)
      BY <1>6 DEF Send, SendFlushFails
    <3>2. PICK m : m = [from |-> FromOf(c), to |-> b, acked |-> acked, delivered |-> n]
      OBVIOUS
    <3>3. minted' = Append(minted, m) /\ m.from = FromOf(c)
      BY <3>1, <3>2 DEF Mint
    <3>4. QED
      BY <3>3
  <2>2. CASE b = a /\ DmTargets(c, a) = {}
    <3>1. buffers'[a] = AppendBounded(buffers[a], NextId, Maxlen(a))
      BY <1>1, <1>6, <2>2 DEF Send, SendFlushFails, Persist
    <3>2. Maxlen(a) \in Nat \ {0} /\ Len(buffers[a]) <= Maxlen(a) /\ NextId \in Nat
      BY <1>1, BoundsAssumption DEF Maxlen, Orderly, NextId
    <3>3. Ids(buffers'[a]) \subseteq Ids(buffers[a]) \cup {NextId}
      <4> DEFINE S == Nat
      <4>1. buffers[a] \in Seq(S) /\ NextId \in S
        BY <1>1, <3>2
      <4> HIDE DEF S
      <4>2. QED
        BY <3>1, <3>2, <4>1, AppendBoundedIds
    <3>4. conn[c].sid # None
      BY <1>6 DEF Send, SendFlushFails, Identified
    <3>5. QED
      BY <1>3, <2>1, <2>2, <3>3, <3>4
  <2>3. CASE ~(b = a /\ DmTargets(c, a) = {})
    <3>1. buffers'[a] = buffers[a]
      BY <1>1, <1>6, <2>3 DEF Send, SendFlushFails, Persist, store
    <3>2. QED
      BY <1>3, <2>1, <3>1
  <2>4. QED
    BY <2>2, <2>3
<1>7. ASSUME NEW c \in Conn, NEW t \in Topic,
             Publish(c, t) \/ PublishFlushFails(c, t)
      PROVE  i \in Ids(buffers[a]) /\ minted'[i] = minted[i]
  <2>1. PICK m : minted' = Append(minted, m)
    BY <1>7 DEF Publish, PublishFlushFails, Mint
  <2>2. buffers'[a] = buffers[a]
    BY <1>1, <1>7 DEF Publish, PublishFlushFails, Persist
  <2>3. QED
    BY <1>3, <2>1, <2>2
<1>8. ASSUME NEW c \in Conn, Request(c)
      PROVE  \/ i \in Ids(buffers[a]) /\ minted'[i] = minted[i]
             \/ /\ i = NextId
                /\ conn[c].sid # None
                /\ DmTargets(c, a) = {}
                /\ minted'[i].from = FromOf(c)
  <2>1. ASSUME NEW new \in Alias \cup {None},
               SetAlias(c, new) \/ SetAliasDrainFails(c, new)
        PROVE  UNCHANGED minted /\ Ids(buffers'[a]) \subseteq Ids(buffers[a])
    BY <1>4, <2>1 DEF SetAlias, SetAliasDrainFails, TakeAlias, store
  <2>2. CASE \/ \E f \in DmFilters : SetDmFilter(c, f)
             \/ \E w \in WireFilters : Watch(c, w)
             \/ Unwatch(c)
             \/ \E t \in Topic : Unsubscribe(c, t)
                               \/ \E r \in Replays : Subscribe(c, t, r)
             \/ ListPeers(c)
    BY <1>2, <2>2 DEF SetDmFilter, Watch, Unwatch, Unsubscribe, Subscribe,
                      ListPeers, store, mail
  <2>3. QED
    BY <1>2, <1>6, <1>7, <1>8, <2>1, <2>2 DEF Request
<1>9. CASE UNCHANGED vars
  BY <1>2, <1>9 DEF vars, store, mail
<1>10. QED
  BY <1>2, <1>5, <1>8, <1>9 DEF Next

\* With the histories of SeenInv, NoneStranded is inductive.
LEMMA NoneStrandedNext ==
    ASSUME RegistryInv, StoreInv, SeenInv, NoneStranded, [Next]_vars
    PROVE  NoneStranded'
<1> SUFFICES ASSUME NEW a \in DmAddr, SurelyDrained(a), NEW d \in Conn,
                    Named(a, d)', NEW i \in Ids(buffers'[a])
             PROVE  minted'[i].from = FromOf(d)' \/ seen'[d].narrowed
  BY DEF NoneStranded, SurelyDrained
<1>1. buffers'[a] # <<>>
  BY DEF Ids
<1>2. Named(a, d) /\ FromOf(d)' = FromOf(d)
  BY <1>1, IdentityStep
<1>3. ~Restart
  <2>1. conn'[d].sid # None
    BY DEF Named
  <2>2. QED
    BY <2>1 DEF Restart, FreshConn
<1>4. conn'[d].sid # None /\ seen[d].narrowed => seen'[d].narrowed
  BY SeenStep
<1>5. CASE i \in Ids(buffers[a]) /\ minted'[i] = minted[i]
  BY <1>2, <1>4, <1>5 DEF NoneStranded, Named
<1>6. ASSUME NEW c \in Conn, conn[c].sid # None, DmTargets(c, a) = {},
             minted'[i].from = FromOf(c)
      PROVE  minted'[i].from = FromOf(d)' \/ seen'[d].narrowed
  <2>1. PICK s \in Recipients(a) : connections[s] = d
    BY <1>2, NamesMeans DEF Names
  <2>2. CASE s = conn[c].sid
    <3>1. c = d
      BY <1>6, <2>1, <2>2, IdentifiedFacts
    <3>2. QED
      BY <1>2, <1>6, <3>1
  <2>3. CASE s # conn[c].sid
    <3>1. FromOf(c) \notin conn[d].dm_filter
      BY <1>6, <2>1, <2>3 DEF DmTargets
    <3>2. FromOf(c) \in FromAddr
      BY <1>6, IdentifiedFacts
    <3>3. seen[d].narrowed
      BY <3>1, <3>2 DEF SeenInv
    <3>4. QED
      BY <1>2, <1>4, <3>3 DEF Named
  <2>4. QED
    BY <2>2, <2>3
<1>7. QED
  BY <1>3, <1>5, <1>6, ContentStep

\* A DM never waits in a queue while a session its address names is connected,
\* but for its sender and for one that set a filter, whatever the sessions do
\* and however often the daemon restarts, as long as its files can be unlinked
\* (NoStrandedDm).
THEOREM NothingStranded ==
    ASSUME "disk" \notin Faults PROVE Spec => []NoStrandedDm
<1>1. Init => NoneStranded /\ SeenInv
  <2>1. ASSUME Init PROVE SeenInv
    BY <2>1, FreshSeenShape DEF Init, SeenInv, SeenShape, FreshConn
  <2>2. ASSUME Init PROVE NoneStranded
    BY <2>2 DEF Init, NoneStranded, Named, FreshConn
  <2>3. QED
    BY <2>1, <2>2
<1>2. RegistryInv /\ NoneStranded => NoStrandedDm
  BY NamesMeans DEF NoneStranded, NoStrandedDm, SurelyDrained
<1>3. RegistryInv /\ StoreInv /\ SeenInv /\ NoneStranded /\ [Next]_vars
      => NoneStranded' /\ SeenInv'
  BY NoneStrandedNext, SeenStep
<1>4. QED
  BY <1>1, <1>2, <1>3, RegistryInit, RegistryNext, StoreInit, StoreNext, PTL
     DEF Spec

-------------------------------------------------------------------------------
(***************************************************************************)
(* How a DM is lost: what happens to each that leaves a queue or a file.   *)
(***************************************************************************)

\* In the next state too, whom an address names the router finds.
LEMMA NamesNext ==
    RegistryInv' => (\A a \in DmAddr, d \in Conn : Named(a, d) => Names(a, d))'
<1>1. RegistryInv => \A a \in DmAddr, d \in Conn : Named(a, d) => Names(a, d)
  BY NamesMeans
<1>2. QED
  BY <1>1, PTL

\* DM i leaves the queue of a: handed over, pushed out by a newer one, refused by
\* the session drained, or left on disk.
Leaves(a, i) ==
    \/ i \in handed'
    \/ i = buffers[a][1] /\ Len(buffers'[a]) = DmMaxlen
    \/ Refused(a, i)
    \/ LeftOnDisk(a, i)

\* Each step accounts for the acknowledged DMs it takes off a queue.
LEMMA LeavesStep ==
    ASSUME RegistryInv, RegistryInv', StoreInv, [Next]_vars, NEW a \in DmAddr,
           NEW i \in Ids(buffers[a]) \ Ids(buffers'[a]), minted[i].acked
    PROVE  Leaves(a, i)
<1>1. /\ a \in Addr /\ a \notin Topic /\ a = <<a[1], a[2]>>
      /\ buffers \in [Addr -> Seq(Nat)] /\ files \in [Addr -> Seq(Nat)]
      /\ minted \in Seq(MessageState) /\ Orderly(buffers[a], a)
  BY NamesAssumption DEF Addr, DmAddr, StoreInv, StoreTypeOK, QueuesOrderly
<1>2. i \in Ids(files[a])
  BY <1>1 DEF StoreInv, AckedDurable
<1>3. \A d \in Conn : /\ DOMAIN conn = Conn
                      /\ DOMAIN conn[d] = {"open", "sid", "home", "alias",
                              "subscriptions", "dm_filter", "wire", "closed"}
                      /\ conn[d].sid \in Sid \cup {None}
                      /\ conn[d].sid = None => conn[d].alias = None
  BY DEF RegistryInv, RegistryTypeOK, ConnState, RegistryExact, IdentityWhole
<1>4. \A d \in Conn : (Named(a, d)' => Names(a, d)') /\ (Names(a, d) => Named(a, d))
  BY NamesNext, NamesMeans
<1>5. ASSUME NEW c \in Conn, ~Named(a, c), Named(a, c)',
             conn[c].closed \/ i \in handed' \/ i \notin Accepted(c, a)
      PROVE  Leaves(a, i)
  BY <1>4, <1>5 DEF Leaves, Refused, Accepted
<1>6. buffers'[a] # buffers[a]
  OBVIOUS
<1>7. ASSUME "disk" \in Faults, buffers'[a] = <<>>, files'[a] = files[a]
      PROVE  Leaves(a, i)
  BY <1>2, <1>7 DEF Leaves, LeftOnDisk
<1>8. CASE Restart
  BY <1>1, <1>2, <1>8 DEF Restart
<1>9. ASSUME NEW c \in Conn, Session(c) PROVE Leaves(a, i)
  <2>1. ASSUME NEW s \in Sid, NEW h \in Home, Register(c, s, h)
        PROVE  /\ a \in {<<h, None>>, <<h, s>>} => Named(a, c)'
               /\ <<h, None>> # <<h, s>>
               /\ ~Named(a, c)
    BY <1>3, <2>1, NamesAssumption DEF Register, Named, Identified
  <2>2. ASSUME NEW s \in Sid, NEW h \in Home, Hello(c, s, h) PROVE Leaves(a, i)
    <3>1. a \in {<<h, None>>, <<h, s>>}
      BY <1>1, <2>2 DEF Hello, Drain
    <3>2. conn[c].closed \/ i \in handed' \/ i \notin Accepted(c, a)
      BY <2>2, <3>1 DEF Hello, Hand
    <3>3. QED
      BY <1>5, <2>1, <2>2, <3>1, <3>2 DEF Hello
  <2>3. ASSUME NEW s \in Sid, NEW h \in Home, HelloDrainFails(c, s, h)
        PROVE  Leaves(a, i)
    <3>1. CASE Drain({}, {<<h, None>>})
      <4>1. buffers'[a] = <<>> /\ files'[a] = files[a]
        BY <1>1, <1>6, <3>1 DEF Drain
      <4>2. QED
        BY <1>7, <2>3, <4>1 DEF HelloDrainFails
    <3>2. CASE /\ Drain({<<h, None>>}, {<<h, s>>})
               /\ Hand(c, Drained(c, <<h, None>>), Accepted(c, <<h, None>>))
      <4>1. CASE a = <<h, None>>
        BY <1>5, <2>1, <2>3, <3>2, <4>1 DEF HelloDrainFails, Hand
      <4>2. CASE a # <<h, None>>
        <5>1. buffers'[a] = <<>> /\ files'[a] = files[a]
          BY <1>1, <1>6, <3>2, <4>2 DEF Drain
        <5>2. QED
          BY <1>7, <2>3, <5>1 DEF HelloDrainFails
      <4>3. QED
        BY <4>1, <4>2
    <3>3. QED
      BY <2>3, <3>1, <3>2 DEF HelloDrainFails
  <2>4. CASE Accept(c) \/ Disconnect(c) \/ WriterFails(c)
    BY <1>6, <2>4 DEF Accept, Disconnect, WriterFails, store
  <2>5. QED
    BY <1>9, <2>2, <2>3, <2>4 DEF Session
<1>10. ASSUME NEW c \in Conn, Request(c) PROVE Leaves(a, i)
  <2>1. ASSUME NEW new \in Alias \cup {None}, SetAlias(c, new) PROVE Leaves(a, i)
    <3>1. new \notin {None, conn[c].alias} /\ a = <<conn[c].home, new>>
      BY <1>1, <1>6, <2>1 DEF SetAlias, Drain, store
    <3>2. Named(a, c)'
      BY <1>3, <2>1, <3>1 DEF SetAlias, TakeAlias, Named, Identified
    <3>3. ~Named(a, c)
      BY <1>3, <2>1, <3>1, NamesAssumption DEF SetAlias, TakeAlias, Named, Identified
    <3>4. conn[c].closed \/ i \in handed' \/ i \notin Accepted(c, a)
      BY <2>1, <3>1 DEF SetAlias, Hand
    <3>5. QED
      BY <1>5, <3>2, <3>3, <3>4
  <2>2. ASSUME NEW new \in Alias, SetAliasDrainFails(c, new) PROVE Leaves(a, i)
    <3>1. buffers'[a] = <<>> /\ files'[a] = files[a]
      BY <1>1, <1>6, <2>2 DEF SetAliasDrainFails, Drain
    <3>2. QED
      BY <1>7, <2>2, <3>1 DEF SetAliasDrainFails
  <2>3. ASSUME NEW b \in Addr, NEW flushed \in BOOLEAN, Persist(b, flushed)
        PROVE  Leaves(a, i)
    <3>1. b = a /\ buffers'[a] = AppendBounded(buffers[a], NextId, Maxlen(a))
      BY <1>1, <1>6, <2>3 DEF Persist
    <3>2. /\ Maxlen(a) = DmMaxlen /\ Maxlen(a) \in Nat \ {0}
          /\ Len(buffers[a]) <= Maxlen(a) /\ NextId \in Nat
      BY <1>1, BoundsAssumption DEF Maxlen, Orderly, NextId
    <3>3. i = buffers[a][1] /\ Len(buffers'[a]) = DmMaxlen
      <4> DEFINE S == Nat
      <4>1. buffers[a] \in Seq(S) /\ NextId \in S
        BY <1>1, <3>2
      <4> HIDE DEF S
      <4>2. QED
        BY <3>1, <3>2, <4>1, AppendBoundedLoses
    <3>4. QED
      BY <3>3 DEF Leaves
  <2>4. CASE \/ \E b \in DmAddr : Send(c, b) \/ SendFlushFails(c, b)
             \/ \E t \in Topic : Publish(c, t) \/ PublishFlushFails(c, t)
    BY <1>6, <2>3, <2>4
       DEF Send, SendFlushFails, Publish, PublishFlushFails, Addr, store
  <2>5. CASE \/ \E f \in DmFilters : SetDmFilter(c, f)
             \/ \E w \in WireFilters : Watch(c, w)
             \/ Unwatch(c)
             \/ \E t \in Topic : Unsubscribe(c, t)
                               \/ \E r \in Replays : Subscribe(c, t, r)
             \/ ListPeers(c)
    BY <1>6, <2>5 DEF SetDmFilter, Watch, Unwatch, Unsubscribe, Subscribe,
                      ListPeers, store
  <2>6. QED
    BY <1>10, <2>1, <2>2, <2>4, <2>5 DEF Request
<1>11. CASE UNCHANGED vars
  BY <1>6, <1>11 DEF vars, store
<1>12. QED
  BY <1>8, <1>9, <1>10, <1>11 DEF Next

\* A file changes only to what the queue is after the step.
LEMMA FileStep ==
    ASSUME StoreInv, [Next]_vars, NEW a \in DmAddr
    PROVE  files'[a] = files[a] \/ files'[a] = buffers'[a]
<1> DEFINE Follows == files'[a] = files[a] \/ files'[a] = buffers'[a]
<1>1. a \in Addr /\ DOMAIN files = Addr /\ DOMAIN buffers = Addr
  BY DEF Addr, StoreInv, StoreTypeOK
<1>2. ASSUME NEW done, NEW failed, Drain(done, failed) PROVE Follows
  BY <1>1, <1>2 DEF Drain
<1>3. ASSUME NEW b, NEW flushed, Persist(b, flushed) PROVE Follows
  BY <1>1, <1>3 DEF Persist
<1>4. CASE Restart
  BY <1>4 DEF Restart
<1>5. ASSUME NEW c \in Conn, Session(c) PROVE Follows
  BY <1>2, <1>5 DEF Session, Accept, Hello, HelloDrainFails, Disconnect, WriterFails,
                    store
<1>6. ASSUME NEW c \in Conn, Request(c) PROVE Follows
  BY <1>2, <1>3, <1>6
     DEF Request, SetAlias, SetAliasDrainFails, SetDmFilter, Watch, Unwatch, Send,
         SendFlushFails, Publish, PublishFlushFails, Subscribe, Unsubscribe, ListPeers,
         store
<1>7. CASE UNCHANGED vars
  BY <1>7 DEF vars, store
<1>8. QED
  BY <1>4, <1>5, <1>6, <1>7 DEF Next

\* Every loss of an acknowledged DM is one of those LossesAccounted names, whatever
\* file operations fail and through restarts: handed over, pushed out of a full queue,
\* refused by the session drained, or left on disk by a failed unlink and erased by
\* the next write of that file.
THEOREM DmLossesAccounted == Spec => LossesAccounted
<1>1. RegistryInv /\ RegistryInv' /\ StoreInv /\ [Next]_vars
      => [\A a \in DmAddr :
            /\ \A i \in Ids(buffers[a]) \ Ids(buffers'[a]) :
                 \/ ~minted[i].acked
                 \/ i \in handed'
                 \/ i = buffers[a][1] /\ Len(buffers'[a]) = DmMaxlen
                 \/ Refused(a, i)
                 \/ LeftOnDisk(a, i)
            /\ \A i \in Ids(files[a]) \ (Ids(files'[a]) \cup Ids(buffers[a])) :
                 files'[a] = buffers'[a]]_vars
  <2> SUFFICES ASSUME RegistryInv, RegistryInv', StoreInv, [Next]_vars, NEW a \in DmAddr
               PROVE  /\ \A i \in Ids(buffers[a]) \ Ids(buffers'[a]) :
                           ~minted[i].acked \/ Leaves(a, i)
                      /\ \A i \in Ids(files[a]) \ (Ids(files'[a]) \cup Ids(buffers[a])) :
                           files'[a] = buffers'[a]
    BY DEF Leaves
  <2>1. \A i \in Ids(files[a]) \ (Ids(files'[a]) \cup Ids(buffers[a])) :
          files'[a] = buffers'[a]
    BY FileStep
  <2>2. QED
    BY <2>1, LeavesStep
<1>2. QED
  BY <1>1, RegistryInit, RegistryNext, StoreInit, StoreNext, PTL
     DEF Spec, LossesAccounted

-------------------------------------------------------------------------------
(***************************************************************************)
(* The outboxes.                                                           *)
(***************************************************************************)

Entry(N) == {"message", "wire"} \X N

\* What is put on an outbox is made of the ids it is about.
LEMMA EntryTypes ==
    ASSUME NEW N
    PROVE  /\ \A i \in N : Message(i) \in Entry(N) /\ Wire(i) \in Entry(N)
           /\ \A q \in Seq(N) : Messages(q) \in Seq(Entry(N))
           /\ \A d \in Conn : outbox[d] \in Seq(Entry(N)) =>
                \A e \in Seq(Entry(N)) : Put(d, e) \in Seq(Entry(N))
<1>1. \A i \in N : Message(i) \in Entry(N) /\ Wire(i) \in Entry(N)
  BY DEF Message, Wire, Entry
<1>2. ASSUME NEW q \in Seq(N) PROVE Messages(q) \in Seq(Entry(N))
  BY <1>1 DEF Messages
<1>3. ASSUME NEW d \in Conn, outbox[d] \in Seq(Entry(N)), NEW e \in Seq(Entry(N))
      PROVE  Put(d, e) \in Seq(Entry(N))
  BY <1>3 DEF Put
<1>4. QED
  BY <1>1, <1>2, <1>3

\* Messages are never unminted or changed.
LEMMA MintedStays ==
    ASSUME StoreInv, StoreStep
    PROVE  /\ MsgId \subseteq MsgId'
           /\ \A i \in MsgId : minted'[i] = minted[i]
           /\ Len(minted) \in Nat /\ Len(minted') \in Nat /\ Len(minted) <= Len(minted')
<1>1. minted \in Seq(MessageState) /\ Len(minted) \in Nat
  BY DEF StoreInv, StoreTypeOK
<1>2. CASE minted' = minted
  BY <1>1, <1>2 DEF MsgId
<1>3. ASSUME NEW m \in MessageState, minted' = Append(minted, m)
      PROVE  /\ Len(minted') = Len(minted) + 1
             /\ \A i \in MsgId : minted'[i] = minted[i]
  BY <1>1, <1>3, MintedGrows DEF MsgId
<1>4. CASE \E m \in MessageState : minted' = Append(minted, m)
  BY <1>1, <1>3, <1>4 DEF MsgId
<1>5. minted' = minted \/ \E m \in MessageState : minted' = Append(minted, m)
  BY DEF StoreStep, StoreKept, Drains, Mints, Reloads, MessageState
<1>6. QED
  BY <1>2, <1>4, <1>5

\* What is drained or replayed are minted messages.
LEMMA QueueTypes ==
    ASSUME StoreInv, NEW a \in Addr
    PROVE  /\ buffers[a] \in Seq(MsgId)
           /\ \A c : Drained(c, a) \in Seq(MsgId)
           /\ \A r \in Nat : LastN(buffers[a], r) \in Seq(MsgId)
<1>1. buffers[a] \in Seq(Nat) /\ Orderly(buffers[a], a)
  BY DEF StoreInv, StoreTypeOK, QueuesOrderly
<1>2. \A i \in 1..Len(buffers[a]) : buffers[a][i] \in MsgId
  BY <1>1 DEF Orderly
<1>3. buffers[a] \in Seq(MsgId)
  BY <1>1, <1>2
<1>4. \A c : Drained(c, a) \in Seq(MsgId)
  BY <1>3, SelectIds DEF Drained
<1>5. ASSUME NEW N, NEW q \in Seq(N), NEW r \in Nat PROVE LastN(q, r) \in Seq(N)
  BY DEF LastN
<1>6. QED
  BY <1>3, <1>4, <1>5

\* A feed starts behind the last message before its replay.
LEMMA FeedStartMeans ==
    ASSUME StoreInv, NEW t \in Topic, NEW r \in Nat,
           NEW replay, replay = IF r = 0 THEN <<>> ELSE LastN(buffers[t], r)
    PROVE  FeedStart(t, r) = IF replay = <<>> THEN Len(minted) ELSE replay[1] - 1
<1>1. PICK q, n : q = buffers[t] /\ n = Len(q)
  OBVIOUS
<1>2. q \in Seq(MsgId) /\ n \in Nat
  BY <1>1, QueueTypes DEF Addr
<1>3. FeedStart(t, r) = IF r = 0 \/ n = 0 THEN Len(minted)
                        ELSE q[IF r < n THEN n - r + 1 ELSE 1] - 1
  BY <1>1 DEF FeedStart
<1>4. CASE r = 0
  BY <1>3, <1>4
<1>5. CASE r # 0
  <2>1. replay = LastN(q, r)
    BY <1>1, <1>5
  <2>2. /\ replay \in Seq(MsgId)
        /\ Len(replay) = IF n > r THEN r ELSE n
        /\ \A k \in 1..Len(replay) : replay[k] = q[n - Len(replay) + k]
    <3>1. q \in Seq(MsgId) /\ r \in Nat /\ replay = LastN(q, r) /\ n = Len(q)
      BY <1>1, <1>2, <2>1
    <3>2. QED
      BY ONLY <3>1, LastNMeans
  <2>3. CASE n = 0
    BY <1>2, <1>3, <2>2, <2>3
  <2>4. CASE n # 0
    <3>1. PICK l : l = Len(replay)
      OBVIOUS
    <3>2. l \in Nat /\ l > 0 /\ l = IF n > r THEN r ELSE n
      BY <1>2, <1>5, <2>2, <2>4, <3>1
    <3>3. n - l + 1 = IF r < n THEN n - r + 1 ELSE 1
      BY ONLY <1>2, <3>2, r \in Nat
    <3>4. replay # <<>> /\ replay[1] = q[n - l + 1]
      BY <2>2, <3>1, <3>2
    <3>5. QED
      BY <1>3, <1>5, <2>4, <3>3, <3>4
  <2>5. QED
    BY <2>3, <2>4
<1>6. QED
  BY <1>4, <1>5

OutboxInv == outbox \in [Conn -> Seq(Entry(MsgId))]

\* Every step keeps the outboxes typed.
LEMMA OutboxNext ==
    ASSUME RegistryInv, StoreInv, OutboxInv, [Next]_vars PROVE OutboxInv'
<1>1. /\ MsgId \subseteq MsgId'
      /\ StoreStep
  BY StepsAreStoreSteps, MintedStays
<1> DEFINE E == Entry(MsgId')
<1>2. \A d \in Conn : outbox[d] \in Seq(E)
  <2>1. Entry(MsgId) \subseteq E
    BY <1>1 DEF Entry
  <2>2. QED
    BY <2>1, SeqMonotonic DEF OutboxInv
<1>3. DOMAIN outbox = Conn /\ outbox = [d \in Conn |-> outbox[d]]
  BY DEF OutboxInv
<1>4. /\ \A i \in MsgId' : <<Message(i)>> \in Seq(E) /\ <<Wire(i)>> \in Seq(E)
      /\ \A q \in Seq(MsgId') : Messages(q) \in Seq(E)
      /\ \A d \in Conn, e \in Seq(E) : Put(d, e) \in Seq(E)
  BY <1>2, EntryTypes
<1>5. \A a \in Addr : /\ \A c : Drained(c, a) \in Seq(MsgId')
                      /\ \A r \in Nat : LastN(buffers[a], r) \in Seq(MsgId')
  BY <1>1, QueueTypes, SeqMonotonic
<1> HIDE DEF E
<1> SUFFICES outbox' = [d \in Conn |-> outbox'[d]] /\ \A d \in Conn : outbox'[d] \in Seq(E)
  BY DEF OutboxInv, E
<1>6. CASE outbox' = outbox
  BY <1>2, <1>3, <1>6
<1>7. ASSUME NEW c \in Conn, NEW q \in Seq(MsgId'), NEW ids, Hand(c, q, ids)
      PROVE  outbox' = [d \in Conn |-> outbox'[d]] /\ \A d \in Conn : outbox'[d] \in Seq(E)
  BY <1>2, <1>3, <1>4, <1>7 DEF Hand
<1>8. ASSUME NEW i \in MsgId', NEW targets, NEW watchers,
             outbox' = FanOut(i, targets, watchers)
      PROVE  outbox' = [d \in Conn |-> outbox'[d]] /\ \A d \in Conn : outbox'[d] \in Seq(E)
  <2>1. \A d \in Conn : \E e \in Seq(E) : outbox'[d] = Put(d, e)
    <3> TAKE d \in Conn
    <3> DEFINE e1 == IF d \in targets THEN <<Message(i)>> ELSE <<>>
               e2 == IF d \in watchers THEN <<Wire(i)>> ELSE <<>>
    <3>1. e1 \in Seq(E) /\ e2 \in Seq(E)
      BY <1>4
    <3>2. outbox'[d] = Put(d, e1 \o e2)
      BY <1>8 DEF FanOut
    <3> HIDE DEF e1, e2
    <3>3. e1 \o e2 \in Seq(E)
      BY <3>1
    <3>4. QED
      BY <3>2, <3>3
  <2>2. outbox' = [d \in Conn |-> outbox'[d]]
    BY <1>8 DEF FanOut
  <2>3. QED
    BY <1>4, <2>1, <2>2
<1>9. ASSUME NEW c \in Conn, Session(c)
      PROVE  outbox' = [d \in Conn |-> outbox'[d]] /\ \A d \in Conn : outbox'[d] \in Seq(E)
  <2>1. CASE Accept(c)
    <3>1. outbox' = [outbox EXCEPT ![c] = <<>>]
      BY <2>1 DEF Accept
    <3>2. QED
      BY <1>2, <1>3, <3>1
  <2>2. ASSUME NEW s \in Sid, NEW h \in Home, Hello(c, s, h) \/ HelloDrainFails(c, s, h)
        PROVE  outbox' = [d \in Conn |-> outbox'[d]] /\ \A d \in Conn : outbox'[d] \in Seq(E)
    <3>1. <<h, None>> \in Addr /\ <<h, s>> \in Addr
      BY DEF Addr, DmAddr
    <3>2. Drained(c, <<h, None>>) \in Seq(MsgId') /\ Drained(c, <<h, s>>) \in Seq(MsgId')
      BY <1>5, <3>1
    <3>3. Drained(c, <<h, None>>) \o Drained(c, <<h, s>>) \in Seq(MsgId')
      BY <3>2
    <3>4. QED
      BY <1>6, <1>7, <2>2, <3>2, <3>3 DEF Hello, HelloDrainFails
  <2>3. CASE Disconnect(c) \/ WriterFails(c)
    BY <1>6, <2>3 DEF Disconnect, WriterFails, mail
  <2>4. QED
    BY <1>9, <2>1, <2>2, <2>3 DEF Session
<1>10. ASSUME NEW c \in Conn, Request(c)
       PROVE  outbox' = [d \in Conn |-> outbox'[d]] /\ \A d \in Conn : outbox'[d] \in Seq(E)
  <2>1. ASSUME NEW new \in Alias \cup {None}, SetAlias(c, new)
        PROVE  outbox' = [d \in Conn |-> outbox'[d]] /\ \A d \in Conn : outbox'[d] \in Seq(E)
    <3>1. conn[c].home \in Home
      BY <2>1, IdentifiedFacts DEF SetAlias, TakeAlias, Identified
    <3>2. <<conn[c].home, new>> \in Addr
      BY <3>1 DEF Addr, DmAddr
    <3>3. Drained(c, <<conn[c].home, new>>) \in Seq(MsgId')
      BY <1>5, <3>2
    <3>4. QED
      BY <1>6, <1>7, <2>1, <3>3 DEF SetAlias
  <2>2. CASE \/ \E a \in DmAddr : Send(c, a)
             \/ \E t \in Topic : Publish(c, t)
    <3>1. PICK targets, watchers, a, n :
             outbox' = FanOut(NextId, targets, watchers) /\ Mint(c, a, TRUE, n)
      BY <2>2 DEF Send, Publish
    <3>2. NextId \in MsgId'
      BY <1>1, <3>1 DEF Mint, MsgId, NextId, StoreInv, StoreTypeOK
    <3>3. QED
      BY <1>8, <3>1, <3>2
  <2>3. ASSUME NEW t \in Topic, NEW r \in Replays, Subscribe(c, t, r)
        PROVE  outbox' = [d \in Conn |-> outbox'[d]] /\ \A d \in Conn : outbox'[d] \in Seq(E)
    <3> DEFINE replay == IF r = 0 THEN <<>> ELSE LastN(buffers[t], r)
    <3>1. replay \in Seq(MsgId')
      BY <1>5, BoundsAssumption DEF Addr
    <3>2. outbox' = [outbox EXCEPT ![c] = Put(c, Messages(replay))]
      BY <2>3 DEF Subscribe
    <3> HIDE DEF replay
    <3>3. QED
      BY <1>2, <1>3, <1>4, <3>1, <3>2
  <2>4. QED
    BY <1>6, <1>10, <2>1, <2>2, <2>3
       DEF Request, SetAliasDrainFails, SetDmFilter, Watch, Unwatch, SendFlushFails,
           PublishFlushFails, Unsubscribe, ListPeers, mail
<1>11. CASE Restart
  BY <1>11 DEF Restart
<1>12. QED
  BY <1>6, <1>9, <1>10, <1>11 DEF Next, vars, mail

-------------------------------------------------------------------------------
(***************************************************************************)
(* The type invariant of the whole.  What clients remember (seen) is typed *)
(* with room to spare; the bounds are TypeOK's.                            *)
(***************************************************************************)
SessionInfo == Sid \X Home \X (Alias \cup {None})

Views == (SUBSET SessionInfo) \cup {None}
Joins == [pos : Nat, from : Nat, at : Nat] \cup {None}

SeenState ==
    [view : Views, joined : [Topic -> Joins], watchedAt : Nat, narrowed : BOOLEAN]

HistoryInv ==
    /\ seen \in [Conn -> SeenState]
    /\ \A c \in Conn :
         /\ seen[c].watchedAt <= Len(minted)
         /\ \A t \in Topic : seen[c].joined[t] # None =>
               /\ seen[c].joined[t] \in [pos : Nat, from : Nat, at : Nat]
               /\ seen[c].joined[t].at <= Len(minted)

\* The sessions list_peers answers with are sessions.
LEMMA SessionsType == ASSUME RegistryInv PROVE Sessions \subseteq SessionInfo
<1> SUFFICES ASSUME NEW p \in Sid \X Home, connections[p[1]] # None
             PROVE  <<p[1], p[2], conn[connections[p[1]]].alias>> \in SessionInfo
  BY DEF Sessions
<1>1. connections[p[1]] \in Conn
  BY DEF RegistryInv, RegistryTypeOK
<1>2. conn[connections[p[1]]].alias \in Alias \cup {None}
  BY <1>1 DEF RegistryInv, RegistryTypeOK, ConnState
<1>3. QED
  BY <1>2 DEF SessionInfo

\* A notification to the registered keeps their histories typed, and nothing but
\* the view changes.
LEMMA BroadcastStep ==
    ASSUME NEW past \in [Conn -> SeenState], NEW except, NEW gone,
           NEW added \in SUBSET SessionInfo, NEW b,
           b = Broadcast(past, except, gone, added)
    PROVE  /\ b \in [Conn -> SeenState]
           /\ \A d \in Conn : /\ b[d].joined = past[d].joined
                              /\ b[d].watchedAt = past[d].watchedAt
                              /\ b[d].narrowed = past[d].narrowed
<1>1. ASSUME NEW v \in Views, v # None
      PROVE  {e \in v : e[1] # gone} \cup added \in Views
  BY <1>1 DEF Views
<1>2. ASSUME NEW d \in Conn
      PROVE  \/ b[d] = past[d]
             \/ \E v \in Views : b[d] = [past[d] EXCEPT !.view = v]
  <2>1. past[d].view \in Views
    BY DEF SeenState
  <2>2. PICK v : v = {e \in past[d].view : e[1] # gone} \cup added
    OBVIOUS
  <2>3. \/ b[d] = past[d]
        \/ past[d].view # None /\ b[d] = [past[d] EXCEPT !.view = v]
    BY <2>2 DEF Broadcast
  <2>4. QED
    BY <1>1, <2>1, <2>2, <2>3
<1>3. b = [d \in Conn |-> b[d]]
  BY DEF Broadcast
<1>4. ASSUME NEW r \in SeenState, NEW v \in Views, NEW x, x = [r EXCEPT !.view = v]
      PROVE  /\ x \in SeenState /\ x.joined = r.joined
             /\ x.watchedAt = r.watchedAt /\ x.narrowed = r.narrowed
  BY <1>4 DEF SeenState
<1>5. ASSUME NEW d \in Conn
      PROVE  /\ b[d] \in SeenState /\ b[d].joined = past[d].joined
             /\ b[d].watchedAt = past[d].watchedAt
             /\ b[d].narrowed = past[d].narrowed
  <2>1. past[d] \in SeenState
    OBVIOUS
  <2>2. ASSUME NEW v \in Views, NEW x, x = [past[d] EXCEPT !.view = v], b[d] = x
        PROVE  /\ b[d] \in SeenState /\ b[d].joined = past[d].joined
               /\ b[d].watchedAt = past[d].watchedAt
               /\ b[d].narrowed = past[d].narrowed
    BY <1>4, <2>1, <2>2
  <2>3. QED
    BY <1>2, <2>1, <2>2
<1>6. QED
  BY <1>3, <1>5

\* A history as it starts is typed.
LEMMA FreshSeenType ==
    /\ FreshSeen \in SeenState
    /\ FreshSeen.watchedAt = 0 /\ \A t \in Topic : FreshSeen.joined[t] = None
<1>1. None \in Views
  BY DEF Views
<1>2. None \in Joins
  BY DEF Joins
<1>3. ASSUME NEW v \in Views, NEW j \in [Topic -> Joins]
      PROVE  [view |-> v, joined |-> j, watchedAt |-> 0, narrowed |-> FALSE] \in SeenState
  BY DEF SeenState
<1>4. [t \in Topic |-> None] \in [Topic -> Joins]
  BY <1>2
<1>5. FreshSeen \in SeenState
  BY <1>1, <1>3, <1>4, Zenon DEF FreshSeen
<1>6. QED
  BY <1>5 DEF FreshSeen

\* One field of one history is written.
LEMMA SeenWrites ==
    ASSUME NEW r \in SeenState
    PROVE  /\ \A v \in Views : [r EXCEPT !.view = v] \in SeenState
           /\ \A n \in Nat : [r EXCEPT !.watchedAt = n] \in SeenState
           /\ [r EXCEPT !.narrowed = TRUE] \in SeenState
           /\ \A j \in [Topic -> Joins] : [r EXCEPT !.joined = j] \in SeenState
<1>1. \A v \in Views : [r EXCEPT !.view = v] \in SeenState
  BY DEF SeenState
<1>2. \A n \in Nat : [r EXCEPT !.watchedAt = n] \in SeenState
  BY DEF SeenState
<1>3. [r EXCEPT !.narrowed = TRUE] \in SeenState
  BY DEF SeenState
<1>4. \A j \in [Topic -> Joins] : [r EXCEPT !.joined = j] \in SeenState
  BY DEF SeenState
<1>5. QED
  BY <1>1, <1>2, <1>3, <1>4

\* The part of HistoryInv about one connection.
History(c) ==
    /\ seen[c] \in SeenState
    /\ seen[c].watchedAt <= Len(minted)
    /\ \A t \in Topic : seen[c].joined[t] # None =>
          /\ seen[c].joined[t] \in [pos : Nat, from : Nat, at : Nat]
          /\ seen[c].joined[t].at <= Len(minted)

\* Every step keeps the histories typed.
LEMMA HistoryNext ==
    ASSUME RegistryInv, StoreInv, OutboxInv, HistoryInv, [Next]_vars
    PROVE  HistoryInv'
<1>1. /\ Len(minted) \in Nat /\ Len(minted') \in Nat /\ Len(minted) <= Len(minted')
  BY StepsAreStoreSteps, MintedStays
<1>2. \A d \in Conn : seen[d] \in SeenState /\ History(d)
  BY DEF HistoryInv, History
<1>3. seen = [d \in Conn |-> seen[d]]
  BY DEF HistoryInv
<1> SUFFICES seen' = [d \in Conn |-> seen'[d]] /\ \A d \in Conn : History(d)'
  BY DEF HistoryInv, History
<1> DEFINE Goal == seen' = [d \in Conn |-> seen'[d]] /\ \A d \in Conn : History(d)'
<1>4. ASSUME NEW d \in Conn, seen'[d] \in SeenState,
             seen'[d].joined = seen[d].joined,
             seen'[d].watchedAt = seen[d].watchedAt
      PROVE  History(d)'
  BY <1>1, <1>2, <1>4 DEF History, SeenState
<1>5. ASSUME NEW d \in Conn, seen'[d] = seen[d] PROVE History(d)'
  BY <1>2, <1>4, <1>5
<1>6. ASSUME NEW d \in Conn, seen'[d] = FreshSeen PROVE History(d)'
  BY <1>1, <1>6, FreshSeenType DEF History
<1>7. ASSUME NEW b \in [Conn -> SeenState],
             \A d \in Conn : /\ b[d].joined = seen[d].joined
                             /\ b[d].watchedAt = seen[d].watchedAt,
             \/ seen' = b
             \/ \E c \in Conn : seen' = [b EXCEPT ![c] = FreshSeen]
      PROVE  Goal
  <2>1. seen' = [d \in Conn |-> seen'[d]]
    BY <1>7
  <2>2. \A d \in Conn : seen'[d] = FreshSeen \/ seen'[d] = b[d]
    BY <1>7
  <2>3. QED
    BY <1>4, <1>6, <1>7, <2>1, <2>2
<1>8. CASE seen' = seen
  BY <1>3, <1>5, <1>8
<1>9. ASSUME NEW c \in Conn, NEW r \in SeenState,
             seen' = [d \in Conn |-> IF d = c THEN r ELSE seen[d]],
             History(c)'
      PROVE  Goal
  BY <1>5, <1>9
<1>10. ASSUME NEW c \in Conn, Session(c) PROVE Goal
  <2>1. CASE Accept(c)
    BY <1>3, <1>5, <1>6, <2>1 DEF Accept
  <2>2. ASSUME NEW s \in Sid, NEW h \in Home, Hello(c, s, h) PROVE Goal
    <3>1. {<<s, h, None>>} \in SUBSET SessionInfo
      BY DEF SessionInfo
    <3>2. seen' = Broadcast(seen, s, None, {<<s, h, None>>})
      BY <2>2 DEF Hello
    <3>3. seen \in [Conn -> SeenState]
      BY DEF HistoryInv
    <3>4. /\ seen' \in [Conn -> SeenState]
          /\ \A d \in Conn : /\ seen'[d].joined = seen[d].joined
                             /\ seen'[d].watchedAt = seen[d].watchedAt
      BY <3>1, <3>2, <3>3, BroadcastStep
    <3>5. QED
      BY <1>7, <3>4
  <2>3. CASE Disconnect(c)
    <3>1. PICK b : b = Broadcast(seen, conn[c].sid, conn[c].sid, {})
      OBVIOUS
    <3>2. {} \in SUBSET SessionInfo /\ seen \in [Conn -> SeenState]
      BY DEF HistoryInv
    <3>3. /\ b \in [Conn -> SeenState]
          /\ \A d \in Conn : /\ b[d].joined = seen[d].joined
                             /\ b[d].watchedAt = seen[d].watchedAt
      BY <3>1, <3>2, BroadcastStep
    <3>4. seen' = [b EXCEPT ![c] = FreshSeen]
      BY <2>3, <3>1 DEF Disconnect
    <3>5. QED
      BY <1>7, <3>3, <3>4
  <2>4. QED
    BY <1>8, <1>10, <2>1, <2>2, <2>3 DEF Session, HelloDrainFails, WriterFails
<1>11. ASSUME NEW c \in Conn, Request(c) PROVE Goal
  <2>1. ASSUME NEW new \in Alias \cup {None}, SetAlias(c, new) PROVE Goal
    <3>1. PICK added : added = {<<conn[c].sid, conn[c].home, new>>}
      OBVIOUS
    <3>2. added \in SUBSET SessionInfo
      BY <2>1, <3>1, IdentifiedFacts
         DEF SessionInfo, SetAlias, TakeAlias, Identified
    <3>3. seen' = Broadcast(seen, None, conn[c].sid, added)
      BY <2>1, <3>1 DEF SetAlias
    <3>4. seen \in [Conn -> SeenState]
      BY DEF HistoryInv
    <3>5. /\ seen' \in [Conn -> SeenState]
          /\ \A d \in Conn : /\ seen'[d].joined = seen[d].joined
                             /\ seen'[d].watchedAt = seen[d].watchedAt
      BY <3>2, <3>3, <3>4, BroadcastStep
    <3>6. QED
      BY <1>7, <3>5
  <2>2. ASSUME NEW f \in DmFilters, SetDmFilter(c, f) PROVE Goal
    <3>1. PICK r : r = [seen[c] EXCEPT !.narrowed = TRUE]
      OBVIOUS
    <3>2. r \in SeenState
      BY <1>2, <3>1, SeenWrites
    <3>3. seen' = [d \in Conn |-> IF d = c THEN r ELSE seen[d]]
      BY <1>3, <2>2, <3>1 DEF SetDmFilter
    <3>4. r.joined = seen[c].joined /\ r.watchedAt = seen[c].watchedAt
      BY <1>2, <3>1 DEF SeenState
    <3>5. QED
      BY <1>4, <1>9, <3>2, <3>3, <3>4
  <2>3. ASSUME NEW w \in WireFilters, Watch(c, w) PROVE Goal
    <3>1. PICK r : r = [seen[c] EXCEPT !.watchedAt = Len(minted)]
      OBVIOUS
    <3>2. r \in SeenState
      BY <1>1, <1>2, <3>1, SeenWrites
    <3>3. seen' = [d \in Conn |-> IF d = c THEN r ELSE seen[d]]
      BY <1>3, <2>3, <3>1 DEF Watch
    <3>4. r.joined = seen[c].joined /\ r.watchedAt = Len(minted)
      BY <1>2, <3>1 DEF SeenState
    <3>5. History(c)'
      BY <1>1, <1>2, <3>2, <3>3, <3>4 DEF History
    <3>6. QED
      BY <1>9, <3>2, <3>3, <3>5
  <2>4. ASSUME NEW t \in Topic, NEW v \in Joins,
               v # None => v.at <= Len(minted'),
               seen' = [seen EXCEPT ![c].joined[t] = v]
        PROVE  Goal
    <3>1. PICK j : j = [seen[c].joined EXCEPT ![t] = v]
      OBVIOUS
    <3>2. seen[c].joined \in [Topic -> Joins]
      BY <1>2 DEF SeenState
    <3>3. j \in [Topic -> Joins]
      BY <2>4, <3>1, <3>2
    <3>4. PICK r : r = [seen[c] EXCEPT !.joined = j]
      OBVIOUS
    <3>5. r \in SeenState /\ r.joined = j /\ r.watchedAt = seen[c].watchedAt
      BY <1>2, <3>3, <3>4, SeenWrites DEF SeenState
    <3>6. seen' = [d \in Conn |-> IF d = c THEN r ELSE seen[d]]
      BY <1>3, <2>4, <3>1, <3>4
    <3>7. \A x \in Joins : x # None => x \in [pos : Nat, from : Nat, at : Nat]
      BY DEF Joins
    <3>8. \A u \in Topic : j[u] = seen[c].joined[u] \/ j[u] = v
      BY <3>1, <3>2
    <3>9. \A u \in Topic : j[u] # None =>
             j[u] \in [pos : Nat, from : Nat, at : Nat] /\ j[u].at <= Len(minted')
      <4> TAKE u \in Topic
      <4>1. CASE j[u] = v
        BY <2>4, <3>7, <4>1
      <4>2. CASE j[u] = seen[c].joined[u]
        BY <1>1, <1>2, <4>2 DEF History
      <4>3. QED
        BY <3>8, <4>1, <4>2
    <3>10. History(c)'
      <4>1. seen'[c] = r
        BY <3>6
      <4>2. seen[c].watchedAt \in Nat /\ seen[c].watchedAt <= Len(minted)
        BY <1>2 DEF History, SeenState
      <4>3. seen'[c].watchedAt <= Len(minted')
        BY <1>1, <3>5, <4>1, <4>2
      <4>4. QED
        BY <3>5, <3>9, <4>1, <4>3 DEF History
    <3>11. QED
      BY <1>9, <3>5, <3>6, <3>10
  <2>5. ASSUME NEW t \in Topic, NEW r \in Replays, Subscribe(c, t, r) PROVE Goal
    <3> DEFINE replay == IF r = 0 THEN <<>> ELSE LastN(buffers[t], r)
    <3>1. replay \in Seq(MsgId)
      BY QueueTypes, BoundsAssumption DEF Addr
    <3>2. PICK n : n = IF replay = <<>> THEN Len(minted) ELSE replay[1] - 1
      OBVIOUS
    <3>8. FeedStart(t, r) = n
      BY <3>2, FeedStartMeans, BoundsAssumption
    <3>3. seen' = [seen EXCEPT ![c].joined[t] =
                     [pos |-> Len(outbox[c]), from |-> n, at |-> Len(minted)]]
      BY <2>5, <3>8 DEF Subscribe
    <3> HIDE DEF replay
    <3>4. n \in Nat
      BY <1>1, <3>1, <3>2 DEF MsgId
    <3>5. Len(outbox[c]) \in Nat
      BY DEF OutboxInv
    <3>6. [pos |-> Len(outbox[c]), from |-> n, at |-> Len(minted)] \in Joins
      BY <1>1, <3>4, <3>5 DEF Joins
    <3>7. QED
      BY <1>1, <2>4, <3>3, <3>6
  <2>6. ASSUME NEW t \in Topic, Unsubscribe(c, t) PROVE Goal
    <3>1. None \in Joins
      BY DEF Joins
    <3>2. QED
      BY <2>4, <2>6, <3>1 DEF Unsubscribe
  <2>7. CASE ListPeers(c)
    <3>1. PICK r : r = [seen[c] EXCEPT !.view = Sessions]
      OBVIOUS
    <3>2. Sessions \in Views
      BY SessionsType DEF Views
    <3>3. r \in SeenState
      BY <1>2, <3>1, <3>2, SeenWrites
    <3>4. seen' = [d \in Conn |-> IF d = c THEN r ELSE seen[d]]
      BY <1>3, <2>7, <3>1 DEF ListPeers
    <3>5. r.joined = seen[c].joined /\ r.watchedAt = seen[c].watchedAt
      BY <1>2, <3>1 DEF SeenState
    <3>6. QED
      BY <1>4, <1>9, <3>3, <3>4, <3>5
  <2>8. QED
    BY <1>8, <1>11, <2>1, <2>2, <2>3, <2>5, <2>6, <2>7
       DEF Request, SetAliasDrainFails, Unwatch, Send, SendFlushFails, Publish,
           PublishFlushFails
<1>12. CASE Restart
  BY <1>6, <1>12 DEF Restart
<1>13. QED
  BY <1>8, <1>10, <1>11, <1>12 DEF Next, vars

\* The type invariant of the daemon holds of everything it keeps (TypeOK).
THEOREM Typed == Spec => []TypeOK
<1>1. Init => OutboxInv /\ HistoryInv
  <2> SUFFICES ASSUME Init PROVE OutboxInv /\ HistoryInv
    OBVIOUS
  <2>1. minted = <<>> /\ Len(minted) = 0
        /\ seen = [c \in Conn |-> FreshSeen] /\ outbox = [c \in Conn |-> <<>>]
    BY DEF Init
  <2>2. OutboxInv
    BY <2>1 DEF OutboxInv
  <2>3. HistoryInv
    BY <2>1, FreshSeenType DEF HistoryInv
  <2>4. QED
    BY <2>2, <2>3
<1>2. RegistryInv /\ StoreInv /\ UndeliveredInv /\ OutboxInv /\ HistoryInv => TypeOK
  <2> SUFFICES ASSUME RegistryInv, StoreInv, UndeliveredInv, OutboxInv, HistoryInv
               PROVE  TypeOK
    OBVIOUS
  <2>1. ASSUME NEW c \in Conn, seen[c].view # None
        PROVE  seen[c].view \subseteq Sid \X Home \X (Alias \cup {None})
    <3>1. seen[c].view \in Views
      BY DEF HistoryInv, SeenState
    <3>2. QED
      BY <2>1, <3>1 DEF Views, SessionInfo
  <2>2. ASSUME NEW c \in Conn PROVE seen[c].watchedAt \in 0..Len(minted)
    BY DEF HistoryInv, SeenState, StoreInv, StoreTypeOK
  <2>3. ASSUME NEW c \in Conn, NEW t \in Topic, seen[c].joined[t] # None
        PROVE  seen[c].joined[t] \in [pos : Nat, from : Nat, at : 0..Len(minted)]
    <3>1. /\ seen[c].joined[t] \in [pos : Nat, from : Nat, at : Nat]
          /\ seen[c].joined[t].at <= Len(minted) /\ Len(minted) \in Nat
      BY <2>3 DEF HistoryInv, StoreInv, StoreTypeOK
    <3>2. QED
      BY <3>1
  <2>4. RegistryTypeOK /\ StoreTypeOK /\ handed \subseteq MsgId
    BY DEF RegistryInv, StoreInv, UndeliveredInv
  <2>5. outbox \in [Conn -> Seq({"message", "wire"} \X MsgId)]
    BY DEF OutboxInv, Entry
  <2> HIDE DEF RegistryTypeOK
  <2>6. QED
    BY <2>1, <2>2, <2>3, <2>4, <2>5 DEF TypeOK
<1>3. RegistryInv /\ StoreInv /\ OutboxInv /\ HistoryInv /\ [Next]_vars
      => OutboxInv' /\ HistoryInv'
  BY OutboxNext, HistoryNext
<1>4. QED
  BY <1>1, <1>2, <1>3, RegistryInit, RegistryNext, StoreInit, StoreNext,
     UndeliveredInit, UndeliveredNext, PTL DEF Spec

-------------------------------------------------------------------------------
(***************************************************************************)
(* The order of direct messages.  A session that gives up an alias and     *)
(* claims it again drains its queue behind what it was told before, so the *)
(* invariant compares outboxes and queues as well.                         *)
(***************************************************************************)

\* Those of the entries in T come in the order of their ids.
InOrder(q, T) ==
    \A i, j \in 1..Len(q) : i < j /\ q[i] \in T /\ q[j] \in T => q[i][2] < q[j][2]

\* The DMs for a that others than d sent, as an outbox holds them.
Told(d, a) ==
    {e \in Entry(MsgId) : /\ e[1] = "message" /\ minted[e[2]].to = a
                          /\ minted[e[2]].from # FromOf(d)}

\* A session that never filtered is told the DMs of a in order, and those of an
\* alias before what waits under it.
ToldInOrder(d, a) ==
    Identified(d) /\ ~seen[d].narrowed =>
        /\ InOrder(outbox[d], Told(d, a))
        /\ a[2] \in Alias =>
             \A x \in Ids(outbox[d]) \cap Told(d, a), k \in Ids(buffers[a]) :
                 minted[k].from # FromOf(d) => x[2] < k

\* Nothing is put on the outbox of a connection before its hello.
Untold(d) == conn[d].open /\ ~Identified(d) => outbox[d] = <<>>

FifoInv == \A d \in Conn : Untold(d) /\ \A a \in DmAddr : ToldInOrder(d, a)

\* It says what DmFifo says.
LEMMA FifoMeans == StoreInv /\ OutboxInv /\ FifoInv => DmFifo
<1> SUFFICES ASSUME OutboxInv, FifoInv, NEW c \in Conn, Identified(c), ~seen[c].narrowed,
                    NEW i \in DOMAIN outbox[c], NEW j \in DOMAIN outbox[c], i < j,
                    outbox[c][i][1] = "message", outbox[c][j][1] = "message",
                    minted[outbox[c][i][2]].to \in DmAddr,
                    minted[outbox[c][j][2]].to = minted[outbox[c][i][2]].to,
                    FromOf(c) # minted[outbox[c][i][2]].from,
                    FromOf(c) # minted[outbox[c][j][2]].from
             PROVE  outbox[c][i][2] < outbox[c][j][2]
  BY DEF DmFifo
<1>1. PICK a \in DmAddr : a = minted[outbox[c][i][2]].to
  OBVIOUS
<1>2. InOrder(outbox[c], Told(c, a))
  BY DEF FifoInv, ToldInOrder
<1>3. PICK q, T : q = outbox[c] /\ T = Told(c, a)
  OBVIOUS
<1>4. q \in Seq(Entry(MsgId)) /\ i \in 1..Len(q) /\ j \in 1..Len(q)
  BY <1>3 DEF OutboxInv
<1>5. q[i] \in T /\ q[j] \in T
  BY <1>1, <1>3, <1>4 DEF Told
<1>6. QED
  BY <1>2, <1>3, <1>4, <1>5 DEF InOrder

\* In order, and more in order behind it.
LEMMA InOrderConcat ==
    ASSUME NEW E, NEW p \in Seq(E), NEW e \in Seq(E), NEW T,
           InOrder(p, T), InOrder(e, T),
           \A x \in Ids(p), y \in Ids(e) : x \in T /\ y \in T => x[2] < y[2]
    PROVE  InOrder(p \o e, T)
<1>1. PICK r, m, n : r = p \o e /\ m = Len(p) /\ n = Len(e)
  OBVIOUS
<1>2. /\ m \in Nat /\ n \in Nat /\ Len(r) = m + n
      /\ \A i \in 1..m : r[i] = p[i]
      /\ \A i \in (m + 1)..(m + n) : r[i] = e[i - m] /\ i - m \in 1..n
  BY <1>1, ConcatMeans
<1>3. /\ \A i \in 1..m : p[i] \in Ids(p)
      /\ \A i \in 1..n : e[i] \in Ids(e)
  <2>1. DOMAIN p = 1..m /\ DOMAIN e = 1..n
    BY <1>1
  <2>2. QED
    BY <2>1 DEF Ids
<1> SUFFICES ASSUME NEW i \in 1..(m + n), NEW j \in 1..(m + n), i < j,
                    r[i] \in T, r[j] \in T
             PROVE  r[i][2] < r[j][2]
  BY <1>1, <1>2 DEF InOrder
<1>4. CASE i \in 1..m /\ j \in 1..m
  BY <1>1, <1>2, <1>4 DEF InOrder
<1>5. CASE i \in 1..m /\ j \in (m + 1)..(m + n)
  BY <1>2, <1>3, <1>5
<1>6. CASE i \in (m + 1)..(m + n) /\ j \in (m + 1)..(m + n)
  <2>1. i - m \in 1..n /\ j - m \in 1..n /\ i - m < j - m
    BY <1>2, <1>6
  <2>2. r[i] = e[i - m] /\ r[j] = e[j - m]
    BY <1>2, <1>6
  <2>3. QED
    BY <1>1, <2>1, <2>2 DEF InOrder
<1>7. QED
  BY <1>2, <1>4, <1>5, <1>6

\* What a DM is does not change.
LEMMA ToldStays ==
    ASSUME StoreInv, StoreStep, NEW d \in Conn, NEW a, FromOf(d)' = FromOf(d)
    PROVE  \A e \in Entry(MsgId) : e \in Told(d, a)' <=> e \in Told(d, a)
<1>1. MsgId \subseteq MsgId' /\ \A i \in MsgId : minted'[i] = minted[i]
  BY MintedStays
<1>2. \A e \in Entry(MsgId) : e[2] \in MsgId /\ e \in Entry(MsgId')
  BY <1>1 DEF Entry
<1>3. QED
  BY <1>1, <1>2 DEF Told

\* A step that puts more on the outbox of a session, in order and behind what it
\* was told and before what is queued.
LEMMA ToldMore ==
    ASSUME StoreInv, OutboxInv, StoreStep, NEW d \in Conn, NEW a \in DmAddr,
           ToldInOrder(d, a), FromOf(d)' = FromOf(d),
           Identified(d)' => Identified(d),
           Identified(d)' /\ seen[d].narrowed => seen'[d].narrowed,
           \A k \in Ids(buffers'[a]) : k \in Ids(buffers[a]) \/ k = NextId,
           NEW e \in Seq(Entry(MsgId')), outbox'[d] = outbox[d] \o e,
           InOrder(e, Told(d, a)'),
           Identified(d)' /\ ~seen'[d].narrowed =>
           \A y \in Ids(e) : y \in Told(d, a)' =>
              /\ \A x \in Ids(outbox[d]) : x \in Told(d, a) => x[2] < y[2]
              /\ a[2] \in Alias => \A k \in Ids(buffers'[a]) :
                                      minted'[k].from # FromOf(d)' => y[2] < k
    PROVE  ToldInOrder(d, a)'
<1> SUFFICES ASSUME Identified(d)', ~seen'[d].narrowed
             PROVE  /\ InOrder(outbox'[d], Told(d, a)')
                    /\ a[2] \in Alias =>
                         \A x \in Ids(outbox'[d]), k \in Ids(buffers'[a]) :
                            x \in Told(d, a)' /\ minted'[k].from # FromOf(d)' => x[2] < k
  BY DEF ToldInOrder
<1>1. /\ InOrder(outbox[d], Told(d, a))
      /\ a[2] \in Alias =>
           \A x \in Ids(outbox[d]) \cap Told(d, a), k \in Ids(buffers[a]) :
              minted[k].from # FromOf(d) => x[2] < k
  BY DEF ToldInOrder
<1>2. \A x \in Entry(MsgId) : x \in Told(d, a)' <=> x \in Told(d, a)
  BY ToldStays
<1>3. /\ MsgId \subseteq MsgId' /\ \A i \in MsgId : minted'[i] = minted[i]
      /\ Len(minted) \in Nat
  BY MintedStays
<1>4. Entry(MsgId) \subseteq Entry(MsgId')
  BY <1>3 DEF Entry
<1>5. outbox[d] \in Seq(Entry(MsgId)) /\ \A x \in Ids(outbox[d]) : x \in Entry(MsgId)
  BY DEF OutboxInv, Ids
<1>6. outbox[d] \in Seq(Entry(MsgId'))
  BY <1>4, <1>5, SeqMonotonic
<1> DEFINE T == Told(d, a)'
<1>7. InOrder(outbox[d], T)
  BY <1>1, <1>2, <1>5 DEF InOrder, Ids
<1>8. \A x \in Ids(outbox[d]), y \in Ids(e) : x \in T /\ y \in T => x[2] < y[2]
  BY <1>2, <1>5
<1>9. InOrder(e, T)
  OBVIOUS
<1>10. InOrder(outbox'[d], T)
  <2> DEFINE F == Entry(MsgId')
  <2>1. outbox[d] \in Seq(F) /\ e \in Seq(F)
    BY <1>6
  <2> HIDE DEF T, F
  <2>2. QED
    BY <1>7, <1>8, <1>9, <2>1, InOrderConcat
<1>11. ASSUME a[2] \in Alias, NEW x \in Ids(outbox'[d]), NEW k \in Ids(buffers'[a]),
              x \in T, minted'[k].from # FromOf(d)'
       PROVE  x[2] < k
  <2>1. CASE x \in Ids(e)
    BY <1>11, <2>1
  <2>2. CASE x \in Ids(outbox[d])
    <3>1. x \in Entry(MsgId) /\ x \in Told(d, a) /\ x[2] \in MsgId
      BY <1>2, <1>5, <1>11, <2>2 DEF Entry
    <3>2. CASE k \in Ids(buffers[a])
      <4>1. k \in MsgId
        BY <3>2, QueueIds DEF Addr
      <4>2. minted[k].from # FromOf(d)
        BY <1>3, <1>11, <4>1
      <4>3. QED
        BY <1>1, <1>11, <2>2, <3>1, <3>2, <4>2
    <3>3. CASE k = NextId
      BY <1>3, <3>1, <3>3 DEF NextId, MsgId
    <3>4. QED
      BY <3>2, <3>3
  <2>3. x \in Ids(outbox[d]) \/ x \in Ids(e)
    <3>1. PICK i \in DOMAIN (outbox[d] \o e) : x = (outbox[d] \o e)[i]
      BY <1>11 DEF Ids
    <3>2. QED
      BY <1>6, <3>1 DEF Ids
  <2>4. QED
    BY <2>1, <2>2, <2>3
<1>12. QED
  BY <1>10, <1>11

\* A queue of rising ids is handed over in order.
LEMMA RisingMessages ==
    ASSUME NEW q \in Seq(MsgId), Rising(q), NEW T PROVE InOrder(Messages(q), T)
<1>1. PICK e, n : e = Messages(q) /\ n = Len(q)
  OBVIOUS
<1>2. /\ Len(e) = n /\ n \in Nat /\ \A i \in 1..n : e[i][2] = q[i]
  BY <1>1 DEF Messages, Message
<1>3. QED
  BY <1>1, <1>2 DEF InOrder, Rising

\* One queue after the other.
LEMMA MessagesConcat ==
    ASSUME NEW N, NEW p \in Seq(N), NEW q \in Seq(N)
    PROVE  Messages(p \o q) = Messages(p) \o Messages(q)
<1>1. PICK m, n, r : m = Len(p) /\ n = Len(q) /\ r = p \o q
  OBVIOUS
<1>2. /\ m \in Nat /\ n \in Nat /\ Len(r) = m + n /\ r \in Seq(N)
      /\ \A i \in 1..m : r[i] = p[i]
      /\ \A i \in (m + 1)..(m + n) : r[i] = q[i - m] /\ i - m \in 1..n
  BY <1>1, ConcatMeans
<1>3. PICK a, b, e : a = Messages(p) /\ b = Messages(q) /\ e = Messages(r)
  OBVIOUS
<1>4. /\ a \in Seq(Entry(N)) /\ b \in Seq(Entry(N)) /\ e \in Seq(Entry(N))
      /\ Len(a) = m /\ Len(b) = n /\ Len(e) = m + n
      /\ \A i \in 1..m : a[i] = Message(p[i])
      /\ \A i \in 1..n : b[i] = Message(q[i])
      /\ \A i \in 1..(m + n) : e[i] = Message(r[i])
  <2>1. a \in Seq(Entry(N)) /\ b \in Seq(Entry(N)) /\ e \in Seq(Entry(N))
    BY <1>2, <1>3, EntryTypes
  <2>2. DOMAIN p = 1..m /\ DOMAIN q = 1..n /\ DOMAIN r = 1..(m + n)
    BY <1>1, <1>2
  <2>3. QED
    BY <1>2, <1>3, <2>1, <2>2 DEF Messages
<1>5. PICK f : f = a \o b
  OBVIOUS
<1>6. /\ f \in Seq(Entry(N)) /\ Len(f) = m + n
      /\ \A i \in 1..m : f[i] = a[i]
      /\ \A i \in (m + 1)..(m + n) : f[i] = b[i - m]
  <2>1. PICK S : S = Entry(N)
    OBVIOUS
  <2>2. a \in Seq(S) /\ b \in Seq(S) /\ m = Len(a) /\ n = Len(b)
    BY <1>4, <2>1
  <2>3. /\ m \in Nat /\ n \in Nat /\ f \in Seq(S) /\ Len(f) = m + n
        /\ \A i \in 1..m : f[i] = a[i]
        /\ \A i \in (m + 1)..(m + n) : f[i] = b[i - m] /\ i - m \in 1..n
    BY <1>5, <2>2, ConcatMeans
  <2>4. QED
    BY <2>1, <2>3
<1>7. ASSUME NEW i \in 1..(m + n) PROVE e[i] = f[i]
  <2>1. CASE i \in 1..m
    BY <1>2, <1>4, <1>6, <2>1
  <2>2. CASE i \in (m + 1)..(m + n)
    BY <1>2, <1>4, <1>6, <2>2
  <2>3. QED
    BY <1>2, <2>1, <2>2
<1>8. e = f
  BY <1>2, <1>4, <1>6, <1>7
<1>9. QED
  BY <1>1, <1>3, <1>5, <1>8

\* What is drained is of the address, and rising.
LEMMA DrainedRises ==
    ASSUME StoreInv, NEW c, NEW a \in Addr
    PROVE  /\ Drained(c, a) \in Seq(MsgId) /\ Rising(Drained(c, a))
           /\ \A k \in Ids(Drained(c, a)) :
                 k \in Ids(buffers[a]) /\ k \in MsgId /\ minted[k].to = a
<1>1. PICK q, A : q = buffers[a] /\ A = Accepted(c, a)
  OBVIOUS
<1>2. q \in Seq(Nat) /\ Rising(q)
  BY <1>1 DEF StoreInv, StoreTypeOK, QueuesOrderly, Orderly, Rising
<1>3. Rising(Select(q, A)) /\ Ids(Select(q, A)) \subseteq Ids(q)
  BY <1>2, SelectRising, SelectIds
<1>4. QED
  BY <1>1, <1>3, QueueTypes, QueueIds DEF Drained

\* The entries of messages, and whether others sent them to a.
LEMMA MessagesTold ==
    ASSUME NEW q \in Seq(MsgId), NEW d \in Conn, NEW a
    PROVE  /\ Messages(q) \in Seq(Entry(MsgId))
           /\ \A y \in Ids(Messages(q)) :
                 /\ y[2] \in Ids(q) /\ y[2] \in MsgId
                 /\ y \in Told(d, a) => /\ minted[y[2]].to = a
                                        /\ minted[y[2]].from # FromOf(d)
<1>1. Messages(q) \in Seq(Entry(MsgId))
  BY EntryTypes
<1>2. \A y \in Ids(Messages(q)) : y[2] \in Ids(q)
  BY DEF Ids, Messages, Message
<1>3. \A k \in Ids(q) : k \in MsgId
  BY DEF Ids
<1>4. QED
  BY <1>1, <1>2, <1>3 DEF Told

\* What FanOut puts on one outbox.
Share(i, d, targets, watchers) ==
    (IF d \in targets THEN <<Message(i)>> ELSE <<>>)
        \o (IF d \in watchers THEN <<Wire(i)>> ELSE <<>>)

\* At most one message and a copy of it.
LEMMA ShareTold ==
    ASSUME NEW N, NEW n \in N, NEW targets, NEW watchers, NEW c, NEW T,
           T \subseteq {e \in Entry(N) : e[1] = "message"},
           NEW e, e = Share(n, c, targets, watchers)
    PROVE  /\ e \in Seq(Entry(N)) /\ InOrder(e, T)
           /\ \A y \in Ids(e) : y \in T => y = Message(n) /\ c \in targets
<1>1. PICK x, w : x = Message(n) /\ w = Wire(n)
  OBVIOUS
<1>2. x \in Entry(N) /\ w \in Entry(N) /\ w \notin T
  BY <1>1 DEF Message, Wire, Entry
<1>3. e = IF c \in targets THEN (IF c \in watchers THEN <<x, w>> ELSE <<x>>)
                           ELSE (IF c \in watchers THEN <<w>> ELSE <<>>)
  BY <1>1 DEF Share
<1>4. CASE e = <<x, w>> /\ c \in targets
  <2>1. /\ e \in Seq(Entry(N)) /\ InOrder(e, T)
        /\ \A y \in Ids(e) : y = x \/ y = w
    BY ONLY <1>2, <1>4 DEF InOrder, Ids
  <2>2. QED
    BY <1>1, <1>2, <1>4, <2>1
<1>5. CASE e = <<x>> /\ c \in targets
  <2>1. /\ e \in Seq(Entry(N)) /\ InOrder(e, T)
        /\ \A y \in Ids(e) : y = x
    BY ONLY <1>2, <1>5 DEF InOrder, Ids
  <2>2. QED
    BY <1>1, <1>5, <2>1
<1>6. CASE e = <<w>>
  <2>1. /\ e \in Seq(Entry(N)) /\ InOrder(e, T)
        /\ \A y \in Ids(e) : y = w
    BY ONLY <1>2, <1>6 DEF InOrder, Ids
  <2>2. QED
    BY <1>2, <2>1
<1>7. CASE e = <<>>
  BY <1>7 DEF InOrder, Ids
<1>8. QED
  BY <1>3, <1>4, <1>5, <1>6, <1>7

\* A message just sent or published is told behind all that was told before; to an
\* alias it is told live only when nothing of others waits under it.
LEMMA ToldMint ==
    ASSUME RegistryInv, StoreInv, OutboxInv, StoreStep, SeenInv, NoneStranded,
           NEW c \in Conn, conn[c].sid # None, NEW d \in Conn, NEW a \in DmAddr,
           ToldInOrder(d, a), conn' = conn, seen' = seen,
           \A k \in Ids(buffers'[a]) : k \in Ids(buffers[a]) \/ k = NextId,
           NEW b \in Addr, NEW n, Mint(c, b, TRUE, n),
           NEW targets, outbox' = FanOut(NextId, targets, Watchers(c, b)),
           b = a => targets = DmTargets(c, a)
                    /\ (targets # {} => buffers' = buffers)
    PROVE  ToldInOrder(d, a)'
<1>1. FromOf(d)' = FromOf(d) /\ (Identified(d)' <=> Identified(d))
      /\ seen'[d].narrowed = seen[d].narrowed
  BY DEF FromOf, Identified
<1>2. /\ MsgId \subseteq MsgId' /\ NextId \in MsgId' /\ Len(minted) \in Nat
      /\ \A i \in MsgId : minted'[i] = minted[i]
      /\ minted'[NextId].to = b
  BY MintedStays DEF Mint, MsgId, NextId, StoreInv, StoreTypeOK
<1>3. PICK e : e = Share(NextId, d, targets, Watchers(c, b))
  OBVIOUS
<1>4. /\ e \in Seq(Entry(MsgId')) /\ InOrder(e, Told(d, a)')
      /\ \A y \in Ids(e) : y \in Told(d, a)' => y = Message(NextId) /\ d \in targets
  <2> DEFINE N == MsgId'
             T == Told(d, a)'
  <2>1. NextId \in N /\ T \subseteq {x \in Entry(N) : x[1] = "message"}
    BY <1>2 DEF Told
  <2> HIDE DEF N, T
  <2>2. /\ e \in Seq(Entry(N)) /\ InOrder(e, T)
        /\ \A y \in Ids(e) : y \in T => y = Message(NextId) /\ d \in targets
    BY <1>3, <2>1, ShareTold
  <2>3. QED
    BY <2>2 DEF N, T
<1>5. outbox'[d] = outbox[d] \o e \/ outbox'[d] = outbox[d]
  BY <1>3 DEF FanOut, Put, Share
<1>6. CASE outbox'[d] = outbox[d]
  <2>1. /\ <<>> \in Seq(Entry(MsgId')) /\ outbox'[d] = outbox[d] \o <<>>
        /\ InOrder(<<>>, Told(d, a)') /\ Ids(<<>>) = {}
    BY <1>6 DEF OutboxInv, InOrder, Ids
  <2>2. QED
    BY <1>1, <2>1, ToldMore
<1>7. CASE outbox'[d] = outbox[d] \o e
  <2>1. ASSUME Identified(d)', ~seen'[d].narrowed, NEW y \in Ids(e), y \in Told(d, a)'
        PROVE  /\ \A x \in Ids(outbox[d]) : x \in Told(d, a) => x[2] < y[2]
               /\ a[2] \in Alias => \A k \in Ids(buffers'[a]) :
                                       minted'[k].from # FromOf(d)' => y[2] < k
    <3>1. y[2] = NextId /\ d \in targets
      BY <1>4, <2>1 DEF Message
    <3>2. b = a
      BY <1>2, <2>1, <3>1 DEF Told
    <3>3. \A x \in Ids(outbox[d]) : x \in Told(d, a) => x[2] < y[2]
      BY <1>2, <3>1 DEF Told, Entry, MsgId, NextId
    <3>4. ASSUME a[2] \in Alias, NEW k \in Ids(buffers'[a])
          PROVE  minted'[k].from = FromOf(d)'
      <4>1. d \in DmTargets(c, a) /\ buffers' = buffers
        BY <3>1, <3>2
      <4>2. Names(a, d)
        BY <4>1 DEF DmTargets, Names
      <4>3. Named(a, d) /\ SurelyDrained(a)
        BY <3>4, <4>2, NamesMeans, NamesAssumption DEF SurelyDrained
      <4>4. k \in Ids(buffers[a])
        BY <3>4, <4>1
      <4>5. minted[k].from = FromOf(d)
        BY <1>1, <2>1, <4>3, <4>4 DEF NoneStranded
      <4>6. k \in MsgId
        BY <4>4, QueueIds DEF Addr
      <4>7. QED
        BY <1>1, <1>2, <4>5, <4>6
    <3>5. QED
      BY <3>3, <3>4
  <2>2. QED
    BY <1>1, <1>4, <1>7, <2>1, ToldMore
<1>8. QED
  BY <1>5, <1>6, <1>7

\* What waited under an alias is told to who claims it, behind what it was told
\* when it held the alias before.
LEMMA ToldDrain ==
    ASSUME RegistryInv, StoreInv, OutboxInv, StoreStep,
           NEW d \in Conn, NEW a \in DmAddr, ToldInOrder(d, a), UNCHANGED minted,
           FromOf(d)' = FromOf(d), Identified(d)' <=> Identified(d),
           seen'[d].narrowed = seen[d].narrowed,
           NEW b \in DmAddr, b[2] \in Alias, buffers'[b] = <<>>,
           b # a => buffers'[a] = buffers[a],
           outbox'[d] = outbox[d] \o Messages(Drained(d, b))
    PROVE  ToldInOrder(d, a)'
<1>1. PICK q : q = Drained(d, b)
  OBVIOUS
<1>2. /\ q \in Seq(MsgId) /\ Rising(q) /\ b \in Addr
      /\ \A k \in Ids(q) : k \in Ids(buffers[b]) /\ k \in MsgId /\ minted[k].to = b
  BY <1>1, DrainedRises DEF Addr
<1>3. MsgId' = MsgId /\ Told(d, a)' = Told(d, a)
  BY DEF MsgId, Told
<1>4. /\ Messages(q) \in Seq(Entry(MsgId')) /\ InOrder(Messages(q), Told(d, a)')
      /\ \A y \in Ids(Messages(q)) :
            /\ y[2] \in Ids(q)
            /\ y \in Told(d, a)' => /\ minted[y[2]].to = a
                                    /\ minted[y[2]].from # FromOf(d)
  BY <1>2, <1>3, MessagesTold, RisingMessages
<1>5. \A k \in Ids(buffers'[a]) : k \in Ids(buffers[a]) \/ k = NextId
  BY DEF Ids
<1>6. ASSUME Identified(d)', ~seen'[d].narrowed,
             NEW y \in Ids(Messages(q)), y \in Told(d, a)'
      PROVE  /\ \A x \in Ids(outbox[d]) : x \in Told(d, a) => x[2] < y[2]
             /\ a[2] \in Alias => \A k \in Ids(buffers'[a]) :
                                     minted'[k].from # FromOf(d)' => y[2] < k
  <2>1. a = b /\ y[2] \in Ids(buffers[a]) /\ minted[y[2]].from # FromOf(d)
    BY <1>2, <1>4, <1>6
  <2>2. Ids(buffers'[a]) = {}
    BY <2>1 DEF Ids
  <2>3. \A x \in Ids(outbox[d]) : x \in Told(d, a) => x[2] < y[2]
    BY <1>6, <2>1 DEF ToldInOrder
  <2>4. QED
    BY <2>2, <2>3
<1>7. outbox'[d] = outbox[d] \o Messages(q)
  BY <1>1
<1>8. QED
  BY <1>4, <1>5, <1>6, <1>7, ToldMore

\* What hello drains is told in order, the queue of the home before that of the sid.
LEMMA ToldAtHello ==
    ASSUME StoreInv, NEW d \in Conn, NEW s \in Sid, NEW h \in Home, NEW a \in DmAddr,
           UNCHANGED minted, outbox[d] = <<>>,
           \/ outbox'[d] = <<>>
           \/ outbox'[d] = Messages(Drained(d, <<h, None>>))
           \/ outbox'[d] = Messages(Drained(d, <<h, None>>) \o Drained(d, <<h, s>>))
    PROVE  ToldInOrder(d, a)'
<1>1. PICK p, q, T : /\ p = Drained(d, <<h, None>>) /\ q = Drained(d, <<h, s>>)
                     /\ T = Told(d, a)'
  OBVIOUS
<1>2. /\ <<h, None>> \in Addr /\ <<h, s>> \in Addr /\ s # None
      /\ None \notin Alias /\ s \notin Alias
  BY NamesAssumption DEF Addr, DmAddr
<1>3. /\ p \in Seq(MsgId) /\ Rising(p) /\ \A k \in Ids(p) : minted[k].to = <<h, None>>
      /\ q \in Seq(MsgId) /\ Rising(q) /\ \A k \in Ids(q) : minted[k].to = <<h, s>>
  BY <1>1, <1>2, DrainedRises
<1>4. T \subseteq {e \in Entry(MsgId) : minted[e[2]].to = a}
  BY <1>1 DEF Told, MsgId
<1>5. /\ Messages(p) \in Seq(Entry(MsgId)) /\ Messages(q) \in Seq(Entry(MsgId))
      /\ \A y \in Ids(Messages(p)) : y[2] \in Ids(p)
      /\ \A y \in Ids(Messages(q)) : y[2] \in Ids(q)
  BY <1>3, MessagesTold
<1>6. /\ \A y \in Ids(Messages(p)) : y \in T => a = <<h, None>>
      /\ \A y \in Ids(Messages(q)) : y \in T => a = <<h, s>>
  BY <1>3, <1>4, <1>5
<1>7. InOrder(Messages(p), T) /\ InOrder(Messages(q), T)
  BY <1>3, RisingMessages
<1>8. PICK r : r = Messages(p) \o Messages(q)
  OBVIOUS
<1>9. InOrder(r, T)
  <2>1. \A x \in Ids(Messages(p)), y \in Ids(Messages(q)) :
           x \in T /\ y \in T => x[2] < y[2]
    BY <1>2, <1>6
  <2> DEFINE E == Entry(MsgId)
  <2>2. Messages(p) \in Seq(E) /\ Messages(q) \in Seq(E)
    BY <1>5
  <2> HIDE DEF E
  <2>3. QED
    BY <1>7, <1>8, <2>1, <2>2, InOrderConcat
<1>10. a[2] \in Alias => \A y \in Ids(r) : y \notin T
  <2>1. a[2] \in Alias => a # <<h, None>> /\ a # <<h, s>>
    BY <1>2
  <2>2. \A y \in Ids(r) : y \in Ids(Messages(p)) \/ y \in Ids(Messages(q))
    BY <1>5, <1>8 DEF Ids
  <2>3. QED
    BY <1>6, <2>1, <2>2
<1>11. CASE outbox'[d] = <<>>
  BY <1>11 DEF ToldInOrder, InOrder, Ids
<1>12. CASE outbox'[d] = Messages(p)
  BY <1>1, <1>2, <1>6, <1>7, <1>12 DEF ToldInOrder
<1>13. CASE outbox'[d] = Messages(p \o q)
  <2>1. outbox'[d] = r
    BY <1>3, <1>8, <1>13, MessagesConcat
  <2>2. QED
    BY <1>1, <1>9, <1>10, <2>1 DEF ToldInOrder
<1>14. QED
  BY <1>1, <1>11, <1>12, <1>13

\* Every step tells each session the DMs of an address in order, whatever fails.
LEMMA FifoNext ==
    ASSUME RegistryInv, StoreInv, OutboxInv, SeenInv, NoneStranded, FifoInv, [Next]_vars
    PROVE  FifoInv'
<1>1. /\ conn \in [Conn -> ConnState] /\ StoreStep
      /\ \A x \in Conn : conn'[x].sid # None /\ seen[x].narrowed => seen'[x].narrowed
  BY StepsAreStoreSteps, SeenStep DEF RegistryInv, RegistryTypeOK
<1>2. outbox = [x \in Conn |-> outbox[x]]
  BY DEF OutboxInv
<1> SUFFICES ASSUME NEW d \in Conn PROVE Untold(d)' /\ \A a \in DmAddr : ToldInOrder(d, a)'
  BY DEF FifoInv
<1> DEFINE Goal == Untold(d)' /\ \A a \in DmAddr : ToldInOrder(d, a)'
<1>3. Untold(d) /\ \A a \in DmAddr : ToldInOrder(d, a)
  BY DEF FifoInv
<1>4. CASE Restart
  BY <1>4 DEF Restart, FreshConn, Untold, ToldInOrder, Identified
<1>5. ASSUME ~Restart, NEW a \in DmAddr, NEW k \in Ids(buffers'[a])
      PROVE  k \in Ids(buffers[a]) \/ k = NextId
  BY <1>5, ContentStep
<1>6. ASSUME ~Restart, outbox'[d] = outbox[d], conn'[d].sid = conn[d].sid,
             conn'[d].home = conn[d].home, conn'[d].open = conn[d].open
      PROVE  Goal
  <2>1. FromOf(d)' = FromOf(d) /\ (Identified(d)' <=> Identified(d))
    BY <1>6 DEF FromOf, Identified
  <2>2. Untold(d)'
    BY <1>3, <1>6, <2>1 DEF Untold
  <2>3. ASSUME NEW a \in DmAddr PROVE ToldInOrder(d, a)'
    <3>1. /\ <<>> \in Seq(Entry(MsgId')) /\ outbox'[d] = outbox[d] \o <<>>
          /\ InOrder(<<>>, Told(d, a)') /\ Ids(<<>>) = {}
      BY <1>6 DEF OutboxInv, InOrder, Ids
    <3>2. Identified(d)' /\ seen[d].narrowed => seen'[d].narrowed
      BY <1>1 DEF Identified
    <3>3. \A k \in Ids(buffers'[a]) : k \in Ids(buffers[a]) \/ k = NextId
      BY <1>5, <1>6
    <3>4. QED
      BY <1>1, <1>3, <2>1, <3>1, <3>2, <3>3, ToldMore
  <2>4. QED
    BY <2>2, <2>3
<1>7. ASSUME ~Restart, outbox'[d] = outbox[d], conn'[d] = conn[d] PROVE Goal
  BY <1>6, <1>7
<1>8. ASSUME conn'[d].sid = None, ~conn'[d].open \/ outbox'[d] = <<>> PROVE Goal
  BY <1>8 DEF Untold, ToldInOrder, Identified
<1>9. ASSUME NEW c \in Conn, NEW q, NEW ids, Hand(c, q, ids)
      PROVE  /\ d # c => outbox'[d] = outbox[d]
             /\ outbox'[d] = outbox[d] \/ outbox'[d] = outbox[d] \o Messages(q)
  BY <1>2, <1>9 DEF Hand, Put
<1>10. ASSUME ~Restart, NEW c \in Conn, Session(c) PROVE Goal
  <2>1. CASE Accept(c)
    <3>1. conn' = [conn EXCEPT ![c] = [FreshConn EXCEPT !.open = TRUE]]
          /\ outbox' = [outbox EXCEPT ![c] = <<>>]
      BY <2>1 DEF Accept
    <3>2. CASE d = c
      BY <1>1, <1>2, <1>8, <3>1, <3>2 DEF FreshConn
    <3>3. CASE d # c
      BY <1>1, <1>2, <1>7, <1>10, <3>1, <3>3
    <3>4. QED
      BY <3>2, <3>3
  <2>2. ASSUME NEW s \in Sid, NEW h \in Home, Hello(c, s, h) \/ HelloDrainFails(c, s, h)
        PROVE  Goal
    <3>1. /\ conn' = [conn EXCEPT ![c] = [conn[c] EXCEPT !.sid = s, !.home = h]]
          /\ conn[c].open /\ conn[c].sid = None /\ minted' = minted
      BY <2>2 DEF Hello, HelloDrainFails, Register, Identified
    <3>2. CASE d # c
      <4>1. outbox'[d] = outbox[d]
        BY <1>9, <2>2, <3>2 DEF Hello, HelloDrainFails
      <4>2. conn'[d] = conn[d]
        BY <1>1, <3>1, <3>2
      <4>3. QED
        BY <1>7, <1>10, <4>1, <4>2
    <3>3. CASE d = c
      <4>1. outbox[d] = <<>>
        BY <1>3, <3>1, <3>3 DEF Untold, Identified
      <4>2. conn'[d].sid # None
        BY <1>1, <3>1, <3>3, NamesAssumption DEF ConnState
      <4>3. PICK p, q : p = Drained(d, <<h, None>>) /\ q = Drained(d, <<h, s>>)
        OBVIOUS
      <4>4. p \in Seq(MsgId) /\ q \in Seq(MsgId) /\ p \o q \in Seq(MsgId)
        <5>1. p \in Seq(MsgId) /\ q \in Seq(MsgId)
          BY <4>3, DrainedRises DEF Addr, DmAddr
        <5>2. QED
          BY <5>1
      <4>5. \/ outbox'[d] = <<>>
            \/ outbox'[d] = <<>> \o Messages(p)
            \/ outbox'[d] = <<>> \o Messages(p \o q)
        BY <1>9, <2>2, <3>3, <4>1, <4>3 DEF Hello, HelloDrainFails
      <4>6. <<>> \o Messages(p) = Messages(p) /\ <<>> \o Messages(p \o q) = Messages(p \o q)
        <5>1. Messages(p) \in Seq(Entry(MsgId)) /\ Messages(p \o q) \in Seq(Entry(MsgId))
          BY <4>4, EntryTypes
        <5>2. QED
          BY <5>1
      <4>7. \A a \in DmAddr : ToldInOrder(d, a)'
        BY <3>1, <4>1, <4>3, <4>5, <4>6, ToldAtHello
      <4>8. QED
        BY <4>2, <4>7 DEF Untold, Identified
    <3>4. QED
      BY <3>2, <3>3
  <2>3. CASE Disconnect(c)
    <3>1. conn' = [conn EXCEPT ![c] = FreshConn] /\ outbox' = outbox
      BY <2>3 DEF Disconnect, mail
    <3>2. CASE d = c
      BY <1>1, <1>8, <3>1, <3>2 DEF FreshConn
    <3>3. CASE d # c
      BY <1>1, <1>7, <1>10, <3>1, <3>3
    <3>4. QED
      BY <3>2, <3>3
  <2>4. CASE WriterFails(c)
    <3>1. conn' = [conn EXCEPT ![c].closed = TRUE] /\ outbox' = outbox
      BY <2>4 DEF WriterFails, mail
    <3>2. /\ conn'[d].sid = conn[d].sid /\ conn'[d].home = conn[d].home
          /\ conn'[d].open = conn[d].open
      BY <1>1, <3>1 DEF ConnState
    <3>3. QED
      BY <1>6, <1>10, <3>1, <3>2
  <2>5. QED
    BY <1>10, <2>1, <2>2, <2>3, <2>4 DEF Session
<1>11. ASSUME ~Restart, NEW c \in Conn, NEW new \in Alias \cup {None},
              SetAlias(c, new) \/ SetAliasDrainFails(c, new)
       PROVE  Goal
  <2> DEFINE r == [conn[c] EXCEPT !.alias = new]
             b == <<conn[c].home, new>>
  <2>1. /\ conn' = [conn EXCEPT ![c] = r] /\ conn[c].sid # None /\ minted' = minted
    BY <1>11 DEF SetAlias, SetAliasDrainFails, TakeAlias, Identified
  <2>2. r.sid = conn[c].sid /\ r.home = conn[c].home /\ r.open = conn[c].open
    BY <1>1, <2>1 DEF ConnState
  <2>3. conn'[d] = IF d = c THEN r ELSE conn[d]
    BY <1>1, <2>1
  <2> HIDE DEF r
  <2>4. /\ conn'[d].sid = conn[d].sid /\ conn'[d].home = conn[d].home
        /\ conn'[d].open = conn[d].open
    BY <2>2, <2>3
  <2>5. CASE outbox'[d] = outbox[d]
    BY <1>6, <1>11, <2>4, <2>5
  <2>6. CASE outbox'[d] # outbox[d]
    <3>1. /\ SetAlias(c, new) /\ new \notin {None, conn[c].alias}
          /\ Hand(c, Drained(c, b), Accepted(c, b)) /\ Drain({b}, {})
      BY <1>11, <2>6 DEF SetAlias, SetAliasDrainFails
    <3>2. d = c /\ outbox'[d] = outbox[d] \o Messages(Drained(d, b))
      BY <1>9, <2>6, <3>1
    <3>3. b \in DmAddr /\ b \in Addr /\ b[2] \in Alias
      BY <2>1, <3>1, IdentifiedFacts DEF DmAddr, Addr
    <3>4. FromOf(d)' = FromOf(d) /\ (Identified(d)' <=> Identified(d)) /\ Untold(d)'
      BY <2>1, <2>4, <3>2 DEF FromOf, Identified, Untold
    <3>5. seen'[d].narrowed = seen[d].narrowed
      <4>1. seen' = Broadcast(seen, None, conn[c].sid, {<<conn[c].sid, conn[c].home, new>>})
        BY <3>1 DEF SetAlias
      <4>2. seen'[d] = seen[d] \/ \E v : seen'[d] = [seen[d] EXCEPT !.view = v]
        BY <4>1 DEF Broadcast
      <4>3. SeenShape(seen[d])
        BY DEF SeenInv
      <4>4. \A v : [seen[d] EXCEPT !.view = v].narrowed = seen[d].narrowed
        BY <4>3, SeenUpdates
      <4>5. QED
        BY <4>2, <4>4
    <3>6. ASSUME NEW a \in DmAddr
          PROVE  buffers'[b] = <<>> /\ (b # a => buffers'[a] = buffers[a])
      BY <3>1, <3>3 DEF Drain, Addr
    <3> HIDE DEF b
    <3>7. \A a \in DmAddr : ToldInOrder(d, a)'
      BY <1>1, <1>3, <2>1, <3>2, <3>3, <3>4, <3>5, <3>6, ToldDrain
    <3>8. QED
      BY <3>4, <3>7
  <2>7. QED
    BY <2>5, <2>6
<1>12. ASSUME ~Restart, NEW c \in Conn, NEW b \in Addr, NEW n, Mint(c, b, TRUE, n),
              NEW targets, outbox' = FanOut(NextId, targets, Watchers(c, b)),
              conn' = conn, seen' = seen, conn[c].sid # None,
              \A x \in targets : conn[x].sid # None,
              b \in DmAddr => /\ targets = DmTargets(c, b)
                              /\ targets # {} => buffers' = buffers
       PROVE  Goal
  <2>1. \A a \in DmAddr : ToldInOrder(d, a)'
    BY <1>1, <1>3, <1>5, <1>12, ToldMint
  <2>2. d \in Watchers(c, b) => conn[d].sid # None
    BY NamesAssumption
       DEF Watchers, RegistryInv, RegistryExact, ConnectionsExact
  <2>3. CASE conn[d].sid # None
    BY <1>12, <2>1, <2>3 DEF Untold, Identified
  <2>4. CASE conn[d].sid = None
    <3>1. outbox'[d] = Put(d, <<>> \o <<>>)
      BY <1>12, <2>2, <2>4 DEF FanOut
    <3>2. outbox'[d] = outbox[d]
      BY <3>1 DEF Put, OutboxInv
    <3>3. QED
      BY <1>3, <1>12, <2>1, <3>2 DEF Untold, Identified
  <2>5. QED
    BY <2>3, <2>4
<1>13. ASSUME ~Restart, NEW c \in Conn, NEW t \in Topic, NEW r \in Replays,
              Subscribe(c, t, r)
       PROVE  Goal
  <2> DEFINE replay == IF r = 0 THEN <<>> ELSE LastN(buffers[t], r)
  <2>1. /\ conn' = [conn EXCEPT ![c].subscriptions = @ \cup {t}]
        /\ outbox' = [outbox EXCEPT ![c] = Put(c, Messages(replay))]
        /\ minted' = minted /\ buffers' = buffers /\ conn[c].sid # None
    BY <1>13 DEF Subscribe, store, Identified
  <2>2. /\ conn'[d].sid = conn[d].sid /\ conn'[d].home = conn[d].home
        /\ conn'[d].open = conn[d].open
    BY <1>1, <2>1 DEF ConnState
  <2>3. replay \in Seq(MsgId) /\ t \in Addr
    BY QueueTypes, BoundsAssumption DEF Addr
  <2>4. \A k \in Ids(replay) : minted[k].to = t
    <3>1. \A k \in Ids(buffers[t]) : minted[k].to = t
      BY <2>3, QueueIds
    <3>2. r \in Nat
      BY BoundsAssumption
    <3>3. Ids(replay) \subseteq Ids(buffers[t])
      <4>1. CASE r = 0
        BY <4>1 DEF Ids
      <4>2. CASE r # 0
        <5>1. PICK q, e, S : q = buffers[t] /\ e = LastN(q, r) /\ S = MsgId
          OBVIOUS
        <5>2. q \in Seq(S)
          BY <2>3, <5>1, QueueTypes
        <5>3. /\ e \in Seq(S) /\ Len(e) <= Len(q)
              /\ \A k \in 1..Len(e) : e[k] = q[Len(q) - Len(e) + k]
          BY <3>2, <5>1, <5>2, LastNMeans
        <5>4. \A k \in 1..Len(e) : Len(q) - Len(e) + k \in 1..Len(q)
          BY <5>2, <5>3
        <5>5. DOMAIN e = 1..Len(e) /\ DOMAIN q = 1..Len(q)
          BY <5>2, <5>3
        <5>6. Ids(e) \subseteq Ids(q)
          BY <5>3, <5>4, <5>5 DEF Ids
        <5>7. replay = e
          BY <4>2, <5>1
        <5>8. QED
          BY <5>1, <5>6, <5>7
      <4>3. QED
        BY <4>1, <4>2
    <3>4. QED
      BY <3>1, <3>3
  <2> HIDE DEF replay
  <2>5. CASE outbox'[d] = outbox[d]
    BY <1>6, <1>13, <2>2, <2>5
  <2>6. CASE outbox'[d] # outbox[d]
    <3>1. d = c /\ outbox'[d] = outbox[d] \o Messages(replay)
      BY <1>2, <2>1, <2>6 DEF Put
    <3>2. FromOf(d)' = FromOf(d) /\ (Identified(d)' <=> Identified(d)) /\ Untold(d)'
      BY <2>1, <2>2, <3>1 DEF FromOf, Identified, Untold
    <3>3. ASSUME NEW a \in DmAddr PROVE ToldInOrder(d, a)'
      <4>1. a # t
        BY NamesAssumption
      <4>2. MsgId' = MsgId /\ Told(d, a)' = Told(d, a)
        BY <2>1, <3>2 DEF MsgId, Told
      <4>3. /\ Messages(replay) \in Seq(Entry(MsgId'))
            /\ \A y \in Ids(Messages(replay)) : y \notin Told(d, a)'
        BY <2>3, <2>4, <4>1, <4>2, MessagesTold
      <4>4. InOrder(Messages(replay), Told(d, a)')
        BY <4>3 DEF InOrder, Ids
      <4>5. \A k \in Ids(buffers'[a]) : k \in Ids(buffers[a]) \/ k = NextId
        BY <2>1
      <4>6. Identified(d)' /\ seen[d].narrowed => seen'[d].narrowed
        BY <1>1 DEF Identified
      <4>7. QED
        BY <1>1, <1>3, <3>1, <3>2, <4>3, <4>4, <4>5, <4>6, ToldMore
    <3>4. QED
      BY <3>2, <3>3
  <2>7. QED
    BY <2>5, <2>6
<1>14. ASSUME ~Restart, NEW c \in Conn, Request(c) PROVE Goal
  <2>1. ASSUME NEW a \in DmAddr, Send(c, a) PROVE Goal
    <3>1. /\ Mint(c, a, TRUE, Cardinality(DmTargets(c, a)))
          /\ outbox' = FanOut(NextId, DmTargets(c, a), Watchers(c, a))
          /\ conn' = conn /\ seen' = seen /\ conn[c].sid # None
          /\ DmTargets(c, a) # {} => buffers' = buffers
      BY <2>1 DEF Send, Identified, store
    <3>2. \A x \in DmTargets(c, a) : conn[x].sid # None
      BY NamesMeans DEF DmTargets, Names, Named
    <3>3. QED
      BY <1>12, <1>14, <3>1, <3>2 DEF Addr
  <2>2. ASSUME NEW t \in Topic, Publish(c, t) PROVE Goal
    <3>1. /\ Mint(c, t, TRUE, Cardinality(TopicTargets(c, t)))
          /\ outbox' = FanOut(NextId, TopicTargets(c, t), Watchers(c, t))
          /\ conn' = conn /\ seen' = seen /\ conn[c].sid # None
      BY <2>2 DEF Publish, Identified
    <3>2. \A x \in TopicTargets(c, t) : conn[x].sid # None
      <4>1. topic_subs[t] \subseteq Sid
        BY DEF RegistryInv, RegistryTypeOK
      <4>2. QED
        BY <4>1, NamesAssumption
           DEF TopicTargets, RegistryInv, RegistryExact, ConnectionsExact
    <3>3. t \notin DmAddr /\ t \in Addr
      BY NamesAssumption DEF Addr
    <3>4. QED
      BY <1>12, <1>14, <3>1, <3>2, <3>3
  <2>3. CASE \/ \E a \in DmAddr : SendFlushFails(c, a)
             \/ \E t \in Topic : PublishFlushFails(c, t)
             \/ ListPeers(c)
    BY <1>7, <1>14, <2>3 DEF SendFlushFails, PublishFlushFails, ListPeers, mail
  <2>4. CASE \E f \in DmFilters : SetDmFilter(c, f)
    <3>1. /\ conn'[d].sid = conn[d].sid /\ conn'[d].home = conn[d].home
          /\ conn'[d].open = conn[d].open /\ outbox' = outbox
      BY <1>1, <2>4 DEF SetDmFilter, ConnState, mail
    <3>2. QED
      BY <1>6, <1>14, <3>1
  <2>5. CASE Unwatch(c) \/ \E w \in WireFilters : Watch(c, w)
    <3>1. /\ conn'[d].sid = conn[d].sid /\ conn'[d].home = conn[d].home
          /\ conn'[d].open = conn[d].open /\ outbox' = outbox
      BY <1>1, <2>5 DEF Watch, Unwatch, ConnState, mail
    <3>2. QED
      BY <1>6, <1>14, <3>1
  <2>6. CASE \E t \in Topic : Unsubscribe(c, t)
    <3>1. /\ conn'[d].sid = conn[d].sid /\ conn'[d].home = conn[d].home
          /\ conn'[d].open = conn[d].open /\ outbox' = outbox
      BY <1>1, <2>6 DEF Unsubscribe, ConnState, mail
    <3>2. QED
      BY <1>6, <1>14, <3>1
  <2>7. QED
    BY <1>11, <1>13, <1>14, <2>1, <2>2, <2>3, <2>4, <2>5, <2>6 DEF Request
<1>15. CASE UNCHANGED vars /\ ~Restart
  BY <1>7, <1>15 DEF vars, mail
<1>16. QED
  BY <1>4, <1>10, <1>14, <1>15 DEF Next

\* All four hold at the start.
LEMMA FifoInit == Init => OutboxInv /\ SeenInv /\ NoneStranded /\ FifoInv
<1> SUFFICES ASSUME Init PROVE OutboxInv /\ SeenInv /\ NoneStranded /\ FifoInv
  OBVIOUS
<1>1. /\ minted = <<>> /\ Len(minted) = 0
      /\ seen = [c \in Conn |-> FreshSeen] /\ outbox = [c \in Conn |-> <<>>]
      /\ \A c \in Conn : conn[c] = FreshConn
  BY DEF Init
<1>2. OutboxInv
  BY <1>1 DEF OutboxInv
<1>3. SeenInv
  BY <1>1, FreshSeenShape DEF SeenInv, SeenShape, FreshConn
<1>4. NoneStranded
  BY <1>1 DEF NoneStranded, Named, FreshConn
<1>5. FifoInv
  BY <1>1 DEF FifoInv, Untold, ToldInOrder, Identified, FreshConn
<1>6. QED
  BY <1>2, <1>3, <1>4, <1>5

\* A session that never filtered is handed the DMs of an address in the order they
\* were sent, queued ones before live ones, whatever fails and restarts (DmFifo).
THEOREM DmsComeInOrder == Spec => []DmFifo
<1>1. Init => OutboxInv /\ SeenInv /\ NoneStranded /\ FifoInv
  BY FifoInit
<1>2. RegistryInv /\ StoreInv /\ OutboxInv /\ SeenInv /\ NoneStranded /\ FifoInv
      /\ [Next]_vars => OutboxInv' /\ SeenInv' /\ NoneStranded' /\ FifoInv'
  BY OutboxNext, SeenStep, NoneStrandedNext, FifoNext
<1>3. QED
  BY <1>1, <1>2, FifoMeans, RegistryInit, RegistryNext, StoreInit, StoreNext, PTL
     DEF Spec

-------------------------------------------------------------------------------
(***************************************************************************)
(* Presence.  The sessions, read off the Connections alone.                *)
(***************************************************************************)
Info(d) == <<conn[d].sid, conn[d].home, conn[d].alias>>
Roster == {Info(d) : d \in {d \in Conn : conn[d].sid # None}}

\* list_peers answers with the roster.
LEMMA SessionsAreRoster == RegistryInv => Sessions = Roster
<1> SUFFICES ASSUME RegistryInv PROVE Sessions = Roster
  OBVIOUS
<1>1. ASSUME NEW p \in Sid \X Home, p[1] \in by_home[p[2]], connections[p[1]] # None
      PROVE  <<p[1], p[2], conn[connections[p[1]]].alias>> \in Roster
  <2>1. PICK d \in Conn : conn[d].sid = p[1] /\ conn[d].home = p[2]
    BY <1>1 DEF RegistryInv, RegistryExact, ByHomeExact
  <2>2. conn[d].sid # None
    BY <2>1, NamesAssumption
  <2>3. connections[p[1]] = d
    BY <2>1, <2>2, IdentifiedFacts
  <2>4. QED
    BY <2>1, <2>2, <2>3 DEF Roster, Info
<1>2. ASSUME NEW d \in Conn, conn[d].sid # None PROVE Info(d) \in Sessions
  <2>1. /\ conn[d].sid \in Sid /\ conn[d].home \in Home
        /\ connections[conn[d].sid] = d
    BY <1>2, IdentifiedFacts
  <2>2. conn[d].sid \in by_home[conn[d].home]
    BY <2>1 DEF RegistryInv, RegistryExact, ByHomeExact
  <2>3. connections[conn[d].sid] # None
    BY <2>1, NamesAssumption
  <2>4. PICK p \in Sid \X Home : p = <<conn[d].sid, conn[d].home>>
    BY <2>1
  <2>5. p[1] = conn[d].sid /\ p[2] = conn[d].home
    BY <2>4
  <2>6. p \in {q \in Sid \X Home : q[1] \in by_home[q[2]] /\ connections[q[1]] # None}
    BY <2>2, <2>3, <2>5, <2>1, NamesAssumption
  <2>7. <<p[1], p[2], conn[connections[p[1]]].alias>> \in Sessions
    BY <2>6 DEF Sessions
  <2>8. Info(d) = <<p[1], p[2], conn[connections[p[1]]].alias>>
    BY <2>1, <2>5 DEF Info
  <2>9. QED
    BY <2>7, <2>8
<1>3. Sessions \subseteq Roster
  BY <1>1 DEF Sessions
<1>4. Roster \subseteq Sessions
  BY <1>2 DEF Roster
<1>5. QED
  BY <1>3, <1>4

\* No two sessions share a sid.
LEMMA SidsDiffer ==
    ASSUME RegistryInv, NEW c \in Conn, NEW d \in Conn, c # d, conn[d].sid # None
    PROVE  conn[d].sid # conn[c].sid
BY IdentifiedFacts

\* A connection that said no hello has asked for nothing; the others that follow
\* presence know the roster.
Informed(d) ==
    /\ conn[d].sid = None => seen[d].view = None
    /\ ~conn[d].closed /\ seen[d].view # None => seen[d].view = Roster

PresenceInv == \A d \in Conn : Informed(d)

\* One session's entry is replaced in the roster.
LEMMA RosterStep ==
    ASSUME RegistryInv, NEW c \in Conn,
           \A d \in Conn \ {c} : Info(d)' = Info(d),
           NEW added, added = IF conn'[c].sid # None THEN {Info(c)'} ELSE {}
    PROVE  Roster' = {e \in Roster : e[1] # conn[c].sid} \cup added
<1>1. \A d \in Conn \ {c} : conn'[d].sid = conn[d].sid /\ Info(d)' = Info(d)
  BY DEF Info
<1>2. \A d \in Conn \ {c} : conn[d].sid # None => Info(d)[1] # conn[c].sid
  BY SidsDiffer DEF Info
<1>3. Info(c)[1] = conn[c].sid
  BY DEF Info
<1>4. Roster' = {Info(d)' : d \in {d \in Conn : conn'[d].sid # None}}
  BY DEF Roster
<1>5. ASSUME NEW e \in Roster' PROVE e \in {x \in Roster : x[1] # conn[c].sid} \cup added
  <2>1. PICK d \in Conn : conn'[d].sid # None /\ e = Info(d)'
    BY <1>4, <1>5
  <2>2. CASE d = c
    BY <2>1, <2>2
  <2>3. CASE d # c
    <3>1. e = Info(d) /\ conn[d].sid # None
      BY <1>1, <2>1, <2>3
    <3>2. QED
      BY <1>2, <2>3, <3>1 DEF Roster
  <2>4. QED
    BY <2>2, <2>3
<1>6. ASSUME NEW e \in Roster, e[1] # conn[c].sid PROVE e \in Roster'
  <2>1. PICK d \in Conn : conn[d].sid # None /\ e = Info(d)
    BY <1>6 DEF Roster
  <2>2. d # c
    BY <1>3, <1>6, <2>1
  <2>3. QED
    BY <1>1, <1>4, <2>1, <2>2
<1>7. ASSUME NEW e \in added PROVE e \in Roster'
  BY <1>4, <1>7
<1>8. QED
  BY <1>5, <1>6, <1>7

\* b are the histories after a notification that reaches all who are there but
\* `except`: those who ask for nothing know nothing, the others the new roster.
Announced(b, except) ==
    \A d \in Conn :
        /\ seen[d].view = None => b[d].view = None
        /\ /\ seen[d].view # None /\ ~conn[d].closed
           /\ \E s \in Sid \ {except} : connections'[s] = d
           => b[d].view = Roster'

\* A notification about connection c turns views of the roster into views of the
\* next one.
LEMMA AnnounceStep ==
    ASSUME RegistryInv, HistoryInv, PresenceInv, NEW c \in Conn,
           \A d \in Conn \ {c} : conn'[d] = conn[d],
           NEW added, added = IF conn'[c].sid # None THEN {Info(c)'} ELSE {},
           NEW except, NEW b, b = Broadcast(seen, except, conn[c].sid, added)
    PROVE  Announced(b, except)
<1> SUFFICES ASSUME NEW d \in Conn
             PROVE  /\ seen[d].view = None => b[d].view = None
                    /\ /\ seen[d].view # None /\ ~conn[d].closed
                       /\ \E s \in Sid \ {except} : connections'[s] = d
                       => b[d].view = Roster'
  BY DEF Announced
<1>1. Roster' = {e \in Roster : e[1] # conn[c].sid} \cup added
  <2>1. \A x \in Conn \ {c} : Info(x)' = Info(x)
    BY DEF Info
  <2>2. QED
    BY <2>1, RosterStep
<1>2. "view" \in DOMAIN seen[d]
  BY DEF HistoryInv, SeenState
<1>3. ASSUME seen[d].view = None PROVE b[d].view = None
  BY <1>3 DEF Broadcast
<1>4. ASSUME seen[d].view # None, ~conn[d].closed,
             \E s \in Sid \ {except} : connections'[s] = d
      PROVE  b[d].view = Roster'
  <2>1. seen[d].view = Roster
    BY <1>4 DEF PresenceInv, Informed
  <2>2. b[d] = [seen[d] EXCEPT !.view = {e \in @ : e[1] # conn[c].sid} \cup added]
    BY <1>4 DEF Broadcast
  <2>3. b[d].view = {e \in seen[d].view : e[1] # conn[c].sid} \cup added
    BY <1>2, <2>2
  <2>4. QED
    BY <1>1, <2>1, <2>3
<1>5. QED
  BY <1>3, <1>4

\* Whoever is there in the next state is found under its sid.
LEMMA StillFound ==
    RegistryInv' => (\A d \in Conn : conn[d].sid # None =>
                        conn[d].sid \in Sid /\ connections[conn[d].sid] = d)'
<1>1. RegistryInv => \A d \in Conn : conn[d].sid # None =>
                        conn[d].sid \in Sid /\ connections[conn[d].sid] = d
  BY IdentifiedFacts
<1>2. QED
  BY <1>1, PTL

\* Where no identity changes, views of the roster stay views of the roster.
LEMMA QuietStep ==
    ASSUME PresenceInv,
           \A d \in Conn : /\ conn'[d].sid = conn[d].sid
                           /\ Info(d)' = Info(d)
                           /\ conn[d].closed => conn'[d].closed
                           /\ seen'[d].view = seen[d].view
    PROVE  PresenceInv'
<1>1. Roster' = Roster
  BY DEF Roster
<1>2. QED
  BY <1>1 DEF PresenceInv, Informed

\* Every step keeps those who follow presence informed, as long as no drain fails:
\* hello and set_alias announce only after their drains.
LEMMA PresenceNext ==
    ASSUME RegistryInv, RegistryInv', HistoryInv, PresenceInv,
           "disk" \notin Faults, [Next]_vars
    PROVE  PresenceInv'
<1>1. conn \in [Conn -> ConnState]
  BY DEF RegistryInv, RegistryTypeOK
<1>2. ASSUME NEW d \in Conn, conn'[d].sid # None
      PROVE  conn'[d].sid \in Sid /\ connections'[conn'[d].sid] = d
  BY <1>2, StillFound
<1>3. ASSUME NEW d \in Conn PROVE Informed(d)
  BY DEF PresenceInv
<1>4. ASSUME NEW d \in Conn, seen'[d].view = None PROVE Informed(d)'
  BY <1>4 DEF Informed
<1>5. FreshSeen.view = None
  BY DEF FreshSeen
<1>6. ASSUME NEW c \in Conn, NEW s \in Sid, NEW h \in Home, Hello(c, s, h)
      PROVE  PresenceInv'
  <2> DEFINE new == [conn[c] EXCEPT !.sid = s, !.home = h]
  <2>1. /\ conn' = [conn EXCEPT ![c] = new]
        /\ conn[c].sid = None /\ connections[s] = None
    BY <1>6 DEF Hello, Register, Identified
  <2>2. conn[c] \in ConnState /\ conn'[c] = new
    BY <1>1, <2>1
  <2>3. /\ new.sid = s /\ new.home = h /\ new.alias = conn[c].alias
        /\ new.closed = conn[c].closed
    BY <2>2 DEF ConnState
  <2>4. conn[c].alias = None
    BY <2>1 DEF RegistryInv, RegistryExact, IdentityWhole
  <2>5. Info(c)' = <<s, h, None>> /\ conn'[c].sid # None
    BY <2>2, <2>3, <2>4, NamesAssumption DEF Info
  <2>6. \A d \in Conn \ {c} : conn'[d] = conn[d]
    BY <1>1, <2>1
  <2>7. PICK added : added = IF conn'[c].sid # None THEN {Info(c)'} ELSE {}
    OBVIOUS
  <2>8. PICK b : b = Broadcast(seen, s, conn[c].sid, added)
    OBVIOUS
  <2>b. seen' = b
    BY <1>6, <2>1, <2>5, <2>7, <2>8 DEF Hello
  <2> HIDE DEF new
  <2>a. Announced(b, s)
    BY <2>6, <2>7, <2>8, AnnounceStep
  <2>9. ASSUME NEW d \in Conn PROVE Informed(d)'
    <3>1. CASE seen[d].view = None
      BY <1>4, <2>a, <2>b, <3>1 DEF Announced
    <3>2. CASE seen[d].view # None
      <4>1. d # c /\ conn[d].sid # None
        BY <1>3, <2>1, <3>2 DEF Informed
      <4>2. conn'[d] = conn[d]
        BY <2>6, <4>1
      <4>3. conn[d].sid \in Sid /\ connections'[conn[d].sid] = d
        BY <1>2, <4>1, <4>2
      <4>4. conn[d].sid # s
        BY <2>1, <4>1, IdentifiedFacts, NamesAssumption
      <4>5. ~conn[d].closed => seen'[d].view = Roster'
        BY <2>a, <2>b, <3>2, <4>3, <4>4 DEF Announced
      <4>6. QED
        BY <4>1, <4>2, <4>5 DEF Informed
    <3>3. QED
      BY <3>1, <3>2
  <2>10. QED
    BY <2>9 DEF PresenceInv
<1>7. ASSUME NEW c \in Conn, NEW new \in Alias \cup {None}, SetAlias(c, new)
      PROVE  PresenceInv'
  <2> DEFINE r == [conn[c] EXCEPT !.alias = new]
  <2>1. conn' = [conn EXCEPT ![c] = r] /\ conn[c].sid # None
    BY <1>7 DEF SetAlias, TakeAlias, Identified
  <2>2. conn[c] \in ConnState /\ conn'[c] = r
    BY <1>1, <2>1
  <2>3. /\ r.sid = conn[c].sid /\ r.home = conn[c].home /\ r.alias = new
        /\ r.closed = conn[c].closed
    BY <2>2 DEF ConnState
  <2>4. Info(c)' = <<conn[c].sid, conn[c].home, new>> /\ conn'[c].sid # None
    BY <2>1, <2>2, <2>3 DEF Info
  <2>5. \A d \in Conn \ {c} : conn'[d] = conn[d]
    BY <1>1, <2>1
  <2>6. \A d \in Conn : conn'[d].sid = conn[d].sid /\ conn'[d].closed = conn[d].closed
    BY <2>2, <2>3, <2>5
  <2>7. PICK added : added = IF conn'[c].sid # None THEN {Info(c)'} ELSE {}
    OBVIOUS
  <2>8. PICK b : b = Broadcast(seen, None, conn[c].sid, added)
    OBVIOUS
  <2>b. seen' = b
    BY <1>7, <2>4, <2>7, <2>8 DEF SetAlias
  <2> HIDE DEF r
  <2>a. Announced(b, None)
    BY <2>5, <2>7, <2>8, AnnounceStep
  <2>9. ASSUME NEW d \in Conn PROVE Informed(d)'
    <3>1. CASE seen[d].view = None
      BY <1>4, <2>a, <2>b, <3>1 DEF Announced
    <3>2. CASE seen[d].view # None
      <4>1. conn[d].sid # None
        BY <1>3, <3>2 DEF Informed
      <4>2. /\ conn[d].sid \in Sid \ {None}
            /\ connections'[conn[d].sid] = d
        BY <1>2, <2>6, <4>1, NamesAssumption
      <4>3. ~conn[d].closed => seen'[d].view = Roster'
        BY <2>a, <2>b, <3>2, <4>2 DEF Announced
      <4>4. QED
        BY <2>6, <4>1, <4>3 DEF Informed
    <3>3. QED
      BY <3>1, <3>2
  <2>10. QED
    BY <2>9 DEF PresenceInv
<1>8. ASSUME NEW c \in Conn, Disconnect(c) PROVE PresenceInv'
  <2>1. conn' = [conn EXCEPT ![c] = FreshConn]
    BY <1>8 DEF Disconnect
  <2>2. /\ \A d \in Conn \ {c} : conn'[d] = conn[d]
        /\ conn'[c].sid = None
    BY <1>1, <2>1 DEF FreshConn
  <2>3. PICK added : added = IF conn'[c].sid # None THEN {Info(c)'} ELSE {}
    OBVIOUS
  <2>4. PICK b : b = Broadcast(seen, conn[c].sid, conn[c].sid, added)
    OBVIOUS
  <2>5. seen' = [b EXCEPT ![c] = FreshSeen] /\ DOMAIN b = Conn
    BY <1>8, <2>2, <2>3, <2>4 DEF Disconnect, Broadcast
  <2>a. Announced(b, conn[c].sid)
    BY <2>2, <2>3, <2>4, AnnounceStep
  <2>6. ASSUME NEW d \in Conn \ {c} PROVE Informed(d)'
    <3>0. seen'[d] = b[d] /\ conn'[d] = conn[d]
      BY <2>2, <2>5
    <3>1. CASE seen[d].view = None
      BY <1>4, <2>a, <3>0, <3>1 DEF Announced
    <3>2. CASE seen[d].view # None
      <4>1. conn[d].sid # None
        BY <1>3, <3>2 DEF Informed
      <4>2. conn[d].sid \in Sid /\ connections'[conn[d].sid] = d
        BY <1>2, <3>0, <4>1
      <4>3. conn[d].sid # conn[c].sid
        BY <4>1, SidsDiffer
      <4>4. ~conn[d].closed => seen'[d].view = Roster'
        BY <2>a, <3>0, <3>2, <4>2, <4>3 DEF Announced
      <4>5. QED
        BY <3>0, <4>1, <4>4 DEF Informed
    <3>3. QED
      BY <3>1, <3>2
  <2>7. Informed(c)'
    BY <1>4, <1>5, <2>5
  <2>8. QED
    BY <2>6, <2>7 DEF PresenceInv
<1>9. ASSUME NEW c \in Conn, ListPeers(c) PROVE PresenceInv'
  <2>1. /\ conn' = conn /\ conn[c].sid # None
        /\ seen' = [seen EXCEPT ![c].view = Sessions]
    BY <1>9 DEF ListPeers, Identified
  <2>2. Sessions = Roster /\ Roster' = Roster
    BY <2>1, SessionsAreRoster DEF Roster, Info
  <2>3. seen \in [Conn -> SeenState]
    BY DEF HistoryInv
  <2>4. \A d \in Conn \ {c} : seen'[d] = seen[d]
    BY <2>1, <2>3
  <2>5. seen'[c].view = Roster
    BY <2>1, <2>2, <2>3 DEF SeenState
  <2>6. QED
    BY <1>3, <2>1, <2>2, <2>4, <2>5 DEF PresenceInv, Informed
<1>10. ASSUME NEW c \in Conn, Accept(c) PROVE PresenceInv'
  <2>1. /\ conn' = [conn EXCEPT ![c] = [FreshConn EXCEPT !.open = TRUE]]
        /\ seen' = [seen EXCEPT ![c] = FreshSeen] /\ ~conn[c].open
    BY <1>10 DEF Accept
  <2>2. conn[c].sid = None /\ \A d \in Conn \ {c} : conn'[d] = conn[d]
    BY <1>1, <2>1 DEF RegistryInv, RegistryExact, IdentityWhole
  <2>3. conn'[c].sid = None
    BY <1>1, <2>1 DEF FreshConn
  <2>4. Roster' = Roster
    BY <2>2, <2>3 DEF Roster, Info
  <2>5. \A d \in Conn \ {c} : seen'[d] = seen[d]
    BY <2>1 DEF HistoryInv
  <2>6. seen'[c].view = None
    BY <1>5, <2>1 DEF HistoryInv
  <2>7. QED
    BY <1>3, <1>4, <2>2, <2>4, <2>5, <2>6 DEF PresenceInv, Informed
<1>11. ASSUME NEW c \in Conn, NEW v,
              \/ conn' = [conn EXCEPT ![c].dm_filter = v]
              \/ conn' = [conn EXCEPT ![c].wire = v]
              \/ conn' = [conn EXCEPT ![c].subscriptions = v]
              \/ conn' = [conn EXCEPT ![c].closed = TRUE]
              \/ conn' = conn,
              \A d \in Conn : seen'[d].view = seen[d].view
       PROVE  PresenceInv'
  <2>1. /\ \A d \in Conn \ {c} : conn'[d] = conn[d]
        /\ conn'[c].sid = conn[c].sid /\ conn'[c].home = conn[c].home
        /\ conn'[c].alias = conn[c].alias
        /\ conn'[c].closed \in {conn[c].closed, TRUE}
    BY <1>1, <1>11 DEF ConnState
  <2>2. \A d \in Conn : /\ conn'[d].sid = conn[d].sid
                        /\ Info(d)' = Info(d)
                        /\ conn[d].closed => conn'[d].closed
    BY <2>1 DEF Info
  <2>3. QED
    BY <1>11, <2>2, QuietStep
<1>12. ASSUME NEW c \in Conn,
              \/ seen' = seen
              \/ seen' = [seen EXCEPT ![c].narrowed = TRUE]
              \/ seen' = [seen EXCEPT ![c].watchedAt = Len(minted)]
              \/ \E t \in Topic : \E v : seen' = [seen EXCEPT ![c].joined[t] = v]
       PROVE  \A d \in Conn : seen'[d].view = seen[d].view
  <2>1. seen \in [Conn -> SeenState] /\ \A d \in Conn : "view" \in DOMAIN seen[d]
    BY DEF HistoryInv, SeenState
  <2>2. CASE seen' = seen
    BY <2>2
  <2>3. CASE seen' = [seen EXCEPT ![c].narrowed = TRUE]
    BY <2>1, <2>3
  <2>4. CASE seen' = [seen EXCEPT ![c].watchedAt = Len(minted)]
    BY <2>1, <2>4
  <2>5. ASSUME NEW t \in Topic, NEW v, seen' = [seen EXCEPT ![c].joined[t] = v]
        PROVE  \A d \in Conn : seen'[d].view = seen[d].view
    BY <2>1, <2>5
  <2>6. QED
    BY <1>12, <2>2, <2>3, <2>4, <2>5
<1>13. ASSUME NEW c \in Conn, Session(c) PROVE PresenceInv'
  <2>1. CASE WriterFails(c)
    BY <1>11, <2>1 DEF WriterFails
  <2>2. QED
    BY <1>6, <1>8, <1>10, <1>13, <2>1 DEF Session, HelloDrainFails
<1>14. ASSUME NEW c \in Conn, Request(c) PROVE PresenceInv'
  <2>1. ASSUME NEW f \in DmFilters, SetDmFilter(c, f) PROVE PresenceInv'
    BY <1>11, <1>12, <2>1 DEF SetDmFilter
  <2>2. ASSUME NEW w \in WireFilters, Watch(c, w) PROVE PresenceInv'
    BY <1>11, <1>12, <2>2 DEF Watch
  <2>3. CASE Unwatch(c)
    BY <1>11, <2>3 DEF Unwatch
  <2>4. ASSUME NEW t \in Topic, NEW r \in Replays, Subscribe(c, t, r)
        PROVE  PresenceInv'
    <3>1. PICK v, w : seen' = [seen EXCEPT ![c].joined[t] = v]
                      /\ w = conn[c].subscriptions \cup {t}
      BY <2>4 DEF Subscribe
    <3>2. conn' = [conn EXCEPT ![c].subscriptions = w]
      BY <2>4, <3>1 DEF Subscribe
    <3>3. QED
      BY <1>11, <1>12, <3>1, <3>2
  <2>5. ASSUME NEW t \in Topic, Unsubscribe(c, t) PROVE PresenceInv'
    <3>1. PICK w : w = conn[c].subscriptions \ {t}
      OBVIOUS
    <3>2. conn' = [conn EXCEPT ![c].subscriptions = w]
          /\ seen' = [seen EXCEPT ![c].joined[t] = None]
      BY <2>5, <3>1 DEF Unsubscribe
    <3>3. QED
      BY <1>11, <1>12, <3>2
  <2>6. CASE conn' = conn /\ seen' = seen
    BY <1>11, <2>6
  <2>7. QED
    BY <1>7, <1>9, <1>14, <2>1, <2>2, <2>3, <2>4, <2>5, <2>6
       DEF Request, SetAliasDrainFails, Send, SendFlushFails, Publish,
           PublishFlushFails
<1>15. CASE Restart
  BY <1>4, <1>5, <1>15 DEF Restart, PresenceInv
<1>16. CASE UNCHANGED vars
  <2>1. conn' = conn /\ seen' = seen
    BY <1>16 DEF vars
  <2>2. QED
    BY <2>1 DEF PresenceInv, Informed, Roster, Info
<1>17. QED
  BY <1>13, <1>14, <1>15, <1>16 DEF Next

\* As long as no drain fails, a client that listed the peers once and follows the
\* presence notifications knows the live sessions exactly (PresenceViewExact).
THEOREM FollowersKnowThePeers ==
    ASSUME "disk" \notin Faults PROVE Spec => []PresenceViewExact
<1>1. Init => OutboxInv /\ HistoryInv /\ PresenceInv
  <2> SUFFICES ASSUME Init PROVE OutboxInv /\ HistoryInv /\ PresenceInv
    OBVIOUS
  <2>1. minted = <<>> /\ Len(minted) = 0
        /\ seen = [c \in Conn |-> FreshSeen] /\ outbox = [c \in Conn |-> <<>>]
    BY DEF Init
  <2>2. OutboxInv
    BY <2>1 DEF OutboxInv
  <2>3. HistoryInv
    BY <2>1, FreshSeenType DEF HistoryInv
  <2>4. PresenceInv
    BY <2>1 DEF PresenceInv, Informed, FreshSeen
  <2>5. QED
    BY <2>2, <2>3, <2>4
<1>2. RegistryInv /\ PresenceInv => PresenceViewExact
  BY SessionsAreRoster DEF PresenceInv, Informed, PresenceViewExact
<1>3. RegistryInv /\ StoreInv /\ OutboxInv /\ HistoryInv /\ [Next]_vars
      => OutboxInv' /\ HistoryInv'
  BY OutboxNext, HistoryNext
<1>4. RegistryInv /\ RegistryInv' /\ HistoryInv /\ PresenceInv /\ [Next]_vars
      => PresenceInv'
  BY PresenceNext
<1>5. QED
  BY <1>1, <1>2, <1>3, <1>4, RegistryInit, RegistryNext, StoreInit, StoreNext, PTL
     DEF Spec

-------------------------------------------------------------------------------
(***************************************************************************)
(* The rings.  The file of a ring may lag behind after a failed flush, so  *)
(* a restart keeps the ring only where the disk never fails.               *)
(***************************************************************************)

\* The messages minted so far of a set, in the order they were minted.
MintedIn(A) == Select(UpTo(Len(minted)), A)

\* Everything published to t.
PublishedTo(t) == {i \in MsgId : minted[i].to = t}

RingInv ==
    \A t \in Topic :
        /\ buffers[t] = LastN(MintedIn(PublishedTo(t)), TopicMaxlen)
        /\ "disk" \notin Faults => files[t] = buffers[t]

\* The ring as the property says it.
LEMMA RingMeans == RingInv => RingIsTail
<1> SUFFICES ASSUME RingInv, NEW t \in Topic
             PROVE  buffers[t] = LastN(Select([i \in MsgId |-> i],
                                {i \in MsgId : minted[i].to = t /\ TRUE}), TopicMaxlen)
  BY DEF RingIsTail, Published
<1>1. {i \in MsgId : minted[i].to = t /\ TRUE} = PublishedTo(t)
  BY DEF PublishedTo
<1>2. [i \in MsgId |-> i] = UpTo(Len(minted))
  BY DEF UpTo, MsgId
<1>3. QED
  BY <1>1, <1>2 DEF RingInv, MintedIn

\* What one more message makes of the messages of a set: it comes last, or is not
\* in it.
LEMMA MintedInAppend ==
    ASSUME minted \in Seq(MessageState), NEW m \in MessageState,
           minted' = Append(minted, m),
           NEW A, NEW B, \A i \in MsgId : i \in A <=> i \in B
    PROVE  /\ MintedIn(A) \in Seq(Nat)
           /\ MintedIn(B)' = IF NextId \in B THEN Append(MintedIn(A), NextId)
                             ELSE MintedIn(A)
<1>1. PICK n \in Nat : n = Len(minted)
  OBVIOUS
<1>2. Len(minted') = n + 1 /\ NextId = n + 1 /\ MsgId = 1..n
  BY <1>1, MintedGrows DEF NextId, MsgId
<1>3. /\ Select(UpTo(n), A) \in Seq(1..n)
      /\ Select(UpTo(n + 1), B) = IF n + 1 \in B
                                  THEN Append(Select(UpTo(n), A), n + 1)
                                  ELSE Select(UpTo(n), A)
  BY <1>2, UpToSelect
<1>4. MintedIn(A) = Select(UpTo(n), A) /\ MintedIn(B)' = Select(UpTo(n + 1), B)
  BY <1>1, <1>2 DEF MintedIn
<1>5. MintedIn(A) \in Seq(Nat)
  <2>1. 1..n \subseteq Nat
    OBVIOUS
  <2>2. QED
    BY <1>3, <1>4, <2>1, SeqMonotonic, Zenon
<1>6. QED
  BY <1>2, <1>3, <1>4, <1>5

\* What one more message makes of all that was published to a topic.
LEMMA PublishedGrows ==
    ASSUME minted \in Seq(MessageState), NEW m \in MessageState,
           minted' = Append(minted, m), NEW t \in Topic
    PROVE  /\ MintedIn(PublishedTo(t)) \in Seq(Nat)
           /\ MintedIn(PublishedTo(t))' =
                IF m.to = t THEN Append(MintedIn(PublishedTo(t)), NextId)
                ELSE MintedIn(PublishedTo(t))
<1>1. /\ Len(minted) \in Nat /\ Len(minted') = Len(minted) + 1
      /\ minted'[NextId] = m
      /\ \A i \in MsgId : minted'[i] = minted[i]
  <2>1. /\ Len(minted') = Len(minted) + 1 /\ minted'[NextId] = m
        /\ \A i \in 1..Len(minted) : minted'[i] = minted[i]
    BY MintedGrows
  <2>2. QED
    BY <2>1 DEF MsgId
<1>2. PICK A, B : A = PublishedTo(t) /\ B = PublishedTo(t)'
  OBVIOUS
<1>3. MsgId' = MsgId \cup {NextId} /\ NextId \notin MsgId
  BY <1>1 DEF MsgId, NextId
<1>4. \A i \in MsgId : i \in A <=> i \in B
  BY <1>1, <1>2, <1>3 DEF PublishedTo
<1>5. NextId \in B <=> m.to = t
  BY <1>1, <1>2, <1>3 DEF PublishedTo
<1>6. /\ MintedIn(A) \in Seq(Nat)
      /\ MintedIn(B)' = IF NextId \in B THEN Append(MintedIn(A), NextId)
                        ELSE MintedIn(A)
  BY <1>4, MintedInAppend
<1>7. MintedIn(PublishedTo(t))' = MintedIn(B)'
  BY <1>2 DEF MintedIn
<1>8. QED
  BY <1>2, <1>5, <1>6, <1>7

\* What a step does to one ring: nothing; a message published to it is stored, in
\* the file too unless the disk fails; a restart.
LEMMA RingStep ==
    ASSUME StoreInv, StoreStep, NEW t \in Topic
    PROVE  \/ minted' = minted /\ buffers'[t] = buffers[t] /\ files'[t] = files[t]
           \/ \E m \in MessageState :
                /\ minted' = Append(minted, m)
                /\ m.to # t => buffers'[t] = buffers[t] /\ files'[t] = files[t]
                /\ m.to = t =>
                     /\ buffers'[t] = AppendBounded(buffers[t], NextId, TopicMaxlen)
                     /\ files'[t] = buffers'[t] \/ "disk" \in Faults
           \/ /\ minted' = minted /\ buffers'[t] = files[t] /\ files'[t] = files[t]
              /\ "restart" \in Faults
<1>1. buffers \in [Addr -> Seq(Nat)] /\ files \in [Addr -> Seq(Nat)] /\ t \in Addr
  BY DEF StoreInv, StoreTypeOK, Addr
<1>2. Maxlen(t) = TopicMaxlen
  BY DEF Maxlen
<1>3. CASE StoreKept
  BY <1>3 DEF StoreKept
<1>4. ASSUME NEW done \in SUBSET DmAddr, NEW failed \in SUBSET DmAddr,
             Drains(done, failed)
      PROVE  minted' = minted /\ buffers'[t] = buffers[t] /\ files'[t] = files[t]
  <2>1. t \notin done /\ t \notin failed
    BY NamesAssumption
  <2>2. QED
    BY <1>1, <1>4, <2>1 DEF Drains, Drain
<1>5. ASSUME NEW a \in Addr, NEW acked \in BOOLEAN, NEW stores \in BOOLEAN,
             NEW flushed \in BOOLEAN, Mints(a, acked, stores, flushed),
             a \in Topic => stores, flushed \/ "disk" \in Faults
      PROVE  \E m \in MessageState :
                /\ minted' = Append(minted, m)
                /\ m.to # t => buffers'[t] = buffers[t] /\ files'[t] = files[t]
                /\ m.to = t =>
                     /\ buffers'[t] = AppendBounded(buffers[t], NextId, TopicMaxlen)
                     /\ files'[t] = buffers'[t] \/ "disk" \in Faults
  <2>1. PICK m \in MessageState : minted' = Append(minted, m) /\ m.to = a
    BY <1>5 DEF Mints, MessageState
  <2>2. CASE a = t
    <3>1. Persist(a, flushed)
      BY <1>5, <2>2 DEF Mints
    <3>2. QED
      BY <1>1, <1>2, <1>5, <2>1, <2>2, <3>1 DEF Persist
  <2>3. CASE a # t
    <3>1. Persist(a, flushed) \/ UNCHANGED store
      BY <1>5 DEF Mints
    <3>2. buffers'[t] = buffers[t] /\ files'[t] = files[t]
      BY <1>1, <2>3, <3>1 DEF Persist, store
    <3>3. QED
      BY <2>1, <2>3, <3>2
  <2>4. QED
    BY <2>2, <2>3
<1>6. CASE Reloads /\ "restart" \in Faults
  BY <1>6 DEF Reloads
<1>7. QED
  BY <1>3, <1>4, <1>5, <1>6 DEF StoreStep

\* Every step keeps the rings, unless a restart reads back a file that lags.
LEMMA RingNext ==
    ASSUME RegistryInv, StoreInv, RingInv, [Next]_vars,
           "disk" \notin Faults \/ "restart" \notin Faults
    PROVE  RingInv'
<1> SUFFICES ASSUME NEW t \in Topic
             PROVE  /\ buffers'[t] = LastN(MintedIn(PublishedTo(t))', TopicMaxlen)
                    /\ "disk" \notin Faults => files'[t] = buffers'[t]
  BY DEF RingInv
<1>1. minted \in Seq(MessageState) /\ TopicMaxlen \in Nat \ {0}
  BY BoundsAssumption DEF StoreInv, StoreTypeOK
<1>2. /\ buffers[t] = LastN(MintedIn(PublishedTo(t)), TopicMaxlen)
      /\ "disk" \notin Faults => files[t] = buffers[t]
  BY DEF RingInv
<1>3. ASSUME minted' = minted
      PROVE  MintedIn(PublishedTo(t))' = MintedIn(PublishedTo(t))
  BY <1>3 DEF MintedIn, PublishedTo, MsgId
<1>4. ASSUME NEW m \in MessageState, minted' = Append(minted, m),
             m.to # t => buffers'[t] = buffers[t] /\ files'[t] = files[t],
             m.to = t =>
                /\ buffers'[t] = AppendBounded(buffers[t], NextId, TopicMaxlen)
                /\ files'[t] = buffers'[t] \/ "disk" \in Faults
      PROVE  /\ buffers'[t] = LastN(MintedIn(PublishedTo(t))', TopicMaxlen)
             /\ "disk" \notin Faults => files'[t] = buffers'[t]
  <2>1. PICK p, q : p = MintedIn(PublishedTo(t)) /\ q = MintedIn(PublishedTo(t))'
    OBVIOUS
  <2>2. p \in Seq(Nat) /\ q = IF m.to = t THEN Append(p, NextId) ELSE p
    BY <1>1, <1>4, <2>1, PublishedGrows
  <2>3. NextId \in Nat
    BY <1>1 DEF NextId
  <2>4. LastN(Append(p, NextId), TopicMaxlen) =
           AppendBounded(LastN(p, TopicMaxlen), NextId, TopicMaxlen)
    BY <1>1, <2>2, <2>3, LastNAppend
  <2>5. QED
    BY <1>2, <1>4, <2>1, <2>2, <2>4
<1>5. StoreStep
  BY StepsAreStoreSteps
<1>6. QED
  BY <1>2, <1>3, <1>4, <1>5, RingStep

\* Nothing is published, the rings are empty.
LEMMA RingInit == Init => RingInv
<1> SUFFICES ASSUME Init, NEW t \in Topic
             PROVE  /\ buffers[t] = LastN(MintedIn(PublishedTo(t)), TopicMaxlen)
                    /\ files[t] = buffers[t]
  BY DEF RingInv
<1>1. minted = <<>> /\ buffers[t] = <<>> /\ files[t] = <<>>
  BY DEF Init, Addr
<1>2. UpTo(Len(minted)) = <<>>
  BY <1>1 DEF UpTo
<1>3. MintedIn(PublishedTo(t)) = <<>>
  BY <1>2, SelectAppend DEF MintedIn
<1>4. TopicMaxlen \in Nat
  BY BoundsAssumption
<1>5. LastN(<<>>, TopicMaxlen) = <<>>
  BY <1>4 DEF LastN
<1>6. QED
  BY <1>1, <1>3, <1>5

\* A topic's ring is the tail of all that was ever published to it, across restarts
\* and whatever else is stored, as long as not both flushes fail and the daemon
\* restarts (RingIsTail).
THEOREM RingsAreTails ==
    ASSUME "disk" \notin Faults \/ "restart" \notin Faults
    PROVE  Spec => []RingIsTail
<1>1. Init => RingInv
  BY RingInit
<1>2. RegistryInv /\ StoreInv /\ RingInv /\ [Next]_vars => RingInv'
  BY RingNext
<1>3. QED
  BY <1>1, <1>2, RingMeans, RegistryInit, RegistryNext, StoreInit, StoreNext, PTL
     DEF Spec

-------------------------------------------------------------------------------
(***************************************************************************)
(* The wire.  Who said no hello does not watch; who watches has one copy   *)
(* of each message since, or none.                                         *)
(***************************************************************************)
WireDue(d, i) ==
    /\ minted[i].acked
    /\ minted[i].from # FromOf(d)
    /\ minted[i].from \in conn[d].wire.from
    /\ minted[i].to \in conn[d].wire.to

OneCopy(d, i) ==
    IF WireDue(d, i) THEN \E k : Occurs(outbox[d], Wire(i)) = {k}
    ELSE Occurs(outbox[d], Wire(i)) = {}

Watched(d) ==
    /\ conn[d].sid = None => conn[d].wire = None
    /\ ~conn[d].closed /\ conn[d].wire # None =>
          \A i \in (seen[d].watchedAt + 1)..Len(minted) : OneCopy(d, i)

WireInv == \A d \in Conn : Watched(d)

\* The copies as the property counts them.
LEMMA WireMeans == WireInv => WireExact
<1> SUFFICES ASSUME WireInv, NEW c \in Conn, Identified(c), ~conn[c].closed,
                    conn[c].wire # None,
                    NEW i \in (seen[c].watchedAt + 1)..Len(minted)
             PROVE  Cardinality(Copies(c, "wire", i)) = IF WireDue(c, i) THEN 1 ELSE 0
  BY DEF WireExact, WireDue
<1>1. Copies(c, "wire", i) = Occurs(outbox[c], Wire(i))
  BY DEF Copies, Occurs, Wire
<1>2. OneCopy(c, i)
  BY DEF WireInv, Watched
<1>3. CASE WireDue(c, i)
  <2>1. PICK k : Occurs(outbox[c], Wire(i)) = {k}
    BY <1>2, <1>3 DEF OneCopy
  <2>2. Cardinality({k}) = 1
    BY FS_Singleton
  <2>3. QED
    BY <1>1, <1>3, <2>1, <2>2
<1>4. CASE ~WireDue(c, i)
  BY <1>1, <1>2, <1>4, FS_EmptySet DEF OneCopy
<1>5. QED
  BY <1>3, <1>4

\* At most the message, then at most its copy.
LEMMA FanOutEntries ==
    ASSUME NEW N, NEW i \in N, NEW T, NEW W, NEW d,
           NEW e, e = Share(i, d, T, W)
    PROVE  /\ e \in Seq(Entry(N))
           /\ Ids(e) \subseteq {Message(i), Wire(i)}
           /\ d \in W => \E j \in DOMAIN e : Occurs(e, Wire(i)) = {j}
           /\ d \notin W => Wire(i) \notin Ids(e)
<1>1. PICK x, y : x = Message(i) /\ y = Wire(i)
  OBVIOUS
<1>2. x \in Entry(N) /\ y \in Entry(N) /\ x # y
  BY <1>1 DEF Message, Wire, Entry
<1>3. e = IF d \in T THEN (IF d \in W THEN <<x, y>> ELSE <<x>>)
                     ELSE (IF d \in W THEN <<y>> ELSE <<>>)
  BY <1>1 DEF Share
<1>4. CASE d \notin T /\ d \notin W
  BY <1>1, <1>3, <1>4 DEF Ids
<1>5. CASE d \in T /\ d \notin W
  BY <1>1, <1>2, <1>3, <1>5 DEF Ids
<1>6. CASE d \notin T /\ d \in W
  <2>1. e = <<y>>
    BY <1>3, <1>6
  <2>2. /\ e \in Seq(Entry(N)) /\ Ids(e) \subseteq {x, y} /\ 1 \in DOMAIN e
        /\ Occurs(e, y) = {1}
    BY ONLY <1>2, <2>1 DEF Ids, Occurs
  <2>3. QED
    BY <1>1, <1>6, <2>2
<1>7. CASE d \in T /\ d \in W
  <2>1. e = <<x, y>>
    BY <1>3, <1>7
  <2>2. /\ e \in Seq(Entry(N)) /\ Ids(e) \subseteq {x, y} /\ 2 \in DOMAIN e
        /\ Occurs(e, y) = {2}
    BY ONLY <1>2, <2>1 DEF Ids, Occurs
  <2>3. QED
    BY <1>1, <1>7, <2>2
<1>8. QED
  BY <1>4, <1>5, <1>6, <1>7

\* A message sent or published reaches a watcher once or not at all.
LEMMA WatchedMint ==
    ASSUME RegistryInv, StoreInv, OutboxInv, HistoryInv, NEW c \in Conn, NEW d \in Conn,
           Watched(d), conn[c].sid # None, NEW a \in Addr, NEW n \in Nat,
           Mint(c, a, TRUE, n), NEW targets,
           outbox' = FanOut(NextId, targets, Watchers(c, a)),
           conn' = conn, seen' = seen
    PROVE  Watched(d)'
<1> SUFFICES ASSUME ~conn[d].closed, conn[d].wire # None,
                    NEW i \in (seen[d].watchedAt + 1)..Len(minted')
             PROVE  OneCopy(d, i)'
  BY DEF Watched
<1>1. conn[d].sid # None
  BY DEF Watched
<1>2. /\ conn[c].sid \in Sid /\ FromOf(c) \in FromAddr /\ conn[d].sid \in Sid
      /\ connections[conn[d].sid] = d
  BY <1>1, IdentifiedFacts
<1>3. PICK m \in MessageState :
         /\ minted' = Append(minted, m)
         /\ m.from = FromOf(c) /\ m.to = a /\ m.acked = TRUE
  <2>1. PICK m : m = [from |-> FromOf(c), to |-> a, acked |-> TRUE, delivered |-> n]
    OBVIOUS
  <2>2. m \in MessageState /\ m.from = FromOf(c) /\ m.to = a /\ m.acked = TRUE
    BY <1>2, <2>1 DEF MessageState
  <2>3. QED
    BY <2>1, <2>2 DEF Mint
<1>4. minted \in Seq(MessageState) /\ Len(minted) \in Nat
  BY DEF StoreInv, StoreTypeOK
<1>5. /\ Len(minted') = Len(minted) + 1 /\ minted'[NextId] = m
      /\ \A j \in 1..Len(minted) : minted'[j] = minted[j]
  BY <1>3, <1>4, MintedGrows
<1>6. seen[d].watchedAt \in Nat
  BY DEF HistoryInv, SeenState
<1>7. PICK p, e, x : /\ p = outbox[d]
                     /\ e = Share(NextId, d, targets, Watchers(c, a))
                     /\ x = Wire(i)
  OBVIOUS
<1>8. outbox'[d] = p \o e
  BY <1>7 DEF FanOut, Put, Share
<1> DEFINE N == 1..(Len(minted) + 1)
<1>9. /\ e \in Seq(Entry(N))
      /\ Ids(e) \subseteq {Message(NextId), Wire(NextId)}
      /\ d \in Watchers(c, a) => \E j \in DOMAIN e : Occurs(e, Wire(NextId)) = {j}
      /\ d \notin Watchers(c, a) => Wire(NextId) \notin Ids(e)
  <2>1. NextId \in N
    BY <1>4 DEF NextId
  <2> HIDE DEF N
  <2>2. QED
    BY <1>7, <2>1, FanOutEntries
<1>10. p \in Seq(Entry(N)) /\ Wire(NextId) \notin Ids(p)
  <2>1. p \in Seq(Entry(MsgId)) /\ MsgId \subseteq N
    BY <1>4, <1>7 DEF OutboxInv, MsgId
  <2>2. Entry(MsgId) \subseteq Entry(N)
    BY <2>1 DEF Entry
  <2>3. \A k \in DOMAIN p : p[k] \in Entry(MsgId)
    BY <2>1
  <2>4. Wire(NextId) \notin Entry(MsgId)
    BY <1>4 DEF Entry, Wire, NextId, MsgId
  <2>5. QED
    BY <2>1, <2>2, <2>3, <2>4, SeqMonotonic DEF Ids
<1> HIDE DEF N
<1>11. CASE i # NextId
  <2>1. i \in (seen[d].watchedAt + 1)..Len(minted) /\ i \in 1..Len(minted)
    BY <1>4, <1>5, <1>6, <1>11 DEF NextId
  <2>2. OneCopy(d, i)
    BY <2>1 DEF Watched
  <2>3. WireDue(d, i)' <=> WireDue(d, i)
    BY <1>5, <2>1 DEF WireDue, FromOf
  <2>4. x \notin Ids(e)
    BY <1>7, <1>9, <1>11 DEF Message, Wire
  <2>5. Occurs(p \o e, x) = Occurs(p, x)
    BY <1>9, <1>10, <2>4, OccursConcat
  <2>6. Occurs(outbox'[d], Wire(i)) = Occurs(outbox[d], Wire(i))
    BY <1>7, <1>8, <2>5
  <2>7. QED
    BY <2>2, <2>3, <2>6 DEF OneCopy, Wire
<1>12. CASE i = NextId
  <2>1. d \in Watchers(c, a) <=> WireDue(d, i)'
    <3>1. WireDue(d, i)' <=> /\ FromOf(c) # FromOf(d)
                             /\ FromOf(c) \in conn[d].wire.from
                             /\ a \in conn[d].wire.to
      BY <1>3, <1>5, <1>12 DEF WireDue, FromOf
    <3>2. (\E s \in Sid \ {conn[c].sid} : connections[s] = d)
          <=> FromOf(c) # FromOf(d)
      <4>1. \A s \in Sid : connections[s] = d => conn[d].sid = s
        BY DEF RegistryInv, RegistryExact, ConnectionsExact
      <4>2. CASE c = d
        BY <4>1, <4>2
      <4>3. CASE c # d
        <5>1. conn[d].sid # conn[c].sid
          BY <1>1, <4>3, SidsDiffer
        <5>2. QED
          BY <1>2, <5>1 DEF FromOf
      <4>4. QED
        BY <4>2, <4>3
    <3>3. QED
      BY <3>1, <3>2 DEF Watchers
  <2>2. CASE d \in Watchers(c, a)
    <3>1. PICK j \in DOMAIN e : Occurs(e, x) = {j}
      BY <1>7, <1>9, <1>12, <2>2
    <3>2. x \notin Ids(p) /\ p \in Seq(Entry(N)) /\ e \in Seq(Entry(N))
      BY <1>7, <1>9, <1>10, <1>12
    <3>3. Occurs(p \o e, x) = {Len(p) + j}
      BY ONLY <3>1, <3>2, OccursConcat
    <3>4. QED
      BY <1>7, <1>8, <2>1, <2>2, <3>3 DEF OneCopy, Wire
  <2>3. CASE d \notin Watchers(c, a)
    <3>1. Occurs(p \o e, x) = {}
      BY <1>7, <1>9, <1>10, <1>12, <2>3, OccursConcat
    <3>2. QED
      BY <1>7, <1>8, <2>1, <2>3, <3>1 DEF OneCopy, Wire
  <2>4. QED
    BY <2>2, <2>3
<1>13. QED
  BY <1>11, <1>12

\* Nobody watches whose filter is unset.
LEMMA Unwatched ==
    ASSUME NEW d \in Conn, conn'[d].wire = None PROVE Watched(d)'
BY DEF Watched

\* A step that mints nothing hands a watcher at most direct or topic messages.
LEMMA WatchedQuiet ==
    ASSUME StoreInv, OutboxInv, NEW d \in Conn, Watched(d), minted' = minted,
           conn'[d].sid = conn[d].sid, conn'[d].home = conn[d].home,
           conn'[d].wire = conn[d].wire, conn[d].closed => conn'[d].closed,
           seen'[d].watchedAt = seen[d].watchedAt,
           NEW q \in Seq(MsgId),
           outbox'[d] = outbox[d] \/ outbox'[d] = outbox[d] \o Messages(q)
    PROVE  Watched(d)'
<1> SUFFICES ASSUME ~conn'[d].closed, conn'[d].wire # None,
                    NEW i \in (seen[d].watchedAt + 1)..Len(minted)
             PROVE  OneCopy(d, i)'
  BY DEF Watched
<1>1. OneCopy(d, i)
  BY DEF Watched
<1>2. WireDue(d, i)' <=> WireDue(d, i)
  BY DEF WireDue, FromOf
<1>3. Occurs(outbox'[d], Wire(i)) = Occurs(outbox[d], Wire(i))
  <2>1. CASE outbox'[d] = outbox[d]
    BY <2>1
  <2>2. CASE outbox'[d] = outbox[d] \o Messages(q)
    <3>1. Wire(i) \notin Ids(Messages(q))
      BY DEF Ids, Messages, Message, Wire
    <3>2. Messages(q) \in Seq(Entry(MsgId)) /\ outbox[d] \in Seq(Entry(MsgId))
      BY EntryTypes DEF OutboxInv
    <3>3. PICK p, e, x : p = outbox[d] /\ e = Messages(q) /\ x = Wire(i)
      OBVIOUS
    <3>4. Occurs(p \o e, x) = Occurs(p, x)
      BY <3>1, <3>2, <3>3, OccursConcat
    <3>5. QED
      BY <2>2, <3>3, <3>4
  <2>3. QED
    BY <2>1, <2>2
<1>4. QED
  BY <1>1, <1>2, <1>3 DEF OneCopy, Wire

\* A message whose sender was told it failed is not observed.
LEMMA WatchedUnacked ==
    ASSUME RegistryInv, StoreInv, OutboxInv, HistoryInv, NEW c \in Conn, NEW d \in Conn,
           Watched(d), conn[c].sid # None, NEW a \in Addr, NEW n \in Nat,
           Mint(c, a, FALSE, n), outbox' = outbox, conn' = conn, seen' = seen
    PROVE  Watched(d)'
<1> SUFFICES ASSUME ~conn[d].closed, conn[d].wire # None,
                    NEW i \in (seen[d].watchedAt + 1)..Len(minted')
             PROVE  OneCopy(d, i)'
  BY DEF Watched
<1>1. FromOf(c) \in FromAddr
  BY IdentifiedFacts
<1>2. PICK m \in MessageState : minted' = Append(minted, m) /\ m.acked = FALSE
  <2>1. PICK m : m = [from |-> FromOf(c), to |-> a, acked |-> FALSE, delivered |-> n]
    OBVIOUS
  <2>2. m \in MessageState /\ m.acked = FALSE
    BY <1>1, <2>1 DEF MessageState
  <2>3. QED
    BY <2>1, <2>2 DEF Mint
<1>3. minted \in Seq(MessageState) /\ Len(minted) \in Nat
  BY DEF StoreInv, StoreTypeOK
<1>4. /\ Len(minted') = Len(minted) + 1 /\ minted'[NextId] = m
      /\ \A j \in 1..Len(minted) : minted'[j] = minted[j]
  BY <1>2, <1>3, MintedGrows
<1>5. seen[d].watchedAt \in Nat
  BY DEF HistoryInv, SeenState
<1>6. CASE i # NextId
  <2>1. i \in (seen[d].watchedAt + 1)..Len(minted) /\ i \in 1..Len(minted)
    BY <1>3, <1>4, <1>5, <1>6 DEF NextId
  <2>2. OneCopy(d, i)
    BY <2>1 DEF Watched
  <2>3. WireDue(d, i)' <=> WireDue(d, i)
    BY <1>4, <2>1 DEF WireDue, FromOf
  <2>4. QED
    BY <2>2, <2>3 DEF OneCopy, Wire
<1>7. CASE i = NextId
  <2>1. ~WireDue(d, i)'
    BY <1>2, <1>4, <1>7 DEF WireDue
  <2>2. outbox[d] \in Seq(Entry(MsgId))
    BY DEF OutboxInv
  <2>3. Wire(NextId) \notin Entry(MsgId)
    BY <1>3 DEF Entry, Wire, NextId, MsgId
  <2>4. Occurs(outbox[d], Wire(i)) = {}
    BY <1>7, <2>2, <2>3 DEF Occurs
  <2>5. QED
    BY <2>1, <2>4 DEF OneCopy, Wire
<1>8. QED
  BY <1>6, <1>7

\* Every step keeps each watcher's copies exact, whatever fails.
LEMMA WireNext ==
    ASSUME RegistryInv, StoreInv, OutboxInv, HistoryInv, WireInv, [Next]_vars
    PROVE  WireInv'
<1>1. /\ conn \in [Conn -> ConnState] /\ seen \in [Conn -> SeenState]
      /\ \A d \in Conn : Watched(d)
  BY DEF RegistryInv, RegistryTypeOK, HistoryInv, WireInv
<1>2. FreshConn.wire = None
  BY DEF FreshConn
<1>3. <<>> \in Seq(MsgId)
  OBVIOUS
<1> SUFFICES ASSUME NEW d \in Conn PROVE Watched(d)'
  BY DEF WireInv
<1>4. ASSUME minted' = minted, conn'[d] = conn[d],
             seen'[d].watchedAt = seen[d].watchedAt, outbox'[d] = outbox[d]
      PROVE  Watched(d)'
  BY <1>1, <1>3, <1>4, WatchedQuiet
<1>5. ASSUME NEW c \in Conn, NEW r, conn' = [conn EXCEPT ![c] = r], d # c
      PROVE  conn'[d] = conn[d]
  BY <1>1, <1>5
<1>6. ASSUME NEW c \in Conn, NEW q, NEW ids, Hand(c, q, ids)
      PROVE  /\ d # c => outbox'[d] = outbox[d]
             /\ outbox'[d] = outbox[d] \/ outbox'[d] = outbox[d] \o Messages(q)
  BY <1>6 DEF Hand, Put, OutboxInv
<1>7. ASSUME NEW except, NEW gone, NEW added \in SUBSET SessionInfo,
             NEW b, b = Broadcast(seen, except, gone, added)
      PROVE  b[d].watchedAt = seen[d].watchedAt
  BY <1>1, <1>7, BroadcastStep
<1>8. ASSUME NEW c \in Conn, NEW s \in Sid, NEW h \in Home,
             Hello(c, s, h) \/ HelloDrainFails(c, s, h)
      PROVE  Watched(d)'
  <2>1. /\ conn' = [conn EXCEPT ![c] = [conn[c] EXCEPT !.sid = s, !.home = h]]
        /\ conn[c].sid = None /\ minted' = minted
    BY <1>8 DEF Hello, HelloDrainFails, Register, Identified
  <2>2. CASE d = c
    <3>1. conn'[c] = [conn[c] EXCEPT !.sid = s, !.home = h] /\ conn[c] \in ConnState
      BY <1>1, <2>1
    <3>2. conn'[c].wire = conn[c].wire
      BY <3>1 DEF ConnState
    <3>3. conn[c].wire = None
      BY <1>1, <2>1 DEF Watched
    <3>4. QED
      BY <2>2, <3>2, <3>3, Unwatched
  <2>3. CASE d # c
    <3>1. conn'[d] = conn[d]
      BY <1>5, <2>1, <2>3
    <3>2. outbox'[d] = outbox[d]
      BY <1>6, <1>8, <2>3 DEF Hello, HelloDrainFails
    <3>3. seen'[d].watchedAt = seen[d].watchedAt
      <4>1. {<<s, h, None>>} \in SUBSET SessionInfo
        BY DEF SessionInfo
      <4>2. PICK b : b = Broadcast(seen, s, None, {<<s, h, None>>})
        OBVIOUS
      <4>3. b[d].watchedAt = seen[d].watchedAt
        BY <1>7, <4>1, <4>2
      <4>4. seen' = b \/ seen' = seen
        BY <1>8, <4>2 DEF Hello, HelloDrainFails
      <4>5. QED
        BY <4>3, <4>4
    <3>4. QED
      BY <1>4, <2>1, <3>1, <3>2, <3>3
  <2>4. QED
    BY <2>2, <2>3
<1>9. ASSUME NEW c \in Conn, Disconnect(c) PROVE Watched(d)'
  <2>1. /\ conn' = [conn EXCEPT ![c] = FreshConn]
        /\ minted' = minted /\ outbox' = outbox
    BY <1>9 DEF Disconnect, mail
  <2>2. CASE d = c
    BY <1>1, <1>2, <2>1, <2>2, Unwatched
  <2>3. CASE d # c
    <3>1. PICK b : b = Broadcast(seen, conn[c].sid, conn[c].sid, {})
      OBVIOUS
    <3>2. b[d].watchedAt = seen[d].watchedAt /\ b = [x \in Conn |-> b[x]]
      BY <1>7, <3>1 DEF Broadcast
    <3>3. seen' = [b EXCEPT ![c] = FreshSeen]
      BY <1>9, <3>1 DEF Disconnect
    <3>4. seen'[d].watchedAt = seen[d].watchedAt
      BY <2>3, <3>2, <3>3
    <3>5. QED
      BY <1>4, <1>5, <2>1, <2>3, <3>4
  <2>4. QED
    BY <2>2, <2>3
<1>10. ASSUME NEW c \in Conn, Session(c) PROVE Watched(d)'
  <2>1. CASE Accept(c)
    <3>1. CASE d = c
      <4>1. [FreshConn EXCEPT !.open = TRUE].wire = None
        BY DEF FreshConn
      <4>2. conn'[c].wire = None
        BY <1>1, <2>1, <4>1 DEF Accept
      <4>3. QED
        BY <3>1, <4>2, Unwatched
    <3>2. CASE d # c
      BY <1>1, <1>4, <2>1, <3>2 DEF Accept
    <3>3. QED
      BY <3>1, <3>2
  <2>2. CASE WriterFails(c)
    <3>1. /\ conn' = [conn EXCEPT ![c].closed = TRUE]
          /\ minted' = minted /\ outbox' = outbox /\ seen' = seen
      BY <2>2 DEF WriterFails, mail
    <3>2. /\ conn'[d].sid = conn[d].sid /\ conn'[d].home = conn[d].home
          /\ conn'[d].wire = conn[d].wire /\ (conn[d].closed => conn'[d].closed)
      BY <1>1, <3>1 DEF ConnState
    <3>3. QED
      BY <1>1, <1>3, <3>1, <3>2, WatchedQuiet
  <2>3. QED
    BY <1>8, <1>9, <1>10, <2>1, <2>2 DEF Session
<1>11. ASSUME NEW c \in Conn, NEW new \in Alias \cup {None},
              SetAlias(c, new) \/ SetAliasDrainFails(c, new)
       PROVE  Watched(d)'
  <2> DEFINE r == [conn[c] EXCEPT !.alias = new]
             a == <<conn[c].home, new>>
  <2>1. /\ conn' = [conn EXCEPT ![c] = r] /\ conn[c].sid # None /\ minted' = minted
    BY <1>11 DEF SetAlias, SetAliasDrainFails, TakeAlias, Identified
  <2>2. conn[c] \in ConnState /\ conn[c].home \in Home /\ conn[c].sid \in Sid
    BY <1>1, <2>1, IdentifiedFacts
  <2>3. r.sid = conn[c].sid /\ r.home = conn[c].home /\ r.wire = conn[c].wire
        /\ r.closed = conn[c].closed
    BY <2>2 DEF ConnState
  <2>4. conn'[d] = IF d = c THEN r ELSE conn[d]
    BY <1>1, <2>1
  <2> HIDE DEF r
  <2>5. /\ conn'[d].sid = conn[d].sid /\ conn'[d].home = conn[d].home
        /\ conn'[d].wire = conn[d].wire /\ (conn[d].closed => conn'[d].closed)
    BY <2>3, <2>4
  <2>6. PICK q \in Seq(MsgId) :
           outbox'[d] = outbox[d] \/ outbox'[d] = outbox[d] \o Messages(q)
    <3>1. a \in Addr
      BY <2>2 DEF Addr, DmAddr
    <3>2. Drained(c, a) \in Seq(MsgId)
      BY <3>1, QueueTypes
    <3>3. CASE Hand(c, Drained(c, a), Accepted(c, a))
      BY <1>6, <3>2, <3>3
    <3>4. CASE outbox' = outbox
      BY <1>3, <3>4
    <3>5. QED
      BY <1>11, <3>3, <3>4 DEF SetAlias, SetAliasDrainFails
  <2>7. seen'[d].watchedAt = seen[d].watchedAt
    <3>1. PICK added, b : /\ added = {<<conn[c].sid, conn[c].home, new>>}
                          /\ b = Broadcast(seen, None, conn[c].sid, added)
      OBVIOUS
    <3>2. added \in SUBSET SessionInfo
      BY <2>2, <3>1 DEF SessionInfo
    <3>3. b[d].watchedAt = seen[d].watchedAt
      BY <1>7, <3>1, <3>2
    <3>4. seen' = b \/ seen' = seen
      BY <1>11, <3>1 DEF SetAlias, SetAliasDrainFails
    <3>5. QED
      BY <3>3, <3>4
  <2>8. QED
    BY <1>1, <2>1, <2>5, <2>6, <2>7, WatchedQuiet
<1>12. ASSUME NEW c \in Conn, NEW f \in DmFilters, SetDmFilter(c, f) PROVE Watched(d)'
  <2>1. /\ conn' = [conn EXCEPT ![c].dm_filter = f]
        /\ seen' = [seen EXCEPT ![c].narrowed = TRUE]
        /\ minted' = minted /\ outbox' = outbox
    BY <1>12 DEF SetDmFilter, mail
  <2>2. /\ conn'[d].sid = conn[d].sid /\ conn'[d].home = conn[d].home
        /\ conn'[d].wire = conn[d].wire /\ (conn[d].closed => conn'[d].closed)
    BY <1>1, <2>1 DEF ConnState
  <2>3. seen'[d].watchedAt = seen[d].watchedAt
    BY <1>1, <2>1 DEF SeenState
  <2>4. QED
    BY <1>1, <1>3, <2>1, <2>2, <2>3, WatchedQuiet
<1>13. ASSUME NEW c \in Conn, NEW w \in WireFilters, Watch(c, w) PROVE Watched(d)'
  <2>1. /\ conn' = [conn EXCEPT ![c].wire = w] /\ conn[c].sid # None
        /\ seen' = [seen EXCEPT ![c].watchedAt = Len(minted)]
        /\ minted' = minted /\ outbox' = outbox
    BY <1>13 DEF Watch, Identified, mail
  <2>2. CASE d # c
    BY <1>1, <1>4, <2>1, <2>2
  <2>3. CASE d = c
    <3>1. conn'[d].sid # None
      BY <1>1, <2>1, <2>3 DEF ConnState
    <3>2. seen'[d].watchedAt = Len(minted')
      BY <1>1, <2>1, <2>3 DEF SeenState
    <3>3. Len(minted') \in Nat
      BY <2>1 DEF StoreInv, StoreTypeOK
    <3>4. (Len(minted') + 1)..Len(minted') = {}
      BY <3>3
    <3>5. QED
      BY <3>1, <3>2, <3>4 DEF Watched
  <2>4. QED
    BY <2>2, <2>3
<1>14. ASSUME NEW c \in Conn, Unwatch(c) PROVE Watched(d)'
  <2>1. /\ conn' = [conn EXCEPT ![c].wire = None]
        /\ seen' = seen /\ minted' = minted /\ outbox' = outbox
    BY <1>14 DEF Unwatch, mail
  <2>2. CASE d # c
    BY <1>1, <1>4, <2>1, <2>2
  <2>3. CASE d = c
    <3>1. conn'[d].wire = None
      BY <1>1, <2>1, <2>3 DEF ConnState
    <3>2. QED
      BY <3>1, Unwatched
  <2>4. QED
    BY <2>2, <2>3
<1>15. ASSUME NEW c \in Conn,
              \/ \E a \in DmAddr : Send(c, a)
              \/ \E t \in Topic : Publish(c, t)
       PROVE  Watched(d)'
  <2>1. PICK a \in Addr, targets \in SUBSET Conn :
           /\ Mint(c, a, TRUE, Cardinality(targets))
           /\ outbox' = FanOut(NextId, targets, Watchers(c, a))
           /\ conn[c].sid # None /\ conn' = conn /\ seen' = seen
    BY <1>15 DEF Send, Publish, Addr, DmTargets, TopicTargets, Identified
  <2>2. Cardinality(targets) \in Nat
    BY SlotsAssumption, FS_Subset, FS_CardinalityType
  <2>3. QED
    BY <1>1, <2>1, <2>2, WatchedMint
<1>16. ASSUME NEW c \in Conn,
              \/ \E a \in DmAddr : SendFlushFails(c, a)
              \/ \E t \in Topic : PublishFlushFails(c, t)
       PROVE  Watched(d)'
  <2>1. PICK a \in Addr : /\ Mint(c, a, FALSE, 0) /\ outbox' = outbox
                          /\ conn[c].sid # None /\ conn' = conn /\ seen' = seen
    BY <1>16 DEF SendFlushFails, PublishFlushFails, Addr, Identified
  <2>2. QED
    BY <1>1, <2>1, WatchedUnacked
<1>17. ASSUME NEW c \in Conn, NEW t \in Topic, NEW r \in Replays, Subscribe(c, t, r)
       PROVE  Watched(d)'
  <2> DEFINE replay == IF r = 0 THEN <<>> ELSE LastN(buffers[t], r)
  <2>1. /\ conn' = [conn EXCEPT ![c].subscriptions = @ \cup {t}]
        /\ outbox' = [outbox EXCEPT ![c] = Put(c, Messages(replay))]
        /\ minted' = minted
    BY <1>17 DEF Subscribe
  <2>2. PICK v : seen' = [seen EXCEPT ![c].joined[t] = v]
    BY <1>17 DEF Subscribe
  <2>3. replay \in Seq(MsgId)
    BY <1>3, QueueTypes, BoundsAssumption DEF Addr
  <2> HIDE DEF replay
  <2>4. outbox'[d] = outbox[d] \/ outbox'[d] = outbox[d] \o Messages(replay)
    BY <2>1 DEF Put, OutboxInv
  <2>5. /\ conn'[d].sid = conn[d].sid /\ conn'[d].home = conn[d].home
        /\ conn'[d].wire = conn[d].wire /\ (conn[d].closed => conn'[d].closed)
    BY <1>1, <2>1 DEF ConnState
  <2>6. seen'[d].watchedAt = seen[d].watchedAt
    BY <1>1, <2>2 DEF SeenState
  <2>7. QED
    BY <1>1, <2>1, <2>3, <2>4, <2>5, <2>6, WatchedQuiet
<1>18. ASSUME NEW c \in Conn, NEW t \in Topic, Unsubscribe(c, t) PROVE Watched(d)'
  <2>1. /\ conn' = [conn EXCEPT ![c].subscriptions = @ \ {t}]
        /\ seen' = [seen EXCEPT ![c].joined[t] = None]
        /\ minted' = minted /\ outbox' = outbox
    BY <1>18 DEF Unsubscribe, mail
  <2>2. /\ conn'[d].sid = conn[d].sid /\ conn'[d].home = conn[d].home
        /\ conn'[d].wire = conn[d].wire /\ (conn[d].closed => conn'[d].closed)
    BY <1>1, <2>1 DEF ConnState
  <2>3. seen'[d].watchedAt = seen[d].watchedAt
    BY <1>1, <2>1 DEF SeenState
  <2>4. QED
    BY <1>1, <1>3, <2>1, <2>2, <2>3, WatchedQuiet
<1>19. ASSUME NEW c \in Conn, ListPeers(c) PROVE Watched(d)'
  <2>1. /\ seen' = [seen EXCEPT ![c].view = Sessions]
        /\ conn' = conn /\ minted' = minted /\ outbox' = outbox
    BY <1>19 DEF ListPeers, mail
  <2>2. seen'[d].watchedAt = seen[d].watchedAt
    BY <1>1, <2>1 DEF SeenState
  <2>3. QED
    BY <1>4, <2>1, <2>2
<1>20. ASSUME NEW c \in Conn, Request(c) PROVE Watched(d)'
  BY <1>11, <1>12, <1>13, <1>14, <1>15, <1>16, <1>17, <1>18, <1>19, <1>20 DEF Request
<1>21. CASE Restart
  BY <1>2, <1>21, Unwatched DEF Restart
<1>22. CASE UNCHANGED vars
  BY <1>4, <1>22 DEF vars, mail
<1>23. QED
  BY <1>10, <1>20, <1>21, <1>22 DEF Next

\* Whatever fails, a watcher has exactly one copy of each message of others its
\* filters match since it last asked, and none of any other (WireExact).
THEOREM WatchersSeeAll == Spec => []WireExact
<1>1. Init => OutboxInv /\ HistoryInv /\ WireInv
  <2> SUFFICES ASSUME Init PROVE OutboxInv /\ HistoryInv /\ WireInv
    OBVIOUS
  <2>1. /\ minted = <<>> /\ Len(minted) = 0
        /\ seen = [c \in Conn |-> FreshSeen] /\ outbox = [c \in Conn |-> <<>>]
        /\ \A c \in Conn : conn[c].wire = None
    BY DEF Init, FreshConn
  <2>2. OutboxInv
    BY <2>1 DEF OutboxInv
  <2>3. HistoryInv
    BY <2>1, FreshSeenType DEF HistoryInv
  <2>4. WireInv
    BY <2>1 DEF WireInv, Watched
  <2>5. QED
    BY <2>2, <2>3, <2>4
<1>2. RegistryInv /\ StoreInv /\ OutboxInv /\ HistoryInv /\ [Next]_vars
        => OutboxInv' /\ HistoryInv'
  BY OutboxNext, HistoryNext
<1>3. RegistryInv /\ StoreInv /\ OutboxInv /\ HistoryInv /\ WireInv /\ [Next]_vars
        => WireInv'
  BY WireNext
<1>4. QED
  BY <1>1, <1>2, <1>3, WireMeans, RegistryInit, RegistryNext, StoreInit, StoreNext, PTL
     DEF Spec

-------------------------------------------------------------------------------
(***************************************************************************)
(* The feeds.  What a subscriber was handed since it joined a topic is     *)
(* the replay and then, one by one, what others published.                 *)
(***************************************************************************)

\* The messages to t as an outbox holds them, and the ids in entries of it.
TopicEntries(t) == {e \in Entry(MsgId) : e[1] = "message" /\ minted[e[2]].to = t}
Numbers(q) == [k \in DOMAIN q |-> q[k][2]]
FedOf(q, t) == Numbers(Select(q, TopicEntries(t)))

News(d, t) == SubSeq(outbox[d], seen[d].joined[t].pos + 1, Len(outbox[d]))

DueTo(d, t) ==
    {i \in MsgId : /\ minted[i].to = t
                   /\ i > seen[d].joined[t].from
                   /\ i <= seen[d].joined[t].at \/ minted[i].from # FromOf(d)}

Feed(d, t) ==
    seen[d].joined[t] # None =>
        /\ t \in conn[d].subscriptions
        /\ seen[d].joined[t].pos <= Len(outbox[d])
        /\ seen[d].joined[t].from <= Len(minted)
        /\ ~conn[d].closed => FedOf(News(d, t), t) = MintedIn(DueTo(d, t))

FeedInv == \A d \in Conn, t \in Topic : Feed(d, t)

\* Where a feed starts is a position and two ids.
LEMMA JoinTypes ==
    ASSUME HistoryInv, NEW d \in Conn, NEW t \in Topic, seen[d].joined[t] # None
    PROVE  /\ seen[d].joined[t].pos \in Nat /\ seen[d].joined[t].from \in Nat
           /\ seen[d].joined[t].at \in Nat /\ seen[d].joined[t].at <= Len(minted)
BY DEF HistoryInv

\* The entries the property counts.
NewsOf(d, t) ==
    {e \in Ids(News(d, t)) : e[1] = "message" /\ minted[e[2]].to = t}

\* A sequence is one of its members.
LEMMA SeqOfIds ==
    ASSUME NEW S, NEW q \in Seq(S), NEW T, \A x \in Ids(q) : x \in T
    PROVE  q \in Seq(T)
<1>1. \A k \in DOMAIN q : q[k] \in Ids(q)
  BY DEF Ids
<1>2. QED
  BY <1>1

\* The feed as the property selects it.
LEMMA FeedMeans ==
    ASSUME OutboxInv, HistoryInv, FeedInv PROVE TopicFeedExact
<1> SUFFICES ASSUME NEW c \in Conn, NEW t \in Topic, ~conn[c].closed,
                    seen[c].joined[t] # None
             PROVE  Numbers(Select(News(c, t), NewsOf(c, t))) =
                       Select([i \in MsgId |-> i], DueTo(c, t))
  BY DEF TopicFeedExact, Published, News, NewsOf, DueTo, Numbers
<1>0. PICK news, A : news = News(c, t) /\ A = NewsOf(c, t)
  OBVIOUS
<1>1. /\ outbox[c] \in Seq(Entry(MsgId)) /\ seen[c].joined[t].pos \in Nat
      /\ seen[c].joined[t].pos <= Len(outbox[c])
  BY JoinTypes DEF OutboxInv, FeedInv, Feed
<1>2. news \in Seq(Entry(MsgId))
  BY <1>0, <1>1, RestConcat DEF News
<1>3. /\ news \in Seq(Ids(news))
      /\ \A x \in Ids(news) : x \in Entry(MsgId)
  <2>1. news \in Seq(Ids(news))
    BY <1>2, SeqOfIds
  <2>2. \A k \in DOMAIN news : news[k] \in Entry(MsgId)
    BY <1>2
  <2>3. QED
    BY <2>1, <2>2 DEF Ids
<1>4. \A x \in Ids(news) : x \in A <=> x \in TopicEntries(t)
  BY <1>0, <1>3 DEF TopicEntries, NewsOf
<1>5. Select(news, A) = Select(news, TopicEntries(t))
  BY <1>3, <1>4, SelectSame
<1>7. [i \in MsgId |-> i] = UpTo(Len(minted))
  BY DEF UpTo, MsgId
<1>8. FedOf(news, t) = MintedIn(DueTo(c, t))
  BY <1>0 DEF FeedInv, Feed
<1>9. QED
  BY <1>0, <1>5, <1>7, <1>8 DEF FedOf, MintedIn

\* The ids in entries that follow one another.
LEMMA FedConcat ==
    ASSUME NEW N, NEW p \in Seq(Entry(N)), NEW e \in Seq(Entry(N)), NEW A
    PROVE  /\ Numbers(Select(p \o e, A)) = Numbers(Select(p, A)) \o Numbers(Select(e, A))
           /\ Numbers(Select(p, A)) \in Seq(N)
<1> DEFINE E == Entry(N)
<1>1. \A x \in E : x[2] \in N
  BY DEF Entry
<1> HIDE DEF E
<1>2. p \in Seq(E) /\ e \in Seq(E)
  BY DEF E
<1>3. /\ Select(p \o e, A) = Select(p, A) \o Select(e, A)
      /\ Select(p, A) \in Seq(E) /\ Select(e, A) \in Seq(E)
  <2>1. \A q \in Seq(E) : Select(q, A) \in Seq(E)
    BY SelectIds
  <2>2. \A q \in Seq(E) : Select(p \o q, A) = Select(p, A) \o Select(q, A)
    BY <1>2, SelectConcat
  <2>3. QED
    BY <1>2, <2>1, <2>2
<1>4. ASSUME NEW u \in Seq(E)
      PROVE  /\ Numbers(u) \in Seq(N) /\ Len(Numbers(u)) = Len(u)
             /\ \A k \in 1..Len(u) : Numbers(u)[k] = u[k][2]
  <2>1. PICK n \in Nat : n = Len(u) /\ DOMAIN u = 1..n
    OBVIOUS
  <2>2. Numbers(u) = [k \in 1..n |-> u[k][2]]
    BY <2>1 DEF Numbers
  <2>3. \A k \in 1..n : u[k][2] \in N
    BY <1>1, <2>1
  <2>4. Numbers(u) \in Seq(N) /\ Len(Numbers(u)) = n
    BY <2>2, <2>3
  <2>5. QED
    BY <2>1, <2>2, <2>4
<1>5. ASSUME NEW u \in Seq(E), NEW v \in Seq(E)
      PROVE  Numbers(u \o v) = Numbers(u) \o Numbers(v)
  <2>1. PICK r, a, b, z : /\ r = u \o v /\ a = Numbers(u) /\ b = Numbers(v)
                          /\ z = Numbers(r)
    OBVIOUS
  <2>2. /\ r \in Seq(E) /\ Len(r) = Len(u) + Len(v)
        /\ \A k \in 1..Len(u) : r[k] = u[k]
        /\ \A k \in (Len(u) + 1)..Len(r) : r[k] = v[k - Len(u)]
    BY <2>1
  <2>3. /\ a \in Seq(N) /\ b \in Seq(N) /\ z \in Seq(N)
        /\ Len(a) = Len(u) /\ Len(b) = Len(v) /\ Len(z) = Len(r)
        /\ \A k \in 1..Len(u) : a[k] = u[k][2]
        /\ \A k \in 1..Len(v) : b[k] = v[k][2]
        /\ \A k \in 1..Len(r) : z[k] = r[k][2]
    BY <1>4, <2>1, <2>2
  <2>4. PICK y : y = a \o b
    OBVIOUS
  <2>5. /\ y \in Seq(N) /\ Len(y) = Len(a) + Len(b)
        /\ \A k \in 1..Len(a) : y[k] = a[k]
        /\ \A k \in (Len(a) + 1)..Len(y) : y[k] = b[k - Len(a)]
    <3>1. a \in Seq(N) /\ b \in Seq(N)
      BY <2>3
    <3>2. QED
      BY ONLY <2>4, <3>1
  <2>6. ASSUME NEW k \in 1..Len(z) PROVE z[k] = y[k]
    <3>1. CASE k <= Len(u)
      <4>1. k \in 1..Len(u) /\ k \in 1..Len(a) /\ k \in 1..Len(r)
        BY <2>2, <2>3, <3>1
      <4>2. z[k] = r[k][2] /\ r[k] = u[k] /\ a[k] = u[k][2] /\ y[k] = a[k]
        BY <2>2, <2>3, <2>5, <4>1
      <4>3. QED
        BY <4>2
    <3>2. CASE k > Len(u)
      <4>1. k - Len(u) \in 1..Len(v) /\ k \in (Len(u) + 1)..Len(r)
        BY <2>2, <2>3, <3>2
      <4>2. z[k] = v[k - Len(u)][2]
        BY <2>2, <2>3, <4>1
      <4>3. y[k] = b[k - Len(u)]
        BY <2>2, <2>3, <2>5, <4>1
      <4>4. QED
        BY <2>3, <4>1, <4>2, <4>3
    <3>3. QED
      BY <2>2, <2>3, <3>1, <3>2
  <2>7. z = y
    BY <2>2, <2>3, <2>5, <2>6, SeqEqual
  <2>8. QED
    BY <2>1, <2>4, <2>7
<1>6. QED
  BY <1>3, <1>4, <1>5

\* The ids in a queue put on an outbox, all of the kind asked for or none.
LEMMA FedMessages ==
    ASSUME NEW N, NEW q \in Seq(N), NEW A
    PROVE  /\ (\A i \in Ids(q) : Message(i) \in A)
                 => Numbers(Select(Messages(q), A)) = q
           /\ (\A i \in Ids(q) : Message(i) \notin A)
                 => Numbers(Select(Messages(q), A)) = <<>>
<1> DEFINE S == {Message(i) : i \in Ids(q)}
<1>1. Messages(q) \in Seq(S)
  BY DEF Messages, Ids
<1>2. ASSUME \A i \in Ids(q) : Message(i) \in A
      PROVE  Numbers(Select(Messages(q), A)) = q
  <2>1. S \subseteq A
    BY <1>2
  <2> HIDE DEF S
  <2>2. Select(Messages(q), A) = Messages(q)
    BY <1>1, <2>1, SelectAllNone
  <2>3. Numbers(Messages(q)) = q
    BY DEF Numbers, Messages, Message
  <2>4. QED
    BY <2>2, <2>3
<1>3. ASSUME \A i \in Ids(q) : Message(i) \notin A
      PROVE  Numbers(Select(Messages(q), A)) = <<>>
  <2>1. S \cap A = {}
    BY <1>3
  <2> HIDE DEF S
  <2>2. Select(Messages(q), A) = <<>>
    BY <1>1, <2>1, SelectAllNone
  <2>3. QED
    BY <2>2 DEF Numbers
<1>4. QED
  BY <1>2, <1>3

\* The ids in what FanOut puts on one outbox, when wire copies are not asked for.
LEMMA FedShare ==
    ASSUME NEW N, NEW i \in N, NEW T, NEW W, NEW d, NEW e, e = Share(i, d, T, W),
           NEW A, Wire(i) \notin A
    PROVE  Numbers(Select(e, A)) = IF d \in T /\ Message(i) \in A THEN <<i>> ELSE <<>>
<1> DEFINE S == {Message(i), Wire(i)}
           m == IF d \in T THEN <<Message(i)>> ELSE <<>>
           w == IF d \in W THEN <<Wire(i)>> ELSE <<>>
<1>1. Message(i) \in S /\ Wire(i) \in S /\ <<>> \in Seq(S)
  OBVIOUS
<1>2. e = m \o w
  BY DEF Share
<1> HIDE DEF S
<1>3. m \in Seq(S) /\ w \in Seq(S)
  <2>1. <<Message(i)>> \in Seq(S) /\ <<Wire(i)>> \in Seq(S)
    BY <1>1
  <2>2. QED
    BY <1>1, <2>1
<1>4. \A x \in S : Select(<<x>>, A) = IF x \in A THEN <<x>> ELSE <<>>
  <2>1. \A q \in Seq(S), x \in S : Select(Append(q, x), A) =
           IF x \in A THEN Append(Select(q, A), x) ELSE Select(q, A)
    BY SelectAppend
  <2>2. Select(<<>>, A) = <<>>
    BY SelectAppend
  <2>3. \A x \in S : <<x>> = Append(<<>>, x)
    OBVIOUS
  <2>4. QED
    BY <1>1, <2>1, <2>2, <2>3
<1>5. Select(<<>>, A) = <<>>
  BY SelectAppend
<1>a. Select(w, A) = <<>>
  BY <1>1, <1>4, <1>5
<1>b. Select(m, A) = IF d \in T /\ Message(i) \in A THEN <<Message(i)>> ELSE <<>>
  BY <1>1, <1>4, <1>5
<1> HIDE DEF m, w
<1>6. Select(e, A) = Select(m, A) \o <<>>
  <2>1. \A q \in Seq(S) : Select(m \o q, A) = Select(m, A) \o Select(q, A)
    BY <1>3, SelectConcat
  <2>2. QED
    BY <1>2, <1>3, <1>a, <2>1
<1>7. Select(m, A) \o <<>> = Select(m, A)
  BY <1>3, SelectIds
<1>8. Numbers(<<Message(i)>>) = <<i>> /\ Numbers(<<>>) = <<>>
  BY DEF Numbers, Message
<1>9. QED
  BY <1>b, <1>6, <1>7, <1>8


\* Nobody is fed who joined nothing.
LEMMA Unfed ==
    ASSUME NEW d \in Conn, NEW t \in Topic, seen'[d].joined[t] = None
    PROVE  Feed(d, t)'
BY DEF Feed

\* A step that mints nothing and hands over only direct messages and messages to
\* other topics leaves the feed of t as it is.
LEMMA FeedQuiet ==
    ASSUME OutboxInv, HistoryInv, NEW d \in Conn, NEW t \in Topic, Feed(d, t),
           minted' = minted,
           conn'[d].sid = conn[d].sid, conn'[d].home = conn[d].home,
           t \in conn[d].subscriptions => t \in conn'[d].subscriptions,
           conn[d].closed => conn'[d].closed,
           seen'[d].joined[t] = seen[d].joined[t],
           NEW q \in Seq(MsgId), \A i \in Ids(q) : minted[i].to # t,
           outbox'[d] = outbox[d] \/ outbox'[d] = outbox[d] \o Messages(q)
    PROVE  Feed(d, t)'
<1> SUFFICES ASSUME seen[d].joined[t] # None
             PROVE  /\ seen[d].joined[t].pos <= Len(outbox'[d])
                    /\ ~conn[d].closed => FedOf(News(d, t), t)' = MintedIn(DueTo(d, t))'
  BY DEF Feed
<1>1. /\ outbox[d] \in Seq(Entry(MsgId)) /\ Messages(q) \in Seq(Entry(MsgId))
      /\ seen[d].joined[t].pos \in Nat /\ seen[d].joined[t].pos <= Len(outbox[d])
      /\ ~conn[d].closed => FedOf(News(d, t), t) = MintedIn(DueTo(d, t))
  BY JoinTypes, EntryTypes DEF OutboxInv, Feed
<1>2. /\ MintedIn(DueTo(d, t))' = MintedIn(DueTo(d, t))
      /\ TopicEntries(t)' = TopicEntries(t)
  BY DEF MintedIn, DueTo, TopicEntries, MsgId, FromOf
<1>3. CASE outbox'[d] = outbox[d]
  BY <1>1, <1>2, <1>3 DEF FedOf, News
<1>4. CASE outbox'[d] = outbox[d] \o Messages(q)
  <2>1. PICK p, e, n, A : /\ p = outbox[d] /\ e = Messages(q)
                          /\ n = seen[d].joined[t].pos /\ A = TopicEntries(t)
    OBVIOUS
  <2> DEFINE E == Entry(MsgId)
  <2>2. p \in Seq(E) /\ e \in Seq(E) /\ n \in Nat /\ n <= Len(p)
    BY <1>1, <2>1
  <2>3. /\ SubSeq(p, n + 1, Len(p)) \in Seq(E)
        /\ SubSeq(p \o e, n + 1, Len(p \o e)) = SubSeq(p, n + 1, Len(p)) \o e
    BY ONLY <2>2, RestConcat
  <2>4. PICK u : u = SubSeq(p, n + 1, Len(p))
    OBVIOUS
  <2>5. Numbers(Select(e, A)) = <<>>
    <3>1. \A i \in Ids(q) : Message(i) \notin A
      BY <2>1 DEF Message, TopicEntries
    <3>2. QED
      BY <2>1, <3>1, FedMessages
  <2>6. /\ Numbers(Select(u \o e, A)) = Numbers(Select(u, A)) \o Numbers(Select(e, A))
        /\ Numbers(Select(u, A)) \in Seq(MsgId)
    <3>1. u \in Seq(Entry(MsgId)) /\ e \in Seq(Entry(MsgId))
      BY <2>2, <2>3, <2>4
    <3>2. QED
      BY ONLY <3>1, FedConcat
  <2>7. Numbers(Select(u \o e, A)) = Numbers(Select(u, A))
    BY <2>5, <2>6
  <2>8. u = News(d, t) /\ u \o e = News(d, t)'
    BY <1>4, <2>1, <2>3, <2>4 DEF News
  <2>9. FedOf(News(d, t), t)' = FedOf(News(d, t), t)
    BY <1>2, <2>1, <2>7, <2>8 DEF FedOf
  <2>10. n <= Len(outbox'[d])
    BY <1>4, <2>1, <2>2
  <2>11. QED
    BY <1>1, <1>2, <2>1, <2>9, <2>10
<1>5. QED
  BY <1>3, <1>4

\* A message minted and handed over feeds the subscribers of its topic, but for
\* its sender; all other feeds stay.
LEMMA FeedMint ==
    ASSUME RegistryInv, StoreInv, OutboxInv, HistoryInv, NEW c \in Conn, NEW d \in Conn,
           NEW t \in Topic, Feed(d, t), conn[c].sid # None, NEW a \in Addr, NEW n \in Nat,
           Mint(c, a, TRUE, n), NEW targets, NEW watchers,
           outbox' = FanOut(NextId, targets, watchers),
           a = t => targets = TopicTargets(c, t), conn' = conn, seen' = seen
    PROVE  Feed(d, t)'
<1> SUFFICES ASSUME seen[d].joined[t] # None
             PROVE  /\ seen[d].joined[t].pos <= Len(outbox'[d])
                    /\ seen[d].joined[t].from <= Len(minted')
                    /\ ~conn[d].closed => FedOf(News(d, t), t)' = MintedIn(DueTo(d, t))'
  BY DEF Feed
<1>1. /\ conn[c].sid \in Sid /\ FromOf(c) \in FromAddr
  BY IdentifiedFacts
<1>2. PICK m \in MessageState :
         minted' = Append(minted, m) /\ m.from = FromOf(c) /\ m.to = a
  <2>1. PICK m : m = [from |-> FromOf(c), to |-> a, acked |-> TRUE, delivered |-> n]
    OBVIOUS
  <2>2. m \in MessageState /\ m.from = FromOf(c) /\ m.to = a
    BY <1>1, <2>1 DEF MessageState
  <2>3. QED
    BY <2>1, <2>2 DEF Mint
<1>3. /\ minted \in Seq(MessageState) /\ Len(minted) \in Nat
      /\ Len(minted') = Len(minted) + 1 /\ minted'[NextId] = m
      /\ \A j \in 1..Len(minted) : minted'[j] = minted[j]
  <2>1. minted \in Seq(MessageState) /\ Len(minted) \in Nat
    BY DEF StoreInv, StoreTypeOK
  <2>2. QED
    BY <1>2, <2>1, MintedGrows
<1>4. /\ MsgId' = MsgId \cup {NextId} /\ NextId \in MsgId' /\ NextId \notin MsgId
      /\ \A j \in MsgId : minted'[j] = minted[j]
  BY <1>3 DEF MsgId, NextId
<1>5. /\ outbox[d] \in Seq(Entry(MsgId))
      /\ seen[d].joined[t].pos \in Nat /\ seen[d].joined[t].pos <= Len(outbox[d])
      /\ seen[d].joined[t].from \in Nat /\ seen[d].joined[t].from <= Len(minted)
      /\ seen[d].joined[t].at \in Nat /\ seen[d].joined[t].at <= Len(minted)
      /\ ~conn[d].closed => FedOf(News(d, t), t) = MintedIn(DueTo(d, t))
  BY JoinTypes DEF OutboxInv, Feed
<1>6. seen[d].joined[t].from <= Len(minted')
  BY <1>3, <1>5
<1>7. CASE conn[d].closed
  BY <1>5, <1>6, <1>7 DEF FanOut, Put
<1>8. CASE ~conn[d].closed
  <2>1. PICK p, e, k, A, B :
           /\ p = outbox[d] /\ e = Share(NextId, d, targets, watchers)
           /\ k = seen[d].joined[t].pos
           /\ A = TopicEntries(t) /\ B = TopicEntries(t)'
    OBVIOUS
  <2>2. outbox'[d] = p \o e
    BY <1>8, <2>1 DEF FanOut, Put, Share
  <2> DEFINE N == MsgId \cup {NextId}
             E == Entry(N)
  <2>3. p \in Seq(E)
    <3>1. Entry(MsgId) \subseteq E
      BY DEF Entry
    <3>2. QED
      BY <1>5, <2>1, <3>1, SeqMonotonic
  <2>4. NextId \in N
    OBVIOUS
  <2>5. /\ Message(NextId) \in B <=> a = t
        /\ Wire(NextId) \notin B
        /\ \A x \in Entry(MsgId) : x \in A <=> x \in B
    BY <1>2, <1>3, <1>4, <2>1 DEF Message, Wire, TopicEntries, Entry
  <2> HIDE DEF N
  <2>6. e \in Seq(E)
    BY <2>1, <2>4, FanOutEntries
  <2>7. Numbers(Select(e, B)) = IF d \in targets /\ Message(NextId) \in B
                                THEN <<NextId>> ELSE <<>>
    BY <2>1, <2>4, <2>5, FedShare
  <2>8. k \in Nat /\ k <= Len(p)
    BY <1>5, <2>1
  <2> HIDE DEF E
  <2>9. /\ SubSeq(p, k + 1, Len(p)) \in Seq(E)
        /\ SubSeq(p \o e, k + 1, Len(p \o e)) = SubSeq(p, k + 1, Len(p)) \o e
    BY ONLY <2>3, <2>6, <2>8, RestConcat
  <2>10. PICK u : u = SubSeq(p, k + 1, Len(p))
    OBVIOUS
  <2>11. u = News(d, t) /\ u \o e = News(d, t)'
    BY <2>1, <2>2, <2>9, <2>10 DEF News
  <2>12. /\ Numbers(Select(u \o e, B)) = Numbers(Select(u, B)) \o Numbers(Select(e, B))
         /\ Numbers(Select(u, B)) \in Seq(N)
    <3>1. u \in Seq(Entry(N)) /\ e \in Seq(Entry(N))
      BY <2>6, <2>9, <2>10 DEF E
    <3>2. QED
      BY ONLY <3>1, FedConcat
  <2>13. Select(u, A) = Select(u, B)
    <3>1. u \in Seq(Entry(MsgId))
      BY <1>5, <2>1, <2>8, <2>10, RestConcat
    <3>2. QED
      BY <2>5, <3>1, SelectSame
  <2>14. FedOf(News(d, t), t)' = IF d \in targets /\ a = t
                                 THEN Append(FedOf(News(d, t), t), NextId)
                                 ELSE FedOf(News(d, t), t)
    <3>1. PICK f : f = Numbers(Select(u, A))
      OBVIOUS
    <3>2. f \in Seq(N)
      BY <2>12, <2>13, <3>1
    <3>3. f \o <<NextId>> = Append(f, NextId) /\ f \o <<>> = f
      BY <2>4, <3>2
    <3>4. Numbers(Select(u \o e, B)) = IF d \in targets /\ a = t
                                       THEN Append(f, NextId) ELSE f
      BY <2>5, <2>7, <2>12, <2>13, <3>1, <3>3
    <3>5. f = FedOf(News(d, t), t)
      BY <2>1, <2>11, <3>1 DEF FedOf
    <3>6. Numbers(Select(u \o e, B)) = FedOf(News(d, t), t)'
      BY <2>1, <2>11 DEF FedOf
    <3>7. QED
      BY <3>4, <3>5, <3>6
  <2>15. MintedIn(DueTo(d, t))' = IF a = t /\ FromOf(c) # FromOf(d)
                                  THEN Append(MintedIn(DueTo(d, t)), NextId)
                                  ELSE MintedIn(DueTo(d, t))
    <3>1. PICK P, Q : P = DueTo(d, t) /\ Q = DueTo(d, t)'
      OBVIOUS
    <3>2. \A i \in MsgId : i \in P <=> i \in Q
      BY <1>4, <3>1 DEF DueTo, FromOf
    <3>3. NextId \in Q <=> a = t /\ FromOf(c) # FromOf(d)
      <4>1. NextId > seen[d].joined[t].from /\ ~(NextId <= seen[d].joined[t].at)
        BY <1>3, <1>5 DEF NextId
      <4>2. QED
        BY <1>2, <1>3, <1>4, <3>1, <4>1 DEF DueTo, FromOf
    <3>4. MintedIn(Q)' = IF NextId \in Q THEN Append(MintedIn(P), NextId)
                         ELSE MintedIn(P)
      BY <1>2, <1>3, <3>2, MintedInAppend
    <3>5. MintedIn(DueTo(d, t))' = MintedIn(Q)'
      BY <3>1 DEF MintedIn
    <3>6. QED
      BY <3>1, <3>3, <3>4, <3>5
  <2>16. a = t => (d \in targets <=> FromOf(c) # FromOf(d))
    <3> SUFFICES ASSUME a = t PROVE d \in TopicTargets(c, t) <=> FromOf(c) # FromOf(d)
      OBVIOUS
    <3>1. t \in conn[d].subscriptions
      BY DEF Feed
    <3>2. conn[d].sid # None
      BY <3>1 DEF RegistryInv, RegistryExact, IdentityWhole
    <3>3. conn[d].sid \in Sid /\ connections[conn[d].sid] = d
      BY <3>2, IdentifiedFacts
    <3>4. conn[d].sid \in topic_subs[t]
      BY <3>1, <3>3 DEF RegistryInv, RegistryExact, TopicSubsExact
    <3>5. \A s \in Sid : connections[s] = d => conn[d].sid = s
      BY DEF RegistryInv, RegistryExact, ConnectionsExact
    <3>6. topic_subs[t] \subseteq Sid
      BY DEF RegistryInv, RegistryTypeOK
    <3>7. d \in TopicTargets(c, t) <=> conn[d].sid # conn[c].sid
      BY <3>3, <3>4, <3>5, <3>6 DEF TopicTargets
    <3>8. FromOf(c) # FromOf(d) <=> conn[d].sid # conn[c].sid
      <4>1. conn[d].sid = conn[c].sid => c = d
        BY <3>2, SidsDiffer
      <4>2. QED
        BY <4>1 DEF FromOf
    <3>9. QED
      BY <3>7, <3>8
  <2>17. k <= Len(outbox'[d])
    BY <2>2, <2>3, <2>6, <2>8
  <2>18. QED
    BY <1>5, <1>6, <1>8, <2>1, <2>14, <2>15, <2>16, <2>17
<1>9. QED
  BY <1>7, <1>8

\* The messages of a ring were published to its topic.
LEMMA RingIds ==
    ASSUME StoreInv, NEW t \in Topic
    PROVE  /\ buffers[t] \in Seq(MsgId)
           /\ \A i \in Ids(buffers[t]) : minted[i].to = t
<1>1. t \in Addr
  BY DEF Addr
<1>2. buffers[t] \in Seq(MsgId)
  BY <1>1, QueueTypes
<1>3. \A k \in 1..Len(buffers[t]) : minted[buffers[t][k]].to = t
  BY <1>1 DEF StoreInv, QueuesOrderly, Orderly
<1>4. DOMAIN buffers[t] = 1..Len(buffers[t])
  BY <1>2
<1>5. QED
  BY <1>2, <1>3, <1>4 DEF Ids

\* What a subscriber is replayed is the ring's messages from one id on.
LEMMA ReplayIsTail ==
    ASSUME StoreInv, RingInv, NEW t \in Topic, NEW r \in Nat, r # 0,
           NEW replay, replay = LastN(buffers[t], r), replay # <<>>,
           NEW D, D = {i \in MsgId : minted[i].to = t /\ i > replay[1] - 1}
    PROVE  MintedIn(D) = replay
<1>1. PICK q, P : P = PublishedTo(t) /\ q = MintedIn(P)
  OBVIOUS
<1>2. Len(minted) \in Nat /\ TopicMaxlen \in Nat
  BY BoundsAssumption DEF StoreInv, StoreTypeOK
<1>3. q \in Seq(Nat) /\ Rising(q)
  BY <1>1, <1>2, UpToRising DEF MintedIn
<1>4. replay = LastN(LastN(q, TopicMaxlen), r)
  BY <1>1 DEF RingInv
<1>5. PICK k \in 1..Len(q) : replay = SubSeq(q, k, Len(q)) /\ replay[1] = q[k]
  <2>1. PICK m : m = TopicMaxlen
    OBVIOUS
  <2>2. q \in Seq(Nat) /\ m \in Nat /\ r \in Nat /\ LastN(LastN(q, m), r) # <<>>
    BY <1>2, <1>3, <1>4, <2>1
  <2>3. \E k \in 1..Len(q) : /\ LastN(LastN(q, m), r) = SubSeq(q, k, Len(q))
                             /\ LastN(LastN(q, m), r)[1] = q[k]
    BY ONLY <2>2, LastNTwice
  <2>4. QED
    BY <1>4, <2>1, <2>3
<1> DEFINE B == {i \in Nat : i > q[k] - 1}
<1>6. Select(q, B) = replay
  <2>1. \A i \in Nat : i \in B <=> i > q[k] - 1
    OBVIOUS
  <2> HIDE DEF B
  <2>2. QED
    BY <1>3, <1>5, <2>1, RisingFrom
<1>7. \A i \in MsgId : i \in D <=> i \in P /\ i \in B
  BY <1>1, <1>2, <1>5 DEF PublishedTo, MsgId
<1> HIDE DEF B
<1>8. UpTo(Len(minted)) \in Seq(MsgId)
  BY <1>2 DEF UpTo, MsgId
<1>9. Select(Select(UpTo(Len(minted)), P), B) = Select(UpTo(Len(minted)), D)
  BY <1>7, <1>8, SelectSelect
<1>10. QED
  BY <1>1, <1>6, <1>9 DEF MintedIn

\* The feed of who just subscribed is the replay.
LEMMA FeedJoin ==
    ASSUME RegistryInv, StoreInv, OutboxInv, HistoryInv, RingInv, NEW c \in Conn,
           NEW t \in Topic, NEW r \in Replays, Subscribe(c, t, r)
    PROVE  Feed(c, t)'
<1> DEFINE replay == IF r = 0 THEN <<>> ELSE LastN(buffers[t], r)
           n == IF replay = <<>> THEN Len(minted) ELSE replay[1] - 1
<1>1. /\ conn' = [conn EXCEPT ![c].subscriptions = @ \cup {t}]
      /\ outbox' = [outbox EXCEPT ![c] = Put(c, Messages(replay))]
      /\ seen' = [seen EXCEPT ![c].joined[t] =
                    [pos |-> Len(outbox[c]), from |-> n, at |-> Len(minted)]]
      /\ minted' = minted /\ r \in Nat
  <2>1. r \in Nat
    BY BoundsAssumption
  <2>2. FeedStart(t, r) = n
    BY <2>1, FeedStartMeans
  <2>3. QED
    BY <2>1, <2>2 DEF Subscribe
<1>2. /\ conn \in [Conn -> ConnState] /\ seen \in [Conn -> SeenState]
      /\ outbox[c] \in Seq(Entry(MsgId)) /\ outbox \in [Conn -> Seq(Entry(MsgId))]
      /\ Len(minted) \in Nat
  BY DEF RegistryInv, RegistryTypeOK, HistoryInv, OutboxInv, StoreInv, StoreTypeOK
<1>3. /\ buffers[t] \in Seq(MsgId) /\ replay \in Seq(MsgId)
  BY <1>1, RingIds, QueueTypes DEF Addr
<1>4. \A i \in Ids(replay) : minted[i].to = t
  <2>1. CASE r = 0
    BY <2>1 DEF Ids
  <2>2. CASE r # 0
    <3>1. PICK u, q : u = LastN(buffers[t], r) /\ q = buffers[t]
      OBVIOUS
    <3>2. q \in Seq(MsgId) /\ r \in Nat /\ u = LastN(q, r)
      BY <1>1, <1>3, <3>1
    <3>3. /\ u \in Seq(MsgId) /\ Len(u) = (IF Len(q) > r THEN r ELSE Len(q))
          /\ \A k \in 1..Len(u) : u[k] = q[Len(q) - Len(u) + k]
      BY ONLY <3>2, LastNMeans
    <3>4. \A k \in 1..Len(u) : Len(q) - Len(u) + k \in 1..Len(q)
      BY <3>2, <3>3
    <3>5. ASSUME NEW k \in DOMAIN u PROVE u[k] \in Ids(q)
      <4>1. k \in 1..Len(u)
        BY <3>3
      <4>2. PICK j \in 1..Len(q) : u[k] = q[j]
        BY <3>3, <3>4, <4>1
      <4>3. j \in DOMAIN q
        BY <3>2, <4>2
      <4>4. QED
        BY <4>2, <4>3 DEF Ids
    <3>6. \A i \in Ids(u) : i \in Ids(q)
      BY <3>5 DEF Ids
    <3>7. QED
      BY <2>2, <3>1, <3>6, RingIds
  <2>3. QED
    BY <2>1, <2>2
<1>5. n \in Nat /\ n <= Len(minted)
  <2>1. CASE replay = <<>>
    BY <1>2, <2>1
  <2>2. CASE replay # <<>>
    <3>1. replay[1] \in MsgId
      BY <1>3, <2>2
    <3>2. QED
      BY <1>2, <2>2, <3>1 DEF MsgId
  <2>3. QED
    BY <2>1, <2>2
<1>6. MintedIn({i \in MsgId : minted[i].to = t /\ i > n}) = replay
  <2>1. CASE replay = <<>>
    <3>1. PICK D : D = {i \in MsgId : minted[i].to = t /\ i > n}
      OBVIOUS
    <3>2. MsgId \cap D = {}
      BY <1>2, <2>1, <3>1 DEF MsgId
    <3>3. UpTo(Len(minted)) \in Seq(MsgId)
      BY <1>2 DEF UpTo, MsgId
    <3>4. Select(UpTo(Len(minted)), D) = <<>>
      BY <3>2, <3>3, SelectAllNone
    <3>5. QED
      BY <2>1, <3>1, <3>4 DEF MintedIn
  <2>2. CASE replay # <<>>
    <3>1. r # 0 /\ replay = LastN(buffers[t], r) /\ n = replay[1] - 1
      BY <2>2
    <3>2. PICK rp, D : rp = replay /\ D = {i \in MsgId : minted[i].to = t /\ i > rp[1] - 1}
      OBVIOUS
    <3> HIDE DEF replay, n
    <3>3. MintedIn(D) = rp
      BY <1>1, <2>2, <3>1, <3>2, ReplayIsTail
    <3>4. QED
      BY <3>1, <3>2, <3>3
  <2>3. QED
    BY <2>1, <2>2
<1> HIDE DEF replay, n
<1>7. PICK v : v = [pos |-> Len(outbox[c]), from |-> n, at |-> Len(minted)]
  OBVIOUS
<1>8. seen'[c].joined[t] = v
  <2>1. seen[c].joined \in [Topic -> Joins]
    BY <1>2 DEF SeenState
  <2>2. seen' = [seen EXCEPT ![c] = [seen[c] EXCEPT !.joined =
                                       [seen[c].joined EXCEPT ![t] = v]]]
    BY <1>1, <1>7
  <2>3. seen'[c] = [seen[c] EXCEPT !.joined = [seen[c].joined EXCEPT ![t] = v]]
    BY <1>2, <2>2
  <2>4. seen'[c].joined = [seen[c].joined EXCEPT ![t] = v]
    BY <1>2, <2>3 DEF SeenState
  <2>5. QED
    BY <2>1, <2>4
<1>9. /\ t \in conn'[c].subscriptions /\ FromOf(c)' = FromOf(c)
      /\ conn'[c].closed = conn[c].closed
  BY <1>1, <1>2 DEF FromOf, ConnState
<1>10. PICK p, e : p = outbox[c] /\ e = Messages(replay)
  OBVIOUS
<1>11. /\ p \in Seq(Entry(MsgId)) /\ e \in Seq(Entry(MsgId)) /\ Len(p) \in Nat
       /\ Len(p) <= Len(p)
  BY <1>2, <1>3, <1>10, EntryTypes
<1>12. outbox'[c] = IF conn[c].closed THEN p ELSE p \o e
  BY <1>1, <1>2, <1>10 DEF Put
<1>13. Len(p) <= Len(outbox'[c])
  BY <1>11, <1>12
<1>14. ASSUME ~conn[c].closed PROVE FedOf(News(c, t), t)' = MintedIn(DueTo(c, t))'
  <2>1. PICK k : k = Len(p)
    OBVIOUS
  <2>2. /\ SubSeq(p, k + 1, Len(p)) = <<>>
        /\ SubSeq(p \o e, k + 1, Len(p \o e)) = SubSeq(p, k + 1, Len(p)) \o e
    BY ONLY <1>11, <2>1, RestConcat
  <2>3. <<>> \o e = e
    BY <1>11
  <2>4. News(c, t)' = e
    <3>1. seen'[c].joined[t].pos = k
      BY <1>7, <1>8, <1>10, <2>1
    <3>2. outbox'[c] = p \o e
      BY <1>12, <1>14
    <3>3. News(c, t)' = SubSeq(p \o e, k + 1, Len(p \o e))
      BY ONLY <3>1, <3>2 DEF News
    <3>4. QED
      BY ONLY <2>2, <2>3, <3>3
  <2>5. Numbers(Select(e, TopicEntries(t))) = replay
    <3>1. PICK A : A = TopicEntries(t)
      OBVIOUS
    <3>2. \A i \in Ids(replay) : i \in MsgId
      BY <1>3 DEF Ids
    <3>3. \A i \in Ids(replay) : Message(i) \in A
      BY <1>4, <3>1, <3>2 DEF Message, TopicEntries, Entry
    <3>4. QED
      BY <1>3, <1>10, <3>1, <3>3, FedMessages
  <2>6. TopicEntries(t)' = TopicEntries(t)
    BY <1>1 DEF TopicEntries, MsgId
  <2>7. DueTo(c, t)' = {i \in MsgId : minted[i].to = t /\ i > n}
    BY <1>1, <1>2, <1>7, <1>8 DEF DueTo, MsgId
  <2>8. MintedIn(DueTo(c, t))' = replay
    BY <1>1, <1>6, <2>7 DEF MintedIn
  <2>9. QED
    BY <2>4, <2>5, <2>6, <2>8 DEF FedOf
<1>15. QED
  BY <1>1, <1>5, <1>7, <1>8, <1>9, <1>10, <1>13, <1>14 DEF Feed

\* Nothing waits in the queue of an address for a topic.
LEMMA DrainedIds ==
    ASSUME StoreInv, NEW c \in Conn, NEW a \in DmAddr, NEW t \in Topic
    PROVE  /\ Drained(c, a) \in Seq(MsgId)
           /\ \A i \in Ids(Drained(c, a)) : minted[i].to # t
<1>1. a \in Addr /\ a # t
  BY NamesAssumption DEF Addr
<1>2. buffers[a] \in Seq(MsgId) /\ Drained(c, a) \in Seq(MsgId)
  BY <1>1, QueueTypes
<1>3. \A k \in 1..Len(buffers[a]) : minted[buffers[a][k]].to = a
  BY <1>1 DEF StoreInv, QueuesOrderly, Orderly
<1>4. \A i \in Ids(buffers[a]) : minted[i].to = a
  BY <1>2, <1>3 DEF Ids
<1>5. Ids(Drained(c, a)) \subseteq Ids(buffers[a])
  BY <1>2, SelectIds DEF Drained
<1>6. QED
  BY <1>1, <1>2, <1>4, <1>5

\* Every step keeps each feed exact, as long as no flush fails.
LEMMA FeedNext ==
    ASSUME RegistryInv, StoreInv, OutboxInv, HistoryInv, RingInv, FeedInv,
           "disk" \notin Faults, [Next]_vars
    PROVE  FeedInv'
<1>1. /\ conn \in [Conn -> ConnState] /\ seen \in [Conn -> SeenState]
      /\ \A d \in Conn, t \in Topic : Feed(d, t)
  BY DEF RegistryInv, RegistryTypeOK, HistoryInv, FeedInv
<1>2. <<>> \in Seq(MsgId) /\ Ids(<<>>) = {}
  BY DEF Ids
<1> SUFFICES ASSUME NEW d \in Conn, NEW t \in Topic PROVE Feed(d, t)'
  BY DEF FeedInv
<1>3. FreshSeen.joined[t] = None
  BY FreshSeenType
<1>4. ASSUME minted' = minted, outbox'[d] = outbox[d],
             seen'[d].joined[t] = seen[d].joined[t],
             conn'[d].sid = conn[d].sid, conn'[d].home = conn[d].home,
             conn[d].closed => conn'[d].closed,
             t \in conn[d].subscriptions => t \in conn'[d].subscriptions
      PROVE  Feed(d, t)'
  BY <1>1, <1>2, <1>4, FeedQuiet
<1>5. ASSUME NEW c \in Conn, NEW q, NEW ids, Hand(c, q, ids)
      PROVE  /\ d # c => outbox'[d] = outbox[d]
             /\ outbox'[d] = outbox[d] \/ outbox'[d] = outbox[d] \o Messages(q)
  BY <1>5 DEF Hand, Put, OutboxInv
<1>6. ASSUME NEW except, NEW gone, NEW added \in SUBSET SessionInfo,
             NEW b, b = Broadcast(seen, except, gone, added)
      PROVE  b[d].joined = seen[d].joined
  BY <1>1, <1>6, BroadcastStep
<1>7. ASSUME NEW c \in Conn, NEW s \in Sid, NEW h \in Home, Hello(c, s, h)
      PROVE  Feed(d, t)'
  <2>1. /\ conn' = [conn EXCEPT ![c] = [conn[c] EXCEPT !.sid = s, !.home = h]]
        /\ conn[c].sid = None /\ minted' = minted
    BY <1>7 DEF Hello, Register, Identified
  <2>2. seen'[d].joined = seen[d].joined
    <3>1. {<<s, h, None>>} \in SUBSET SessionInfo
      BY DEF SessionInfo
    <3>2. PICK b : b = Broadcast(seen, s, None, {<<s, h, None>>})
      OBVIOUS
    <3>3. b[d].joined = seen[d].joined
      BY <1>6, <3>1, <3>2
    <3>4. QED
      BY <1>7, <3>2, <3>3 DEF Hello
  <2>3. CASE d = c
    <3>1. conn[d].subscriptions = {}
      BY <2>1, <2>3 DEF RegistryInv, RegistryExact, IdentityWhole
    <3>2. seen[d].joined[t] = None
      BY <1>1, <3>1 DEF Feed
    <3>3. QED
      BY <2>2, <3>2, Unfed
  <2>4. CASE d # c
    <3>1. conn'[d] = conn[d]
      BY <1>1, <2>1, <2>4
    <3>2. outbox'[d] = outbox[d]
      BY <1>5, <1>7, <2>4 DEF Hello
    <3>3. QED
      BY <1>4, <2>1, <2>2, <3>1, <3>2
  <2>5. QED
    BY <2>3, <2>4
<1>8. ASSUME NEW c \in Conn, Disconnect(c) PROVE Feed(d, t)'
  <2>1. /\ conn' = [conn EXCEPT ![c] = FreshConn]
        /\ minted' = minted /\ outbox' = outbox
    BY <1>8 DEF Disconnect, mail
  <2>2. PICK b : b = Broadcast(seen, conn[c].sid, conn[c].sid, {})
    OBVIOUS
  <2>3. b[d].joined = seen[d].joined /\ b = [x \in Conn |-> b[x]]
    BY <1>6, <2>2 DEF Broadcast
  <2>4. seen' = [b EXCEPT ![c] = FreshSeen]
    BY <1>8, <2>2 DEF Disconnect
  <2>5. CASE d = c
    BY <1>3, <2>3, <2>4, <2>5, Unfed
  <2>6. CASE d # c
    <3>1. conn'[d] = conn[d]
      BY <1>1, <2>1, <2>6
    <3>2. seen'[d].joined = seen[d].joined
      BY <2>3, <2>4, <2>6
    <3>3. QED
      BY <1>4, <2>1, <3>1, <3>2
  <2>7. QED
    BY <2>5, <2>6
<1>9. ASSUME NEW c \in Conn, Session(c) PROVE Feed(d, t)'
  <2>1. CASE Accept(c)
    <3>1. CASE d = c
      <4>1. seen'[d] = FreshSeen
        BY <1>1, <2>1, <3>1 DEF Accept
      <4>2. QED
        BY <1>3, <4>1, Unfed
    <3>2. CASE d # c
      BY <1>1, <1>4, <2>1, <3>2 DEF Accept
    <3>3. QED
      BY <3>1, <3>2
  <2>2. CASE WriterFails(c)
    <3>1. /\ conn' = [conn EXCEPT ![c].closed = TRUE]
          /\ minted' = minted /\ outbox' = outbox /\ seen' = seen
      BY <2>2 DEF WriterFails, mail
    <3>2. /\ conn'[d].sid = conn[d].sid /\ conn'[d].home = conn[d].home
          /\ conn'[d].subscriptions = conn[d].subscriptions
          /\ (conn[d].closed => conn'[d].closed)
      BY <1>1, <3>1 DEF ConnState
    <3>3. QED
      BY <1>4, <3>1, <3>2
  <2>3. QED
    BY <1>7, <1>8, <1>9, <2>1, <2>2 DEF Session, HelloDrainFails
<1>10. ASSUME NEW c \in Conn, NEW new \in Alias \cup {None}, SetAlias(c, new)
       PROVE  Feed(d, t)'
  <2> DEFINE r == [conn[c] EXCEPT !.alias = new]
             a == <<conn[c].home, new>>
  <2>1. /\ conn' = [conn EXCEPT ![c] = r] /\ conn[c].sid # None /\ minted' = minted
    BY <1>10 DEF SetAlias, TakeAlias, Identified
  <2>2. conn[c] \in ConnState /\ conn[c].home \in Home /\ conn[c].sid \in Sid
    BY <1>1, <2>1, IdentifiedFacts
  <2>3. r.sid = conn[c].sid /\ r.home = conn[c].home /\ r.closed = conn[c].closed
        /\ r.subscriptions = conn[c].subscriptions
    BY <2>2 DEF ConnState
  <2>4. conn'[d] = IF d = c THEN r ELSE conn[d]
    BY <1>1, <2>1
  <2> HIDE DEF r
  <2>5. /\ conn'[d].sid = conn[d].sid /\ conn'[d].home = conn[d].home
        /\ conn'[d].subscriptions = conn[d].subscriptions
        /\ (conn[d].closed => conn'[d].closed)
    BY <2>3, <2>4
  <2>6. seen'[d].joined = seen[d].joined
    <3>1. PICK added, b : /\ added = {<<conn[c].sid, conn[c].home, new>>}
                          /\ b = Broadcast(seen, None, conn[c].sid, added)
      OBVIOUS
    <3>2. added \in SUBSET SessionInfo
      BY <2>2, <3>1 DEF SessionInfo
    <3>3. b[d].joined = seen[d].joined
      BY <1>6, <3>1, <3>2
    <3>4. QED
      BY <1>10, <3>1, <3>3 DEF SetAlias
  <2>7. a \in DmAddr
    BY <2>2 DEF DmAddr
  <2>8. PICK q : q = Drained(c, a)
    OBVIOUS
  <2>9. q \in Seq(MsgId) /\ \A i \in Ids(q) : minted[i].to # t
    BY <2>7, <2>8, DrainedIds
  <2>10. outbox'[d] = outbox[d] \/ outbox'[d] = outbox[d] \o Messages(q)
    <3>1. Hand(c, q, Accepted(c, a)) \/ outbox' = outbox
      BY <1>10, <2>8 DEF SetAlias
    <3>2. QED
      BY <1>5, <3>1
  <2>11. QED
    BY <1>1, <2>1, <2>5, <2>6, <2>9, <2>10, FeedQuiet
<1>11. ASSUME NEW c \in Conn, NEW f \in DmFilters, SetDmFilter(c, f) PROVE Feed(d, t)'
  <2>1. /\ conn' = [conn EXCEPT ![c].dm_filter = f]
        /\ seen' = [seen EXCEPT ![c].narrowed = TRUE]
        /\ minted' = minted /\ outbox' = outbox
    BY <1>11 DEF SetDmFilter, mail
  <2>2. /\ conn'[d].sid = conn[d].sid /\ conn'[d].home = conn[d].home
        /\ conn'[d].subscriptions = conn[d].subscriptions
        /\ (conn[d].closed => conn'[d].closed)
    BY <1>1, <2>1 DEF ConnState
  <2>3. seen'[d].joined = seen[d].joined
    BY <1>1, <2>1 DEF SeenState
  <2>4. QED
    BY <1>4, <2>1, <2>2, <2>3
<1>12. ASSUME NEW c \in Conn, NEW w, seen' = [seen EXCEPT ![c].watchedAt = w] \/ seen' = seen,
              NEW v, conn' = [conn EXCEPT ![c].wire = v],
              minted' = minted, outbox' = outbox
       PROVE  Feed(d, t)'
  <2>1. /\ conn'[d].sid = conn[d].sid /\ conn'[d].home = conn[d].home
        /\ conn'[d].subscriptions = conn[d].subscriptions
        /\ (conn[d].closed => conn'[d].closed)
    BY <1>1, <1>12 DEF ConnState
  <2>2. seen'[d].joined = seen[d].joined
    BY <1>1, <1>12 DEF SeenState
  <2>3. QED
    BY <1>4, <1>12, <2>1, <2>2
<1>13. ASSUME NEW c \in Conn,
              \/ \E w \in WireFilters : Watch(c, w)
              \/ Unwatch(c)
       PROVE  Feed(d, t)'
  BY <1>12, <1>13 DEF Watch, Unwatch, mail
<1>14. ASSUME NEW c \in Conn,
              \/ \E a \in DmAddr : Send(c, a)
              \/ \E u \in Topic : Publish(c, u)
       PROVE  Feed(d, t)'
  <2>1. PICK a \in Addr, targets \in SUBSET Conn :
           /\ Mint(c, a, TRUE, Cardinality(targets))
           /\ outbox' = FanOut(NextId, targets, Watchers(c, a))
           /\ a = t => targets = TopicTargets(c, t)
           /\ conn[c].sid # None /\ conn' = conn /\ seen' = seen
    <3>1. CASE \E a \in DmAddr : Send(c, a)
      <4>1. PICK a \in DmAddr : Send(c, a)
        BY <3>1
      <4>2. a \in Addr /\ a # t /\ DmTargets(c, a) \in SUBSET Conn
        BY NamesAssumption DEF Addr, DmTargets
      <4>3. QED
        BY <4>1, <4>2 DEF Send, Identified
    <3>2. CASE \E u \in Topic : Publish(c, u)
      <4>1. PICK u \in Topic : Publish(c, u)
        BY <3>2
      <4>2. u \in Addr /\ TopicTargets(c, u) \in SUBSET Conn
        BY DEF Addr, TopicTargets
      <4>3. QED
        BY <4>1, <4>2 DEF Publish, Identified
    <3>3. QED
      BY <1>14, <3>1, <3>2
  <2>2. Cardinality(targets) \in Nat
    BY SlotsAssumption, FS_Subset, FS_CardinalityType
  <2>3. QED
    BY <1>1, <2>1, <2>2, FeedMint
<1>15. ASSUME NEW c \in Conn, NEW u \in Topic, NEW r \in Replays, Subscribe(c, u, r)
       PROVE  Feed(d, t)'
  <2>1. CASE d = c /\ t = u
    BY <1>15, <2>1, FeedJoin
  <2>2. CASE ~(d = c /\ t = u)
    <3> DEFINE replay == IF r = 0 THEN <<>> ELSE LastN(buffers[u], r)
    <3>1. /\ conn' = [conn EXCEPT ![c].subscriptions = @ \cup {u}]
          /\ outbox' = [outbox EXCEPT ![c] = Put(c, Messages(replay))]
          /\ minted' = minted
      BY <1>15 DEF Subscribe
    <3>2. PICK v : seen' = [seen EXCEPT ![c].joined[u] = v]
      BY <1>15 DEF Subscribe
    <3>3. /\ conn'[d].sid = conn[d].sid /\ conn'[d].home = conn[d].home
          /\ (t \in conn[d].subscriptions => t \in conn'[d].subscriptions)
          /\ (conn[d].closed => conn'[d].closed)
      BY <1>1, <3>1 DEF ConnState
    <3>4. seen'[d].joined[t] = seen[d].joined[t]
      <4>1. seen[c].joined \in [Topic -> Joins]
        BY <1>1 DEF SeenState
      <4>2. PICK j, x : /\ j = [seen[c].joined EXCEPT ![u] = v]
                        /\ x = [seen[c] EXCEPT !.joined = j]
        OBVIOUS
      <4>3. seen' = [seen EXCEPT ![c] = x]
        BY <3>2, <4>2
      <4>4. x.joined = j
        BY <1>1, <4>2 DEF SeenState
      <4>5. t # u => j[t] = seen[c].joined[t]
        BY <4>1, <4>2
      <4>6. QED
        BY <1>1, <2>2, <4>3, <4>4, <4>5
    <3>5. CASE d # c
      <4>1. outbox'[d] = outbox[d]
        BY <3>1, <3>5 DEF OutboxInv
      <4>2. QED
        BY <1>4, <3>1, <3>3, <3>4, <4>1
    <3>6. CASE t # u
      <4>1. replay \in Seq(MsgId) /\ \A i \in Ids(replay) : minted[i].to # t
        <5>1. CASE r = 0
          BY <1>2, <5>1
        <5>2. CASE r # 0
          <6>1. PICK q, z : q = buffers[u] /\ z = LastN(q, r)
            OBVIOUS
          <6>2. q \in Seq(Ids(q)) /\ \A i \in Ids(q) : minted[i].to = u
            BY <6>1, RingIds, SeqOfIds
          <6>3. r \in Nat
            BY BoundsAssumption
          <6>4. z \in Seq(Ids(q))
            BY <6>1, <6>2, <6>3, LastNMeans
          <6>5. \A i \in Ids(z) : i \in Ids(q)
            BY <6>4 DEF Ids
          <6>6. z \in Seq(MsgId)
            BY <6>1, <6>3, QueueTypes DEF Addr
          <6>7. QED
            BY <3>6, <5>2, <6>1, <6>2, <6>5, <6>6
        <5>3. QED
          BY <5>1, <5>2
      <4> HIDE DEF replay
      <4>2. outbox'[d] = outbox[d] \/ outbox'[d] = outbox[d] \o Messages(replay)
        BY <3>1 DEF Put, OutboxInv
      <4>3. QED
        BY <1>1, <3>1, <3>3, <3>4, <4>1, <4>2, FeedQuiet
    <3>7. QED
      BY <2>2, <3>5, <3>6
  <2>3. QED
    BY <2>1, <2>2
<1>16. ASSUME NEW c \in Conn, NEW u \in Topic, Unsubscribe(c, u) PROVE Feed(d, t)'
  <2>1. /\ conn' = [conn EXCEPT ![c].subscriptions = @ \ {u}]
        /\ seen' = [seen EXCEPT ![c].joined[u] = None]
        /\ minted' = minted /\ outbox' = outbox
    BY <1>16 DEF Unsubscribe, mail
  <2>2. PICK j, x : /\ j = [seen[c].joined EXCEPT ![u] = None]
                    /\ x = [seen[c] EXCEPT !.joined = j]
    OBVIOUS
  <2>3. seen' = [seen EXCEPT ![c] = x] /\ seen[c].joined \in [Topic -> Joins]
    BY <1>1, <2>1, <2>2 DEF SeenState
  <2>4. x.joined = j
    BY <1>1, <2>2 DEF SeenState
  <2>5. CASE d = c /\ t = u
    <3>1. seen'[d].joined[t] = None
      BY <1>1, <2>2, <2>3, <2>4, <2>5
    <3>2. QED
      BY <3>1, Unfed
  <2>6. CASE ~(d = c /\ t = u)
    <3>1. seen'[d].joined[t] = seen[d].joined[t]
      BY <1>1, <2>2, <2>3, <2>4, <2>6
    <3>2. /\ conn'[d].sid = conn[d].sid /\ conn'[d].home = conn[d].home
          /\ (conn[d].closed => conn'[d].closed)
      BY <1>1, <2>1 DEF ConnState
    <3>3. t \in conn[d].subscriptions => t \in conn'[d].subscriptions
      BY <1>1, <2>1, <2>6 DEF ConnState
    <3>4. QED
      BY <1>4, <2>1, <3>1, <3>2, <3>3
  <2>7. QED
    BY <2>5, <2>6
<1>17. ASSUME NEW c \in Conn, ListPeers(c) PROVE Feed(d, t)'
  <2>1. /\ seen' = [seen EXCEPT ![c].view = Sessions]
        /\ conn' = conn /\ minted' = minted /\ outbox' = outbox
    BY <1>17 DEF ListPeers, mail
  <2>2. seen'[d].joined = seen[d].joined
    BY <1>1, <2>1 DEF SeenState
  <2>3. QED
    BY <1>4, <2>1, <2>2
<1>18. ASSUME NEW c \in Conn, Request(c) PROVE Feed(d, t)'
  BY <1>10, <1>11, <1>13, <1>14, <1>15, <1>16, <1>17, <1>18
     DEF Request, SetAliasDrainFails, SendFlushFails, PublishFlushFails
<1>19. CASE Restart
  BY <1>3, <1>19, Unfed DEF Restart
<1>20. CASE UNCHANGED vars
  BY <1>4, <1>20 DEF vars, mail
<1>21. QED
  BY <1>9, <1>18, <1>19, <1>20 DEF Next

\* As long as no flush fails, a subscriber is handed its replay and then every
\* later message of others, without a gap or a repeat (TopicFeedExact).
THEOREM FeedsAreExact ==
    ASSUME "disk" \notin Faults
    PROVE  Spec => []TopicFeedExact
<1>1. Init => OutboxInv /\ HistoryInv /\ RingInv /\ FeedInv
  <2> SUFFICES ASSUME Init PROVE OutboxInv /\ HistoryInv /\ RingInv /\ FeedInv
    OBVIOUS
  <2>1. /\ minted = <<>> /\ Len(minted) = 0
        /\ seen = [c \in Conn |-> FreshSeen] /\ outbox = [c \in Conn |-> <<>>]
    BY DEF Init
  <2>2. OutboxInv
    BY <2>1 DEF OutboxInv
  <2>3. HistoryInv
    BY <2>1, FreshSeenType DEF HistoryInv
  <2>4. RingInv
    BY RingInit
  <2>5. FeedInv
    BY <2>1, FreshSeenType DEF FeedInv, Feed
  <2>6. QED
    BY <2>2, <2>3, <2>4, <2>5
<1>2. RegistryInv /\ StoreInv /\ OutboxInv /\ HistoryInv /\ [Next]_vars
        => OutboxInv' /\ HistoryInv'
  BY OutboxNext, HistoryNext
<1>3. RegistryInv /\ StoreInv /\ RingInv /\ [Next]_vars => RingInv'
  BY RingNext
<1>4. /\ RegistryInv /\ StoreInv /\ OutboxInv /\ HistoryInv /\ RingInv /\ FeedInv
      /\ [Next]_vars
      => FeedInv'
  BY FeedNext
<1>5. OutboxInv /\ HistoryInv /\ FeedInv => TopicFeedExact
  BY FeedMeans
<1>6. QED
  BY <1>1, <1>2, <1>3, <1>4, <1>5, RegistryInit, RegistryNext, StoreInit, StoreNext, PTL
     DEF Spec

-------------------------------------------------------------------------------
(***************************************************************************)
(* The mail service.  Seen from its clients, and as long as no file        *)
(* operation fails, the router is the one module MailService describes.    *)
(***************************************************************************)

\* What a letter is, from the messages minted; which entries of an outbox are
\* letters; and the letters in an outbox.
Book(m) == [i \in 1..Len(m) |-> [id |-> i, from |-> m[i].from, to |-> m[i].to,
                                 delivered |-> m[i].delivered]]
Dms(m) == {e \in Entry(1..Len(m)) : e[1] = "message" /\ m[e[2]].to \in DmAddr}
Post(m, q) == Image(Book(m), Numbers(Select(q, Dms(m))))

\* Two lists of messages of which one goes on where the other ends.
Extends(n, m) ==
    /\ 1..Len(m) \subseteq 1..Len(n)
    /\ \A i \in 1..Len(m) : n[i] = m[i]

\* Letters stay what they are.
LEMMA BookGrows ==
    ASSUME NEW m, NEW n, Extends(n, m), NEW q \in Seq(1..Len(m))
    PROVE  Image(Book(n), q) = Image(Book(m), q)
<1>1. \A k \in DOMAIN q : q[k] \in 1..Len(m)
  OBVIOUS
<1>2. \A i \in 1..Len(m) : Book(n)[i] = Book(m)[i]
  BY DEF Extends, Book
<1>3. QED
  BY <1>1, <1>2 DEF Image

\* So do those in an outbox.
LEMMA PostGrows ==
    ASSUME NEW m, NEW n, Extends(n, m), NEW q \in Seq(Entry(1..Len(m)))
    PROVE  Post(n, q) = Post(m, q)
<1>1. \A e \in Entry(1..Len(m)) : e \in Dms(n) <=> e \in Dms(m)
  <2>1. \A e \in Entry(1..Len(m)) : e[2] \in 1..Len(m) /\ e \in Entry(1..Len(n))
    BY DEF Entry, Extends
  <2>2. QED
    BY <2>1 DEF Dms, Extends
<1>2. Select(q, Dms(n)) = Select(q, Dms(m))
  <2>1. PICK S, A, B : S = Entry(1..Len(m)) /\ A = Dms(n) /\ B = Dms(m)
    OBVIOUS
  <2>2. \A e \in S : e \in A <=> e \in B
    BY <1>1, <2>1
  <2>3. \A r \in Seq(S) : Select(r, A) = Select(r, B)
    BY ONLY <2>2, SelectSame
  <2>4. QED
    BY <2>1, <2>3
<1>3. Numbers(Select(q, Dms(m))) \in Seq(1..Len(m))
  <2>1. PICK N, A : N = 1..Len(m) /\ A = Dms(m)
    OBVIOUS
  <2>2. q \in Seq(Entry(N)) /\ <<>> \in Seq(Entry(N))
    BY <2>1
  <2>3. Numbers(Select(q, A)) \in Seq(N)
    BY ONLY <2>2, FedConcat
  <2>4. QED
    BY <2>1, <2>3
<1>4. QED
  BY <1>2, <1>3, BookGrows DEF Post

\* An outbox with nothing on it.
LEMMA PostEmpty ==
    ASSUME NEW m PROVE Post(m, <<>>) = <<>>
<1>1. Select(<<>>, Dms(m)) = <<>>
  BY SelectAppend
<1>2. Numbers(<<>>) = <<>>
  BY DEF Numbers
<1>3. Image(Book(m), <<>>) = <<>>
  BY DEF Image
<1>4. QED
  BY <1>1, <1>2, <1>3 DEF Post

\* More on an outbox is more letters.
LEMMA PostConcat ==
    ASSUME NEW m, NEW p \in Seq(Entry(1..Len(m))), NEW e \in Seq(Entry(1..Len(m)))
    PROVE  /\ Post(m, p \o e) = Post(m, p) \o Post(m, e)
           /\ \E V : Post(m, p) \in Seq(V)
<1>1. PICK N, A : N = 1..Len(m) /\ A = Dms(m)
  OBVIOUS
<1>2. /\ Numbers(Select(p \o e, A)) = Numbers(Select(p, A)) \o Numbers(Select(e, A))
      /\ Numbers(Select(p, A)) \in Seq(N)
  <2>1. p \in Seq(Entry(N)) /\ e \in Seq(Entry(N))
    BY <1>1
  <2>2. QED
    BY ONLY <2>1, FedConcat
<1>3. Numbers(Select(e, A)) \in Seq(N)
  <2>1. e \in Seq(Entry(N)) /\ <<>> \in Seq(Entry(N))
    BY <1>1
  <2>2. QED
    BY ONLY <2>1, FedConcat
<1>4. PICK x, y : x = Numbers(Select(p, A)) /\ y = Numbers(Select(e, A))
  OBVIOUS
<1>5. /\ Image(Book(m), x \o y) = Image(Book(m), x) \o Image(Book(m), y)
      /\ \E V : Image(Book(m), x) \in Seq(V)
  <2>1. PICK M, V : M = Book(m) /\ V = {M[i] : i \in N}
    OBVIOUS
  <2>2. x \in Seq(N) /\ y \in Seq(N) /\ \A i \in N : M[i] \in V
    BY <1>2, <1>3, <1>4, <2>1
  <2>3. Image(M, x \o y) = Image(M, x) \o Image(M, y)
    BY <2>2, ImageConcat
  <2>4. Image(M, x) \in Seq(V)
    BY <2>2, ImageTyped
  <2>5. QED
    BY <2>1, <2>3, <2>4
<1>6. QED
  BY <1>1, <1>2, <1>4, <1>5 DEF Post

\* A queue put on an outbox: its letters, if it is one of direct messages.
LEMMA PostMessages ==
    ASSUME NEW m, NEW q \in Seq(1..Len(m))
    PROVE  /\ (\A i \in Ids(q) : m[i].to \in DmAddr)
                 => Post(m, Messages(q)) = Image(Book(m), q)
           /\ (\A i \in Ids(q) : m[i].to \notin DmAddr)
                 => Post(m, Messages(q)) = <<>>
<1>1. \A i \in Ids(q) : i \in 1..Len(m)
  <2>1. \A k \in DOMAIN q : q[k] \in 1..Len(m)
    OBVIOUS
  <2>2. QED
    BY <2>1 DEF Ids
<1>2. \A i \in Ids(q) : Message(i) \in Dms(m) <=> m[i].to \in DmAddr
  BY <1>1 DEF Dms, Message, Entry
<1>3. /\ (\A i \in Ids(q) : Message(i) \in Dms(m))
            => Numbers(Select(Messages(q), Dms(m))) = q
      /\ (\A i \in Ids(q) : Message(i) \notin Dms(m))
            => Numbers(Select(Messages(q), Dms(m))) = <<>>
  <2>1. PICK N, A : N = 1..Len(m) /\ A = Dms(m)
    OBVIOUS
  <2>2. q \in Seq(N)
    BY <2>1
  <2>3. /\ (\A i \in Ids(q) : Message(i) \in A) => Numbers(Select(Messages(q), A)) = q
        /\ (\A i \in Ids(q) : Message(i) \notin A)
              => Numbers(Select(Messages(q), A)) = <<>>
    BY ONLY <2>2, FedMessages
  <2>4. QED
    BY <2>1, <2>3
<1>4. Image(Book(m), <<>>) = <<>>
  BY DEF Image
<1>5. QED
  BY <1>2, <1>3, <1>4 DEF Post

\* What FanOut puts on an outbox: a letter or none.
LEMMA PostShare ==
    ASSUME NEW m, NEW i \in 1..Len(m), NEW T, NEW W, NEW d
    PROVE  /\ d \in T /\ m[i].to \in DmAddr
                => Post(m, Share(i, d, T, W)) = <<Book(m)[i]>>
           /\ d \notin T \/ m[i].to \notin DmAddr => Post(m, Share(i, d, T, W)) = <<>>
<1>1. PICK e, A, N : e = Share(i, d, T, W) /\ A = Dms(m) /\ N = 1..Len(m)
  OBVIOUS
<1>2. Wire(i) \notin A /\ (Message(i) \in A <=> m[i].to \in DmAddr)
  BY <1>1 DEF Dms, Message, Wire, Entry
<1>3. Numbers(Select(e, A)) = IF d \in T /\ Message(i) \in A THEN <<i>> ELSE <<>>
  <2>1. i \in N /\ e = Share(i, d, T, W) /\ Wire(i) \notin A
    BY <1>1, <1>2
  <2>2. QED
    BY ONLY <2>1, FedShare
<1>4. Image(Book(m), <<>>) = <<>> /\ Image(Book(m), <<i>>) = <<Book(m)[i]>>
  BY DEF Image
<1>5. QED
  BY <1>1, <1>2, <1>3, <1>4 DEF Post

-------------------------------------------------------------------------------
\* What the refinement shows of the router.
SessionOf(c) == [slot |-> c, sid |-> conn[c].sid, home |-> conn[c].home,
                 alias |-> conn[c].alias, accepts |-> conn[c].dm_filter,
                 gone |-> conn[c].closed]
Present == {SessionOf(c) : c \in {c \in Conn : Identified(c)}}
Sent == {Letter(i) : i \in {i \in MsgId : minted[i].to \in DmAddr}}
Waiting == [a \in DmAddr |-> Letters(buffers[a])]
Inboxes == [c \in Conn |-> IF Identified(c) THEN DmsIn(c) ELSE <<>>]

\* What waits at a for a session that accepts mail from these senders.
WaitingFrom(senders, a) ==
    Select(Waiting[a], {m \in Ids(Waiting[a]) : m.from \in senders})

\* The refinement shows these four.
LEMMA MailShows ==
    /\ Mail!vars = <<Present, Sent, Waiting, Inboxes>>
    /\ Mail!Address = DmAddr /\ Mail!Sender = FromAddr
    /\ \A x, a : Mail!For(x, a) = WaitingFrom(x.accepts, a)
<1>1. Mail!vars = <<Present, Sent, Waiting, Inboxes>>
  BY DEF Mail!vars, Present, SessionOf, Sent, Waiting, Inboxes
<1>2. Mail!Address = DmAddr /\ Mail!Sender = FromAddr
  BY DEF Mail!Address, Mail!Sender, DmAddr, FromAddr
<1>3. ASSUME NEW x, NEW a PROVE Mail!For(x, a) = WaitingFrom(x.accepts, a)
  BY DEF Mail!For, Mail!Select, Mail!Ids, WaitingFrom, Select, Ids, Waiting
<1>4. QED
  BY <1>1, <1>2, <1>3

\* Nothing happens to the mail.
LEMMA MailIdles ==
    ASSUME Present' = Present, Sent' = Sent, Waiting' = Waiting, Inboxes' = Inboxes
    PROVE  [Mail!Next]_(Mail!vars)
BY DEF Mail!vars, Present, SessionOf, Sent, Waiting, Inboxes

\* A session joins.
LEMMA MailJoins ==
    ASSUME NEW s \in Conn, NEW sid \in Sid, NEW home \in Home, NEW gone \in BOOLEAN,
           \A y \in Present : y.slot # s /\ y.sid # sid,
           Present' = Present \cup {[slot |-> s, sid |-> sid, home |-> home,
                                     alias |-> None, accepts |-> FromAddr, gone |-> gone]},
           Inboxes' = [Inboxes EXCEPT ![s] =
              IF gone THEN @ ELSE @ \o (WaitingFrom(FromAddr, <<home, None>>)
                                          \o WaitingFrom(FromAddr, <<home, sid>>))],
           Waiting' = [a \in DmAddr |-> IF a \in {<<home, None>>, <<home, sid>>}
                                        THEN <<>> ELSE Waiting[a]],
           Sent' = Sent
    PROVE  [Mail!Next]_(Mail!vars)
<1>1. Mail!Join(s, sid, home, gone)
  BY MailShows DEF Mail!Join, Mail!Get, Mail!Empty, Present, SessionOf, Sent, Waiting, Inboxes
<1>2. QED
  BY <1>1 DEF Mail!Next

\* A session leaves.
LEMMA MailLeaves ==
    ASSUME NEW x \in Present, Present' = Present \ {x},
           Inboxes' = [Inboxes EXCEPT ![x.slot] = <<>>],
           Waiting' = Waiting, Sent' = Sent
    PROVE  [Mail!Next]_(Mail!vars)
<1>1. Mail!Leave(x)
  BY DEF Mail!Leave, Present, SessionOf, Sent, Waiting, Inboxes
<1>2. QED
  BY <1>1 DEF Mail!Next, Present, SessionOf

\* A session takes a name that is free, and what waits under it.
LEMMA MailRenames ==
    ASSUME NEW x \in Present, NEW name \in Alias, name # x.alias,
           \A y \in Present : y.home = x.home => y.alias # name,
           Present' = (Present \ {x}) \cup {[x EXCEPT !.alias = name]},
           Inboxes' = [Inboxes EXCEPT ![x.slot] =
              IF x.gone THEN @ ELSE @ \o WaitingFrom(x.accepts, <<x.home, name>>)],
           Waiting' = [a \in DmAddr |-> IF a \in {<<x.home, name>>} THEN <<>>
                                        ELSE Waiting[a]],
           Sent' = Sent
    PROVE  [Mail!Next]_(Mail!vars)
<1>1. name # None
  BY NamesAssumption
<1>2. Mail!Rename(x, name)
  BY <1>1, MailShows DEF Mail!Rename, Mail!Become, Mail!Get, Mail!Empty,
                         Present, SessionOf, Sent, Waiting, Inboxes
<1>3. QED
  BY <1>2 DEF Mail!Next, Present, SessionOf

\* A session drops its name.
LEMMA MailUnnames ==
    ASSUME NEW x \in Present, None # x.alias,
           Present' = (Present \ {x}) \cup {[x EXCEPT !.alias = None]},
           Inboxes' = Inboxes, Waiting' = Waiting, Sent' = Sent
    PROVE  [Mail!Next]_(Mail!vars)
<1>1. Mail!Rename(x, None)
  BY DEF Mail!Rename, Mail!Become, Present, SessionOf, Sent, Waiting, Inboxes
<1>2. QED
  BY <1>1 DEF Mail!Next, Present, SessionOf

\* A session chooses whom it accepts mail from.
LEMMA MailChooses ==
    ASSUME NEW x \in Present, NEW f \in SUBSET FromAddr,
           Present' = (Present \ {x}) \cup {[x EXCEPT !.accepts = f]},
           Inboxes' = Inboxes, Waiting' = Waiting, Sent' = Sent
    PROVE  [Mail!Next]_(Mail!vars)
<1>1. Mail!Choose(x, f)
  BY DEF Mail!Choose, Mail!Become, Present, SessionOf, Sent, Waiting, Inboxes
<1>2. f \in SUBSET Mail!Sender
  BY MailShows
<1>3. QED
  BY <1>1, <1>2 DEF Mail!Next, Present, SessionOf

\* A session loses its client.
LEMMA MailFades ==
    ASSUME NEW x \in Present,
           Present' = (Present \ {x}) \cup {[x EXCEPT !.gone = TRUE]},
           Inboxes' = Inboxes, Waiting' = Waiting, Sent' = Sent
    PROVE  [Mail!Next]_(Mail!vars)
<1>1. Mail!Fade(x)
  BY DEF Mail!Fade, Mail!Become, Present, SessionOf, Sent, Waiting, Inboxes
<1>2. QED
  BY <1>1 DEF Mail!Next, Present, SessionOf

\* Everybody is gone and the mail is still there.
LEMMA MailRestarts ==
    ASSUME Present' = {}, Inboxes' = [c \in Conn |-> <<>>], Waiting' = Waiting,
           Sent' = Sent
    PROVE  [Mail!Next]_(Mail!vars)
<1>1. Mail!Restart
  BY DEF Mail!Restart, Present, SessionOf, Sent, Waiting, Inboxes
<1>2. QED
  BY <1>1 DEF Mail!Next

\* Whom a message from x to address a reaches.
Reached(x, a) ==
    {y \in Present \ {x} : /\ y.home = a[1] /\ a[2] \in {None, y.sid, y.alias}
                           /\ <<x.home, x.sid>> \in y.accepts}

\* A message is sent: it reaches somebody or waits.
LEMMA MailSends ==
    ASSUME NEW x \in Present, NEW a \in DmAddr, NEW i \in 1..MaxMsg,
           \A n \in Sent : n.id < i,
           NEW m, m = [id |-> i, from |-> <<x.home, x.sid>>, to |-> a,
                       delivered |-> Cardinality(Reached(x, a))],
           Sent' = Sent \cup {m},
           Inboxes' = [s \in Conn |->
              IF \E y \in Reached(x, a) : y.slot = s /\ ~y.gone
              THEN Append(Inboxes[s], m) ELSE Inboxes[s]],
           Waiting' = IF Reached(x, a) # {} THEN Waiting
                      ELSE [Waiting EXCEPT ![a] = AppendBounded(@, m, DmMaxlen)],
           Present' = Present
    PROVE  [Mail!Next]_(Mail!vars)
<1>1. PICK R : R = Reached(x, a)
  OBVIOUS
<1>2. {y \in Mail!Named(a) \ {x} : Mail!NameOf(x) \in y.accepts} = R
  BY <1>1 DEF Reached, Mail!Named, Mail!NameOf, Present, SessionOf
<1>3. [id |-> i, from |-> Mail!NameOf(x), to |-> a, delivered |-> Mail!Cardinality(R)] = m
  BY <1>1 DEF Mail!NameOf, Mail!Cardinality, Cardinality
<1>4. /\ \A n \in Sent : n.id < i
      /\ Sent' = Sent \cup {m}
      /\ Inboxes' = [s \in Conn |-> IF \E y \in R : y.slot = s /\ ~y.gone
                                    THEN Append(Inboxes[s], m) ELSE Inboxes[s]]
      /\ Waiting' = IF R # {} THEN Waiting
                    ELSE [Waiting EXCEPT ![a] = Mail!AppendBounded(@, m, DmMaxlen)]
      /\ UNCHANGED Present
  BY <1>1 DEF Mail!AppendBounded, AppendBounded
<1>5. Mail!Send(x, a)
  <2> DEFINE Goes(r, n) ==
        /\ \A l \in Sent : l.id < i
        /\ Sent' = Sent \cup {n}
        /\ Inboxes' = [s \in Conn |-> IF \E y \in r : y.slot = s /\ ~y.gone
                                      THEN Append(Inboxes[s], n) ELSE Inboxes[s]]
        /\ Waiting' = IF r # {} THEN Waiting
                      ELSE [Waiting EXCEPT ![a] = Mail!AppendBounded(@, n, DmMaxlen)]
        /\ UNCHANGED Present
  <2>1. Goes(R, m)
    BY <1>4
  <2>2. Goes({y \in Mail!Named(a) \ {x} : Mail!NameOf(x) \in y.accepts},
             [id |-> i, from |-> Mail!NameOf(x), to |-> a,
              delivered |-> Mail!Cardinality({y \in Mail!Named(a) \ {x} :
                                                Mail!NameOf(x) \in y.accepts})])
    BY <2>1, <1>2, <1>3
  <2>3. QED
    BY <2>2 DEF Mail!Send, Present, SessionOf, Sent, Waiting, Inboxes
<1>6. a \in Mail!Address
  BY MailShows
<1>7. QED
  BY <1>5, <1>6 DEF Mail!Next, Present, SessionOf

-------------------------------------------------------------------------------
\* A file holds what its queue does, and whoever has not said hello has no filter.
MailInv ==
    /\ \A a \in DmAddr : files[a] = buffers[a]
    /\ \A c \in Conn : ~Identified(c) => conn[c].dm_filter = FromAddr

\* True at the start.
LEMMA MailInit == Init => MailInv
<1> SUFFICES ASSUME Init PROVE MailInv
  OBVIOUS
<1>1. \A a \in DmAddr : files[a] = buffers[a]
  BY DEF Init, Addr
<1>2. \A c \in Conn : conn[c].dm_filter = FromAddr
  BY DEF Init, FreshConn
<1>3. QED
  BY <1>1, <1>2 DEF MailInv

\* Every step keeps it, if no file operation fails.
LEMMA MailInvNext ==
    ASSUME "disk" \notin Faults, RegistryInv, StoreInv, MailInv, [Next]_vars PROVE MailInv'
<1>1. \A a \in DmAddr : files'[a] = buffers'[a]
  <2>1. buffers \in [Addr -> Seq(Nat)] /\ files \in [Addr -> Seq(Nat)]
    BY DEF StoreInv, StoreTypeOK
  <2>2. \A a \in DmAddr : a \in Addr /\ files[a] = buffers[a]
    BY DEF MailInv, Addr
  <2>3. StoreStep
    BY StepsAreStoreSteps
  <2>4. CASE StoreKept
    BY <2>2, <2>4 DEF StoreKept
  <2>5. ASSUME NEW done, Drains(done, {})
        PROVE  \A a \in DmAddr : files'[a] = buffers'[a]
    BY <2>2, <2>5 DEF Drains, Drain
  <2>6. ASSUME NEW b \in Addr, NEW stores \in BOOLEAN, Mints(b, TRUE, stores, TRUE)
        PROVE  \A a \in DmAddr : files'[a] = buffers'[a]
    BY <2>1, <2>2, <2>6 DEF Mints, Persist, store
  <2>7. CASE Reloads
    BY <2>7 DEF Reloads
  <2>8. QED
    BY <2>3, <2>4, <2>5, <2>6, <2>7 DEF StoreStep
<1>2. \A d \in Conn : conn'[d].sid = None => conn'[d].dm_filter = FromAddr
  <2>1. conn \in [Conn -> ConnState]
    BY DEF RegistryInv, RegistryTypeOK
  <2>2. \A d \in Conn : conn[d].sid = None => conn[d].dm_filter = FromAddr
    BY DEF MailInv, Identified
  <2>3. CASE Restart
    BY <2>3 DEF Restart, FreshConn
  <2>4. ASSUME NEW c \in Conn, \A d \in Conn \ {c} : conn'[d] = conn[d],
               \/ conn'[c].sid = conn[c].sid /\ conn'[c].dm_filter = conn[c].dm_filter
               \/ conn'[c].sid # None
               \/ conn'[c].dm_filter = FromAddr
        PROVE  \A d \in Conn : conn'[d].sid = None => conn'[d].dm_filter = FromAddr
    BY <2>2, <2>4
  <2>5. ASSUME NEW c \in Conn, Session(c)
        PROVE  \A d \in Conn : conn'[d].sid = None => conn'[d].dm_filter = FromAddr
    <3>1. \A d \in Conn \ {c} : conn'[d] = conn[d]
      BY <2>1, <2>5 DEF Session, Accept, Hello, HelloDrainFails, Register, Disconnect,
                        WriterFails
    <3>2. CASE Accept(c) \/ Disconnect(c)
      <4>1. conn'[c].dm_filter = FromAddr
        BY <2>1, <3>2 DEF Accept, Disconnect, FreshConn
      <4>2. QED
        BY <2>4, <3>1, <4>1
    <3>3. ASSUME NEW s \in Sid, NEW h \in Home, Register(c, s, h)
          PROVE  conn'[c].sid # None
      <4>1. conn'[c].sid = s
        BY <2>1, <3>3 DEF Register, ConnState
      <4>2. QED
        BY <4>1, NamesAssumption
    <3>4. CASE WriterFails(c)
      <4>1. conn'[c].sid = conn[c].sid /\ conn'[c].dm_filter = conn[c].dm_filter
        BY <2>1, <3>4 DEF WriterFails, ConnState
      <4>2. QED
        BY <2>4, <3>1, <4>1
    <3>5. QED
      BY <2>4, <2>5, <3>1, <3>2, <3>3, <3>4 DEF Session, Hello, HelloDrainFails
  <2>6. ASSUME NEW c \in Conn, Request(c)
        PROVE  \A d \in Conn : conn'[d].sid = None => conn'[d].dm_filter = FromAddr
    <3>1. CASE UNCHANGED conn
      BY <2>2, <3>1
    <3>2. conn[c].sid # None
      BY <2>6 DEF Request, SetAlias, SetAliasDrainFails, TakeAlias, SetDmFilter, Watch,
                  Unwatch, Send, SendFlushFails, Publish, PublishFlushFails, Subscribe,
                  Unsubscribe, ListPeers, Identified
    <3>3. CASE \E x : \/ conn' = [conn EXCEPT ![c].alias = x]
                      \/ conn' = [conn EXCEPT ![c].dm_filter = x]
                      \/ conn' = [conn EXCEPT ![c].wire = x]
                      \/ conn' = [conn EXCEPT ![c].subscriptions = x]
      <4>1. PICK x : \/ conn' = [conn EXCEPT ![c].alias = x]
                     \/ conn' = [conn EXCEPT ![c].dm_filter = x]
                     \/ conn' = [conn EXCEPT ![c].wire = x]
                     \/ conn' = [conn EXCEPT ![c].subscriptions = x]
        BY <3>3
      <4>2. conn'[c].sid = conn[c].sid /\ \A d \in Conn \ {c} : conn'[d] = conn[d]
        BY <2>1, <4>1 DEF ConnState
      <4>3. QED
        BY <2>4, <3>2, <4>2
    <3>4. UNCHANGED conn \/ \E x : \/ conn' = [conn EXCEPT ![c].alias = x]
                                   \/ conn' = [conn EXCEPT ![c].dm_filter = x]
                                   \/ conn' = [conn EXCEPT ![c].wire = x]
                                   \/ conn' = [conn EXCEPT ![c].subscriptions = x]
      BY <2>6 DEF Request, SetAlias, SetAliasDrainFails, TakeAlias, SetDmFilter, Watch,
                  Unwatch, Send, SendFlushFails, Publish, PublishFlushFails, Subscribe,
                  Unsubscribe, ListPeers
    <3>5. QED
      BY <3>1, <3>3, <3>4
  <2>7. CASE UNCHANGED vars
    BY <2>2, <2>7 DEF vars
  <2>8. QED
    BY <2>3, <2>5, <2>6, <2>7 DEF Next
<1>3. QED
  BY <1>1, <1>2 DEF MailInv, Identified

\* What is on an outbox, as letters.
LEMMA PostMeans ==
    ASSUME OutboxInv, NEW d \in Conn
    PROVE  DmsIn(d) = Post(minted, outbox[d]) /\ outbox[d] \in Seq(Entry(1..Len(minted)))
<1>1. PICK q, A, m : /\ q = outbox[d] /\ A = {e \in Ids(outbox[d]) : IsDm(e)}
                     /\ m = minted
  OBVIOUS
<1>2. q \in Seq(Entry(1..Len(m)))
  BY <1>1 DEF OutboxInv, MsgId
<1>3. q \in Seq(Ids(q)) /\ \A x \in Ids(q) : x \in Entry(1..Len(m))
  <2>1. q \in Seq(Ids(q))
    BY <1>2, SeqOfIds
  <2>2. \A k \in DOMAIN q : q[k] \in Entry(1..Len(m))
    BY <1>2
  <2>3. QED
    BY <2>1, <2>2 DEF Ids
<1>4. \A x \in Ids(q) : x \in A <=> x \in Dms(m)
  BY <1>1, <1>3 DEF Dms, IsDm
<1>5. Select(q, A) = Select(q, Dms(m))
  BY <1>3, <1>4, SelectSame
<1>6. PICK r : r = Select(q, A)
  OBVIOUS
<1>7. Numbers(r) \in Seq(1..Len(m)) /\ DOMAIN Numbers(r) = DOMAIN r
  <2>1. PICK N, B : N = 1..Len(m) /\ B = Dms(m)
    OBVIOUS
  <2>2. q \in Seq(Entry(N)) /\ <<>> \in Seq(Entry(N))
    BY <1>2, <2>1
  <2>3. Numbers(Select(q, B)) \in Seq(N)
    BY ONLY <2>2, FedConcat
  <2>4. QED
    BY <1>5, <1>6, <2>1, <2>3 DEF Numbers
<1>8. [k \in DOMAIN r |-> Letter(r[k][2])] = Image(Book(m), Numbers(r))
  <2>1. \A k \in DOMAIN r : Numbers(r)[k] = r[k][2] /\ r[k][2] \in 1..Len(m)
    BY <1>7 DEF Numbers
  <2>2. \A i \in 1..Len(m) : Letter(i) = Book(m)[i]
    BY <1>1 DEF Letter, Book
  <2>3. QED
    BY <1>7, <2>1, <2>2 DEF Image
<1>9. DmsIn(d) = [k \in DOMAIN r |-> Letter(r[k][2])]
  BY <1>1, <1>6 DEF DmsIn
<1>10. QED
  BY <1>1, <1>2, <1>5, <1>6, <1>8, <1>9 DEF Post

\* What is in a queue of direct messages, as letters.
LEMMA QueueMeans ==
    ASSUME StoreInv, NEW a \in DmAddr
    PROVE  /\ Letters(buffers[a]) = Image(Book(minted), buffers[a])
           /\ buffers[a] \in Seq(1..Len(minted))
           /\ \A i \in Ids(buffers[a]) : i \in 1..Len(minted) /\ minted[i].to = a
           /\ Len(buffers[a]) <= DmMaxlen /\ a \in Addr /\ a \notin Topic
<1>1. a \in Addr /\ a \notin Topic /\ Maxlen(a) = DmMaxlen
  BY NamesAssumption DEF Addr, Maxlen
<1>2. buffers[a] \in Seq(MsgId)
  BY <1>1, QueueTypes
<1>3. \A k \in DOMAIN buffers[a] : buffers[a][k] \in 1..Len(minted)
  BY <1>2 DEF MsgId
<1>4. Letters(buffers[a]) = Image(Book(minted), buffers[a])
  BY <1>3 DEF Letters, Letter, Image, Book
<1>5. Orderly(buffers[a], a) /\ DOMAIN buffers[a] = 1..Len(buffers[a])
  BY <1>1, <1>2 DEF StoreInv, QueuesOrderly
<1>6. \A i \in Ids(buffers[a]) : i \in 1..Len(minted) /\ minted[i].to = a
  BY <1>3, <1>5 DEF Ids, Orderly
<1>7. QED
  BY <1>1, <1>2, <1>4, <1>5, <1>6 DEF MsgId, Orderly

\* The two lemmas in one.
LEMMA LettersMean ==
    StoreInv /\ OutboxInv =>
        /\ \A d \in Conn : DmsIn(d) = Post(minted, outbox[d])
        /\ \A a \in DmAddr : Letters(buffers[a]) = Image(Book(minted), buffers[a])
BY PostMeans, QueueMeans

\* What it says before a step and after it.
LEMMA LettersStep ==
    ASSUME StoreInv, OutboxInv, StoreStep, StoreInv', OutboxInv'
    PROVE  /\ Extends(minted', minted)
           /\ \A d \in Conn :
                 /\ DmsIn(d) = Post(minted, outbox[d])
                 /\ outbox[d] \in Seq(Entry(1..Len(minted)))
                 /\ DmsIn(d)' = Post(minted', outbox'[d])
           /\ \A a \in DmAddr :
                 /\ Letters(buffers[a]) = Image(Book(minted), buffers[a])
                 /\ buffers[a] \in Seq(1..Len(minted))
                 /\ Letters(buffers[a])' = Image(Book(minted'), buffers'[a])
<1>1. Extends(minted', minted)
  BY MintedStays DEF Extends, MsgId
<1>2. (/\ \A d \in Conn : DmsIn(d) = Post(minted, outbox[d])
       /\ \A a \in DmAddr : Letters(buffers[a]) = Image(Book(minted), buffers[a]))'
  BY LettersMean, PTL
<1>3. QED
  BY <1>1, <1>2, PostMeans, QueueMeans

\* A queue or an outbox that stays, and an outbox that gets more.
LEMMA LettersStay ==
    ASSUME StoreInv, OutboxInv, StoreStep, StoreInv', OutboxInv'
    PROVE  /\ \A a \in DmAddr : buffers'[a] = buffers[a]
                                  => Letters(buffers[a])' = Letters(buffers[a])
           /\ \A a \in DmAddr : buffers'[a] = <<>> => Letters(buffers[a])' = <<>>
           /\ \A d \in Conn : outbox'[d] = outbox[d] => DmsIn(d)' = DmsIn(d)
           /\ \A d \in Conn : outbox'[d] = <<>> => DmsIn(d)' = <<>>
<1>1. /\ Extends(minted', minted)
      /\ \A d \in Conn : /\ DmsIn(d) = Post(minted, outbox[d])
                         /\ outbox[d] \in Seq(Entry(1..Len(minted)))
                         /\ DmsIn(d)' = Post(minted', outbox'[d])
      /\ \A a \in DmAddr : /\ Letters(buffers[a]) = Image(Book(minted), buffers[a])
                           /\ buffers[a] \in Seq(1..Len(minted))
                           /\ Letters(buffers[a])' = Image(Book(minted'), buffers'[a])
  BY LettersStep
<1>2. PICK m, n : m = minted /\ n = minted'
  OBVIOUS
<1>3. Extends(n, m)
  BY <1>1, <1>2
<1>4. ASSUME NEW a \in DmAddr, buffers'[a] = buffers[a]
      PROVE  Letters(buffers[a])' = Letters(buffers[a])
  <2>1. PICK q : q = buffers[a]
    OBVIOUS
  <2>2. q \in Seq(1..Len(m))
    BY <1>1, <1>2, <2>1
  <2>3. Image(Book(n), q) = Image(Book(m), q)
    BY <1>3, <2>2, BookGrows
  <2>4. QED
    BY <1>1, <1>2, <1>4, <2>1, <2>3
<1>5. ASSUME NEW a \in DmAddr, buffers'[a] = <<>> PROVE Letters(buffers[a])' = <<>>
  <2>1. Image(Book(n), <<>>) = <<>>
    BY DEF Image
  <2>2. QED
    BY <1>1, <1>2, <1>5, <2>1
<1>6. ASSUME NEW d \in Conn, outbox'[d] = outbox[d] PROVE DmsIn(d)' = DmsIn(d)
  <2>1. PICK q : q = outbox[d]
    OBVIOUS
  <2>2. q \in Seq(Entry(1..Len(m)))
    BY <1>1, <1>2, <2>1
  <2>3. Post(n, q) = Post(m, q)
    BY <1>3, <2>2, PostGrows
  <2>4. QED
    BY <1>1, <1>2, <1>6, <2>1, <2>3
<1>7. ASSUME NEW d \in Conn, outbox'[d] = <<>> PROVE DmsIn(d)' = <<>>
  BY <1>1, <1>2, <1>7, PostEmpty
<1>8. QED
  BY <1>4, <1>5, <1>6, <1>7

\* Only messages to sessions are letters, and they stay.
LEMMA SentStays ==
    ASSUME StoreInv, UNCHANGED minted PROVE Sent' = Sent
BY DEF Sent, Letter, MsgId

\* The sessions, when a step changes one Connection.
LEMMA PresentStep ==
    ASSUME NEW c \in Conn, \A d \in Conn \ {c} : conn'[d] = conn[d]
    PROVE  /\ ~Identified(c) /\ Identified(c)' =>
                 Present' = Present \cup {SessionOf(c)'}
           /\ Identified(c) /\ ~Identified(c)' => Present' = Present \ {SessionOf(c)}
           /\ ~Identified(c) /\ ~Identified(c)' => Present' = Present
           /\ Identified(c) /\ Identified(c)' =>
                 Present' = (Present \ {SessionOf(c)}) \cup {SessionOf(c)'}
           /\ Identified(c) => SessionOf(c) \in Present
<1>1. \A d \in Conn \ {c} : /\ SessionOf(d)' = SessionOf(d)
                            /\ Identified(d)' <=> Identified(d)
  BY DEF SessionOf, Identified
<1>2. \A d \in Conn : SessionOf(d).slot = d /\ SessionOf(d)'.slot = d
  BY DEF SessionOf
<1>3. Present = {SessionOf(d) : d \in {d \in Conn : Identified(d)}}
  BY DEF Present
<1>4. Present' = {SessionOf(d)' : d \in {d \in Conn : Identified(d)'}}
  BY DEF Present
<1>5. QED
  BY <1>1, <1>2, <1>3, <1>4

\* The sessions, when no Connection changes in what a client of the mail can tell.
LEMMA PresentStays ==
    ASSUME \A d \in Conn : /\ conn'[d].sid = conn[d].sid
                           /\ conn'[d].home = conn[d].home
                           /\ conn'[d].alias = conn[d].alias
                           /\ conn'[d].dm_filter = conn[d].dm_filter
                           /\ conn'[d].closed = conn[d].closed
    PROVE  Present' = Present
<1>1. \A d \in Conn : SessionOf(d)' = SessionOf(d) /\ (Identified(d)' <=> Identified(d))
  BY DEF SessionOf, Identified
<1>2. QED
  BY <1>1 DEF Present

\* What a session accepts of a queue are the letters of what it is forwarded.
LEMMA WaitingMeans ==
    ASSUME StoreInv, NEW c \in Conn, NEW a \in DmAddr
    PROVE  WaitingFrom(conn[c].dm_filter, a) = Image(Book(minted), Drained(c, a))
<1>1. /\ Letters(buffers[a]) = Image(Book(minted), buffers[a])
      /\ buffers[a] \in Seq(1..Len(minted))
  BY QueueMeans
<1>2. PICK M, q, A, F : /\ M = Book(minted) /\ q = buffers[a] /\ A = Accepted(c, a)
                        /\ F = conn[c].dm_filter
  OBVIOUS
<1>3. PICK B : B = {l \in Ids(Image(M, q)) : l.from \in F}
  OBVIOUS
<1>4. WaitingFrom(F, a) = Select(Image(M, q), B)
  BY <1>1, <1>2, <1>3 DEF WaitingFrom, Waiting
<1>5. q \in Seq(Ids(q)) /\ \A i \in Ids(q) : i \in 1..Len(minted)
  <2>1. q \in Seq(1..Len(minted))
    BY <1>1, <1>2
  <2>2. q \in Seq(Ids(q))
    BY <2>1, SeqOfIds
  <2>3. \A k \in DOMAIN q : q[k] \in 1..Len(minted)
    BY <2>1
  <2>4. QED
    BY <2>2, <2>3 DEF Ids
<1>6. \A i \in Ids(q) : i \in A <=> M[i] \in B
  <2>1. \A i \in Ids(q) : M[i].from = minted[i].from
    BY <1>2, <1>5 DEF Book
  <2>2. \A i \in Ids(q) : M[i] \in Ids(Image(M, q))
    BY DEF Ids, Image
  <2>3. A = {i \in Ids(q) : minted[i].from \in F}
    BY <1>2 DEF Accepted
  <2>4. QED
    BY <1>3, <2>1, <2>2, <2>3
<1>7. Select(Image(M, q), B) = Image(M, Select(q, A))
  BY <1>5, <1>6, SelectImage
<1>8. QED
  BY <1>2, <1>4, <1>7 DEF Drained

\* What waits, when queues are drained or left alone.
LEMMA WaitingStep ==
    ASSUME StoreInv, OutboxInv, StoreStep, StoreInv', OutboxInv'
    PROVE  /\ (\A a \in DmAddr : buffers'[a] = buffers[a]) => Waiting' = Waiting
           /\ \A done : Drain(done, {}) =>
                 Waiting' = [a \in DmAddr |-> IF a \in done THEN <<>> ELSE Waiting[a]]
<1>1. /\ \A a \in DmAddr : buffers'[a] = buffers[a]
                             => Letters(buffers[a])' = Letters(buffers[a])
      /\ \A a \in DmAddr : buffers'[a] = <<>> => Letters(buffers[a])' = <<>>
  BY LettersStay
<1>2. ASSUME \A a \in DmAddr : buffers'[a] = buffers[a] PROVE Waiting' = Waiting
  BY <1>1, <1>2 DEF Waiting
<1>3. ASSUME NEW done, Drain(done, {})
      PROVE  Waiting' = [a \in DmAddr |-> IF a \in done THEN <<>> ELSE Waiting[a]]
  <2>1. \A a \in DmAddr : buffers'[a] = IF a \in done THEN <<>> ELSE buffers[a]
    BY <1>3 DEF Drain, Addr
  <2>2. \A a \in DmAddr : Letters(buffers[a])' = IF a \in done THEN <<>>
                                                 ELSE Letters(buffers[a])
    BY <1>1, <2>1
  <2>3. QED
    BY <2>2 DEF Waiting
<1>4. QED
  BY <1>2, <1>3

\* The inboxes, when one outbox gets more.
LEMMA InboxesStep ==
    ASSUME StoreInv, OutboxInv, StoreStep, StoreInv', OutboxInv', NEW c \in Conn,
           \A d \in Conn \ {c} : conn'[d].sid = conn[d].sid /\ outbox'[d] = outbox[d]
    PROVE  /\ Identified(c)' => Inboxes' = [Inboxes EXCEPT ![c] = DmsIn(c)']
           /\ ~Identified(c)' => Inboxes' = [Inboxes EXCEPT ![c] = <<>>]
           /\ conn'[c].sid = conn[c].sid /\ outbox'[c] = outbox[c] => Inboxes' = Inboxes
<1>1. \A d \in Conn : outbox'[d] = outbox[d] => DmsIn(d)' = DmsIn(d)
  BY LettersStay
<1>2. \A d \in Conn \ {c} : /\ DmsIn(d)' = DmsIn(d)
                            /\ Identified(d)' <=> Identified(d)
  BY <1>1 DEF Identified
<1>3. CASE conn'[c].sid = conn[c].sid /\ outbox'[c] = outbox[c]
  <2>1. DmsIn(c)' = DmsIn(c) /\ (Identified(c)' <=> Identified(c))
    BY <1>1, <1>3 DEF Identified
  <2>2. Inboxes' = Inboxes
    BY <1>2, <2>1 DEF Inboxes
  <2>3. QED
    BY <1>2, <2>2 DEF Inboxes
<1>4. QED
  BY <1>2, <1>3 DEF Inboxes

\* The letters of what a drain puts on an outbox.
LEMMA HandedLetters ==
    ASSUME StoreInv, OutboxInv, StoreStep, StoreInv', OutboxInv', UNCHANGED minted,
           NEW c \in Conn, NEW q \in Seq(1..Len(minted)),
           \A i \in Ids(q) : minted[i].to \in DmAddr,
           outbox'[c] = Put(c, Messages(q))
    PROVE  DmsIn(c)' = IF conn[c].closed THEN DmsIn(c)
                       ELSE DmsIn(c) \o Image(Book(minted), q)
<1>1. CASE conn[c].closed
  <2>1. outbox'[c] = outbox[c]
    BY <1>1 DEF Put
  <2>2. QED
    BY <1>1, <2>1, LettersStay
<1>2. CASE ~conn[c].closed
  <2>1. /\ DmsIn(c) = Post(minted, outbox[c])
        /\ outbox[c] \in Seq(Entry(1..Len(minted)))
        /\ DmsIn(c)' = Post(minted', outbox'[c])
    BY LettersStep
  <2>2. PICK m, p, e : m = minted /\ p = outbox[c] /\ e = Messages(q)
    OBVIOUS
  <2>3. q \in Seq(1..Len(m)) /\ \A i \in Ids(q) : m[i].to \in DmAddr
    BY <2>2
  <2>4. Post(m, e) = Image(Book(m), q)
    BY <2>2, <2>3, PostMessages
  <2>5. p \in Seq(Entry(1..Len(m))) /\ e \in Seq(Entry(1..Len(m)))
    BY <2>1, <2>2, <2>3, EntryTypes
  <2>6. Post(m, p \o e) = Post(m, p) \o Post(m, e)
    BY <2>5, PostConcat
  <2>7. outbox'[c] = p \o e
    BY <1>2, <2>2 DEF Put
  <2>8. QED
    BY <1>2, <2>1, <2>2, <2>4, <2>6, <2>7
<1>3. QED
  BY <1>1, <1>2

\* What is drained are letters.
LEMMA DrainedLetters ==
    ASSUME StoreInv, NEW c, NEW a \in DmAddr
    PROVE  /\ Drained(c, a) \in Seq(1..Len(minted))
           /\ \A i \in Ids(Drained(c, a)) : minted[i].to \in DmAddr
<1>1. a \in Addr
  BY DEF Addr
<1>2. QED
  BY <1>1, DrainedRises DEF MsgId

\* A hello joins.
LEMMA HelloMails ==
    ASSUME RegistryInv, StoreInv, OutboxInv, FifoInv, MailInv, StoreStep, StoreInv',
           OutboxInv', NEW c \in Conn, NEW s \in Sid, NEW h \in Home, Hello(c, s, h)
    PROVE  [Mail!Next]_(Mail!vars)
<1>1. /\ conn[c].open /\ conn[c].sid = None /\ connections[s] = None
      /\ conn' = [conn EXCEPT ![c] = [@ EXCEPT !.sid = s, !.home = h]]
      /\ UNCHANGED minted
      /\ Drain({<<h, None>>, <<h, s>>}, {})
      /\ outbox' = [outbox EXCEPT ![c] =
            Put(c, Messages(Drained(c, <<h, None>>) \o Drained(c, <<h, s>>)))]
  BY DEF Hello, Register, Hand, Identified
<1>2. conn \in [Conn -> ConnState] /\ outbox \in [Conn -> Seq(Entry(MsgId))]
  BY DEF RegistryInv, RegistryTypeOK, OutboxInv
<1>3. conn[c].alias = None /\ conn[c].dm_filter = FromAddr /\ outbox[c] = <<>>
  BY <1>1 DEF RegistryInv, RegistryExact, IdentityWhole, MailInv, Identified, FifoInv, Untold
<1>4. /\ \A d \in Conn \ {c} : conn'[d] = conn[d] /\ outbox'[d] = outbox[d]
      /\ conn'[c].sid = s /\ conn'[c].home = h /\ conn'[c].alias = None
      /\ conn'[c].dm_filter = FromAddr /\ conn'[c].closed = conn[c].closed
      /\ conn[c].closed \in BOOLEAN
  BY <1>1, <1>2, <1>3 DEF ConnState
<1>5. s # None
  BY NamesAssumption
<1>6. ~Identified(c) /\ Identified(c)'
  BY <1>1, <1>4, <1>5 DEF Identified
<1>7. PICK gone \in BOOLEAN : gone = conn[c].closed
  BY <1>4
<1>8. Present' = Present \cup {[slot |-> c, sid |-> s, home |-> h, alias |-> None,
                                accepts |-> FromAddr, gone |-> gone]}
  <2>1. Present' = Present \cup {SessionOf(c)'}
    BY <1>4, <1>6, PresentStep
  <2>2. SessionOf(c)' = [slot |-> c, sid |-> s, home |-> h, alias |-> None,
                         accepts |-> FromAddr, gone |-> gone]
    BY <1>4, <1>7 DEF SessionOf
  <2>3. QED
    BY <2>1, <2>2
<1>9. \A y \in Present : y.slot # c /\ y.sid # s
  <2>1. ASSUME NEW d \in Conn, Identified(d) PROVE d # c /\ conn[d].sid # s
    BY <1>1, <1>6, <2>1, NamesAssumption, IdentifiedFacts DEF Identified
  <2>2. QED
    BY <2>1 DEF Present, SessionOf
<1>10. PICK a, b \in DmAddr : a = <<h, None>> /\ b = <<h, s>>
  BY DEF DmAddr
<1>11. Waiting' = [x \in DmAddr |-> IF x \in {<<h, None>>, <<h, s>>} THEN <<>>
                                    ELSE Waiting[x]]
  BY <1>1, WaitingStep
<1>12. Sent' = Sent
  BY <1>1, SentStays
<1>13. PICK p, q, M : p = Drained(c, a) /\ q = Drained(c, b) /\ M = Book(minted)
  OBVIOUS
<1>14. DmsIn(c)' = IF conn[c].closed THEN DmsIn(c) ELSE DmsIn(c) \o Image(M, p \o q)
  <2>1. /\ p \in Seq(1..Len(minted)) /\ \A i \in Ids(p) : minted[i].to \in DmAddr
        /\ q \in Seq(1..Len(minted)) /\ \A i \in Ids(q) : minted[i].to \in DmAddr
    BY <1>13, DrainedLetters
  <2>2. PICK r : r = p \o q
    OBVIOUS
  <2>3. r \in Seq(1..Len(minted)) /\ \A i \in Ids(r) : minted[i].to \in DmAddr
    <3>1. /\ Len(r) = Len(p) + Len(q)
          /\ \A i \in 1..Len(p) : r[i] = p[i]
          /\ \A i \in (Len(p) + 1)..Len(r) : r[i] = q[i - Len(p)]
          /\ r \in Seq(1..Len(minted))
      BY <2>1, <2>2
    <3>2. DOMAIN p = 1..Len(p) /\ DOMAIN q = 1..Len(q) /\ DOMAIN r = 1..Len(r)
          /\ Len(p) \in Nat /\ Len(q) \in Nat
      BY <2>1, <3>1
    <3>3. \A i \in 1..Len(p) : minted[p[i]].to \in DmAddr
      BY <2>1, <3>2 DEF Ids
    <3>4. \A i \in 1..Len(q) : minted[q[i]].to \in DmAddr
      BY <2>1, <3>2 DEF Ids
    <3>5. ASSUME NEW i \in 1..Len(r) PROVE minted[r[i]].to \in DmAddr
      <4>1. CASE i \in 1..Len(p)
        BY <3>1, <3>3, <4>1
      <4>2. CASE i \in (Len(p) + 1)..Len(r)
        BY <3>1, <3>2, <3>4, <4>2
      <4>3. QED
        BY <3>1, <3>2, <4>1, <4>2
    <3>6. QED
      BY <3>1, <3>2, <3>5 DEF Ids
  <2>4. outbox'[c] = Put(c, Messages(r))
    BY <1>1, <1>2, <1>10, <1>13, <2>2
  <2>5. DmsIn(c)' = IF conn[c].closed THEN DmsIn(c)
                    ELSE DmsIn(c) \o Image(Book(minted), r)
    BY <1>1, <2>3, <2>4, HandedLetters
  <2>6. QED
    BY <1>13, <2>2, <2>5
<1>15. Image(M, p \o q) = WaitingFrom(FromAddr, a) \o WaitingFrom(FromAddr, b)
  <2>1. p \in Seq(1..Len(minted)) /\ q \in Seq(1..Len(minted))
    BY <1>13, DrainedLetters
  <2>2. Image(M, p \o q) = Image(M, p) \o Image(M, q)
    BY <2>1, ImageConcat
  <2>3. WaitingFrom(FromAddr, a) = Image(M, p) /\ WaitingFrom(FromAddr, b) = Image(M, q)
    BY <1>3, <1>13, WaitingMeans
  <2>4. QED
    BY <2>2, <2>3
<1>16. DmsIn(c) = <<>> /\ Inboxes[c] = <<>>
  BY <1>3, <1>6, PostEmpty, PostMeans DEF Inboxes
<1>17. Inboxes' = [Inboxes EXCEPT ![c] =
              IF gone THEN @ ELSE @ \o (WaitingFrom(FromAddr, <<h, None>>)
                                          \o WaitingFrom(FromAddr, <<h, s>>))]
  <2>1. Inboxes' = [Inboxes EXCEPT ![c] = DmsIn(c)']
    BY <1>4, <1>6, InboxesStep
  <2>2. DmsIn(c)' = IF gone THEN Inboxes[c]
           ELSE Inboxes[c] \o (WaitingFrom(FromAddr, a) \o WaitingFrom(FromAddr, b))
    BY <1>7, <1>14, <1>15, <1>16
  <2>3. QED
    BY <1>10, <2>1, <2>2
<1>18. QED
  BY <1>8, <1>9, <1>11, <1>12, <1>17, MailJoins

\* A goodbye leaves; a connection that never said hello is none of the mail's.
LEMMA DisconnectMails ==
    ASSUME RegistryInv, StoreInv, OutboxInv, StoreStep, StoreInv', OutboxInv',
           NEW c \in Conn, Disconnect(c)
    PROVE  [Mail!Next]_(Mail!vars)
<1>1. /\ conn' = [conn EXCEPT ![c] = FreshConn]
      /\ UNCHANGED <<store, mail>>
  BY DEF Disconnect
<1>2. conn \in [Conn -> ConnState]
  BY DEF RegistryInv, RegistryTypeOK
<1>3. /\ \A d \in Conn \ {c} : conn'[d] = conn[d] /\ outbox'[d] = outbox[d]
      /\ conn'[c].sid = None /\ outbox'[c] = outbox[c]
  BY <1>1, <1>2 DEF FreshConn, mail
<1>4. ~Identified(c)'
  BY <1>3 DEF Identified
<1>5. Waiting' = Waiting /\ Sent' = Sent
  BY <1>1, WaitingStep, SentStays DEF store, mail
<1>6. CASE Identified(c)
  <2>1. SessionOf(c) \in Present /\ Present' = Present \ {SessionOf(c)}
    BY <1>3, <1>4, <1>6, PresentStep
  <2>2. Inboxes' = [Inboxes EXCEPT ![SessionOf(c).slot] = <<>>]
    BY <1>3, <1>4, InboxesStep DEF SessionOf
  <2>3. QED
    BY <1>5, <2>1, <2>2, MailLeaves
<1>7. CASE ~Identified(c)
  <2>1. Present' = Present
    BY <1>3, <1>4, <1>7, PresentStep
  <2>2. Inboxes' = Inboxes
    BY <1>3, <1>7, InboxesStep DEF Identified
  <2>3. QED
    BY <1>5, <2>1, <2>2, MailIdles
<1>8. QED
  BY <1>6, <1>7

\* A new connection is none of the mail's.
LEMMA AcceptMails ==
    ASSUME RegistryInv, StoreInv, OutboxInv, StoreStep, StoreInv', OutboxInv',
           NEW c \in Conn, Accept(c)
    PROVE  [Mail!Next]_(Mail!vars)
<1>1. /\ ~conn[c].open /\ UNCHANGED <<store, minted>>
      /\ conn' = [conn EXCEPT ![c] = [FreshConn EXCEPT !.open = TRUE]]
      /\ outbox' = [outbox EXCEPT ![c] = <<>>]
  BY DEF Accept
<1>2. conn \in [Conn -> ConnState] /\ outbox \in [Conn -> Seq(Entry(MsgId))]
  BY DEF RegistryInv, RegistryTypeOK, OutboxInv
<1>3. conn[c].sid = None
  BY <1>1 DEF RegistryInv, RegistryExact, IdentityWhole
<1>4. /\ \A d \in Conn \ {c} : conn'[d] = conn[d] /\ outbox'[d] = outbox[d]
      /\ conn'[c].sid = None
  BY <1>1, <1>2 DEF FreshConn
<1>5. ~Identified(c) /\ ~Identified(c)'
  BY <1>3, <1>4 DEF Identified
<1>6. Waiting' = Waiting /\ Sent' = Sent
  BY <1>1, WaitingStep, SentStays DEF store
<1>7. Present' = Present
  BY <1>4, <1>5, PresentStep
<1>8. Inboxes' = Inboxes
  <2>1. Inboxes' = [Inboxes EXCEPT ![c] = <<>>]
    BY <1>4, <1>5, InboxesStep
  <2>2. Inboxes[c] = <<>> /\ Inboxes = [d \in Conn |-> Inboxes[d]]
    BY <1>5 DEF Inboxes
  <2>3. QED
    BY <2>1, <2>2
<1>9. QED
  BY <1>6, <1>7, <1>8, MailIdles

\* A set_alias takes a name, drops one, or asks for the one it has.
LEMMA SetAliasMails ==
    ASSUME RegistryInv, StoreInv, OutboxInv, StoreStep, StoreInv', OutboxInv',
           NEW c \in Conn, NEW new \in Alias \cup {None}, SetAlias(c, new)
    PROVE  [Mail!Next]_(Mail!vars)
<1>1. /\ conn[c].sid # None /\ conn' = [conn EXCEPT ![c].alias = new]
      /\ new # None => aliases_by_home[conn[c].home][new] \in {None, conn[c].sid}
      /\ UNCHANGED minted
  BY DEF SetAlias, TakeAlias, Identified
<1>2. conn \in [Conn -> ConnState] /\ outbox \in [Conn -> Seq(Entry(MsgId))]
  BY DEF RegistryInv, RegistryTypeOK, OutboxInv
<1>3. /\ \A d \in Conn \ {c} : conn'[d] = conn[d]
      /\ conn'[c] = [conn[c] EXCEPT !.alias = new]
  BY <1>1, <1>2
<1>4. /\ conn'[c].sid = conn[c].sid /\ conn'[c].home = conn[c].home
      /\ conn'[c].alias = new /\ conn'[c].dm_filter = conn[c].dm_filter
      /\ conn'[c].closed = conn[c].closed
  BY <1>2, <1>3 DEF ConnState
<1>5. Identified(c) /\ Identified(c)'
  BY <1>1, <1>4 DEF Identified
<1>6. PICK x : x = SessionOf(c)
  OBVIOUS
<1>7. /\ x \in Present /\ x.slot = c /\ x.alias = conn[c].alias /\ x.home = conn[c].home
      /\ x.gone = conn[c].closed /\ x.accepts = conn[c].dm_filter
      /\ SessionOf(c)' = [x EXCEPT !.alias = new]
      /\ Present' = (Present \ {x}) \cup {[x EXCEPT !.alias = new]}
  <2>1. x \in Present /\ Present' = (Present \ {x}) \cup {SessionOf(c)'}
    BY <1>3, <1>5, <1>6, PresentStep
  <2>2. SessionOf(c)' = [x EXCEPT !.alias = new]
    BY <1>4, <1>6 DEF SessionOf
  <2>3. QED
    BY <1>6, <2>1, <2>2 DEF SessionOf
<1>8. Sent' = Sent
  BY <1>1, SentStays
<1>9. CASE new \in {None, conn[c].alias}
  <2>1. UNCHANGED <<store, outbox>>
    BY <1>9 DEF SetAlias
  <2>2. Waiting' = Waiting
    BY <2>1, WaitingStep DEF store
  <2>3. Inboxes' = Inboxes
    BY <1>3, <1>4, <2>1, InboxesStep
  <2>4. CASE new = conn[c].alias
    <3>1. \A d \in Conn : conn'[d] = conn[d]
      BY <1>2, <1>3, <2>4 DEF ConnState
    <3>2. Present' = Present
      BY <3>1, PresentStays
    <3>3. QED
      BY <1>8, <2>2, <2>3, <3>2, MailIdles
  <2>5. CASE new = None /\ new # conn[c].alias
    BY <1>7, <1>8, <2>2, <2>3, <2>5, MailUnnames
  <2>6. QED
    BY <1>9, <2>4, <2>5
<1>10. CASE new \notin {None, conn[c].alias}
  <2>1. PICK name \in Alias : name = new
    BY <1>10
  <2>2. conn[c].home \in Home /\ conn[c].sid \in Sid
    BY <1>1, IdentifiedFacts
  <2>3. PICK a \in DmAddr : a = <<conn[c].home, name>>
    BY <2>2 DEF DmAddr
  <2>4. Drain({a}, {}) /\ outbox' = [outbox EXCEPT ![c] = Put(c, Messages(Drained(c, a)))]
    BY <1>10, <2>1, <2>3 DEF SetAlias, Hand
  <2>5. Waiting' = [y \in DmAddr |-> IF y \in {<<x.home, name>>} THEN <<>> ELSE Waiting[y]]
    BY <1>7, <2>3, <2>4, WaitingStep
  <2>6. \A y \in Present : y.home = x.home => y.alias # name
    <3>1. ASSUME NEW d \in Conn, Identified(d), conn[d].home = conn[c].home,
                 conn[d].alias = name
          PROVE  FALSE
      <4>1. conn[d].sid \in Sid /\ connections[conn[d].sid] = d
        BY <3>1, IdentifiedFacts DEF Identified
      <4>2. aliases_by_home[conn[c].home][name] = conn[d].sid
        BY <2>2, <3>1, <4>1 DEF RegistryInv, RegistryExact, AliasesExact
      <4>3. conn[d].sid = conn[c].sid
        BY <1>1, <1>10, <2>1, <4>1, <4>2, NamesAssumption
      <4>4. c = d
        BY <1>1, <4>1, <4>3, IdentifiedFacts
      <4>5. QED
        BY <1>10, <2>1, <3>1, <4>4
    <3>2. QED
      BY <1>7, <3>1 DEF Present, SessionOf
  <2>7. DmsIn(c)' = IF conn[c].closed THEN DmsIn(c)
                    ELSE DmsIn(c) \o WaitingFrom(conn[c].dm_filter, a)
    <3>1. PICK q : q = Drained(c, a)
      OBVIOUS
    <3>2. q \in Seq(1..Len(minted)) /\ \A i \in Ids(q) : minted[i].to \in DmAddr
      BY <3>1, DrainedLetters
    <3>3. outbox'[c] = Put(c, Messages(q))
      BY <1>2, <2>4, <3>1
    <3>4. DmsIn(c)' = IF conn[c].closed THEN DmsIn(c)
                      ELSE DmsIn(c) \o Image(Book(minted), q)
      BY <1>1, <3>2, <3>3, HandedLetters
    <3>5. QED
      BY <3>1, <3>4, WaitingMeans
  <2>8. Inboxes' = [Inboxes EXCEPT ![x.slot] =
              IF x.gone THEN @ ELSE @ \o WaitingFrom(x.accepts, <<x.home, name>>)]
    <3>1. \A d \in Conn \ {c} : conn'[d].sid = conn[d].sid /\ outbox'[d] = outbox[d]
      BY <1>2, <1>3, <2>4
    <3>2. Inboxes' = [Inboxes EXCEPT ![c] = DmsIn(c)']
      BY <1>5, <3>1, InboxesStep
    <3>3. Inboxes[c] = DmsIn(c)
      BY <1>5 DEF Inboxes
    <3>4. QED
      BY <1>7, <2>3, <2>7, <3>2, <3>3
  <2>9. QED
    BY <1>7, <1>8, <1>10, <2>1, <2>5, <2>6, <2>8, MailRenames
<1>11. QED
  BY <1>9, <1>10

\* A new filter is a choice, a dead write loop a client lost.
LEMMA FieldMails ==
    ASSUME RegistryInv, StoreInv, OutboxInv, StoreStep, StoreInv', OutboxInv',
           NEW c \in Conn,
           \/ \E f \in DmFilters : SetDmFilter(c, f)
           \/ WriterFails(c)
    PROVE  [Mail!Next]_(Mail!vars)
<1>1. conn \in [Conn -> ConnState]
  BY DEF RegistryInv, RegistryTypeOK
<1>2. UNCHANGED <<store, mail>>
  BY DEF SetDmFilter, WriterFails
<1>3. Sent' = Sent /\ Waiting' = Waiting
  BY <1>2, WaitingStep, SentStays DEF store, mail
<1>4. PICK x : x = SessionOf(c)
  OBVIOUS
<1>5. ASSUME NEW f \in DmFilters, SetDmFilter(c, f) PROVE [Mail!Next]_(Mail!vars)
  <2>1. /\ \A d \in Conn \ {c} : conn'[d] = conn[d]
        /\ conn'[c] = [conn[c] EXCEPT !.dm_filter = f]
        /\ Identified(c)
    BY <1>1, <1>5 DEF SetDmFilter
  <2>2. /\ conn'[c].sid = conn[c].sid /\ conn'[c].home = conn[c].home
        /\ conn'[c].alias = conn[c].alias /\ conn'[c].dm_filter = f
        /\ conn'[c].closed = conn[c].closed
    BY <1>1, <2>1 DEF ConnState
  <2>3. Identified(c)'
    BY <2>1, <2>2 DEF Identified
  <2>4. SessionOf(c)' = [x EXCEPT !.accepts = f]
    BY <1>4, <2>2 DEF SessionOf
  <2>5. x \in Present /\ Present' = (Present \ {x}) \cup {[x EXCEPT !.accepts = f]}
    BY <1>4, <2>1, <2>3, <2>4, PresentStep
  <2>6. Inboxes' = Inboxes
    BY <1>2, <2>1, <2>2, InboxesStep DEF mail
  <2>7. f \in SUBSET FromAddr
    BY FiltersAssumption
  <2>8. QED
    BY <1>3, <2>5, <2>6, <2>7, MailChooses
<1>6. CASE WriterFails(c)
  <2>1. /\ \A d \in Conn \ {c} : conn'[d] = conn[d]
        /\ conn'[c] = [conn[c] EXCEPT !.closed = TRUE]
    BY <1>1, <1>6 DEF WriterFails
  <2>2. /\ conn'[c].sid = conn[c].sid /\ conn'[c].home = conn[c].home
        /\ conn'[c].alias = conn[c].alias /\ conn'[c].dm_filter = conn[c].dm_filter
    BY <1>1, <2>1 DEF ConnState
  <2>3. Identified(c)' <=> Identified(c)
    BY <2>2 DEF Identified
  <2>4. Inboxes' = Inboxes
    BY <1>2, <2>1, <2>2, InboxesStep DEF mail
  <2>5. CASE Identified(c)
    <3>1. SessionOf(c)' = [x EXCEPT !.gone = TRUE]
      <4>1. PICK b : b = TRUE
        OBVIOUS
      <4>2. conn'[c].closed = b
        BY <1>1, <2>1, <4>1 DEF ConnState
      <4>3. SessionOf(c)' = [x EXCEPT !.gone = b]
        BY <1>4, <2>2, <4>2 DEF SessionOf
      <4>4. QED
        BY <4>1, <4>3
    <3>2. x \in Present /\ Present' = (Present \ {x}) \cup {[x EXCEPT !.gone = TRUE]}
      BY <1>4, <2>1, <2>3, <2>5, <3>1, PresentStep
    <3>3. QED
      BY <1>3, <2>4, <3>2, MailFades
  <2>6. CASE ~Identified(c)
    <3>1. Present' = Present
      BY <2>1, <2>3, <2>6, PresentStep
    <3>2. QED
      BY <1>3, <2>4, <3>1, MailIdles
  <2>7. QED
    BY <2>5, <2>6
<1>7. QED
  BY <1>5, <1>6

\* A restart is one of the mail service: the files are the queues.
LEMMA RestartMails ==
    ASSUME StoreInv, OutboxInv, MailInv, StoreStep, StoreInv', OutboxInv', Restart
    PROVE  [Mail!Next]_(Mail!vars)
<1>1. /\ conn' = [c \in Conn |-> FreshConn] /\ buffers' = files
      /\ UNCHANGED minted
  BY DEF Restart
<1>2. \A c \in Conn : ~Identified(c)'
  BY <1>1 DEF Identified, FreshConn
<1>3. Present' = {} /\ Inboxes' = [c \in Conn |-> <<>>]
  BY <1>2 DEF Present, Inboxes
<1>4. \A a \in DmAddr : buffers'[a] = buffers[a]
  BY <1>1 DEF MailInv
<1>5. Waiting' = Waiting /\ Sent' = Sent
  BY <1>1, <1>4, WaitingStep, SentStays
<1>6. QED
  BY <1>3, <1>5, MailRestarts

\* Whom the router hands a message to are those the mail service says it reaches.
LEMMA TargetsMean ==
    ASSUME RegistryInv, NEW c \in Conn, Identified(c), NEW a \in DmAddr
    PROVE  /\ \A d \in Conn : d \in DmTargets(c, a) <=>
                 /\ Named(a, d) /\ d # c /\ FromOf(c) \in conn[d].dm_filter
           /\ Reached(SessionOf(c), a) = {SessionOf(d) : d \in DmTargets(c, a)}
           /\ Cardinality(Reached(SessionOf(c), a)) = Cardinality(DmTargets(c, a))
<1>1. ASSUME NEW d \in Conn
      PROVE  d \in DmTargets(c, a) <=>
                 Named(a, d) /\ d # c /\ FromOf(c) \in conn[d].dm_filter
  <2>1. Named(a, d) <=> \E s \in Recipients(a) : connections[s] = d
    BY NamesMeans DEF Names
  <2>2. \A s \in Recipients(a) : connections[s] = d => s = conn[d].sid
    <3>1. Recipients(a) \subseteq Sid
      <4>1. by_home \in [Home -> SUBSET Sid] /\ a[1] \in Home
        BY DEF RegistryInv, RegistryTypeOK, DmAddr
      <4>2. QED
        BY <4>1 DEF Recipients
    <3>2. QED
      BY <3>1 DEF RegistryInv, RegistryExact, ConnectionsExact
  <2>3. Named(a, d) => (conn[d].sid = conn[c].sid <=> d = c)
    BY IdentifiedFacts DEF Named, Identified
  <2>4. QED
    BY <2>1, <2>2, <2>3 DEF DmTargets
<1>2. PICK T : T = DmTargets(c, a)
  OBVIOUS
<1>3. T \subseteq Conn
  BY <1>2 DEF DmTargets
<1>4. Reached(SessionOf(c), a) = {SessionOf(d) : d \in T}
  <2>1. \A d \in Conn : SessionOf(d).slot = d
    BY DEF SessionOf
  <2>2. Present = {SessionOf(d) : d \in {d \in Conn : Identified(d)}}
    BY DEF Present
  <2>3. SessionOf(c).home = conn[c].home /\ SessionOf(c).sid = conn[c].sid
    BY DEF SessionOf
  <2>4. Reached(SessionOf(c), a) =
          {y \in Present \ {SessionOf(c)} :
             y.home = a[1] /\ a[2] \in {None, y.sid, y.alias} /\ FromOf(c) \in y.accepts}
    BY <2>3 DEF Reached, FromOf
  <2>5. ASSUME NEW d \in Conn
        PROVE  (/\ Identified(d) /\ SessionOf(d) # SessionOf(c)
                /\ SessionOf(d).home = a[1]
                /\ a[2] \in {None, SessionOf(d).sid, SessionOf(d).alias}
                /\ FromOf(c) \in SessionOf(d).accepts) <=> d \in T
    <3>1. /\ SessionOf(d).home = conn[d].home /\ SessionOf(d).sid = conn[d].sid
          /\ SessionOf(d).alias = conn[d].alias /\ SessionOf(d).accepts = conn[d].dm_filter
      BY DEF SessionOf
    <3>2. SessionOf(d) = SessionOf(c) <=> d = c
      BY <2>1
    <3>3. QED
      BY <1>1, <1>2, <3>1, <3>2 DEF Named, Identified
  <2>6. QED
    BY <1>3, <2>2, <2>4, <2>5
<1>5. Cardinality({SessionOf(d) : d \in T}) = Cardinality(T)
  <2>1. PICK R : R = {SessionOf(d) : d \in T}
    OBVIOUS
  <2>2. \A d \in T : SessionOf(d).slot = d
    BY DEF SessionOf
  <2>3. PICK F : F = [d \in T |-> SessionOf(d)]
    OBVIOUS
  <2>4. F \in Bijection(T, R)
    BY <2>1, <2>2, <2>3 DEF Bijection, Injection, Surjection, IsInjective
  <2>5. ExistsBijection(T, R)
    BY <2>4 DEF ExistsBijection
  <2>6. IsFiniteSet(T)
    BY <1>3, SlotsAssumption, FS_Subset
  <2>7. QED
    BY <2>1, <2>5, <2>6, FS_Bijection
<1>6. QED
  BY <1>1, <1>2, <1>4, <1>5

\* What waits for nobody yet waits as a letter.
LEMMA AppendMeans ==
    ASSUME NEW S, NEW M, NEW q \in Seq(S), NEW x \in S, NEW n \in Nat \ {0}
    PROVE  Image(M, AppendBounded(q, x, n)) = AppendBounded(Image(M, q), M[x], n)
<1>1. PICK r : r = Append(q, x)
  OBVIOUS
<1>2. r \in Seq(S) /\ r # <<>> /\ Len(r) \in Nat
  BY <1>1
<1>3. Image(M, r) = Append(Image(M, q), M[x])
  BY <1>1, ImageAppend
<1>4. Len(Image(M, r)) = Len(r)
  BY <1>2, ImageTyped
<1>5. Image(M, Tail(r)) = Tail(Image(M, r))
  BY <1>2 DEF Image
<1>6. CASE Len(r) > n
  BY <1>1, <1>3, <1>4, <1>5, <1>6 DEF AppendBounded
<1>7. CASE ~(Len(r) > n)
  BY <1>1, <1>3, <1>4, <1>7 DEF AppendBounded
<1>8. QED
  BY <1>6, <1>7

\* A send is one: what the outboxes, the queue and the reply get is what the mail
\* service says.
LEMMA SendMails ==
    ASSUME RegistryInv, StoreInv, OutboxInv, StoreStep, StoreInv', OutboxInv',
           NEW c \in Conn, NEW a \in DmAddr, Send(c, a)
    PROVE  [Mail!Next]_(Mail!vars)
<1>1. PICK T, W : T = DmTargets(c, a) /\ W = Watchers(c, a)
  OBVIOUS
<1>2. /\ conn[c].sid # None
      /\ Len(minted) < MaxMsg
      /\ minted' = Append(minted, [from |-> FromOf(c), to |-> a, acked |-> TRUE,
                                   delivered |-> Cardinality(T)])
      /\ outbox' = FanOut(NextId, T, W)
      /\ T = {} => Persist(a, TRUE)
      /\ T # {} => UNCHANGED store
      /\ UNCHANGED <<conn, registry, seen>>
  BY <1>1 DEF Send, Mint, Identified
<1>3. /\ minted \in Seq(MessageState) /\ Len(minted) \in Nat
      /\ FromOf(c) \in FromAddr /\ a \in Addr /\ Cardinality(T) \in Nat
  <2>1. T \in SUBSET Conn
    BY <1>1 DEF DmTargets
  <2>2. Cardinality(T) \in Nat
    BY <2>1, SlotsAssumption, FS_Subset, FS_CardinalityType
  <2>3. QED
    BY <1>2, <2>2, IdentifiedFacts DEF StoreInv, StoreTypeOK, Addr
<1>4. /\ Len(minted') = NextId /\ NextId \in 1..MaxMsg /\ NextId \in 1..Len(minted')
      /\ minted'[NextId].from = FromOf(c) /\ minted'[NextId].to = a
      /\ minted'[NextId].delivered = Cardinality(T)
      /\ \A i \in 1..Len(minted) : minted'[i] = minted[i] /\ i < NextId
  <2>1. PICK m : m = [from |-> FromOf(c), to |-> a, acked |-> TRUE,
                      delivered |-> Cardinality(T)]
    OBVIOUS
  <2>2. m \in MessageState
    BY <1>3, <2>1 DEF MessageState
  <2>3. /\ Len(minted') = Len(minted) + 1 /\ minted'[NextId] = m
        /\ \A i \in 1..Len(minted) : minted'[i] = minted[i]
    BY <1>2, <1>3, <2>1, <2>2, MintedGrows
  <2>4. m.from = FromOf(c) /\ m.to = a /\ m.delivered = Cardinality(T)
    BY <2>1
  <2>5. MaxMsg \in Nat
    BY BoundsAssumption
  <2>6. QED
    BY <1>2, <1>3, <2>3, <2>4, <2>5 DEF NextId
<1>5. PICK x : x = SessionOf(c)
  OBVIOUS
<1>6. /\ x \in Present /\ x.home = conn[c].home /\ x.sid = conn[c].sid
      /\ Present' = Present
  BY <1>2, <1>5, PresentStays DEF Present, SessionOf, Identified
<1>7. /\ Reached(x, a) = {SessionOf(d) : d \in T}
      /\ Cardinality(Reached(x, a)) = Cardinality(T)
  BY <1>1, <1>2, <1>5, TargetsMean DEF Identified
<1>8. PICK m : m = [id |-> NextId, from |-> <<x.home, x.sid>>, to |-> a,
                    delivered |-> Cardinality(Reached(x, a))]
  OBVIOUS
<1>9. m = Book(minted')[NextId]
  <2>1. m = [id |-> NextId, from |-> FromOf(c), to |-> a, delivered |-> Cardinality(T)]
    BY <1>6, <1>7, <1>8 DEF FromOf
  <2>2. QED
    BY <1>4, <2>1 DEF Book
<1>10. Sent' = Sent \cup {m} /\ \A n \in Sent : n.id < NextId
  <2>1. Sent = {Letter(i) : i \in {i \in 1..Len(minted) : minted[i].to \in DmAddr}}
    BY DEF Sent, MsgId
  <2>2. Sent' = {Book(minted')[i] :
                   i \in {i \in 1..Len(minted') : minted'[i].to \in DmAddr}}
    BY DEF Sent, MsgId, Letter, Book
  <2>3. \A i \in 1..Len(minted) : Letter(i) = Book(minted')[i] /\ Letter(i).id = i
    BY <1>3, <1>4 DEF Letter, Book, NextId
  <2>4. 1..Len(minted') = 1..Len(minted) \cup {NextId}
    BY <1>3, <1>4 DEF NextId
  <2>5. \A n \in Sent : n.id < NextId
    BY <1>4, <2>1, <2>3
  <2>6. Sent' = Sent \cup {m}
    BY <1>4, <1>9, <2>1, <2>2, <2>3, <2>4
  <2>7. QED
    BY <2>5, <2>6
<1>11. ASSUME NEW d \in Conn
       PROVE  DmsIn(d)' = IF d \in T /\ ~conn[d].closed THEN Append(DmsIn(d), m)
                          ELSE DmsIn(d)
  <2>1. /\ Extends(minted', minted)
        /\ DmsIn(d) = Post(minted, outbox[d])
        /\ outbox[d] \in Seq(Entry(1..Len(minted)))
        /\ DmsIn(d)' = Post(minted', outbox'[d])
    BY LettersStep
  <2>2. outbox'[d] = IF conn[d].closed THEN outbox[d]
                     ELSE outbox[d] \o Share(NextId, d, T, W)
    BY <1>2 DEF FanOut, Put, Share
  <2>3. CASE conn[d].closed
    <3>1. DmsIn(d)' = DmsIn(d)
      BY <2>2, <2>3, LettersStay
    <3>2. QED
      BY <2>3, <3>1
  <2>4. CASE ~conn[d].closed
    <3>1. PICK k, n, p, e, i : /\ k = minted /\ n = minted' /\ p = outbox[d]
                               /\ e = Share(NextId, d, T, W) /\ i = NextId
      OBVIOUS
    <3>2. Extends(n, k) /\ p \in Seq(Entry(1..Len(k))) /\ i \in 1..Len(n)
      BY <1>4, <2>1, <3>1
    <3>3. p \in Seq(Entry(1..Len(n)))
      <4>1. Entry(1..Len(k)) \subseteq Entry(1..Len(n))
        BY <3>2 DEF Extends, Entry
      <4>2. QED
        BY <3>2, <4>1
    <3>4. e \in Seq(Entry(1..Len(n)))
      BY <3>1, <3>2, FanOutEntries
    <3>5. Post(n, p \o e) = Post(n, p) \o Post(n, e) /\ \E V : Post(n, p) \in Seq(V)
      BY <3>3, <3>4, PostConcat
    <3>6. Post(n, p) = Post(k, p)
      BY <3>2, PostGrows
    <3>7. Post(n, e) = IF d \in T THEN <<m>> ELSE <<>>
      <4>1. n[i].to \in DmAddr /\ Book(n)[i] = m
        BY <1>4, <1>9, <3>1
      <4>2. d \in T => Post(n, Share(i, d, T, W)) = <<Book(n)[i]>>
        BY <3>2, <4>1, PostShare
      <4>3. d \notin T => Post(n, Share(i, d, T, W)) = <<>>
        BY <3>2, <4>1, PostShare
      <4>4. QED
        BY <3>1, <4>1, <4>2, <4>3
    <3>8. PICK V, q : q = Post(n, p) /\ q \in Seq(V)
      BY <3>5
    <3>9. DmsIn(d) = q /\ DmsIn(d)' = q \o Post(n, e)
      BY <2>1, <2>2, <2>4, <3>1, <3>5, <3>6, <3>8
    <3>10. q \o <<>> = q /\ q \o <<m>> = Append(q, m)
      BY ONLY <3>8
    <3>11. QED
      BY <2>4, <3>7, <3>9, <3>10
  <2>5. QED
    BY <2>3, <2>4
<1>12. Inboxes' = [s \in Conn |->
              IF \E y \in Reached(x, a) : y.slot = s /\ ~y.gone
              THEN Append(Inboxes[s], m) ELSE Inboxes[s]]
  <2>1. \A d \in Conn : SessionOf(d).slot = d /\ SessionOf(d).gone = conn[d].closed
    BY DEF SessionOf
  <2>2. T \subseteq Conn
    BY <1>1 DEF DmTargets
  <2>3. ASSUME NEW s \in Conn
        PROVE  (\E y \in Reached(x, a) : y.slot = s /\ ~y.gone)
                 <=> s \in T /\ ~conn[s].closed
    BY <1>7, <2>1, <2>2
  <2>4. \A d \in T : Identified(d)
    <3>1. \A d \in Conn : d \in DmTargets(c, a) =>  Named(a, d)
      BY <1>2, TargetsMean DEF Identified
    <3>2. QED
      BY <1>1, <2>2, <3>1 DEF Named, Identified
  <2>5. \A d \in Conn : Identified(d)' <=> Identified(d)
    BY <1>2 DEF Identified
  <2>6. ASSUME NEW s \in Conn
        PROVE  (IF Identified(s) THEN DmsIn(s) ELSE <<>>)' =
                 IF s \in T /\ ~conn[s].closed THEN Append(Inboxes[s], m) ELSE Inboxes[s]
    BY <1>11, <2>4, <2>5 DEF Inboxes
  <2>7. QED
    BY <2>3, <2>6 DEF Inboxes
<1>13. Waiting' = IF Reached(x, a) # {} THEN Waiting
                  ELSE [Waiting EXCEPT ![a] = AppendBounded(@, m, DmMaxlen)]
  <2>1. Reached(x, a) # {} <=> T # {}
    BY <1>7
  <2>2. CASE T # {}
    <3>1. \A b \in DmAddr : buffers'[b] = buffers[b]
      BY <1>2, <2>2 DEF store
    <3>2. Waiting' = Waiting
      BY <3>1, WaitingStep
    <3>3. QED
      BY <2>1, <2>2, <3>2
  <2>3. CASE T = {}
    <3>1. buffers \in [Addr -> Seq(Nat)] /\ Maxlen(a) = DmMaxlen
      BY NamesAssumption DEF StoreInv, StoreTypeOK, Maxlen
    <3>2. buffers' = [buffers EXCEPT ![a] = AppendBounded(buffers[a], NextId, DmMaxlen)]
      BY <1>2, <2>3, <3>1 DEF Persist
    <3>3. ASSUME NEW b \in DmAddr, b # a PROVE Letters(buffers[b])' = Letters(buffers[b])
      <4>1. buffers'[b] = buffers[b]
        BY <3>1, <3>2, <3>3 DEF Addr
      <4>2. QED
        BY <4>1, LettersStay
    <3>4. Letters(buffers[a])' = AppendBounded(Letters(buffers[a]), m, DmMaxlen)
      <4>1. /\ Extends(minted', minted)
            /\ Letters(buffers[a]) = Image(Book(minted), buffers[a])
            /\ buffers[a] \in Seq(1..Len(minted))
            /\ Letters(buffers[a])' = Image(Book(minted'), buffers'[a])
        BY LettersStep
      <4>2. PICK k, n, q, i : /\ k = minted /\ n = minted' /\ q = buffers[a]
                              /\ i = NextId
        OBVIOUS
      <4>3. Extends(n, k) /\ q \in Seq(1..Len(k)) /\ i \in 1..Len(n)
        BY <1>4, <4>1, <4>2
      <4>4. q \in Seq(1..Len(n))
        BY <4>3 DEF Extends
      <4>5. Image(Book(n), q) = Image(Book(k), q)
        BY <4>3, BookGrows
      <4>6. DmMaxlen \in Nat \ {0}
        BY BoundsAssumption
      <4>7. Image(Book(n), AppendBounded(q, i, DmMaxlen)) =
              AppendBounded(Image(Book(n), q), Book(n)[i], DmMaxlen)
        BY <4>3, <4>4, <4>6, AppendMeans
      <4>8. buffers'[a] = AppendBounded(q, i, DmMaxlen) /\ Book(n)[i] = m
        BY <1>3, <1>9, <3>1, <3>2, <4>2
      <4>9. QED
        BY <4>1, <4>2, <4>5, <4>7, <4>8
    <3>5. Waiting' = [Waiting EXCEPT ![a] = AppendBounded(@, m, DmMaxlen)]
      BY <3>3, <3>4 DEF Waiting
    <3>6. QED
      BY <2>1, <2>3, <3>5
  <2>4. QED
    BY <2>2, <2>3
<1>14. PICK i \in 1..MaxMsg : i = NextId
  BY <1>4
<1>15. /\ x \in Present /\ Present' = Present /\ \A n \in Sent : n.id < i
       /\ m = [id |-> i, from |-> <<x.home, x.sid>>, to |-> a,
               delivered |-> Cardinality(Reached(x, a))]
       /\ Sent' = Sent \cup {m}
       /\ Inboxes' = [s \in Conn |->
              IF \E y \in Reached(x, a) : y.slot = s /\ ~y.gone
              THEN Append(Inboxes[s], m) ELSE Inboxes[s]]
       /\ Waiting' = IF Reached(x, a) # {} THEN Waiting
                     ELSE [Waiting EXCEPT ![a] = AppendBounded(@, m, DmMaxlen)]
  BY <1>6, <1>8, <1>10, <1>12, <1>13, <1>14
<1>16. QED
  BY ONLY <1>15, MailSends

\* The mail's clients cannot tell a step that leaves the sessions, the queues and the
\* letters on the outboxes alone.
LEMMA QuietMails ==
    ASSUME StoreInv, OutboxInv, StoreStep, StoreInv', OutboxInv',
           \A d \in Conn : /\ conn'[d].sid = conn[d].sid
                           /\ conn'[d].home = conn[d].home
                           /\ conn'[d].alias = conn[d].alias
                           /\ conn'[d].dm_filter = conn[d].dm_filter
                           /\ conn'[d].closed = conn[d].closed,
           \A d \in Conn : DmsIn(d)' = DmsIn(d),
           \A a \in DmAddr : buffers'[a] = buffers[a],
           Sent' = Sent
    PROVE  [Mail!Next]_(Mail!vars)
<1>1. Present' = Present
  BY PresentStays
<1>2. Waiting' = Waiting
  BY WaitingStep
<1>3. Inboxes' = Inboxes
  BY DEF Inboxes, Identified
<1>4. QED
  BY <1>1, <1>2, <1>3, MailIdles

\* A message to a topic is no letter: not when it is minted and fanned out.
LEMMA PublishMails ==
    ASSUME RegistryInv, StoreInv, OutboxInv, StoreStep, StoreInv', OutboxInv',
           NEW c \in Conn, NEW t \in Topic, Publish(c, t)
    PROVE  [Mail!Next]_(Mail!vars)
<1>1. PICK T, W, k : T = TopicTargets(c, t) /\ W = Watchers(c, t) /\ k = Cardinality(T)
  OBVIOUS
<1>2. /\ conn[c].sid # None
      /\ minted' = Append(minted, [from |-> FromOf(c), to |-> t, acked |-> TRUE,
                                   delivered |-> k])
      /\ outbox' = FanOut(NextId, T, W)
      /\ Persist(t, TRUE)
      /\ UNCHANGED <<conn, registry, seen>>
  BY <1>1 DEF Publish, Mint, Identified
<1>3. t \notin DmAddr /\ \A a \in DmAddr : a # t /\ a \in Addr
  BY NamesAssumption DEF Addr
<1>4. \A a \in DmAddr : buffers'[a] = buffers[a]
  BY <1>2, <1>3 DEF Persist, StoreInv, StoreTypeOK
<1>5. minted \in Seq(MessageState) /\ Len(minted) \in Nat
  BY DEF StoreInv, StoreTypeOK
<1>6. /\ Len(minted') = Len(minted) + 1 /\ NextId \in 1..Len(minted')
      /\ minted'[NextId].to = t
      /\ \A i \in 1..Len(minted) : minted'[i] = minted[i]
  <2>1. PICK m : m = [from |-> FromOf(c), to |-> t, acked |-> TRUE, delivered |-> k]
    OBVIOUS
  <2>2. m.to = t /\ minted' = Append(minted, m)
    BY <1>2, <2>1
  <2>3. Len(minted') = Len(minted) + 1
    BY <1>5, <2>2
  <2>4. minted'[NextId] = m /\ \A i \in 1..Len(minted) : minted'[i] = minted[i]
    BY <1>5, <2>2 DEF NextId
  <2>5. QED
    BY <1>5, <2>2, <2>3, <2>4 DEF NextId
<1>7. Sent' = Sent
  <2>1. Sent = {Letter(i) : i \in {i \in 1..Len(minted) : minted[i].to \in DmAddr}}
    BY DEF Sent, MsgId
  <2>2. Sent' = {Book(minted')[i] :
                   i \in {i \in 1..Len(minted') : minted'[i].to \in DmAddr}}
    BY DEF Sent, MsgId, Letter, Book
  <2>3. \A i \in 1..Len(minted) : Letter(i) = Book(minted')[i]
    BY <1>5, <1>6 DEF Letter, Book
  <2>4. {i \in 1..Len(minted') : minted'[i].to \in DmAddr} =
          {i \in 1..Len(minted) : minted[i].to \in DmAddr}
    BY <1>3, <1>5, <1>6 DEF NextId
  <2>5. QED
    BY <2>1, <2>2, <2>3, <2>4
<1>8. ASSUME NEW d \in Conn PROVE DmsIn(d)' = DmsIn(d)
  <2>1. /\ Extends(minted', minted)
        /\ DmsIn(d) = Post(minted, outbox[d])
        /\ outbox[d] \in Seq(Entry(1..Len(minted)))
        /\ DmsIn(d)' = Post(minted', outbox'[d])
    BY LettersStep
  <2>2. outbox'[d] = IF conn[d].closed THEN outbox[d]
                     ELSE outbox[d] \o Share(NextId, d, T, W)
    BY <1>2 DEF FanOut, Put, Share
  <2>3. CASE conn[d].closed
    BY <2>2, <2>3, LettersStay
  <2>4. CASE ~conn[d].closed
    <3>1. PICK m, n, p, e, i : /\ m = minted /\ n = minted' /\ p = outbox[d]
                               /\ e = Share(NextId, d, T, W) /\ i = NextId
      OBVIOUS
    <3>2. Extends(n, m) /\ p \in Seq(Entry(1..Len(m))) /\ i \in 1..Len(n)
      BY <1>6, <2>1, <3>1
    <3>3. p \in Seq(Entry(1..Len(n)))
      <4>1. Entry(1..Len(m)) \subseteq Entry(1..Len(n))
        BY <3>2 DEF Extends, Entry
      <4>2. QED
        BY <3>2, <4>1
    <3>4. e \in Seq(Entry(1..Len(n)))
      BY <3>1, <3>2, FanOutEntries
    <3>5. Post(n, p \o e) = Post(n, p) \o Post(n, e) /\ \E V : Post(n, p) \in Seq(V)
      BY <3>3, <3>4, PostConcat
    <3>6. Post(n, p) = Post(m, p)
      BY <3>2, PostGrows
    <3>7. Post(n, e) = <<>>
      <4>1. n[i].to \notin DmAddr
        BY <1>3, <1>6, <3>1
      <4>2. Post(n, Share(i, d, T, W)) = <<>>
        BY <3>2, <4>1, PostShare
      <4>3. QED
        BY <3>1, <4>2
    <3>8. PICK V, q : q = Post(n, p) /\ q \in Seq(V)
      BY <3>5
    <3>9. q \o <<>> = q
      BY ONLY <3>8
    <3>10. QED
      BY <2>1, <2>2, <2>4, <3>1, <3>5, <3>6, <3>7, <3>8, <3>9
  <2>5. QED
    BY <2>3, <2>4
<1>9. QED
  BY <1>2, <1>4, <1>7, <1>8, QuietMails

\* Nor when it is replayed.
LEMMA SubscribeMails ==
    ASSUME RegistryInv, StoreInv, OutboxInv, StoreStep, StoreInv', OutboxInv',
           NEW c \in Conn, NEW t \in Topic, NEW r \in Replays, Subscribe(c, t, r)
    PROVE  [Mail!Next]_(Mail!vars)
<1>1. PICK replay : replay = IF r = 0 THEN <<>> ELSE LastN(buffers[t], r)
  OBVIOUS
<1>2. /\ conn' = [conn EXCEPT ![c].subscriptions = @ \cup {t}]
      /\ outbox' = [outbox EXCEPT ![c] = Put(c, Messages(replay))]
      /\ UNCHANGED <<store, minted>>
  BY <1>1 DEF Subscribe
<1>3. conn \in [Conn -> ConnState] /\ outbox \in [Conn -> Seq(Entry(MsgId))]
  BY DEF RegistryInv, RegistryTypeOK, OutboxInv
<1>4. \A d \in Conn : /\ conn'[d].sid = conn[d].sid
                      /\ conn'[d].home = conn[d].home
                      /\ conn'[d].alias = conn[d].alias
                      /\ conn'[d].dm_filter = conn[d].dm_filter
                      /\ conn'[d].closed = conn[d].closed
  BY <1>2, <1>3 DEF ConnState
<1>5. t \notin DmAddr /\ t \in Addr /\ r \in Nat
  BY NamesAssumption, BoundsAssumption DEF Addr
<1>6. replay \in Seq(1..Len(minted)) /\ \A i \in Ids(replay) : minted[i].to \notin DmAddr
  <2>1. CASE r = 0
    BY <1>1, <2>1 DEF Ids
  <2>2. CASE r # 0
    <3>1. PICK q : q = buffers[t]
      OBVIOUS
    <3>2. q \in Seq(MsgId) /\ \A i \in Ids(q) : minted[i].to = t
      BY <3>1, RingIds
    <3>3. replay = LastN(q, r)
      BY <1>1, <2>2, <3>1
    <3>4. replay \in Seq(MsgId)
      BY <1>1, <1>5, <2>2, QueueTypes
    <3>5. Ids(replay) \subseteq Ids(q)
      <4>1. DOMAIN q = 1..Len(q) /\ Len(q) \in Nat
        BY <3>2
      <4>2. PICK n \in Nat : n = Len(q)
        BY <4>1
      <4>3. PICK k \in 1..(n + 1) : replay = SubSeq(q, k, n)
        <5>1. CASE n > r
          <6>1. replay = SubSeq(q, n - r + 1, n) /\ n - r + 1 \in 1..(n + 1)
            BY <1>5, <3>3, <4>2, <5>1 DEF LastN
          <6>2. QED
            BY <6>1
        <5>2. CASE ~(n > r)
          BY <1>5, <3>3, <4>2, <5>2 DEF LastN
        <5>3. QED
          BY <5>1, <5>2
      <4>4. \A i \in DOMAIN replay : k + i - 1 \in 1..n /\ replay[i] = q[k + i - 1]
        BY <3>2, <4>1, <4>2, <4>3
      <4>5. QED
        BY <4>1, <4>2, <4>4 DEF Ids
    <3>6. QED
      BY <1>5, <3>2, <3>4, <3>5 DEF MsgId
  <2>3. QED
    BY <2>1, <2>2
<1>7. ASSUME NEW d \in Conn PROVE DmsIn(d)' = DmsIn(d)
  <2>1. CASE outbox'[d] = outbox[d]
    BY <2>1, LettersStay
  <2>2. CASE d = c /\ ~conn[c].closed
    <3>1. /\ Extends(minted', minted)
          /\ DmsIn(d) = Post(minted, outbox[d])
          /\ outbox[d] \in Seq(Entry(1..Len(minted)))
          /\ DmsIn(d)' = Post(minted', outbox'[d])
      BY LettersStep
    <3>2. PICK m, p, e : m = minted /\ p = outbox[d] /\ e = Messages(replay)
      OBVIOUS
    <3>3. /\ replay \in Seq(1..Len(m)) /\ \A i \in Ids(replay) : m[i].to \notin DmAddr
          /\ p \in Seq(Entry(1..Len(m)))
      BY <1>6, <3>1, <3>2
    <3>4. e \in Seq(Entry(1..Len(m)))
      BY <3>2, <3>3, EntryTypes
    <3>5. Post(m, e) = <<>>
      BY <3>2, <3>3, PostMessages
    <3>6. Post(m, p \o e) = Post(m, p) \o Post(m, e) /\ \E V : Post(m, p) \in Seq(V)
      BY <3>3, <3>4, PostConcat
    <3>7. PICK V, q : q = Post(m, p) /\ q \in Seq(V)
      BY <3>6
    <3>8. q \o <<>> = q
      BY ONLY <3>7
    <3>9. outbox'[d] = p \o e /\ minted' = m
      BY <1>2, <1>3, <2>2, <3>2 DEF Put
    <3>10. QED
      BY <3>1, <3>2, <3>5, <3>6, <3>7, <3>8, <3>9
  <2>3. QED
    BY <1>2, <1>3, <2>1, <2>2 DEF Put
<1>8. (\A a \in DmAddr : buffers'[a] = buffers[a]) /\ Sent' = Sent
  BY <1>2, SentStays DEF store
<1>9. QED
  BY <1>4, <1>7, <1>8, QuietMails

\* What else a session asks for has nothing to do with the mail.
LEMMA OthersMail ==
    ASSUME RegistryInv, StoreInv, OutboxInv, StoreStep, StoreInv', OutboxInv',
           NEW c \in Conn,
           \/ \E w \in WireFilters : Watch(c, w)
           \/ Unwatch(c)
           \/ \E t \in Topic : Unsubscribe(c, t)
           \/ ListPeers(c)
    PROVE  [Mail!Next]_(Mail!vars)
<1>1. UNCHANGED <<store, mail>>
  BY DEF Watch, Unwatch, Unsubscribe, ListPeers
<1>2. conn \in [Conn -> ConnState]
  BY DEF RegistryInv, RegistryTypeOK
<1>3. \/ UNCHANGED conn
      \/ \E x : conn' = [conn EXCEPT ![c].wire = x]
      \/ \E x : conn' = [conn EXCEPT ![c].subscriptions = x]
  BY DEF Watch, Unwatch, Unsubscribe, ListPeers
<1>4. \A d \in Conn : /\ conn'[d].sid = conn[d].sid
                      /\ conn'[d].home = conn[d].home
                      /\ conn'[d].alias = conn[d].alias
                      /\ conn'[d].dm_filter = conn[d].dm_filter
                      /\ conn'[d].closed = conn[d].closed
  BY <1>2, <1>3 DEF ConnState
<1>5. \A d \in Conn : DmsIn(d)' = DmsIn(d)
  BY <1>1, LettersStay DEF mail
<1>6. (\A a \in DmAddr : buffers'[a] = buffers[a]) /\ Sent' = Sent
  BY <1>1, SentStays DEF store, mail
<1>7. QED
  BY <1>4, <1>5, <1>6, QuietMails

\* As long as no file operation fails, every step is one of the mail service or
\* none of its business.
LEMMA MailNext ==
    ASSUME "disk" \notin Faults, RegistryInv, StoreInv, OutboxInv, FifoInv, MailInv,
           StoreInv', OutboxInv', [Next]_vars
    PROVE  [Mail!Next]_(Mail!vars)
<1>1. StoreStep
  BY StepsAreStoreSteps
<1>2. ASSUME NEW c \in Conn, Session(c) PROVE [Mail!Next]_(Mail!vars)
  <2>1. ~\E s \in Sid, h \in Home : HelloDrainFails(c, s, h)
    BY DEF HelloDrainFails
  <2>2. QED
    BY <1>1, <1>2, <2>1, AcceptMails, HelloMails, DisconnectMails, FieldMails DEF Session
<1>3. ASSUME NEW c \in Conn, Request(c) PROVE [Mail!Next]_(Mail!vars)
  <2>1. /\ ~\E new \in Alias : SetAliasDrainFails(c, new)
        /\ ~\E a \in DmAddr : SendFlushFails(c, a)
        /\ ~\E t \in Topic : PublishFlushFails(c, t)
    BY DEF SetAliasDrainFails, SendFlushFails, PublishFlushFails
  <2>2. QED
    BY <1>1, <1>3, <2>1, SetAliasMails, FieldMails, SendMails, PublishMails,
       SubscribeMails, OthersMail DEF Request
<1>4. CASE Restart
  BY <1>1, <1>4, RestartMails
<1>5. CASE UNCHANGED vars
  BY <1>1, <1>5, QuietMails, LettersStay, SentStays DEF vars, store, mail
<1>6. QED
  BY <1>2, <1>3, <1>4, <1>5 DEF Next

\* The router starts as the mail service does: nobody there, nothing sent.
LEMMA MailStarts == Init => Mail!Init
<1> SUFFICES ASSUME Init PROVE Mail!Init
  OBVIOUS
<1>1. /\ minted = <<>> /\ Len(minted) = 0 /\ outbox = [c \in Conn |-> <<>>]
      /\ \A c \in Conn : conn[c].sid = None
      /\ \A a \in DmAddr : buffers[a] = <<>>
  BY DEF Init, FreshConn, Addr
<1>2. Present = {} /\ Sent = {}
  BY <1>1 DEF Present, Sent, Identified, MsgId
<1>3. Waiting = [a \in DmAddr |-> <<>>]
  BY <1>1 DEF Waiting, Letters
<1>4. Inboxes = [c \in Conn |-> <<>>]
  BY <1>1 DEF Inboxes, Identified
<1>5. Mail!Address = DmAddr
  BY MailShows
<1>6. QED
  BY <1>2, <1>3, <1>4, <1>5
     DEF Mail!Init, Present, SessionOf, Sent, Waiting, Inboxes

\* The router, its four dictionaries, its drains, its files and all it does beside
\* implement the mail service, whatever sessions come, go, change names or fail to
\* read and however often the daemon restarts, as long as no file operation fails
\* (ImplementsMailService).
THEOREM MailIsServed ==
    ASSUME "disk" \notin Faults PROVE Spec => ImplementsMailService
<1>1. Init => OutboxInv /\ SeenInv /\ NoneStranded /\ FifoInv
  BY FifoInit
<1>2. RegistryInv /\ StoreInv /\ OutboxInv /\ SeenInv /\ NoneStranded /\ FifoInv
      /\ [Next]_vars => OutboxInv' /\ SeenInv' /\ NoneStranded' /\ FifoInv'
  BY OutboxNext, SeenStep, NoneStrandedNext, FifoNext
<1>3. RegistryInv /\ StoreInv /\ MailInv /\ [Next]_vars => MailInv'
  BY MailInvNext
<1>4. RegistryInv /\ StoreInv /\ OutboxInv /\ FifoInv /\ MailInv
      /\ StoreInv' /\ OutboxInv' /\ [Next]_vars => [Mail!Next]_(Mail!vars)
  BY MailNext
<1>5. QED
  BY <1>1, <1>2, <1>3, <1>4, MailInit, MailStarts, RegistryInit, RegistryNext,
     StoreInit, StoreNext, PTL DEF Spec, ImplementsMailService, Mail!Spec
===============================================================================
