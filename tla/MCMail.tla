-------------------------------- MODULE MCMail --------------------------------
\* Instances of Router about direct messages, topics, wire copies and the disk.
EXTENDS RouterProperties, TLC

SymmetricSlots == Permutations(Conn)
SymmetricPeers == Permutations(Conn) \cup Permutations(Sid)

\* A DM filter that accepts nobody; at first everybody is accepted.
Nobody == {{}}

NoFilters == {}

\* Watches: what one sender sends, to topics or to everybody in a home.
OneWatch == {[from |-> {CHOOSE f \in FromAddr : TRUE},
              to |-> Topic \cup Home \X {None}]}

NoReplays == {}
SomeReplays == {0, 1, 3}

DmMethods == {"set_alias", "set_dm_filter", "send"}
TopicMethods == {"publish", "subscribe"}
DiskMethods == {"set_alias", "send", "publish", "watch"}

Restarts == {"restart"}
DiskFaults == {"disk", "restart"}
===============================================================================
