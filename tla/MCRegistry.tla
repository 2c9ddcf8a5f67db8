------------------------------ MODULE MCRegistry ------------------------------
\* Instances of Router about who is connected as whom.
EXTENDS RouterProperties, TLC

NoFilters == {}
JoinOnly == {0}
Symmetric == Permutations(Conn) \cup Permutations(Sid) \cup Permutations(Home)
             \cup Permutations(Alias)
RegistryMethods == {"set_alias", "subscribe", "list_peers"}
WriterFaults == {"writer", "restart"}
===============================================================================
