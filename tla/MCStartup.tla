------------------------------ MODULE MCStartup ------------------------------
\* Three daemons on one path (MCStartup.cfg); two of them (MCStartupRace.cfg).
EXTENDS Startup, TLC

Symmetric == Permutations(Daemon)
==============================================================================
