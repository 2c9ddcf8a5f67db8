------------------------------ MODULE MCLifecycle ------------------------------
\* Lifecycle with two connections (MCLifecycle.cfg), or with one whose peer may
\* hold up the shutdown (MCShutdownHangs.cfg).
EXTENDS Lifecycle
===============================================================================
