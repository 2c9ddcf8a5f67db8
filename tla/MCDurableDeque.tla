---------------------------- MODULE MCDurableDeque ----------------------------
\* DurableDeque and a client that pages through it, with the bounds of
\* MCDurableDeque.cfg.
EXTENDS Paging
===============================================================================
