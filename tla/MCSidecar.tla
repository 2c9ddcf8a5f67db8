------------------------------- MODULE MCSidecar -------------------------------
\* Sidecar with two requests of the host, any of them a call or an await, and an
\* alias to claim at start.
EXTENDS Sidecar
===============================================================================
