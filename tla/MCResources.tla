------------------------------ MODULE MCResources ------------------------------
\* Resources with one other session, two notifications for an inbox of one, and
\* a host that follows a resource again after it gave up.
EXTENDS Resources
===============================================================================
