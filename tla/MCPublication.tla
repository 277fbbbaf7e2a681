---------------------------- MODULE MCPublication ----------------------------
\* Two clients can send emails at once; one of each generator and one planner
\* mutation run beside them.
EXTENDS Publication
=============================================================================
