------------------------------ MODULE MCOpGuard ------------------------------
\* A small server: enough slots of every kind for two validations to overlap,
\* for two exclusive operations and a sync to compete, and for a write to be
\* in flight while any of them starts.
EXTENDS OpGuard

=============================================================================
