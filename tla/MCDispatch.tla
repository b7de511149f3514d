---------------------------- MODULE MCDispatch ----------------------------
EXTENDS Dispatch

CONSTANTS a, b

\* b waits for a
Chain == (a :> {}) @@ (b :> {a})

=============================================================================
