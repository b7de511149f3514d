------------------------------ MODULE SealLog ------------------------------
(***************************************************************************)
(* What one SEAL chain promises its readers: an append-only, hash-linked   *)
(* log that nothing extends after a terminal event.  There are no          *)
(* processes, files or mirrors here; SealChain is the code, and implements *)
(* this under the conditions its README entry states.                      *)
(***************************************************************************)
EXTENDS Naturals, Sequences

CONSTANTS
    Events,     \* event types
    Terminal,   \* agent.complete, agent.failed
    Hashes      \* digests; 0 is reserved for the genesis predecessor

VARIABLE log    \* the records a reader of the chain sees, oldest first

ZERO_HASH == 0

TipOf(records) ==
    IF records = <<>> THEN ZERO_HASH ELSE records[Len(records)].hash

\* A terminal record is the last word of its chain.
Sealed(records) ==
    records # <<>> /\ records[Len(records)].ev \in Terminal

Init == log = <<>>

Extend(e, h) ==
    /\ ~Sealed(log)
    /\ \A i \in DOMAIN log : log[i].hash # h
    /\ log' = Append(log, [seq  |-> Len(log),
                           ev   |-> e,
                           hash |-> h,
                           prev |-> TipOf(log)])

Next == \E e \in Events, h \in Hashes : Extend(e, h)

Spec == Init /\ [][Next]_log
=============================================================================
