--------------------------- MODULE MCOutboxRelay ---------------------------
(* Model-checking instances of OutboxRelay.                                *)
EXTENDS OutboxRelay, TLC

\* Two passes of the same code over the same queue are interchangeable.
\* Used by the runs that check safety only.
RelaySymmetry == Permutations(Relays)
=============================================================================
