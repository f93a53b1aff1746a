--------------------------- MODULE AppendOnlyLog ---------------------------
(***************************************************************************)
(* What an audit trail is to the person who reads it: per tenant a         *)
(* sequence of events that only ever grows, and only at its end.           *)
(* AuditChain implements it.                                               *)
(***************************************************************************)
EXTENDS Sequences, Naturals

CONSTANTS Tenants, Payloads

VARIABLE log    \* [Tenants -> Seq(Payloads)]

LogInit == log = [t \in Tenants |-> <<>>]

\* A transaction of tenant t adds its events, in the order it appended them.
Record(t) ==
    /\ log'[t] \in Seq(Payloads)
    /\ Len(log[t]) < Len(log'[t])
    /\ SubSeq(log'[t], 1, Len(log[t])) = log[t]
    /\ log' = [log EXCEPT ![t] = log'[t]]

LogSpec == LogInit /\ [][\E t \in Tenants : Record(t)]_log
=============================================================================
