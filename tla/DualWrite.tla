----------------------------- MODULE DualWrite -----------------------------
(***************************************************************************)
(* What the outbox pattern promises a reader (ARCHITECTURE.md 2.4), with   *)
(* no queue, no attempts and no relay in sight: an assertion is accepted   *)
(* out of sight, reaches the graph, and only then becomes readable.  A     *)
(* retired assertion stays retired, a readable one stays readable.         *)
(* OutboxRelay implements this under the mapping it gives, and what the     *)
(* readers of Recall rely on is this too.                                  *)
(***************************************************************************)

CONSTANT Assertions

VARIABLES
    fact,       \* [Assertions -> {"absent", "pending", "readable"}]
    linked,     \* the assertions the graph has heard of
    withdrawn   \* the assertions no longer believed

dwvars == <<fact, linked, withdrawn>>

DWInit ==
    /\ fact = [a \in Assertions |-> "absent"]
    /\ linked = {}
    /\ withdrawn = {}

\* A transaction accepts assertions nobody had written before, and retires
\* some; either may be done without the other.  To be retired has nothing to
\* do with being readable, and is final.
Transact(S, W) ==
    /\ \A a \in S : fact[a] = "absent"
    /\ \A a \in W : fact[a] # "absent" /\ a \notin withdrawn
    /\ fact' = [a \in Assertions |-> IF a \in S THEN "pending" ELSE fact[a]]
    /\ withdrawn' = withdrawn \cup W
    /\ UNCHANGED linked

\* The graph hears of an accepted assertion, readable or not yet.
Link(a) ==
    /\ fact[a] # "absent"
    /\ linked' = linked \cup {a}
    /\ UNCHANGED <<fact, withdrawn>>

\* Readers may see an assertion only after the graph has it.
Publish(a) ==
    /\ fact[a] = "pending"
    /\ a \in linked
    /\ fact' = [fact EXCEPT ![a] = "readable"]
    /\ UNCHANGED <<linked, withdrawn>>

DWNext ==
    \/ \E S, W \in SUBSET Assertions : Transact(S, W)
    \/ \E a \in Assertions : Link(a) \/ Publish(a)

DWSpec == DWInit /\ [][DWNext]_dwvars
=============================================================================
