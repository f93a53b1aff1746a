----------------------------- MODULE HashChain -----------------------------
(***************************************************************************)
(* The arithmetic of the audit chain (observability/audit.py), over sets   *)
(* of rows [seq, payload, prev, digest] of one tenant.                     *)
(***************************************************************************)
EXTENDS Integers

\* The prev_digest of a first link: no digest_for value equals it.
GENESIS == <<>>

\* sha256(canonical_json(payload) || prev): taken to be free of collisions.
digest_for(payload, prev) == <<payload, prev>>

\* SELECT_HEAD, and GENESIS where it finds no row.
HeadDigest(rows) ==
    IF rows = {} THEN GENESIS
    ELSE (CHOOSE e \in rows : \A f \in rows : f.seq <= e.seq).digest

\* The expected_prev with which verify_chain, in seq order, reaches `f`.
ExpectedPrev(rows, f) == HeadDigest({e \in rows : e.seq < f.seq})

\* The two checks verify_chain makes of each link: linkage, then digest.
Bad(rows, f) ==
    \/ f.prev # ExpectedPrev(rows, f)
    \/ f.digest # digest_for(f.payload, f.prev)

verified(rows) == \A f \in rows : ~ Bad(rows, f)
=============================================================================
