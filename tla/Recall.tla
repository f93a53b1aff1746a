------------------------------- MODULE Recall -------------------------------
(***************************************************************************)
(* The reads: memory.search and memory.get_entity of the MCP server, each  *)
(* several transactions and graph calls one after the other, while workers *)
(* apply proposals and the relay reveals what they wrote.                  *)
(*                                                                         *)
(* A row's number is also its distance from the query, so the nearest rows *)
(* are the smallest.  The relay is here what DualWrite promises of it      *)
(* (KeepsThePromise); a second pass over a row may tell the graph that it  *)
(* was retired.  Time is the applier's clock; a row's date is the client's.*)
(*                                                                         *)
(* Which graph a server opens is its setting.  On neo4j there is one for   *)
(* all processes, and it outlives them.  On networkx, the default, each    *)
(* process has its own and loses it when it stops: a server's holds some,  *)
(* or none, of what the passes have written.                               *)
(***************************************************************************)
EXTENDS Enumeration, SequencesExt

CONSTANTS
    Rows,           \* assertions that may come to be
    Predicate,      \* the predicate of each
    Faint,          \* rows whose confidence is below the caller's floor
    Workers,        \* proposals under way at once
    Scopes,         \* the queries a call splits into: one for each predicate
                    \* it names, or the one of "any" (store_filters)
    Dates,          \* values of `as_of`; None is now
    Limits,         \* values of `limit`
    Rooms,          \* assertions that fit into `token_budget`
    ExcludedLimit,  \* _EXCLUDED_LIMIT
    MaxTime,
    None

ASSUME RecallAssumption ==
    /\ IsFiniteSet(Rows) /\ Rows \subseteq Nat
    /\ Faint \subseteq Rows
    /\ Scopes \subseteq Seq({Predicate[r] : r \in Rows} \cup {"any"})
    /\ Dates \subseteq Nat \cup {None}
    /\ Limits \subseteq Nat \ {0} /\ Rooms \subseteq Nat
    /\ ExcludedLimit \in Nat \ {0}
    /\ MaxTime \in Nat
    /\ None \notin Rows \cup Nat

VARIABLES
    now,
    fact,    \* [Rows -> absent, hidden, visible]
    from,    \* valid_from
    to,      \* valid_to
    edge,    \* what a graph was last told of a row: none, live, retired
    job,     \* what a worker is applying
    ask      \* the call the MCP server is answering

rowVars == <<fact, from, to>>
vars == <<now, rowVars, edge, job, ask>>

Moments == 0..MaxTime

Jobs == [row : Rows, over : Rows \cup {None}, at : Moments \cup {None}]

TypeOK ==
    /\ now \in Moments
    /\ fact \in [Rows -> {"absent", "hidden", "visible"}]
    /\ from \in [Rows -> Moments]
    /\ to \in [Rows -> Moments \cup {None}]
    /\ edge \in [Rows -> {"none", "live", "retired"}]
    /\ job \in [Workers -> Jobs \cup {None}]
    /\ ask # None => ask.tool \in {"search", "entity"} /\ ask.had \subseteq Rows
                   /\ ask.graph_backed \in BOOLEAN

Init ==
    /\ now = 0
    /\ fact = [r \in Rows |-> "absent"]
    /\ from = [r \in Rows |-> 0]
    /\ to = [r \in Rows |-> None]
    /\ edge = [r \in Rows |-> "none"]
    /\ job = [w \in Workers |-> None]
    /\ ask = None

Tick == now < MaxTime /\ now' = now + 1 /\ UNCHANGED <<rowVars, edge, job, ask>>

---------------------------------------------------------------------------
(* What a row is to a reader.                                              *)

Live(r) == to[r] = None

\* The half-open interval of predicates(..., as_of).
HeldAt(r, t) == from[r] <= t /\ (Live(r) \/ to[r] > t)

Readable(r, asOf) ==
    /\ fact[r] = "visible"
    /\ IF asOf = None THEN Live(r) ELSE HeldAt(r, asOf)

\* A filter on one predicate; a query without one is scoped to all.
InScope(r, p) == p = "any" \/ Predicate[r] = p

First(s, n) == SubSeq(s, 1, IF n < Len(s) THEN n ELSE Len(s))

\* VectorStore.search and VectorStore.retired: one transaction each.
Nearest(p, asOf, k) ==
    First(Ascending({r \in Rows : Readable(r, asOf) /\ InScope(r, p)}), k)

Dead(p) == {r \in Rows : fact[r] = "visible" /\ ~Live(r) /\ InScope(r, p)}

\* Newest retirement first; how the database orders ties is left to it.
NewestFirst(dead) ==
    {x \in dead \X dead : \/ to[x[1]] > to[x[2]]
                          \/ to[x[1]] = to[x[2]] /\ x[1] <= x[2]}

Retired(p) == First(InOrder(Dead(p), NewestFirst(Dead(p))), ExcludedLimit)

\* dict.setdefault over the ids, in the order the queries returned them.
Merged(s, t) == s \o Pick(t, {i \in DOMAIN t : t[i] \notin ToSet(s)})

---------------------------------------------------------------------------
(* Writers.                                                                *)

\* retrieve_incumbents and the verdict on them: a live row of the predicate
\* is superseded, or the row is written beside whatever there is.
Judge(w) ==
    /\ job[w] = None
    /\ \E r \in Rows :
        /\ fact[r] = "absent"
        /\ \A v \in Workers : job[v] # None => job[v].row # r
        /\ \E i \in {i \in Rows : Readable(i, None) /\ Predicate[i] = Predicate[r]}
                        \cup {None} :
            job' = [job EXCEPT ![w] = [row |-> r, over |-> i, at |-> None]]
    /\ UNCHANGED <<now, rowVars, edge, ask>>

\* applier.apply reads its clock, then opens the transaction.
Begin(w) ==
    /\ job[w] # None /\ job[w].at = None
    /\ job' = [job EXCEPT ![w].at = now]
    /\ UNCHANGED <<now, rowVars, edge, ask>>

\* Faulty: the incumbent ends when its successor is dated.
RetiresDated(j, date) == to' = [to EXCEPT ![j.over] = date]

\* supersede_in: the interval ends at the clock apply read.
Retires(j, date) == to' = [to EXCEPT ![j.over] = j.at]

\* COMMIT.  The row is dated by the turn it was found in, whatever date the
\* client gave that; validity may not be inverted (a CHECK of the table).
Commit(w) ==
    LET j == job[w] IN
    /\ j # None /\ j.at # None
    /\ \E date \in Moments :
        /\ from' = [from EXCEPT ![j.row] = date]
        /\ \/ j.over = None /\ UNCHANGED to
           \/ /\ j.over # None
              /\ Live(j.over) /\ from[j.over] <= j.at
              /\ Retires(j, date)
    /\ fact' = [fact EXCEPT ![j.row] = "hidden"]
    /\ job' = [job EXCEPT ![w] = None]
    /\ UNCHANGED <<now, edge, ask>>

\* The race for the incumbent is lost, the CHECK fails, Postgres goes away or
\* the worker dies: nothing of the transaction stays.
RollBack(w) ==
    /\ job[w] # None
    /\ job' = [job EXCEPT ![w] = None]
    /\ UNCHANGED <<now, rowVars, edge, ask>>

\* GraphStore.upsert_assertion with the row as a relay pass has loaded it,
\* which may have been before it was retired.
Link(r) ==
    /\ fact[r] # "absent"
    /\ \E image \in {"live"} \cup (IF Live(r) THEN {} ELSE {"retired"}) :
        /\ edge[r] # image
        /\ edge' = [edge EXCEPT ![r] = image]
    /\ UNCHANGED <<now, rowVars, job, ask>>

\* Faulty: a row is revealed whether the graph has it or not.
RevealsUnlinked(r) ==
    /\ fact[r] = "hidden"
    /\ fact' = [fact EXCEPT ![r] = "visible"]
    /\ UNCHANGED <<now, from, to, edge, job, ask>>

\* REVEAL_ASSERTION, once the edge is written.
Reveal(r) ==
    /\ fact[r] = "hidden" /\ edge[r] # "none"
    /\ fact' = [fact EXCEPT ![r] = "visible"]
    /\ UNCHANGED <<now, from, to, edge, job, ask>>

---------------------------------------------------------------------------
(* Readers.                                                                *)

\* run_search once its arguments are found well formed; had is what was
\* current when it began, kept for the properties only.
BeginSearch ==
    /\ ask = None
    /\ \E scopes \in Scopes, asOf \in Dates, limit \in Limits, room \in Rooms :
        ask' = [tool |-> "search", asOf |-> asOf, limit |-> limit, room |-> room,
                search |-> scopes, retired |-> scopes, walk |-> FALSE,
                had |-> {r \in Rows : Readable(r, None)
                                        /\ \E p \in ToSet(scopes) : InScope(r, p)},
                hits |-> <<>>, excluded |-> <<>>, neighbours |-> {},
                graph_backed |-> FALSE]
    /\ UNCHANGED <<now, rowVars, edge, job>>

\* run_get_entity: every row of the subject (its limit of 200 is not
\* reached), then the graph, which takes no as_of.  The response says if the
\* server's graph is durable (BoundGraph).
BeginEntity ==
    /\ ask = None
    /\ \E asOf \in Dates, durable \in BOOLEAN :
        ask' = [tool |-> "entity", asOf |-> asOf, limit |-> Cardinality(Rows), room |-> 0,
                search |-> <<"any">>, retired |-> <<>>, walk |-> TRUE,
                had |-> {}, hits |-> <<>>, excluded |-> <<>>, neighbours |-> {},
                graph_backed |-> durable]
    /\ UNCHANGED <<now, rowVars, edge, job>>

\* _nearest: the next of its queries.
ReadNearest ==
    /\ ask # None /\ ask.search # <<>>
    /\ ask' = [ask EXCEPT
                !.search = Tail(ask.search),
                !.hits = Merged(@, Nearest(Head(ask.search), ask.asOf, ask.limit))]
    /\ UNCHANGED <<now, rowVars, edge, job>>

\* Faulty: the retired rows are read while the nearest are.
RetiredMayBeRead == ask # None /\ ask.retired # <<>>

\* The retired rows are read when the live ones have been.
RetiredIsRead == ask # None /\ ask.search = <<>> /\ ask.retired # <<>>

\* _retired_for: the next of its queries.
ReadRetired ==
    /\ RetiredIsRead
    /\ ask' = [ask EXCEPT
                !.retired = Tail(ask.retired),
                !.excluded = Merged(@, Retired(Head(ask.retired)))]
    /\ UNCHANGED <<now, rowVars, edge, job>>

\* Faulty: the graph is walked while the store is searched.
GraphMayBeWalked == ask # None /\ ask.walk

\* The graph is walked after the search.
GraphIsWalked == ask # None /\ ask.search = <<>> /\ ask.walk

\* What GraphStore.neighbors may return, one hop: the live edges of the
\* subject, if the graph is the one that all passes have written to.
Walks ==
    IF ask.graph_backed THEN {{r \in Rows : edge[r] = "live"}}
    ELSE SUBSET {r \in Rows : edge[r] # "none"}

WalkGraph ==
    /\ GraphIsWalked
    /\ \E found \in Walks :
        ask' = [ask EXCEPT !.walk = FALSE, !.neighbours = found]
    /\ UNCHANGED <<now, rowVars, edge, job>>

Answered == ask # None /\ ask.search = <<>> /\ ask.retired = <<>> /\ ~ask.walk

\* The answer goes out, or a store has failed and nothing does.
Reply ==
    /\ ask # None
    /\ ask' = None
    /\ UNCHANGED <<now, rowVars, edge, job>>

Next ==
    \/ Tick
    \/ BeginSearch \/ BeginEntity
    \/ ReadNearest \/ ReadRetired \/ WalkGraph \/ Reply
    \/ \E r \in Rows : Link(r) \/ Reveal(r)
    \/ \E w \in Workers : Judge(w) \/ Begin(w) \/ Commit(w) \/ RollBack(w)

Spec == Init /\ [][Next]_vars

---------------------------------------------------------------------------
(* Properties.                                                             *)

\* What is left of the hits: the floor, the limit and then the token budget.
Sure == Pick(ask.hits, {i \in DOMAIN ask.hits : ask.hits[i] \notin Faint})
Kept == First(First(Sure, ask.limit), ask.room)
Excluded == First(ask.excluded, ExcludedLimit)

\* A limit of the answer was reached, which is the one excuse for a gap.
Cut == \/ Len(ask.hits) >= ask.limit
       \/ Len(Kept) >= ask.room
       \/ Len(ask.excluded) >= ExcludedLimit

\* search.py: the live rows and the retired ones are read in different
\* transactions.  What was current when the call began is in the answer, as
\* believed or as retired, though it may be superseded while the call runs.
NothingFallsBetween ==
    Answered /\ ask.tool = "search" /\ ask.asOf = None =>
        \A r \in ask.had \ Faint :
            r \in ToSet(Kept) \cup ToSet(Excluded) \/ Cut

\* get_entity.py: two stores are read.  Where the response calls itself
\* graph_backed, what the first gives has its edge in what the second gives,
\* unless it was retired.  Where it does not, the neighbours cover nothing:
\* the process may have started after the rows were revealed.
NeighboursCoverHits ==
    Answered /\ ask.tool = "entity" /\ ask.graph_backed =>
        \A r \in ToSet(ask.hits) : r \in ask.neighbours \/ ~Live(r)

\* applier.py: an interval ends at the clock of the apply that ends it.  What
\* an as_of answer says of a moment in the past is never withdrawn later,
\* unless by an apply that had begun by that moment and was not yet committed.
PastStands ==
    [][\A r \in Rows : \A t \in 0..(now - 1) :
        /\ Readable(r, t)
        /\ \A w \in Workers : job[w] # None /\ job[w].at # None => t < job[w].at
        => Readable(r, t)']_vars

DW == INSTANCE DualWrite WITH
        Assertions <- Rows,
        fact <- [r \in Rows |-> IF fact[r] = "absent" THEN "absent"
                                ELSE IF fact[r] = "visible" THEN "readable" ELSE "pending"],
        linked <- {r \in Rows : edge[r] # "none"},
        withdrawn <- {r \in Rows : ~Live(r)}

\* applier.apply and the relay: what moves under the readers are the dual
\* writes that OutboxRelay implements, a successor being accepted in the
\* transaction that retires its incumbent.  That a graph was told of a row does
\* not say that it is still there, nor that it is the reader's.
KeepsThePromise == DW!DWSpec
=============================================================================
