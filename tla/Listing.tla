------------------------------- MODULE Listing -------------------------------
(***************************************************************************)
(* GET /links/all: BaseRepository.findPaginated under writes, and a client *)
(* that walks through the pages while links are created and deleted.       *)
(*                                                                         *)
(* A link gets its creation time in link-svc, before its INSERT; equal     *)
(* times are ordered by PostgreSQL anew in every query.  A page takes two  *)
(* statements, its rows and then their number.                             *)
(*                                                                         *)
(* known, added, deleted and repeats are auxiliary.                        *)
(***************************************************************************)
EXTENDS Integers, FiniteSets

CONSTANTS
    Links,    \* links that may be created (ids are uuids)
    Limit,    \* the page size the client asks for
    MaxTime   \* bound: the last value of the clock of link-svc, in ms

ASSUME ListingAssumption ==
    /\ IsFiniteSet(Links)
    /\ Limit \in Nat \ {0}
    /\ MaxTime \in Nat

VARIABLES
    now,       \* new Date() in link-svc
    state,     \* state[l]: "unborn", "stamped" (about to be inserted), "stored", "gone"
    stamp,     \* stamp[l]: created_at
    stage,     \* the client and its request: "idle", "rows", "count"
    page,      \* the page asked for; 0 when no walk is on
    rows,      \* rows of that page, between the two statements
    shown,     \* links the walk has shown
    done,      \* has the walk reached its last page?
    known,     \* links that were stored when the walk began
    added,     \* inserts since then
    deleted,   \* deletions since then
    repeats    \* links shown again by a later page, counted each time

table == <<now, state, stamp>>
client == <<stage, page, rows, shown, done, known, repeats>>
vars == <<now, state, stamp, stage, page, rows, shown, done, known, added, deleted,
          repeats>>

Stored == {l \in Links : state[l] = "stored"}
Walking == page > 0 /\ ~done

Init ==
    /\ now = 0
    /\ state = [l \in Links |-> "unborn"]
    /\ stamp = [l \in Links |-> 0]
    /\ stage = "idle" /\ page = 0 /\ rows = {} /\ shown = {} /\ done = FALSE
    /\ known = {} /\ added = 0 /\ deleted = 0 /\ repeats = 0

-----------------------------------------------------------------------------
(* Writes.                                                                 *)

Tick ==
    /\ now < MaxTime
    /\ now' = now + 1
    /\ UNCHANGED <<state, stamp, client, added, deleted>>

\* BaseEntity.setCreationMetadata runs before the INSERT is sent.
Stamp(l) ==
    /\ state[l] = "unborn"
    /\ state' = [state EXCEPT ![l] = "stamped"]
    /\ stamp' = [stamp EXCEPT ![l] = now]
    /\ UNCHANGED <<now, client, added, deleted>>

Insert(l) ==
    /\ state[l] = "stamped"
    /\ state' = [state EXCEPT ![l] = "stored"]
    /\ added' = IF Walking THEN added + 1 ELSE added
    /\ UNCHANGED <<now, stamp, client, deleted>>

InsertFails(l) ==
    /\ state[l] = "stamped"
    /\ state' = [state EXCEPT ![l] = "gone"]
    /\ UNCHANGED <<now, stamp, client, added, deleted>>

\* Mutant: the row is only marked, and the listing does not look at the mark.
DeleteMarks(l) ==
    /\ state[l] = "stored"
    /\ deleted' = IF Walking THEN deleted + 1 ELSE deleted
    /\ UNCHANGED <<now, state, stamp, client, added>>

\* DELETE /links/:id removes the row.
Delete(l) ==
    /\ state[l] = "stored"
    /\ state' = [state EXCEPT ![l] = "gone"]
    /\ deleted' = IF Walking THEN deleted + 1 ELSE deleted
    /\ UNCHANGED <<now, stamp, client, added>>

-----------------------------------------------------------------------------
(* Pages.                                                                  *)

Least(m, n) == IF m < n THEN m ELSE n

\* Mutant: pages counted from 0.
SkipZeroBased(k) == k * Limit

\* Mutant: the offset counts pages, not rows.
SkipPages(k) == k - 1

Skip(k) == (k - 1) * Limit

\* ORDER BY created_at DESC: may l come before m?
NoYounger(l, m) == stamp[l] >= stamp[m]

\* What OFFSET and LIMIT can cut from R: rows that follow as many rows as are
\* skipped and come before all others.
Pages(R, skip) ==
    {P \in SUBSET R : \E B \in SUBSET (R \ P) :
        /\ Cardinality(B) = Least(skip, Cardinality(R))
        /\ Cardinality(P) = Least(Limit, Cardinality(R) - Cardinality(B))
        /\ \A l \in B, m \in R \ B : NoYounger(l, m)
        /\ \A l \in P, m \in R \ (B \cup P) : NoYounger(l, m)}

\* The body findPaginated returns, and what TransformInterceptor makes of it: it
\* looks for items and meta and finds neither, so the body is passed on whole.
Body(P, n, k) == [data |-> P, total |-> n, page |-> k, limit |-> Limit]
IsPaginated(body) == {"items", "meta"} \subseteq DOMAIN body
TotalPages(total) == (total + Limit - 1) \div Limit
Transformed(body) ==
    IF IsPaginated(body)
    THEN [data |-> body.items,
          meta |-> [hasNextPage |-> body.meta.page < TotalPages(body.meta.total)]]
    ELSE [data |-> body]

\* Is there another page, as far as the client can tell from the response?
HasNextPage(reply) ==
    IF "meta" \in DOMAIN reply
    THEN reply.meta.hasNextPage
    ELSE reply.data.page < TotalPages(reply.data.total)

\* The client begins a walk with page 1, whatever became of an earlier one.
StartWalk ==
    /\ stage = "idle"
    /\ stage' = "rows" /\ page' = 1
    /\ rows' = {} /\ shown' = {} /\ done' = FALSE
    /\ known' = Stored /\ added' = 0 /\ deleted' = 0 /\ repeats' = 0
    /\ UNCHANGED table

\* It asks for the page again if the request failed, for the next one otherwise.
AskPage ==
    /\ stage = "idle" /\ Walking
    /\ stage' = "rows"
    /\ UNCHANGED <<table, page, rows, shown, done, known, added, deleted, repeats>>

\* The first statement.
ReadRows ==
    /\ stage = "rows"
    /\ rows' \in Pages(Stored, Skip(page))
    /\ stage' = "count"
    /\ UNCHANGED <<table, page, shown, done, known, added, deleted, repeats>>

\* The client reads the response with total n.
Respond(n) ==
    LET reply == Transformed(Body(rows, n, page))
        next == HasNextPage(reply)
    IN  /\ stage' = "idle" /\ rows' = {}
        /\ shown' = shown \cup rows
        /\ repeats' = repeats + Cardinality(shown \cap rows)
        /\ done' = ~next
        /\ page' = IF next THEN page + 1 ELSE page
        /\ UNCHANGED <<table, known, added, deleted>>

\* The second statement, in no transaction with the first.
CountRows == stage = "count" /\ Respond(Cardinality(Stored))

\* TypeORM does not count when the page is not full.
SkipCount ==
    /\ stage = "count" /\ Cardinality(rows) < Limit
    /\ Respond(Skip(page) + Cardinality(rows))

\* Either statement fails: the client gets an error and no rows.
QueryFails ==
    /\ stage \in {"rows", "count"}
    /\ stage' = "idle" /\ rows' = {}
    /\ UNCHANGED <<table, page, shown, done, known, added, deleted, repeats>>

Write ==
    \/ Tick
    \/ \E l \in Links : Stamp(l) \/ Insert(l) \/ InsertFails(l) \/ Delete(l)

Read == StartWalk \/ AskPage \/ ReadRows \/ CountRows \/ SkipCount \/ QueryFails

Next == Write \/ Read

Spec == Init /\ [][Next]_vars

-----------------------------------------------------------------------------
(* Properties.                                                             *)

\* Type invariant.
TypeOK ==
    /\ now \in 0..MaxTime
    /\ state \in [Links -> {"unborn", "stamped", "stored", "gone"}]
    /\ stamp \in [Links -> 0..MaxTime]
    /\ stage \in {"idle", "rows", "count"}
    /\ page \in Nat /\ done \in BOOLEAN
    /\ rows \subseteq Links /\ shown \subseteq Links /\ known \subseteq Links
    /\ added \in 0..Cardinality(Links) /\ deleted \in 0..Cardinality(Links)
    /\ repeats \in Nat

Untied ==
    \A l, m \in Links : l # m /\ state[l] # "unborn" /\ state[m] # "unborn"
                        => stamp[l] # stamp[m]

\* What was there when the walk began, is still there and was never shown.
Missed == (known \cap Stored) \ shown

\* Offset pages drift under writes, but each write moves a page by one row at most:
\* if no two links were created in the same millisecond, a finished walk has
\* missed no more of the links that were there all along than links were deleted
\* meanwhile, and none if there were only inserts.
MissesAtMostDeleted == done /\ Untied => Cardinality(Missed) <= deleted

\* And it has shown links again no more often than links were inserted meanwhile,
\* although a link may be inserted long after it got its creation time.
RepeatsAtMostInserted == Untied => repeats <= added

\* A walk during which nothing is written shows all links (link.controller.ts:18,
\* "Get all links").
QuietWalkShowsAll == done /\ added = 0 /\ deleted = 0 => Missed = {}
=============================================================================
