----------------------------- MODULE ContextStore -----------------------------
(***************************************************************************)
(* The store of working context a task's sessions share (context_store):   *)
(* idempotent ingestion under a quota, literal search page by page,        *)
(* checkpoints of item references and reads of single items, by several    *)
(* connections to one database.  Each transaction is one step; a page, and *)
(* the check of a checkpoint's references, is a transaction of its own.    *)
(*                                                                         *)
(* A row stands for its digests.  Identifiers are numbers, given in any    *)
(* order, as the random ones of the code are.                              *)
(***************************************************************************)
EXTENDS Integers, Sequences, SequencesExt, FiniteSets

CONSTANTS
    Scopes, Keys,
    Payloads,   \* payloads: sets of the words a literal query may find
    Queries,
    IdCount,    \* how many item identifiers there are
    Readable,   \* scopes the access policy lets the principal read
    Writable,   \* and write
    MaxItems,   \* max_items, the quota of a scope
    PageLimit,  \* the limit of a page
    Retention,  \* ttl_seconds
    MaxClock,   \* bound on the clock
    MaxSaved    \* bound on the checkpoints

ASSUME StoreAssumption ==
    /\ IdCount \in Nat /\ MaxItems \in Nat
    /\ PageLimit \in Nat \ {0} /\ Retention \in Nat

VARIABLES
    items,          \* the rows of table items
    checkpoints,    \* the rows of table checkpoints, in insertion order
    checking,       \* a checkpoint whose references were checked and that is not inserted yet
    receipts,       \* the ingest receipts handed out
    paging,         \* a search that goes from page to page; found has the ids of each page
    time

store_vars == <<items, checkpoints, checking, receipts, paging, time>>

Ids == 1 .. IdCount

NoPaging == [at |-> "none"]

-----------------------------------------------------------------------------

expired(created) == created < time - Retention

\* Content, provenance and record digests match, and the row is of the scope.
validate_item_row(scope, row) == row.scope = scope /\ row.intact

\* ORDER BY item_id LIMIT n.
first(n, rows) == {row \in rows : Cardinality({x \in rows : x.id < row.id}) < n}

\* The rows a page is made of, one more than it may show.
search_rows(scope, query, cursor) ==
    first(PageLimit + 1, {row \in items : /\ row.scope = scope
                                          /\ ~expired(row.created)
                                          /\ query \in row.request.payload
                                          /\ row.id > cursor})

hits(rows) == first(PageLimit, rows)

last_id(rows) == CHOOSE id \in {row.id : row \in rows} : \A row \in rows : row.id <= id

mutant_next_cursor(rows) == IF Cardinality(rows) > PageLimit THEN last_id(rows) ELSE 0

\* The cursor of the next page: the last row shown, if there is more.
next_cursor(rows) == IF Cardinality(rows) > PageLimit THEN last_id(hits(rows)) ELSE 0

StoreInit ==
    /\ items = {}
    /\ checkpoints = <<>>
    /\ checking = {}
    /\ receipts = {}
    /\ paging = NoPaging
    /\ time = 0

\* A key already used answers with the first item, if the request is the same;
\* a new one is inserted while the scope has room.  Expired rows count.
ingest(scope, key, payload) ==
    LET request  == [scope |-> scope, key |-> key, payload |-> payload]
        existing == {row \in items : row.scope = scope /\ row.request.key = key} IN
    /\ scope \in Writable
    /\ \/ \E row \in existing :
            /\ validate_item_row(scope, row)
            /\ row.request = request
            /\ receipts' = receipts \cup {[request |-> request, id |-> row.id]}
            /\ UNCHANGED items
       \/ /\ existing = {}
          /\ Cardinality({row \in items : row.scope = scope}) < MaxItems
          /\ \E id \in Ids \ {row.id : row \in items} :
                /\ items' = items \cup {[id |-> id, scope |-> scope, request |-> request,
                                         created |-> time, intact |-> TRUE]}
                /\ receipts' = receipts \cup {[request |-> request, id |-> id]}
    /\ UNCHANGED <<checkpoints, checking, paging, time>>

\* The time of a checkpoint is taken, and its references are looked up, outside
\* of the transaction that inserts it.
checkpoint_check(scope, refs) ==
    /\ scope \in Writable
    /\ checking = {}
    /\ Len(checkpoints) < MaxSaved
    /\ \A id \in refs : \E row \in items : row.scope = scope /\ row.id = id
    /\ checking' = {[scope |-> scope, refs |-> refs, created |-> time]}
    /\ UNCHANGED <<items, checkpoints, receipts, paging, time>>

checkpoint_insert(c) ==
    /\ c \in checking
    /\ checkpoints' = Append(checkpoints, c)
    /\ checking' = {}
    /\ UNCHANGED <<items, receipts, paging, time>>

\* The references resume hands to a session: those of the newest checkpoint.
latest_checkpoint(scope) ==
    {c \in ToSet(checkpoints) : /\ c.scope = scope
                                /\ \A d \in ToSet(checkpoints) : d.scope = scope => d.created <= c.created}

resume_refs(scope) ==
    IF scope \notin Readable THEN {}
    ELSE UNION {c.refs : c \in {d \in latest_checkpoint(scope) : ~expired(d.created)}}

\* read_item of a whole item: its payload, or nothing where it raises.
read_item(scope, id) ==
    {row.request.payload : row \in {x \in items :
        scope \in Readable /\ x.scope = scope /\ x.id = id /\ validate_item_row(scope, x) /\ ~expired(x.created)}}

\* One page more of a search.  A row that does not validate refuses the page.
search_page(scope, query, cursor, found, began) ==
    LET rows == search_rows(scope, query, cursor) IN
    /\ \A row \in rows : validate_item_row(scope, row)
    /\ paging' = [at     |-> IF next_cursor(rows) = 0 THEN "done" ELSE "more",
                  scope  |-> scope, query |-> query, cursor |-> next_cursor(rows), began |-> began,
                  found  |-> Append(found, {row.id : row \in hits(rows)})]
    /\ UNCHANGED <<items, checkpoints, checking, receipts, time>>

search_begin(scope, query) ==
    /\ paging = NoPaging
    /\ scope \in Readable
    /\ search_page(scope, query, 0, <<>>, {row \in items : row.scope = scope /\ query \in row.request.payload})

search_next ==
    /\ paging.at = "more"
    /\ search_page(paging.scope, paging.query, paging.cursor, paging.found, paging.began)

\* Something else writes into a row.
spoil ==
    /\ \E row \in items : items' = (items \ {row}) \cup {[row EXCEPT !.intact = FALSE]}
    /\ UNCHANGED <<checkpoints, checking, receipts, paging, time>>

age ==
    /\ time < MaxClock
    /\ time' = time + 1
    /\ UNCHANGED <<items, checkpoints, checking, receipts, paging>>

StoreNext ==
    \/ \E scope \in Scopes, key \in Keys, payload \in Payloads : ingest(scope, key, payload)
    \/ \E scope \in Scopes, refs \in SUBSET Ids : Cardinality(refs) = 1 /\ checkpoint_check(scope, refs)
    \/ \E c \in checking : checkpoint_insert(c)
    \/ \E scope \in Scopes, query \in Queries : search_begin(scope, query)
    \/ search_next
    \/ spoil
    \/ age

StoreSpec == StoreInit /\ [][StoreNext]_store_vars

-----------------------------------------------------------------------------

\* Retried and concurrent ingestions of a key leave one item, which every
\* receipt names, and no more than the quota; what resume hands out can be
\* looked up in its scope; and a search that came to its end showed every item
\* that was there when it began and is still valid, none twice and none of
\* another scope, whatever was ingested between its pages (ingest, checkpoint,
\* search).
StoreExact ==
    /\ \A r, s \in receipts :
        r.request.scope = s.request.scope /\ r.request.key = s.request.key => r = s
    /\ \A r \in receipts : read_item(r.request.scope, r.id) \subseteq {r.request.payload}
    /\ \A scope \in Scopes : Cardinality({row \in items : row.scope = scope}) <= MaxItems
    /\ \A scope \in Scopes : \A id \in resume_refs(scope) :
        \E row \in items : row.scope = scope /\ row.id = id
    /\ paging.at = "done" =>
        /\ \A j, k \in DOMAIN paging.found : j # k => paging.found[j] \cap paging.found[k] = {}
        /\ \A row \in paging.began :
            ~expired(row.created) => \E k \in DOMAIN paging.found : row.id \in paging.found[k]
        /\ \A k \in DOMAIN paging.found : \A id \in paging.found[k] : \E row \in items :
            row.id = id /\ row.scope = paging.scope /\ paging.query \in row.request.payload

=============================================================================
