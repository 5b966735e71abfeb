---------------------------- MODULE CrimesPaging ----------------------------
(***************************************************************************)
(* internal/crimes and etl/python/load_to_postgres.py: a client that reads *)
(* the crimes near a point page by page, following keyset cursors, while   *)
(* the loader upserts crimes, some of which it moves.                      *)
(*                                                                         *)
(* Of a crime only its id and its distance from the point matter.  A page  *)
(* is one statement; the loader is one transaction.                        *)
(***************************************************************************)
EXTENDS Integers, Sequences, FiniteSets

CONSTANTS
    Sources,       \* values of source_id
    Distances,     \* of the places where crimes are reported
    Radius,        \* of the query, in effect
    Limits,        \* values of the parameter limit, 0 if it is missing
    DefaultLimit, MaxLimit,
    BatchSize,     \* of the loader
    MaxLines,      \* bound: lines of a file
    MaxLoads,      \* bound: runs of the loader
    None           \* no row, no cursor

ASSUME SourcesAssumption == IsFiniteSet(Sources)
ASSUME DistanceAssumption == Distances \subseteq Nat /\ Radius \in Nat
ASSUME LimitAssumption ==
    /\ Limits \subseteq Int /\ MaxLimit \in Nat /\ DefaultLimit \in 1..MaxLimit
ASSUME LoaderAssumption ==
    BatchSize \in Nat \ {0} /\ MaxLines \in Nat /\ MaxLoads \in Nat

VARIABLES
    crimes,    \* the committed table
    lastId,    \* of the sequence behind crimes.id, which no rollback takes back
    loader,    \* the running loader, with its transaction
    scan,      \* the client
    loads      \* how often the loader has been started

vars == <<crimes, lastId, loader, scan, loads>>

MaxId == Cardinality(Sources) + MaxLines * MaxLoads
Row == [id: 1..MaxId, distance: Distances]
Table == [Sources -> Row \cup {None}]
Cursor == [distance: Distances, id: 1..MaxId]
Line == [source: Sources, distance: Distances]

ASSUME NoneAssumption == None \notin Nat \cup Row \cup Cursor

\* file: history, the lines read so far.
Loader == [at: {"idle", "reading", "commit"}, batch: Seq(Line), table: Table, file: Seq(Line)]

\* got: what the client has received; changed: history, crimes inserted or moved
\* since its first page.
Scan == [at: {"new", "paging", "done"}, cursor: Cursor \cup {None},
         got: Seq([source: Sources, key: Cursor]), changed: SUBSET Sources]

TypeOK ==
    /\ crimes \in Table
    /\ lastId \in 0..MaxId
    /\ loader \in Loader
    /\ scan \in Scan
    /\ loads \in 0..MaxLoads

NewScan == [at |-> "new", cursor |-> None, got |-> <<>>, changed |-> {}]

Idle(table) == [at |-> "idle", batch |-> <<>>, table |-> table, file |-> <<>>]

\* Some crimes are stored, in any order.
Init ==
    /\ crimes \in {t \in [Sources -> [id: 1..Cardinality(Sources), distance: Distances]
                                      \cup {None}] :
                     \A s, u \in Sources : t[s] # None /\ t[u] # None /\ s # u => t[s].id # t[u].id}
    /\ lastId = Cardinality(Sources)
    /\ loader = Idle(crimes)
    /\ scan = NewScan
    /\ loads = 0

-----------------------------------------------------------------------------
(* The query *)

Key(row) == [distance |-> row.distance, id |-> row.id]

Before(a, b) == a.distance < b.distance \/ (a.distance = b.distance /\ a.id < b.id)

Near(table) == {s \in Sources : table[s] # None /\ table[s].distance <= Radius}

\* Mutant of Beyond: the row at the cursor again.
BeyondOrAt(cursor, table) ==
    {s \in Near(table) : cursor = None \/ ~Before(Key(table[s]), cursor)}

Beyond(cursor, table) ==
    {s \in Near(table) : cursor = None \/ Before(cursor, Key(table[s]))}

Least(m, n) == IF m < n THEN m ELSE n

Rank(s, rows) == Cardinality({t \in rows : Before(Key(crimes[t]), Key(crimes[s]))})

\* ORDER BY distance, id LIMIT limit + 1: one row more shows whether a page follows.
Sorted(rows, most) ==
    [i \in 1..Least(most, Cardinality(rows)) |-> CHOOSE s \in rows : Rank(s, rows) = i - 1]

Fetched(cursor, limit) == Sorted(Beyond(cursor, crimes), limit + 1)

\* Mutant of Page: the cursor points at the row that was fetched to look ahead.
PageAtProbe(cursor, limit) ==
    LET rows == Fetched(cursor, limit)
    IN [items |-> [i \in 1..Least(limit, Len(rows)) |->
                     [source |-> rows[i], key |-> Key(crimes[rows[i]])]],
        next |-> IF Len(rows) > limit THEN Key(crimes[rows[limit + 1]]) ELSE None]

Page(cursor, limit) ==
    LET rows == Fetched(cursor, limit)
    IN [items |-> [i \in 1..Least(limit, Len(rows)) |->
                     [source |-> rows[i], key |-> Key(crimes[rows[i]])]],
        next |-> IF Len(rows) > limit THEN Key(crimes[rows[limit]]) ELSE None]

EffectiveLimit(limit) == IF limit = 0 THEN DefaultLimit ELSE limit
isValidLimit(limit) == limit \in 1..MaxLimit

-----------------------------------------------------------------------------
(* The client *)

\* The next page, or the first, with any valid limit. A client that is answered 400 (a
\* limit out of bounds, a token that does not decode) or 500 is where it was.
GetNearby ==
    /\ scan.at # "done"
    /\ \E limit \in Limits :
         /\ isValidLimit(EffectiveLimit(limit))
         /\ LET page == Page(scan.cursor, EffectiveLimit(limit))
            IN scan' = [scan EXCEPT !.at = IF page.next = None THEN "done" ELSE "paging",
                                    !.cursor = page.next, !.got = @ \o page.items]
    /\ UNCHANGED <<crimes, lastId, loader, loads>>

\* The client starts anew.
Rescan ==
    /\ scan.at # "new"
    /\ scan' = NewScan
    /\ UNCHANGED <<crimes, lastId, loader, loads>>

-----------------------------------------------------------------------------
(* The loader *)

LinesOf(lines, s) == {i \in DOMAIN lines : lines[i].source = s}

\* Mutant of Put: the first line of a crime stays.
PutFirst(batch, line) ==
    IF LinesOf(batch, line.source) # {} THEN batch ELSE Append(batch, line)

\* A batch is a dict: a second line of the same crime takes the place of the first,
\* since ON CONFLICT cannot affect a row twice in one statement.
Put(batch, line) ==
    IF LinesOf(batch, line.source) # {}
    THEN [i \in DOMAIN batch |-> IF batch[i].source = line.source THEN line ELSE batch[i]]
    ELSE Append(batch, line)

\* ON CONFLICT (source_id) DO UPDATE: the id stays; but every line uses up one of the
\* sequence.
Upsert(batch) ==
    [s \in Sources |->
       IF LinesOf(batch, s) = {} THEN loader.table[s]
       ELSE LET i == CHOOSE i \in LinesOf(batch, s) : TRUE
            IN [id |-> IF loader.table[s] = None THEN lastId + i ELSE loader.table[s].id,
                distance |-> batch[i].distance]]

StartLoad ==
    /\ loader.at = "idle" /\ loads < MaxLoads
    /\ loads' = loads + 1
    /\ loader' = [Idle(crimes) EXCEPT !.at = "reading"]
    /\ UNCHANGED <<crimes, lastId, scan>>

\* A line that does not parse is skipped.
ReadLine ==
    /\ loader.at = "reading" /\ Len(loader.file) < MaxLines /\ Len(loader.batch) < BatchSize
    /\ \E line \in Line :
         loader' = [loader EXCEPT !.batch = Put(@, line), !.file = Append(@, line)]
    /\ UNCHANGED <<crimes, lastId, scan, loads>>

\* When the batch is full, and at the end of the file.
\* Mutant of Flush: the batch is not emptied.
FlushKeepingBatch ==
    /\ loader.at = "reading"
    /\ \E next \in {"reading", "commit"} :
         /\ next = "reading" => Len(loader.batch) = BatchSize
         /\ loader' = [loader EXCEPT !.at = next, !.table = Upsert(loader.batch)]
    /\ lastId' = lastId + Len(loader.batch)
    /\ UNCHANGED <<crimes, scan, loads>>

Flush ==
    /\ loader.at = "reading"
    /\ \E next \in {"reading", "commit"} :
         /\ next = "reading" => Len(loader.batch) = BatchSize
         /\ loader' = [loader EXCEPT !.at = next, !.table = Upsert(loader.batch), !.batch = <<>>]
    /\ lastId' = lastId + Len(loader.batch)
    /\ UNCHANGED <<crimes, scan, loads>>

Place(table, s) == IF table[s] = None THEN None ELSE table[s].distance

Commit ==
    /\ loader.at = "commit"
    /\ crimes' = loader.table
    /\ scan' = IF scan.at = "new" THEN scan
               ELSE [scan EXCEPT !.changed = @ \cup
                                   {s \in Sources : Place(crimes', s) # Place(crimes, s)}]
    /\ loader' = Idle(crimes')
    /\ UNCHANGED <<lastId, loads>>

\* A statement or the program fails, and everything is rolled back.
Abort ==
    /\ loader.at # "idle"
    /\ loader' = Idle(crimes)
    /\ UNCHANGED <<crimes, lastId, scan, loads>>

Next ==
    \/ GetNearby \/ Rescan
    \/ StartLoad \/ ReadLine \/ Flush \/ Commit \/ Abort

Spec == Init /\ [][Next]_vars

-----------------------------------------------------------------------------
(* Properties *)

Count(s) == Cardinality({i \in DOMAIN scan.got : scan.got[i].source = s})

\* "No duplicates, no gaps", also while others are inserted and moved: a crime that has
\* stayed where it was since the first page, rewritten or not, is received once the pages
\* have passed its place, and once only.
SteadyCrimesSeenOnce ==
    scan.at # "new" =>
      \A s \in Near(crimes) \ scan.changed :
        Count(s) = IF scan.at = "done" \/ ~Before(scan.cursor, Key(crimes[s])) THEN 1 ELSE 0

\* "Distances are non-decreasing across page boundaries": what a client receives is
\* strictly ordered by distance and id whatever is loaded between the pages, so that it
\* gets a crime twice only if the crime has moved away from the point.
StrictlyOrdered ==
    \A i, j \in DOMAIN scan.got : i < j => Before(scan.got[i].key, scan.got[j].key)

\* What the transaction is about to commit is the file over the old table: of several
\* lines of one crime the last one counts, in the same batch or not.
LastLineWins ==
    loader.at = "commit" =>
      \A s \in Sources :
        LET lines == LinesOf(loader.file, s)
        IN IF lines = {} THEN loader.table[s] = crimes[s]
           ELSE \E last \in lines : /\ \A i \in lines : i <= last
                                   /\ loader.table[s].distance = loader.file[last].distance

=============================================================================
