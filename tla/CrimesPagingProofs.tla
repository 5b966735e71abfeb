------------------------- MODULE CrimesPagingProofs -------------------------
(***************************************************************************)
(* Proofs about CrimesPaging: the query sorts, a page continues the one    *)
(* before it, and the loader's transaction puts the file over the table.   *)
(***************************************************************************)
EXTENDS CrimesPaging, FiniteSetTheorems, TLAPS

-----------------------------------------------------------------------------
(* The order of the query *)

Present(table) == {s \in Sources : table[s] # None}

\* No two rows have the same id.
Distinct(table) == \A s, u \in Present(table) : table[s].id = table[u].id => s = u

LEMMA MaxIdType == MaxId \in Nat
<1>1. Cardinality(Sources) \in Nat
  BY SourcesAssumption, FS_CardinalityType
<1>2. MaxLines * MaxLoads \in Nat
  BY LoaderAssumption
<1> QED BY <1>1, <1>2 DEF MaxId

LEMMA CursorFields == ASSUME NEW c \in Cursor PROVE c.distance \in Nat /\ c.id \in Int
<1>1. c.distance \in Distances /\ c.id \in 1..MaxId
  BY DEF Cursor
<1>2. c.distance \in Nat
  BY <1>1, DistanceAssumption
<1> QED BY <1>1, <1>2, MaxIdType

LEMMA BeforeIrreflexive == ASSUME NEW a \in Cursor PROVE ~Before(a, a)
BY CursorFields DEF Before

LEMMA BeforeTransitive ==
    ASSUME NEW a \in Cursor, NEW b \in Cursor, NEW c \in Cursor, Before(a, b), Before(b, c)
    PROVE  Before(a, c)
<1>1. /\ a.distance \in Nat /\ b.distance \in Nat /\ c.distance \in Nat
      /\ a.id \in Int /\ b.id \in Int /\ c.id \in Int
  BY CursorFields
<1> QED BY <1>1 DEF Before

LEMMA BeforeTotal ==
    ASSUME NEW a \in Cursor, NEW b \in Cursor, a # b
    PROVE  Before(a, b) \/ Before(b, a)
<1>1. /\ a.distance \in Nat /\ b.distance \in Nat /\ a.id \in Int /\ b.id \in Int
  BY CursorFields
<1>2. a.distance # b.distance \/ a.id # b.id
  BY DEF Cursor
<1> QED BY <1>1, <1>2 DEF Before

LEMMA KeyType ==
    ASSUME NEW table \in Table, NEW s \in Present(table)
    PROVE  Key(table[s]) \in Cursor /\ Key(table[s]).id = table[s].id
<1>1. table[s] \in Row
  BY DEF Table, Present
<1> QED BY <1>1 DEF Row, Key, Cursor

\* The rows of a statement, all of them rows of the table.
LEMMA RowsOrdered ==
    ASSUME crimes \in Table, Distinct(crimes), NEW rows \in SUBSET Present(crimes)
    PROVE  \A s, t \in rows : s # t => \/ Before(Key(crimes[s]), Key(crimes[t]))
                                       \/ Before(Key(crimes[t]), Key(crimes[s]))
<1> SUFFICES ASSUME NEW s \in rows, NEW t \in rows, s # t
             PROVE  \/ Before(Key(crimes[s]), Key(crimes[t]))
                    \/ Before(Key(crimes[t]), Key(crimes[s]))
  OBVIOUS
<1>1. crimes[s].id # crimes[t].id
  BY DEF Distinct
<1> QED BY <1>1, KeyType, BeforeTotal

LEMMA PresentFinite ==
    ASSUME NEW table, NEW rows \in SUBSET Present(table)
    PROVE  IsFiniteSet(rows) /\ Cardinality(rows) \in Nat
<1>1. rows \in SUBSET Sources
  BY DEF Present
<1> QED BY <1>1, SourcesAssumption, FS_Subset, FS_CardinalityType

\* A row comes before another if fewer rows come before it.
LEMMA RankOrders ==
    ASSUME crimes \in Table, Distinct(crimes), NEW rows \in SUBSET Present(crimes),
           NEW s \in rows, NEW t \in rows, Before(Key(crimes[s]), Key(crimes[t]))
    PROVE  Rank(s, rows) < Rank(t, rows)
<1> DEFINE Earlier(u) == {v \in rows : Before(Key(crimes[v]), Key(crimes[u]))}
<1>1. Earlier(s) \subseteq Earlier(t)
  BY KeyType, BeforeTransitive
<1>2. s \in Earlier(t) /\ s \notin Earlier(s)
  BY KeyType, BeforeIrreflexive
<1>3. IsFiniteSet(Earlier(t)) /\ IsFiniteSet(Earlier(s))
  BY PresentFinite, FS_Subset
<1>4. Cardinality(Earlier(s)) <= Cardinality(Earlier(t)) /\ Cardinality(Earlier(s)) # Cardinality(Earlier(t))
  <2> HIDE DEF Earlier
  <2> QED BY <1>1, <1>2, <1>3, FS_Subset
<1>5. Cardinality(Earlier(s)) \in Nat /\ Cardinality(Earlier(t)) \in Nat
  BY <1>3, FS_CardinalityType
<1>6. Rank(s, rows) = Cardinality(Earlier(s)) /\ Rank(t, rows) = Cardinality(Earlier(t))
  BY DEF Rank
<1> HIDE DEF Earlier
<1> QED BY <1>4, <1>5, <1>6

LEMMA RankType ==
    ASSUME crimes \in Table, Distinct(crimes), NEW rows \in SUBSET Present(crimes), NEW s \in rows
    PROVE  Rank(s, rows) \in 0..(Cardinality(rows) - 1)
<1> DEFINE earlier == {v \in rows : Before(Key(crimes[v]), Key(crimes[s]))}
<1>1. s \notin earlier
  BY KeyType, BeforeIrreflexive
<1>2. earlier \subseteq rows /\ IsFiniteSet(rows) /\ Cardinality(rows) \in Nat
  BY PresentFinite
<1>3. /\ IsFiniteSet(earlier) /\ Cardinality(earlier) \in Nat
      /\ Cardinality(earlier) <= Cardinality(rows) /\ Cardinality(earlier) # Cardinality(rows)
  <2> HIDE DEF earlier
  <2> QED BY <1>1, <1>2, FS_Subset, FS_CardinalityType
<1>4. Rank(s, rows) = Cardinality(earlier)
  BY DEF Rank
<1> HIDE DEF earlier
<1> QED BY <1>2, <1>3, <1>4

\* Every place of the result is taken, and by one row.
LEMMA RankOnto ==
    ASSUME crimes \in Table, Distinct(crimes), NEW rows \in SUBSET Present(crimes),
           NEW n \in 0..(Cardinality(rows) - 1)
    PROVE  \E s \in rows : Rank(s, rows) = n
<1> DEFINE size == Cardinality(rows)
           places == 0..(size - 1)
           rank == [s \in rows |-> Rank(s, rows)]
<1>1. size \in Nat /\ IsFiniteSet(rows)
  BY PresentFinite
<1>2. rank \in [rows -> places]
  BY RankType
<1>3. \A s, t \in rows : rank[s] = rank[t] => s = t
  <2> SUFFICES ASSUME NEW s \in rows, NEW t \in rows, s # t PROVE Rank(s, rows) # Rank(t, rows)
    OBVIOUS
  <2>1. Rank(s, rows) < Rank(t, rows) \/ Rank(t, rows) < Rank(s, rows)
    BY RowsOrdered, RankOrders
  <2>2. Rank(s, rows) \in Int /\ Rank(t, rows) \in Int
    BY RankType
  <2> QED BY <2>1, <2>2
<1>4. IsFiniteSet(places) /\ Cardinality(places) = size
  <2> HIDE DEF size
  <2>1. IsFiniteSet(0..(size - 1)) /\ Cardinality(0..(size - 1)) = IF 0 > size - 1 THEN 0 ELSE size - 1 - 0 + 1
    BY <1>1, FS_Interval
  <2> QED BY <1>1, <2>1
<1>5. rank \in Injection(rows, places)
  <2> HIDE DEF rank
  <2> QED BY <1>2, <1>3 DEF Injection, IsInjective
<1>6. rank \in Surjection(rows, places)
  <2> HIDE DEF rank, places
  <2> QED BY <1>1, <1>4, <1>5, FS_Injection
<1>7. \E s \in rows : rank[s] = n
  <2> HIDE DEF rank
  <2> QED BY <1>6 DEF Surjection
<1> QED BY <1>7

LEMMA LeastType ==
    ASSUME NEW m \in Nat, NEW n \in Nat
    PROVE  /\ Least(m, n) \in Nat /\ Least(m, n) <= m /\ Least(m, n) <= n
           /\ Least(m, n) = m \/ Least(m, n) = n
BY DEF Least

\* What the statement returns: the first rows of the order, each in its place.
LEMMA SortedIsSorted ==
    ASSUME crimes \in Table, Distinct(crimes), NEW rows \in SUBSET Present(crimes), NEW most \in Nat
    PROVE  /\ Len(Sorted(rows, most)) = Least(most, Cardinality(rows))
           /\ Sorted(rows, most) \in Seq(rows)
           /\ \A i \in 1..Least(most, Cardinality(rows)) :
                Sorted(rows, most)[i] \in rows /\ Rank(Sorted(rows, most)[i], rows) = i - 1
<1> DEFINE len == Least(most, Cardinality(rows))
           list == Sorted(rows, most)
<1>1. len \in Nat /\ len <= Cardinality(rows) /\ Cardinality(rows) \in Nat
  BY PresentFinite, LeastType
<1>2. list = [i \in 1..len |-> CHOOSE s \in rows : Rank(s, rows) = i - 1]
  BY DEF Sorted
<1>3. ASSUME NEW i \in 1..len PROVE list[i] \in rows /\ Rank(list[i], rows) = i - 1
  <2> HIDE DEF len, list
  <2>1. i - 1 \in 0..(Cardinality(rows) - 1)
    BY <1>1
  <2>2. \E s \in rows : Rank(s, rows) = i - 1
    BY <2>1, RankOnto
  <2> QED BY <1>2, <2>2
<1>4. list \in [1..len -> rows]
  <2> HIDE DEF len
  <2>1. list = [i \in 1..len |-> list[i]]
    BY <1>2
  <2> HIDE DEF list
  <2> QED BY <2>1, <1>3
<1> HIDE DEF len, list
<1>5. list \in Seq(rows) /\ Len(list) = len
  BY <1>1, <1>4
<1> QED BY <1>3, <1>5 DEF len, list

-----------------------------------------------------------------------------
(* A page *)

LEMMA BeyondPresent ==
    ASSUME NEW cursor, NEW table
    PROVE  Beyond(cursor, table) \in SUBSET Present(table)
BY DEF Beyond, Near, Present

LEMMA RankExact ==
    ASSUME crimes \in Table, Distinct(crimes), NEW rows \in SUBSET Present(crimes),
           NEW s \in rows, NEW t \in rows
    PROVE  /\ Before(Key(crimes[s]), Key(crimes[t])) <=> Rank(s, rows) < Rank(t, rows)
           /\ Rank(s, rows) = Rank(t, rows) => s = t
<1>1. Rank(s, rows) \in Int /\ Rank(t, rows) \in Int
  BY PresentFinite, RankType
<1>2. Before(Key(crimes[s]), Key(crimes[t])) => Rank(s, rows) < Rank(t, rows)
  BY RankOrders
<1>3. Before(Key(crimes[t]), Key(crimes[s])) => Rank(t, rows) < Rank(s, rows)
  BY RankOrders
<1>4. s # t => \/ Before(Key(crimes[s]), Key(crimes[t]))
               \/ Before(Key(crimes[t]), Key(crimes[s]))
  BY RowsOrdered
<1> QED BY <1>1, <1>2, <1>3, <1>4

\* What a page promises of the rows it is taken from.
Items(rows) == Seq([source: rows, key: Cursor])
ItemsAreRows(page) ==
    \A i \in DOMAIN page.items : page.items[i].key = Key(crimes[page.items[i].source])
ItemsInOrder(page) ==
    \A i, j \in DOMAIN page.items : i < j => Before(page.items[i].key, page.items[j].key)
NextIsRow(page, rows) ==
    page.next # None => \E s \in rows : page.next = Key(crimes[s])
ItemsUpToNext(page, rows) ==
    \A s \in rows : (page.next = None \/ ~Before(page.next, Key(crimes[s])))
                      <=> \E i \in DOMAIN page.items : page.items[i].source = s

LEMMA PageContinues ==
    ASSUME crimes \in Table, Distinct(crimes), NEW cursor, NEW limit \in Nat \ {0}
    PROVE  LET rows == Beyond(cursor, crimes)
               page == Page(cursor, limit)
           IN /\ page.items \in Items(rows) /\ ItemsAreRows(page) /\ ItemsInOrder(page)
              /\ NextIsRow(page, rows) /\ ItemsUpToNext(page, rows)
<1> DEFINE rows == Beyond(cursor, crimes)
           list == Fetched(cursor, limit)
           page == Page(cursor, limit)
           size == Cardinality(rows)
           len == Len(list)
           shown == Least(limit, len)
<1>1. rows \in SUBSET Present(crimes)
  BY BeyondPresent
<1>2. size \in Nat
  BY <1>1, PresentFinite
<1>3. /\ len = Least(limit + 1, size) /\ list \in Seq(rows)
      /\ \A i \in 1..len : list[i] \in rows /\ Rank(list[i], rows) = i - 1
  <2>1. list = Sorted(rows, limit + 1) /\ limit + 1 \in Nat
    BY DEF Fetched
  <2> HIDE DEF rows, list
  <2>2. /\ len = Least(limit + 1, size) /\ list \in Seq(rows)
        /\ \A i \in 1..Least(limit + 1, size) : list[i] \in rows /\ Rank(list[i], rows) = i - 1
    BY <1>1, <2>1, SortedIsSorted
  <2> QED BY <2>2
<1>4. /\ page.items = [i \in 1..shown |-> [source |-> list[i], key |-> Key(crimes[list[i]])]]
      /\ page.next = IF len > limit THEN Key(crimes[list[limit]]) ELSE None
  BY DEF Page
<1>5. \A s \in rows : Key(crimes[s]) \in Cursor /\ Rank(s, rows) \in 0..(size - 1)
  <2> HIDE DEF rows
  <2> QED BY <1>1, KeyType, RankType
<1>6. /\ len \in Nat /\ len <= size /\ len <= limit + 1
      /\ len = limit + 1 \/ len = size
      /\ shown \in Nat /\ shown <= len /\ shown <= limit
      /\ shown = limit \/ shown = len
  <2> HIDE DEF rows, list, size, len
  <2>1. len \in Nat /\ len <= size /\ len <= limit + 1 /\ (len = limit + 1 \/ len = size)
    BY <1>2, <1>3, LeastType
  <2> QED BY <2>1, LeastType
<1>7. /\ \A s, t \in rows : Before(Key(crimes[s]), Key(crimes[t])) <=> Rank(s, rows) < Rank(t, rows)
      /\ \A s, t \in rows : Rank(s, rows) = Rank(t, rows) => s = t
  <2> HIDE DEF rows
  <2> QED BY <1>1, RankExact
<1> HIDE DEF rows, list, page, size, len, shown
<1>8. /\ DOMAIN page.items = 1..shown
      /\ \A i \in 1..shown : /\ page.items[i].source = list[i] /\ list[i] \in rows
                             /\ page.items[i].key = Key(crimes[list[i]])
                             /\ Rank(list[i], rows) = i - 1
  BY <1>3, <1>4, <1>6
<1>9. page.items \in Items(rows)
  BY <1>4, <1>5, <1>6, <1>8 DEF Items
<1>10. ItemsAreRows(page)
  BY <1>8 DEF ItemsAreRows
<1>11. ItemsInOrder(page)
  <2> SUFFICES ASSUME NEW i \in 1..shown, NEW j \in 1..shown, i < j
               PROVE  Before(page.items[i].key, page.items[j].key)
    BY <1>8 DEF ItemsInOrder
  <2>1. Rank(list[i], rows) < Rank(list[j], rows)
    BY <1>6, <1>8
  <2> QED BY <1>7, <1>8, <2>1
<1>12. NextIsRow(page, rows)
  BY <1>3, <1>4, <1>6 DEF NextIsRow
\* The row in the place that a row's rank says is the row itself.
<1>13. ASSUME NEW s \in rows
       PROVE  (\E i \in DOMAIN page.items : page.items[i].source = s) <=> Rank(s, rows) < shown
  <2>1. ASSUME Rank(s, rows) < shown PROVE \E i \in DOMAIN page.items : page.items[i].source = s
    <3>1. Rank(s, rows) + 1 \in 1..shown /\ Rank(s, rows) \in Nat
      BY <1>2, <1>5, <1>6, <2>1
    <3>2. Rank(list[Rank(s, rows) + 1], rows) = Rank(s, rows)
      BY <1>8, <3>1
    <3> QED BY <1>7, <1>8, <3>1, <3>2
  <2>2. ASSUME NEW i \in 1..shown, page.items[i].source = s PROVE Rank(s, rows) < shown
    BY <1>6, <1>8, <2>2
  <2> QED BY <1>8, <2>1, <2>2
<1>14. ItemsUpToNext(page, rows)
  <2> SUFFICES ASSUME NEW s \in rows
               PROVE (page.next = None \/ ~Before(page.next, Key(crimes[s]))) <=> Rank(s, rows) < shown
    BY <1>13 DEF ItemsUpToNext
  <2>1. Rank(s, rows) \in Int /\ Rank(s, rows) < size
    BY <1>2, <1>5
  <2>2. CASE len <= limit
    <3>1. shown = size /\ page.next = None
      BY <1>2, <1>4, <1>6, <2>2
    <3> QED BY <2>1, <3>1
  <2>3. CASE len > limit
    <3>1. shown = limit /\ limit \in 1..len
      BY <1>6, <2>3
    <3>2. /\ list[limit] \in rows /\ Rank(list[limit], rows) = limit - 1
          /\ page.next = Key(crimes[list[limit]])
      BY <1>3, <1>4, <2>3, <3>1
    <3>3. page.next # None
      BY <1>5, <3>2, NoneAssumption
    <3>4. Before(page.next, Key(crimes[s])) <=> limit - 1 < Rank(s, rows)
      BY <1>7, <3>2
    <3> QED BY <2>1, <3>1, <3>3, <3>4
  <2> QED BY <1>6, <2>2, <2>3
<1> QED BY <1>9, <1>10, <1>11, <1>12, <1>14 DEF rows, page

-----------------------------------------------------------------------------
(* The inductive invariant *)

Numbered(table) ==
    Distinct(table) /\ \A s \in Present(table) : table[s].id <= lastId

\* A row keeps its id, and is not deleted.
Extends(new, old) ==
    \A s \in Present(old) : s \in Present(new) /\ new[s].id = old[s].id

TablesInv ==
    Numbered(crimes) /\ Numbered(loader.table) /\ Extends(loader.table, crimes)

OncePer(batch) == \A i, j \in DOMAIN batch : batch[i].source = batch[j].source => i = j

IsLast(file, n) == \A i \in LinesOf(file, file[n].source) : i <= n

\* The table or, as long as it is not flushed, the batch has what the last line says.
LastStands(file, batch, table) ==
    \A n \in DOMAIN file :
      IsLast(file, n) =>
        LET s == file[n].source
        IN /\ \A i \in LinesOf(batch, s) : batch[i].distance = file[n].distance
           /\ LinesOf(batch, s) = {} =>
                s \in Present(table) /\ table[s].distance = file[n].distance

FromFile(batch, file) == \A i \in DOMAIN batch : LinesOf(file, batch[i].source) # {}

\* The lines not read yet, of this run, may each use up an id.
IdsLeft ==
    /\ Len(loader.file) <= MaxLines
    /\ lastId + Len(loader.batch) + (IF loader.at = "idle" THEN 0 ELSE MaxLines - Len(loader.file))
         <= Cardinality(Sources) + MaxLines * loads

LoaderInv ==
    /\ loader.at = "idle" => loader = Idle(crimes)
    /\ loader.at = "commit" => loader.batch = <<>>
    /\ OncePer(loader.batch)
    /\ FromFile(loader.batch, loader.file)
    /\ \A s \in Sources : LinesOf(loader.file, s) = {} => loader.table[s] = crimes[s]
    /\ LastStands(loader.file, loader.batch, loader.table)
    /\ IdsLeft

\* The pages have passed the place of a crime.
Passed(s) ==
    \/ scan.at = "done"
    \/ scan.at = "paging" /\ ~Before(scan.cursor, Key(crimes[s]))

\* Of a crime that has not moved, the client has the key that it still has.
SteadyKeys ==
    \A i \in DOMAIN scan.got :
      LET s == scan.got[i].source
      IN s \notin scan.changed => s \in Present(crimes) /\ scan.got[i].key = Key(crimes[s])

SteadySeen ==
    \A s \in Near(crimes) \ scan.changed :
      Passed(s) <=> \E i \in DOMAIN scan.got : scan.got[i].source = s

ScanInv ==
    /\ scan.at = "new" => scan = NewScan
    /\ scan.at = "paging" <=> scan.cursor # None
    /\ \A i \in DOMAIN scan.got : scan.cursor # None => ~Before(scan.cursor, scan.got[i].key)
    /\ StrictlyOrdered
    /\ SteadyKeys
    /\ SteadySeen

Inv == TypeOK /\ TablesInv /\ LoaderInv /\ ScanInv

-----------------------------------------------------------------------------
(* The loader's operators *)

LEMMA LineFields ==
    ASSUME NEW lines \in Seq(Line), NEW i \in DOMAIN lines
    PROVE  lines[i].source \in Sources /\ lines[i].distance \in Distances
<1>1. lines[i] \in Line
  OBVIOUS
<1> QED BY <1>1 DEF Line

LEMMA PutType ==
    ASSUME NEW batch \in Seq(Line), NEW line \in Line
    PROVE  Put(batch, line) \in Seq(Line) /\ Len(Put(batch, line)) \in {Len(batch), Len(batch) + 1}
<1>1. CASE LinesOf(batch, line.source) # {}
  <2>1. Put(batch, line) = [i \in 1..Len(batch) |->
                              IF batch[i].source = line.source THEN line ELSE batch[i]]
    BY <1>1 DEF Put
  <2> QED BY <2>1
<1>2. CASE LinesOf(batch, line.source) = {}
  BY <1>2 DEF Put
<1> QED BY <1>1, <1>2

\* The line is in the batch, and takes no other crime's place.
LEMMA PutPuts ==
    ASSUME NEW batch \in Seq(Line), NEW line \in Line, OncePer(batch)
    PROVE  /\ OncePer(Put(batch, line))
           /\ \E i \in DOMAIN Put(batch, line) : Put(batch, line)[i] = line
           /\ \A i \in DOMAIN Put(batch, line) :
                \/ Put(batch, line)[i] = line
                \/ i \in DOMAIN batch /\ Put(batch, line)[i] = batch[i] /\ batch[i].source # line.source
           /\ \A i \in DOMAIN batch :
                batch[i].source # line.source =>
                  i \in DOMAIN Put(batch, line) /\ Put(batch, line)[i] = batch[i]
<1>1. CASE LinesOf(batch, line.source) # {}
  <2>1. Put(batch, line) = [i \in DOMAIN batch |->
                              IF batch[i].source = line.source THEN line ELSE batch[i]]
    BY <1>1 DEF Put
  <2>2. PICK n \in DOMAIN batch : batch[n].source = line.source
    BY <1>1 DEF LinesOf
  <2> QED BY <2>1, <2>2 DEF OncePer
<1>2. CASE LinesOf(batch, line.source) = {}
  <2>1. Put(batch, line) = Append(batch, line)
    BY <1>2 DEF Put
  <2>2. \A i \in DOMAIN batch : batch[i].source # line.source
    BY <1>2 DEF LinesOf
  <2>3. /\ DOMAIN Append(batch, line) = DOMAIN batch \cup {Len(batch) + 1}
        /\ Append(batch, line)[Len(batch) + 1] = line
        /\ \A i \in DOMAIN batch : Append(batch, line)[i] = batch[i]
    OBVIOUS
  <2> QED BY <2>1, <2>2, <2>3 DEF OncePer
<1> QED BY <1>1, <1>2

\* What the statement does to one row.
LEMMA UpsertRow ==
    ASSUME NEW batch \in Seq(Line), OncePer(batch), NEW i \in DOMAIN batch
    PROVE  Upsert(batch)[batch[i].source] =
             [id |-> IF loader.table[batch[i].source] = None THEN lastId + i
                     ELSE loader.table[batch[i].source].id,
              distance |-> batch[i].distance]
<1> DEFINE s == batch[i].source
<1>1. LinesOf(batch, s) = {i}
  BY DEF LinesOf, OncePer
<1>2. s \in Sources
  BY LineFields
<1>3. (CHOOSE j \in LinesOf(batch, s) : TRUE) = i
  BY <1>1
<1> HIDE DEF s
<1>4. Upsert(batch)[s] = [id |-> IF loader.table[s] = None THEN lastId + i ELSE loader.table[s].id,
                          distance |-> batch[i].distance]
  BY <1>1, <1>2, <1>3 DEF Upsert
<1> QED BY <1>4 DEF s

LEMMA UpsertOther ==
    ASSUME NEW batch \in Seq(Line), NEW s \in Sources, LinesOf(batch, s) = {}
    PROVE  Upsert(batch)[s] = loader.table[s]
BY DEF Upsert

LEMMA RowIsNotNone == ASSUME NEW row \in Row PROVE row # None
BY NoneAssumption

LEMMA UpsertRowType ==
    ASSUME NEW batch \in Seq(Line), OncePer(batch), loader.table \in Table, lastId \in Nat,
           lastId + Len(batch) <= MaxId, NEW i \in DOMAIN batch
    PROVE  Upsert(batch)[batch[i].source] \in Row
<1> DEFINE s == batch[i].source
<1>1. Upsert(batch)[s] = [id |-> IF loader.table[s] = None THEN lastId + i ELSE loader.table[s].id,
                          distance |-> batch[i].distance]
  BY UpsertRow
<1>2. batch[i].distance \in Distances /\ s \in Sources
  BY LineFields
<1> HIDE DEF s
<1>3. lastId + i \in 1..MaxId
  BY MaxIdType
<1>4. loader.table[s] # None => loader.table[s].id \in 1..MaxId
  BY <1>2 DEF Table, Row
<1>5. Upsert(batch)[s] \in Row
  BY <1>1, <1>2, <1>3, <1>4 DEF Row
<1> QED BY <1>5 DEF s

LEMMA UpsertType ==
    ASSUME NEW batch \in Seq(Line), OncePer(batch), loader.table \in Table, lastId \in Nat,
           lastId + Len(batch) <= MaxId
    PROVE  Upsert(batch) \in Table
<1>1. ASSUME NEW s \in Sources PROVE Upsert(batch)[s] \in Row \cup {None}
  <2>1. CASE LinesOf(batch, s) = {}
    BY <2>1, UpsertOther DEF Table
  <2>2. CASE LinesOf(batch, s) # {}
    BY <2>2, UpsertRowType DEF LinesOf
  <2> QED BY <2>1, <2>2
<1>2. Upsert(batch) = [s \in Sources |-> Upsert(batch)[s]]
  BY DEF Upsert
<1> QED BY <1>1, <1>2 DEF Table

-----------------------------------------------------------------------------
(* The type invariant *)

LEMMA SomeProducts ==
    ASSUME NEW a \in Nat, NEW b \in Nat, NEW c \in Nat
    PROVE  /\ a * b \in Nat /\ a * (b + 1) = a * b + a
           /\ b <= c => a * b <= a * c
OBVIOUS

LEMMA IdleType == ASSUME NEW table \in Table PROVE Idle(table) \in Loader
<1>1. <<>> \in Seq(Line)
  OBVIOUS
<1> QED BY <1>1 DEF Idle, Loader

LEMMA NewScanType == NewScan \in Scan
<1>1. <<>> \in Seq([source: Sources, key: Cursor])
  OBVIOUS
<1> QED BY <1>1 DEF NewScan, Scan

LEMMA LoaderFields ==
    ASSUME loader \in Loader
    PROVE  /\ loader.at \in {"idle", "reading", "commit"} /\ loader.batch \in Seq(Line)
           /\ loader.table \in Table /\ loader.file \in Seq(Line)
           /\ loader = [at |-> loader.at, batch |-> loader.batch, table |-> loader.table,
                        file |-> loader.file]
BY DEF Loader

LEMMA ScanFields ==
    ASSUME scan \in Scan
    PROVE  /\ scan.at \in {"new", "paging", "done"} /\ scan.cursor \in Cursor \cup {None}
           /\ scan.got \in Seq([source: Sources, key: Cursor]) /\ scan.changed \subseteq Sources
           /\ scan = [at |-> scan.at, cursor |-> scan.cursor, got |-> scan.got,
                      changed |-> scan.changed]
BY DEF Scan

LEMMA LimitType == ASSUME NEW limit, isValidLimit(limit) PROVE limit \in Nat \ {0}
BY LimitAssumption DEF isValidLimit

\* What a page adds to what the client has.
LEMMA GotType ==
    ASSUME TypeOK, NEW rows \in SUBSET Sources, NEW items \in Items(rows)
    PROVE  scan.got \o items \in Seq([source: Sources, key: Cursor])
<1>1. items \in Seq([source: Sources, key: Cursor])
  <2> DEFINE items1 == [source: rows, key: Cursor]
             items2 == [source: Sources, key: Cursor]
  <2>1. items1 \subseteq items2 /\ items \in Seq(items1)
    BY DEF Items
  <2> HIDE DEF items1, items2
  <2>2. \A i \in 1..Len(items) : items[i] \in items2
    BY <2>1
  <2>3. items \in Seq(items2)
    BY <2>1, <2>2
  <2> QED BY <2>3 DEF items2
<1> QED BY <1>1, ScanFields DEF TypeOK

LEMMA NextType ==
    ASSUME crimes \in Table, NEW rows \in SUBSET Present(crimes), NEW page, NextIsRow(page, rows)
    PROVE  page.next \in Cursor \cup {None}
BY KeyType DEF NextIsRow

\* The loader's lines cannot use up more ids than there are.
LEMMA IdsSuffice ==
    ASSUME TypeOK, IdsLeft
    PROVE  /\ Cardinality(Sources) \in Nat /\ MaxLines * loads \in Nat
           /\ lastId + Len(loader.batch) <= MaxId
<1>1. Cardinality(Sources) \in Nat
  BY SourcesAssumption, FS_CardinalityType
<1>2. /\ MaxLines * loads \in Nat /\ MaxLines * MaxLoads \in Nat
      /\ MaxLines * loads <= MaxLines * MaxLoads
  BY LoaderAssumption, SomeProducts DEF TypeOK
<1>3. Len(loader.file) \in Nat /\ Len(loader.batch) \in Nat /\ MaxLines \in Nat
  BY LoaderAssumption, LoaderFields DEF TypeOK
<1>4. lastId \in Int
  BY MaxIdType DEF TypeOK
<1>5. MaxId = Cardinality(Sources) + MaxLines * MaxLoads
  BY DEF MaxId
<1>6. lastId + Len(loader.batch) <= Cardinality(Sources) + MaxLines * loads
  <2> DEFINE used == MaxLines * loads
             lines == Len(loader.file)
             batch == Len(loader.batch)
             size == Cardinality(Sources)
  <2>1. /\ lines <= MaxLines
        /\ lastId + batch + (IF loader.at = "idle" THEN 0 ELSE MaxLines - lines) <= size + used
    BY DEF IdsLeft
  <2>2. used \in Int /\ lines \in Int /\ batch \in Int /\ size \in Int
    BY <1>1, <1>2, <1>3
  <2> HIDE DEF used, lines, batch, size
  <2>3. lastId + batch <= size + used
    BY <1>3, <1>4, <2>1, <2>2
  <2> QED BY <2>3 DEF used, batch, size
<1> DEFINE used == MaxLines * loads
           most == MaxLines * MaxLoads
           sum == lastId + Len(loader.batch)
           size == Cardinality(Sources)
<1>7. used \in Int /\ most \in Int /\ sum \in Int /\ size \in Int /\ sum <= size + used /\ used <= most
  BY <1>1, <1>2, <1>3, <1>4, <1>6
<1> HIDE DEF used, most, sum, size
<1>8. sum <= size + most
  BY <1>7
<1> QED BY <1>1, <1>2, <1>5, <1>8 DEF most, sum, size

LEMMA GetNearbyTypeOK == ASSUME TypeOK, TablesInv, GetNearby PROVE TypeOK'
<1>1. PICK limit \in Limits :
        /\ isValidLimit(EffectiveLimit(limit))
        /\ scan' = [scan EXCEPT !.at = IF Page(scan.cursor, EffectiveLimit(limit)).next = None
                                       THEN "done" ELSE "paging",
                                !.cursor = Page(scan.cursor, EffectiveLimit(limit)).next,
                                !.got = @ \o Page(scan.cursor, EffectiveLimit(limit)).items]
  BY DEF GetNearby
<1> DEFINE page == Page(scan.cursor, EffectiveLimit(limit))
           rows == Beyond(scan.cursor, crimes)
<1>2. page.items \in Items(rows) /\ NextIsRow(page, rows)
  BY <1>1, LimitType, PageContinues DEF TypeOK, TablesInv, Numbered
<1>3. rows \in SUBSET Present(crimes) /\ rows \in SUBSET Sources
  BY BeyondPresent DEF Present
<1> HIDE DEF page, rows
<1>4. scan.got \o page.items \in Seq([source: Sources, key: Cursor])
  BY <1>2, <1>3, GotType
<1>5. page.next \in Cursor \cup {None}
  BY <1>2, <1>3, NextType DEF TypeOK
<1>6. scan' = [at |-> IF page.next = None THEN "done" ELSE "paging", cursor |-> page.next,
               got |-> scan.got \o page.items, changed |-> scan.changed]
  BY <1>1, ScanFields DEF TypeOK, page
<1>7. scan' \in Scan
  BY <1>4, <1>5, <1>6, ScanFields DEF TypeOK, Scan
<1> QED BY <1>7 DEF TypeOK, GetNearby

LEMMA StartLoadTypeOK == ASSUME TypeOK, StartLoad PROVE TypeOK'
<1>1. loader' = [at |-> "reading", batch |-> <<>>, table |-> crimes, file |-> <<>>]
  BY DEF StartLoad, Idle
<1>2. <<>> \in Seq(Line)
  OBVIOUS
<1>3. loader' \in Loader
  BY <1>1, <1>2 DEF TypeOK, Loader
<1> QED BY <1>3, LoaderAssumption DEF TypeOK, StartLoad

LEMMA ReadLineTypeOK == ASSUME TypeOK, ReadLine PROVE TypeOK'
<1>1. PICK line \in Line : loader' = [loader EXCEPT !.batch = Put(@, line), !.file = Append(@, line)]
  BY DEF ReadLine
<1>2. Put(loader.batch, line) \in Seq(Line) /\ Append(loader.file, line) \in Seq(Line)
  BY PutType, LoaderFields DEF TypeOK
<1>3. loader' \in Loader
  BY <1>1, <1>2 DEF TypeOK, Loader
<1> QED BY <1>3 DEF TypeOK, ReadLine

LEMMA FlushTypeOK == ASSUME TypeOK, LoaderInv, Flush PROVE TypeOK'
<1>1. PICK next \in {"reading", "commit"} :
        loader' = [loader EXCEPT !.at = next, !.table = Upsert(loader.batch), !.batch = <<>>]
  BY DEF Flush
<1>2. /\ lastId \in Nat /\ Len(loader.batch) \in Nat /\ lastId + Len(loader.batch) <= MaxId
      /\ loader.batch \in Seq(Line) /\ loader.table \in Table
  BY IdsSuffice, LoaderFields DEF TypeOK, LoaderInv
<1>3. Upsert(loader.batch) \in Table
  BY <1>2, UpsertType DEF LoaderInv
<1>4. <<>> \in Seq(Line)
  OBVIOUS
<1>5. loader' \in Loader
  BY <1>1, <1>3, <1>4 DEF TypeOK, Loader
<1>6. lastId' \in 0..MaxId
  BY <1>2, MaxIdType DEF Flush
<1> QED BY <1>5, <1>6 DEF TypeOK, Flush

LEMMA CommitTypeOK == ASSUME TypeOK, Commit PROVE TypeOK'
<1>1. crimes' \in Table
  BY LoaderFields DEF TypeOK, Commit
<1>2. loader' \in Loader
  BY <1>1, IdleType DEF Commit
<1>3. scan' \in Scan
  BY DEF TypeOK, Commit, Scan
<1> QED BY <1>1, <1>2, <1>3 DEF TypeOK, Commit

LEMMA InitTypeOK == Init => TypeOK
<1> SUFFICES ASSUME Init PROVE TypeOK
  OBVIOUS
<1>1. Cardinality(Sources) \in Nat /\ MaxLines * MaxLoads \in Nat
  BY SourcesAssumption, FS_CardinalityType, LoaderAssumption
<1>2. Cardinality(Sources) <= MaxId
  <2> DEFINE size == Cardinality(Sources)
             most == MaxLines * MaxLoads
  <2>1. size \in Nat /\ most \in Nat /\ MaxId = size + most
    BY <1>1 DEF MaxId
  <2> HIDE DEF size, most
  <2>2. size <= MaxId
    BY <2>1
  <2> QED BY <2>2 DEF size
<1>3. 1..Cardinality(Sources) \subseteq 1..MaxId
  BY <1>1, <1>2, MaxIdType
<1>4. crimes \in [Sources -> [id: 1..Cardinality(Sources), distance: Distances] \cup {None}]
  BY DEF Init
<1>5. crimes \in Table
  BY <1>3, <1>4 DEF Table, Row
<1>6. loader \in Loader /\ scan \in Scan
  BY <1>5, IdleType, NewScanType DEF Init
<1> QED BY <1>1, <1>2, <1>5, <1>6, MaxIdType, LoaderAssumption DEF Init, TypeOK

LEMMA NextTypeOK == ASSUME TypeOK, TablesInv, LoaderInv, Next PROVE TypeOK'
<1>1. CASE GetNearby
  BY <1>1, GetNearbyTypeOK
<1>2. CASE Rescan
  BY <1>2, NewScanType DEF TypeOK, Rescan
<1>3. CASE StartLoad
  BY <1>3, StartLoadTypeOK
<1>4. CASE ReadLine
  BY <1>4, ReadLineTypeOK
<1>5. CASE Flush
  BY <1>5, FlushTypeOK
<1>6. CASE Commit
  BY <1>6, CommitTypeOK
<1>7. CASE Abort
  BY <1>7, IdleType DEF TypeOK, Abort
<1> QED BY <1>1, <1>2, <1>3, <1>4, <1>5, <1>6, <1>7 DEF Next

-----------------------------------------------------------------------------
(* The tables *)

\* An upsert gives new rows ids that no row has.
LEMMA UpsertNumbered ==
    ASSUME NEW batch \in Seq(Line), OncePer(batch), loader.table \in Table, lastId \in Nat,
           Numbered(loader.table), NEW s \in Present(Upsert(batch))
    PROVE  \/ s \in Present(loader.table) /\ Upsert(batch)[s].id = loader.table[s].id
                                          /\ loader.table[s].id \in 1..lastId
           \/ \E i \in DOMAIN batch : batch[i].source = s /\ Upsert(batch)[s].id = lastId + i
<1>1. s \in Sources /\ Upsert(batch)[s] # None
  BY DEF Present
<1>2. s \in Present(loader.table) => loader.table[s].id \in 1..lastId
  <2>1. s \in Present(loader.table) => loader.table[s].id \in Nat \ {0}
    BY MaxIdType DEF Table, Row, Present
  <2> QED BY <2>1 DEF Numbered
<1>3. CASE LinesOf(batch, s) = {}
  <2>1. Upsert(batch)[s] = loader.table[s]
    BY <1>1, <1>3, UpsertOther
  <2> QED BY <1>1, <1>2, <2>1 DEF Present
<1>4. CASE LinesOf(batch, s) # {}
  <2>1. PICK i \in DOMAIN batch : batch[i].source = s
    BY <1>4 DEF LinesOf
  <2>2. Upsert(batch)[s] = [id |-> IF loader.table[s] = None THEN lastId + i ELSE loader.table[s].id,
                            distance |-> batch[i].distance]
    BY <2>1, UpsertRow
  <2> QED BY <1>1, <1>2, <2>1, <2>2 DEF Present
<1> QED BY <1>3, <1>4

LEMMA UpsertKeepsRows ==
    ASSUME NEW batch \in Seq(Line), OncePer(batch), loader.table \in Table,
           NEW s \in Present(loader.table)
    PROVE  s \in Present(Upsert(batch)) /\ Upsert(batch)[s].id = loader.table[s].id
<1>1. s \in Sources /\ loader.table[s] # None
  BY DEF Present
<1>2. CASE LinesOf(batch, s) = {}
  BY <1>1, <1>2, UpsertOther DEF Present
<1>3. CASE LinesOf(batch, s) # {}
  <2>1. PICK i \in DOMAIN batch : batch[i].source = s
    BY <1>3 DEF LinesOf
  <2>2. Upsert(batch)[s] = [id |-> loader.table[s].id, distance |-> batch[i].distance]
    BY <1>1, <2>1, UpsertRow
  <2>3. Upsert(batch)[s] \in Row
    BY <1>1, <2>1, <2>2, LineFields DEF Table, Row
  <2> QED BY <1>1, <2>2, <2>3, RowIsNotNone DEF Present
<1> QED BY <1>2, <1>3

LEMMA UpsertDistinct ==
    ASSUME NEW batch \in Seq(Line), OncePer(batch), loader.table \in Table, lastId \in Nat,
           Numbered(loader.table)
    PROVE  /\ Distinct(Upsert(batch))
           /\ \A s \in Present(Upsert(batch)) : Upsert(batch)[s].id <= lastId + Len(batch)
<1> DEFINE new == Upsert(batch)
           old == loader.table
<1>1. ASSUME NEW s \in Present(new)
      PROVE  \/ s \in Present(old) /\ new[s].id = old[s].id /\ old[s].id \in 1..lastId
             \/ \E i \in DOMAIN batch : batch[i].source = s /\ new[s].id = lastId + i
  BY UpsertNumbered
<1>2. \A s, u \in Present(old) : old[s].id = old[u].id => s = u
  BY DEF Numbered, Distinct
<1> HIDE DEF new, old
<1>3. DOMAIN batch = 1..Len(batch) /\ Len(batch) \in Nat
  OBVIOUS
<1>4. ASSUME NEW s \in Present(new), NEW u \in Present(new), new[s].id = new[u].id PROVE s = u
  <2> DEFINE Old(v) == v \in Present(old) /\ new[v].id = old[v].id /\ old[v].id \in 1..lastId
             New(v) == \E i \in DOMAIN batch : batch[i].source = v /\ new[v].id = lastId + i
  <2>1. (Old(s) \/ New(s)) /\ (Old(u) \/ New(u))
    BY <1>1
  <2>2. CASE Old(s) /\ Old(u)
    BY <1>2, <1>4, <2>2
  <2>3. CASE New(s) /\ New(u)
    <3>1. PICK i \in DOMAIN batch : batch[i].source = s /\ new[s].id = lastId + i
      BY <2>3
    <3>2. PICK j \in DOMAIN batch : batch[j].source = u /\ new[u].id = lastId + j
      BY <2>3
    <3>3. lastId + i = lastId + j
      BY <1>4, <3>1, <3>2
    <3>4. i \in Int /\ j \in Int
      BY <1>3
    <3>5. i = j
      BY <3>3, <3>4
    <3> QED BY <3>1, <3>2, <3>5
  <2>4. \A v \in {s, u} : Old(v) => new[v].id \in Int /\ new[v].id <= lastId
    OBVIOUS
  <2>5. \A v \in {s, u} : New(v) => ~(new[v].id <= lastId)
    BY <1>3
  <2> HIDE DEF Old, New
  <2> QED BY <1>4, <2>1, <2>2, <2>3, <2>4, <2>5
<1>5. ASSUME NEW s \in Present(new) PROVE new[s].id <= lastId + Len(batch)
  BY <1>1, <1>3
<1> QED BY <1>4, <1>5 DEF new, Distinct

LEMMA TablesNext == ASSUME TypeOK, TablesInv, LoaderInv, Next PROVE TablesInv'
<1>1. CASE GetNearby \/ Rescan
  BY <1>1 DEF TablesInv, Numbered, Distinct, Extends, Present, GetNearby, Rescan
<1>2. CASE StartLoad
  <2>1. loader'.table = crimes /\ crimes' = crimes /\ lastId' = lastId
    BY <1>2 DEF StartLoad, Idle
  <2> QED BY <2>1 DEF TablesInv, Numbered, Distinct, Extends, Present
<1>3. CASE ReadLine
  <2>1. loader'.table = loader.table /\ crimes' = crimes /\ lastId' = lastId
    BY <1>3 DEF ReadLine, TypeOK, Loader
  <2> QED BY <2>1 DEF TablesInv, Numbered, Distinct, Extends, Present
<1>4. CASE Flush
  <2>1. /\ loader'.table = Upsert(loader.batch) /\ crimes' = crimes
        /\ lastId' = lastId + Len(loader.batch)
    BY <1>4 DEF Flush, TypeOK, Loader
  <2>2. /\ loader.batch \in Seq(Line) /\ OncePer(loader.batch) /\ loader.table \in Table
        /\ lastId \in Nat /\ Len(loader.batch) \in Nat
    BY LoaderFields, MaxIdType DEF TypeOK, LoaderInv
  <2>3. /\ Distinct(Upsert(loader.batch))
        /\ \A s \in Present(Upsert(loader.batch)) :
             Upsert(loader.batch)[s].id <= lastId + Len(loader.batch)
    BY <2>2, UpsertDistinct DEF TablesInv
  <2>4. Numbered(loader.table)'
    BY <2>1, <2>3 DEF Numbered, Distinct, Present
  <2>5. ASSUME NEW s \in Present(crimes) PROVE crimes[s].id <= lastId + Len(loader.batch)
    <3>1. crimes[s].id \in Int /\ crimes[s].id <= lastId
      BY MaxIdType DEF TypeOK, Table, Row, Present, TablesInv, Numbered
    <3> QED BY <2>2, <3>1
  <2>6. Numbered(crimes)'
    BY <2>1, <2>5 DEF TablesInv, Numbered, Distinct, Present
  <2>7. ASSUME NEW s \in Present(crimes)
        PROVE  s \in Present(Upsert(loader.batch)) /\ Upsert(loader.batch)[s].id = crimes[s].id
    <3>1. s \in Present(loader.table) /\ loader.table[s].id = crimes[s].id
      BY DEF TablesInv, Extends
    <3> QED BY <2>2, <3>1, UpsertKeepsRows
  <2>8. Extends(loader.table, crimes)'
    BY <2>1, <2>7 DEF Extends, Present
  <2> QED BY <2>4, <2>6, <2>8 DEF TablesInv
<1>5. CASE Commit
  <2>1. loader'.table = loader.table /\ crimes' = loader.table /\ lastId' = lastId
    BY <1>5 DEF Commit, Idle
  <2> QED BY <2>1 DEF TablesInv, Numbered, Distinct, Extends, Present
<1>6. CASE Abort
  <2>1. loader'.table = crimes /\ crimes' = crimes /\ lastId' = lastId
    BY <1>6 DEF Abort, Idle
  <2> QED BY <2>1 DEF TablesInv, Numbered, Distinct, Extends, Present
<1> QED BY <1>1, <1>2, <1>3, <1>4, <1>5, <1>6 DEF Next

-----------------------------------------------------------------------------
(* The loader *)

LEMMA LinesAppended ==
    ASSUME NEW file \in Seq(Line), NEW line \in Line
    PROVE  /\ DOMAIN Append(file, line) = DOMAIN file \cup {Len(file) + 1}
           /\ Append(file, line)[Len(file) + 1] = line
           /\ \A i \in DOMAIN file : Append(file, line)[i] = file[i] /\ i < Len(file) + 1
           /\ Len(file) + 1 \notin DOMAIN file
           /\ \A s : LinesOf(file, s) \subseteq LinesOf(Append(file, line), s)
<1>1. /\ DOMAIN Append(file, line) = DOMAIN file \cup {Len(file) + 1}
      /\ Append(file, line)[Len(file) + 1] = line
      /\ \A i \in DOMAIN file : Append(file, line)[i] = file[i] /\ i < Len(file) + 1
      /\ Len(file) + 1 \notin DOMAIN file
  OBVIOUS
<1> QED BY <1>1 DEF LinesOf

LEMMA FromLongerFile ==
    ASSUME NEW file \in Seq(Line), NEW batch \in Seq(Line), NEW line \in Line, OncePer(batch),
           FromFile(batch, file)
    PROVE  FromFile(Put(batch, line), Append(file, line))
<1> DEFINE next == Put(batch, line)
           longer == Append(file, line)
<1> SUFFICES ASSUME NEW i \in DOMAIN next PROVE LinesOf(longer, next[i].source) # {}
  BY DEF FromFile
<1>1. \/ next[i] = line
      \/ i \in DOMAIN batch /\ next[i] = batch[i]
  BY PutPuts
<1>2. CASE next[i] = line
  <2>1. Len(file) + 1 \in DOMAIN longer /\ longer[Len(file) + 1] = line
    BY LinesAppended
  <2> HIDE DEF longer, next
  <2> QED BY <1>2, <2>1 DEF LinesOf
<1>3. CASE i \in DOMAIN batch /\ next[i] = batch[i]
  BY <1>3, LinesAppended DEF FromFile
<1> QED BY <1>1, <1>2, <1>3

\* A line takes the place of those before it.
LEMMA LastStandsRead ==
    ASSUME NEW file \in Seq(Line), NEW batch \in Seq(Line), NEW line \in Line, NEW table,
           OncePer(batch), LastStands(file, batch, table)
    PROVE  LastStands(Append(file, line), Put(batch, line), table)
<1> DEFINE longer == Append(file, line)
           next == Put(batch, line)
           end == Len(file) + 1
<1>1. /\ DOMAIN longer = DOMAIN file \cup {end} /\ longer[end] = line /\ end \notin DOMAIN file
      /\ \A i \in DOMAIN file : longer[i] = file[i] /\ i < end
      /\ \A s : LinesOf(file, s) \subseteq LinesOf(longer, s)
  BY LinesAppended
<1>2. /\ \E i \in DOMAIN next : next[i] = line
      /\ \A i \in DOMAIN next :
           next[i] = line \/ (i \in DOMAIN batch /\ next[i] = batch[i] /\ batch[i].source # line.source)
      /\ \A i \in DOMAIN batch :
           batch[i].source # line.source => i \in DOMAIN next /\ next[i] = batch[i]
  BY PutPuts
<1>3. end \in Nat /\ DOMAIN file \subseteq Nat
  OBVIOUS
<1> HIDE DEF longer, next, end
<1> SUFFICES ASSUME NEW n \in DOMAIN longer, IsLast(longer, n), NEW s, s = longer[n].source
             PROVE  /\ \A i \in LinesOf(next, s) : next[i].distance = longer[n].distance
                    /\ LinesOf(next, s) = {} =>
                         s \in Present(table) /\ table[s].distance = longer[n].distance
  BY DEF LastStands, longer, next
<1>4. CASE n = end
  BY <1>1, <1>2, <1>4 DEF LinesOf
<1>5. CASE n # end
  <2>1. n \in DOMAIN file /\ longer[n] = file[n] /\ n < end
    BY <1>1, <1>5
  <2>2. s # line.source
    <3>1. SUFFICES ASSUME s = line.source PROVE end <= n
      BY <1>3, <2>1
    <3> QED BY <1>1, <3>1 DEF IsLast, LinesOf
  <2>3. IsLast(file, n)
    BY <1>1, <2>1 DEF IsLast
  <2>4. /\ \A i \in LinesOf(batch, s) : batch[i].distance = file[n].distance
        /\ LinesOf(batch, s) = {} => s \in Present(table) /\ table[s].distance = file[n].distance
    BY <2>1, <2>3 DEF LastStands
  <2>5. ASSUME NEW i \in LinesOf(next, s) PROVE i \in LinesOf(batch, s) /\ next[i] = batch[i]
    BY <1>2, <2>2, <2>5 DEF LinesOf
  <2>6. LinesOf(batch, s) \subseteq LinesOf(next, s)
    BY <1>2, <2>2 DEF LinesOf
  <2> QED BY <2>1, <2>4, <2>5, <2>6
<1> QED BY <1>4, <1>5

\* What the batch has is what the table then has.
LEMMA LastStandsFlushed ==
    ASSUME TypeOK, IdsLeft, OncePer(loader.batch),
           LastStands(loader.file, loader.batch, loader.table)
    PROVE  LastStands(loader.file, <<>>, Upsert(loader.batch))
<1> DEFINE file == loader.file
           batch == loader.batch
           new == Upsert(batch)
<1>1. /\ batch \in Seq(Line) /\ file \in Seq(Line) /\ loader.table \in Table /\ lastId \in Nat
      /\ lastId + Len(batch) <= MaxId
  BY IdsSuffice, LoaderFields, MaxIdType DEF TypeOK
<1> HIDE DEF file, batch
<1> SUFFICES ASSUME NEW n \in DOMAIN file, IsLast(file, n), NEW s, s = file[n].source
             PROVE  s \in Present(new) /\ new[s].distance = file[n].distance
  BY DEF LastStands, LinesOf, file, batch
<1>2. /\ \A i \in LinesOf(batch, s) : batch[i].distance = file[n].distance
      /\ LinesOf(batch, s) = {} =>
           s \in Present(loader.table) /\ loader.table[s].distance = file[n].distance
  BY DEF LastStands, file, batch
<1>3. s \in Sources
  BY <1>1, LineFields
<1>4. CASE LinesOf(batch, s) = {}
  BY <1>1, <1>2, <1>3, <1>4, UpsertOther DEF Present
<1>5. CASE LinesOf(batch, s) # {}
  <2>1. PICK i \in DOMAIN batch : batch[i].source = s /\ i \in LinesOf(batch, s)
    BY <1>5 DEF LinesOf
  <2>2. OncePer(batch)
    BY DEF batch
  <2>3. new[s] \in Row
    BY <1>1, <2>1, <2>2, UpsertRowType
  <2>4. new[s] = [id |-> IF loader.table[s] = None THEN lastId + i ELSE loader.table[s].id,
                  distance |-> batch[i].distance]
    BY <1>1, <2>1, <2>2, UpsertRow
  <2> QED BY <1>2, <1>3, <2>1, <2>3, <2>4, RowIsNotNone DEF Present
<1> QED BY <1>4, <1>5

LEMMA StartLoadLoader == ASSUME TypeOK, LoaderInv, StartLoad PROVE LoaderInv'
<1>1. /\ loader'.at = "reading" /\ loader'.batch = <<>> /\ loader'.table = crimes
      /\ loader'.file = <<>> /\ crimes' = crimes /\ lastId' = lastId /\ loads' = loads + 1
      /\ loader.at = "idle"
  BY DEF StartLoad, Idle
<1>2. \A s : LinesOf(<<>>, s) = {}
  BY DEF LinesOf
<1>3. IdsLeft'
  <2>1. Len(loader.batch) = 0
    BY <1>1 DEF LoaderInv, Idle
  <2>2. lastId <= Cardinality(Sources) + MaxLines * loads /\ lastId \in Int
    BY <1>1, <2>1, MaxIdType DEF LoaderInv, IdsLeft, TypeOK
  <2>3. /\ MaxLines * (loads + 1) = MaxLines * loads + MaxLines
        /\ MaxLines * loads \in Nat /\ MaxLines \in Nat
    BY SomeProducts, LoaderAssumption DEF TypeOK
  <2>4. Cardinality(Sources) \in Nat
    BY SourcesAssumption, FS_CardinalityType
  <2> QED BY <1>1, <2>2, <2>3, <2>4 DEF IdsLeft
<1> QED BY <1>1, <1>2, <1>3 DEF LoaderInv, OncePer, FromFile, LastStands

LEMMA ReadLineLoader == ASSUME TypeOK, LoaderInv, ReadLine PROVE LoaderInv'
<1>1. PICK line \in Line : loader' = [loader EXCEPT !.batch = Put(@, line), !.file = Append(@, line)]
  BY DEF ReadLine
<1> DEFINE batch == loader.batch
           file == loader.file
<1>2. /\ loader'.at = "reading" /\ loader'.batch = Put(batch, line) /\ loader'.table = loader.table
      /\ loader'.file = Append(file, line) /\ crimes' = crimes /\ lastId' = lastId /\ loads' = loads
      /\ loader.at = "reading" /\ Len(file) < MaxLines
  BY <1>1 DEF ReadLine, TypeOK, Loader
<1>3. /\ batch \in Seq(Line) /\ file \in Seq(Line) /\ OncePer(batch) /\ FromFile(batch, file)
      /\ LastStands(file, batch, loader.table)
  BY LoaderFields DEF TypeOK, LoaderInv
<1>4. \A s \in Sources : LinesOf(file, s) = {} => loader.table[s] = crimes[s]
  BY DEF LoaderInv
<1>5. IdsLeft'
  <2>1. /\ Len(Put(batch, line)) \in {Len(batch), Len(batch) + 1} /\ Len(batch) \in Nat
        /\ Len(Append(file, line)) = Len(file) + 1 /\ Len(file) \in Nat
    <3> HIDE DEF batch, file
    <3>1. Len(Put(batch, line)) \in {Len(batch), Len(batch) + 1} /\ Len(batch) \in Nat
      BY <1>3, PutType
    <3>2. Len(Append(file, line)) = Len(file) + 1 /\ Len(file) \in Nat
      BY <1>3
    <3> QED BY <3>1, <3>2
  <2>2. lastId + Len(batch) + (MaxLines - Len(file)) <= Cardinality(Sources) + MaxLines * loads
    BY <1>2 DEF LoaderInv, IdsLeft
  <2>3. /\ lastId \in Int /\ MaxLines \in Nat
        /\ Cardinality(Sources) \in Nat /\ MaxLines * loads \in Nat
    BY MaxIdType, LoaderAssumption, IdsSuffice DEF TypeOK, LoaderInv
  <2> DEFINE most == Cardinality(Sources) + MaxLines * loads
  <2>4. most \in Int
    BY <2>3
  <2> HIDE DEF most, batch, file
  <2>5. lastId + Len(Put(batch, line)) + (MaxLines - Len(Append(file, line))) <= most
    BY <2>1, <2>2, <2>3, <2>4 DEF most
  <2>6. Len(Append(file, line)) <= MaxLines
    BY <1>2, <2>1, <2>3
  <2> QED BY <1>2, <2>5, <2>6 DEF IdsLeft, most
<1>6. OncePer(Put(batch, line)) /\ FromFile(Put(batch, line), Append(file, line))
  BY <1>3, PutPuts, FromLongerFile
<1>7. LastStands(Append(file, line), Put(batch, line), loader.table)
  BY <1>3, LastStandsRead
<1>8. \A s \in Sources : LinesOf(Append(file, line), s) = {} => loader.table[s] = crimes[s]
  BY <1>3, <1>4, LinesAppended
<1> HIDE DEF batch, file
<1> QED BY <1>2, <1>5, <1>6, <1>7, <1>8 DEF LoaderInv

LEMMA FlushLoader == ASSUME TypeOK, LoaderInv, Flush PROVE LoaderInv'
<1>1. /\ loader'.at \in {"reading", "commit"} /\ loader'.batch = <<>>
      /\ loader'.table = Upsert(loader.batch) /\ loader'.file = loader.file /\ crimes' = crimes
      /\ lastId' = lastId + Len(loader.batch) /\ loads' = loads /\ loader.at = "reading"
  BY DEF Flush, TypeOK, Loader
<1>2. \A s : LinesOf(<<>>, s) = {}
  BY DEF LinesOf
<1>3. IdsLeft'
  <2>1. lastId + Len(loader.batch) \in Int /\ Len(<<>>) = 0
    BY LoaderFields, MaxIdType DEF TypeOK
  <2> QED BY <1>1, <2>1 DEF LoaderInv, IdsLeft
<1>4. LastStands(loader.file, <<>>, Upsert(loader.batch))
  BY LastStandsFlushed DEF LoaderInv
<1>5. ASSUME NEW s \in Sources, LinesOf(loader.file, s) = {}
      PROVE  Upsert(loader.batch)[s] = crimes[s]
  <2>1. LinesOf(loader.batch, s) = {}
    BY <1>5 DEF LoaderInv, FromFile, LinesOf
  <2> QED BY <1>5, <2>1, UpsertOther, LoaderFields DEF TypeOK, LoaderInv
<1> QED BY <1>1, <1>2, <1>3, <1>4, <1>5 DEF LoaderInv, OncePer, FromFile

LEMMA AtRest ==
    ASSUME TypeOK, LoaderInv, loader.at # "idle", loader' = Idle(crimes'), lastId' = lastId,
           loads' = loads
    PROVE  LoaderInv'
<1>1. /\ loader'.at = "idle" /\ loader'.batch = <<>> /\ loader'.table = crimes'
      /\ loader'.file = <<>>
  BY DEF Idle
<1>2. \A s : LinesOf(<<>>, s) = {}
  BY DEF LinesOf
<1>3. IdsLeft'
  <2> DEFINE lines == Len(loader.file)
             batch == Len(loader.batch)
             most == Cardinality(Sources) + MaxLines * loads
  <2>1. lines <= MaxLines /\ lastId + batch + (MaxLines - lines) <= most
    BY DEF LoaderInv, IdsLeft
  <2>2. lines \in Nat /\ batch \in Nat /\ lastId \in Int /\ MaxLines \in Nat
    BY MaxIdType, LoaderAssumption, LoaderFields DEF TypeOK
  <2>3. most \in Int
    BY IdsSuffice DEF TypeOK, LoaderInv
  <2> HIDE DEF lines, batch, most
  <2>4. lastId + 0 + 0 <= most /\ 0 <= MaxLines
    BY <2>1, <2>2, <2>3
  <2> QED BY <1>1, <2>4 DEF IdsLeft, most
<1> QED BY <1>1, <1>2, <1>3 DEF LoaderInv, OncePer, FromFile, LastStands

LEMMA LoaderNext == ASSUME TypeOK, LoaderInv, Next PROVE LoaderInv'
<1>1. CASE GetNearby \/ Rescan
  <2>1. loader' = loader /\ crimes' = crimes /\ lastId' = lastId /\ loads' = loads
    BY <1>1 DEF GetNearby, Rescan
  <2>2. IdsLeft' /\ LastStands(loader.file, loader.batch, loader.table)'
    BY <2>1 DEF LoaderInv, IdsLeft, LastStands, Present, IsLast
  <2>3. OncePer(loader.batch)' /\ FromFile(loader.batch, loader.file)'
    BY <2>1 DEF LoaderInv, OncePer, FromFile
  <2> QED BY <2>1, <2>2, <2>3 DEF LoaderInv
<1>2. CASE StartLoad
  BY <1>2, StartLoadLoader
<1>3. CASE ReadLine
  BY <1>3, ReadLineLoader
<1>4. CASE Flush
  BY <1>4, FlushLoader
<1>5. CASE Commit
  BY <1>5, AtRest DEF Commit
<1>6. CASE Abort
  BY <1>6, AtRest DEF Abort
<1> QED BY <1>1, <1>2, <1>3, <1>4, <1>5, <1>6 DEF Next

-----------------------------------------------------------------------------
(* The client *)

LEMMA BeforeAsymmetric ==
    ASSUME NEW a \in Cursor, NEW b \in Cursor, Before(a, b)
    PROVE  ~Before(b, a)
BY BeforeTransitive, BeforeIrreflexive

LEMMA BeforeAcross ==
    ASSUME NEW a \in Cursor, NEW b \in Cursor, NEW c \in Cursor, ~Before(c, a), Before(c, b)
    PROVE  Before(a, b)
BY BeforeTransitive, BeforeTotal

LEMMA GotFields ==
    ASSUME TypeOK, NEW i \in DOMAIN scan.got
    PROVE  scan.got[i].source \in Sources /\ scan.got[i].key \in Cursor
<1> DEFINE A == [source: Sources, key: Cursor]
<1>1. scan.got[i] \in A
  <2>1. scan.got \in Seq(A)
    BY ScanFields DEF TypeOK
  <2> HIDE DEF A
  <2> QED BY <2>1
<1> QED BY <1>1

LEMMA ItemFields ==
    ASSUME NEW rows, NEW items \in Items(rows), NEW j \in DOMAIN items
    PROVE  items[j].source \in rows /\ items[j].key \in Cursor
<1> DEFINE A == [source: rows, key: Cursor]
<1>1. items[j] \in A
  <2>1. items \in Seq(A)
    BY DEF Items
  <2> HIDE DEF A
  <2> QED BY <2>1
<1> QED BY <1>1

\* What the client already has comes before the page, and the page before its cursor.
LEMMA PageFollows ==
    ASSUME TypeOK, ScanInv, scan.at # "done", NEW page,
           page.items \in Items(Beyond(scan.cursor, crimes)), ItemsAreRows(page)
    PROVE  \A i \in DOMAIN scan.got, j \in DOMAIN page.items :
             Before(scan.got[i].key, page.items[j].key)
<1> SUFFICES ASSUME NEW i \in DOMAIN scan.got, NEW j \in DOMAIN page.items
             PROVE  Before(scan.got[i].key, page.items[j].key)
  OBVIOUS
<1>1. scan.at # "new"
  BY DEF ScanInv, NewScan
<1>2. scan.cursor # None /\ scan.cursor \in Cursor
  BY <1>1, ScanFields DEF TypeOK, ScanInv
<1>3. page.items[j].source \in Beyond(scan.cursor, crimes) /\ page.items[j].key \in Cursor
  BY ItemFields
<1>4. Before(scan.cursor, page.items[j].key)
  BY <1>2, <1>3 DEF ItemsAreRows, Beyond
<1>5. ~Before(scan.cursor, scan.got[i].key) /\ scan.got[i].key \in Cursor
  BY <1>2, GotFields DEF ScanInv
<1> QED BY <1>2, <1>3, <1>4, <1>5, BeforeAcross

LEMMA PageBeforeNext ==
    ASSUME NEW rows, NEW page, page.items \in Items(rows), ItemsAreRows(page),
           ItemsUpToNext(page, rows), page.next # None
    PROVE  \A j \in DOMAIN page.items : ~Before(page.next, page.items[j].key)
<1> SUFFICES ASSUME NEW j \in DOMAIN page.items PROVE ~Before(page.next, page.items[j].key)
  OBVIOUS
<1>1. page.items[j].source \in rows
  BY ItemFields
<1>2. ~Before(page.next, Key(crimes[page.items[j].source]))
  BY <1>1 DEF ItemsUpToNext
<1> QED BY <1>2 DEF ItemsAreRows

LEMMA Joined ==
    ASSUME NEW A, NEW B, NEW g \in Seq(A), NEW h \in Seq(B)
    PROVE  /\ \A i \in DOMAIN g : i \in DOMAIN (g \o h) /\ (g \o h)[i] = g[i]
           /\ \A j \in DOMAIN h : Len(g) + j \in DOMAIN (g \o h) /\ (g \o h)[Len(g) + j] = h[j]
           /\ \A k \in DOMAIN (g \o h) :
                k \in DOMAIN g \/ \E j \in DOMAIN h : k = Len(g) + j
<1>1. /\ DOMAIN (g \o h) = 1..(Len(g) + Len(h)) /\ Len(g) \in Nat /\ Len(h) \in Nat
      /\ DOMAIN g = 1..Len(g) /\ DOMAIN h = 1..Len(h)
  OBVIOUS
<1>2. \A k \in DOMAIN (g \o h) :
        (g \o h)[k] = IF k <= Len(g) THEN g[k] ELSE h[k - Len(g)]
  OBVIOUS
<1>3. ASSUME NEW i \in DOMAIN g PROVE i \in DOMAIN (g \o h) /\ (g \o h)[i] = g[i]
  BY <1>1, <1>2
<1>4. ASSUME NEW j \in DOMAIN h
      PROVE  Len(g) + j \in DOMAIN (g \o h) /\ (g \o h)[Len(g) + j] = h[j]
  <2>1. Len(g) + j \in DOMAIN (g \o h) /\ ~(Len(g) + j <= Len(g)) /\ Len(g) + j - Len(g) = j
    BY <1>1
  <2> QED BY <1>2, <2>1
<1>5. ASSUME NEW k \in DOMAIN (g \o h)
      PROVE  k \in DOMAIN g \/ \E j \in DOMAIN h : k = Len(g) + j
  <2>1. k \in DOMAIN g \/ (k - Len(g) \in DOMAIN h /\ k = Len(g) + (k - Len(g)))
    BY <1>1
  <2> QED BY <2>1
<1> QED BY <1>3, <1>4, <1>5

LEMMA GetNearbyScan == ASSUME TypeOK, TablesInv, ScanInv, GetNearby PROVE ScanInv'
<1>1. PICK limit \in Limits :
        /\ isValidLimit(EffectiveLimit(limit))
        /\ scan' = [scan EXCEPT !.at = IF Page(scan.cursor, EffectiveLimit(limit)).next = None
                                       THEN "done" ELSE "paging",
                                !.cursor = Page(scan.cursor, EffectiveLimit(limit)).next,
                                !.got = @ \o Page(scan.cursor, EffectiveLimit(limit)).items]
  BY DEF GetNearby
<1> DEFINE page == Page(scan.cursor, EffectiveLimit(limit))
           rows == Beyond(scan.cursor, crimes)
           got == scan.got
           items == page.items
<1>2. /\ items \in Items(rows) /\ ItemsAreRows(page) /\ ItemsInOrder(page)
      /\ NextIsRow(page, rows) /\ ItemsUpToNext(page, rows)
  BY <1>1, LimitType, PageContinues DEF TypeOK, TablesInv, Numbered
<1>3. rows \in SUBSET Present(crimes)
  BY BeyondPresent
<1>4. scan' = [at |-> IF page.next = None THEN "done" ELSE "paging", cursor |-> page.next,
               got |-> got \o items, changed |-> scan.changed]
  BY <1>1, ScanFields DEF TypeOK
<1>5. scan.at # "done" /\ crimes' = crimes
  BY DEF GetNearby
<1>6. \A i \in DOMAIN got, j \in DOMAIN items : Before(got[i].key, items[j].key)
  BY <1>2, <1>5, PageFollows
<1>7. \A i \in DOMAIN items : items[i].source \in rows /\ items[i].key = Key(crimes[items[i].source])
  BY <1>2, ItemFields DEF ItemsAreRows
<1>8. got \in Seq([source: Sources, key: Cursor]) /\ items \in Seq([source: rows, key: Cursor])
  BY <1>2, ScanFields DEF TypeOK, Items
<1>9. page.next # None => page.next \in Cursor
  BY <1>2, <1>3, NextType DEF TypeOK
<1> HIDE DEF page, rows, got
<1>10. /\ \A i \in DOMAIN got : i \in DOMAIN (got \o items) /\ (got \o items)[i] = got[i]
       /\ \A j \in DOMAIN items :
            Len(got) + j \in DOMAIN (got \o items) /\ (got \o items)[Len(got) + j] = items[j]
       /\ \A k \in DOMAIN (got \o items) :
            k \in DOMAIN got \/ \E j \in DOMAIN items : k = Len(got) + j
  <2> HIDE DEF items
  <2> QED BY <1>8, Joined
<1> HIDE DEF items
<1>11. /\ scan'.at = IF page.next = None THEN "done" ELSE "paging"
       /\ scan'.cursor = page.next /\ scan'.got = got \o items /\ scan'.changed = scan.changed
  BY <1>4
<1>12. \A i \in DOMAIN scan'.got : scan'.cursor # None => ~Before(scan'.cursor, scan'.got[i].key)
  <2> SUFFICES ASSUME page.next # None, NEW k \in DOMAIN (got \o items)
               PROVE  ~Before(page.next, (got \o items)[k].key)
    BY <1>11
  <2>1. ASSUME NEW j \in DOMAIN items PROVE ~Before(page.next, items[j].key)
    BY <1>2, PageBeforeNext DEF items
  <2>2. ASSUME NEW i \in DOMAIN got PROVE ~Before(page.next, got[i].key)
    <3>1. page.next \in Cursor /\ got[i].key \in Cursor /\ ~Before(scan.cursor, got[i].key)
          /\ scan.cursor \in Cursor /\ scan.cursor # None
      <4>1. scan.at # "new"
        BY DEF ScanInv, NewScan, got
      <4>2. scan.cursor # None /\ scan.cursor \in Cursor
        BY <1>5, <4>1, ScanFields DEF TypeOK, ScanInv
      <4> QED BY <1>9, <4>2, GotFields DEF ScanInv, got
    <3>2. Before(scan.cursor, page.next)
      BY <1>2, <3>1 DEF NextIsRow, rows, Beyond
    <3>3. Before(got[i].key, page.next)
      BY <3>1, <3>2, BeforeAcross
    <3> QED BY <3>1, <3>3, BeforeAsymmetric
  <2> QED BY <1>10, <2>1, <2>2
<1>13. StrictlyOrdered'
  <2> SUFFICES ASSUME NEW k \in DOMAIN (got \o items), NEW m \in DOMAIN (got \o items), k < m
               PROVE  Before((got \o items)[k].key, (got \o items)[m].key)
    BY <1>11 DEF StrictlyOrdered
  <2>1. DOMAIN got = 1..Len(got) /\ Len(got) \in Nat /\ DOMAIN items = 1..Len(items)
    BY <1>8
  <2>2. CASE k \in DOMAIN got /\ m \in DOMAIN got
    <3>1. Before(got[k].key, got[m].key)
      BY <2>2 DEF ScanInv, StrictlyOrdered, got
    <3> QED BY <1>10, <2>2, <3>1
  <2>3. CASE k \in DOMAIN got /\ m \notin DOMAIN got
    BY <1>6, <1>10, <2>3
  <2>4. CASE k \notin DOMAIN got
    <3>1. PICK i \in DOMAIN items : k = Len(got) + i
      BY <1>10, <2>4
    <3>2. m \notin DOMAIN got
      BY <2>1, <3>1
    <3>3. PICK j \in DOMAIN items : m = Len(got) + j
      BY <1>10, <3>2
    <3>4. i < j
      BY <2>1, <3>1, <3>3
    <3>5. Before(items[i].key, items[j].key)
      BY <1>2, <3>4 DEF ItemsInOrder, items
    <3> QED BY <1>10, <3>1, <3>3, <3>5
  <2> QED BY <2>2, <2>3, <2>4
<1>14. SteadyKeys'
  <2> SUFFICES ASSUME NEW k \in DOMAIN (got \o items), (got \o items)[k].source \notin scan.changed
               PROVE  /\ (got \o items)[k].source \in Present(crimes)
                      /\ (got \o items)[k].key = Key(crimes[(got \o items)[k].source])
    BY <1>5, <1>11 DEF SteadyKeys, Present
  <2>1. CASE k \in DOMAIN got
    BY <1>10, <2>1 DEF ScanInv, SteadyKeys, got
  <2>2. CASE k \notin DOMAIN got
    BY <1>3, <1>7, <1>10, <2>2
  <2> QED BY <2>1, <2>2
<1>15. SteadySeen'
  <2> SUFFICES ASSUME NEW s \in Near(crimes) \ scan.changed
               PROVE  (page.next = None \/ ~Before(page.next, Key(crimes[s])))
                        <=> \E k \in DOMAIN (got \o items) : (got \o items)[k].source = s
    BY <1>5, <1>11 DEF SteadySeen, Near, Passed
  <2>1. Passed(s) <=> \E i \in DOMAIN got : got[i].source = s
    BY DEF ScanInv, SteadySeen, got
  <2>2. (\E k \in DOMAIN (got \o items) : (got \o items)[k].source = s)
          <=> ((\E i \in DOMAIN got : got[i].source = s) \/ \E j \in DOMAIN items : items[j].source = s)
    <3>1. ASSUME NEW k \in DOMAIN (got \o items), (got \o items)[k].source = s
          PROVE  (\E i \in DOMAIN got : got[i].source = s) \/ \E j \in DOMAIN items : items[j].source = s
      BY <1>10, <3>1
    <3>2. ASSUME NEW i \in DOMAIN got, got[i].source = s
          PROVE  \E k \in DOMAIN (got \o items) : (got \o items)[k].source = s
      BY <1>10, <3>2
    <3>3. ASSUME NEW j \in DOMAIN items, items[j].source = s
          PROVE  \E k \in DOMAIN (got \o items) : (got \o items)[k].source = s
      BY <1>10, <3>3
    <3> QED BY <3>1, <3>2, <3>3
  <2>3. scan.cursor = None \/ scan.cursor \in Cursor
    BY ScanFields DEF TypeOK
  <2>4. s \in rows <=> ~Passed(s)
    BY <1>5, ScanFields DEF TypeOK, ScanInv, Passed, rows, Beyond
  <2>5. CASE s \in rows
    BY <1>2, <2>1, <2>2, <2>4, <2>5 DEF ItemsUpToNext, items
  <2>6. CASE s \notin rows
    <3>1. scan.at = "paging" /\ scan.cursor # None /\ ~Before(scan.cursor, Key(crimes[s]))
      BY <1>5, <2>4, <2>6 DEF ScanInv, Passed
    <3>2. Key(crimes[s]) \in Cursor
      BY KeyType DEF TypeOK, Near, Present
    <3>3. ASSUME page.next # None PROVE ~Before(page.next, Key(crimes[s]))
      <4>1. Before(scan.cursor, page.next)
        BY <1>2, <3>1, <3>3 DEF NextIsRow, rows, Beyond
      <4> QED BY <1>9, <2>3, <3>1, <3>2, <3>3, <4>1, BeforeTransitive
    <3> QED BY <2>1, <2>2, <2>4, <2>6, <3>3
  <2> QED BY <2>5, <2>6
<1> QED BY <1>11, <1>12, <1>13, <1>14, <1>15 DEF ScanInv

\* A crime that the transaction does not move keeps its key.
LEMMA UnmovedKeepsKey ==
    ASSUME TypeOK, TablesInv, Commit, NEW s \in Sources, Place(crimes', s) = Place(crimes, s)
    PROVE  /\ s \in Present(crimes) <=> s \in Present(crimes')
           /\ s \in Near(crimes) <=> s \in Near(crimes')
           /\ s \in Present(crimes) => Key(crimes'[s]) = Key(crimes[s])
<1>1. crimes \in Table /\ crimes' = loader.table /\ loader.table \in Table
  BY LoaderFields DEF TypeOK, Commit
<1>2. \A table \in Table : table[s] # None => table[s] \in Row /\ table[s].distance # None
  BY DistanceAssumption, NoneAssumption DEF Table, Row
<1>3. crimes[s] # None <=> crimes'[s] # None
  BY <1>1, <1>2 DEF Place
<1>4. crimes[s] # None => crimes'[s].distance = crimes[s].distance /\ crimes'[s].id = crimes[s].id
  BY <1>1, <1>3 DEF Place, TablesInv, Extends, Present
<1> QED BY <1>3, <1>4 DEF Present, Near, Key

LEMMA CommitScan == ASSUME TypeOK, TablesInv, ScanInv, Commit PROVE ScanInv'
<1>1. CASE scan.at = "new"
  <2>1. scan' = scan /\ scan = NewScan
    BY <1>1 DEF Commit, ScanInv
  <2> QED BY <2>1 DEF ScanInv, NewScan, StrictlyOrdered, SteadyKeys, SteadySeen, Passed
<1>2. CASE scan.at # "new"
  <2>1. /\ scan'.at = scan.at /\ scan'.cursor = scan.cursor /\ scan'.got = scan.got
        /\ scan'.changed = scan.changed \cup {s \in Sources : Place(crimes', s) # Place(crimes, s)}
    BY <1>2 DEF TypeOK, Commit, Scan
  <2>2. \A s \in Sources : s \notin scan'.changed => s \notin scan.changed
                                                   /\ Place(crimes', s) = Place(crimes, s)
    BY <2>1
  <2>3. SteadyKeys'
    <3> SUFFICES ASSUME NEW i \in DOMAIN scan.got, NEW s, s = scan.got[i].source, s \notin scan'.changed
                 PROVE  s \in Present(crimes') /\ scan.got[i].key = Key(crimes'[s])
      BY <2>1 DEF SteadyKeys, Present
    <3>1. s \in Sources /\ s \notin scan.changed /\ Place(crimes', s) = Place(crimes, s)
      BY <2>2, GotFields
    <3>2. s \in Present(crimes) /\ scan.got[i].key = Key(crimes[s])
      BY <3>1 DEF ScanInv, SteadyKeys
    <3> QED BY <3>1, <3>2, UnmovedKeepsKey
  <2>4. SteadySeen'
    <3> SUFFICES ASSUME NEW s \in Near(crimes') \ scan'.changed
                 PROVE  Passed(s)' <=> \E i \in DOMAIN scan.got : scan.got[i].source = s
      BY <2>1 DEF SteadySeen, Near
    <3>1. s \in Sources /\ s \notin scan.changed /\ Place(crimes', s) = Place(crimes, s)
      BY <2>2 DEF Near
    <3>2. s \in Near(crimes) /\ Key(crimes'[s]) = Key(crimes[s])
      BY <3>1, UnmovedKeepsKey DEF Near, Present
    <3>3. Passed(s) <=> \E i \in DOMAIN scan.got : scan.got[i].source = s
      BY <3>1, <3>2 DEF ScanInv, SteadySeen
    <3> QED BY <2>1, <3>2, <3>3 DEF Passed
  <2>5. StrictlyOrdered'
    BY <2>1 DEF ScanInv, StrictlyOrdered
  <2> QED BY <1>2, <2>1, <2>3, <2>4, <2>5 DEF ScanInv
<1> QED BY <1>1, <1>2

LEMMA NewScanInv == ASSUME scan = NewScan PROVE ScanInv
BY DEF NewScan, ScanInv, StrictlyOrdered, SteadyKeys, SteadySeen, Passed

LEMMA ScanNext == ASSUME TypeOK, TablesInv, ScanInv, Next PROVE ScanInv'
<1>1. CASE GetNearby
  BY <1>1, GetNearbyScan
<1>2. CASE Rescan
  BY <1>2 DEF Rescan, NewScan, ScanInv, StrictlyOrdered, SteadyKeys, SteadySeen, Passed
<1>3. CASE Commit
  BY <1>3, CommitScan
<1>4. CASE StartLoad \/ ReadLine \/ Flush \/ Abort
  <2>1. UNCHANGED <<crimes, scan>>
    BY <1>4 DEF StartLoad, ReadLine, Flush, Abort
  <2> QED BY <2>1 DEF ScanInv, StrictlyOrdered, SteadyKeys, SteadySeen, Passed, Near, Present
<1> QED BY <1>1, <1>2, <1>3, <1>4 DEF Next

-----------------------------------------------------------------------------
(* The theorems *)

LEMMA InitInv == Init => Inv
<1> SUFFICES ASSUME Init PROVE Inv
  OBVIOUS
<1>1. TypeOK
  BY InitTypeOK
<1>2. /\ loader.table = crimes /\ loader.batch = <<>> /\ loader.file = <<>> /\ loader.at = "idle"
      /\ loader = Idle(crimes) /\ lastId = Cardinality(Sources) /\ loads = 0
  BY DEF Init, Idle
<1>3. ASSUME NEW s \in Present(crimes) PROVE crimes[s].id <= lastId
  <2>1. crimes[s] \in [id: 1..Cardinality(Sources), distance: Distances]
    BY DEF Init, Present
  <2>2. Cardinality(Sources) \in Nat
    BY SourcesAssumption, FS_CardinalityType
  <2> QED BY <1>2, <2>1, <2>2
<1>4. Distinct(crimes)
  BY DEF Init, Distinct, Present
<1>5. TablesInv
  BY <1>2, <1>3, <1>4 DEF TablesInv, Numbered, Extends, Present
<1>6. IdsLeft
  <2>1. Cardinality(Sources) \in Nat /\ MaxLines * loads = 0 /\ Len(<<>>) = 0 /\ MaxLines \in Nat
    BY <1>2, SourcesAssumption, FS_CardinalityType, LoaderAssumption
  <2> QED BY <1>2, <2>1 DEF IdsLeft
<1>7. LoaderInv
  <2>1. \A s : LinesOf(<<>>, s) = {}
    BY DEF LinesOf
  <2> QED BY <1>2, <1>6, <2>1 DEF LoaderInv, OncePer, FromFile, LastStands
<1>8. ScanInv
  BY NewScanInv DEF Init
<1> QED BY <1>1, <1>5, <1>7, <1>8 DEF Inv

LEMMA NextInv == Inv /\ [Next]_vars => Inv'
<1> SUFFICES ASSUME Inv, [Next]_vars PROVE Inv'
  OBVIOUS
<1>1. CASE Next
  BY <1>1, NextTypeOK, TablesNext, LoaderNext, ScanNext DEF Inv
<1>2. CASE UNCHANGED vars
  BY <1>2 DEF vars, Inv, TypeOK, TablesInv, Numbered, Distinct, Extends, LoaderInv, LastStands,
              IdsLeft, ScanInv, StrictlyOrdered, SteadyKeys, SteadySeen, Passed, Near, Present
<1> QED BY <1>1, <1>2

\* The invariant holds in every state.
LEMMA AlwaysInv == Spec => []Inv
BY InitInv, NextInv, PTL DEF Spec

\* Every state has the types of the module: no run of the loader uses up more ids than
\* its lines account for, and no page leaves the rows that the query may see.
THEOREM TypeCorrect == Spec => []TypeOK
<1>1. Inv => TypeOK
  BY DEF Inv
<1> QED BY <1>1, AlwaysInv, PTL

\* What the client receives is strictly ordered by distance and id across all its pages,
\* whatever the loader commits between them.
THEOREM PagesAreOrdered == Spec => []StrictlyOrdered
<1>1. Inv => StrictlyOrdered
  BY DEF Inv, ScanInv
<1> QED BY <1>1, AlwaysInv, PTL

LEMMA SteadyOnce == Inv => SteadyCrimesSeenOnce
<1> SUFFICES ASSUME Inv, scan.at # "new", NEW s \in Near(crimes) \ scan.changed
             PROVE  Count(s) = IF scan.at = "done" \/ ~Before(scan.cursor, Key(crimes[s])) THEN 1 ELSE 0
  BY DEF SteadyCrimesSeenOnce
<1> DEFINE at == {i \in DOMAIN scan.got : scan.got[i].source = s}
<1>1. (scan.at = "done" \/ ~Before(scan.cursor, Key(crimes[s]))) <=> at # {}
  BY ScanFields DEF Inv, TypeOK, ScanInv, SteadySeen, Passed
<1>2. ASSUME NEW i \in at, NEW j \in at PROVE i = j
  <2>1. scan.got[i].key = Key(crimes[s]) /\ scan.got[j].key = Key(crimes[s]) /\ s \in Present(crimes)
    BY DEF Inv, ScanInv, SteadyKeys
  <2>2. ~Before(scan.got[i].key, scan.got[j].key) /\ ~Before(scan.got[j].key, scan.got[i].key)
    BY <2>1, KeyType, BeforeIrreflexive DEF Inv, TypeOK
  <2>3. i \in Int /\ j \in Int
    BY ScanFields DEF Inv, TypeOK
  <2>4. ~(i < j) /\ ~(j < i)
    BY <2>2 DEF Inv, ScanInv, StrictlyOrdered
  <2> QED BY <2>3, <2>4
<1>3. Count(s) = Cardinality(at)
  BY DEF Count
<1> HIDE DEF at
<1>4. CASE at = {}
  BY <1>1, <1>3, <1>4, FS_EmptySet
<1>5. CASE at # {}
  <2>1. PICK i : at = {i}
    BY <1>2, <1>5
  <2> QED BY <1>1, <1>3, <1>5, <2>1, FS_Singleton
<1> QED BY <1>4, <1>5

\* No duplicates and no gaps: of the crimes near the point, each one that has stayed where
\* it was since the first page is received exactly once when the pages have passed it, and
\* not before.
THEOREM PagesMissNothing == Spec => []SteadyCrimesSeenOnce
BY AlwaysInv, SteadyOnce, PTL

\* There is a last line of every crime that the file mentions.
LEMMA LastOf ==
    ASSUME NEW T \in SUBSET Nat, T # {}, NEW most \in Nat, \A i \in T : i <= most
    PROVE  \E n \in T : \A i \in T : i <= n
<1> DEFINE from == {most - i : i \in T}
<1>1. from \in SUBSET Nat /\ from # {}
  <2>1. \A i \in T : most - i \in Nat
    OBVIOUS
  <2>2. PICK i \in T : TRUE
    OBVIOUS
  <2>3. most - i \in from
    OBVIOUS
  <2> QED BY <2>1, <2>3
<1>2. PICK d \in from : \A e \in from : <<e, d>> \notin OpToRel(<, Nat)
  <2> HIDE DEF from
  <2> QED BY <1>1, WFMin, NatLessThanWellFounded, Zenon
<1>3. PICK n \in T : d = most - n
  OBVIOUS
<1>4. ASSUME NEW i \in T PROVE i <= n
  <2>1. ~(most - i < d)
    <3>1. most - i \in from
      OBVIOUS
    <3>2. most - i \in Nat /\ d \in Nat
      BY <1>1
    <3> HIDE DEF from
    <3> QED BY <1>2, <3>1, <3>2, Zenon DEF OpToRel
  <2> QED BY <1>3, <2>1
<1> QED BY <1>4

LEMMA LastCounts == Inv => LastLineWins
<1> SUFFICES ASSUME Inv, loader.at = "commit", NEW s \in Sources
             PROVE  IF LinesOf(loader.file, s) = {} THEN loader.table[s] = crimes[s]
                    ELSE \E last \in LinesOf(loader.file, s) :
                           /\ \A i \in LinesOf(loader.file, s) : i <= last
                           /\ loader.table[s].distance = loader.file[last].distance
  BY DEF LastLineWins
<1> DEFINE lines == LinesOf(loader.file, s)
<1>1. CASE lines = {}
  BY <1>1 DEF Inv, LoaderInv
<1>2. CASE lines # {}
  <2>1. /\ lines \in SUBSET Nat /\ Len(loader.file) \in Nat
        /\ \A i \in lines : i <= Len(loader.file) /\ i \in DOMAIN loader.file
                            /\ loader.file[i].source = s
    BY LoaderFields DEF Inv, TypeOK, LinesOf
  <2>2. PICK last \in lines : \A i \in lines : i <= last
    <3> HIDE DEF lines
    <3> QED BY <1>2, <2>1, LastOf
  <2>3. IsLast(loader.file, last)
    BY <2>1, <2>2 DEF IsLast
  <2>4. LinesOf(loader.batch, s) = {}
    BY DEF Inv, LoaderInv, LinesOf
  <2>5. loader.table[s].distance = loader.file[last].distance
    BY <2>1, <2>2, <2>3, <2>4 DEF Inv, LoaderInv, LastStands
  <2> QED BY <1>2, <2>2, <2>5
<1> QED BY <1>1, <1>2

\* What the loader is about to commit is the file over the table that it found: a crime's
\* last line counts, and a crime that the file does not mention stays as it was.
THEOREM LastLinesCount == Spec => []LastLineWins
BY AlwaysInv, LastCounts, PTL

=============================================================================
