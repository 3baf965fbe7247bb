------------------------------- MODULE Pages -------------------------------
(***************************************************************************)
(* The paginated lists. A page is two statements at READ COMMITTED, the    *)
(* COUNT and the rows by OFFSET and LIMIT, and a client asks for one page  *)
(* after the other until one is short. Between any two statements other    *)
(* requests, the scheduler and the engine insert rows, delete them, or     *)
(* change the column the list is filtered on or, for the holidays, the one *)
(* it is ordered by.                                                       *)
(***************************************************************************)
EXTENDS Naturals, Sequences, FiniteSets, SequencesExt

CONSTANTS MaxId,       \* bound on the ids of the sequence
          PageSize,    \* page_size of the query
          Days,        \* the days a holiday is moved to
          MaxChanges   \* bound on the changes of the list and its order during the walk

VARIABLES
    list,     \* the endpoint
    date,     \* the day of each holiday, that of one not yet stored included
    row,      \* "unborn", "open" (not committed), "in" or "out" of the filter, "gone"
    page,     \* the page the client asks for
    pc,       \* its request: "count", "rows" or "done"
    total,    \* the answered total
    items,    \* the answered ids of the page
    seen,     \* the ids of the pages before
    entered,  \* history: a row entered, or was moved, not behind all listed before
    left,     \* history: a row left the list, or its place in it, during the walk
    tied,     \* history: two stored rows had no order between them
    moved,    \* history: the list changed between the COUNT and the rows
    changes,  \* how often it has changed during the walk
    first     \* history: the ids in the list when the walk began

walk == <<page, pc, total, items, seen>>
vars == <<list, date, row, walk, entered, left, tied, moved, changes, first>>

Ids == 1 .. MaxId

\* What an endpoint orders by, whether its rows are deleted (call_records only
\* grows), and whether it filters: not at all, on a column that stays as the
\* row was created, or on one that changes.
CampaignList   == [order |-> "up",   deletes |-> TRUE,  filter |-> "none"]
RoleConfigList == [order |-> "up",   deletes |-> TRUE,  filter |-> "changes"]
LeadList       == [order |-> "down", deletes |-> TRUE,  filter |-> "changes"]
CallList       == [order |-> "down", deletes |-> FALSE, filter |-> "changes"]
VersionList    == [order |-> "down", deletes |-> TRUE,  filter |-> "fixed"]
HolidayList    == [order |-> "date", deletes |-> TRUE,  filter |-> "changes"]

Selected == {i \in Ids : row[i] = "in"}

\* The ORDER BY: i is listed before j. Two holidays of one day (a region each)
\* have no order between them.
Before(i, j) ==
    CASE list.order = "up"   -> i < j
      [] list.order = "down" -> i > j
      [] list.order = "date" -> date[i] < date[j]

\* No two of the rows stored so far tie in the ORDER BY.
NoTies ==
    \A i, j \in Ids :
        i # j /\ "unborn" \notin {row[i], row[j]} => Before(i, j) \/ Before(j, i)

Init ==
    /\ list \in {CampaignList, RoleConfigList, LeadList, CallList, VersionList, HolidayList}
    /\ date \in {[i \in Ids |-> 0]} \cup (IF list.order = "date" THEN SetToSeqs(Ids) ELSE {})
    /\ \E n \in Ids : row \in {f \in [Ids -> {"in", "out", "unborn"}] :
            \A i \in Ids : (f[i] = "unborn" <=> i > n) /\ (f[i] = "out" => list.filter # "none")}
    /\ page = 1 /\ pc = "count" /\ total = 0 /\ items = <<>> /\ seen = <<>>
    /\ entered = FALSE /\ left = FALSE /\ tied = ~ NoTies /\ moved = FALSE /\ changes = 0
    /\ first = Selected

-----------------------------------------------------------------------------
(* The writers.                                                            *)

\* An INSERT takes the next id of the sequence, its COMMIT comes when it comes.
Insert(i) ==
    /\ row[i] = "unborn" /\ \A j \in Ids : j < i => row[j] # "unborn"
    /\ row' = [row EXCEPT ![i] = "open"]
    /\ UNCHANGED <<list, date, walk, entered, left, moved, changes, first>>
    /\ tied' = (tied \/ ~ NoTies')

Changes ==
    /\ pc # "done" /\ changes < MaxChanges
    /\ changes' = changes + 1

\* A row comes to match: its INSERT commits, or its column changes.
Enter(i) ==
    /\ Changes
    /\ row[i] = "open" \/ (row[i] = "out" /\ list.filter = "changes")
    /\ row' = [row EXCEPT ![i] = "in"]
    /\ entered' = (entered \/ \E x \in ToSet(seen) : ~ Before(x, i))
    /\ moved' = TRUE
    /\ UNCHANGED <<list, date, walk, left, tied, first>>

\* A row stops matching, by an UPDATE or a DELETE.
Leave(i) ==
    /\ Changes
    /\ row[i] = "in"
    /\ \/ list.filter = "changes" /\ row' = [row EXCEPT ![i] = "out"]
       \/ list.deletes /\ row' = [row EXCEPT ![i] = "gone"]
    /\ left' = TRUE /\ moved' = TRUE
    /\ UNCHANGED <<list, date, walk, entered, tied, first>>

\* A holiday is given another day.
Move(i) ==
    /\ Changes
    /\ list.order = "date" /\ row[i] \in {"in", "out"}
    /\ \E d \in Days \ {date[i]} : date' = [date EXCEPT ![i] = d]
    /\ UNCHANGED <<list, row, walk, moved, first>>
    /\ entered' = (entered \/ \E x \in ToSet(seen) : ~ Before(x, i)')
    /\ left' = (left \/ row[i] = "in")
    /\ tied' = (tied \/ ~ NoTies')

-----------------------------------------------------------------------------
(* The reader.                                                             *)

\* Mutant: the count statement lacks the WHERE clause.
CountedUnfiltered == {i \in Ids : row[i] \in {"in", "out"}}

\* What the count statement selects.
Counted == Selected

Count ==
    /\ pc = "count" /\ pc' = "rows"
    /\ total' = Cardinality(Counted)
    /\ moved' = FALSE
    /\ UNCHANGED <<list, date, row, page, items, seen, entered, left, tied, changes, first>>

\* Mutant: pages are counted from zero.
OffsetFromZero(p) == p * PageSize

Offset(p) == (p - 1) * PageSize

Least(a, b) == IF a < b THEN a ELSE b

\* The results the ORDER BY admits.
Orders == {s \in SetToSeqs(Selected) : \A k, m \in DOMAIN s : k < m => ~ Before(s[m], s[k])}

\* The rows, and the answer. A full page makes the client ask for the next one.
Rows ==
    \E s \in Orders :
        LET got == SubSeq(s, Offset(page) + 1, Least(Offset(page) + PageSize, Len(s)))
        IN  /\ pc = "rows"
            /\ items' = got
            /\ seen' = seen \o got
            /\ IF Len(got) = PageSize THEN pc' = "count" /\ page' = page + 1
                                      ELSE pc' = "done" /\ UNCHANGED page
            /\ UNCHANGED <<list, date, row, total, entered, left, tied, moved, changes, first>>

Next ==
    \/ \E i \in Ids : Insert(i) \/ Enter(i) \/ Leave(i) \/ Move(i)
    \/ Count \/ Rows

Spec == Init /\ [][Next]_vars

-----------------------------------------------------------------------------
(* Properties.                                                             *)

\* A walk over the pages returns every row that was in the list when it began,
\* whatever is inserted meanwhile, in or out of the order of ids, as long as no
\* row leaves the list or, as a holiday that is given another day, its place in
\* it: always so for /calls without a status filter. Only the date order of the
\* holidays, once two have had one day, lacks this.
NoRowSkipped == pc = "done" /\ ~ left /\ ~ tied => first \subseteq ToSet(seen)

\* It returns no row twice, whatever leaves the list, as long as none enters it,
\* and no holiday is moved, but behind all rows already returned: for an
\* ascending list an INSERT does so unless it commits after one with a higher id.
NoRowTwice == ~ entered /\ ~ tied => \A k, m \in DOMAIN seen : seen[k] = seen[m] => k = m

\* Neither kind of change hides a row of the list or shows one again, as far as
\* the ORDER BY decides (the OFFSET of the lists).
WalkIsExact == NoRowSkipped /\ NoRowTwice

\* The total of an answer tells how many rows its page holds, unless the list
\* changed between the two statements: both select the same rows.
TotalMatchesPage ==
    LET answered == IF pc = "done" THEN page ELSE page - 1
        rest == IF total > Offset(answered) THEN total - Offset(answered) ELSE 0
    IN  pc # "rows" /\ answered > 0 /\ ~ moved =>
            Len(items) = Least(PageSize, rest)
=============================================================================
