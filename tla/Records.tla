------------------------------ MODULE Records ------------------------------
(***************************************************************************)
(* POST, PATCH and DELETE on single rows of leads and holidays, and on the *)
(* base columns of campaigns. A request is one PostgreSQL transaction at   *)
(* READ COMMITTED: an UPDATE or DELETE waits for the transaction that has  *)
(* written the row, and writes appear at the commit. SQLAlchemy updates a  *)
(* column only if the PATCH changed it from what the session has loaded.   *)
(*                                                                         *)
(* A row is named by the request that creates it.                          *)
(***************************************************************************)
EXTENDS Naturals

CONSTANTS Stored,    \* the rows stored at first
          Requests,  \* the requests of the run
          Columns,   \* the columns of the table
          Values,    \* what a column may hold
          Absent     \* no row

VARIABLES
    table,    \* "leads", "holidays" or "campaigns"
    request,  \* each request's operation, row and payload
    rows,     \* the committed rows
    pc,       \* where each request stands
    loaded,   \* the row its session has loaded
    write,    \* the row it has written, Absent for a DELETE
    holder,   \* who has written the row and not ended: nobody, or one request
    answer,   \* the row in its answer
    was       \* history: what the row was while the request ran

vars == <<table, request, rows, pc, loaded, write, holder, answer, was>>

Rows == Stored \cup Requests
Row == [Columns -> Values]

\* Payloads: a whole row, or any subset of the columns (exclude_unset).
Bodies(r) ==
    [op : {"create"}, row : {r}, columns : Row]
    \cup [op : {"patch"}, row : Rows \ {r}, columns : UNION {[S -> Values] : S \in SUBSET Columns}]
    \cup [op : {"delete"}, row : Rows \ {r}, columns : {<<>>}]

Init ==
    /\ table \in {"leads", "holidays", "campaigns"}
    /\ request \in {f \in [Requests -> UNION {Bodies(r) : r \in Requests}] :
                      \A r \in Requests : f[r] \in Bodies(r)}
    /\ \E f \in [Stored -> Row] : rows = [x \in Rows |-> IF x \in Stored THEN f[x] ELSE Absent]
    /\ pc = [r \in Requests |-> "idle"]
    /\ loaded = [r \in Requests |-> Absent]
    /\ write = [r \in Requests |-> Absent]
    /\ holder = [x \in Rows |-> {}]
    /\ answer = [r \in Requests |-> Absent]
    /\ was = [r \in Requests |-> {}]

GoTo(r, step) == pc' = [pc EXCEPT ![r] = step]
At(r, step, op) == pc[r] = step /\ request[r].op = op
Target(r) == request[r].row
Overlay(row, columns) == [c \in Columns |-> IF c \in DOMAIN columns THEN columns[c] ELSE row[c]]

\* A statement that writes waits for the row.
Writes(r, row) ==
    /\ holder[Target(r)] = {}
    /\ holder' = [holder EXCEPT ![Target(r)] = {r}]
    /\ write' = [write EXCEPT ![r] = row]

\* get_session ends the transaction.
End(r, result) ==
    /\ GoTo(r, result)
    /\ holder' = [x \in Rows |-> holder[x] \ {r}]

Raise(r) == End(r, "failed") /\ UNCHANGED <<table, request, rows, loaded, write, answer, was>>

-----------------------------------------------------------------------------
\* A holiday's date or a campaign's interruption rules do not parse (422), a
\* constraint refuses the INSERT or UPDATE (500): nothing of it is stored.
Refuse(r) ==
    /\ \/ pc[r] = "idle" /\ request[r].op = "create"
       \/ pc[r] = "found" /\ request[r].op = "patch"
    /\ Raise(r)

\* The INSERT of the flush.
Create(r) ==
    /\ At(r, "idle", "create")
    /\ Writes(r, request[r].columns)
    /\ GoTo(r, "reread")
    /\ UNCHANGED <<table, request, rows, loaded, answer, was>>

\* session.get: 404 for a row that is not there.
Load(r) ==
    /\ pc[r] = "idle" /\ request[r].op # "create"
    /\ IF rows[Target(r)] = Absent
       THEN GoTo(r, "missing") /\ UNCHANGED <<loaded, was>>
       ELSE /\ GoTo(r, "found")
            /\ loaded' = [loaded EXCEPT ![r] = rows[Target(r)]]
            /\ was' = [was EXCEPT ![r] = {rows[Target(r)]}]
    /\ UNCHANGED <<table, request, rows, write, holder, answer>>

\* The columns whose new value differs from the loaded one.
Changed(r) ==
    LET new == request[r].columns
    IN  [c \in {x \in DOMAIN new : new[x] # loaded[r][x]} |-> new[c]]

\* Mutant: the UPDATE writes every column, as the session knows it.
NewWholeRow(r) == Overlay(loaded[r], request[r].columns)

\* The row after the UPDATE, which PostgreSQL applies to the committed row.
NewRow(r) == Overlay(rows[Target(r)], Changed(r))

\* The UPDATE finds no row: StaleDataError.
GoneWhenFlushed(r) == rows[Target(r)] = Absent

\* setattr and flush: without a changed column there is no UPDATE and no wait.
Patch(r) ==
    /\ At(r, "found", "patch")
    /\ IF DOMAIN Changed(r) = {}
       THEN GoTo(r, "reread") /\ UNCHANGED <<table, request, rows, loaded, write, holder, answer, was>>
       ELSE /\ holder[Target(r)] = {}
            /\ IF GoneWhenFlushed(r)
               THEN Raise(r)
               ELSE /\ Writes(r, NewRow(r))
                    /\ GoTo(r, "reread")
                    /\ UNCHANGED <<table, request, rows, loaded, answer, was>>

\* What the session sees of the row: its own write or the committed row.
Visible(r) == IF r \in holder[Target(r)] THEN write[r] ELSE rows[Target(r)]

\* Mutant: the answer is made without the refresh.
AnsweredFromMemory(r) == IF request[r].op = "create" THEN write[r] ELSE Overlay(loaded[r], request[r].columns)

\* session.refresh re-reads the row; _load_detail of a campaign gets the object
\* the session has loaded and patched.
Answered(r) ==
    IF table = "campaigns" /\ request[r].op = "patch"
    THEN Overlay(loaded[r], request[r].columns)
    ELSE Visible(r)

\* The refresh raises when the row is gone.
Reread(r) ==
    /\ pc[r] = "reread"
    /\ IF Answered(r) = Absent
       THEN Raise(r)
       ELSE /\ answer' = [answer EXCEPT ![r] = Answered(r)]
            /\ GoTo(r, "commit")
            /\ UNCHANGED <<table, request, rows, loaded, write, holder, was>>

\* The commit's flush: the DELETE, which may find the row deleted already.
Delete(r) ==
    /\ At(r, "found", "delete")
    /\ Writes(r, Absent)
    /\ GoTo(r, "commit")
    /\ UNCHANGED <<table, request, rows, loaded, answer, was>>

Commit(r) ==
    LET x == Target(r)
        row == Visible(r)
    IN  /\ pc[r] = "commit"
        /\ rows' = [rows EXCEPT ![x] = row]
        /\ was' = [q \in Requests |-> IF q = r \/ (Target(q) = x /\ pc[q] \in {"found", "reread"})
                                      THEN was[q] \cup {row} ELSE was[q]]
        /\ End(r, "done")
        /\ UNCHANGED <<table, request, loaded, write, answer>>

\* The connection is lost before the COMMIT: get_session rolls back.
Rollback(r) == pc[r] \in {"reread", "commit"} /\ Raise(r)

Next ==
    \E r \in Requests :
        \/ Refuse(r) \/ Create(r) \/ Load(r) \/ Patch(r) \/ Reread(r)
        \/ Delete(r) \/ Commit(r) \/ Rollback(r)

Spec == Init /\ [][Next]_vars

-----------------------------------------------------------------------------
(* Properties.                                                             *)

\* Of each request, the columns that have taken effect: at its commit, and a
\* column that needs no UPDATE when the row was loaded.
Effective ==
    [r \in Requests |->
        IF request[r].op # "patch" THEN (IF pc[r] = "done" THEN Columns ELSE {})
        ELSE IF loaded[r] = Absent THEN {}
        ELSE IF pc[r] = "done" THEN DOMAIN request[r].columns
        ELSE DOMAIN request[r].columns \ DOMAIN Changed(r)]

Kept == INSTANCE Table WITH effective <- Effective

\* The requests keep the table as Table says: no PATCH undoes what another one
\* stored in a column it does not name, or brings a deleted row back, and a
\* failed request leaves no trace, however their statements interleave.
KeepsTable == Kept!Spec

\* "Replace-style PATCH: any field set replaces" (schemas.py:87): when one of
\* several PATCHes that set the same fields of a campaign commits, the row holds
\* the values one of them sets, not some of one and some of another.
FieldSetReplaces ==
    [][\A r \in Requests :
          LET new == request[r].columns
          IN  /\ table = "campaigns" /\ At(r, "commit", "patch") /\ pc'[r] = "done"
              /\ \A q \in Requests : DOMAIN request[q].columns = DOMAIN new
              => \E q \in Requests :
                    \A c \in DOMAIN new : rows'[Target(r)][c] = request[q].columns[c]]_vars

\* The row in the answer of a lead or holiday request is one that was stored
\* while it ran, never a mixture of what it loaded and what it wrote.
AnswerWasStored ==
    \A r \in Requests :
        pc[r] = "done" /\ answer[r] # Absent /\ table # "campaigns" => answer[r] \in was[r]
=============================================================================
