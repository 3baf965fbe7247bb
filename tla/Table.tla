------------------------------- MODULE Table -------------------------------
(***************************************************************************)
(* What the CRUD endpoints keep of a table: a row is inserted whole and    *)
(* deleted whole, a PATCH writes each column it names at most once and no  *)
(* other column, and a row that was deleted stays so.                      *)
(***************************************************************************)

CONSTANTS Requests,  \* the requests of the run
          Columns,   \* the columns of the table
          Absent     \* no row

VARIABLES request,   \* what each request asks for: op, row and columns
          rows,      \* the table
          effective  \* of each request, the columns that have taken effect

vars == <<request, rows, effective>>

Init == effective = [r \in Requests |-> {}]

TakesEffect(r, C, row) ==
    /\ C \cap effective[r] = {}
    /\ effective' = [effective EXCEPT ![r] = @ \cup C]
    /\ rows' = [rows EXCEPT ![request[r].row] = row]
    /\ UNCHANGED request

Insert(r) == request[r].op = "create" /\ TakesEffect(r, Columns, request[r].columns)

Remove(r) == request[r].op = "delete" /\ TakesEffect(r, Columns, Absent)

\* Columns that take effect after the row was deleted leave it deleted.
Change(r, C) ==
    LET new == request[r].columns
        old == rows[request[r].row]
    IN  /\ request[r].op = "patch" /\ C \subseteq DOMAIN new
        /\ TakesEffect(r, C, IF old = Absent THEN Absent
                             ELSE [c \in Columns |-> IF c \in C THEN new[c] ELSE old[c]])

Next == \E r \in Requests : Insert(r) \/ Remove(r) \/ (\E C \in SUBSET Columns : Change(r, C))

Spec == Init /\ [][Next]_vars
=============================================================================
