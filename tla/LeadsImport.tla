---------------------------- MODULE LeadsImport ----------------------------
(***************************************************************************)
(* POST /leads/import: one request reads a CSV file row by row, adds the   *)
(* parsed rows to the session in batches and commits once, at its end.     *)
(*                                                                         *)
(* A row is "good", "bad" (its fields raise ValueError or KeyError),       *)
(* "short" (a required field is missing: int(None) raises TypeError) or    *)
(* "refused" (parsed, but the INSERT violates a constraint).               *)
(***************************************************************************)
EXTENDS Naturals, Sequences, FiniteSets

CONSTANTS RowKinds,   \* the kinds of rows that files are made of
          MaxRows,    \* bound on the data rows of a file
          BatchSize   \* BATCH_SIZE

VARIABLES
    file,      \* the kinds of the data rows
    next,      \* the row the reader is at
    batch,     \* parsed rows not yet added to the session
    flushed,   \* rows inserted by the open transaction
    stored,    \* rows of this file that are committed
    success,   \* the counter of the result
    errors,    \* the rows of its error list
    status     \* "reading", "answering", "committed", "failed" or "crashed"

vars == <<file, next, batch, flushed, stored, success, errors, status>>

Init ==
    /\ file \in UNION {[1 .. n -> RowKinds] : n \in 0 .. MaxRows}
    /\ next = 1
    /\ batch = <<>>
    /\ flushed = {}
    /\ stored = {}
    /\ success = 0
    /\ errors = <<>>
    /\ status = "reading"

Numbers(seq) == {seq[i] : i \in DOMAIN seq}
AtEnd == next > Len(file)

\* A row is read once the full batch before it has been flushed.
Reads(kinds) ==
    /\ status = "reading"
    /\ ~ AtEnd /\ Len(batch) < BatchSize
    /\ file[next] \in kinds
    /\ next' = next + 1

ReadRow ==
    /\ Reads({"good", "refused"})
    /\ batch' = Append(batch, next)
    /\ UNCHANGED <<file, flushed, stored, success, errors, status>>

\* The except clause: the row is reported and the loop goes on.
ReportRow ==
    /\ Reads({"bad"})
    /\ errors' = Append(errors, next)
    /\ UNCHANGED <<file, batch, flushed, stored, success, status>>

\* get_session rolls back: nothing of the open transaction stays.
Fail(result) ==
    /\ status' = result
    /\ flushed' = {}
    /\ UNCHANGED <<file, batch, stored, success, errors>>

\* TypeError is not in the except clause: the request ends with a 500.
ReadShortRow == Reads({"short"}) /\ Fail("failed")

FlushDue == status = "reading" /\ batch # <<>> /\ (Len(batch) >= BatchSize \/ AtEnd)

\* _flush: add_all and flush; the session's transaction stays open.
Flush ==
    /\ FlushDue
    /\ \A i \in Numbers(batch) : file[i] # "refused"
    /\ flushed' = flushed \cup Numbers(batch)
    /\ success' = success + Len(batch)
    /\ batch' = <<>>
    /\ UNCHANGED <<file, next, stored, errors, status>>

\* One row that PostgreSQL refuses fails its whole batch and the request.
FlushRefused ==
    /\ FlushDue
    /\ \E i \in Numbers(batch) : file[i] = "refused"
    /\ Fail("failed")
    /\ UNCHANGED next

\* Mutant: the rows of the last, incomplete batch are not flushed.
AnswerEarly ==
    /\ status = "reading" /\ AtEnd
    /\ status' = "answering"
    /\ UNCHANGED <<file, next, batch, flushed, stored, success, errors>>

\* The handler returns its result; get_session commits next.
Answer ==
    /\ status = "reading" /\ AtEnd /\ batch = <<>>
    /\ status' = "answering"
    /\ UNCHANGED <<file, next, batch, flushed, stored, success, errors>>

Commit ==
    /\ status = "answering"
    /\ stored' = flushed
    /\ status' = "committed"
    /\ UNCHANGED <<file, next, batch, flushed, success, errors>>

\* The process or the database connection goes away before the commit.
Crash ==
    /\ status \in {"reading", "answering"}
    /\ Fail("crashed")
    /\ UNCHANGED next

Next ==
    \/ ReadRow \/ ReportRow \/ ReadShortRow
    \/ Flush \/ FlushRefused \/ Answer \/ Commit \/ Crash

Spec == Init /\ [][Next]_vars

-----------------------------------------------------------------------------
(* Properties.                                                             *)

\* A result that is committed accounts for every row: it is stored, or it is
\* reported, in the order of the file, never both, and success_count is the
\* number of stored rows.
EveryRowAccounted ==
    status = "committed" =>
        /\ stored \cup Numbers(errors) = 1 .. Len(file)
        /\ stored \cap Numbers(errors) = {}
        /\ success = Cardinality(stored)
        /\ \A i, j \in DOMAIN errors : i < j => errors[i] < errors[j]

\* "commit every BATCH_SIZE rows" (import_leads): an import that a later row of
\* the file fails has stored the batches before it. _flush sends a batch and
\* leaves it to the one commit of get_session.
CommitsEachBatch == status = "failed" => Cardinality(stored) = success
=============================================================================
