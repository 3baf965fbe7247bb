------------------------ MODULE ProviderCredentials ------------------------
(***************************************************************************)
(* /provider-credentials: one row per (provider_id, field_name). An upsert *)
(* is INSERT ... ON CONFLICT DO UPDATE, a COMMIT and a re-read of the row; *)
(* a delete loads the row by id and deletes by id. PostgreSQL makes a      *)
(* statement wait for the transaction that has written the same key.       *)
(*                                                                         *)
(* A value, with its updated_by, is named by the request that wrote it.    *)
(***************************************************************************)
EXTENDS Naturals, Sequences

CONSTANTS Keys,      \* (provider_id, field_name) pairs in requests
          Allowed,   \* those in ALLOWED_PROVIDER_IDS x ALLOWED_FIELD_NAMES
          Requests,  \* the requests of the run
          None,      \* no row, no request
          Unwritten  \* a transaction has written nothing

\* A stored credential.
Row == [id : Nat, value : Requests]

\* What the constants have to be.
ConstantsOK ==
    /\ Allowed \subseteq Keys
    /\ None \notin Requests \cup Row
    /\ Unwritten # None

VARIABLES
    rows,    \* the committed row of each key
    nextId,  \* the id sequence, which a conflict advances too
    pc,      \* where each request stands
    key,     \* the key it writes
    rowId,   \* the id of its row: returned by the upsert, loaded by the delete
    write,   \* its uncommitted write: a row, or None to delete it
    holder,  \* the transaction that has written a key and not ended
    log,     \* history: the upserts committed per key, in order
    shown    \* the value in the answer of an upsert

vars == <<rows, nextId, pc, key, rowId, write, holder, log, shown>>

Init ==
    /\ rows = [k \in Keys |-> None]
    /\ nextId = 1
    /\ pc = [r \in Requests |-> "idle"]
    /\ key \in [Requests -> Keys]
    /\ rowId = [r \in Requests |-> 0]
    /\ write = [r \in Requests |-> Unwritten]
    /\ holder = [k \in Keys |-> None]
    /\ log = [k \in Keys |-> <<>>]
    /\ shown = [r \in Requests |-> None]

GoTo(r, step) == pc' = [pc EXCEPT ![r] = step]
Unlock(r) == holder' = [k \in Keys |-> IF holder[k] = r THEN None ELSE holder[k]]

\* The row with this id is the committed row of key k.
IsStored(k, id) == rows[k] # None /\ rows[k].id = id

-----------------------------------------------------------------------------
\* Mutant: the white lists are not consulted.
AnyIsKnown(k) == TRUE

\* ALLOWED_PROVIDERS, ALLOWED_FIELDS
Known(k) == k \in Allowed

\* An unknown provider or field: 422.
Reject(r) ==
    /\ pc[r] = "idle"
    /\ ~ Known(key[r])
    /\ GoTo(r, "rejected")
    /\ UNCHANGED <<rows, nextId, key, rowId, write, holder, log, shown>>

Inserted(r) == [id |-> nextId, value |-> r]

\* Mutant: ON CONFLICT DO NOTHING.
UpdatedNothing(r, old) == old

\* DO UPDATE of the row the INSERT conflicts with, which keeps its id.
Updated(r, old) == [id |-> old.id, value |-> r]

\* INSERT ... ON CONFLICT; the id is taken from the sequence in any case.
Upsert(r) ==
    LET k == key[r]
        row == IF rows[k] = None THEN Inserted(r) ELSE Updated(r, rows[k])
    IN  /\ pc[r] = "idle"
        /\ Known(k)
        /\ holder[k] = None
        /\ nextId' = nextId + 1
        /\ write' = [write EXCEPT ![r] = row]
        /\ rowId' = [rowId EXCEPT ![r] = row.id]
        /\ holder' = [holder EXCEPT ![k] = r]
        /\ GoTo(r, "stored")
        /\ UNCHANGED <<rows, key, log, shown>>

CommitUpsert(r) ==
    /\ pc[r] = "stored"
    /\ rows' = [rows EXCEPT ![key[r]] = write[r]]
    /\ log' = [log EXCEPT ![key[r]] = Append(@, r)]
    /\ Unlock(r)
    /\ GoTo(r, "refresh")
    /\ UNCHANGED <<nextId, key, rowId, write, shown>>

\* session.refresh: the answer shows the row as it is by now, which a later
\* upsert may have written; it raises when the row is gone, though the value
\* was stored.
Refresh(r) ==
    /\ pc[r] = "refresh"
    /\ IF IsStored(key[r], rowId[r])
       THEN shown' = [shown EXCEPT ![r] = rows[key[r]].value] /\ GoTo(r, "created")
       ELSE GoTo(r, "failed") /\ UNCHANGED shown
    /\ UNCHANGED <<rows, nextId, key, rowId, write, holder, log>>

\* delete_credential loads the row: 404 for an id that is not stored.
Load(r, id) ==
    /\ pc[r] = "idle"
    /\ \/ /\ IsStored(key[r], id)
          /\ rowId' = [rowId EXCEPT ![r] = id]
          /\ GoTo(r, "loaded")
       \/ /\ \A k \in Keys : ~ IsStored(k, id)
          /\ GoTo(r, "missing")
          /\ UNCHANGED rowId
    /\ UNCHANGED <<rows, nextId, key, write, holder, log, shown>>

\* Mutant: the DELETE names the provider and the field.
MatchedByKey(r) == rows[key[r]] # None

Matched(r) == IsStored(key[r], rowId[r])

\* The DELETE of the commit's flush; a row deleted meanwhile matches nothing.
Delete(r) ==
    /\ pc[r] = "loaded"
    /\ holder[key[r]] = None
    /\ IF Matched(r)
       THEN /\ write' = [write EXCEPT ![r] = None]
            /\ holder' = [holder EXCEPT ![key[r]] = r]
       ELSE UNCHANGED <<write, holder>>
    /\ GoTo(r, "deleting")
    /\ UNCHANGED <<rows, nextId, key, rowId, log, shown>>

CommitDelete(r) ==
    /\ pc[r] = "deleting"
    /\ rows' = IF write[r] = Unwritten THEN rows ELSE [rows EXCEPT ![key[r]] = None]
    /\ Unlock(r)
    /\ GoTo(r, "deleted")
    /\ UNCHANGED <<nextId, key, rowId, write, log, shown>>

\* The connection is lost before the COMMIT: get_session rolls back.
Rollback(r) ==
    /\ pc[r] \in {"stored", "loaded", "deleting"}
    /\ write' = [write EXCEPT ![r] = Unwritten]
    /\ Unlock(r)
    /\ GoTo(r, "failed")
    /\ UNCHANGED <<rows, nextId, key, rowId, log, shown>>

Next ==
    \E r \in Requests :
        \/ Reject(r) \/ Upsert(r) \/ CommitUpsert(r) \/ Refresh(r)
        \/ (\E id \in 1 .. nextId : Load(r, id))
        \/ Delete(r) \/ CommitDelete(r) \/ Rollback(r)

Spec == Init /\ [][Next]_vars

-----------------------------------------------------------------------------
(* Properties.                                                             *)

\* Every variable has its type; a key outside the white lists is never written.
TypeOK ==
    /\ rows \in [Keys -> Row \cup {None}]
    /\ \A k \in Keys \ Allowed : rows[k] = None
    /\ nextId \in Nat
    /\ pc \in [Requests -> {"idle", "rejected", "stored", "refresh", "created", "failed",
                            "loaded", "missing", "deleting", "deleted"}]
    /\ key \in [Requests -> Keys]
    /\ rowId \in [Requests -> Nat]
    /\ write \in [Requests -> Row \cup {None, Unwritten}]
    /\ holder \in [Keys -> Requests \cup {None}]
    /\ log \in [Keys -> Seq(Requests)]
    /\ shown \in [Requests -> Requests \cup {None}]

\* An upsert that is answered 201 was committed, and the masked value of its
\* answer is its own or a later one, never one it has overwritten.
CreatedIsStored ==
    \A r \in Requests :
        pc[r] = "created" =>
            \E i, j \in DOMAIN log[key[r]] :
                i <= j /\ log[key[r]][i] = r /\ log[key[r]][j] = shown[r]

\* A delete removes the row it loaded: one that another request deleted and a
\* third created again, under the same provider and field, stays.
DeletesItsRow ==
    [][\A k \in Keys :
          rows[k] # None /\ rows'[k] = None =>
              \E r \in Requests : /\ pc[r] = "deleting" /\ pc'[r] = "deleted"
                                  /\ rowId[r] = rows[k].id]_vars
=============================================================================
