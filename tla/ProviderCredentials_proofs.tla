--------------------- MODULE ProviderCredentials_proofs ---------------------
(* Theorems about ProviderCredentials, for every set of keys and requests, *)
(* checked by TLAPS.                                                       *)
EXTENDS ProviderCredentials, TLAPS

\* A request that has not written yet has no write pending.
BeforeWrite == \A r \in Requests : pc[r] \in {"idle", "loaded"} => write[r] = Unwritten

\* An upsert that is to commit holds its key and writes its own value.
UpsertPending ==
    \A r \in Requests :
        pc[r] = "stored" =>
            /\ key[r] \in Allowed
            /\ holder[key[r]] = r
            /\ write[r] \in Row
            /\ write[r].value = r

\* A delete that is to commit holds its key, whose row is the one it loaded.
DeletePending ==
    \A r \in Requests :
        pc[r] = "deleting" /\ write[r] # Unwritten =>
            /\ write[r] = None
            /\ holder[key[r]] = r
            /\ IsStored(key[r], rowId[r])

\* The inductive invariant of the type and the two pending writes.
IInv == TypeOK /\ BeforeWrite /\ UpsertPending /\ DeletePending

\* A step keeps the types and writes no key outside the white lists.
LEMMA TypeStep ==
    ASSUME ConstantsOK, TypeOK, BeforeWrite, UpsertPending, DeletePending, [Next]_vars
    PROVE  TypeOK'
<1> USE DEF ConstantsOK, TypeOK
<1>1. ASSUME NEW r \in Requests, Reject(r) PROVE TypeOK'
  BY <1>1 DEF Reject, GoTo
<1>2. ASSUME NEW r \in Requests, Upsert(r) PROVE TypeOK'
  <2> DEFINE k == key[r]
             row == IF rows[k] = None THEN Inserted(r) ELSE Updated(r, rows[k])
  <2>1. row \in Row /\ row.id \in Nat
    <3>1. rows[k] \in Row \cup {None}
      OBVIOUS
    <3> QED
      BY <3>1 DEF Row, Inserted, Updated
  <2> HIDE DEF row
  <2>3. /\ write' = [write EXCEPT ![r] = row]
        /\ rowId' = [rowId EXCEPT ![r] = row.id]
        /\ nextId' = nextId + 1
        /\ holder' = [holder EXCEPT ![k] = r]
        /\ pc' = [pc EXCEPT ![r] = "stored"]
        /\ UNCHANGED <<rows, key, log, shown>>
    BY <1>2 DEF Upsert, Known, GoTo, row
  <2> QED
    BY <2>1, <2>3
<1>3. ASSUME NEW r \in Requests, CommitUpsert(r) PROVE TypeOK'
  <2>1. log' \in [Keys -> Seq(Requests)]
    BY <1>3 DEF CommitUpsert
  <2>2. rows' \in [Keys -> Row \cup {None}] /\ \A k \in Keys \ Allowed : rows'[k] = None
    BY <1>3 DEF CommitUpsert, UpsertPending
  <2> QED
    BY <1>3, <2>1, <2>2 DEF CommitUpsert, GoTo, Unlock
<1>4. ASSUME NEW r \in Requests, Refresh(r) PROVE TypeOK'
  BY <1>4 DEF Refresh, GoTo, IsStored, Row
<1>5. ASSUME NEW r \in Requests, NEW id \in 1 .. nextId, Load(r, id) PROVE TypeOK'
  <2>1. id \in Nat
    OBVIOUS
  <2>2. CASE GoTo(r, "loaded") /\ rowId' = [rowId EXCEPT ![r] = id]
    BY <1>5, <2>1, <2>2 DEF Load, GoTo
  <2>3. CASE GoTo(r, "missing") /\ UNCHANGED rowId
    BY <1>5, <2>3 DEF Load, GoTo
  <2> QED
    BY <1>5, <2>2, <2>3 DEF Load
<1>6. ASSUME NEW r \in Requests, Delete(r) PROVE TypeOK'
  <2>1. CASE Matched(r)
    <3>1. /\ write' = [write EXCEPT ![r] = None] /\ holder' = [holder EXCEPT ![key[r]] = r]
          /\ pc' = [pc EXCEPT ![r] = "deleting"]
          /\ UNCHANGED <<rows, nextId, key, rowId, log, shown>>
      BY <1>6, <2>1 DEF Delete, GoTo
    <3> QED
      BY <3>1
  <2>2. CASE ~ Matched(r)
    BY <1>6, <2>2 DEF Delete, GoTo
  <2> QED
    BY <2>1, <2>2
<1>7. ASSUME NEW r \in Requests, CommitDelete(r) PROVE TypeOK'
  BY <1>7 DEF CommitDelete, GoTo, Unlock
<1>8. ASSUME NEW r \in Requests, Rollback(r) PROVE TypeOK'
  BY <1>8 DEF Rollback, GoTo, Unlock
<1>9. CASE UNCHANGED vars
  BY <1>9 DEF vars
<1> QED
  BY <1>1, <1>2, <1>3, <1>4, <1>5, <1>6, <1>7, <1>8, <1>9 DEF Next

\* A step keeps what is known of pending writes, action by action.
LEMMA PendingStep ==
    ASSUME ConstantsOK, IInv, [Next]_vars
    PROVE  BeforeWrite' /\ UpsertPending' /\ DeletePending'
<1> USE DEF ConstantsOK, IInv, TypeOK, BeforeWrite, UpsertPending, DeletePending, IsStored
<1> DEFINE Kept == BeforeWrite' /\ UpsertPending' /\ DeletePending'
<1>1. ASSUME NEW r \in Requests, Reject(r) PROVE Kept
  BY <1>1 DEF Reject, GoTo
<1>2. ASSUME NEW r \in Requests, Upsert(r) PROVE Kept
  <2> DEFINE k == key[r]
             row == IF rows[k] = None THEN Inserted(r) ELSE Updated(r, rows[k])
  <2>1. row \in Row /\ row.value = r
    <3>1. rows[k] \in Row \cup {None}
      OBVIOUS
    <3> QED
      BY <3>1 DEF Row, Inserted, Updated
  <2> HIDE DEF row
  <2>3. /\ k \in Allowed /\ holder[k] = None /\ pc[r] = "idle"
        /\ write' = [write EXCEPT ![r] = row]
        /\ rowId' = [rowId EXCEPT ![r] = row.id]
        /\ holder' = [holder EXCEPT ![k] = r]
        /\ pc' = [pc EXCEPT ![r] = "stored"]
        /\ UNCHANGED <<rows, key, log, shown>>
    BY <1>2 DEF Upsert, Known, GoTo, row
  <2> QED
    BY <2>1, <2>3
<1>3. ASSUME NEW r \in Requests, CommitUpsert(r) PROVE Kept
  <2>1. /\ pc[r] = "stored" /\ holder[key[r]] = r
        /\ rows' = [rows EXCEPT ![key[r]] = write[r]]
        /\ pc' = [pc EXCEPT ![r] = "refresh"]
        /\ holder' = [k \in Keys |-> IF holder[k] = r THEN None ELSE holder[k]]
        /\ UNCHANGED <<key, rowId, write>>
    BY <1>3 DEF CommitUpsert, GoTo, Unlock
  <2>2. BeforeWrite' /\ UpsertPending'
    BY <2>1
  <2>3. DeletePending'
    BY <2>1
  <2> QED
    BY <2>2, <2>3
<1>4. ASSUME NEW r \in Requests, Refresh(r) PROVE Kept
  BY <1>4 DEF Refresh, GoTo
<1>5. ASSUME NEW r \in Requests, NEW id \in 1 .. nextId, Load(r, id) PROVE Kept
  BY <1>5 DEF Load, GoTo
<1>6. ASSUME NEW r \in Requests, Delete(r) PROVE Kept
  <2>1. CASE IsStored(key[r], rowId[r])
    BY <1>6, <2>1 DEF Delete, GoTo
  <2>2. CASE ~ IsStored(key[r], rowId[r])
    BY <1>6, <2>2 DEF Delete, Matched, GoTo
  <2> QED
    BY <2>1, <2>2
<1>7. ASSUME NEW r \in Requests, CommitDelete(r) PROVE Kept
  <2>1. /\ pc[r] = "deleting"
        /\ rows' = IF write[r] = Unwritten THEN rows ELSE [rows EXCEPT ![key[r]] = None]
        /\ pc' = [pc EXCEPT ![r] = "deleted"]
        /\ holder' = [k \in Keys |-> IF holder[k] = r THEN None ELSE holder[k]]
        /\ UNCHANGED <<key, rowId, write>>
    BY <1>7 DEF CommitDelete, GoTo, Unlock
  <2>2. CASE write[r] = Unwritten
    BY <2>1, <2>2
  <2>3. CASE write[r] # Unwritten
    BY <2>1, <2>3
  <2> QED
    BY <2>2, <2>3
<1>8. ASSUME NEW r \in Requests, Rollback(r) PROVE Kept
  BY <1>8 DEF Rollback, GoTo, Unlock
<1>9. CASE UNCHANGED vars
  BY <1>9 DEF vars
<1> QED
  BY <1>1, <1>2, <1>3, <1>4, <1>5, <1>6, <1>7, <1>8, <1>9 DEF Next

\* IInv is an invariant of the specification.
LEMMA Invariance == ASSUME ConstantsOK PROVE Spec => []IInv
<1>1. Init => IInv
  BY DEF ConstantsOK, Init, IInv, TypeOK, BeforeWrite, UpsertPending, DeletePending
<1>2. IInv /\ [Next]_vars => IInv'
  BY TypeStep, PendingStep DEF IInv
<1> QED
  BY <1>1, <1>2, PTL DEF Spec

\* Keys outside the white lists are never written (ALLOWED_PROVIDER_IDS,
\* ALLOWED_FIELD_NAMES), and the variables have their types.
THEOREM TypeCorrect == ASSUME ConstantsOK PROVE Spec => []TypeOK
<1>1. IInv => TypeOK
  BY DEF IInv
<1> QED
  BY <1>1, Invariance, PTL

\* A delete removes the row it loaded and no other: the key is held from the
\* DELETE that found this row to the COMMIT.
THEOREM DeleteHitsItsRow == ASSUME ConstantsOK PROVE Spec => DeletesItsRow
<1>1. IInv /\ [Next]_vars =>
        [\A k \in Keys :
           rows[k] # None /\ rows'[k] = None =>
              \E r \in Requests : /\ pc[r] = "deleting" /\ pc'[r] = "deleted"
                                  /\ rowId[r] = rows[k].id]_vars
  <2> SUFFICES ASSUME IInv, Next, NEW k \in Keys, rows[k] # None, rows'[k] = None
               PROVE  \E r \in Requests : /\ pc[r] = "deleting" /\ pc'[r] = "deleted"
                                          /\ rowId[r] = rows[k].id
    BY DEF vars
  <2>1. \A r \in Requests : ~ CommitUpsert(r)
    BY DEF ConstantsOK, CommitUpsert, IInv, TypeOK, UpsertPending
  <2>2. PICK r \in Requests : CommitDelete(r)
    BY <2>1 DEF Next, Reject, Upsert, Refresh, Load, Delete, Rollback
  <2>3. pc[r] = "deleting" /\ pc'[r] = "deleted" /\ write[r] # Unwritten /\ k = key[r]
    BY <2>2 DEF CommitDelete, GoTo, IInv, TypeOK
  <2>4. rowId[r] = rows[k].id
    BY <2>3 DEF IInv, DeletePending, IsStored
  <2> QED
    BY <2>3, <2>4
<1> QED
  BY <1>1, Invariance, PTL DEF Spec, DeletesItsRow

-----------------------------------------------------------------------------
(* The answers of upserts: the history of a key ends with its row's value. *)

\* The stored value of a key is the last one committed; after a delete the
\* history says nothing of the row.
LastIsStored ==
    \A k \in Keys :
        rows[k] # None => log[k] # <<>> /\ log[k][Len(log[k])] = rows[k].value

\* An upsert that has committed is in the history of its key.
CommittedIsLogged ==
    \A r \in Requests :
        pc[r] \in {"refresh", "created"} => \E i \in DOMAIN log[key[r]] : log[key[r]][i] = r

\* The answer is inductive together with the two.
AnswerInv == LastIsStored /\ CommittedIsLogged /\ CreatedIsStored

\* A COMMIT appends to the history of one key: what was in it keeps its place.
LEMMA LogGrows ==
    ASSUME IInv, NEW r \in Requests, CommitUpsert(r)
    PROVE  /\ log'[key[r]][Len(log'[key[r]])] = r /\ log'[key[r]] # <<>>
           /\ Len(log'[key[r]]) \in DOMAIN log'[key[r]]
           /\ \A k \in Keys : k # key[r] => log'[k] = log[k]
           /\ \A k \in Keys : \A i \in DOMAIN log[k] : i \in DOMAIN log'[k] /\ log'[k][i] = log[k][i]
<1> USE DEF IInv, TypeOK
<1>1. log' = [log EXCEPT ![key[r]] = Append(@, r)]
  BY DEF CommitUpsert
<1>2. key[r] \in Keys /\ log[key[r]] \in Seq(Requests) /\ log'[key[r]] = Append(log[key[r]], r)
  BY <1>1
<1>3. \A k \in Keys : k # key[r] => log'[k] = log[k]
  BY <1>1
<1>4. /\ Len(log[key[r]]) \in Nat /\ Len(log'[key[r]]) = Len(log[key[r]]) + 1
      /\ DOMAIN log[key[r]] = 1 .. Len(log[key[r]]) /\ DOMAIN log'[key[r]] = 1 .. Len(log'[key[r]])
      /\ log'[key[r]][Len(log'[key[r]])] = r
      /\ \A i \in 1 .. Len(log[key[r]]) : log'[key[r]][i] = log[key[r]][i]
  BY <1>2
<1>5. log'[key[r]] # <<>> /\ Len(log'[key[r]]) \in DOMAIN log'[key[r]]
  BY <1>2, <1>4
<1>6. ASSUME NEW k \in Keys, NEW i \in DOMAIN log[k]
      PROVE  i \in DOMAIN log'[k] /\ log'[k][i] = log[k][i]
  <2>1. CASE k = key[r]
    BY <1>4, <2>1
  <2>2. CASE k # key[r]
    BY <1>3, <2>2
  <2> QED
    BY <2>1, <2>2
<1> QED
  BY <1>3, <1>4, <1>5, <1>6

\* Every step keeps AnswerInv: a COMMIT stores and appends the same value,
\* Refresh reads the row its key has by now, which is the last one appended.
LEMMA AnswerStep ==
    ASSUME ConstantsOK, IInv, AnswerInv, [Next]_vars
    PROVE  AnswerInv'
<1> USE DEF ConstantsOK, IInv, TypeOK, AnswerInv, LastIsStored, CommittedIsLogged, CreatedIsStored, GoTo
<1>1. ASSUME NEW r \in Requests, Reject(r) PROVE AnswerInv'
  BY <1>1 DEF Reject
<1>2. ASSUME NEW r \in Requests, Upsert(r) PROVE AnswerInv'
  BY <1>2 DEF Upsert
<1>3. ASSUME NEW r \in Requests, CommitUpsert(r) PROVE AnswerInv'
  <2>1. /\ pc[r] = "stored" /\ pc' = [pc EXCEPT ![r] = "refresh"]
        /\ rows' = [rows EXCEPT ![key[r]] = write[r]] /\ write[r].value = r
        /\ UNCHANGED <<key, shown>>
    BY <1>3 DEF CommitUpsert, UpsertPending
  <2>2. /\ log'[key[r]][Len(log'[key[r]])] = r /\ log'[key[r]] # <<>>
        /\ Len(log'[key[r]]) \in DOMAIN log'[key[r]]
        /\ \A k \in Keys : k # key[r] => log'[k] = log[k]
        /\ \A k \in Keys : \A i \in DOMAIN log[k] : i \in DOMAIN log'[k] /\ log'[k][i] = log[k][i]
    BY <1>3, LogGrows
  <2>3. LastIsStored'
    BY <2>1, <2>2
  <2>4. CommittedIsLogged'
    BY <2>1, <2>2
  <2>5. CreatedIsStored'
    BY <2>1, <2>2
  <2> QED
    BY <2>3, <2>4, <2>5
<1>4. ASSUME NEW r \in Requests, Refresh(r) PROVE AnswerInv'
  <2>1. CASE IsStored(key[r], rowId[r])
    <3>1. /\ pc[r] = "refresh" /\ pc' = [pc EXCEPT ![r] = "created"]
          /\ shown' = [shown EXCEPT ![r] = rows[key[r]].value] /\ rows[key[r]] # None
          /\ UNCHANGED <<rows, key, log>>
      BY <1>4, <2>1 DEF Refresh, IsStored
    <3>2. PICK i \in DOMAIN log[key[r]] : log[key[r]][i] = r
      BY <3>1
    <3>3. /\ Len(log[key[r]]) \in DOMAIN log[key[r]] /\ i <= Len(log[key[r]])
          /\ log[key[r]][Len(log[key[r]])] = rows[key[r]].value
      <4>1. log[key[r]] \in Seq(Requests) /\ log[key[r]] # <<>>
        BY <3>1
      <4>2. DOMAIN log[key[r]] = 1 .. Len(log[key[r]]) /\ Len(log[key[r]]) \in Nat
        BY <4>1
      <4> QED
        BY <3>1, <3>2, <4>1, <4>2
    <3>4. CreatedIsStored'
      BY <3>1, <3>2, <3>3
    <3> QED
      BY <3>1, <3>4
  <2>2. CASE ~ IsStored(key[r], rowId[r])
    <3>1. pc' = [pc EXCEPT ![r] = "failed"] /\ UNCHANGED <<rows, key, log, shown>>
      BY <1>4, <2>2 DEF Refresh
    <3> QED
      BY <3>1
  <2> QED
    BY <2>1, <2>2
<1>5. ASSUME NEW r \in Requests, NEW id \in 1 .. nextId, Load(r, id) PROVE AnswerInv'
  <2>1. UNCHANGED <<rows, key, log, shown>>
    BY <1>5 DEF Load
  <2>2. CASE pc' = [pc EXCEPT ![r] = "loaded"]
    BY <2>1, <2>2
  <2>3. CASE pc' = [pc EXCEPT ![r] = "missing"]
    BY <2>1, <2>3
  <2> QED
    BY <1>5, <2>2, <2>3 DEF Load
<1>6. ASSUME NEW r \in Requests, Delete(r) PROVE AnswerInv'
  BY <1>6 DEF Delete
<1>7. ASSUME NEW r \in Requests, CommitDelete(r) PROVE AnswerInv'
  BY <1>7 DEF CommitDelete
<1>8. ASSUME NEW r \in Requests, Rollback(r) PROVE AnswerInv'
  BY <1>8 DEF Rollback
<1>9. CASE UNCHANGED vars
  BY <1>9 DEF vars
<1> QED
  BY <1>1, <1>2, <1>3, <1>4, <1>5, <1>6, <1>7, <1>8, <1>9 DEF Next

\* An upsert answered 201 was committed, and its answer shows its own value
\* or a later one of the same field, never one it has overwritten, though the
\* re-read is a transaction of its own that others get in front of.
THEOREM AnswerIsCurrent == ASSUME ConstantsOK PROVE Spec => []CreatedIsStored
<1>1. Init => AnswerInv
  BY DEF Init, AnswerInv, LastIsStored, CommittedIsLogged, CreatedIsStored
<1>2. AnswerInv => CreatedIsStored
  BY DEF AnswerInv
<1> QED
  BY <1>1, <1>2, AnswerStep, Invariance, PTL DEF Spec
=============================================================================
