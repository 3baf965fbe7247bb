--------------------------- MODULE PromptVersions ---------------------------
(***************************************************************************)
(* The prompt versions of /prompt-versions and which of them is active in  *)
(* its scope. A request is one PostgreSQL transaction at READ COMMITTED;   *)
(* an UPDATE waits for the transaction that has locked a row, and          *)
(* PostgreSQL aborts a transaction when they wait for each other.          *)
(***************************************************************************)
EXTENDS Naturals, FiniteSets

CONSTANTS Versions,   \* row ids of prompt_versions
          ScopeOf,    \* the (scope_type, scope_id) of each version
          Initial,    \* the versions stored at first, one active per scope
          Requests,   \* the requests of the run, one transaction each
          Creators,   \* the requests that may POST
          None        \* no request holds the lock; no version chosen yet

ASSUME InitialAssumption == Initial \subseteq Versions
ASSUME CreatorsAssumption == Creators \subseteq Requests
ASSUME NoneAssumption == None \notin Requests

VARIABLES
    row,      \* committed state: "absent", "inactive" or "active"
    pc,       \* where each request stands
    change,   \* what it does: "create", "activate", "deactivate", "edit", "delete"
    target,   \* the version it is about
    isActive, \* obj.is_active in its session
    writes,   \* its uncommitted writes, by version
    siblings, \* rows its UPDATE of the siblings has found and not yet written
    holder    \* who has locked each row

vars == <<row, pc, change, target, isActive, writes, siblings, holder>>

Status == {"absent", "inactive", "active"}
Writes == [Versions -> Status \cup {"none"}]
NoWrites == [v \in Versions |-> "none"]

Init ==
    /\ row \in {f \in [Versions -> Status] :
                  /\ \A v \in Versions : f[v] = "absent" <=> v \notin Initial
                  /\ \A u, v \in Versions :
                        f[u] = "active" /\ f[v] = "active" /\ ScopeOf[u] = ScopeOf[v] => u = v}
    /\ pc = [r \in Requests |-> "idle"]
    /\ change = [r \in Requests |-> "none"]
    /\ target = [r \in Requests |-> None]
    /\ isActive = [r \in Requests |-> FALSE]
    /\ writes = [r \in Requests |-> NoWrites]
    /\ siblings = [r \in Requests |-> {}]
    /\ holder = [v \in Versions |-> None]

GoTo(r, step) == pc' = [pc EXCEPT ![r] = step]
Free(v, r) == holder[v] \in {None, r}
Lock(v, r) == holder' = [holder EXCEPT ![v] = r]
Unlock(r) == holder' = [v \in Versions |-> IF holder[v] = r THEN None ELSE holder[v]]
WriteRow(r, v, status) == writes' = [writes EXCEPT ![r][v] = status]

\* Mutant: get_session does not roll back, the locks stay.
FailLocked(r) ==
    /\ GoTo(r, "failed")
    /\ UNCHANGED <<writes, holder>>

\* get_session rolls the transaction back.
Fail(r) ==
    /\ writes' = [writes EXCEPT ![r] = NoWrites]
    /\ Unlock(r)
    /\ GoTo(r, "failed")

\* Mutant: a PATCH does not deactivate the siblings.
AfterFlushPost(r, active) == GoTo(r, IF active /\ change[r] = "none" THEN "siblings" ELSE "refresh")

\* After its own flush a request writes the siblings if its row is active.
AfterFlush(r, active) == GoTo(r, IF active THEN "siblings" ELSE "refresh")

-----------------------------------------------------------------------------
\* create_prompt_version: the INSERT gets a fresh id; nobody else sees the
\* row before the commit.
Create(r, v, active) ==
    /\ pc[r] = "idle"
    /\ r \in Creators
    /\ row[v] = "absent" /\ v \notin Initial
    /\ \A q \in Requests : target[q] = v => change[q] # "create"
    /\ change' = [change EXCEPT ![r] = "create"]
    /\ target' = [target EXCEPT ![r] = v]
    /\ isActive' = [isActive EXCEPT ![r] = active]
    /\ WriteRow(r, v, IF active THEN "active" ELSE "inactive")
    /\ Lock(v, r)
    /\ AfterFlush(r, active)
    /\ UNCHANGED <<row, siblings>>

\* update_prompt_version and delete_prompt_version load the row.
Load(r, v, c) ==
    /\ pc[r] = "idle"
    /\ row[v] # "absent"
    /\ change' = [change EXCEPT ![r] = c]
    /\ target' = [target EXCEPT ![r] = v]
    /\ isActive' = [isActive EXCEPT ![r] = row[v] = "active"]
    /\ GoTo(r, IF c = "delete" THEN "delete" ELSE "flush")
    /\ UNCHANGED <<row, writes, siblings, holder>>

\* Mutant: the UPDATE writes every column, as loaded.
NeverSame(r, active) == FALSE

\* SQLAlchemy leaves is_active out of the UPDATE if it is as loaded.
Same(r, active) == active = isActive[r]

\* The flush writes the columns that differ from what was loaded: nothing if
\* none does, and of an edit only the content. It fails if the row is gone.
Flush(r) ==
    LET v == target[r]
        active == CASE change[r] = "activate" -> TRUE
                    [] change[r] = "deactivate" -> FALSE
                    [] OTHER -> isActive[r]
    IN  /\ pc[r] = "flush"
        /\ IF Same(r, active) /\ change[r] # "edit"
           THEN AfterFlush(r, active) /\ UNCHANGED <<isActive, writes, holder>>
           ELSE /\ Free(v, r)
                /\ IF row[v] = "absent"
                   THEN Fail(r) /\ UNCHANGED isActive
                   ELSE /\ isActive' = [isActive EXCEPT ![r] = active]
                        /\ IF Same(r, active) THEN UNCHANGED writes
                           ELSE WriteRow(r, v, IF active THEN "active" ELSE "inactive")
                        /\ Lock(v, r)
                        /\ AfterFlush(r, active)
        /\ UNCHANGED <<row, change, target, siblings>>

\* Mutant: the UPDATE does not filter on the scope.
Others(v) == {u \in Versions \ {v} : row[u] # "absent"}

\* The WHERE clause of _deactivate_siblings.
Siblings(v) == {u \in Versions \ {v} : row[u] # "absent" /\ ScopeOf[u] = ScopeOf[v]}

\* _deactivate_siblings: the UPDATE finds the committed rows of the scope.
FindSiblings(r) ==
    /\ pc[r] = "siblings"
    /\ siblings' = [siblings EXCEPT ![r] = Siblings(target[r])]
    /\ GoTo(r, "writing")
    /\ UNCHANGED <<row, change, target, isActive, writes, holder>>

\* It writes them one by one, each when its lock is free; a row deleted
\* while it waited is skipped.
DeactivateSibling(r, u) ==
    /\ pc[r] = "writing"
    /\ u \in siblings[r]
    /\ Free(u, r)
    /\ siblings' = [siblings EXCEPT ![r] = @ \ {u}]
    /\ IF row[u] = "absent"
       THEN UNCHANGED <<writes, holder>>
       ELSE WriteRow(r, u, "inactive") /\ Lock(u, r)
    /\ UNCHANGED <<row, pc, change, target, isActive>>

\* session.refresh, once the siblings are written: it raises when another
\* request has deleted the row of a PATCH that did not have to write it, and
\* the writes to the siblings are rolled back.
Refresh(r) ==
    /\ \/ pc[r] = "refresh"
       \/ pc[r] = "writing" /\ siblings[r] = {}
    /\ IF writes[r][target[r]] = "none" /\ row[target[r]] = "absent"
       THEN Fail(r)
       ELSE GoTo(r, "commit") /\ UNCHANGED <<writes, holder>>
    /\ UNCHANGED <<row, change, target, isActive, siblings>>

\* delete_prompt_version: the DELETE goes out with the commit's flush.
FlushDelete(r) ==
    /\ pc[r] = "delete"
    /\ Free(target[r], r)
    /\ IF row[target[r]] = "absent"
       THEN UNCHANGED <<writes, holder>>
       ELSE WriteRow(r, target[r], "absent") /\ Lock(target[r], r)
    /\ GoTo(r, "commit")
    /\ UNCHANGED <<row, change, target, isActive, siblings>>

Commit(r) ==
    /\ pc[r] = "commit"
    /\ row' = [v \in Versions |-> IF writes[r][v] = "none" THEN row[v] ELSE writes[r][v]]
    /\ Unlock(r)
    /\ GoTo(r, "done")
    /\ UNCHANGED <<change, target, isActive, writes, siblings>>

\* The rows a blocked statement of r may be waiting for.
Wanted(r) == CASE pc[r] \in {"flush", "delete"} -> {target[r]}
               [] pc[r] = "writing" -> siblings[r]
               [] OTHER -> {}

WaitsFor(r, q) == q # r /\ \E v \in Wanted(r) : holder[v] = q

\* PostgreSQL's deadlock detector aborts one of the requests of a cycle.
DeadlockVictim(r) ==
    /\ \E q \in Requests :
          /\ WaitsFor(r, q)
          /\ WaitsFor(q, r) \/ \E p \in Requests : WaitsFor(q, p) /\ WaitsFor(p, r)
    /\ Fail(r)
    /\ UNCHANGED <<row, change, target, isActive, siblings>>

Step(r) ==
    \/ Flush(r) \/ FindSiblings(r) \/ (\E u \in Versions : DeactivateSibling(r, u))
    \/ Refresh(r) \/ FlushDelete(r) \/ Commit(r) \/ DeadlockVictim(r)

Next ==
    \E r \in Requests :
        \/ \E v \in Versions, active \in BOOLEAN : Create(r, v, active)
        \/ \E v \in Versions, c \in {"activate", "deactivate", "edit", "delete"} : Load(r, v, c)
        \/ Step(r)

Spec == Init /\ [][Next]_vars

\* The event loop and PostgreSQL go on with every request that is not blocked.
FairSpec == Spec /\ \A r \in Requests : WF_vars(Step(r))

-----------------------------------------------------------------------------
(* Properties.                                                             *)

\* "At most one version per scope SHALL be active" (prompt_versions.py:6-7).
AtMostOneActive ==
    \A u, v \in Versions :
        row[u] = "active" /\ row[v] = "active" /\ ScopeOf[u] = ScopeOf[v] => u = v

\* A request changes no version outside the scope of its own.
ScopeIsolated ==
    [][\A r \in Requests :
          pc[r] # "done" /\ pc'[r] = "done" =>
              \A v \in Versions : ScopeOf[v] # ScopeOf[target[r]] => row'[v] = row[v]]_vars

\* A version only becomes active by a request that activates or creates it:
\* a lost or late write never brings an old one back.
OnlyActivatedOnPurpose ==
    [][\A v \in Versions :
          row[v] # "active" /\ row'[v] = "active" =>
              \E r \in Requests : /\ pc[r] = "commit" /\ pc'[r] = "done"
                                  /\ target[r] = v
                                  /\ change[r] \in {"create", "activate"}]_vars

\* Every request ends, committed or failed, however their locks cross.
RequestsEnd ==
    \A r \in Requests : pc[r] \in {"flush", "siblings", "delete"} ~> pc[r] \in {"done", "failed"}
=============================================================================
