----------------------- MODULE PromptVersions_proofs -----------------------
(***************************************************************************)
(* Theorems about PromptVersions, for every set of versions, scopes and    *)
(* requests. Two facts carry them: a row that a request has written is     *)
(* locked by it until it ends, and a request about to activate its version *)
(* deactivates every other version of the scope that was stored at first.  *)
(***************************************************************************)
EXTENDS PromptVersions, TLAPS

Open == {"flush", "delete", "siblings", "writing", "refresh", "commit"}

TypeOK ==
    /\ row \in [Versions -> Status]
    /\ pc \in [Requests -> Open \cup {"idle", "done", "failed"}]
    /\ change \in [Requests -> {"none", "create", "activate", "deactivate", "edit", "delete"}]
    /\ target \in [Requests -> Versions \cup {None}]
    /\ isActive \in [Requests -> BOOLEAN]
    /\ writes \in [Requests -> Writes]
    /\ siblings \in [Requests -> SUBSET Versions]
    /\ holder \in [Versions -> Requests \cup {None}]

\* A request that has begun is about a version; it has written nothing and
\* found no siblings before its first flush, and only looks for siblings in
\* its own scope.
Begun ==
    \A r \in Requests :
        /\ pc[r] = "idle" => change[r] = "none"
        /\ pc[r] # "idle" => target[r] \in Versions
        /\ pc[r] \in {"idle", "flush", "delete"} => writes[r] = NoWrites /\ siblings[r] = {}
        /\ \A u \in siblings[r] : u # target[r] /\ ScopeOf[u] = ScopeOf[target[r]]

\* A request writes "active" only to its own version, to create or activate it,
\* and no row of another scope.
WritesInScope ==
    \A r \in Requests : \A v \in Versions :
        /\ writes[r][v] # "none" => ScopeOf[v] = ScopeOf[target[r]]
        /\ writes[r][v] = "active" => v = target[r] /\ change[r] \in {"create", "activate"}

\* Of an open request, each row it has written is locked by it.
WrittenIsLocked ==
    \A r \in Requests : pc[r] \in Open => \A v \in Versions : writes[r][v] # "none" => holder[v] = r

\* A lock belongs to an open request, on a row that is stored or that it
\* creates.
LockedIsStored ==
    \A v \in Versions :
        holder[v] # None =>
            /\ pc[holder[v]] \in Open
            /\ row[v] # "absent" \/ (change[holder[v]] = "create" /\ target[holder[v]] = v)

\* A version that was not stored at first has a POST it comes from.
CreatedBy(v) == \E c \in Creators : change[c] = "create" /\ target[c] = v

\* Only stored or created versions are stored, and requests are about them.
HasOrigin ==
    /\ \A v \in Versions : row[v] # "absent" => v \in Initial \/ CreatedBy(v)
    /\ \A r \in Requests : pc[r] # "idle" => target[r] \in Initial \/ CreatedBy(target[r])
    /\ \A r \in Requests : change[r] = "create" => target[r] \notin Initial

\* r is to make its version the active one.
Activating(r) == target[r] \in Versions /\ writes[r][target[r]] = "active"

\* What r still has to deactivate, or has.
Covers(r, u) == u \in siblings[r] \/ writes[r][u] = "inactive"

\* A request that activates goes through its siblings: once it has found them
\* it covers every version stored at first and every active one, and when it
\* commits none is left to write.
Covered(r) ==
    Activating(r) =>
        /\ pc[r] \in {"siblings", "writing", "commit", "done"}
        /\ pc[r] = "commit" => siblings[r] = {}
        /\ pc[r] \in {"writing", "commit"} =>
             \A u \in Versions \ {target[r]} :
                ScopeOf[u] = ScopeOf[target[r]] =>
                   /\ u \in Initial /\ row[u] # "absent" => Covers(r, u)
                   /\ row[u] = "active" => Covers(r, u)

SiblingsCovered == \A r \in Requests : Covered(r)

\* What holds for any number of concurrent requests of any kind.
Basics == /\ TypeOK /\ Begun /\ WritesInScope /\ WrittenIsLocked
          /\ LockedIsStored /\ HasOrigin

\* What holds when at most one of them is a POST.
IInv == Basics /\ SiblingsCovered /\ AtMostOneActive

-----------------------------------------------------------------------------
(* What the helpers of the actions do to the functions they update.        *)

\* WriteRow writes one version of one request's session.
LEMMA OneWrite ==
    ASSUME writes \in [Requests -> Writes], NEW r \in Requests, NEW v \in Versions,
           NEW status \in Status, WriteRow(r, v, status)
    PROVE  /\ writes' \in [Requests -> Writes]
           /\ writes'[r][v] = status
           /\ \A q \in Requests : q # r => writes'[q] = writes[q]
           /\ \A q \in Requests : \A u \in Versions : q # r \/ u # v => writes'[q][u] = writes[q][u]
<1>1. writes' = [writes EXCEPT ![r] = [writes[r] EXCEPT ![v] = status]]
  BY DEF WriteRow
<1>2. writes[r] \in [Versions -> Status \cup {"none"}]
  BY DEF Writes
<1>3. [writes[r] EXCEPT ![v] = status] \in Writes
  BY <1>2 DEF Writes
<1> QED
  BY <1>1, <1>2, <1>3

\* A rollback gives back every lock of the request and drops its writes.
LEMMA FailKeeps ==
    ASSUME Basics, NEW r \in Requests, pc[r] \in Open, Fail(r),
           UNCHANGED <<row, change, target, isActive, siblings>>
    PROVE  Basics'
<1> USE DEF Basics, TypeOK
<1>1. /\ pc' = [pc EXCEPT ![r] = "failed"]
      /\ writes' = [writes EXCEPT ![r] = NoWrites]
      /\ holder' = [v \in Versions |-> IF holder[v] = r THEN None ELSE holder[v]]
  BY DEF Fail, GoTo, Unlock
<1>2. NoWrites \in Writes /\ \A v \in Versions : NoWrites[v] = "none"
  BY DEF NoWrites, Writes
<1>3. TypeOK'
  BY <1>1, <1>2
<1>4. Begun'
  BY <1>1 DEF Begun, Open
<1>5. WritesInScope' /\ WrittenIsLocked'
  BY <1>1, <1>2, NoneAssumption DEF WritesInScope, WrittenIsLocked, Open
<1>6. LockedIsStored'
  BY <1>1, NoneAssumption DEF LockedIsStored
<1>7. HasOrigin'
  <2>1. \A v \in Versions \cup {None} : CreatedBy(v)' <=> CreatedBy(v)
    BY DEF CreatedBy
  <2> QED
    BY <1>1, <2>1 DEF HasOrigin, Open
<1> QED
  BY <1>3, <1>4, <1>5, <1>6, <1>7

\* Whatever a request that has not flushed yet writes to its own version, the
\* lock is taken with it.
LEMMA FlushKeeps ==
    ASSUME Basics, NEW r \in Requests, pc[r] = "flush", Flush(r)
    PROVE  Basics'
<1> USE InitialAssumption, CreatorsAssumption, NoneAssumption DEF Basics
<1> DEFINE v == target[r]
           active == CASE change[r] = "activate" -> TRUE
                       [] change[r] = "deactivate" -> FALSE
                       [] OTHER -> isActive[r]
<1>1. /\ v \in Versions /\ writes[r] = NoWrites /\ active \in BOOLEAN
      /\ UNCHANGED <<row, change, target, siblings>>
  BY DEF Flush, Begun, TypeOK
<1>2. CASE Fail(r) /\ UNCHANGED isActive
  BY <1>1, <1>2, FailKeeps DEF Open
<1>3. CASE ~ (Fail(r) /\ UNCHANGED isActive)
  <2>1. PICK step \in {"siblings", "refresh"} : pc' = [pc EXCEPT ![r] = step]
    BY <1>3 DEF Flush, AfterFlush, GoTo
  <2>2. /\ \/ UNCHANGED isActive
           \/ isActive' = [isActive EXCEPT ![r] = active]
        /\ \/ UNCHANGED holder
           \/ Free(v, r) /\ Lock(v, r) /\ row[v] # "absent"
    BY <1>3 DEF Flush
  <2>3. \/ UNCHANGED writes
        \/ /\ WriteRow(r, v, IF active THEN "active" ELSE "inactive")
           /\ Lock(v, r)
           /\ active => change[r] \in {"create", "activate"}
    BY <1>3 DEF Flush, Same
  <2> HIDE DEF active, v
  <2>4. /\ writes' \in [Requests -> Writes]
        /\ \A q \in Requests : q # r => writes'[q] = writes[q]
        /\ \A q \in Requests : \A u \in Versions : q # r \/ u # v => writes'[q][u] = writes[q][u]
        /\ writes'[r][v] # "none" => holder' = [holder EXCEPT ![v] = r]
        /\ writes'[r][v] = "active" => change[r] \in {"create", "activate"}
    <3>1. CASE UNCHANGED writes
      BY <1>1, <3>1 DEF TypeOK, NoWrites
    <3>2. CASE ~ UNCHANGED writes
      <4> DEFINE status == IF active THEN "active" ELSE "inactive"
      <4>1. status \in Status /\ WriteRow(r, v, status)
        BY <2>3, <3>2 DEF Status
      <4>2. status # "none" /\ (status = "active" => active)
        OBVIOUS
      <4> HIDE DEF status
      <4>3. writes \in [Requests -> Writes]
        BY DEF TypeOK
      <4>4. /\ writes' \in [Requests -> Writes] /\ writes'[r][v] = status
            /\ \A q \in Requests : q # r => writes'[q] = writes[q]
            /\ \A q \in Requests : \A u \in Versions : q # r \/ u # v => writes'[q][u] = writes[q][u]
        BY <1>1, <4>1, <4>3, OneWrite
      <4> QED
        BY <2>3, <3>2, <4>2, <4>4 DEF Lock
    <3> QED
      BY <3>1, <3>2
  <2>5. \A u \in Versions : writes[r][u] = "none"
    BY <1>1 DEF NoWrites
  <2>6. TypeOK'
    <3>1. pc' \in [Requests -> Open \cup {"idle", "done", "failed"}]
      BY <2>1 DEF TypeOK, Open
    <3>2. isActive' \in [Requests -> BOOLEAN] /\ holder' \in [Versions -> Requests \cup {None}]
      BY <1>1, <2>2 DEF TypeOK, Lock
    <3> QED
      BY <1>1, <2>4, <3>1, <3>2 DEF TypeOK
  <2>7. Begun'
    <3>1. pc'[r] \notin {"idle", "flush", "delete"} /\ \A q \in Requests : q # r => pc'[q] = pc[q]
      BY <2>1 DEF TypeOK
    <3> QED
      BY <1>1, <2>4, <3>1 DEF Begun
  <2>8. WritesInScope'
    BY <1>1, <2>4, <2>5 DEF WritesInScope, v
  <2>9. WrittenIsLocked'
    <3>1. ASSUME NEW q \in Requests, pc'[q] \in Open, NEW u \in Versions, writes'[q][u] # "none"
          PROVE  holder'[u] = q
      <4>1. CASE q = r
        BY <1>1, <2>4, <2>5, <3>1, <4>1 DEF TypeOK
      <4>2. CASE q # r
        <5>1. pc[q] \in Open /\ writes[q][u] # "none" /\ holder[u] = q
          BY <2>1, <2>4, <3>1, <4>2 DEF TypeOK, WrittenIsLocked
        <5> QED
          BY <1>1, <2>2, <4>2, <5>1 DEF TypeOK, Free, Lock
      <4> QED
        BY <4>1, <4>2
    <3> QED
      BY <3>1 DEF WrittenIsLocked
  <2>10. LockedIsStored'
    BY <1>1, <2>1, <2>2 DEF TypeOK, LockedIsStored, Lock, Open
  <2>11. HasOrigin'
    BY <1>1, <2>1 DEF TypeOK, HasOrigin, CreatedBy
  <2> QED
    BY <2>6, <2>7, <2>8, <2>9, <2>10, <2>11
<1> QED
  BY <1>2, <1>3

\* A POST keeps them: nobody else is about its row, or has locked it.
LEMMA CreateKeeps ==
    ASSUME Basics, NEW r \in Requests, NEW v \in Versions, NEW active \in BOOLEAN, Create(r, v, active)
    PROVE  Basics'
<1> USE NoneAssumption DEF Basics
<1>1. /\ pc[r] = "idle" /\ r \in Creators /\ row[v] = "absent" /\ v \notin Initial
      /\ change' = [change EXCEPT ![r] = "create"]
      /\ target' = [target EXCEPT ![r] = v]
      /\ isActive' = [isActive EXCEPT ![r] = active]
      /\ holder' = [holder EXCEPT ![v] = r]
      /\ UNCHANGED <<row, siblings>>
  BY DEF Create, Lock
<1>2. PICK step \in {"siblings", "refresh"} : pc' = [pc EXCEPT ![r] = step]
  BY DEF Create, AfterFlush, GoTo
<1>3. /\ writes' \in [Requests -> Writes]
      /\ writes'[r][v] # "none"
      /\ \A q \in Requests : q # r => writes'[q] = writes[q]
      /\ \A u \in Versions : u # v => writes'[r][u] = "none"
  <2>1. PICK status \in Status : status # "none" /\ WriteRow(r, v, status)
    BY DEF Create, Status
  <2>2. writes \in [Requests -> Writes] /\ \A u \in Versions : writes[r][u] = "none"
    BY <1>1 DEF TypeOK, Begun, NoWrites
  <2> QED
    BY <2>1, <2>2, OneWrite
<1>4. \A q \in Requests : q # r => pc'[q] = pc[q] /\ change'[q] = change[q] /\ target'[q] = target[q]
  BY <1>1, <1>2 DEF TypeOK
<1>5. change'[r] = "create" /\ target'[r] = v /\ pc'[r] \in Open \ {"flush", "delete"}
  BY <1>1, <1>2 DEF TypeOK, Open
<1>6. holder[v] = None
  BY <1>1 DEF TypeOK, LockedIsStored, Create
<1>7. TypeOK'
  <2>1. pc' \in [Requests -> Open \cup {"idle", "done", "failed"}]
    BY <1>2 DEF TypeOK, Open
  <2> QED
    BY <1>1, <1>3, <2>1 DEF TypeOK
<1>8. Begun'
  BY <1>1, <1>3, <1>4, <1>5 DEF Begun, Open
<1>9. WritesInScope'
  BY <1>1, <1>3, <1>4, <1>5 DEF WritesInScope
<1>10. WrittenIsLocked'
  BY <1>1, <1>3, <1>4, <1>6 DEF TypeOK, WrittenIsLocked
<1>11. LockedIsStored'
  BY <1>1, <1>4, <1>5, <1>6 DEF TypeOK, LockedIsStored, Open
<1>12. HasOrigin'
  <2>1. \A u \in Versions : CreatedBy(u) => CreatedBy(u)'
    BY <1>1, <1>4, <1>5, CreatorsAssumption DEF Begun, CreatedBy
  <2>2. CreatedBy(v)'
    BY <1>1, <1>5 DEF CreatedBy
  <2> QED
    BY <1>1, <1>4, <1>5, <2>1, <2>2, InitialAssumption DEF Begun, HasOrigin
<1> QED
  BY <1>7, <1>8, <1>9, <1>10, <1>11, <1>12

\* A PATCH or DELETE that loads its row keeps them: it has written nothing yet.
LEMMA LoadKeeps ==
    ASSUME Basics, NEW r \in Requests, NEW v \in Versions,
           NEW c \in {"activate", "deactivate", "edit", "delete"}, Load(r, v, c)
    PROVE  Basics'
<1> USE NoneAssumption DEF Basics
<1>1. /\ pc[r] = "idle" /\ row[v] # "absent"
      /\ change' = [change EXCEPT ![r] = c]
      /\ target' = [target EXCEPT ![r] = v]
      /\ isActive' = [isActive EXCEPT ![r] = row[v] = "active"]
      /\ UNCHANGED <<row, writes, siblings, holder>>
  BY DEF Load
<1>2. PICK step \in {"flush", "delete"} : pc' = [pc EXCEPT ![r] = step]
  BY DEF Load, GoTo
<1>3. \A q \in Requests : q # r => pc'[q] = pc[q] /\ change'[q] = change[q] /\ target'[q] = target[q]
  BY <1>1, <1>2 DEF TypeOK
<1>4. change'[r] = c /\ target'[r] = v /\ pc'[r] \in {"flush", "delete"}
  BY <1>1, <1>2 DEF TypeOK
<1>5. writes[r] = NoWrites /\ siblings[r] = {} /\ change[r] = "none" /\ \A u \in Versions : writes[r][u] = "none"
  BY <1>1 DEF Begun, NoWrites
<1>6. TypeOK'
  <2>1. pc' \in [Requests -> Open \cup {"idle", "done", "failed"}]
    BY <1>2 DEF TypeOK, Open
  <2>2. (row[v] = "active") \in BOOLEAN
    OBVIOUS
  <2> QED
    BY <1>1, <2>1, <2>2 DEF TypeOK
<1>7. Begun'
  BY <1>1, <1>3, <1>4, <1>5 DEF Begun
<1>8. WritesInScope' /\ WrittenIsLocked'
  BY <1>1, <1>3, <1>4, <1>5 DEF WritesInScope, WrittenIsLocked
<1>9. LockedIsStored'
  BY <1>1, <1>3, <1>4 DEF TypeOK, LockedIsStored, Open
<1>10. HasOrigin'
  <2>1. \A u \in Versions : CreatedBy(u) => CreatedBy(u)'
    BY <1>3, <1>5, CreatorsAssumption DEF CreatedBy
  <2> QED
    BY <1>1, <1>3, <1>4, <2>1, InitialAssumption DEF Begun, HasOrigin
<1> QED
  BY <1>6, <1>7, <1>8, <1>9, <1>10

\* The UPDATE that finds the siblings keeps them: it finds only the own scope.
LEMMA FindKeeps ==
    ASSUME Basics, NEW r \in Requests, FindSiblings(r)
    PROVE  Basics'
<1> USE DEF Basics
<1>1. /\ pc[r] = "siblings" /\ pc' = [pc EXCEPT ![r] = "writing"]
      /\ siblings' = [siblings EXCEPT ![r] = Siblings(target[r])]
      /\ UNCHANGED <<row, change, target, isActive, writes, holder>>
  BY DEF FindSiblings, GoTo
<1>2. TypeOK'
  <2>1. Siblings(target[r]) \subseteq Versions
    BY DEF Siblings
  <2> QED
    BY <1>1, <2>1 DEF TypeOK, Open
<1>3. Begun'
  BY <1>1 DEF TypeOK, Begun, Siblings
<1>4. WritesInScope' /\ WrittenIsLocked' /\ LockedIsStored'
  BY <1>1 DEF TypeOK, WritesInScope, WrittenIsLocked, LockedIsStored, Open
<1>5. HasOrigin'
  BY <1>1 DEF TypeOK, HasOrigin, CreatedBy
<1> QED
  BY <1>2, <1>3, <1>4, <1>5

\* A write to a sibling keeps them: the row's lock is taken with it.
LEMMA DeactivateKeeps ==
    ASSUME Basics, NEW r \in Requests, NEW u \in Versions, DeactivateSibling(r, u)
    PROVE  Basics'
<1> USE NoneAssumption DEF Basics
<1>1. /\ pc[r] = "writing" /\ u \in siblings[r] /\ holder[u] \in {None, r}
      /\ siblings' = [siblings EXCEPT ![r] = @ \ {u}]
      /\ UNCHANGED <<row, pc, change, target, isActive>>
  BY DEF DeactivateSibling, Free
<1>2. u # target[r] /\ ScopeOf[u] = ScopeOf[target[r]]
  BY <1>1 DEF Begun
<1>3. Begun' /\ HasOrigin' /\ siblings' \in [Requests -> SUBSET Versions]
  <2>1. siblings' \in [Requests -> SUBSET Versions]
    BY <1>1 DEF TypeOK
  <2>2. \A q \in Requests : pc[q] \in {"idle", "flush", "delete"} => writes'[q] = writes[q]
    BY <1>1 DEF DeactivateSibling, WriteRow, TypeOK
  <2>3. \A q \in Requests : siblings'[q] \subseteq siblings[q]
    BY <1>1 DEF TypeOK
  <2>4. Begun'
    BY <1>1, <2>2, <2>3 DEF Begun
  <2> QED
    BY <1>1, <2>1, <2>4 DEF HasOrigin, CreatedBy
<1>4. CASE row[u] = "absent"
  <2>1. UNCHANGED <<row, writes, holder, pc, change, target, isActive>>
    BY <1>1, <1>4 DEF DeactivateSibling
  <2> QED
    BY <1>3, <2>1 DEF TypeOK, WritesInScope, WrittenIsLocked, LockedIsStored
<1>5. CASE row[u] # "absent"
  <2>1. WriteRow(r, u, "inactive") /\ holder' = [holder EXCEPT ![u] = r]
    BY <1>5 DEF DeactivateSibling, Lock
  <2>2. /\ writes' \in [Requests -> Writes]
        /\ writes'[r][u] = "inactive"
        /\ \A q \in Requests : \A w \in Versions : q # r \/ w # u => writes'[q][w] = writes[q][w]
    <3>1. "inactive" \in Status /\ writes \in [Requests -> Writes]
      BY DEF TypeOK, Status
    <3> QED
      BY <2>1, <3>1, OneWrite
  <2>3. TypeOK'
    BY <1>1, <1>3, <2>1, <2>2 DEF TypeOK
  <2>4. WritesInScope'
    BY <1>1, <1>2, <2>2 DEF WritesInScope
  <2>5. WrittenIsLocked'
    BY <1>1, <2>1, <2>2 DEF TypeOK, WrittenIsLocked
  <2>6. LockedIsStored'
    BY <1>1, <1>5, <2>1 DEF TypeOK, LockedIsStored, Open
  <2> QED
    BY <1>3, <2>3, <2>4, <2>5, <2>6
<1> QED
  BY <1>4, <1>5

\* The refresh keeps them, whether it raises or not.
LEMMA RefreshKeeps ==
    ASSUME Basics, NEW r \in Requests, Refresh(r)
    PROVE  Basics'
<1> USE DEF Basics
<1>1. pc[r] \in Open /\ pc[r] \in {"refresh", "writing"} /\ UNCHANGED <<row, change, target, isActive, siblings>>
  BY DEF Refresh, Open
<1>2. CASE Fail(r)
  BY <1>1, <1>2, FailKeeps
<1>3. CASE ~ Fail(r)
  <2>1. pc' = [pc EXCEPT ![r] = "commit"] /\ UNCHANGED <<writes, holder>>
    BY <1>3 DEF Refresh, GoTo
  <2>2. TypeOK'
    BY <1>1, <2>1 DEF TypeOK, Open
  <2>3. Begun'
    BY <1>1, <2>1 DEF TypeOK, Begun
  <2>4. WritesInScope' /\ WrittenIsLocked' /\ LockedIsStored'
    BY <1>1, <2>1 DEF TypeOK, WritesInScope, WrittenIsLocked, LockedIsStored, Open
  <2>5. HasOrigin'
    BY <1>1, <2>1 DEF TypeOK, HasOrigin, CreatedBy
  <2> QED
    BY <2>2, <2>3, <2>4, <2>5
<1> QED
  BY <1>2, <1>3

\* A DELETE keeps them: it locks the row it is to remove.
LEMMA DeleteKeeps ==
    ASSUME Basics, NEW r \in Requests, FlushDelete(r)
    PROVE  Basics'
<1> USE NoneAssumption DEF Basics
<1> DEFINE v == target[r]
<1>1. /\ pc[r] = "delete" /\ holder[v] \in {None, r} /\ pc' = [pc EXCEPT ![r] = "commit"]
      /\ UNCHANGED <<row, change, target, isActive, siblings>>
  BY DEF FlushDelete, Free, GoTo
<1>2. /\ v \in Versions /\ writes \in [Requests -> Writes]
      /\ \A u \in Versions : writes[r][u] = "none"
  BY <1>1 DEF TypeOK, Begun, NoWrites
<1>3. \A q \in Requests : q # r => pc'[q] = pc[q]
  BY <1>1 DEF TypeOK
<1>4. pc' \in [Requests -> Open \cup {"idle", "done", "failed"}] /\ pc'[r] = "commit"
  BY <1>1 DEF TypeOK, Open
<1>5. HasOrigin'
  BY <1>1, <1>3 DEF HasOrigin, CreatedBy
<1>6. CASE row[v] = "absent"
  <2>1. UNCHANGED <<writes, holder>>
    BY <1>6 DEF FlushDelete
  <2>2. TypeOK' /\ Begun' /\ WritesInScope'
    BY <1>1, <1>2, <1>3, <1>4, <2>1 DEF TypeOK, Begun, WritesInScope
  <2>3. WrittenIsLocked' /\ LockedIsStored'
    BY <1>1, <1>2, <1>3, <1>4, <2>1 DEF TypeOK, WrittenIsLocked, LockedIsStored, Open
  <2> QED
    BY <1>5, <2>2, <2>3
<1>7. CASE row[v] # "absent"
  <2>1. WriteRow(r, v, "absent") /\ holder' = [holder EXCEPT ![v] = r]
    BY <1>7 DEF FlushDelete, Lock
  <2>2. "absent" \in Status
    BY DEF Status
  <2>3. /\ writes' \in [Requests -> Writes]
        /\ writes'[r][v] = "absent"
        /\ \A q \in Requests : q # r => writes'[q] = writes[q]
        /\ \A u \in Versions : u # v => writes'[r][u] = "none"
    BY <1>2, <2>1, <2>2, OneWrite
  <2>4. TypeOK'
    BY <1>1, <1>2, <1>4, <2>1, <2>3 DEF TypeOK
  <2>5. Begun'
    BY <1>1, <1>2, <1>3, <1>4, <2>3 DEF Begun
  <2>6. WritesInScope'
    BY <1>1, <1>2, <2>3 DEF WritesInScope
  <2>7. WrittenIsLocked'
    BY <1>1, <1>2, <1>3, <2>1, <2>3 DEF TypeOK, WrittenIsLocked
  <2>8. LockedIsStored'
    BY <1>1, <1>2, <1>3, <1>4, <1>7, <2>1 DEF TypeOK, LockedIsStored, Open
  <2> QED
    BY <1>5, <2>4, <2>5, <2>6, <2>7, <2>8
<1> QED
  BY <1>6, <1>7

\* A commit keeps them: whatever it writes, it alone has locked.
LEMMA CommitKeeps ==
    ASSUME Basics, NEW r \in Requests, Commit(r)
    PROVE  Basics'
<1> USE NoneAssumption DEF Basics
<1>1. /\ pc[r] = "commit" /\ pc' = [pc EXCEPT ![r] = "done"]
      /\ row' = [v \in Versions |-> IF writes[r][v] = "none" THEN row[v] ELSE writes[r][v]]
      /\ holder' = [v \in Versions |-> IF holder[v] = r THEN None ELSE holder[v]]
      /\ UNCHANGED <<change, target, isActive, writes, siblings>>
  BY DEF Commit, Unlock, GoTo
<1>2. \A v \in Versions : writes[r][v] # "none" => holder[v] = r
  BY <1>1 DEF WrittenIsLocked, Open
<1>3. \A q \in Requests : q # r => pc'[q] = pc[q]
  BY <1>1 DEF TypeOK
<1>4. pc' \in [Requests -> Open \cup {"idle", "done", "failed"}] /\ pc'[r] = "done"
  BY <1>1 DEF TypeOK
<1>5. TypeOK'
  BY <1>1, <1>4 DEF TypeOK, Writes
<1>6. Begun' /\ WritesInScope'
  BY <1>1, <1>3, <1>4 DEF Begun, WritesInScope
<1>7. WrittenIsLocked' /\ LockedIsStored'
  BY <1>1, <1>2, <1>3, <1>4 DEF TypeOK, WrittenIsLocked, LockedIsStored, Open
<1>8. HasOrigin'
  <2>1. \A v \in Versions : row'[v] # "absent" => row[v] # "absent" \/ v = target[r] \/ CreatedBy(v)
    BY <1>1, <1>2 DEF WritesInScope, LockedIsStored, CreatedBy, TypeOK
  <2> QED
    BY <1>1, <1>3, <1>4, <2>1 DEF HasOrigin, CreatedBy
<1> QED
  BY <1>5, <1>6, <1>7, <1>8

\* Every step keeps the facts that hold for any number of requests.
LEMMA BasicsStep == Basics /\ [Next]_vars => Basics'
<1> SUFFICES ASSUME Basics, [Next]_vars PROVE Basics'
  OBVIOUS
<1>1. CASE Next
  <2>1. ASSUME NEW r \in Requests, DeadlockVictim(r)
        PROVE  Basics'
    <3>1. pc[r] \in Open
      BY <2>1 DEF DeadlockVictim, WaitsFor, Wanted, Open
    <3> QED
      BY <2>1, <3>1, FailKeeps DEF DeadlockVictim
  <2>2. ASSUME NEW r \in Requests, Flush(r)
        PROVE  Basics'
    BY <2>2, FlushKeeps DEF Flush
  <2> QED
    BY <1>1, <2>1, <2>2, CreateKeeps, LoadKeeps, FindKeeps, DeactivateKeeps, RefreshKeeps,
       DeleteKeeps, CommitKeeps DEF Next, Step
<1>2. CASE UNCHANGED vars
  BY <1>2 DEF vars, Basics, TypeOK, Begun, WritesInScope, WrittenIsLocked, LockedIsStored,
     HasOrigin, CreatedBy
<1> QED
  BY <1>1, <1>2

\* No request has locked or written anything at first.
LEMMA BasicsInit == Init => Basics
<1> SUFFICES ASSUME Init PROVE Basics
  OBVIOUS
<1> USE NoneAssumption DEF Init
<1>1. NoWrites \in Writes
  BY DEF NoWrites, Writes
<1>2. TypeOK
  BY <1>1 DEF TypeOK, Open
<1>3. Begun /\ LockedIsStored
  BY DEF Begun, LockedIsStored
<1>4. WritesInScope /\ WrittenIsLocked
  BY DEF WritesInScope, WrittenIsLocked, NoWrites
<1>5. HasOrigin
  BY DEF HasOrigin
<1> QED
  BY <1>2, <1>3, <1>4, <1>5 DEF Basics

\* The inductive invariant of any number of concurrent requests: a row that a
\* request has written stays locked by it until it ends.
THEOREM Invariance == Spec => []Basics
<1> QED
  BY BasicsInit, BasicsStep, PTL DEF Spec

-----------------------------------------------------------------------------
(* What a commit may change.                                               *)

\* Rows only change, and requests are only done, by a commit.
LEMMA OnlyCommits ==
    ASSUME Basics, [Next]_vars
    PROVE  \/ UNCHANGED row /\ \A r \in Requests : pc'[r] = "done" => pc[r] = "done"
           \/ \E r \in Requests : Commit(r)
<1> DEFINE Quiet == UNCHANGED row /\ \A r \in Requests : pc'[r] = "done" => pc[r] = "done"
<1> USE DEF Basics, TypeOK, GoTo
<1>1. ASSUME NEW r \in Requests, NEW v \in Versions, NEW active \in BOOLEAN, Create(r, v, active)
      PROVE  Quiet
  BY <1>1 DEF Create, AfterFlush
<1>2. ASSUME NEW r \in Requests, NEW v \in Versions,
             NEW c \in {"activate", "deactivate", "edit", "delete"}, Load(r, v, c)
      PROVE  Quiet
  BY <1>2 DEF Load
<1>3. ASSUME NEW r \in Requests, Flush(r)
      PROVE  Quiet
  <2>1. UNCHANGED row /\ \E step \in {"siblings", "refresh", "failed"} : pc' = [pc EXCEPT ![r] = step]
    BY <1>3 DEF Flush, AfterFlush, Fail
  <2> QED
    BY <2>1
<1>4. ASSUME NEW r \in Requests, FindSiblings(r) \/ FlushDelete(r)
      PROVE  Quiet
  BY <1>4 DEF FindSiblings, FlushDelete
<1>5. ASSUME NEW r \in Requests, NEW u \in Versions, DeactivateSibling(r, u)
      PROVE  Quiet
  BY <1>5 DEF DeactivateSibling
<1>6. ASSUME NEW r \in Requests, Refresh(r)
      PROVE  Quiet
  <2>1. UNCHANGED row /\ \E step \in {"commit", "failed"} : pc' = [pc EXCEPT ![r] = step]
    BY <1>6 DEF Refresh, Fail
  <2> QED
    BY <2>1
<1>7. ASSUME NEW r \in Requests, DeadlockVictim(r)
      PROVE  Quiet
  BY <1>7 DEF DeadlockVictim, Fail
<1>8. CASE UNCHANGED vars
  BY <1>8 DEF vars
<1> QED
  BY <1>1, <1>2, <1>3, <1>4, <1>5, <1>6, <1>7, <1>8 DEF Next, Step

\* A request changes no version outside the scope of its own: the UPDATE of the
\* siblings and the rows it locks stay within one (scope_type, scope_id).
THEOREM WritesStayInScope == Spec => ScopeIsolated
<1> DEFINE Isolated == \A r \in Requests :
                          pc[r] # "done" /\ pc'[r] = "done" =>
                              \A v \in Versions : ScopeOf[v] # ScopeOf[target[r]] => row'[v] = row[v]
<1>1. Basics /\ [Next]_vars => Isolated
  <2> SUFFICES ASSUME Basics, [Next]_vars, NEW r \in Requests, pc[r] # "done", pc'[r] = "done",
                      NEW v \in Versions, ScopeOf[v] # ScopeOf[target[r]]
               PROVE  row'[v] = row[v]
    OBVIOUS
  <2>1. PICK q \in Requests : Commit(q)
    BY OnlyCommits
  <2>2. q = r
    BY <2>1 DEF Commit, GoTo, Basics, TypeOK
  <2> QED
    BY <2>1, <2>2 DEF Commit, Basics, WritesInScope
<1>2. Basics /\ [Next]_vars => [Isolated]_vars
  BY <1>1
<1> QED
  BY <1>2, Invariance, PTL DEF Spec, ScopeIsolated

\* A version only becomes active by the commit of a request that creates or
\* activates it, for any number of concurrent requests of any kind.
THEOREM NoActivationByAccident == Spec => OnlyActivatedOnPurpose
<1> DEFINE OnPurpose == \A v \in Versions :
                           row[v] # "active" /\ row'[v] = "active" =>
                               \E r \in Requests : /\ pc[r] = "commit" /\ pc'[r] = "done"
                                                   /\ target[r] = v
                                                   /\ change[r] \in {"create", "activate"}
<1>1. Basics /\ [Next]_vars => OnPurpose
  <2> SUFFICES ASSUME Basics, [Next]_vars, NEW v \in Versions, row[v] # "active", row'[v] = "active"
               PROVE  \E r \in Requests : /\ pc[r] = "commit" /\ pc'[r] = "done"
                                          /\ target[r] = v
                                          /\ change[r] \in {"create", "activate"}
    OBVIOUS
  <2>1. PICK r \in Requests : Commit(r)
    BY OnlyCommits
  <2>2. writes[r][v] = "active"
    BY <2>1 DEF Commit
  <2> QED
    BY <2>1, <2>2 DEF Commit, GoTo, Basics, TypeOK, WritesInScope
<1>2. Basics /\ [Next]_vars => [OnPurpose]_vars
  BY <1>1
<1> QED
  BY <1>2, Invariance, PTL DEF Spec, OnlyActivatedOnPurpose

-----------------------------------------------------------------------------
(* One active version per scope, if there is one POST at most.             *)

\* A step of one request leaves the part of another as it was, unless a commit
\* changes the rows.
LEMMA OthersCovered ==
    ASSUME Basics, SiblingsCovered, NEW r \in Requests, UNCHANGED row,
           \A q \in Requests : q # r =>
              /\ pc'[q] = pc[q] /\ target'[q] = target[q]
              /\ writes'[q] = writes[q] /\ siblings'[q] = siblings[q],
           Covered(r)'
    PROVE  SiblingsCovered'
<1> SUFFICES ASSUME NEW q \in Requests, q # r PROVE Covered(q)'
  BY DEF SiblingsCovered
<1> QED
  BY DEF SiblingsCovered, Covered, Activating, Covers

\* Each step of a request before its commit covers what it has to.
LEMMA CoverSteps ==
    ASSUME Basics, Basics', SiblingsCovered, [Next]_vars, \A r \in Requests : ~ Commit(r)
    PROVE  SiblingsCovered'
<1> USE DEF Basics, GoTo
<1>r. row' = row
  BY OnlyCommits
<1>f. ASSUME NEW r \in Requests, Fail(r), UNCHANGED <<row, change, target, siblings>>
      PROVE  SiblingsCovered'
  <2>1. /\ pc' = [pc EXCEPT ![r] = "failed"]
        /\ writes' = [writes EXCEPT ![r] = NoWrites]
    BY <1>f DEF Fail
  <2>2. Covered(r)'
    BY <1>f, <2>1 DEF TypeOK, Covered, Activating, NoWrites
  <2> QED
    BY <1>r, <1>f, <2>1, <2>2, OthersCovered DEF TypeOK
<1>1. ASSUME NEW r \in Requests, NEW v \in Versions, NEW active \in BOOLEAN, Create(r, v, active)
      PROVE  SiblingsCovered'
  <2>1. /\ pc[r] = "idle"
        /\ target' = [target EXCEPT ![r] = v]
        /\ WriteRow(r, v, IF active THEN "active" ELSE "inactive")
        /\ pc' = [pc EXCEPT ![r] = IF active THEN "siblings" ELSE "refresh"]
        /\ UNCHANGED siblings
    BY <1>1 DEF Create, AfterFlush
  <2>2. writes' = [writes EXCEPT ![r] = [writes[r] EXCEPT ![v] = IF active THEN "active" ELSE "inactive"]]
    BY <2>1 DEF WriteRow
  <2>3. Covered(r)'
    BY <2>1, <2>2 DEF TypeOK, Covered, Activating, Writes
  <2> QED
    BY <1>r, <2>1, <2>2, <2>3, OthersCovered DEF TypeOK
<1>2. ASSUME NEW r \in Requests, NEW v \in Versions,
             NEW c \in {"activate", "deactivate", "edit", "delete"}, Load(r, v, c)
      PROVE  SiblingsCovered'
  <2>1. /\ pc[r] = "idle"
        /\ target' = [target EXCEPT ![r] = v]
        /\ pc' = [pc EXCEPT ![r] = IF c = "delete" THEN "delete" ELSE "flush"]
        /\ UNCHANGED <<writes, siblings>>
    BY <1>2 DEF Load
  <2>2. Covered(r)'
    BY <2>1 DEF Begun, Covered, Activating, NoWrites
  <2> QED
    BY <1>r, <2>1, <2>2, OthersCovered DEF TypeOK
<1>3. ASSUME NEW r \in Requests, Flush(r)
      PROVE  SiblingsCovered'
  <2> DEFINE active == CASE change[r] = "activate" -> TRUE
                         [] change[r] = "deactivate" -> FALSE
                         [] OTHER -> isActive[r]
             status == IF active THEN "active" ELSE "inactive"
  <2>1. pc[r] = "flush" /\ UNCHANGED <<row, change, target, siblings>>
    BY <1>3 DEF Flush
  <2>2. CASE Fail(r)
    BY <1>f, <2>1, <2>2
  <2>3. CASE ~ Fail(r)
    <3>1. /\ pc' = [pc EXCEPT ![r] = IF active THEN "siblings" ELSE "refresh"]
          /\ UNCHANGED writes \/ WriteRow(r, target[r], status)
      BY <1>3, <2>3 DEF Flush, AfterFlush
    <3> HIDE DEF active
    <3>2. target[r] \in Versions /\ writes[r] = NoWrites
      BY <2>1 DEF Begun
    <3>3. UNCHANGED writes \/ writes' = [writes EXCEPT ![r] = [writes[r] EXCEPT ![target[r]] = status]]
      BY <3>1 DEF WriteRow
    <3>4. Covered(r)'
      <4>1. CASE UNCHANGED writes
        BY <2>1, <3>2, <4>1 DEF Covered, Activating, NoWrites
      <4>2. CASE ~ UNCHANGED writes
        <5>1. writes'[r][target[r]] = status
          BY <3>2, <3>3, <4>2 DEF TypeOK, Writes
        <5> QED
          BY <2>1, <3>1, <3>2, <5>1 DEF TypeOK, Covered, Activating
      <4> QED
        BY <4>1, <4>2
    <3> QED
      BY <1>r, <2>1, <3>1, <3>3, <3>4, OthersCovered DEF TypeOK
  <2> QED
    BY <2>2, <2>3
<1>4. ASSUME NEW r \in Requests, FindSiblings(r)
      PROVE  SiblingsCovered'
  <2>1. /\ pc[r] = "siblings" /\ pc' = [pc EXCEPT ![r] = "writing"]
        /\ siblings' = [siblings EXCEPT ![r] = Siblings(target[r])]
        /\ UNCHANGED <<row, change, target, isActive, writes, holder>>
    BY <1>4 DEF FindSiblings
  <2>2. Covered(r)'
    BY <2>1 DEF TypeOK, Covered, Activating, Covers, Siblings
  <2> QED
    BY <1>r, <2>1, <2>2, OthersCovered DEF TypeOK
<1>5. ASSUME NEW r \in Requests, NEW u \in Versions, DeactivateSibling(r, u)
      PROVE  SiblingsCovered'
  <2>1. /\ pc[r] = "writing" /\ u \in siblings[r] /\ u # target[r]
        /\ siblings' = [siblings EXCEPT ![r] = siblings[r] \ {u}]
        /\ UNCHANGED <<row, pc, change, target, isActive>>
    BY <1>5 DEF DeactivateSibling, Begun
  <2>2. \/ row[u] = "absent" /\ UNCHANGED writes
        \/ writes' = [writes EXCEPT ![r] = [writes[r] EXCEPT ![u] = "inactive"]]
    BY <1>5 DEF DeactivateSibling, WriteRow
  <2>3. /\ siblings'[r] = siblings[r] \ {u}
        /\ \A w \in Versions : w # u => writes'[r][w] = writes[r][w]
        /\ row[u] = "absent" \/ writes'[r][u] = "inactive"
    BY <2>1, <2>2 DEF TypeOK, Writes
  <2>4. Covered(r)'
    BY <1>5, <2>1, <2>3 DEF SiblingsCovered, Covered, Activating, Covers
  <2> QED
    BY <1>r, <2>1, <2>2, <2>4, OthersCovered DEF TypeOK
<1>6. ASSUME NEW r \in Requests, Refresh(r)
      PROVE  SiblingsCovered'
  <2>1. /\ pc[r] = "refresh" \/ (pc[r] = "writing" /\ siblings[r] = {})
        /\ UNCHANGED <<row, change, target, siblings>>
    BY <1>6 DEF Refresh
  <2>2. CASE Fail(r)
    BY <1>f, <2>1, <2>2
  <2>3. CASE ~ Fail(r)
    <3>1. pc' = [pc EXCEPT ![r] = "commit"] /\ UNCHANGED writes
      BY <1>6, <2>3 DEF Refresh
    <3>2. Covered(r)'
      BY <2>1, <3>1 DEF TypeOK, SiblingsCovered, Covered, Activating, Covers
    <3> QED
      BY <1>r, <2>1, <3>1, <3>2, OthersCovered DEF TypeOK
  <2> QED
    BY <2>2, <2>3
<1>7. ASSUME NEW r \in Requests, FlushDelete(r)
      PROVE  SiblingsCovered'
  <2>1. /\ pc[r] = "delete" /\ pc' = [pc EXCEPT ![r] = "commit"]
        /\ UNCHANGED <<row, change, target, siblings>>
        /\ UNCHANGED writes \/ writes' = [writes EXCEPT ![r] = [writes[r] EXCEPT ![target[r]] = "absent"]]
    BY <1>7 DEF FlushDelete, WriteRow
  <2>2. Covered(r)'
    <3>1. target[r] \in Versions /\ writes[r] = NoWrites
      BY <2>1 DEF Begun
    <3>2. writes'[r][target[r]] # "active"
      BY <2>1, <3>1 DEF TypeOK, NoWrites
    <3> QED
      BY <2>1, <3>2 DEF Covered, Activating
  <2> QED
    BY <1>r, <2>1, <2>2, OthersCovered DEF TypeOK
<1>8. ASSUME NEW r \in Requests, DeadlockVictim(r)
      PROVE  SiblingsCovered'
  BY <1>f, <1>8 DEF DeadlockVictim
<1>9. CASE UNCHANGED vars
  BY <1>9 DEF vars, SiblingsCovered, Covered, Activating, Covers
<1> QED
  BY <1>1, <1>2, <1>3, <1>4, <1>5, <1>6, <1>7, <1>8, <1>9 DEF Next, Step

\* Two requests never activate different versions of a scope at once, and the
\* one that commits has deactivated every other active version. With two POSTs
\* this fails: the new rows do not see each other (prompt_race).
LEMMA CommitCovers ==
    ASSUME IInv, NEW p \in Requests, Commit(p), \A c, d \in Creators : c = d
    PROVE  SiblingsCovered' /\ AtMostOneActive'
<1> USE NoneAssumption, InitialAssumption, CreatorsAssumption DEF IInv, Basics
<1>1. /\ pc[p] = "commit" /\ pc' = [pc EXCEPT ![p] = "done"]
      /\ \A v \in Versions : row'[v] = IF writes[p][v] = "none" THEN row[v] ELSE writes[p][v]
      /\ UNCHANGED <<change, target, isActive, writes, siblings>>
  BY DEF Commit, GoTo
<1>2. pc'[p] = "done" /\ \A q \in Requests : q # p => pc'[q] = pc[q]
  BY <1>1 DEF TypeOK
<1>3. ASSUME NEW v \in Versions, writes[p][v] = "active"
      PROVE  /\ v = target[p] /\ holder[v] = p /\ Activating(p)
             /\ \A u \in Versions \ {v} :
                   ScopeOf[u] = ScopeOf[v] =>
                      /\ u \in Initial /\ row[u] # "absent" => writes[p][u] = "inactive"
                      /\ row[u] = "active" => writes[p][u] = "inactive"
  <2>1. v = target[p] /\ holder[v] = p
    BY <1>1, <1>3 DEF WritesInScope, WrittenIsLocked, Open
  <2>2. Activating(p) /\ siblings[p] = {}
    BY <1>1, <1>3, <2>1 DEF SiblingsCovered, Covered, Activating
  <2> QED
    BY <1>1, <2>1, <2>2 DEF SiblingsCovered, Covered, Covers
<1>4. AtMostOneActive'
  <2> SUFFICES ASSUME NEW u \in Versions, NEW v \in Versions, row'[u] = "active", row'[v] = "active",
                      ScopeOf[u] = ScopeOf[v], u # v
               PROVE  FALSE
    BY DEF AtMostOneActive
  <2>1. ~ (row[u] = "active" /\ row[v] = "active" /\ writes[p][u] = "none" /\ writes[p][v] = "none")
    BY DEF AtMostOneActive
  <2> QED
    BY <1>1, <1>3, <2>1
<1>5. SiblingsCovered'
  <2> SUFFICES ASSUME NEW q \in Requests, Activating(q)', q # p
               PROVE  Covered(q)'
    BY <1>1, <1>2 DEF SiblingsCovered, Covered
  <2>1. Activating(q) /\ Covered(q) /\ pc'[q] = pc[q]
    BY <1>1, <1>2 DEF Activating, SiblingsCovered
  <2> DEFINE v == target[q]
  <2> SUFFICES ASSUME NEW u \in Versions \ {v}, ScopeOf[u] = ScopeOf[v], pc[q] \in {"writing", "commit"},
                      ~ Covers(q, u)
               PROVE  ~ (u \in Initial /\ row'[u] # "absent") /\ row'[u] # "active"
    BY <1>1, <2>1 DEF Covered, Covers
  <2>2. /\ v \in Versions /\ holder[v] = q
        /\ u \in Initial => row[u] = "absent"
        /\ row[u] # "active"
    BY <2>1 DEF Activating, Covered, WrittenIsLocked, Open
  <2>3. u \in Initial => row'[u] = "absent"
    <3> SUFFICES ASSUME u \in Initial, writes[p][u] # "none" PROVE FALSE
      BY <1>1, <2>2
    <3>1. holder[u] = p
      BY <1>1 DEF WrittenIsLocked, Open
    <3> QED
      BY <2>2, <3>1 DEF LockedIsStored, HasOrigin
  <2>4. row'[u] # "active"
    <3> SUFFICES ASSUME writes[p][u] = "active" PROVE FALSE
      BY <1>1, <2>2
    <3>1. /\ u = target[p] /\ holder[u] = p
          /\ v \in Initial /\ row[v] # "absent" => writes[p][v] = "inactive"
      BY <1>3, <2>2
    <3>2. writes[p][v] # "inactive"
      BY <1>1, <2>2 DEF WrittenIsLocked, Open
    <3>3. v \notin Initial
      BY <2>2, <3>1, <3>2 DEF LockedIsStored, HasOrigin
    <3>4. u \notin Initial
      BY <2>2, <3>1 DEF LockedIsStored, HasOrigin
    <3>5. CreatedBy(u) /\ CreatedBy(v)
      BY <1>1, <3>1, <3>3, <3>4 DEF HasOrigin
    <3> QED
      BY <3>5 DEF CreatedBy
  <2> QED
    BY <2>3, <2>4
<1> QED
  BY <1>4, <1>5

\* "At most one version per scope SHALL be active" (prompt_versions.py:6-7), for
\* any versions, scopes and concurrent PATCHes and DELETEs and one POST at most.
THEOREM OneActivePerScope ==
    ASSUME \A c, d \in Creators : c = d
    PROVE  Spec => []AtMostOneActive
<1>1. Init => IInv
  <2> SUFFICES ASSUME Init PROVE IInv
    OBVIOUS
  <2>1. AtMostOneActive
    BY DEF Init, AtMostOneActive
  <2>2. SiblingsCovered
    BY NoneAssumption DEF Init, SiblingsCovered, Covered, Activating, NoWrites
  <2> QED
    BY BasicsInit, <2>1, <2>2 DEF IInv
<1>2. IInv /\ [Next]_vars => IInv'
  <2> SUFFICES ASSUME IInv, [Next]_vars PROVE IInv'
    OBVIOUS
  <2>1. Basics'
    BY BasicsStep DEF IInv
  <2>2. CASE \E p \in Requests : Commit(p)
    BY <2>1, <2>2, CommitCovers DEF IInv
  <2>3. CASE ~ \E p \in Requests : Commit(p)
    <3>1. SiblingsCovered'
      BY <2>1, <2>3, CoverSteps DEF IInv
    <3>2. row' = row
      BY <2>3, OnlyCommits DEF IInv
    <3> QED
      BY <2>1, <3>1, <3>2 DEF IInv, AtMostOneActive
  <2> QED
    BY <2>2, <2>3
<1> QED
  BY <1>1, <1>2, PTL DEF Spec, IInv
=============================================================================
