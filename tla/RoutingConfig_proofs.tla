------------------------ MODULE RoutingConfig_proofs ------------------------
(***************************************************************************)
(* Theorems about RoutingConfig, for every set of requests and payloads.   *)
(* Ids and row locks are sound however the transactions interleave. That   *)
(* the rules resolve, labels are unique, a role in use is not deleted and  *)
(* a list overwrites its predecessor holds of one transaction at a time    *)
(* (the run routing_race shows a race), and while no PATCH renames a role, *)
(* which does not look at the rules. That the rules resolve also holds of  *)
(* any number of open transactions that only store rules and add roles, or *)
(* that only add and delete roles.                                         *)
(***************************************************************************)
EXTENDS RoutingConfig, FiniteSetTheorems, TLAPS

Steps == {"idle", "check", "update", "delete", "lockRows", "commit", "done", "refused"}

IsRow(x) == x = [id |-> x.id, kind |-> x.kind, label |-> x.label]

Typed ==
    /\ nextId \in Nat \ {0}
    /\ \A x \in roles : IsRow(x)
    /\ pc \in [Requests -> Steps]
    /\ body = [r \in Requests |-> body[r]]
    /\ saw = [r \in Requests |-> saw[r]]
    /\ found = [r \in Requests |-> found[r]]
    /\ held = [r \in Requests |-> held[r]]
    /\ \A r \in Requests : Active(r) => body[r] \in Bodies

\* The inductive invariant of any number of open transactions.
IInv == Typed /\ TypeOK

-----------------------------------------------------------------------------
(* One transaction at a time.                                              *)

\* No PATCH of a role: it renames roles without a look at the rules.
NoRenames == \A p \in Bodies : p.op # "patchRole"

\* At most one transaction is open.
OneOpen == \A q, r \in Requests : Active(q) /\ Active(r) => q = r

OnCampaign(r) == body[r].op \in {"putRules", "patch", "seed"}
Overwrites(r) == body[r].op \in {"patch", "seed"} /\ Given(body[r].roles)

\* What the patch leaves behind, from the payload or as stored.
RolesLeft(r) == IF Given(body[r].roles) THEN RangeOf(body[r].roles) ELSE roles
ToolsLeft(r) == IF Given(body[r].tools) THEN body[r].tools ELSE tools

\* Where an open transaction of each kind can stand.
Stands(r) ==
    /\ pc[r] = "check" => body[r].op # "seed"
    /\ pc[r] = "update" => OnCampaign(r)
    /\ pc[r] = "delete" => Overwrites(r)
    /\ pc[r] = "lockRows" => Overwrites(r) \/ body[r].op = "deleteRole"

\* What it has read is still stored, and what it has checked still holds.
Fresh(r) ==
    /\ OnCampaign(r) => saw[r] = [rules |-> rules, tools |-> tools]
    /\ body[r].op = "deleteRole" => saw[r] \in roles
    /\ pc[r] # "check" =>
         /\ body[r].op = "putRules" => ValidRules(body[r].rules, roles, tools)
         /\ body[r].op = "patch" =>
              /\ Given(body[r].roles) => ValidRoleLabels(body[r].roles)
              /\ ValidRules(RulesToCheck(r), RolesLeft(r), ToolsLeft(r))
         /\ body[r].op = "postRole" => LabelFree(body[r].role, roles, 0)
         /\ body[r].op = "deleteRole" => ~ InUse(saw[r])

\* A list is about to delete every row that is stored, a DELETE its own.
Aims(r) ==
    /\ pc[r] = "lockRows" => found[r] = IF Overwrites(r) THEN Ids(roles) ELSE {saw[r].id}
    /\ pc[r] = "commit" /\ Overwrites(r) => held[r] = Ids(roles)
    /\ pc[r] = "update" /\ body[r].op = "seed" => held[r] = Ids(roles)
    /\ pc[r] = "commit" /\ body[r].op = "deleteRole" => held[r] = {saw[r].id}

SerialInv ==
    /\ IInv /\ OneOpen /\ RulesResolve /\ LabelsUnique
    /\ \A r \in Requests : Active(r) => Stands(r) /\ Fresh(r) /\ Aims(r)

-----------------------------------------------------------------------------
(* The lists of a payload and the rows they become.                        *)

\* The indices of a list of roles are 1 to its length.
LEMMA RoleLists ==
    ASSUME NEW dtos, IsRoleList(dtos)
    PROVE  /\ Len(dtos) \in Nat /\ DOMAIN dtos = 1 .. Len(dtos)
           /\ \A i \in DOMAIN dtos : dtos[i] = [kind |-> dtos[i].kind, label |-> dtos[i].label]
  BY DEF IsRoleList, RangeOf

\* The rows of a list take consecutive ids and keep the list's labels.
LEMMA RowsOfList ==
    ASSUME NEW dtos, IsRoleList(dtos), NEW first \in Nat \ {0}
    PROVE  /\ \A x \in Rows(dtos, first) : IsRow(x) /\ x.id \in first .. first + Len(dtos) - 1
           /\ \A x, y \in Rows(dtos, first) : x.id = y.id => x = y
           /\ \A x \in Rows(dtos, first) : [kind |-> x.kind, label |-> x.label] \in RangeOf(dtos)
           /\ \A kind : LabelsOf(kind, Rows(dtos, first)) = LabelsOf(kind, RangeOf(dtos))
<1> DEFINE Row(i) == [id |-> first + i - 1, kind |-> dtos[i].kind, label |-> dtos[i].label]
<1>1. Len(dtos) \in Nat /\ DOMAIN dtos = 1 .. Len(dtos)
  BY RoleLists
<1>2. \A i \in DOMAIN dtos : dtos[i] = [kind |-> dtos[i].kind, label |-> dtos[i].label]
  BY RoleLists
<1>3. Rows(dtos, first) = {Row(i) : i \in DOMAIN dtos}
  BY DEF Rows
<1>4. \A i \in DOMAIN dtos : IsRow(Row(i)) /\ Row(i).id \in first .. first + Len(dtos) - 1
  BY <1>1 DEF IsRow
<1>5. \A i, j \in DOMAIN dtos : Row(i).id = Row(j).id => i = j
  BY <1>1
<1>6. \A i \in DOMAIN dtos : [kind |-> Row(i).kind, label |-> Row(i).label] \in RangeOf(dtos)
  BY <1>2 DEF RangeOf
<1>7. ASSUME NEW kind
      PROVE  LabelsOf(kind, Rows(dtos, first)) = LabelsOf(kind, RangeOf(dtos))
  <2>1. \A label : (\E i \in DOMAIN dtos : Row(i).kind = kind /\ Row(i).label = label)
                   <=> (\E i \in DOMAIN dtos : dtos[i].kind = kind /\ dtos[i].label = label)
    OBVIOUS
  <2> HIDE DEF Row
  <2> QED
    BY <1>3, <2>1 DEF LabelsOf, RangeOf
<1> HIDE DEF Row
<1> QED
  BY <1>3, <1>4, <1>5, <1>6, <1>7

-----------------------------------------------------------------------------
(* Ids and locks, for any number of open transactions.                     *)

\* A step by which one request takes locks, or gives them all up, keeps them
\* disjoint and with open transactions.
LEMMA LocksKept ==
    ASSUME IInv, NEW r \in Requests, NEW step \in Steps \ {"idle"}, NEW locks,
           pc' = [pc EXCEPT ![r] = step],
           held' = [held EXCEPT ![r] = locks],
           \A q \in Requests : q # r => held[q] \cap locks = {},
           \/ step \notin {"done", "refused"} /\ campLock' \in {campLock, r}
           \/ locks = {} /\ campLock' = IF campLock = r THEN Omitted ELSE campLock
    PROVE  /\ pc' \in [Requests -> Steps]
           /\ held' = [q \in Requests |-> held'[q]]
           /\ \A q \in Requests : held'[q] # {} \/ campLock' = q => Active(q)'
           /\ \A p, q \in Requests : p # q => held'[p] \cap held'[q] = {}
           /\ \A q \in Requests : q # r => pc'[q] = pc[q]
<1>1. pc' \in [Requests -> Steps]
  BY DEF IInv, Typed
<1>2. pc'[r] = step /\ \A q \in Requests : q # r => pc'[q] = pc[q] /\ (Active(q)' <=> Active(q))
  BY DEF IInv, Typed, Active
<1>3. held'[r] = locks /\ \A q \in Requests : q # r => held'[q] = held[q]
  BY DEF IInv, Typed
<1>4. \A q \in Requests : held'[q] # {} \/ campLock' = q => Active(q)'
  BY <1>2, <1>3, OmittedAssumption DEF IInv, TypeOK, Active
<1>5. \A p, q \in Requests : p # q => held'[p] \cap held'[q] = {}
  BY <1>3 DEF IInv, TypeOK
<1>6. held' = [q \in Requests |-> held'[q]]
  BY DEF IInv, Typed
<1> QED
  BY <1>1, <1>2, <1>4, <1>5, <1>6

\* The first statement of a transaction, which takes no lock.
LEMMA BeginKeeps ==
    ASSUME IInv, NEW r \in Requests, NEW p \in Bodies,
           BeginOnCampaign(r, p) \/ BeginOnRole(r, p) \/ BeginPost(r, p)
    PROVE  IInv'
<1> USE DEF IInv
<1>1. /\ pc[r] = "idle" /\ UNCHANGED <<stored, found, held, campLock>>
      /\ body' = [body EXCEPT ![r] = p]
      /\ \/ UNCHANGED saw
         \/ \E loaded : saw' = [saw EXCEPT ![r] = loaded]
  BY DEF BeginOnCampaign, BeginOnRole, BeginPost, MayBegin
<1>2. PICK step \in {"check", "delete"} : pc' = [pc EXCEPT ![r] = step]
  BY DEF BeginOnCampaign, BeginOnRole, BeginPost, GoTo
<1>3. held[r] = {} /\ held' = [held EXCEPT ![r] = {}]
  BY <1>1 DEF Typed, TypeOK, Active
<1>4. /\ pc' \in [Requests -> Steps]
      /\ held' = [q \in Requests |-> held'[q]]
      /\ \A q \in Requests : held'[q] # {} \/ campLock' = q => Active(q)'
      /\ \A q, s \in Requests : q # s => held'[q] \cap held'[s] = {}
      /\ \A q \in Requests : q # r => pc'[q] = pc[q]
  <2>1. step \in Steps \ {"idle"} /\ step \notin {"done", "refused"} /\ campLock' \in {campLock, r}
    BY <1>1 DEF Steps
  <2>2. \A q \in Requests : held[q] \cap {} = {}
    OBVIOUS
  <2> QED
    BY <1>2, <1>3, <2>1, <2>2, LocksKept
<1>5. Typed'
  BY <1>1, <1>2, <1>4 DEF Typed, stored, Active
<1>6. TypeOK'
  BY <1>1, <1>4 DEF TypeOK, stored
<1> QED
  BY <1>5, <1>6

\* The statements between the first and the commit: the rows a step locks are
\* locked by nobody else.
LEMMA WorkKeeps ==
    ASSUME IInv, NEW r \in Requests, Active(r), UNCHANGED <<stored, body, saw>>,
           NEW step \in Steps \ {"idle", "done", "refused"}, pc' = [pc EXCEPT ![r] = step],
           NEW locks, held' = [held EXCEPT ![r] = locks],
           \A q \in Requests : q # r => held[q] \cap locks = {},
           campLock' \in {campLock, r},
           UNCHANGED found \/ \E ids : found' = [found EXCEPT ![r] = ids]
    PROVE  IInv'
<1> USE DEF IInv
<1>1. /\ pc' \in [Requests -> Steps]
      /\ held' = [q \in Requests |-> held'[q]]
      /\ \A q \in Requests : held'[q] # {} \/ campLock' = q => Active(q)'
      /\ \A q, s \in Requests : q # s => held'[q] \cap held'[s] = {}
      /\ \A q \in Requests : q # r => pc'[q] = pc[q]
  BY LocksKept
<1>2. Typed'
  BY <1>1 DEF Typed, stored, Active
<1>3. TypeOK'
  BY <1>1 DEF TypeOK, stored
<1> QED
  BY <1>2, <1>3

\* A refused request gives up what it holds and leaves nothing behind.
LEMMA RefuseKeeps ==
    ASSUME IInv, NEW r \in Requests, Refuse(r)
    PROVE  IInv'
<1> USE DEF IInv
<1>1. /\ UNCHANGED <<stored, body, saw, found>>
      /\ pc' = [pc EXCEPT ![r] = "refused"] /\ held' = [held EXCEPT ![r] = {}]
      /\ campLock' = IF campLock = r THEN Omitted ELSE campLock
  BY DEF Refuse, EndTransaction, GoTo, Released
<1>2. /\ pc' \in [Requests -> Steps]
      /\ held' = [q \in Requests |-> held'[q]]
      /\ \A q \in Requests : held'[q] # {} \/ campLock' = q => Active(q)'
      /\ \A q, s \in Requests : q # s => held'[q] \cap held'[s] = {}
      /\ \A q \in Requests : q # r => pc'[q] = pc[q]
  <2>1. "refused" \in Steps \ {"idle"} /\ \A q \in Requests : held[q] \cap {} = {}
    BY DEF Steps
  <2> QED
    BY <1>1, <2>1, LocksKept
<1>3. Typed'
  BY <1>1, <1>2 DEF Typed, stored, Active
<1>4. TypeOK'
  BY <1>1, <1>2 DEF TypeOK, stored
<1> QED
  BY <1>3, <1>4

\* A commit keeps ids unique: new rows take new ids, a renamed row keeps its own.
LEMMA CommitKeeps ==
    ASSUME IInv, NEW r \in Requests, Commit(r)
    PROVE  IInv'
<1> USE DEF IInv
<1> DEFINE p == body[r]
           others == {x \in roles : x.id \notin held[r]}
<1>1. /\ UNCHANGED <<body, saw, found>> /\ roles' = RowsAfter(r) /\ nextId' = nextId + Inserted(r)
      /\ pc[r] = "commit" /\ pc' = [pc EXCEPT ![r] = "done"]
      /\ held' = [held EXCEPT ![r] = {}]
      /\ campLock' = IF campLock = r THEN Omitted ELSE campLock
  BY DEF Commit, EndTransaction, GoTo, Released
<1>2. /\ pc' \in [Requests -> Steps]
      /\ held' = [q \in Requests |-> held'[q]]
      /\ \A q \in Requests : held'[q] # {} \/ campLock' = q => Active(q)'
      /\ \A q, s \in Requests : q # s => held'[q] \cap held'[s] = {}
      /\ \A q \in Requests : q # r => pc'[q] = pc[q]
  <2>1. "done" \in Steps \ {"idle"} /\ \A q \in Requests : held[q] \cap {} = {}
    BY DEF Steps
  <2> QED
    BY <1>1, <2>1, LocksKept
<1>3. p \in Bodies
  BY <1>1 DEF Typed, Active
<1>4. /\ nextId' \in Nat \ {0}
      /\ \A x \in roles' : IsRow(x) /\ x.id \in 1 .. nextId' - 1
      /\ \A x, y \in roles' : x.id = y.id => x = y
  <2> DEFINE Sound(rs, n) == /\ n \in Nat \ {0}
                             /\ \A x \in rs : IsRow(x) /\ x.id \in 1 .. n - 1
                             /\ \A x, y \in rs : x.id = y.id => x = y
  <2>1. Sound(roles, nextId) /\ Sound(others, nextId)
    BY DEF Typed, TypeOK
  <2>2. ASSUME NEW dtos, IsRoleList(dtos), NEW rs, Sound(rs, nextId)
        PROVE  Sound(rs \cup Rows(dtos, nextId), nextId + Len(dtos))
    <3>1. nextId \in Nat \ {0} /\ Len(dtos) \in Nat
      BY <2>2, RoleLists
    <3>2. /\ \A x \in Rows(dtos, nextId) : IsRow(x) /\ x.id \in nextId .. nextId + Len(dtos) - 1
          /\ \A x, y \in Rows(dtos, nextId) : x.id = y.id => x = y
      BY <2>2, <3>1, RowsOfList
    <3> QED
      BY <2>2, <3>1, <3>2
  <2>3. CASE p.op = "putRules"
    BY <1>1, <2>1, <2>3 DEF RowsAfter, Inserted
  <2>4. CASE p.op \in {"patch", "seed"}
    <3>1. CASE Given(p.roles)
      <4>1. roles' = others \cup Rows(p.roles, nextId) /\ nextId' = nextId + Len(p.roles)
        BY <1>1, <2>4, <3>1 DEF RowsAfter, Inserted
      <4>2. IsRoleList(p.roles)
        BY <1>3, <2>4, <3>1, PayloadsAssumption
      <4> QED
        BY <2>1, <2>2, <4>1, <4>2
    <3>2. CASE ~ Given(p.roles)
      BY <1>1, <2>1, <2>4, <3>2 DEF RowsAfter, Inserted
    <3> QED
      BY <3>1, <3>2
  <2>5. CASE p.op = "postRole"
    <3> DEFINE new == [id |-> nextId, kind |-> p.role.kind, label |-> p.role.label]
    <3>1. Rows(<<p.role>>, nextId) = {new}
      BY <2>1 DEF Rows
    <3>2. roles' = roles \cup {new} /\ nextId' = nextId + 1
      BY <1>1, <2>5, <3>1 DEF RowsAfter, Inserted
    <3>3. IsRow(new) /\ new.id = nextId
      BY DEF IsRow
    <3> HIDE DEF new
    <3> QED
      BY <2>1, <3>2, <3>3
  <2>6. CASE p.op = "patchRole"
    <3> DEFINE Renamed(x) == IF x.id \in held[r] THEN [id |-> x.id, kind |-> p.role.kind, label |-> p.role.label]
                             ELSE x
    <3>1. roles' = {Renamed(x) : x \in roles} /\ nextId' = nextId
      BY <1>1, <2>1, <2>6 DEF RowsAfter, Inserted
    <3>2. \A x \in roles : IsRow(Renamed(x)) /\ Renamed(x).id = x.id
      BY <2>1 DEF IsRow
    <3> HIDE DEF Renamed
    <3> QED
      BY <2>1, <3>1, <3>2
  <2>7. CASE p.op = "deleteRole"
    BY <1>1, <2>1, <2>7 DEF RowsAfter, Inserted
  <2>8. p.op \in {"putRules", "patch", "seed", "postRole", "patchRole", "deleteRole"}
    BY <1>3, PayloadsAssumption
  <2> QED
    BY <2>3, <2>4, <2>5, <2>6, <2>7, <2>8
<1>5. Typed'
  BY <1>1, <1>2, <1>4 DEF Typed, Active
<1>6. TypeOK'
  BY <1>2, <1>4 DEF TypeOK
<1> QED
  BY <1>5, <1>6

\* Every step keeps the types, the ids and the locks.
LEMMA TypeStep == IInv /\ [Next]_vars => IInv'
<1> SUFFICES ASSUME IInv, [Next]_vars PROVE IInv'
  OBVIOUS
<1>1. ASSUME NEW r \in Requests, NEW ok \in BOOLEAN, NEW next \in {"update", "commit"},
             Checked(r, ok, next), pc[r] = "check"
      PROVE  IInv'
  <2>1. CASE Refuse(r)
    BY <2>1, RefuseKeeps
  <2>2. CASE ~ Refuse(r)
    <3>1. /\ pc' = [pc EXCEPT ![r] = next] /\ UNCHANGED <<stored, body, saw, found, held, campLock>>
      BY <1>1, <2>2 DEF Checked, GoTo
    <3>2. /\ held' = [held EXCEPT ![r] = held[r]] /\ Active(r)
          /\ \A q \in Requests : q # r => held[q] \cap held[r] = {}
      BY <1>1, <3>1 DEF IInv, Typed, TypeOK, Active
    <3>3. next \in Steps \ {"idle", "done", "refused"}
      BY DEF Steps
    <3> QED
      BY <3>1, <3>2, <3>3, WorkKeeps
  <2> QED
    BY <2>1, <2>2
<1>2. ASSUME NEW r \in Requests, CheckPatchRole(r)
      PROVE  IInv'
  <2>1. CASE Refuse(r)
    BY <2>1, RefuseKeeps
  <2>2. CASE ~ Refuse(r)
    <3> DEFINE write == body[r].role # [kind |-> saw[r].kind, label |-> saw[r].label]
               locks == IF write THEN {saw[r].id} ELSE {}
    <3>1. /\ pc[r] = "check" /\ pc' = [pc EXCEPT ![r] = "commit"]
          /\ held' = [held EXCEPT ![r] = locks]
          /\ \A q \in Requests : q # r => held[q] \cap locks = {}
          /\ UNCHANGED <<stored, body, saw, found, campLock>>
      BY <1>2, <2>2 DEF CheckPatchRole, CheckStep, GoTo
    <3>2. "commit" \in Steps \ {"idle", "done", "refused"} /\ Active(r)
      BY <3>1 DEF Steps, Active
    <3> HIDE DEF locks
    <3> QED
      BY <3>1, <3>2, WorkKeeps
  <2> QED
    BY <2>1, <2>2
<1>3. ASSUME NEW r \in Requests, CheckDelete(r) \/ FindChildren(r) \/ UpdateCampaign(r)
      PROVE  IInv'
  <2>1. CASE Refuse(r)
    BY <2>1, RefuseKeeps
  <2>2. CASE ~ Refuse(r)
    <3>1. /\ pc[r] \in {"check", "delete", "update"} /\ UNCHANGED <<stored, body, saw, held>>
          /\ \E step \in {"lockRows", "delete", "commit"} : pc' = [pc EXCEPT ![r] = step]
          /\ campLock' \in {campLock, r}
          /\ UNCHANGED found \/ \E ids : found' = [found EXCEPT ![r] = ids]
      <4>1. CASE CheckDelete(r)
        BY <2>2, <4>1 DEF CheckDelete, CheckStep, GoTo
      <4>2. CASE FindChildren(r)
        BY <4>2 DEF FindChildren, GoTo
      <4>3. CASE UpdateCampaign(r)
        BY <4>3 DEF UpdateCampaign, GoTo
      <4> QED
        BY <1>3, <4>1, <4>2, <4>3
    <3>2. /\ held' = [held EXCEPT ![r] = held[r]] /\ Active(r)
          /\ \A q \in Requests : q # r => held[q] \cap held[r] = {}
      BY <3>1 DEF IInv, Typed, TypeOK, Active
    <3>3. {"lockRows", "delete", "commit"} \subseteq Steps \ {"idle", "done", "refused"}
      BY DEF Steps
    <3> QED
      BY <3>1, <3>2, <3>3, WorkKeeps
  <2> QED
    BY <2>1, <2>2
<1>4. ASSUME NEW r \in Requests, LockChildren(r)
      PROVE  IInv'
  <2>1. /\ pc[r] = "lockRows" /\ UNCHANGED <<stored, body, saw, found, campLock>>
        /\ \E step \in {"update", "commit"} : pc' = [pc EXCEPT ![r] = step]
        /\ held' = [held EXCEPT ![r] = Locked(r)]
    BY <1>4 DEF LockChildren, GoTo
  <2>2. \A q \in Requests : q # r => held[q] \cap Locked(r) = {}
    BY <1>4 DEF LockChildren, WaitsForRows, Locked
  <2>3. {"update", "commit"} \subseteq Steps \ {"idle", "done", "refused"} /\ Active(r)
    BY <2>1 DEF Steps, Active
  <2> QED
    BY <2>1, <2>2, <2>3, WorkKeeps
<1>5. ASSUME NEW r \in Requests, CheckRules(r) \/ CheckPatch(r) \/ CheckPost(r)
      PROVE  IInv'
  <2>1. /\ pc[r] = "check"
        /\ \E ok \in BOOLEAN, next \in {"update", "commit"} : Checked(r, ok, next)
    BY <1>5 DEF CheckRules, CheckPatch, CheckPost, CheckStep, ValidRules, LabelFree, ValidRoleLabels
  <2> QED
    BY <1>1, <2>1
<1>6. CASE UNCHANGED vars
  BY <1>6 DEF vars, IInv, Typed, TypeOK, Active
<1> QED
  BY <1>2, <1>3, <1>4, <1>5, <1>6, BeginKeeps, RefuseKeeps, CommitKeeps
     DEF Next, Step, DeadlockVictim

\* A campaign is created with the rows of its payload.
LEMMA TypeInit == Init => IInv
<1> SUFFICES ASSUME Init PROVE IInv
  OBVIOUS
<1>1. PICK p \in Creations : roles = Rows(p.roles, 1) /\ nextId = Len(p.roles) + 1
  BY DEF Init
<1>2. IsRoleList(p.roles)
  BY PayloadsAssumption
<1>3. /\ nextId \in Nat \ {0}
      /\ \A x \in roles : IsRow(x) /\ x.id \in 1 .. nextId - 1
      /\ \A x, y \in roles : x.id = y.id => x = y
  BY <1>1, <1>2, RoleLists, RowsOfList
<1>4. \A r \in Requests : pc[r] = "idle" /\ held[r] = {} /\ campLock # r
  BY OmittedAssumption DEF Init
<1> QED
  BY <1>3, <1>4 DEF Init, IInv, Typed, TypeOK, Active, Steps

\* Row ids are never given twice, and only an open transaction holds a lock, no
\* two the same, for any number of transactions and any payloads.
THEOREM TypeCorrect == Spec => []TypeOK
<1>1. IInv => TypeOK
  BY DEF IInv
<1> QED
  BY <1>1, TypeInit, TypeStep, PTL DEF Spec

-----------------------------------------------------------------------------
(* One transaction at a time: what has been read and checked still holds.  *)

\* A list of roles becomes as many rows.
LEMMA RowsCount ==
    ASSUME NEW dtos, IsRoleList(dtos), NEW first \in Nat \ {0}
    PROVE  Cardinality(Rows(dtos, first)) = Len(dtos)
<1> DEFINE n == Len(dtos)
           f == [i \in 1 .. n |-> [id |-> first + i - 1, kind |-> dtos[i].kind, label |-> dtos[i].label]]
<1>1. n \in Nat /\ DOMAIN dtos = 1 .. n
  BY RoleLists
<1>2. Rows(dtos, first) = {f[i] : i \in 1 .. n}
  BY <1>1 DEF Rows
<1>3. f \in Surjection(1 .. n, Rows(dtos, first))
  BY <1>2 DEF Surjection
<1>4. \A i, j \in 1 .. n : f[i] = f[j] => i = j
  <2>1. \A i \in 1 .. n : f[i].id = first + i - 1
    OBVIOUS
  <2> QED
    BY <1>1, <2>1
<1>5. f \in Injection(1 .. n, Rows(dtos, first))
  <2>1. DOMAIN f = 1 .. n
    OBVIOUS
  <2> QED
    BY <1>3, <1>4, <2>1 DEF Injection, Surjection, IsInjective
<1>6. IsFiniteSet(1 .. n) /\ Cardinality(1 .. n) = n
  <2> HIDE DEF n
  <2>1. 1 \in Int /\ n \in Int
    BY <1>1
  <2>2. /\ IsFiniteSet(1 .. n)
        /\ Cardinality(1 .. n) = IF 1 > n THEN 0 ELSE n - 1 + 1
    BY <2>1, FS_Interval
  <2> QED
    BY <1>1, <2>2
<1> QED
  BY <1>3, <1>5, <1>6, FS_Surjection

\* Rules that resolve against some roles and tools resolve against others with
\* as many labels and aliases.
LEMMA RulesResolveMonotonic ==
    ASSUME NEW ruleSet, NEW rs, NEW rs2, NEW aliases, NEW aliases2,
           ValidRules(ruleSet, rs, aliases), aliases \subseteq aliases2,
           \A kind : LabelsOf(kind, rs) \subseteq LabelsOf(kind, rs2)
    PROVE  ValidRules(ruleSet, rs2, aliases2)
  BY DEF ValidRules, Resolves

\* A role no rule names can go.
LEMMA UnusedCanGo ==
    ASSUME IInv, RulesResolve, NEW row \in roles, ~ InUse(row)
    PROVE  ValidRules(rules, {x \in roles : x.id # row.id}, tools)
<1> DEFINE left == {x \in roles : x.id # row.id}
<1> SUFFICES ASSUME NEW rule \in rules PROVE Resolves(rule, left, tools)
  BY DEF ValidRules
<1>1. Resolves(rule, roles, tools)
  BY DEF RulesResolve, ValidRules
<1>2. \A kind, label : /\ label \in LabelsOf(kind, roles)
                       /\ ~ (row.kind = kind /\ row.label = label)
                       => label \in LabelsOf(kind, left)
  BY DEF LabelsOf, IInv, TypeOK
<1>3. \A kind : NoLabel \notin LabelsOf(kind, roles)
  BY DEF LabelsOf
<1>4. ~ (row.kind = "referee" /\ row.label = rule.referee)
  BY <1>1, <1>3 DEF InUse, Names, Resolves
<1>5. rule.action = "route" /\ rule.arg \in LabelsOf("persona", roles)
        => ~ (row.kind = "persona" /\ row.label = rule.arg)
  BY <1>3 DEF InUse, Names
<1> HIDE DEF left
<1> QED
  BY <1>1, <1>2, <1>4, <1>5 DEF Resolves

\* No rule that resolves names a role that is not in use, one without a label
\* included.
LEMMA UnnamedRole ==
    ASSUME RulesResolve, NEW row, ~ InUse(row), NEW x \in rules
    PROVE  ~ Names(x, row)
<1>1. x.referee # NoLabel
  BY DEF RulesResolve, ValidRules, Resolves, LabelsOf
<1>2. x.action = "route" => x.arg # NoLabel
  BY NoLabelAssumption DEF RulesResolve, ValidRules, Resolves, LabelsOf
<1> QED
  BY <1>1, <1>2 DEF InUse, Names

\* A request that is alone and leaves the stored rows as they are.
LEMMA SoleStep ==
    ASSUME SerialInv, IInv', NEW r \in Requests, Active(r), UNCHANGED stored,
           \A q \in Requests : q # r => pc'[q] = pc[q],
           Active(r)' => (Stands(r) /\ Fresh(r) /\ Aims(r))'
    PROVE  SerialInv'
<1>1. \A q \in Requests : Active(q)' => q = r
  BY DEF SerialInv, OneOpen, Active
<1>2. OneOpen'
  BY <1>1 DEF OneOpen
<1>3. RulesResolve' /\ LabelsUnique'
  BY DEF SerialInv, RulesResolve, LabelsUnique, stored
<1> QED
  BY <1>1, <1>2, <1>3 DEF SerialInv

\* A transaction begins when none is open.
LEMMA BeginAlone ==
    ASSUME MaxActive = 1, SerialInv, IInv', NEW r \in Requests, NEW p \in Bodies,
           BeginOnCampaign(r, p) \/ BeginOnRole(r, p) \/ BeginPost(r, p)
    PROVE  SerialInv'
<1> DEFINE open == {q \in Requests : Active(q)}
<1>1. open = {}
  <2>1. IsFiniteSet(open)
    BY RequestsAssumption, FS_Subset
  <2>2. Cardinality(open) \in Nat
    BY <2>1, FS_CardinalityType
  <2>3. Cardinality(open) < 1
    BY DEF BeginOnCampaign, BeginOnRole, BeginPost, MayBegin
  <2> HIDE DEF open
  <2>4. Cardinality(open) = 0
    BY <2>2, <2>3
  <2> QED
    BY <2>1, <2>4, FS_EmptySet
<1>2. /\ UNCHANGED stored
      /\ body' = [body EXCEPT ![r] = p]
      /\ pc' = [pc EXCEPT ![r] = IF p.op = "seed" THEN "delete" ELSE "check"]
      /\ p.op \in {"putRules", "patch", "seed"} => saw' = [saw EXCEPT ![r] = [rules |-> rules, tools |-> tools]]
      /\ p.op = "deleteRole" => \E row \in roles : saw' = [saw EXCEPT ![r] = row]
  <2>1. CASE BeginOnCampaign(r, p)
    BY <2>1 DEF BeginOnCampaign, GoTo
  <2>2. CASE BeginOnRole(r, p)
    BY <2>2 DEF BeginOnRole, GoTo
  <2>3. CASE BeginPost(r, p)
    BY <2>3 DEF BeginPost, GoTo
  <2> QED
    BY <2>1, <2>2, <2>3
<1>3. /\ body'[r] = p
      /\ pc'[r] = IF p.op = "seed" THEN "delete" ELSE "check"
      /\ p.op \in {"putRules", "patch", "seed"} => saw'[r] = [rules |-> rules, tools |-> tools]
      /\ p.op = "deleteRole" => saw'[r] \in roles
      /\ \A q \in Requests : q # r => pc'[q] = pc[q]
  BY <1>2 DEF SerialInv, IInv, Typed
<1>4. \A q \in Requests : Active(q)' => q = r
  BY <1>1, <1>3 DEF Active
<1>5. Stands(r)' /\ Aims(r)'
  BY <1>3, SeedAssumption DEF Stands, Aims, OnCampaign, Overwrites
<1>6. Fresh(r)'
  <2>1. p.op = "seed" \/ pc'[r] = "check"
    BY <1>3
  <2> QED
    BY <1>2, <1>3, <2>1 DEF Fresh, OnCampaign, stored
<1>7. OneOpen' /\ RulesResolve' /\ LabelsUnique'
  BY <1>2, <1>4 DEF SerialInv, OneOpen, RulesResolve, LabelsUnique, stored
<1> QED
  BY <1>4, <1>5, <1>6, <1>7 DEF SerialInv

\* The checks of a request that is alone hold until it commits.
LEMMA ChecksAlone ==
    ASSUME NoRenames, SerialInv, IInv', NEW r \in Requests,
           CheckRules(r) \/ CheckPatch(r) \/ CheckPost(r) \/ CheckPatchRole(r) \/ CheckDelete(r)
    PROVE  SerialInv'
<1>1. pc[r] = "check" /\ Active(r) /\ UNCHANGED <<stored, body, saw>>
  BY DEF CheckRules, CheckPatch, CheckPost, CheckPatchRole, CheckDelete, CheckStep, Checked,
         Refuse, Active
<1>2. body[r] \in Bodies /\ Stands(r) /\ Fresh(r)
  BY <1>1 DEF SerialInv, IInv, Typed
<1>3. CASE Refuse(r)
  <2>1. pc' = [pc EXCEPT ![r] = "refused"]
    BY <1>3 DEF Refuse, EndTransaction, GoTo
  <2>2. ~ Active(r)' /\ \A q \in Requests : q # r => pc'[q] = pc[q]
    BY <2>1 DEF SerialInv, IInv, Typed, Active
  <2> QED
    BY <1>1, <2>2, SoleStep
<1>4. CASE ~ Refuse(r)
  <2>1. ASSUME NEW step \in {"update", "lockRows", "commit"}, pc' = [pc EXCEPT ![r] = step],
               (Stands(r) /\ Fresh(r) /\ Aims(r))'
        PROVE  SerialInv'
    <3>1. \A q \in Requests : q # r => pc'[q] = pc[q]
      BY <2>1 DEF SerialInv, IInv, Typed
    <3> QED
      BY <1>1, <2>1, <3>1, SoleStep
  <2>2. \A step : pc' = [pc EXCEPT ![r] = step] => pc'[r] = step
    BY DEF SerialInv, IInv, Typed
  <2>3. CASE CheckRules(r)
    <3>1. /\ body[r].op = "putRules" /\ pc' = [pc EXCEPT ![r] = "update"]
          /\ ValidRules(body[r].rules, roles, saw[r].tools)
      BY <1>4, <2>3 DEF CheckRules, CheckStep, Checked, GoTo
    <3>2. saw[r].tools = tools
      BY <1>2, <3>1 DEF Fresh, OnCampaign
    <3>3. (Stands(r) /\ Fresh(r) /\ Aims(r))'
      BY <1>1, <1>2, <2>2, <3>1, <3>2 DEF Stands, Fresh, Aims, OnCampaign, Overwrites, stored
    <3> QED
      BY <2>1, <3>1, <3>3
  <2>4. CASE CheckPatch(r)
    <3>1. /\ body[r].op = "patch" /\ pc' = [pc EXCEPT ![r] = "update"]
          /\ Given(body[r].roles) => ValidRoleLabels(body[r].roles)
          /\ ValidRules(RulesToCheck(r), RolesLeft(r), IF Given(body[r].tools) THEN body[r].tools ELSE saw[r].tools)
      BY <1>4, <2>4 DEF CheckPatch, CheckStep, Checked, GoTo, RolesLeft
    <3>2. saw[r].tools = tools
      BY <1>2, <3>1 DEF Fresh, OnCampaign
    <3>3. /\ RulesToCheck(r)' = RulesToCheck(r) /\ RolesLeft(r)' = RolesLeft(r)
          /\ ToolsLeft(r)' = ToolsLeft(r)
      BY <1>1 DEF RulesToCheck, RolesLeft, ToolsLeft, stored
    <3>4. ValidRules(RulesToCheck(r), RolesLeft(r), ToolsLeft(r))
      BY <3>1, <3>2 DEF ToolsLeft
    <3>5. Fresh(r)'
      BY <1>1, <1>2, <3>1, <3>3, <3>4 DEF Fresh, OnCampaign, stored
    <3>6. (Stands(r) /\ Aims(r))'
      BY <1>1, <1>2, <2>2, <3>1 DEF Stands, Aims, OnCampaign, Overwrites
    <3> QED
      BY <2>1, <3>1, <3>5, <3>6
  <2>5. CASE CheckPost(r)
    <3>1. /\ body[r].op = "postRole" /\ pc' = [pc EXCEPT ![r] = "commit"]
          /\ LabelFree(body[r].role, roles, 0)
      BY <1>4, <2>5 DEF CheckPost, CheckStep, Checked, GoTo
    <3>2. (Stands(r) /\ Fresh(r) /\ Aims(r))'
      BY <1>1, <2>2, <3>1 DEF Stands, Fresh, Aims, OnCampaign, Overwrites, stored
    <3> QED
      BY <2>1, <3>1, <3>2
  <2>6. CASE CheckPatchRole(r)
    BY <1>2, <2>6 DEF CheckPatchRole, CheckStep, NoRenames
  <2>7. CASE CheckDelete(r)
    <3>1. /\ body[r].op = "deleteRole" /\ pc' = [pc EXCEPT ![r] = "lockRows"]
          /\ ~ InUse(saw[r]) /\ found' = [found EXCEPT ![r] = {saw[r].id}]
      BY <1>4, <2>7 DEF CheckDelete, CheckStep, GoTo
    <3>2. found'[r] = {saw[r].id}
      BY <3>1 DEF SerialInv, IInv, Typed
    <3>3. InUse(saw[r])' <=> InUse(saw[r])
      BY <1>1 DEF InUse, Names, stored
    <3>4. (Stands(r) /\ Aims(r))'
      BY <1>1, <2>2, <3>1, <3>2 DEF Stands, Aims, OnCampaign, Overwrites
    <3>5. Fresh(r)'
      BY <1>1, <1>2, <3>1, <3>3 DEF Fresh, OnCampaign, stored
    <3> QED
      BY <2>1, <3>1, <3>4, <3>5
  <2> QED
    BY <2>3, <2>4, <2>5, <2>6, <2>7
<1> QED
  BY <1>3, <1>4

\* So do its writes, and its DELETEs find and lock what they are meant for.
LEMMA WritesAlone ==
    ASSUME SerialInv, IInv', NEW r \in Requests, UpdateCampaign(r) \/ FindChildren(r) \/ LockChildren(r)
    PROVE  SerialInv'
<1>1. /\ pc[r] \in {"update", "delete", "lockRows"} /\ Active(r) /\ UNCHANGED <<stored, body, saw>>
      /\ \E step \in {"update", "delete", "lockRows", "commit"} : pc' = [pc EXCEPT ![r] = step]
  BY DEF UpdateCampaign, FindChildren, LockChildren, Active, GoTo
<1>2. body[r] \in Bodies /\ Stands(r) /\ Fresh(r) /\ Aims(r)
  BY <1>1 DEF SerialInv, IInv, Typed
<1>3. /\ \A q \in Requests : q # r => pc'[q] = pc[q]
      /\ \A step : pc' = [pc EXCEPT ![r] = step] => pc'[r] = step
      /\ \A ids : held' = [held EXCEPT ![r] = ids] => held'[r] = ids
      /\ \A ids : found' = [found EXCEPT ![r] = ids] => found'[r] = ids
  BY <1>1 DEF SerialInv, IInv, Typed
<1>4. Fresh(r)'
  <2>1. pc'[r] # "check" /\ pc[r] # "check"
    BY <1>1, <1>3
  <2>2. /\ RulesToCheck(r)' = RulesToCheck(r) /\ RolesLeft(r)' = RolesLeft(r)
        /\ ToolsLeft(r)' = ToolsLeft(r) /\ InUse(saw[r])' = InUse(saw[r])
    BY <1>1 DEF RulesToCheck, RolesLeft, ToolsLeft, InUse, Names, stored
  <2> QED
    BY <1>1, <1>2, <2>1, <2>2 DEF Fresh, OnCampaign, stored
<1>5. (Stands(r) /\ Aims(r))'
  <2>1. CASE UpdateCampaign(r)
    <3>1. /\ pc[r] = "update" /\ UNCHANGED held
          /\ pc'[r] = IF body[r].op = "patch" /\ Given(body[r].roles) THEN "delete" ELSE "commit"
      BY <1>3, <2>1 DEF UpdateCampaign, GoTo
    <3> QED
      BY <1>1, <1>2, <3>1 DEF Stands, Aims, OnCampaign, Overwrites, stored, Ids
  <2>2. CASE FindChildren(r)
    <3>1. pc[r] = "delete" /\ pc'[r] = "lockRows" /\ found'[r] = Ids(roles)
      BY <1>3, <2>2 DEF FindChildren, GoTo
    <3> QED
      BY <1>1, <1>2, <3>1 DEF Stands, Aims, Overwrites, stored, Ids
  <2>3. CASE LockChildren(r)
    <3>1. /\ pc[r] = "lockRows" /\ held'[r] = found[r] \cap Ids(roles)
          /\ pc'[r] = IF body[r].op = "seed" THEN "update" ELSE "commit"
      BY <1>3, <2>3 DEF LockChildren, Locked, GoTo
    <3>2. body[r].op = "deleteRole" => saw[r].id \in Ids(roles)
      BY <1>2 DEF Fresh, Ids
    <3>3. held'[r] = IF Overwrites(r) THEN Ids(roles) ELSE {saw[r].id}
      BY <1>2, <3>1, <3>2 DEF Stands, Aims, Overwrites
    <3> QED
      BY <1>1, <1>2, <3>1, <3>3 DEF Stands, Aims, OnCampaign, Overwrites, stored, Ids
  <2> QED
    BY <2>1, <2>2, <2>3
<1> QED
  BY <1>1, <1>3, <1>4, <1>5, SoleStep

\* The rows of a list whose labels are valid have unique labels.
LEMMA UniqueInList ==
    ASSUME NEW dtos, IsRoleList(dtos), ValidRoleLabels(dtos), NEW first \in Nat \ {0},
           NEW x \in Rows(dtos, first), NEW y \in Rows(dtos, first),
           x.kind \in LabelledKinds, x.kind = y.kind, x.label = y.label
    PROVE  x = y
<1>1. PICK i \in DOMAIN dtos : x = [id |-> first + i - 1, kind |-> dtos[i].kind, label |-> dtos[i].label]
  BY DEF Rows
<1>2. PICK j \in DOMAIN dtos : y = [id |-> first + j - 1, kind |-> dtos[j].kind, label |-> dtos[j].label]
  BY DEF Rows
<1>3. dtos[i] = dtos[j] /\ dtos[i].kind \in LabelledKinds
  <2>1. /\ dtos[i] = [kind |-> dtos[i].kind, label |-> dtos[i].label]
        /\ dtos[j] = [kind |-> dtos[j].kind, label |-> dtos[j].label]
    BY RoleLists
  <2>2. dtos[i].kind = dtos[j].kind /\ dtos[i].label = dtos[j].label
    BY <1>1, <1>2
  <2> QED
    BY <1>1, <2>1, <2>2
<1>4. i = j
  BY <1>3 DEF ValidRoleLabels
<1> QED
  BY <1>1, <1>2, <1>4

\* A request that is done has committed.
LEMMA DoneByCommit ==
    ASSUME pc \in [Requests -> Steps], [Next]_vars, NEW r \in Requests,
           pc[r] = "commit", pc'[r] = "done"
    PROVE  Commit(r)
<1>1. ASSUME NEW q \in Requests, Refuse(q)
      PROVE  FALSE
  BY <1>1 DEF Refuse, EndTransaction, GoTo
<1>2. ASSUME NEW q \in Requests, NEW p \in Bodies, BeginOnCampaign(q, p) \/ BeginOnRole(q, p) \/ BeginPost(q, p)
      PROVE  FALSE
  BY <1>2 DEF BeginOnCampaign, BeginOnRole, BeginPost, MayBegin, GoTo
<1>3. ASSUME NEW q \in Requests, CheckRules(q) \/ CheckPatch(q) \/ CheckPost(q) \/ CheckPatchRole(q) \/ CheckDelete(q)
      PROVE  FALSE
  BY <1>1, <1>3 DEF CheckRules, CheckPatch, CheckPost, CheckPatchRole, CheckDelete, CheckStep, Checked, GoTo
<1>4. ASSUME NEW q \in Requests, UpdateCampaign(q) \/ FindChildren(q) \/ LockChildren(q)
      PROVE  FALSE
  BY <1>4 DEF UpdateCampaign, FindChildren, LockChildren, GoTo
<1>5. ASSUME NEW q \in Requests, Commit(q)
      PROVE  q = r
  BY <1>5 DEF Commit, EndTransaction, GoTo
<1>6. ~ UNCHANGED vars
  BY DEF vars
<1> QED
  BY <1>1, <1>2, <1>3, <1>4, <1>5, <1>6 DEF Next, Step, DeadlockVictim

\* What the commit of a list of roles leaves is the list.
LEMMA ListReplaces ==
    ASSUME SerialInv, NEW r \in Requests, Commit(r), Overwrites(r)
    PROVE  roles' = Rows(body[r].roles, nextId) /\ IsRoleList(body[r].roles)
<1>1. pc[r] = "commit" /\ Active(r)
  BY DEF Commit, Active
<1>2. held[r] = Ids(roles) /\ body[r] \in Bodies
  BY <1>1 DEF SerialInv, IInv, Typed, Aims
<1>3. {x \in roles : x.id \notin held[r]} = {}
  BY <1>2 DEF Ids
<1> QED
  BY <1>2, <1>3, PayloadsAssumption DEF Commit, RowsAfter, Overwrites

\* A commit of a request that is alone stores what the request has checked.
LEMMA CommitAlone ==
    ASSUME NoRenames, SerialInv, IInv', NEW r \in Requests, Commit(r)
    PROVE  SerialInv'
<1> DEFINE p == body[r]
<1>1. /\ pc[r] = "commit" /\ Active(r) /\ UNCHANGED body
      /\ pc' = [pc EXCEPT ![r] = "done"]
      /\ roles' = RowsAfter(r)
      /\ rules' = IF Changes(r, "rules") THEN p.rules ELSE rules
      /\ tools' = IF Changes(r, "tools") THEN p.tools ELSE tools
  BY DEF Commit, EndTransaction, GoTo, Active
<1>2. p \in Bodies /\ Stands(r) /\ Fresh(r) /\ Aims(r) /\ RulesResolve /\ LabelsUnique /\ IInv
  BY <1>1 DEF SerialInv, IInv, Typed
<1>3. \A q \in Requests : ~ Active(q)'
  <2>1. pc'[r] = "done" /\ \A q \in Requests : q # r => pc'[q] = pc[q]
    BY <1>1 DEF SerialInv, IInv, Typed
  <2> QED
    BY <1>1, <2>1 DEF SerialInv, OneOpen, Active
<1>4. /\ p.op = "putRules" => rules' \in {p.rules, rules}
      /\ p.op \in {"putRules", "postRole", "deleteRole"} => tools' = tools
      /\ p.op \in {"postRole", "deleteRole"} => rules' = rules
  BY <1>1, <1>2, PayloadsAssumption DEF Changes
<1>5. p.op \in {"patch", "seed"} => /\ rules' = IF Given(p.rules) THEN p.rules ELSE rules
                                    /\ tools' = ToolsLeft(r)
  <2> SUFFICES ASSUME p.op \in {"patch", "seed"}
               PROVE  /\ rules' = IF Given(p.rules) THEN p.rules ELSE rules
                      /\ tools' = ToolsLeft(r)
    OBVIOUS
  <2>1. saw[r].rules = rules /\ saw[r].tools = tools
    BY <1>2 DEF Fresh, OnCampaign
  <2>2. "rules" \in DOMAIN p /\ "tools" \in DOMAIN p
    BY <1>2, PayloadsAssumption
  <2> QED
    BY <1>1, <2>1, <2>2 DEF Changes, ToolsLeft
<1>6. CASE p.op = "putRules"
  <2>1. roles' = roles /\ tools' = tools /\ rules' \in {p.rules, rules}
    BY <1>1, <1>4, <1>6 DEF RowsAfter
  <2>2. ValidRules(p.rules, roles, tools)
    BY <1>1, <1>2, <1>6 DEF Fresh
  <2> QED
    BY <1>2, <1>3, <2>1, <2>2 DEF SerialInv, OneOpen, RulesResolve, LabelsUnique
<1>7. CASE p.op \in {"patch", "seed"} /\ ~ Given(p.roles)
  <2>1. roles' = roles /\ p.op = "patch"
    BY <1>1, <1>2, <1>7, SeedAssumption DEF RowsAfter
  <2>2. ValidRules(RulesToCheck(r), roles, ToolsLeft(r))
    BY <1>1, <1>2, <1>7, <2>1 DEF Fresh, RolesLeft
  <2>3. RulesToCheck(r) = rules'
    BY <1>2, <1>5, <1>7 DEF RulesToCheck, Fresh, OnCampaign
  <2> QED
    BY <1>2, <1>3, <1>5, <1>7, <2>1, <2>2, <2>3 DEF SerialInv, OneOpen, RulesResolve, LabelsUnique
<1>8. CASE p.op \in {"patch", "seed"} /\ Given(p.roles)
  <2>1. roles' = Rows(p.roles, nextId) /\ IsRoleList(p.roles)
    BY <1>8, ListReplaces DEF Overwrites
  <2>2. nextId \in Nat \ {0}
    BY <1>2 DEF IInv, Typed
  <2>3. \A kind : LabelsOf(kind, roles') = LabelsOf(kind, RangeOf(p.roles))
    BY <2>1, <2>2, RowsOfList
  <2>4. ValidRoleLabels(p.roles) /\ ValidRules(rules', RangeOf(p.roles), tools')
    <3>1. CASE p.op = "seed"
      <4>1. /\ ValidRoleLabels(p.roles) /\ ValidRules(p.rules, RangeOf(p.roles), {})
            /\ rules' = p.rules
        BY <1>2, <1>5, <3>1, SeedAssumption
      <4> QED
        BY <4>1, RulesResolveMonotonic
    <3>2. CASE p.op = "patch"
      <4>1. RulesToCheck(r) = rules'
        BY <1>2, <1>5, <3>2 DEF RulesToCheck, Fresh, OnCampaign
      <4> QED
        BY <1>1, <1>2, <1>5, <1>8, <3>2, <4>1 DEF Fresh, RolesLeft
    <3> QED
      BY <1>8, <3>1, <3>2
  <2>5. RulesResolve'
    BY <2>3, <2>4, RulesResolveMonotonic DEF RulesResolve
  <2>6. LabelsUnique'
    BY <2>1, <2>2, <2>4, UniqueInList DEF LabelsUnique
  <2> QED
    BY <1>3, <2>5, <2>6 DEF SerialInv, OneOpen
<1>9. CASE p.op = "postRole"
  <2> DEFINE new == [id |-> nextId, kind |-> p.role.kind, label |-> p.role.label]
  <2>1. roles' = roles \cup {new}
    <3>1. Rows(<<p.role>>, nextId) = {new}
      BY <1>2 DEF Rows, IInv, Typed
    <3> QED
      BY <1>1, <1>9, <3>1 DEF RowsAfter
  <2>2. rules' = rules /\ tools' = tools
    BY <1>4, <1>9
  <2>3. \A kind : LabelsOf(kind, roles) \subseteq LabelsOf(kind, roles')
    BY <2>1 DEF LabelsOf
  <2>4. RulesResolve'
    BY <1>2, <2>2, <2>3, RulesResolveMonotonic DEF RulesResolve
  <2>5. new.kind \in LabelledKinds => \A x \in roles : x.kind # new.kind \/ x.label # new.label
    <3>1. LabelFree(p.role, roles, 0) /\ \A x \in roles : x.id # 0
      BY <1>1, <1>2, <1>9 DEF Fresh, IInv, TypeOK, Typed
    <3> QED
      BY <3>1 DEF LabelFree
  <2> HIDE DEF new
  <2>6. LabelsUnique'
    BY <1>2, <2>1, <2>5 DEF LabelsUnique
  <2> QED
    BY <1>3, <2>4, <2>6 DEF SerialInv, OneOpen
<1>10. CASE p.op = "deleteRole"
  <2>1. saw[r] \in roles /\ ~ InUse(saw[r]) /\ held[r] = {saw[r].id}
    BY <1>1, <1>2, <1>10 DEF Fresh, Aims
  <2>2. roles' = {x \in roles : x.id # saw[r].id} /\ rules' = rules /\ tools' = tools
    BY <1>1, <1>4, <1>10, <2>1 DEF RowsAfter
  <2>3. RulesResolve' /\ LabelsUnique'
    BY <1>2, <2>1, <2>2, UnusedCanGo DEF RulesResolve, LabelsUnique
  <2> QED
    BY <1>3, <2>3 DEF SerialInv, OneOpen
<1>11. p.op \in {"putRules", "patch", "seed", "postRole", "deleteRole"}
  BY <1>2, PayloadsAssumption DEF NoRenames
<1> QED
  BY <1>6, <1>7, <1>8, <1>9, <1>10, <1>11

\* Every step of transactions that are never open together keeps the invariant.
LEMMA SerialStep ==
    ASSUME MaxActive = 1, NoRenames, SerialInv, [Next]_vars
    PROVE  SerialInv'
<1>1. IInv'
  BY TypeStep DEF SerialInv
<1>2. ASSUME NEW r \in Requests, DeadlockVictim(r)
      PROVE  SerialInv'
  <2>1. Active(r) /\ pc' = [pc EXCEPT ![r] = "refused"] /\ UNCHANGED stored
    BY <1>2 DEF DeadlockVictim, Refuse, EndTransaction, GoTo, WaitsFor, WaitsForRows, WritesCampaign, Active
  <2>2. ~ Active(r)' /\ \A q \in Requests : q # r => pc'[q] = pc[q]
    BY <2>1 DEF SerialInv, IInv, Typed, Active
  <2> QED
    BY <1>1, <2>1, <2>2, SoleStep
<1>3. CASE UNCHANGED vars
  <2>1. UNCHANGED <<roles, rules, tools, pc, body, saw, found, held>>
    BY <1>3 DEF vars, stored
  <2>2. OneOpen' /\ RulesResolve' /\ LabelsUnique'
    BY <2>1 DEF SerialInv, OneOpen, RulesResolve, LabelsUnique, Active
  <2>3. ASSUME NEW r \in Requests, Active(r)'
        PROVE  (Stands(r) /\ Fresh(r) /\ Aims(r))'
    <3>1. Stands(r) /\ Fresh(r) /\ Aims(r)
      BY <2>1, <2>3 DEF SerialInv, Active
    <3>2. /\ RulesToCheck(r)' = RulesToCheck(r) /\ RolesLeft(r)' = RolesLeft(r)
          /\ ToolsLeft(r)' = ToolsLeft(r) /\ InUse(saw[r])' = InUse(saw[r])
      BY <2>1 DEF RulesToCheck, RolesLeft, ToolsLeft, InUse, Names
    <3>3. Fresh(r)'
      BY <2>1, <3>1, <3>2 DEF Fresh, OnCampaign
    <3> QED
      BY <2>1, <3>1, <3>3 DEF Stands, Aims, OnCampaign, Overwrites, Ids
  <2> QED
    BY <1>1, <2>2, <2>3 DEF SerialInv
<1> QED
  BY <1>1, <1>2, <1>3, BeginAlone, ChecksAlone, WritesAlone, CommitAlone DEF Next, Step

\* The campaign is created with labels that are unique and rules that resolve.
LEMMA SerialInit == Init => SerialInv
<1> SUFFICES ASSUME Init PROVE SerialInv
  OBVIOUS
<1>1. PICK p \in Creations : /\ ValidRoleLabels(p.roles)
                             /\ ValidRules(p.rules, RangeOf(p.roles), p.tools)
                             /\ roles = Rows(p.roles, 1) /\ rules = p.rules /\ tools = p.tools
  BY DEF Init
<1>2. IsRoleList(p.roles)
  BY PayloadsAssumption
<1>3. RulesResolve
  <2>1. \A kind : LabelsOf(kind, roles) = LabelsOf(kind, RangeOf(p.roles))
    BY <1>1, <1>2, RowsOfList
  <2> QED
    BY <1>1, <2>1, RulesResolveMonotonic DEF RulesResolve
<1>4. LabelsUnique
  BY <1>1, <1>2, UniqueInList DEF LabelsUnique
<1>5. \A r \in Requests : ~ Active(r)
  BY DEF Init, Active
<1> QED
  BY <1>3, <1>4, <1>5, TypeInit DEF SerialInv, OneOpen

\* The inductive invariant of transactions that are never open together.
THEOREM SerialInvariance ==
    ASSUME MaxActive = 1, NoRenames
    PROVE  Spec => []SerialInv
<1>1. SerialInv /\ [Next]_vars => SerialInv'
  BY SerialStep
<1> QED
  BY <1>1, SerialInit, PTL DEF Spec

\* "every routing rule must reference a referee + (for route/tool actions) a
\* persona label or tool alias that actually exists on the campaign"
\* (routing_validation.py:7-9), for any payloads and any number of requests, one
\* at a time, none of which renames a role.
THEOREM RulesAlwaysResolve ==
    ASSUME MaxActive = 1, NoRenames
    PROVE  Spec => []RulesResolve
<1>1. SerialInv => RulesResolve
  BY DEF SerialInv
<1> QED
  BY <1>1, SerialInvariance, PTL

\* Labels stay unique per kind (role_configs.py:56), under the same conditions.
THEOREM LabelsStayUnique ==
    ASSUME MaxActive = 1, NoRenames
    PROVE  Spec => []LabelsUnique
<1>1. SerialInv => LabelsUnique
  BY DEF SerialInv
<1> QED
  BY <1>1, SerialInvariance, PTL

\* "deleting a still-referenced referee is rejected" (role_configs.py:7-8), and so
\* for personas, under the same conditions: with two open transactions it is not
\* (routing_race).
THEOREM RolesInUseStay ==
    ASSUME MaxActive = 1, NoRenames
    PROVE  Spec => DeleteIsRefusedInUse
<1> DEFINE Refused == \A r \in Requests :
                         pc[r] = "commit" /\ pc'[r] = "done" /\ body[r].op = "deleteRole"
                         => \A x \in rules : ~ Names(x, saw[r])
<1>1. SerialInv => Refused
  <2> SUFFICES ASSUME SerialInv, NEW r \in Requests, pc[r] = "commit", body[r].op = "deleteRole",
                      NEW x \in rules
               PROVE  ~ Names(x, saw[r])
    OBVIOUS
  <2> QED
    BY UnnamedRole DEF SerialInv, Fresh, Active
<1>2. SerialInv => [Refused]_vars
  BY <1>1
<1> QED
  BY <1>2, SerialInvariance, PTL DEF DeleteIsRefusedInUse

\* "children lists fully overwrite when present" (schemas.py:87-88): after the
\* commit of a list, as many rows are stored as it has entries, each of them in
\* the list, under the same conditions.
THEOREM ListsOverwrite ==
    ASSUME MaxActive = 1, NoRenames
    PROVE  Spec => ChildrenOverwritten
<1> DEFINE Overwritten ==
             \A r \in Requests :
                pc[r] = "commit" /\ pc'[r] = "done" /\ body[r].op \in {"patch", "seed"}
                   /\ Given(body[r].roles)
                => /\ Cardinality(roles') = Len(body[r].roles)
                   /\ \A x \in roles' : [kind |-> x.kind, label |-> x.label] \in RangeOf(body[r].roles)
<1>1. SerialInv /\ [Next]_vars => Overwritten
  <2> SUFFICES ASSUME SerialInv, [Next]_vars, NEW r \in Requests, pc[r] = "commit", pc'[r] = "done",
                      Overwrites(r)
               PROVE  /\ Cardinality(roles') = Len(body[r].roles)
                      /\ \A x \in roles' : [kind |-> x.kind, label |-> x.label] \in RangeOf(body[r].roles)
    BY DEF Overwrites
  <2>1. Commit(r)
    BY DoneByCommit DEF SerialInv, IInv, Typed
  <2>2. roles' = Rows(body[r].roles, nextId) /\ IsRoleList(body[r].roles) /\ nextId \in Nat \ {0}
    BY <2>1, ListReplaces DEF SerialInv, IInv, Typed
  <2> QED
    BY <2>2, RowsCount, RowsOfList
<1>2. SerialInv /\ [Next]_vars => [Overwritten]_vars
  BY <1>1
<1> QED
  BY <1>2, SerialInvariance, PTL DEF ChildrenOverwritten, Spec

-----------------------------------------------------------------------------
(* Any number of transactions that take nothing away.                      *)

\* Only PUTs of the rules, POSTs of roles, and PATCHes of the campaign without
\* lists of roles or tools.
OnlyAdds ==
    \A p \in Bodies :
        \/ p.op \in {"putRules", "postRole"}
        \/ p.op = "patch" /\ ~ Given(p.roles) /\ ~ Given(p.tools)

StoresRules(r) == body[r].op \in {"putRules", "patch"}

\* The tools that a PUT or PATCH has loaded are the stored ones, and the rules
\* it has checked go on resolving while roles are added.
AddsInv ==
    /\ IInv /\ RulesResolve
    /\ \A r \in Requests :
          Active(r) =>
             /\ pc[r] \in {"check", "update", "commit"}
             /\ StoresRules(r) =>
                  /\ saw[r].tools = tools
                  /\ pc[r] # "check" /\ Given(body[r].rules) => ValidRules(body[r].rules, roles, tools)

\* Every step of such requests keeps this, however they interleave.
LEMMA AddsStep ==
    ASSUME OnlyAdds, AddsInv, [Next]_vars
    PROVE  AddsInv'
<1> DEFINE Kept(r) == /\ pc[r] \in {"check", "update", "commit"}
                      /\ StoresRules(r) =>
                           /\ saw[r].tools = tools
                           /\ pc[r] # "check" /\ Given(body[r].rules) => ValidRules(body[r].rules, roles, tools)
<1> USE DEF StoresRules
<1>1. IInv'
  BY TypeStep DEF AddsInv
<1>2. ASSUME NEW r \in Requests, UNCHANGED <<stored, body, saw>>,
             \A q \in Requests : q # r => pc'[q] = pc[q],
             Active(r)' => Kept(r)'
      PROVE  AddsInv'
  <2>1. RulesResolve'
    BY <1>2 DEF AddsInv, RulesResolve, stored
  <2>2. ASSUME NEW q \in Requests, q # r, Active(q)'
        PROVE  Kept(q)'
    BY <1>2, <2>2 DEF AddsInv, Active, stored
  <2> QED
    BY <1>1, <1>2, <2>1, <2>2 DEF AddsInv
<1>3. ASSUME NEW r \in Requests, Refuse(r)
      PROVE  AddsInv'
  <2>1. UNCHANGED <<stored, body, saw>> /\ pc' = [pc EXCEPT ![r] = "refused"]
    BY <1>3 DEF Refuse, EndTransaction, GoTo
  <2>2. ~ Active(r)' /\ \A q \in Requests : q # r => pc'[q] = pc[q]
    BY <2>1 DEF AddsInv, IInv, Typed, Active
  <2> QED
    BY <1>2, <2>1, <2>2
<1>4. ASSUME NEW r \in Requests, NEW p \in Bodies,
             BeginOnCampaign(r, p) \/ BeginOnRole(r, p) \/ BeginPost(r, p)
      PROVE  AddsInv'
  <2>1. /\ pc' = [pc EXCEPT ![r] = "check"] /\ body' = [body EXCEPT ![r] = p] /\ UNCHANGED stored
        /\ \/ p.op \in {"putRules", "patch"} /\ saw' = [saw EXCEPT ![r] = [rules |-> rules, tools |-> tools]]
           \/ p.op = "postRole" /\ UNCHANGED saw
    BY <1>4 DEF OnlyAdds, BeginOnCampaign, BeginOnRole, BeginPost, GoTo
  <2>2. /\ pc'[r] = "check" /\ body'[r] = p
        /\ p.op \in {"putRules", "patch"} => saw'[r] = [rules |-> rules, tools |-> tools]
        /\ \A q \in Requests : q # r => pc'[q] = pc[q] /\ body'[q] = body[q] /\ saw'[q] = saw[q]
    BY <2>1 DEF AddsInv, IInv, Typed
  <2>3. \A q \in Requests : Active(q)' => Kept(q)'
    BY <2>1, <2>2 DEF AddsInv, Active, stored
  <2> QED
    BY <1>1, <2>1, <2>3 DEF AddsInv, RulesResolve, stored
<1>5. ASSUME NEW r \in Requests, CheckRules(r) \/ CheckPatch(r) \/ CheckPost(r) \/ CheckPatchRole(r) \/ CheckDelete(r)
      PROVE  AddsInv'
  <2>1. pc[r] = "check" /\ body[r] \in Bodies /\ Active(r)
    BY <1>5 DEF CheckRules, CheckPatch, CheckPost, CheckPatchRole, CheckDelete, CheckStep,
                AddsInv, IInv, Typed, Active
  <2>2. CASE CheckRules(r) /\ ~ Refuse(r)
    <3>1. /\ body[r].op = "putRules" /\ pc' = [pc EXCEPT ![r] = "update"] /\ UNCHANGED <<stored, body, saw>>
          /\ ValidRules(body[r].rules, roles, saw[r].tools)
      BY <2>2 DEF CheckRules, CheckStep, Checked, GoTo
    <3>2. saw[r].tools = tools
      BY <2>1, <3>1 DEF AddsInv
    <3>3. pc'[r] = "update" /\ \A q \in Requests : q # r => pc'[q] = pc[q]
      BY <3>1 DEF AddsInv, IInv, Typed
    <3>4. Kept(r)'
      BY <3>1, <3>2, <3>3 DEF stored
    <3> QED
      BY <1>2, <3>1, <3>3, <3>4
  <2>3. CASE CheckPost(r) /\ ~ Refuse(r)
    <3>1. body[r].op = "postRole" /\ pc' = [pc EXCEPT ![r] = "commit"] /\ UNCHANGED <<stored, body, saw>>
      BY <2>3 DEF CheckPost, CheckStep, Checked, GoTo
    <3>2. pc'[r] = "commit" /\ \A q \in Requests : q # r => pc'[q] = pc[q]
      BY <3>1 DEF AddsInv, IInv, Typed
    <3> QED
      BY <1>2, <3>1, <3>2
  <2>4. CASE CheckPatch(r) /\ ~ Refuse(r)
    <3>1. /\ body[r].op = "patch" /\ pc' = [pc EXCEPT ![r] = "update"] /\ UNCHANGED <<stored, body, saw>>
          /\ Given(body[r].rules) => ValidRules(body[r].rules, roles, saw[r].tools)
      BY <2>1, <2>4 DEF CheckPatch, CheckStep, Checked, GoTo, RulesToCheck, OnlyAdds
    <3>2. saw[r].tools = tools
      BY <2>1, <3>1 DEF AddsInv
    <3>3. pc'[r] = "update" /\ \A q \in Requests : q # r => pc'[q] = pc[q]
      BY <3>1 DEF AddsInv, IInv, Typed
    <3>4. Kept(r)'
      BY <3>1, <3>2, <3>3 DEF stored
    <3> QED
      BY <1>2, <3>1, <3>3, <3>4
  <2>5. ~ CheckPatchRole(r) /\ ~ CheckDelete(r)
    BY <2>1 DEF OnlyAdds, CheckPatchRole, CheckDelete, CheckStep
  <2> QED
    BY <1>3, <1>5, <2>2, <2>3, <2>4, <2>5
<1>6. ASSUME NEW r \in Requests, UpdateCampaign(r)
      PROVE  AddsInv'
  <2>1. pc[r] = "update" /\ Active(r) /\ body[r] \in Bodies
    BY <1>6 DEF UpdateCampaign, AddsInv, IInv, Typed, Active
  <2>2. pc' = [pc EXCEPT ![r] = "commit"] /\ UNCHANGED <<stored, body, saw>>
    BY <1>6, <2>1 DEF UpdateCampaign, GoTo, OnlyAdds
  <2>3. pc'[r] = "commit" /\ \A q \in Requests : q # r => pc'[q] = pc[q]
    BY <2>2 DEF AddsInv, IInv, Typed
  <2>4. Kept(r)'
    BY <2>1, <2>2, <2>3 DEF AddsInv, stored
  <2> QED
    BY <1>2, <2>2, <2>3, <2>4
<1>7. ASSUME NEW r \in Requests, FindChildren(r) \/ LockChildren(r)
      PROVE  AddsInv'
  BY <1>7 DEF FindChildren, LockChildren, AddsInv, Active
<1>8. ASSUME NEW r \in Requests, Commit(r)
      PROVE  AddsInv'
  <2>1. pc[r] = "commit" /\ Active(r) /\ body[r] \in Bodies /\ UNCHANGED <<body, saw>>
    BY <1>8 DEF Commit, EndTransaction, AddsInv, IInv, Typed, Active
  <2>2. \A kind : LabelsOf(kind, roles) \subseteq LabelsOf(kind, roles')
    <3>1. roles \subseteq roles'
      BY <1>8, <2>1 DEF Commit, RowsAfter, OnlyAdds
    <3> QED
      BY <3>1 DEF LabelsOf
  <2>3. tools' = tools
    BY <1>8, <2>1, PayloadsAssumption DEF Commit, Changes, OnlyAdds
  <2>4. rules' = rules \/ (StoresRules(r) /\ Given(body[r].rules) /\ rules' = body[r].rules)
    BY <1>8, <2>1, PayloadsAssumption DEF Commit, Changes, OnlyAdds
  <2>5. ValidRules(rules', roles, tools)
    BY <2>1, <2>4 DEF AddsInv, RulesResolve
  <2>6. RulesResolve'
    BY <2>2, <2>3, <2>5, RulesResolveMonotonic DEF RulesResolve
  <2>7. pc'[r] = "done" /\ \A q \in Requests : q # r => pc'[q] = pc[q]
    BY <1>8 DEF Commit, EndTransaction, GoTo, AddsInv, IInv, Typed
  <2>8. ASSUME NEW q \in Requests, Active(q)'
        PROVE  Kept(q)'
    <3>1. q # r /\ Kept(q)
      BY <2>7, <2>8 DEF Active, AddsInv
    <3>2. ValidRules(body[q].rules, roles, tools) => ValidRules(body[q].rules, roles', tools)
      BY <2>2, RulesResolveMonotonic
    <3> QED
      BY <2>1, <2>3, <2>7, <3>1, <3>2
  <2> QED
    BY <1>1, <2>6, <2>8 DEF AddsInv
<1>9. CASE UNCHANGED vars
  BY <1>1, <1>9 DEF vars, stored, AddsInv, RulesResolve, Active
<1> QED
  BY <1>3, <1>4, <1>5, <1>6, <1>7, <1>8, <1>9 DEF Next, Step, DeadlockVictim

\* PUTs of the rules, POSTs of roles and PATCHes of a campaign that replace
\* neither roles nor tools may interleave as they like: the rules still resolve,
\* for any number of them. It takes a request that takes a label or a tool away
\* to break them.
THEOREM RulesResolveUnderAdds ==
    ASSUME OnlyAdds
    PROVE  Spec => []RulesResolve
<1>1. Init => AddsInv
  BY SerialInit DEF Init, SerialInv, AddsInv, Active
<1>2. AddsInv /\ [Next]_vars => AddsInv'
  BY AddsStep
<1>3. AddsInv => RulesResolve
  BY DEF AddsInv
<1> QED
  BY <1>1, <1>2, <1>3, PTL DEF Spec

-----------------------------------------------------------------------------
(* Any number of transactions that leave the rules alone.                  *)

\* Only POSTs and DELETEs of roles.
RulesFixed == \A p \in Bodies : p.op \in {"postRole", "deleteRole"}

\* What a DELETE knows of the role it has loaded: its id is given to no other,
\* and once it has looked, no rule names it.
Condemned(r) ==
    /\ saw[r].id \in 1 .. nextId - 1
    /\ \A x \in roles : x.id = saw[r].id => x = saw[r]
    /\ pc[r] # "check" => ~ InUse(saw[r])
    /\ pc[r] = "lockRows" => found[r] = {saw[r].id}
    /\ held[r] \subseteq {saw[r].id}

RolesInv ==
    /\ IInv /\ RulesResolve
    /\ \A r \in Requests :
          Active(r) =>
             /\ pc[r] \in {"check", "lockRows", "commit"}
             /\ body[r].op = "postRole" => pc[r] # "lockRows"
             /\ body[r].op = "deleteRole" => Condemned(r)

\* Every step of such requests keeps this, however they interleave.
LEMMA RolesStep ==
    ASSUME RulesFixed, RolesInv, [Next]_vars
    PROVE  RolesInv'
<1> DEFINE Kept(r) == /\ pc[r] \in {"check", "lockRows", "commit"}
                      /\ body[r].op = "postRole" => pc[r] # "lockRows"
                      /\ body[r].op = "deleteRole" => Condemned(r)
<1>1. IInv'
  BY TypeStep DEF RolesInv
<1>2. ASSUME NEW r \in Requests, UNCHANGED stored,
             \A q \in Requests : q # r => /\ pc'[q] = pc[q] /\ body'[q] = body[q] /\ saw'[q] = saw[q]
                                         /\ found'[q] = found[q] /\ held'[q] = held[q],
             Active(r)' => Kept(r)'
      PROVE  RolesInv'
  <2>1. RulesResolve'
    BY <1>2 DEF RolesInv, RulesResolve, stored
  <2>2. ASSUME NEW q \in Requests, q # r, Active(q)'
        PROVE  Kept(q)'
    BY <1>2, <2>2 DEF RolesInv, Active, stored, Condemned, InUse
  <2> QED
    BY <1>1, <1>2, <2>1, <2>2 DEF RolesInv
<1>3. ASSUME NEW r \in Requests, Refuse(r)
      PROVE  RolesInv'
  <2>1. /\ UNCHANGED <<stored, body, saw, found>>
        /\ pc' = [pc EXCEPT ![r] = "refused"] /\ held' = [held EXCEPT ![r] = {}]
    BY <1>3 DEF Refuse, EndTransaction, GoTo, Released
  <2>2. ~ Active(r)' /\ \A q \in Requests : q # r => pc'[q] = pc[q] /\ held'[q] = held[q]
    BY <2>1 DEF RolesInv, IInv, Typed, Active
  <2> QED
    BY <1>2, <2>1, <2>2
<1>4. ASSUME NEW r \in Requests, NEW p \in Bodies,
             BeginOnCampaign(r, p) \/ BeginOnRole(r, p) \/ BeginPost(r, p)
      PROVE  RolesInv'
  <2>1. /\ pc' = [pc EXCEPT ![r] = "check"] /\ body' = [body EXCEPT ![r] = p]
        /\ UNCHANGED <<stored, found, held>> /\ ~ Active(r)
        /\ \/ p.op = "deleteRole" /\ \E x \in roles : saw' = [saw EXCEPT ![r] = x]
           \/ p.op = "postRole" /\ UNCHANGED saw
    BY <1>4 DEF RulesFixed, BeginOnCampaign, BeginOnRole, BeginPost, GoTo, MayBegin, Active
  <2>2. /\ pc'[r] = "check" /\ body'[r] = p /\ held[r] = {}
        /\ p.op = "deleteRole" => saw'[r] \in roles
        /\ \A q \in Requests : q # r => pc'[q] = pc[q] /\ body'[q] = body[q] /\ saw'[q] = saw[q]
    BY <2>1 DEF RolesInv, IInv, Typed, TypeOK
  <2>3. p.op = "deleteRole" => Condemned(r)'
    BY <2>1, <2>2 DEF RolesInv, IInv, TypeOK, Condemned, stored
  <2> QED
    BY <1>2, <2>1, <2>2, <2>3
<1>5. ASSUME NEW r \in Requests, CheckRules(r) \/ CheckPatch(r) \/ CheckPost(r) \/ CheckPatchRole(r) \/ CheckDelete(r)
      PROVE  RolesInv'
  <2>1. pc[r] = "check" /\ body[r] \in Bodies /\ Active(r)
    BY <1>5 DEF CheckRules, CheckPatch, CheckPost, CheckPatchRole, CheckDelete, CheckStep,
                RolesInv, IInv, Typed, Active
  <2>2. CASE CheckPost(r) /\ ~ Refuse(r)
    <3>1. /\ body[r].op = "postRole" /\ pc' = [pc EXCEPT ![r] = "commit"]
          /\ UNCHANGED <<stored, body, saw, found, held>>
      BY <2>2 DEF CheckPost, CheckStep, Checked, GoTo
    <3>2. pc'[r] = "commit" /\ \A q \in Requests : q # r => pc'[q] = pc[q]
      BY <3>1 DEF RolesInv, IInv, Typed
    <3> QED
      BY <1>2, <3>1, <3>2
  <2>3. CASE CheckDelete(r) /\ ~ Refuse(r)
    <3>1. /\ body[r].op = "deleteRole" /\ pc' = [pc EXCEPT ![r] = "lockRows"] /\ ~ InUse(saw[r])
          /\ found' = [found EXCEPT ![r] = {saw[r].id}] /\ UNCHANGED <<stored, body, saw, held>>
      BY <2>3 DEF CheckDelete, CheckStep, GoTo
    <3>2. /\ pc'[r] = "lockRows" /\ found'[r] = {saw[r].id}
          /\ \A q \in Requests : q # r => pc'[q] = pc[q] /\ found'[q] = found[q]
      BY <3>1 DEF RolesInv, IInv, Typed
    <3>3. Condemned(r)'
      BY <2>1, <3>1, <3>2 DEF RolesInv, Condemned, InUse, stored
    <3> QED
      BY <1>2, <3>1, <3>2, <3>3
  <2>4. ~ CheckRules(r) /\ ~ CheckPatch(r) /\ ~ CheckPatchRole(r)
    BY <2>1 DEF RulesFixed, CheckRules, CheckPatch, CheckPatchRole, CheckStep
  <2> QED
    BY <1>3, <1>5, <2>2, <2>3, <2>4
<1>6. ASSUME NEW r \in Requests, LockChildren(r)
      PROVE  RolesInv'
  <2>1. pc[r] = "lockRows" /\ Active(r) /\ body[r].op = "deleteRole"
    BY <1>6 DEF LockChildren, RolesInv, IInv, Typed, Active, RulesFixed
  <2>2. /\ pc' = [pc EXCEPT ![r] = "commit"] /\ held' = [held EXCEPT ![r] = Locked(r)]
        /\ UNCHANGED <<stored, body, saw, found>>
    BY <1>6, <2>1 DEF LockChildren, GoTo
  <2>3. /\ pc'[r] = "commit" /\ held'[r] = Locked(r)
        /\ \A q \in Requests : q # r => pc'[q] = pc[q] /\ held'[q] = held[q]
    BY <2>2 DEF RolesInv, IInv, Typed
  <2>4. Condemned(r)'
    BY <2>1, <2>2, <2>3 DEF RolesInv, Condemned, InUse, stored, Locked
  <2> QED
    BY <1>2, <2>1, <2>2, <2>3, <2>4
<1>7. ASSUME NEW r \in Requests, UpdateCampaign(r) \/ FindChildren(r)
      PROVE  RolesInv'
  BY <1>7 DEF UpdateCampaign, FindChildren, RolesInv, Active
<1>8. ASSUME NEW r \in Requests, Commit(r)
      PROVE  RolesInv'
  <2>1. pc[r] = "commit" /\ Active(r) /\ body[r] \in Bodies /\ UNCHANGED <<body, saw, found>>
    BY <1>8 DEF Commit, EndTransaction, RolesInv, IInv, Typed, Active
  <2>2. rules' = rules /\ tools' = tools
    BY <1>8, <2>1, PayloadsAssumption DEF Commit, Changes, RulesFixed
  <2>3. /\ pc'[r] = "done"
        /\ \A q \in Requests : q # r => pc'[q] = pc[q] /\ held'[q] = held[q]
    BY <1>8 DEF Commit, EndTransaction, GoTo, Released, RolesInv, IInv, Typed
  <2>4. /\ ValidRules(rules, roles', tools)
        /\ nextId' \in Nat /\ nextId <= nextId'
        /\ \A x \in roles' : x \in roles \/ x.id >= nextId
    <3>1. CASE body[r].op = "postRole"
      <4>1. /\ roles' = roles \cup Rows(<<body[r].role>>, nextId)
            /\ nextId' = nextId + 1
        BY <1>8, <3>1 DEF Commit, RowsAfter, Inserted
      <4>2. \A x \in Rows(<<body[r].role>>, nextId) : x.id = nextId
        BY DEF Rows, RolesInv, IInv, Typed
      <4>3. \A kind : LabelsOf(kind, roles) \subseteq LabelsOf(kind, roles')
        BY <4>1 DEF LabelsOf
      <4>4. ValidRules(rules, roles', tools)
        BY <4>3, RulesResolveMonotonic DEF RolesInv, RulesResolve
      <4> QED
        BY <4>1, <4>2, <4>4 DEF RolesInv, IInv, Typed
    <3>2. CASE body[r].op = "deleteRole"
      <4>1. roles' = {x \in roles : x.id \notin held[r]} /\ nextId' = nextId
        BY <1>8, <3>2 DEF Commit, RowsAfter, Inserted, RolesInv, IInv, Typed
      <4>2. held[r] \subseteq {saw[r].id} /\ ~ InUse(saw[r])
            /\ \A x \in roles : x.id = saw[r].id => x = saw[r]
        BY <2>1, <3>2 DEF RolesInv, Condemned
      <4>3. roles' = roles \/ (saw[r] \in roles /\ roles' = {x \in roles : x.id # saw[r].id})
        BY <4>1, <4>2
      <4>4. ValidRules(rules, roles', tools)
        BY <4>2, <4>3, UnusedCanGo DEF RolesInv, RulesResolve
      <4> QED
        BY <4>1, <4>4 DEF RolesInv, IInv, Typed
    <3> QED
      BY <2>1, <3>1, <3>2 DEF RulesFixed
  <2>5. RulesResolve'
    BY <2>2, <2>4 DEF RulesResolve
  <2>6. ASSUME NEW q \in Requests, Active(q)'
        PROVE  Kept(q)'
    <3>1. q # r /\ Kept(q)
      BY <2>3, <2>6 DEF Active, RolesInv
    <3>2. body[q].op = "deleteRole" => Condemned(q)'
      BY <2>1, <2>2, <2>3, <2>4, <3>1 DEF Condemned, InUse, RolesInv, IInv, Typed
    <3> QED
      BY <2>1, <2>3, <3>1, <3>2
  <2> QED
    BY <1>1, <2>5, <2>6 DEF RolesInv
<1>9. CASE UNCHANGED vars
  BY <1>1, <1>9 DEF vars, stored, RolesInv, RulesResolve, Active, Condemned, InUse
<1> QED
  BY <1>3, <1>4, <1>5, <1>6, <1>7, <1>8, <1>9 DEF Next, Step, DeadlockVictim

\* POSTs and DELETEs of roles may interleave as they like too: while nobody writes
\* the rules, they still resolve and no role in use is deleted, for any number of
\* requests. Of the race that routing_race shows, a write of the rules is a part.
THEOREM RolesMayComeAndGo ==
    ASSUME RulesFixed
    PROVE  Spec => []RulesResolve /\ DeleteIsRefusedInUse
<1> DEFINE Refused == \A r \in Requests :
                         pc[r] = "commit" /\ pc'[r] = "done" /\ body[r].op = "deleteRole"
                         => \A x \in rules : ~ Names(x, saw[r])
<1>1. Init => RolesInv
  BY SerialInit DEF Init, SerialInv, RolesInv, Active
<1>2. RolesInv /\ [Next]_vars => RolesInv'
  BY RolesStep
<1>3. RolesInv => RulesResolve
  BY DEF RolesInv
<1>4. RolesInv => Refused
  BY UnnamedRole DEF RolesInv, Condemned, Active
<1>5. RolesInv => [Refused]_vars
  BY <1>4
<1> QED
  BY <1>1, <1>2, <1>3, <1>5, PTL DEF Spec, DeleteIsRefusedInUse
=============================================================================
