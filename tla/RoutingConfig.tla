--------------------------- MODULE RoutingConfig ---------------------------
(***************************************************************************)
(* The role configs, routing rules and tools of one campaign, and the      *)
(* requests that change them: PATCH /campaigns/{id}, PUT                   *)
(* /campaigns/{id}/routing-rules, POST, PATCH, DELETE /role-configs, and    *)
(* the script that seeds a campaign (its body is that of a PATCH).          *)
(*                                                                         *)
(* A request is one PostgreSQL transaction at READ COMMITTED: each         *)
(* statement sees what was committed when it began, an UPDATE or DELETE    *)
(* waits for the transaction that holds a row it has found, writes appear  *)
(* at the commit (get_session). A role is [id, kind, label]; a rule is     *)
(* [referee, action, arg], where arg is a persona, a builtin route or a    *)
(* tool alias as the action says.                                          *)
(***************************************************************************)
EXTENDS Naturals, Sequences, FiniteSets

CONSTANTS Requests,      \* the requests of the run, one transaction each
          Bodies,        \* the requests' operations and payloads
          Creations,     \* payloads of POST /campaigns
          MaxActive,     \* how many transactions may be open at once
          NoLabel,       \* a role's label is null
          Omitted        \* a field the payload leaves out; no holder of a lock

ASSUME MaxActiveAssumption == MaxActive \in Nat \ {0}
ASSUME OmittedAssumption == Omitted \notin Requests
ASSUME RequestsAssumption == IsFiniteSet(Requests)

VARIABLES
    roles,     \* committed rows of role_configs
    rules,     \* committed campaign.routing_rules
    tools,     \* committed aliases of campaign.tools
    nextId,    \* the sequence of role_configs.id
    pc,        \* where each request stands
    body,      \* its operation and payload
    saw,       \* the rows its session has loaded
    found,     \* ids of the role rows its DELETE has found
    held,      \* ids of the role rows it has locked
    campLock   \* the request that has locked the campaign's row

vars == <<roles, rules, tools, nextId, pc, body, saw, found, held, campLock>>
stored == <<roles, rules, tools, nextId>>

-----------------------------------------------------------------------------
(* routing_validation.py.                                                  *)

LabelledKinds == {"referee", "persona"}
BuiltinRoutes == {"closing", "recovery"}

\* referee_labels_of, persona_labels_of
LabelsOf(kind, rs) == {r.label : r \in {x \in rs : x.kind = kind}} \ {NoLabel}

\* validate_role_labels, on the list of a payload: referees and personas are
\* labelled, each label once per kind.
ValidRoleLabels(dtos) ==
    \A i \in DOMAIN dtos :
        dtos[i].kind \in LabelledKinds =>
            /\ dtos[i].label # NoLabel
            /\ \A j \in DOMAIN dtos \ {i} : dtos[j] # dtos[i]

\* Mutant: the target of a route is not looked up.
ResolvesLoosely(rule, rs, aliases) ==
    /\ rule.referee \in LabelsOf("referee", rs)
    /\ rule.action = "tool" => rule.arg \in aliases

\* One rule of validate_routing_rules.
Resolves(rule, rs, aliases) ==
    /\ rule.referee \in LabelsOf("referee", rs)
    /\ rule.action = "route" => rule.arg \in LabelsOf("persona", rs) \cup BuiltinRoutes
    /\ rule.action = "tool" => rule.arg \in aliases

\* validate_routing_rules
ValidRules(ruleSet, rs, aliases) == \A rule \in ruleSet : Resolves(rule, rs, aliases)

\* Mutant: the count is only made when there is a row to leave out of it.
LabelFreeUnsaved(role, rs, self) ==
    role.kind \in LabelledKinds =>
        /\ role.label # NoLabel
        /\ self # 0 => \A r \in rs : r.id # self => r.kind # role.kind \/ r.label # role.label

RangeOf(dtos) == {dtos[i] : i \in DOMAIN dtos}

\* _require_unique_label: the count over the other rows of the same kind.
LabelFree(role, rs, self) ==
    role.kind \in LabelledKinds =>
        /\ role.label # NoLabel
        /\ \A r \in rs : r.id # self => r.kind # role.kind \/ r.label # role.label

-----------------------------------------------------------------------------
Given(field) == field # Omitted

IsRoleList(dtos) ==
    /\ dtos \in Seq(RangeOf(dtos))
    /\ \A d \in RangeOf(dtos) : d = [kind |-> d.kind, label |-> d.label]

\* What the schemas of the payloads guarantee.
ASSUME PayloadsAssumption ==
    /\ \A p \in Creations : IsRoleList(p.roles)
    /\ \A p \in Bodies :
          /\ p.op \in {"putRules", "patch", "seed", "postRole", "patchRole", "deleteRole"}
          /\ "rules" \in DOMAIN p <=> p.op \in {"putRules", "patch", "seed"}
          /\ "tools" \in DOMAIN p <=> p.op \in {"patch", "seed"}
          /\ p.op \in {"patch", "seed"} /\ Given(p.roles) => IsRoleList(p.roles)

\* No route is named by the absence of a label.
ASSUME NoLabelAssumption == NoLabel \notin BuiltinRoutes

\* _SLOTS and ROUTING_RULES of the seed agree, and its rules call no tool.
ASSUME SeedAssumption ==
    \A p \in Bodies :
        p.op = "seed" =>
            /\ Given(p.roles) /\ Given(p.rules) /\ ~ Given(p.tools)
            /\ ValidRoleLabels(p.roles)
            /\ ValidRules(p.rules, RangeOf(p.roles), {})

Rows(dtos, first) ==
    {[id |-> first + i - 1, kind |-> dtos[i].kind, label |-> dtos[i].label] : i \in DOMAIN dtos}

\* create_campaign: everything comes from the payload, nobody else sees the
\* campaign before the commit.
Init ==
    /\ \E p \in Creations :
          /\ ValidRoleLabels(p.roles)
          /\ ValidRules(p.rules, RangeOf(p.roles), p.tools)
          /\ roles = Rows(p.roles, 1)
          /\ rules = p.rules
          /\ tools = p.tools
          /\ nextId = Len(p.roles) + 1
    /\ pc = [r \in Requests |-> "idle"]
    /\ body = [r \in Requests |-> Omitted]
    /\ saw = [r \in Requests |-> Omitted]
    /\ found = [r \in Requests |-> {}]
    /\ held = [r \in Requests |-> {}]
    /\ campLock = Omitted

Active(r) == pc[r] \notin {"idle", "done", "refused"}
Ids(rs) == {r.id : r \in rs}

\* SQLAlchemy emits an UPDATE of a column only if it differs from the value
\* the session has loaded.
Changes(r, field) ==
    /\ field \in DOMAIN body[r]
    /\ Given(body[r][field])
    /\ body[r][field] # saw[r][field]

GoTo(r, step) == pc' = [pc EXCEPT ![r] = step]

\* Mutant: the session is not closed, its row locks stay.
ReleasedNothing(r) == held

Released(r) == [held EXCEPT ![r] = {}]

\* The session is rolled back or committed: its locks go.
EndTransaction(r, result) ==
    /\ GoTo(r, result)
    /\ held' = Released(r)
    /\ campLock' = IF campLock = r THEN Omitted ELSE campLock

\* A check raises HTTPException: get_session rolls the transaction back.
Refuse(r) ==
    /\ EndTransaction(r, "refused")
    /\ UNCHANGED <<stored, body, saw, found>>

MayBegin(r) ==
    /\ pc[r] = "idle"
    /\ Cardinality({q \in Requests : Active(q)}) < MaxActive

(* The first statement: session.get of the campaign, or of the role. The    *)
(* seed checks nothing.                                                     *)

BeginOnCampaign(r, p) ==
    /\ MayBegin(r)
    /\ p.op \in {"putRules", "patch", "seed"}
    /\ body' = [body EXCEPT ![r] = p]
    /\ saw' = [saw EXCEPT ![r] = [rules |-> rules, tools |-> tools]]
    /\ GoTo(r, IF p.op = "seed" THEN "delete" ELSE "check")
    /\ UNCHANGED <<stored, found, held, campLock>>

BeginOnRole(r, p) ==
    /\ MayBegin(r)
    /\ p.op \in {"patchRole", "deleteRole"}
    /\ body' = [body EXCEPT ![r] = p]
    /\ \E row \in roles : saw' = [saw EXCEPT ![r] = row]
    /\ GoTo(r, "check")
    /\ UNCHANGED <<stored, found, held, campLock>>

BeginPost(r, p) ==
    /\ MayBegin(r)
    /\ p.op = "postRole"
    /\ body' = [body EXCEPT ![r] = p]
    /\ GoTo(r, "check")
    /\ UNCHANGED <<stored, saw, found, held, campLock>>

-----------------------------------------------------------------------------
(* The second statement and the checks.                                    *)

CheckStep(r, op) == pc[r] = "check" /\ body[r].op = op

\* The outcome of a check that takes no lock.
Checked(r, ok, next) ==
    IF ok THEN GoTo(r, next) /\ UNCHANGED <<stored, body, saw, found, held, campLock>>
          ELSE Refuse(r)

\* replace_routing_rules: the roles are read after the campaign.
CheckRules(r) ==
    /\ CheckStep(r, "putRules")
    /\ Checked(r, ValidRules(body[r].rules, roles, saw[r].tools), "update")

\* Mutant: stored rules are not validated against what the payload holds.
RulesGiven(r) == IF Given(body[r].rules) THEN body[r].rules ELSE {}

RulesToCheck(r) == IF Given(body[r].rules) THEN body[r].rules ELSE saw[r].rules

\* update_campaign, _validate_referee_routing: the sides the payload leaves
\* out come from the database.
CheckPatch(r) ==
    LET p == body[r]
        newRoles == IF Given(p.roles) THEN RangeOf(p.roles) ELSE roles
        newTools == IF Given(p.tools) THEN p.tools ELSE saw[r].tools
    IN  /\ CheckStep(r, "patch")
        /\ Checked(r, /\ Given(p.roles) => ValidRoleLabels(p.roles)
                      /\ ValidRules(RulesToCheck(r), newRoles, newTools), "update")

\* create_role_config
CheckPost(r) ==
    /\ CheckStep(r, "postRole")
    /\ Checked(r, LabelFree(body[r].role, roles, 0), "commit")

\* update_role_config: the UPDATE goes out before the label is counted (the
\* count autoflushes it), so the row is locked; a row deleted meanwhile
\* makes the flush fail.
CheckPatchRole(r) ==
    LET id == saw[r].id
        role == body[r].role
        write == role # [kind |-> saw[r].kind, label |-> saw[r].label]
    IN  /\ CheckStep(r, "patchRole")
        /\ write => \A q \in Requests \ {r} : id \notin held[q]
        /\ IF (write => id \in Ids(roles)) /\ LabelFree(role, roles, id)
           THEN /\ GoTo(r, "commit")
                /\ held' = [held EXCEPT ![r] = IF write THEN {id} ELSE {}]
                /\ UNCHANGED <<stored, body, saw, found, campLock>>
           ELSE Refuse(r)

\* The rule names the role: a referee it binds to, a persona it routes to.
Names(rule, row) ==
    \/ row.kind = "referee" /\ rule.referee = row.label
    \/ row.kind = "persona" /\ rule.action = "route" /\ rule.arg = row.label

\* Mutant: only referees are looked up in the rules.
RefereeInUse(row) == row.kind = "referee" /\ \E x \in rules : Names(x, row)

InUse(row) == row.label # NoLabel /\ \E x \in rules : Names(x, row)

\* delete_role_config: 409 while a rule names the referee, or routes to the
\* persona, by its label.
CheckDelete(r) ==
    LET row == saw[r]
    IN  /\ CheckStep(r, "deleteRole")
        /\ IF InUse(row)
           THEN Refuse(r)
           ELSE /\ GoTo(r, "lockRows")
                /\ found' = [found EXCEPT ![r] = {row.id}]
                /\ UNCHANGED <<stored, body, saw, held, campLock>>

-----------------------------------------------------------------------------
(* The writes.                                                             *)

WritesCampaign(r) == pc[r] = "update" /\ (Changes(r, "rules") \/ Changes(r, "tools"))

\* UPDATE campaigns, if a column changes at all; a PATCH with children then
\* goes on to replace them, the seed has done so before.
UpdateCampaign(r) ==
    /\ pc[r] = "update"
    /\ WritesCampaign(r) => campLock = Omitted
    /\ campLock' = IF WritesCampaign(r) THEN r ELSE campLock
    /\ GoTo(r, IF body[r].op = "patch" /\ Given(body[r].roles) THEN "delete" ELSE "commit")
    /\ UNCHANGED <<stored, body, saw, found, held>>

\* _replace_children: DELETE FROM role_configs finds the committed rows, as
\* the seed's SELECT does.
FindChildren(r) ==
    /\ pc[r] = "delete"
    /\ found' = [found EXCEPT ![r] = Ids(roles)]
    /\ GoTo(r, "lockRows")
    /\ UNCHANGED <<stored, body, saw, held, campLock>>

\* Mutant: the old children are kept.
LockedOnDelete(r) == IF body[r].op = "patch" THEN {} ELSE found[r] \cap Ids(roles)

Locked(r) == found[r] \cap Ids(roles)

WaitsForRows(r, q) == pc[r] = "lockRows" /\ q # r /\ held[q] \cap found[r] # {}

\* It waits for the transactions that hold those rows, then skips the rows
\* they have deleted; rows they have inserted are not looked for.
LockChildren(r) ==
    /\ pc[r] = "lockRows"
    /\ \A q \in Requests : ~ WaitsForRows(r, q)
    /\ held' = [held EXCEPT ![r] = Locked(r)]
    /\ GoTo(r, IF body[r].op = "seed" THEN "update" ELSE "commit")
    /\ UNCHANGED <<stored, body, saw, found, campLock>>

WaitsFor(r, q) == WaitsForRows(r, q) \/ (WritesCampaign(r) /\ campLock = q)

\* A PATCH locks the campaign and then its roles, the seed the other way round:
\* PostgreSQL ends one of two transactions that wait for each other.
DeadlockVictim(r) ==
    /\ \E q \in Requests : WaitsFor(r, q) /\ WaitsFor(q, r)
    /\ Refuse(r)

\* The rows a transaction leaves behind.
RowsAfter(r) ==
    LET p == body[r]
        others == {x \in roles : x.id \notin held[r]}
    IN  CASE p.op = "putRules"   -> roles
          [] p.op \in {"patch", "seed"} -> IF Given(p.roles) THEN others \cup Rows(p.roles, nextId) ELSE roles
          [] p.op = "postRole"   -> roles \cup Rows(<<p.role>>, nextId)
          [] p.op = "patchRole"  -> {IF x.id \in held[r] THEN [id |-> x.id, kind |-> p.role.kind, label |-> p.role.label]
                                     ELSE x : x \in roles}
          [] p.op = "deleteRole" -> others

Inserted(r) ==
    LET p == body[r]
    IN  IF p.op = "postRole" THEN 1
        ELSE IF p.op \in {"patch", "seed"} /\ Given(p.roles) THEN Len(p.roles) ELSE 0

Commit(r) ==
    /\ pc[r] = "commit"
    /\ roles' = RowsAfter(r)
    /\ rules' = IF Changes(r, "rules") THEN body[r].rules ELSE rules
    /\ tools' = IF Changes(r, "tools") THEN body[r].tools ELSE tools
    /\ nextId' = nextId + Inserted(r)
    /\ EndTransaction(r, "done")
    /\ UNCHANGED <<body, saw, found>>

Step(r) ==
    \/ CheckRules(r) \/ CheckPatch(r) \/ CheckPost(r) \/ CheckPatchRole(r) \/ CheckDelete(r)
    \/ UpdateCampaign(r) \/ FindChildren(r) \/ LockChildren(r) \/ DeadlockVictim(r) \/ Commit(r)

Next ==
    \E r \in Requests :
        \/ \E p \in Bodies : BeginOnCampaign(r, p) \/ BeginOnRole(r, p) \/ BeginPost(r, p)
        \/ Step(r)

Spec == Init /\ [][Next]_vars

\* A request that has begun goes on unless it waits for a lock.
FairSpec == Spec /\ \A r \in Requests : WF_vars(Step(r))

-----------------------------------------------------------------------------
(* Properties.                                                             *)

\* The stored rows are well formed, no id is given twice, and only an open
\* transaction holds a lock, each row and the campaign being held by one.
TypeOK ==
    /\ \A x \in roles : x.id \in 1 .. nextId - 1
    /\ \A x, y \in roles : x.id = y.id => x = y
    /\ \A r \in Requests : held[r] # {} \/ campLock = r => Active(r)
    /\ \A q, r \in Requests : q # r => held[q] \cap held[r] = {}

\* "every routing rule must reference a referee + (for route/tool actions) a
\* persona label or tool alias that actually exists on the campaign"
\* (routing_validation.py:7-9), when one transaction is open at a time and no
\* role is renamed: PATCH /role-configs does not look at the rules.
RulesResolve == ValidRules(rules, roles, tools)

\* Labels are unique per campaign within their namespace (role_configs.py:56).
LabelsUnique ==
    \A x, y \in roles :
        x.kind \in LabelledKinds /\ x.kind = y.kind /\ x.label = y.label => x = y

\* "deleting a still-referenced referee is rejected" (role_configs.py:7-8),
\* and so for personas (179-180): no DELETE of a role commits while a stored
\* rule names the role.
DeleteIsRefusedInUse ==
    [][\A r \in Requests :
          pc[r] = "commit" /\ pc'[r] = "done" /\ body[r].op = "deleteRole"
          => \A x \in rules : ~ Names(x, saw[r])]_vars

\* "children lists fully overwrite when present (server deletes old
\* children, inserts new)" (schemas.py:87-88), and so "Idempotent re-seed"
\* (seed_pipeline_stream_campaign.py:184): after the commit of a PATCH with
\* role_configs, or of the seed, its list is what is stored.
ChildrenOverwritten ==
    [][\A r \in Requests :
          pc[r] = "commit" /\ pc'[r] = "done" /\ body[r].op \in {"patch", "seed"}
             /\ Given(body[r].roles)
          => /\ Cardinality(roles') = Len(body[r].roles)
             /\ \A x \in roles' : [kind |-> x.kind, label |-> x.label] \in RangeOf(body[r].roles)]_vars

\* Every request is answered: the waits for row locks end, the mutual ones of a
\* PATCH and the seed included.
RequestsEnd == \A r \in Requests : Active(r) ~> pc[r] \in {"done", "refused"}
=============================================================================
