-------------------------- MODULE CampaignControl --------------------------
(***************************************************************************)
(* POST /campaigns/{id}/start and /pause hand a command to the scheduler   *)
(* through a Redis list; GET .../progress reads the scheduler's set of     *)
(* active campaigns; DELETE removes a campaign under both. The scheduler   *)
(* is another program: it pops the oldest command and updates the set.     *)
(***************************************************************************)
EXTENDS Naturals, Sequences, SequencesExt

CONSTANTS Campaigns,  \* the campaigns stored at first
          Requests    \* the requests of the run; a command is named by its request

VARIABLES
    stored,    \* the campaigns whose row is committed
    redis,     \* app.state.redis is set (by the lifespan or the first command)
    pc,        \* where each request stands
    kind,      \* "start", "pause", "delete" or "progress"
    target,    \* the campaign in its URL
    queue,     \* scheduler:campaign-control, the left end first
    handled,   \* the commands the scheduler has popped, in order
    active,    \* the scheduler's Redis set
    reported   \* is_active of a progress answer

vars == <<stored, redis, pc, kind, target, queue, handled, active, reported>>

Commands == {"start", "pause"}

Init ==
    /\ stored = Campaigns
    /\ redis \in BOOLEAN
    /\ pc = [r \in Requests |-> "idle"]
    /\ kind = [r \in Requests |-> "none"]
    /\ target \in [Requests -> Campaigns]
    /\ queue = <<>>
    /\ handled = <<>>
    /\ active = {}
    /\ reported = [r \in Requests |-> FALSE]

GoTo(r, step) == pc' = [pc EXCEPT ![r] = step]
At(r, step, kinds) == pc[r] = step /\ kind[r] \in kinds

-----------------------------------------------------------------------------
\* Every handler first loads the campaign: 404 when it is not there.
Load(r, k) ==
    /\ pc[r] = "idle"
    /\ kind' = [kind EXCEPT ![r] = k]
    /\ GoTo(r, IF target[r] \in stored THEN "found" ELSE "missing")
    /\ UNCHANGED <<stored, redis, target, queue, handled, active, reported>>

\* Mutant: RPUSH, at the end the scheduler pops from.
PushedRight(r) == Append(queue, r)

\* The LPUSH.
Pushed(r) == <<r>> \o queue

\* _enqueue_control: LPUSH, then the 202. Nothing loads the campaign again.
Push(r) ==
    /\ At(r, "found", Commands)
    /\ queue' = Pushed(r)
    /\ redis' = TRUE
    /\ GoTo(r, "accepted")
    /\ UNCHANGED <<stored, kind, target, handled, active, reported>>

\* Redis fails and the client sees a 500: the LPUSH, so that the command may be
\* in the list or not, or get_redis() before app.state.redis is set.
PushFails(r) ==
    /\ At(r, "found", Commands)
    /\ \/ queue' \in {queue, Pushed(r)} /\ redis' = TRUE
       \/ ~ redis /\ UNCHANGED <<queue, redis>>
    /\ GoTo(r, "failed")
    /\ UNCHANGED <<stored, kind, target, handled, active, reported>>

\* delete_campaign, whose DELETE and COMMIT follow the handler. The queue and
\* the scheduler's set are left alone.
Delete(r) ==
    /\ At(r, "found", {"delete"})
    /\ stored' = stored \ {target[r]}
    /\ GoTo(r, "done")
    /\ UNCHANGED <<redis, kind, target, queue, handled, active, reported>>

\* campaign_progress: SISMEMBER, or FALSE when the process has no connection.
IsActive(r) == redis /\ target[r] \in active

\* campaign_progress.
Report(r) ==
    /\ At(r, "found", {"progress"})
    /\ reported' = [reported EXCEPT ![r] = IsActive(r)]
    /\ GoTo(r, "done")
    /\ UNCHANGED <<stored, redis, kind, target, queue, handled, active>>

\* The scheduler pops the right end and starts or pauses the campaign.
Schedule ==
    LET r == queue[Len(queue)]
    IN  /\ queue # <<>>
        /\ queue' = SubSeq(queue, 1, Len(queue) - 1)
        /\ handled' = Append(handled, r)
        /\ active' = IF kind[r] = "start" THEN active \cup {target[r]} ELSE active \ {target[r]}
        /\ UNCHANGED <<stored, redis, pc, kind, target, reported>>

Next ==
    \/ \E r \in Requests :
          \/ \E k \in Commands \cup {"delete", "progress"} : Load(r, k)
          \/ Push(r) \/ PushFails(r) \/ Delete(r) \/ Report(r)
    \/ Schedule

Spec == Init /\ [][Next]_vars

-----------------------------------------------------------------------------
(* Properties.                                                             *)

\* The commands in the order in which the scheduler handles them.
Order == handled \o Reverse(queue)

Log == INSTANCE CommandLog WITH
           log <- Order,
           done <- Len(handled),
           accepted <- {r \in Requests : At(r, "accepted", Commands)}

\* The list and its two ends are a log of commands: an accepted one is in it
\* exactly once, after all that were in it before, so that a pause sent after
\* an accepted start never leaves the campaign running, and the scheduler goes
\* through it in order, whoever else pushes, fails or deletes the campaign
\* (_enqueue_control's LPUSH, "queued": true).
CommandsAreLogged == Log!Spec
=============================================================================
