---------------------------- MODULE MCEndpoints ----------------------------
(***************************************************************************)
(* Eight groups of endpoints that share no row and no connection in what   *)
(* is modelled of them: POST /leads/import, POST /campaigns/tts-preview,   *)
(* /analytics, /edge-devices/status, the campaign control, the paginated   *)
(* lists, /provider-credentials and the writes of single rows. No step of  *)
(* one can disturb another, so a behaviour of the instance is a behaviour  *)
(* of one of them.                                                         *)
(***************************************************************************)
EXTENDS Records, Integers, FiniteSets

CONSTANTS RowKinds, MaxRows, BatchSize,        \* of LeadsImport
          Previews, Queries, PoolSize,         \* of TtsPreview
          Durations, Week, MaxCalls,           \* of Analytics
          Devices, Threshold, Never,           \* of EdgeDevices
          Commanders,                          \* the requests of CampaignControl
          MaxId, PageSize, Days, MaxChanges,   \* of Pages
          Keys, Allowed, Storers, Unwritten,   \* of ProviderCredentials
          MaxClock, Campaigns, Null            \* of two or more of these

ASSUME RowsAssumption == MaxRows \in Nat
ASSUME PoolSizeAssumption == PoolSize \in Nat
ASSUME DevicesAssumption == IsFiniteSet(Devices) /\ Threshold \in Nat /\ Never \notin Int
ASSUME WindowAssumption == Week \in Int /\ Durations \subseteq Nat /\ Null \notin Int
ASSUME PageAssumption == MaxId \in Nat /\ PageSize \in Nat \ {0} /\ Days \subseteq Nat

VARIABLES endpoint,                                             \* the one that moves
          file, next, batch, flushed, stored, success,          \* of LeadsImport
          errors, status,
          previewPc, result, conns, providers, pcm, broken,     \* of TtsPreview
          calls,                                                \* of Analytics
          lastSeen, beats,                                      \* of EdgeDevices
          now,                                                  \* of these two
          campaigns, redis, commandPc, kind, target,            \* of CampaignControl
          queue, handled, active, reported,
          list, date, row, page, walkPc, total, items,          \* of Pages
          seen, entered, left, tied, moved, changes, first,
          credentials, nextId, storePc, key, rowId, store,      \* of ProviderCredentials
          keyHolder, log, shown

importVars == <<file, next, batch, flushed, stored, success, errors, status>>
previewVars == <<previewPc, result, conns, providers, pcm, broken>>
commandVars == <<campaigns, redis, commandPc, kind, target, queue, handled, active, reported>>
pageVars == <<list, date, row, page, walkPc, total, items, seen, entered, left, tied, moved, changes, first>>
credentialVars == <<credentials, nextId, storePc, key, rowId, store, keyHolder, log, shown>>

Import == INSTANCE LeadsImport
Preview == INSTANCE TtsPreview WITH pc <- previewPc
Reports == INSTANCE Analytics
Edge == INSTANCE EdgeDevices
Control == INSTANCE CampaignControl WITH
               Requests <- Commanders, stored <- campaigns, pc <- commandPc
Lists == INSTANCE Pages WITH pc <- walkPc
Creds == INSTANCE ProviderCredentials WITH
             Requests <- Storers, None <- Null, rows <- credentials, pc <- storePc,
             write <- store, holder <- keyHolder

ASSUME CredentialsAssumption == Creds!ConstantsOK

\* The modules whose endpoint does not move start in one state.
OneCommand == redis = TRUE /\ target = [r \in Commanders |-> CHOOSE c \in Campaigns : TRUE]
OneList == list = Lists!CampaignList /\ row = [i \in 1 .. MaxId |-> "in"]
OneKey == key = [r \in Storers |-> CHOOSE k \in Keys : TRUE]
OneWrite ==
    /\ table = "leads"
    /\ request = [r \in Requests |-> [op |-> "delete", row |-> CHOOSE x \in Stored : TRUE, columns |-> <<>>]]
    /\ rows = [x \in Rows |->
                  IF x \in Stored THEN [c \in Columns |-> CHOOSE v \in Values : TRUE] ELSE Absent]

MCInit ==
    /\ endpoint \in {"import", "preview", "analytics", "edge", "control", "lists", "credentials", "writes"}
    /\ IF endpoint = "import" THEN TRUE ELSE file = <<>>
    /\ IF endpoint = "control" THEN TRUE ELSE OneCommand
    /\ IF endpoint = "lists" THEN TRUE ELSE OneList
    /\ IF endpoint = "credentials" THEN TRUE ELSE OneKey
    /\ IF endpoint = "writes" THEN TRUE ELSE OneWrite
    /\ Lists!Init /\ Init /\ Creds!Init /\ Control!Init /\ Preview!Init /\ Reports!Init /\ Edge!Init /\ Import!Init

MCNext ==
    \/ /\ endpoint = "import" /\ Import!Next
       /\ UNCHANGED <<endpoint, previewVars, calls, lastSeen, beats, now, commandVars, pageVars, credentialVars, vars>>
    \/ /\ endpoint = "preview" /\ Preview!Next
       /\ UNCHANGED <<endpoint, importVars, calls, lastSeen, beats, now, commandVars, pageVars, credentialVars, vars>>
    \/ /\ endpoint = "analytics" /\ Reports!Next
       /\ UNCHANGED <<endpoint, importVars, previewVars, lastSeen, beats, commandVars, pageVars, credentialVars, vars>>
    \/ /\ endpoint = "edge" /\ Edge!Next
       /\ UNCHANGED <<endpoint, importVars, previewVars, calls, commandVars, pageVars, credentialVars, vars>>
    \/ /\ endpoint = "control" /\ Control!Next
       /\ UNCHANGED <<endpoint, importVars, previewVars, calls, lastSeen, beats, now, pageVars, credentialVars, vars>>
    \/ /\ endpoint = "lists" /\ Lists!Next
       /\ UNCHANGED <<endpoint, importVars, previewVars, calls, lastSeen, beats, now, commandVars, credentialVars, vars>>
    \/ /\ endpoint = "credentials" /\ Creds!Next
       /\ UNCHANGED <<endpoint, importVars, previewVars, calls, lastSeen, beats, now, commandVars, pageVars, vars>>
    \/ /\ endpoint = "writes" /\ Next
       /\ UNCHANGED <<endpoint, importVars, previewVars, calls, lastSeen, beats, now, commandVars, pageVars, credentialVars>>

MCSpec ==
    MCInit /\ [][MCNext]_<<endpoint, importVars, previewVars, calls, lastSeen, beats, now,
                           commandVars, pageVars, credentialVars, vars>>

\* A request that has been answered holds neither a TTS provider nor a
\* pooled connection (tts_preview's finally clause, get_session).
NothingLeaks == Preview!NothingLeaks

\* A WAV answer is the whole synthesis (tts_preview's except clauses).
WavIsWhole == Preview!WavIsWhole

\* Adjacent windows count each call and answer once (analytics.py's _window and WHERE).
WindowsAdd == endpoint = "analytics" => Reports!WindowsAdd

\* The three aggregates of a window agree (the outer join of goal_rate,
\* _DURATION_BUCKETS).
AggregatesAgree == endpoint = "analytics" => Reports!AggregatesAgree

\* The status counts the devices heard of within the threshold (_is_online).
StatusIsSilence == Edge!StatusIsSilence

\* Accepted commands form a log the scheduler goes through (_enqueue_control).
CommandsAreLogged == Control!CommandsAreLogged

\* The total of a page and its rows select the same rows (the list endpoints).
TotalMatchesPage == Lists!TotalMatchesPage

\* A walk over the pages returns each row once, unless rows leave or are moved
\* (the list endpoints' OFFSET).
WalkIsExact == Lists!WalkIsExact

\* The white lists keep other keys out (ALLOWED_PROVIDERS, ALLOWED_FIELDS).
CredentialsTyped == Creds!TypeOK

\* A 201 shows its own value or a later one (upsert_credential's refresh).
CreatedIsStored == Creds!CreatedIsStored

\* A delete removes the row it loaded (delete_credential).
DeletesItsRow == Creds!DeletesItsRow

\* Every row of an imported file is accounted for (import_leads' counters).
EveryRowAccounted == Import!EveryRowAccounted
=============================================================================
