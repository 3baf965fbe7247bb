SPECIFICATION MCSpec
CONSTANTS
    RowKinds = {"good", "bad", "short", "refused"}
    MaxRows = 5
    BatchSize = 2
    Previews = {p1, p2}
    Queries = {q1, q2}
    PoolSize = 2
    Campaigns = {c1, c2}
    Durations = {0, 30, 60, 180, 600}
    Week = 1
    MaxCalls = 2
    Devices = {d1, d2}
    Threshold = 1
    Never = Never
    Commanders = {r1, r2, r3}
    MaxId = 4
    PageSize = 2
    Days = {0, 5}
    MaxChanges = 2
    Stored = {x}
    Requests = {w1, w2}
    Columns = {a, b}
    Values = {0, 1}
    MaxClock = 2
    Keys = {k1, k2}
    Allowed = {k1}
    Storers = {u1, u2, u3, u4}
    Unwritten = Unwritten
    Null = Null
    Absent = Absent
INVARIANTS
    EveryRowAccounted
    NothingLeaks
    WavIsWhole
    WindowsAdd
    AggregatesAgree
    StatusIsSilence
    TotalMatchesPage
    WalkIsExact
    AnswerWasStored
    CredentialsTyped
    CreatedIsStored
PROPERTIES
    CommandsAreLogged
    KeepsTable
    DeletesItsRow
CHECK_DEADLOCK FALSE
