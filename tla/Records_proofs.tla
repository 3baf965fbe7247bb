--------------------------- MODULE Records_proofs ---------------------------
(***************************************************************************)
(* The requests of Records implement the abstract Table, for any rows,     *)
(* columns, values and requests: KeepsTable. The invariant says what a     *)
(* request with an open write is about to commit, and that nobody else     *)
(* writes that row before it ends.                                         *)
(***************************************************************************)
EXTENDS Records, TLAPS

\* Every request is one of the payloads the schemas admit.
Requested ==
    /\ request \in [Requests -> [op : {"create", "patch", "delete"}, row : Rows,
                                 columns : UNION {[S -> Values] : S \in SUBSET Columns}]]
    /\ \A r \in Requests : request[r].op = "create" => request[r].columns \in Row

TypeOK ==
    /\ Requested
    /\ rows \in [Rows -> Row \cup {Absent}]
    /\ pc \in [Requests -> {"idle", "found", "missing", "reread", "commit", "done", "failed"}]
    /\ loaded \in [Requests -> Row \cup {Absent}]
    /\ DOMAIN write = Requests
    /\ holder \in [Rows -> SUBSET Requests]

\* The row is written by at most one open request, which is at its last steps.
OneWriter ==
    \A x \in Rows : \A r \in holder[x] :
        /\ holder[x] = {r}
        /\ x = Target(r) /\ pc[r] \in {"reread", "commit"}

\* The session of a PATCH or DELETE that goes on has loaded the row.
LoadedFirst ==
    \A r \in Requests :
        /\ pc[r] = "idle" \/ request[r].op = "create" => loaded[r] = Absent
        /\ pc[r] \in {"found", "reread", "commit", "done"} /\ request[r].op # "create"
              => loaded[r] # Absent
        /\ pc[r] = "found" => request[r].op # "create"

\* What a request that has flushed is about to commit.
Flushed(r) ==
    LET mine == r \in holder[Target(r)]
    IN  /\ request[r].op = "create" => mine /\ write[r] = request[r].columns
        /\ request[r].op = "delete" => mine /\ write[r] = Absent
        /\ request[r].op = "patch" /\ mine =>
              rows[Target(r)] # Absent /\ write[r] = Overlay(rows[Target(r)], Changed(r))
        /\ request[r].op = "patch" /\ ~ mine => DOMAIN Changed(r) = {}

Pending == \A r \in Requests : pc[r] \in {"reread", "commit"} => Flushed(r)

IInv == TypeOK /\ OneWriter /\ LoadedFirst /\ Pending

-----------------------------------------------------------------------------
\* An overlay of columns of the table on a row is a row.
LEMMA OverlayIsRow ==
    ASSUME NEW row \in Row, NEW columns \in UNION {[S -> Values] : S \in SUBSET Columns}
    PROVE  Overlay(row, columns) \in Row
    BY DEF Overlay, Row

\* The columns that need an UPDATE are columns of the payload.
LEMMA ChangedIsPart ==
    ASSUME Requested, NEW r \in Requests
    PROVE  /\ Changed(r) \in UNION {[S -> Values] : S \in SUBSET Columns}
           /\ DOMAIN Changed(r) = {c \in DOMAIN request[r].columns : request[r].columns[c] # loaded[r][c]}
           /\ \A c \in DOMAIN Changed(r) : Changed(r)[c] = request[r].columns[c]
<1> DEFINE new == request[r].columns
           D == {c \in DOMAIN new : new[c] # loaded[r][c]}
<1>1. new \in UNION {[S -> Values] : S \in SUBSET Columns}
  BY DEF Requested
<1>2. D \in SUBSET Columns
  BY <1>1
<1>3. \A c \in D : new[c] \in Values
  BY <1>1
<1>4. Changed(r) = [c \in D |-> new[c]]
  BY DEF Changed
<1>5. Changed(r) \in [D -> Values]
  BY <1>3, <1>4
<1> QED
  BY <1>2, <1>4, <1>5

\* A step that leaves a request and its open write alone leaves it flushed.
LEMMA FlushedStays ==
    ASSUME NEW q \in Requests, Flushed(q),
           request' = request, loaded'[q] = loaded[q], write'[q] = write[q],
           q \in holder'[Target(q)] <=> q \in holder[Target(q)],
           q \in holder[Target(q)] => rows'[Target(q)] = rows[Target(q)]
    PROVE  Flushed(q)'
<1>1. Target(q)' = Target(q)
  BY DEF Target
<1>2. Changed(q)' = Changed(q)
  BY DEF Changed
<1>3. q \in holder[Target(q)] =>
        Overlay(rows[Target(q)], Changed(q))' = Overlay(rows[Target(q)], Changed(q))
  BY <1>1, <1>2 DEF Overlay
<1> QED
  BY <1>1, <1>2, <1>3 DEF Flushed

\* The invariant holds at first.
LEMMA InitIInv == Init => IInv
<1> SUFFICES ASSUME Init PROVE IInv
  OBVIOUS
<1>1. Requested
  <2> SUFFICES ASSUME NEW r \in Requests
               PROVE  /\ request[r] \in [op : {"create", "patch", "delete"}, row : Rows,
                                          columns : UNION {[S -> Values] : S \in SUBSET Columns}]
                      /\ request[r].op = "create" => request[r].columns \in Row
    BY DEF Init, Requested
  <2>1. request[r] \in Bodies(r)
    BY DEF Init
  <2>2. Row \subseteq UNION {[S -> Values] : S \in SUBSET Columns}
    BY DEF Row
  <2>3. <<>> \in UNION {[S -> Values] : S \in SUBSET Columns}
    <3>1. <<>> \in [{} -> Values]
      OBVIOUS
    <3> QED BY <3>1
  <2> QED BY <2>1, <2>2, <2>3 DEF Bodies, Rows
<1>2. TypeOK
  BY <1>1 DEF Init, TypeOK
<1> QED
  BY <1>2 DEF Init, IInv, OneWriter, LoadedFirst, Pending
-----------------------------------------------------------------------------
\* A request that fails gives its row back and leaves the rest alone.
LEMMA RaiseKeeps ==
    ASSUME IInv, NEW r \in Requests, Raise(r)
    PROVE  IInv'
<1> USE DEF IInv
<1>1. TypeOK'
  BY DEF TypeOK, Raise, End, GoTo, Requested, Rows
<1>2. /\ pc' = [pc EXCEPT ![r] = "failed"]
      /\ holder' = [x \in Rows |-> holder[x] \ {r}]
      /\ UNCHANGED <<request, rows, loaded, write>>
  BY DEF Raise, End, GoTo
<1>3. OneWriter'
  BY <1>2 DEF OneWriter, Target, TypeOK
<1>4. LoadedFirst'
  BY <1>2 DEF LoadedFirst, TypeOK
<1>5. Pending'
  <2> SUFFICES ASSUME NEW q \in Requests, pc'[q] \in {"reread", "commit"} PROVE Flushed(q)'
    BY DEF Pending
  <2>1. q # r /\ Flushed(q)
    BY <1>2 DEF TypeOK, Pending
  <2>2. Target(q) \in Rows
    BY DEF Target, TypeOK, Requested
  <2> QED BY <1>2, <2>1, <2>2, FlushedStays
<1> QED
  BY <1>1, <1>3, <1>4, <1>5

\* A request that writes its row takes it, and nobody else's write is touched.
LEMMA WritesKeeps ==
    ASSUME IInv, NEW r \in Requests, NEW row, NEW step \in {"reread", "commit"},
           pc[r] \in {"idle", "found"}, Writes(r, row), GoTo(r, step),
           UNCHANGED <<request, rows, loaded>>,
           pc[r] = "idle" <=> request[r].op = "create",
           \/ request[r].op = "create" /\ row = request[r].columns
           \/ request[r].op = "delete" /\ row = Absent
           \/ /\ request[r].op = "patch" /\ rows[Target(r)] # Absent
              /\ row = Overlay(rows[Target(r)], Changed(r))
    PROVE  IInv'
<1> USE DEF IInv
<1>1. Target(r) \in Rows
  BY DEF Target, TypeOK, Requested
<1>2. /\ pc' = [pc EXCEPT ![r] = step]
      /\ holder[Target(r)] = {}
      /\ holder' = [holder EXCEPT ![Target(r)] = {r}]
      /\ write' = [write EXCEPT ![r] = row]
  BY DEF Writes, GoTo
<1>3. TypeOK'
  BY <1>1, <1>2 DEF TypeOK, Requested
<1>4. OneWriter'
  BY <1>1, <1>2 DEF OneWriter, Target, TypeOK
<1>5. LoadedFirst'
  BY <1>2 DEF LoadedFirst, TypeOK
<1>6. Pending'
  <2> SUFFICES ASSUME NEW q \in Requests, pc'[q] \in {"reread", "commit"} PROVE Flushed(q)'
    BY DEF Pending
  <2>1. CASE q = r
    <3>1. Target(r)' = Target(r) /\ Changed(r)' = Changed(r)
      BY DEF Target, Changed
    <3>2. r \in holder'[Target(r)] /\ write'[r] = row
      BY <1>1, <1>2 DEF TypeOK
    <3>3. Overlay(rows[Target(r)], Changed(r))' = Overlay(rows[Target(r)], Changed(r))
      BY <3>1 DEF Overlay
    <3> QED BY <2>1, <3>1, <3>2, <3>3 DEF Flushed
  <2>2. CASE q # r
    <3>1. Flushed(q) /\ write'[q] = write[q]
      BY <1>2, <2>2 DEF TypeOK, Pending
    <3>2. q \in holder'[Target(q)] <=> q \in holder[Target(q)]
      BY <1>1, <1>2, <2>2 DEF TypeOK, Target, Requested
    <3> QED BY <3>1, <3>2, FlushedStays
  <2> QED BY <2>1, <2>2
<1> QED
  BY <1>3, <1>4, <1>5, <1>6

\* A step that only moves a request that has not flushed, or only answers,
\* keeps the invariant.
LEMMA LoadKeeps ==
    ASSUME IInv, NEW r \in Requests, Load(r)
    PROVE  IInv'
<1> USE DEF IInv
<1>1. Target(r) \in Rows /\ rows[Target(r)] \in Row \cup {Absent}
  BY DEF Target, TypeOK, Requested
<1>2. TypeOK'
  BY <1>1 DEF Load, GoTo, TypeOK, Requested
<1>3. OneWriter'
  BY DEF Load, GoTo, OneWriter, TypeOK, Target
<1>4. LoadedFirst'
  BY DEF Load, GoTo, LoadedFirst, TypeOK
<1>5. Pending'
  <2> SUFFICES ASSUME NEW q \in Requests, pc'[q] \in {"reread", "commit"} PROVE Flushed(q)'
    BY DEF Pending
  <2>1. pc'[q] = pc[q] /\ loaded'[q] = loaded[q] /\ UNCHANGED <<request, rows, write, holder>>
    BY DEF Load, GoTo, TypeOK
  <2> QED BY <2>1, FlushedStays DEF Pending
<1> QED
  BY <1>2, <1>3, <1>4, <1>5

LEMMA PatchKeeps ==
    ASSUME IInv, NEW r \in Requests, Patch(r)
    PROVE  IInv'
<1> USE DEF IInv
<1>1. pc[r] = "found" /\ request[r].op = "patch"
  BY DEF Patch, At
<1>2. CASE DOMAIN Changed(r) = {}
  <2>1. /\ pc' = [pc EXCEPT ![r] = "reread"]
        /\ UNCHANGED <<request, rows, loaded, write, holder>>
    BY <1>2 DEF Patch, GoTo
  <2>2. TypeOK' /\ OneWriter' /\ LoadedFirst'
    BY <1>1, <2>1 DEF TypeOK, Requested, OneWriter, LoadedFirst, Target
  <2>3. Pending'
    <3> SUFFICES ASSUME NEW q \in Requests, pc'[q] \in {"reread", "commit"} PROVE Flushed(q)'
      BY DEF Pending
    <3>1. Flushed(r)
      BY <1>1, <1>2 DEF Flushed, OneWriter, Target, TypeOK, Requested
    <3>2. Flushed(q)
      BY <2>1, <3>1 DEF Pending, TypeOK
    <3> QED BY <2>1, <3>2, FlushedStays DEF Target
  <2> QED BY <2>2, <2>3
<1>3. CASE DOMAIN Changed(r) # {} /\ GoneWhenFlushed(r)
  BY <1>3, RaiseKeeps DEF Patch
<1>4. CASE DOMAIN Changed(r) # {} /\ ~ GoneWhenFlushed(r)
  <2>1. rows[Target(r)] # Absent /\ Writes(r, NewRow(r)) /\ GoTo(r, "reread")
        /\ UNCHANGED <<request, rows, loaded>>
    BY <1>4 DEF Patch, GoneWhenFlushed
  <2> QED BY <1>1, <2>1, WritesKeeps DEF NewRow
<1> QED
  BY <1>2, <1>3, <1>4

LEMMA RereadKeeps ==
    ASSUME IInv, NEW r \in Requests, Reread(r)
    PROVE  IInv'
<1> USE DEF IInv
<1>1. CASE Answered(r) = Absent
  BY <1>1, RaiseKeeps DEF Reread
<1>2. CASE Answered(r) # Absent
  <2>1. /\ pc[r] = "reread" /\ pc' = [pc EXCEPT ![r] = "commit"]
        /\ UNCHANGED <<request, rows, loaded, write, holder>>
    BY <1>2 DEF Reread, GoTo
  <2>2. TypeOK' /\ OneWriter' /\ LoadedFirst'
    BY <2>1 DEF TypeOK, Requested, OneWriter, LoadedFirst, Target
  <2>3. Pending'
    <3> SUFFICES ASSUME NEW q \in Requests, pc'[q] \in {"reread", "commit"} PROVE Flushed(q)'
      BY DEF Pending
    <3>1. Flushed(q)
      BY <2>1 DEF Pending, TypeOK
    <3> QED BY <2>1, <3>1, FlushedStays DEF Target
  <2> QED BY <2>2, <2>3
<1> QED
  BY <1>1, <1>2

\* A commit makes the request's row the committed one. A PATCH without a
\* changed column commits the row as it is.
LEMMA CommitKeeps ==
    ASSUME IInv, NEW r \in Requests, Commit(r)
    PROVE  IInv'
<1> USE DEF IInv
<1>1. /\ Target(r) \in Rows /\ pc[r] = "commit"
      /\ pc' = [pc EXCEPT ![r] = "done"]
      /\ rows' = [rows EXCEPT ![Target(r)] = Visible(r)]
      /\ holder' = [x \in Rows |-> holder[x] \ {r}]
      /\ UNCHANGED <<request, loaded, write>>
  BY DEF Commit, End, GoTo, Target, TypeOK, Requested
<1>2. Visible(r) \in Row \cup {Absent}
  <2>1. rows[Target(r)] \in Row \cup {Absent}
    BY <1>1 DEF TypeOK
  <2>2. r \in holder[Target(r)] /\ request[r].op = "patch" => write[r] \in Row
    BY <1>1, <2>1, OverlayIsRow, ChangedIsPart DEF Pending, Flushed, TypeOK
  <2>3. request[r].op \in {"create", "patch", "delete"}
    BY DEF TypeOK, Requested
  <2>4. r \in holder[Target(r)] /\ request[r].op # "patch" => write[r] \in Row \cup {Absent}
    BY <1>1, <2>3 DEF Pending, Flushed, TypeOK, Requested
  <2> QED BY <2>1, <2>2, <2>4 DEF Visible
<1>3. TypeOK'
  BY <1>1, <1>2 DEF TypeOK, Requested, Rows
<1>4. OneWriter'
  BY <1>1 DEF OneWriter, Target, TypeOK
<1>5. LoadedFirst'
  BY <1>1 DEF LoadedFirst, TypeOK
<1>6. Pending'
  <2> SUFFICES ASSUME NEW q \in Requests, pc'[q] \in {"reread", "commit"} PROVE Flushed(q)'
    BY DEF Pending
  <2>1. q # r /\ Flushed(q) /\ Target(q) \in Rows
    BY <1>1 DEF TypeOK, Target, Requested, Pending
  <2>2. q \in holder'[Target(q)] <=> q \in holder[Target(q)]
    BY <1>1, <2>1
  <2>3. ASSUME q \in holder[Target(q)] PROVE rows'[Target(q)] = rows[Target(q)]
    <3>1. CASE Target(q) = Target(r)
      <4>1. r \notin holder[Target(r)]
        BY <2>1, <2>3, <3>1 DEF OneWriter
      <4> QED BY <1>1, <3>1, <4>1 DEF Visible, TypeOK
    <3>2. CASE Target(q) # Target(r)
      BY <1>1, <2>1, <3>2 DEF TypeOK
    <3> QED BY <3>1, <3>2
  <2> QED BY <1>1, <2>1, <2>2, <2>3, FlushedStays
<1> QED
  BY <1>3, <1>4, <1>5, <1>6

\* Every step keeps the invariant.
LEMMA StepIInv == IInv /\ [Next]_vars => IInv'
<1> SUFFICES ASSUME IInv, [Next]_vars PROVE IInv'
  OBVIOUS
<1>1. ASSUME NEW r \in Requests, Refuse(r) \/ Rollback(r) PROVE IInv'
  BY <1>1, RaiseKeeps DEF Refuse, Rollback
<1>2. ASSUME NEW r \in Requests, Create(r) PROVE IInv'
  <2>1. /\ pc[r] = "idle" /\ request[r].op = "create"
        /\ Writes(r, request[r].columns) /\ GoTo(r, "reread") /\ UNCHANGED <<request, rows, loaded>>
    BY <1>2 DEF Create, At
  <2> QED BY <2>1, WritesKeeps
<1>3. ASSUME NEW r \in Requests, Delete(r) PROVE IInv'
  <2>1. /\ pc[r] = "found" /\ request[r].op = "delete"
        /\ Writes(r, Absent) /\ GoTo(r, "commit") /\ UNCHANGED <<request, rows, loaded>>
    BY <1>3 DEF Delete, At
  <2> QED BY <2>1, WritesKeeps
<1>4. CASE UNCHANGED vars
  <2>1. UNCHANGED <<request, rows, pc, loaded, write, holder>>
    BY <1>4 DEF vars
  <2>2. TypeOK' /\ OneWriter' /\ LoadedFirst'
    BY <2>1 DEF IInv, TypeOK, Requested, OneWriter, LoadedFirst, Target
  <2>3. Pending'
    BY <2>1, FlushedStays DEF IInv, Pending, Target
  <2> QED BY <2>2, <2>3 DEF IInv
<1> QED
  BY <1>1, <1>2, <1>3, <1>4, LoadKeeps, PatchKeeps, RereadKeeps, CommitKeeps DEF Next
-----------------------------------------------------------------------------
\* What has taken effect of a request changes only when it loads its row or is
\* done.
LEMMA EffectiveStays ==
    ASSUME NEW q \in Requests, request' = request, loaded'[q] = loaded[q],
           pc[q] = "done" <=> pc'[q] = "done"
    PROVE  Effective'[q] = Effective[q]
<1>1. Changed(q)' = Changed(q)
  BY DEF Changed
<1> QED
  BY <1>1 DEF Effective

\* The initial states are initial states of the table.
LEMMA InitKept == Init => Kept!Init
    BY DEF Init, Kept!Init, Effective

\* A step that ends no request successfully and loads no row is a stutter.
LEMMA StutterKept ==
    ASSUME IInv, UNCHANGED <<request, rows, loaded>>,
           \A q \in Requests : pc[q] = "done" <=> pc'[q] = "done"
    PROVE  UNCHANGED Kept!vars
<1>1. \A q \in Requests : Effective'[q] = Effective[q]
  BY EffectiveStays
<1>2. Effective' = Effective
  BY <1>1 DEF Effective
<1> QED
  BY <1>2 DEF Kept!vars

\* A request that loads its row: the columns of a PATCH that agree with the row
\* have taken effect.
LEMMA LoadKept ==
    ASSUME IInv, NEW r \in Requests, Load(r)
    PROVE  [Kept!Next]_(Kept!vars)
<1> USE DEF IInv
<1>1. /\ pc[r] = "idle" /\ request[r].op # "create" /\ UNCHANGED <<request, rows>>
      /\ \A q \in Requests \ {r} : pc'[q] = pc[q] /\ loaded'[q] = loaded[q]
      /\ pc'[r] # "done"
  BY DEF Load, GoTo, TypeOK
<1>2. CASE rows[Target(r)] = Absent
  <2>1. UNCHANGED loaded
    BY <1>2 DEF Load
  <2>2. \A q \in Requests : pc[q] = "done" <=> pc'[q] = "done"
    BY <1>1
  <2> QED BY <1>1, <2>1, <2>2, StutterKept
<1>3. CASE rows[Target(r)] # Absent /\ request[r].op # "patch"
  <2>1. \A q \in Requests : Effective'[q] = Effective[q]
    <3>1. \A q \in Requests \ {r} : Effective'[q] = Effective[q]
      BY <1>1, EffectiveStays
    <3>2. Effective[r] = {} /\ Effective'[r] = {}
      BY <1>1, <1>3 DEF Effective
    <3> QED BY <3>1, <3>2
  <2>2. Effective' = Effective
    BY <2>1 DEF Effective
  <2> QED BY <1>1, <2>2 DEF Kept!vars
<1>4. CASE rows[Target(r)] # Absent /\ request[r].op = "patch"
  <2> DEFINE new == request[r].columns
             C == {c \in DOMAIN new : new[c] = rows[Target(r)][c]}
  <2>1. loaded'[r] = rows[Target(r)] /\ loaded[r] = Absent
    BY <1>1, <1>4 DEF Load, TypeOK, LoadedFirst
  <2>2. Effective[r] = {} /\ Effective'[r] = C
    <3>1. Effective[r] = {}
      BY <1>4, <2>1 DEF Effective
    <3>2. (DOMAIN Changed(r))' = {c \in DOMAIN new : new[c] # rows[Target(r)][c]}
      BY <1>1, <2>1 DEF Changed
    <3>3. Effective'[r] = DOMAIN new \ (DOMAIN Changed(r))'
      BY <1>1, <1>4, <2>1 DEF Effective
    <3> QED BY <3>1, <3>2, <3>3
  <2>3. \A q \in Requests \ {r} : Effective'[q] = Effective[q]
    BY <1>1, EffectiveStays
  <2>4. Effective' = [Effective EXCEPT ![r] = @ \cup C]
    BY <2>2, <2>3 DEF Effective
  <2>5. Target(r) \in Rows /\ rows[Target(r)] \in Row
    BY <1>4 DEF Target, TypeOK, Requested
  <2>6. rows[Target(r)] = [c \in Columns |-> IF c \in C THEN new[c] ELSE rows[Target(r)][c]]
    BY <2>5 DEF Row
  <2>7. rows' = [rows EXCEPT ![Target(r)] = [c \in Columns |-> IF c \in C THEN new[c]
                                                               ELSE rows[Target(r)][c]]]
    BY <1>1, <2>5, <2>6 DEF TypeOK
  <2>8. C \subseteq DOMAIN new /\ C \in SUBSET Columns
    BY DEF TypeOK, Requested
  <2>9. Kept!Change(r, C)
    BY <1>1, <1>4, <2>2, <2>4, <2>7, <2>8 DEF Kept!Change, Kept!TakesEffect, Target
  <2> QED BY <2>8, <2>9 DEF Kept!Next
<1> QED
  BY <1>2, <1>3, <1>4

\* A commit inserts, deletes, or changes the columns that needed an UPDATE.
LEMMA CommitKept ==
    ASSUME IInv, NEW r \in Requests, Commit(r)
    PROVE  [Kept!Next]_(Kept!vars)
<1> USE DEF IInv
<1>1. /\ Target(r) \in Rows /\ pc[r] = "commit" /\ pc'[r] = "done" /\ Flushed(r)
      /\ \A q \in Requests \ {r} : pc'[q] = pc[q]
      /\ rows' = [rows EXCEPT ![Target(r)] = Visible(r)]
      /\ UNCHANGED <<request, loaded>>
  BY DEF Commit, End, GoTo, Target, TypeOK, Requested, Pending
<1>2. \A q \in Requests \ {r} : Effective'[q] = Effective[q]
  BY <1>1, EffectiveStays
<1>3. ASSUME NEW C, Effective'[r] = Effective[r] \cup C
      PROVE  Effective' = [Effective EXCEPT ![r] = @ \cup C]
  BY <1>2, <1>3 DEF Effective
<1>4. CASE request[r].op = "create"
  <2>1. Effective[r] = {} /\ Effective'[r] = Columns
    BY <1>1, <1>4 DEF Effective
  <2>2. Visible(r) = request[r].columns
    BY <1>1, <1>4 DEF Visible, Flushed
  <2>3. Kept!Insert(r)
    BY <1>1, <1>3, <1>4, <2>1, <2>2 DEF Kept!Insert, Kept!TakesEffect, Target
  <2> QED BY <2>3 DEF Kept!Next
<1>5. CASE request[r].op = "delete"
  <2>1. Effective[r] = {} /\ Effective'[r] = Columns
    BY <1>1, <1>5 DEF Effective
  <2>2. Visible(r) = Absent
    BY <1>1, <1>5 DEF Visible, Flushed
  <2>3. Kept!Remove(r)
    BY <1>1, <1>3, <1>5, <2>1, <2>2 DEF Kept!Remove, Kept!TakesEffect, Target
  <2> QED BY <2>3 DEF Kept!Next
<1>6. CASE request[r].op = "patch"
  <2> DEFINE new == request[r].columns
             C == DOMAIN Changed(r)
  <2>1. /\ C \subseteq DOMAIN new /\ C \in SUBSET Columns
        /\ \A c \in C : Changed(r)[c] = new[c]
    <3>1. Requested /\ DOMAIN new \in SUBSET Columns
      BY DEF TypeOK, Requested
    <3> QED BY <3>1, ChangedIsPart
  <2>2. loaded[r] # Absent
    BY <1>1, <1>6 DEF LoadedFirst
  <2>3. Effective[r] = DOMAIN new \ C /\ Effective'[r] = DOMAIN new
    BY <1>1, <1>6, <2>2 DEF Effective
  <2>4. C \cap Effective[r] = {} /\ Effective' = [Effective EXCEPT ![r] = @ \cup C]
    BY <1>3, <2>1, <2>3
  <2>5. rows[Target(r)] \in Row \cup {Absent}
    BY <1>1 DEF TypeOK
  <2>6. Visible(r) = IF rows[Target(r)] = Absent THEN Absent
                     ELSE [c \in Columns |-> IF c \in C THEN new[c] ELSE rows[Target(r)][c]]
    <3>1. CASE r \in holder[Target(r)]
      BY <1>1, <1>6, <2>1, <3>1 DEF Visible, Flushed, Overlay
    <3>2. CASE r \notin holder[Target(r)]
      BY <1>1, <1>6, <2>5, <3>2 DEF Visible, Flushed, Row
    <3> QED BY <3>1, <3>2
  <2>7. Kept!Change(r, C)
    BY <1>1, <1>6, <2>1, <2>4, <2>6 DEF Kept!Change, Kept!TakesEffect, Target
  <2> QED BY <2>1, <2>7 DEF Kept!Next
<1> QED
  BY <1>4, <1>5, <1>6 DEF TypeOK, Requested

\* Every step is a step of the table or a stutter.
LEMMA StepKept == IInv /\ [Next]_vars => [Kept!Next]_(Kept!vars)
<1> SUFFICES ASSUME IInv, [Next]_vars PROVE [Kept!Next]_(Kept!vars)
  OBVIOUS
<1>1. ASSUME NEW r \in Requests,
             Refuse(r) \/ Create(r) \/ Patch(r) \/ Reread(r) \/ Delete(r) \/ Rollback(r)
      PROVE  UNCHANGED Kept!vars
  <2>1. UNCHANGED <<request, rows, loaded>>
    BY <1>1 DEF Refuse, Create, Patch, Reread, Delete, Rollback, Raise
  <2>2. /\ pc[r] # "done"
        /\ \E step \in {"failed", "reread", "commit"} : pc' = [pc EXCEPT ![r] = step]
    BY <1>1 DEF Refuse, Create, Patch, Reread, Delete, Rollback, Raise, End, GoTo, At
  <2>3. \A q \in Requests : pc[q] = "done" <=> pc'[q] = "done"
    BY <2>2 DEF IInv, TypeOK
  <2> QED BY <2>1, <2>3, StutterKept
<1>2. CASE UNCHANGED vars
  BY <1>2, StutterKept DEF vars
<1> QED
  BY <1>1, <1>2, LoadKept, CommitKept DEF Next

\* The invariant holds in every state: what a flushed PATCH is about to commit
\* is the committed row with its own changed columns (routers/campaigns.py's
\* setattr loop, PostgreSQL's row lock).
THEOREM Invariance == Spec => []IInv
<1> QED
  BY InitIInv, StepIInv, PTL DEF Spec

\* The requests implement the table: no PATCH undoes another's column, no
\* deleted row comes back and a failed request leaves nothing, for any number
\* of rows, columns and concurrent requests (the single-row handlers of
\* leads.py, holidays.py and campaigns.py).
THEOREM TableIsKept == Spec => KeepsTable
<1>1. Spec => []IInv
  BY Invariance
<1> QED
  BY <1>1, InitKept, StepKept, PTL DEF Spec, KeepsTable, Kept!Spec

-----------------------------------------------------------------------------
(* The answers: a row that was stored while the request ran.               *)

\* A request is answered once, by its re-read, which a DELETE has none of.
AnsweredLate ==
    \A r \in Requests :
        /\ pc[r] \in {"idle", "found", "missing", "reread"} => answer[r] = Absent
        /\ pc[r] = "reread" => request[r].op # "delete"

\* A request that has loaded its row has seen every row committed since.
HasSeen ==
    \A r \in Requests :
        pc[r] \in {"found", "reread"} /\ request[r].op # "create" => rows[Target(r)] \in was[r]

\* The answer about to be committed: the request's own write, or a row seen.
AnswerReady ==
    \A r \in Requests :
        pc[r] = "commit" /\ answer[r] # Absent /\ table # "campaigns" =>
            IF r \in holder[Target(r)] THEN answer[r] = write[r] ELSE answer[r] \in was[r]

AnswerInv == /\ DOMAIN was = Requests /\ DOMAIN answer = Requests
             /\ AnsweredLate /\ HasSeen /\ AnswerReady /\ AnswerWasStored

\* A commit adds its row to what each open request on the same row has seen.
LEMMA CommitAnswers ==
    ASSUME IInv, AnswerInv, NEW r \in Requests, Commit(r)
    PROVE  AnswerInv'
<1> USE DEF IInv, AnswerInv
<1>1. /\ pc[r] = "commit" /\ pc' = [pc EXCEPT ![r] = "done"] /\ Target(r) \in Rows
      /\ rows' = [rows EXCEPT ![Target(r)] = Visible(r)]
      /\ was' = [q \in Requests |-> IF q = r \/ (Target(q) = Target(r) /\ pc[q] \in {"found", "reread"})
                                    THEN was[q] \cup {Visible(r)} ELSE was[q]]
      /\ holder' = [x \in Rows |-> holder[x] \ {r}]
      /\ UNCHANGED <<table, request, write, answer>>
  BY DEF Commit, End, GoTo, Target, TypeOK, Requested
<1>2. /\ \A q \in Requests : was[q] \subseteq was'[q] /\ Target(q)' = Target(q) /\ Target(q) \in Rows
      /\ \A q \in Requests \ {r} : pc'[q] = pc[q]
      /\ pc'[r] = "done" /\ Visible(r) \in was'[r]
  BY <1>1 DEF TypeOK, Requested, Target
<1>3. AnsweredLate'
  BY <1>1, <1>2 DEF AnsweredLate
<1>4. HasSeen'
  <2> SUFFICES ASSUME NEW q \in Requests, pc'[q] \in {"found", "reread"}, request[q].op # "create"
               PROVE  rows'[Target(q)] \in was'[q]
    BY <1>1, <1>2 DEF HasSeen
  <2>1. q # r /\ rows[Target(q)] \in was[q]
    BY <1>2 DEF HasSeen
  <2>2. CASE Target(q) = Target(r)
    BY <1>1, <1>2, <2>1, <2>2 DEF TypeOK
  <2>3. CASE Target(q) # Target(r)
    BY <1>1, <1>2, <2>1, <2>3 DEF TypeOK
  <2> QED
    BY <2>2, <2>3
<1>5. AnswerReady'
  <2> SUFFICES ASSUME NEW q \in Requests, pc'[q] = "commit", answer[q] # Absent, table # "campaigns"
               PROVE  IF q \in holder'[Target(q)] THEN answer[q] = write[q] ELSE answer[q] \in was'[q]
    BY <1>1, <1>2 DEF AnswerReady
  <2>1. q # r /\ pc[q] = "commit"
    BY <1>2
  <2>2. q \in holder'[Target(q)] <=> q \in holder[Target(q)]
    BY <1>1, <1>2, <2>1
  <2> QED
    BY <1>2, <2>1, <2>2 DEF AnswerReady
<1>6. AnswerWasStored'
  <2> SUFFICES ASSUME NEW q \in Requests, pc'[q] = "done", answer[q] # Absent, table # "campaigns"
               PROVE  answer[q] \in was'[q]
    BY <1>1 DEF AnswerWasStored
  <2>1. CASE q = r
    <3>1. CASE r \in holder[Target(r)]
      BY <1>1, <1>2, <2>1, <3>1 DEF AnswerReady, Visible
    <3>2. CASE r \notin holder[Target(r)]
      BY <1>1, <1>2, <2>1, <3>2 DEF AnswerReady
    <3> QED
      BY <3>1, <3>2
  <2>2. CASE q # r
    BY <1>2, <2>2 DEF AnswerWasStored
  <2> QED
    BY <2>1, <2>2
<1> QED
  BY <1>1, <1>3, <1>4, <1>5, <1>6

\* Every other step that leaves the rows and what was seen alone: only the
\* request that moves has to be looked at.
LEMMA MoveAnswers ==
    ASSUME IInv, AnswerInv, NEW r \in Requests,
           UNCHANGED <<table, request, rows>>,
           \A q \in Requests \ {r} : /\ pc'[q] = pc[q] /\ answer'[q] = answer[q] /\ was'[q] = was[q]
                                     /\ write'[q] = write[q]
                                     /\ q \in holder'[Target(q)] <=> q \in holder[Target(q)],
           DOMAIN was' = Requests, DOMAIN answer' = Requests,
           pc'[r] \in {"idle", "found", "missing", "reread"} => answer'[r] = Absent,
           pc'[r] = "reread" => request[r].op # "delete",
           pc'[r] \in {"found", "reread"} /\ request[r].op # "create" => rows[Target(r)] \in was'[r],
           pc'[r] = "commit" /\ answer'[r] # Absent /\ table # "campaigns" =>
               IF r \in holder'[Target(r)] THEN answer'[r] = write'[r] ELSE answer'[r] \in was'[r],
           pc'[r] # "done"
    PROVE  AnswerInv'
<1> USE DEF AnswerInv
<1>1. \A q \in Requests : Target(q)' = Target(q)
  BY DEF Target
<1>2. AnsweredLate'
  BY DEF AnsweredLate
<1>3. HasSeen'
  BY <1>1 DEF HasSeen
<1>4. AnswerReady'
  <2> SUFFICES ASSUME NEW q \in Requests, pc'[q] = "commit", answer'[q] # Absent, table # "campaigns"
               PROVE  IF q \in holder'[Target(q)] THEN answer'[q] = write'[q] ELSE answer'[q] \in was'[q]
    BY <1>1 DEF AnswerReady
  <2>1. CASE q = r
    BY <2>1
  <2>2. CASE q # r
    BY <2>2 DEF AnswerReady
  <2> QED
    BY <2>1, <2>2
<1>5. AnswerWasStored'
  BY DEF AnswerWasStored
<1> QED
  BY <1>2, <1>3, <1>4, <1>5

\* Every step keeps AnswerInv.
LEMMA AnswerStep == IInv /\ AnswerInv /\ [Next]_vars => AnswerInv'
<1> SUFFICES ASSUME IInv, AnswerInv, [Next]_vars PROVE AnswerInv'
  OBVIOUS
<1>t. /\ \A q \in Requests : Target(q) \in Rows
      /\ DOMAIN pc = Requests /\ DOMAIN write = Requests /\ DOMAIN was = Requests
      /\ DOMAIN answer = Requests /\ DOMAIN holder = Rows
  BY DEF IInv, TypeOK, Requested, Target, AnswerInv
<1>1. ASSUME NEW r \in Requests, Refuse(r) \/ Rollback(r) PROVE AnswerInv'
  <2>1. /\ pc' = [pc EXCEPT ![r] = "failed"]
        /\ holder' = [x \in Rows |-> holder[x] \ {r}]
        /\ UNCHANGED <<table, request, rows, write, answer, was>>
    BY <1>1 DEF Refuse, Rollback, Raise, End, GoTo
  <2> QED
    BY <1>t, <2>1, MoveAnswers
<1>2. ASSUME NEW r \in Requests, Create(r) PROVE AnswerInv'
  <2>1. /\ pc[r] = "idle" /\ pc' = [pc EXCEPT ![r] = "reread"] /\ request[r].op = "create"
        /\ holder[Target(r)] = {} /\ holder' = [holder EXCEPT ![Target(r)] = {r}]
        /\ write' = [write EXCEPT ![r] = request[r].columns]
        /\ UNCHANGED <<table, request, rows, answer, was>>
    BY <1>2 DEF Create, At, Writes, GoTo
  <2>2. answer[r] = Absent
    BY <2>1 DEF AnswerInv, AnsweredLate
  <2> QED
    BY <1>t, <2>1, <2>2, MoveAnswers
<1>3. ASSUME NEW r \in Requests, Load(r) PROVE AnswerInv'
  <2>1. /\ pc[r] = "idle" /\ answer[r] = Absent
        /\ UNCHANGED <<table, request, rows, write, holder, answer>>
    BY <1>3 DEF Load, AnswerInv, AnsweredLate
  <2>2. \/ pc' = [pc EXCEPT ![r] = "missing"] /\ UNCHANGED was
        \/ pc' = [pc EXCEPT ![r] = "found"] /\ was' = [was EXCEPT ![r] = {rows[Target(r)]}]
    BY <1>3 DEF Load, GoTo
  <2>3. CASE pc' = [pc EXCEPT ![r] = "missing"] /\ UNCHANGED was
    BY <1>t, <2>1, <2>3, MoveAnswers
  <2>4. CASE pc' = [pc EXCEPT ![r] = "found"] /\ was' = [was EXCEPT ![r] = {rows[Target(r)]}]
    BY <1>t, <2>1, <2>4, MoveAnswers
  <2> QED
    BY <2>2, <2>3, <2>4
<1>4. ASSUME NEW r \in Requests, Patch(r) PROVE AnswerInv'
  <2>1. /\ pc[r] = "found" /\ request[r].op = "patch" /\ answer[r] = Absent
        /\ rows[Target(r)] \in was[r]
        /\ UNCHANGED <<table, request, rows, answer, was>>
    BY <1>4 DEF Patch, At, Raise, AnswerInv, AnsweredLate, HasSeen
  <2>2. CASE pc' = [pc EXCEPT ![r] = "reread"] /\ UNCHANGED <<write, holder>>
    BY <1>t, <2>1, <2>2, MoveAnswers
  <2>3. CASE Raise(r)
    BY <1>t, <2>1, <2>3, MoveAnswers DEF Raise, End, GoTo
  <2>4. CASE /\ pc' = [pc EXCEPT ![r] = "reread"] /\ holder[Target(r)] = {}
             /\ holder' = [holder EXCEPT ![Target(r)] = {r}]
             /\ write' = [write EXCEPT ![r] = NewRow(r)]
    BY <1>t, <2>1, <2>4, MoveAnswers
  <2> QED
    BY <1>4, <2>2, <2>3, <2>4 DEF Patch, Writes, GoTo
<1>5. ASSUME NEW r \in Requests, Reread(r) PROVE AnswerInv'
  <2>1. pc[r] = "reread" /\ request[r].op # "delete" /\ answer[r] = Absent
    BY <1>5 DEF Reread, AnswerInv, AnsweredLate
  <2>2. CASE Answered(r) = Absent
    <3>1. Raise(r)
      BY <1>5, <2>2 DEF Reread
    <3> QED
      BY <1>t, <2>1, <3>1, MoveAnswers DEF Raise, End, GoTo
  <2>3. CASE Answered(r) # Absent
    <3>1. /\ answer' = [answer EXCEPT ![r] = Answered(r)]
          /\ pc' = [pc EXCEPT ![r] = "commit"]
          /\ UNCHANGED <<table, request, rows, write, holder, was>>
      BY <1>5, <2>3 DEF Reread, GoTo
    <3>2. table # "campaigns" => Answered(r) = Visible(r)
      BY DEF Answered
    <3>3. r \notin holder[Target(r)] => request[r].op # "create"
      BY <2>1 DEF IInv, Pending, Flushed
    <3>4. table # "campaigns" => IF r \in holder[Target(r)] THEN Answered(r) = write[r]
                                 ELSE Answered(r) \in was[r]
      BY <2>1, <3>2, <3>3 DEF Visible, AnswerInv, HasSeen
    <3> QED
      BY <1>t, <2>1, <3>1, <3>4, MoveAnswers
  <2> QED
    BY <2>2, <2>3
<1>6. ASSUME NEW r \in Requests, Delete(r) PROVE AnswerInv'
  <2>1. /\ pc[r] = "found" /\ pc' = [pc EXCEPT ![r] = "commit"] /\ answer[r] = Absent
        /\ holder[Target(r)] = {} /\ holder' = [holder EXCEPT ![Target(r)] = {r}]
        /\ write' = [write EXCEPT ![r] = Absent]
        /\ UNCHANGED <<table, request, rows, answer, was>>
    BY <1>6 DEF Delete, At, Writes, GoTo, AnswerInv, AnsweredLate
  <2> QED
    BY <1>t, <2>1, MoveAnswers
<1>7. CASE UNCHANGED vars
  BY <1>7 DEF vars, AnswerInv, AnsweredLate, HasSeen, AnswerReady, AnswerWasStored, Target
<1> QED
  BY <1>1, <1>2, <1>3, <1>4, <1>5, <1>6, <1>7, CommitAnswers DEF Next

\* A lead or holiday request answers with a row that was stored while it ran:
\* its own write, or one committed since it loaded the row (the refresh of
\* leads.py and holidays.py before the commit).
THEOREM AnswerIsARow == Spec => []AnswerWasStored
<1>1. Init => AnswerInv
  BY DEF Init, AnswerInv, AnsweredLate, HasSeen, AnswerReady, AnswerWasStored
<1>2. AnswerInv => AnswerWasStored
  BY DEF AnswerInv
<1> QED
  BY <1>1, <1>2, AnswerStep, Invariance, PTL DEF Spec
=============================================================================
