------------------------- MODULE MCEndpoints_proofs -------------------------
(***************************************************************************)
(* Theorems about the endpoints of MCEndpoints, for every value of their   *)
(* constants: first that a behaviour of the instance is one of each group  *)
(* of endpoints, then, group by group, its inductive invariant.            *)
(***************************************************************************)
EXTENDS MCEndpoints, FiniteSetTheorems, SequenceTheorems, TLAPS

\* What MCSpec's steps change.
allVars == <<endpoint, importVars, previewVars, calls, lastSeen, beats, now, commandVars, pageVars,
             credentialVars, vars>>

-----------------------------------------------------------------------------
(* No group disturbs another.                                              *)

\* The groups that share nothing with another.
LEMMA RunsAlone ==
    /\ MCSpec => Import!Spec
    /\ MCSpec => Preview!Spec
    /\ MCSpec => Control!Spec
    /\ MCSpec => Lists!Spec
<1>1. MCInit => Import!Init /\ Preview!Init /\ Control!Init /\ Lists!Init
  BY DEF MCInit
<1>2. [MCNext]_allVars => [Import!Next]_(Import!vars)
  BY DEF MCNext, allVars, importVars, Import!vars
<1>3. [MCNext]_allVars => [Preview!Next]_(Preview!vars)
  BY DEF MCNext, allVars, previewVars, Preview!vars
<1>4. [MCNext]_allVars => [Control!Next]_(Control!vars)
  BY DEF MCNext, allVars, commandVars, Control!vars
<1>5. [MCNext]_allVars => [Lists!Next]_(Lists!vars)
  BY DEF MCNext, allVars, pageVars, Lists!vars, Lists!walk
<1> QED
  BY <1>1, <1>2, <1>3, <1>4, <1>5, PTL
     DEF MCSpec, allVars, Import!Spec, Preview!Spec, Control!Spec, Lists!Spec

\* The heartbeats go on while calls are made: the two share the clock.
LEMMA EdgeRuns == MCSpec => Edge!Spec
<1>1. MCInit => Edge!Init
  BY DEF MCInit
<1>2. [MCNext]_allVars => [Edge!Next]_(Edge!vars)
  <2>1. ASSUME Reports!Next, UNCHANGED <<lastSeen, beats>> PROVE [Edge!Next]_(Edge!vars)
    <3>1. UNCHANGED now \/ Reports!Tick
      BY <2>1 DEF Reports!Next, Reports!Dial, Reports!Connect, Reports!HangUp, Reports!Summarise
    <3> QED
      BY <2>1, <3>1 DEF Reports!Tick, Edge!Tick, Edge!Next, Edge!vars
  <2> QED
    BY <2>1 DEF MCNext, allVars, Edge!vars
<1> QED
  BY <1>1, <1>2, PTL DEF MCSpec, allVars, Edge!Spec

\* The instances count the members of a set alike.
LEMMA OneCardinality ==
    ASSUME NEW S
    PROVE  /\ Preview!Cardinality(S) = Cardinality(S)
           /\ Import!Cardinality(S) = Cardinality(S)
           /\ Lists!Cardinality(S) = Cardinality(S)
           /\ Edge!Cardinality(S) = Cardinality(S)
           /\ Reports!Cardinality(S) = Cardinality(S)
BY DEF Cardinality, Preview!Cardinality, Import!Cardinality, Lists!Cardinality, Edge!Cardinality,
       Reports!Cardinality

-----------------------------------------------------------------------------
(* POST /leads/import.                                                     *)

Increasing(seq) == \A i, j \in DOMAIN seq : i < j => seq[i] < seq[j]

\* Every row read so far is inserted, waits in the batch or is reported, in the
\* order of the file, and success_count counts the inserted ones.
Accounted ==
    /\ flushed \cup Import!Numbers(batch) \cup Import!Numbers(errors) = 1 .. next - 1
    /\ flushed \cap Import!Numbers(batch) = {}
    /\ (flushed \cup Import!Numbers(batch)) \cap Import!Numbers(errors) = {}
    /\ Increasing(batch) /\ Increasing(errors)
    /\ success = Cardinality(flushed)

ImportInv ==
    /\ Len(file) \in Nat /\ next \in 1 .. Len(file) + 1
    /\ batch \in Seq(Nat) /\ errors \in Seq(Nat)
    /\ IsFiniteSet(flushed)
    /\ status \in {"reading", "answering", "committed", "failed", "crashed"}
    /\ status \in {"reading", "answering", "committed"} => Accounted
    /\ status \in {"answering", "committed"} => Import!AtEnd /\ batch = <<>>
    /\ status = "committed" => stored = flushed

\* A row that is added to the end of a list is one more of its rows, and keeps
\* an ascending list ascending when it comes after all of them.
LEMMA AddedRow ==
    ASSUME NEW seq \in Seq(Nat), NEW n \in Nat
    PROVE  /\ Append(seq, n) \in Seq(Nat)
           /\ Import!Numbers(Append(seq, n)) = Import!Numbers(seq) \cup {n}
           /\ Increasing(seq) /\ (\A m \in Import!Numbers(seq) : m < n) => Increasing(Append(seq, n))
<1> DEFINE longer == Append(seq, n)
<1>1. /\ longer \in Seq(Nat) /\ Len(longer) = Len(seq) + 1
      /\ \A i \in 1 .. Len(seq) : longer[i] = seq[i]
      /\ longer[Len(seq) + 1] = n
  BY AppendProperties
<1>2. /\ Len(seq) \in Nat /\ DOMAIN seq = 1 .. Len(seq) /\ DOMAIN longer = 1 .. Len(longer)
      /\ \A i \in DOMAIN seq : seq[i] \in Nat
  BY <1>1, LenProperties, ElementOfSeq
<1> HIDE DEF longer
<1>3. DOMAIN longer = DOMAIN seq \cup {Len(seq) + 1} /\ Len(seq) + 1 \notin DOMAIN seq
  BY <1>1, <1>2
<1>4. Import!Numbers(longer) = Import!Numbers(seq) \cup {n}
  BY <1>1, <1>2, <1>3 DEF Import!Numbers
<1>5. ASSUME Increasing(seq), \A m \in Import!Numbers(seq) : m < n, NEW i \in DOMAIN longer, NEW j \in DOMAIN longer, i < j
      PROVE  longer[i] < longer[j]
  <2>1. i \in DOMAIN seq
    BY <1>1, <1>2, <1>5
  <2>2. seq[i] \in Import!Numbers(seq) /\ longer[i] = seq[i]
    BY <1>1, <1>2, <2>1 DEF Import!Numbers
  <2>3. CASE j \in DOMAIN seq
    BY <1>1, <1>2, <1>5, <2>1, <2>2, <2>3 DEF Increasing
  <2>4. CASE j = Len(seq) + 1
    BY <1>1, <1>5, <2>2, <2>4
  <2> QED
    BY <1>3, <2>3, <2>4
<1> QED
  BY <1>1, <1>4, <1>5 DEF Increasing, longer

\* An ascending list has as many members as it is long.
LEMMA AscendingLength ==
    ASSUME NEW seq \in Seq(Nat), Increasing(seq)
    PROVE  /\ IsFiniteSet(Import!Numbers(seq))
           /\ Cardinality(Import!Numbers(seq)) = Len(seq)
<1>1. Len(seq) \in Nat /\ DOMAIN seq = 1 .. Len(seq) /\ \A i \in DOMAIN seq : seq[i] \in Nat
  BY LenProperties, ElementOfSeq
<1>2. seq \in [1 .. Len(seq) -> Import!Numbers(seq)]
  BY <1>1, LenProperties DEF Import!Numbers
<1>3. \A i, j \in 1 .. Len(seq) : i # j => seq[i] # seq[j]
  BY <1>1 DEF Increasing
<1>4. \A m \in Import!Numbers(seq) : \E i \in 1 .. Len(seq) : seq[i] = m
  BY <1>1 DEF Import!Numbers
<1>5. seq \in Bijection(1 .. Len(seq), Import!Numbers(seq))
  BY <1>2, <1>3, <1>4 DEF Bijection, Injection, Surjection, IsInjective
<1>6. IsFiniteSet(1 .. Len(seq)) /\ Cardinality(1 .. Len(seq)) = Len(seq)
  <2>1. 1 \in Int /\ Len(seq) \in Int
    BY <1>1
  <2>2. /\ IsFiniteSet(1 .. Len(seq))
        /\ Cardinality(1 .. Len(seq)) = IF 1 > Len(seq) THEN 0 ELSE Len(seq) - 1 + 1
    BY <2>1, FS_Interval
  <2> QED
    BY <1>1, <2>2
<1> QED
  BY <1>5, <1>6, FS_Bijection DEF ExistsBijection

\* Every step of the request keeps this.
LEMMA ImportStep == ImportInv /\ [Import!Next]_(Import!vars) => ImportInv'
<1> SUFFICES ASSUME ImportInv, [Import!Next]_(Import!vars) PROVE ImportInv'
  OBVIOUS
<1>1. /\ Len(file) \in Nat /\ next \in Nat /\ next >= 1 /\ next <= Len(file) + 1
      /\ batch \in Seq(Nat) /\ errors \in Seq(Nat) /\ IsFiniteSet(flushed)
  BY DEF ImportInv
<1>2. ASSUME status = "reading"
      PROVE  Accounted
  BY <1>2 DEF ImportInv
<1>3. ASSUME Accounted
      PROVE  /\ \A m \in Import!Numbers(batch) \cup Import!Numbers(errors) : m < next
             /\ next \notin flushed \cup Import!Numbers(batch) \cup Import!Numbers(errors)
             /\ 1 .. next = (1 .. next - 1) \cup {next}
  <2>1. \A m \in 1 .. next - 1 : m < next
    BY <1>1
  <2>2. next \notin 1 .. next - 1 /\ 1 .. next = (1 .. next - 1) \cup {next}
    BY <1>1
  <2> QED
    BY <1>3, <2>1, <2>2 DEF Accounted
<1>4. ASSUME NEW kinds, Import!Reads(kinds)
      PROVE  /\ status = "reading" /\ next' = next + 1 /\ next <= Len(file) /\ next' - 1 = next
             /\ next + 1 \in 1 .. Len(file) + 1
  BY <1>1, <1>4 DEF Import!Reads, Import!AtEnd
<1>5. ASSUME Import!ReadRow PROVE ImportInv'
  <2>1. /\ status = "reading" /\ next' = next + 1 /\ next' - 1 = next /\ next' \in 1 .. Len(file) + 1
        /\ batch' = Append(batch, next) /\ UNCHANGED <<file, flushed, stored, success, errors, status>>
    BY <1>4, <1>5 DEF Import!ReadRow
  <2>2. /\ batch' \in Seq(Nat) /\ Import!Numbers(batch') = Import!Numbers(batch) \cup {next}
        /\ Increasing(batch')
    BY <1>1, <1>2, <1>3, <2>1, AddedRow DEF Accounted
  <2>3. Accounted'
    BY <1>2, <1>3, <2>1, <2>2 DEF Accounted
  <2> QED
    BY <1>1, <1>2, <2>1, <2>2, <2>3 DEF ImportInv
<1>6. ASSUME Import!ReportRow PROVE ImportInv'
  <2>1. /\ status = "reading" /\ next' = next + 1 /\ next' - 1 = next /\ next' \in 1 .. Len(file) + 1
        /\ errors' = Append(errors, next) /\ UNCHANGED <<file, batch, flushed, stored, success, status>>
    BY <1>4, <1>6 DEF Import!ReportRow
  <2>2. /\ errors' \in Seq(Nat) /\ Import!Numbers(errors') = Import!Numbers(errors) \cup {next}
        /\ Increasing(errors')
    BY <1>1, <1>2, <1>3, <2>1, AddedRow DEF Accounted
  <2>3. Accounted'
    BY <1>2, <1>3, <2>1, <2>2 DEF Accounted
  <2> QED
    BY <1>1, <1>2, <2>1, <2>2, <2>3 DEF ImportInv
<1>7. ASSUME NEW outcome \in {"failed", "crashed"}, status \in {"reading", "answering"}, Import!Fail(outcome),
             next' \in {next, next + 1}, next' <= Len(file) + 1
      PROVE  ImportInv'
  <2>1. /\ status' = outcome /\ stored' = stored /\ flushed' = {}
        /\ UNCHANGED <<file, batch, success, errors>>
    BY <1>7 DEF Import!Fail
  <2>2. IsFiniteSet(flushed')
    BY <2>1, FS_EmptySet
  <2>3. next' \in 1 .. Len(file) + 1
    BY <1>1, <1>7
  <2> QED
    BY <1>1, <1>7, <2>1, <2>2, <2>3 DEF ImportInv
<1>8. CASE Import!ReadShortRow
  BY <1>1, <1>4, <1>7, <1>8 DEF Import!ReadShortRow
<1>9. CASE Import!FlushRefused \/ Import!Crash
  BY <1>1, <1>7, <1>9 DEF Import!FlushRefused, Import!FlushDue, Import!Crash
<1>10. ASSUME Import!Flush PROVE ImportInv'
  <2>1. /\ status = "reading" /\ flushed' = flushed \cup Import!Numbers(batch)
        /\ success' = success + Len(batch) /\ batch' = <<>>
        /\ UNCHANGED <<file, next, stored, errors, status>>
    BY <1>10 DEF Import!Flush, Import!FlushDue
  <2>2. /\ IsFiniteSet(Import!Numbers(batch)) /\ Cardinality(Import!Numbers(batch)) = Len(batch)
    BY <1>1, <1>2, <2>1, AscendingLength DEF Accounted
  <2>3. IsFiniteSet(flushed') /\ Cardinality(flushed') = Cardinality(flushed) + Len(batch)
    <3>1. IsFiniteSet(flushed) /\ Cardinality(flushed) \in Nat /\ Len(batch) \in Nat
      BY <1>1, FS_CardinalityType, LenProperties
    <3>2. Cardinality(flushed \cap Import!Numbers(batch)) = 0
      BY <1>2, <2>1, FS_EmptySet DEF Accounted
    <3>3. /\ IsFiniteSet(flushed \cup Import!Numbers(batch))
          /\ Cardinality(flushed \cup Import!Numbers(batch))
               = Cardinality(flushed) + Cardinality(Import!Numbers(batch))
                 - Cardinality(flushed \cap Import!Numbers(batch))
      BY <2>2, <3>1, FS_Union
    <3> QED
      BY <2>1, <2>2, <3>1, <3>2, <3>3
  <2>4. Import!Numbers(batch') = {} /\ Increasing(batch') /\ batch' \in Seq(Nat)
    BY <2>1 DEF Import!Numbers, Increasing
  <2>5. Accounted'
    <3>1. UNCHANGED Import!Numbers(errors) /\ UNCHANGED Increasing(errors) /\ UNCHANGED next
      BY <2>1
    <3> QED
      BY <1>2, <2>1, <2>3, <2>4, <3>1 DEF Accounted
  <2> QED
    BY <1>1, <1>2, <2>1, <2>3, <2>4, <2>5 DEF ImportInv
<1>11. ASSUME Import!Answer PROVE ImportInv'
  <2>1. /\ status = "reading" /\ Import!AtEnd /\ batch = <<>> /\ status' = "answering"
        /\ UNCHANGED <<file, next, batch, flushed, stored, success, errors>>
    BY <1>11 DEF Import!Answer
  <2>2. Accounted' /\ Import!AtEnd'
    BY <1>2, <2>1 DEF Accounted, Import!AtEnd
  <2> QED
    BY <1>1, <1>2, <2>1, <2>2 DEF ImportInv
<1>12. ASSUME Import!Commit PROVE ImportInv'
  <2>1. /\ status = "answering" /\ stored' = flushed /\ status' = "committed"
        /\ UNCHANGED <<file, next, batch, flushed, success, errors>>
    BY <1>12 DEF Import!Commit
  <2>2. Accounted /\ Import!AtEnd /\ batch = <<>>
    BY <2>1 DEF ImportInv
  <2>3. Accounted' /\ Import!AtEnd'
    BY <2>1, <2>2 DEF Accounted, Import!AtEnd
  <2> QED
    BY <1>1, <2>1, <2>2, <2>3 DEF ImportInv
<1>13. CASE UNCHANGED Import!vars
  BY <1>13 DEF Import!vars, ImportInv, Accounted, Import!AtEnd
<1> QED
  BY <1>5, <1>6, <1>8, <1>9, <1>10, <1>11, <1>12, <1>13 DEF Import!Next

\* The inductive invariant of the import.
LEMMA ImportInvariance == MCSpec => []ImportInv
<1>1. Import!Init => ImportInv
  <2> SUFFICES ASSUME Import!Init PROVE ImportInv
    OBVIOUS
  <2>1. Len(file) \in Nat
    BY RowsAssumption DEF Import!Init
  <2>2. /\ next = 1 /\ batch = <<>> /\ errors = <<>> /\ flushed = {} /\ stored = {}
        /\ success = 0 /\ status = "reading"
    BY DEF Import!Init
  <2>3. Import!Numbers(<<>>) = {} /\ Increasing(<<>>) /\ <<>> \in Seq(Nat)
    BY DEF Import!Numbers, Increasing
  <2>4. IsFiniteSet(flushed) /\ Cardinality(flushed) = 0
    BY <2>2, FS_EmptySet
  <2>5. 1 .. next - 1 = {} /\ next \in 1 .. Len(file) + 1
    BY <2>1, <2>2
  <2>6. Accounted
    BY <2>2, <2>3, <2>4, <2>5 DEF Accounted
  <2> QED
    BY <2>1, <2>2, <2>3, <2>4, <2>5, <2>6 DEF ImportInv
<1> QED
  BY <1>1, ImportStep, RunsAlone, PTL DEF Import!Spec

\* A committed import has stored or reported every row of its file, none both,
\* in the file's order, with success_count the number of stored rows: for every
\* file and every batch size.
THEOREM EveryRowIsAccounted == MCSpec => []EveryRowAccounted
<1>1. ImportInv => EveryRowAccounted
  <2> SUFFICES ASSUME ImportInv, status = "committed" PROVE Import!EveryRowAccounted
    BY DEF EveryRowAccounted, Import!EveryRowAccounted
  <2>1. Accounted /\ Import!AtEnd /\ batch = <<>> /\ stored = flushed
    BY DEF ImportInv
  <2>2. next - 1 = Len(file)
    BY <2>1 DEF ImportInv, Import!AtEnd
  <2>3. Import!Numbers(batch) = {}
    BY <2>1 DEF Import!Numbers
  <2> QED
    BY <2>1, <2>2, <2>3, OneCardinality DEF Accounted, Increasing, Import!EveryRowAccounted
<1> QED
  BY <1>1, ImportInvariance, PTL

-----------------------------------------------------------------------------
(* POST /campaigns/tts-preview.                                            *)

\* A preview holds its connection from its first statement to the end of its
\* session, and its provider while the stream runs; a stream that raised has a
\* failure for its result.
PreviewInv ==
    /\ previewPc \in [Preview!Users -> {"idle", "waiting", "building", "streaming", "closing", "ending", "done"}]
    /\ result \in [Preview!Users -> Nat]
    /\ IsFiniteSet(conns) /\ Cardinality(conns) <= PoolSize
    /\ \A r \in Preview!Users :
          /\ r \in conns => previewPc[r] \in {"building", "streaming", "closing", "ending"}
          /\ r \in providers => previewPc[r] \in {"streaming", "closing"}
          /\ previewPc[r] \in {"idle", "waiting", "building", "streaming"} => result[r] = 0
          /\ r \in broken => previewPc[r] \in {"closing", "ending", "done"} /\ result[r] \notin {0, 200}
          /\ r \in Previews /\ result[r] = 200 => r \in pcm

\* Every step of a preview or a query keeps this.
LEMMA PreviewStep == PreviewInv /\ [Preview!Next]_(Preview!vars) => PreviewInv'
<1> SUFFICES ASSUME PreviewInv, [Preview!Next]_(Preview!vars) PROVE PreviewInv'
  OBVIOUS
<1> DEFINE Steps == {"idle", "waiting", "building", "streaming", "closing", "ending", "done"}
           Each(r) == /\ r \in conns => previewPc[r] \in {"building", "streaming", "closing", "ending"}
                      /\ r \in providers => previewPc[r] \in {"streaming", "closing"}
                      /\ previewPc[r] \in {"idle", "waiting", "building", "streaming"} => result[r] = 0
                      /\ r \in broken => previewPc[r] \in {"closing", "ending", "done"} /\ result[r] \notin {0, 200}
                      /\ r \in Previews /\ result[r] = 200 => r \in pcm
<1>1. ASSUME NEW r \in Preview!Users, NEW step \in Steps, previewPc' = [previewPc EXCEPT ![r] = step],
             NEW code \in Nat, result' = [result EXCEPT ![r] = code],
             IsFiniteSet(conns'), Cardinality(conns') <= PoolSize,
             \A q \in Preview!Users : q # r =>
                /\ q \in conns' => q \in conns
                /\ q \in providers' => q \in providers
                /\ q \in broken' => q \in broken
                /\ q \in pcm => q \in pcm',
             Each(r)'
      PROVE  PreviewInv'
  <2>1. /\ previewPc' \in [Preview!Users -> Steps] /\ result' \in [Preview!Users -> Nat]
        /\ \A q \in Preview!Users : q # r => previewPc'[q] = previewPc[q] /\ result'[q] = result[q]
    BY <1>1 DEF PreviewInv
  <2>2. \A q \in Preview!Users : q # r => Each(q)'
    BY <1>1, <2>1 DEF PreviewInv
  <2> QED
    BY <1>1, <2>1, <2>2 DEF PreviewInv
<1> HIDE DEF Each
<1>2. /\ previewPc \in [Preview!Users -> Steps] /\ result \in [Preview!Users -> Nat]
      /\ \A r \in Preview!Users : /\ Each(r)
                                  /\ result[r] \in Nat /\ [result EXCEPT ![r] = result[r]] = result
                                  /\ [previewPc EXCEPT ![r] = previewPc[r]] = previewPc
  BY DEF PreviewInv, Each
<1>3. IsFiniteSet(conns) /\ Cardinality(conns) \in Nat /\ Cardinality(conns) <= PoolSize
  BY FS_CardinalityType DEF PreviewInv
<1>4. ASSUME NEW r \in Preview!Users, Preview!CheckOut(r) PROVE PreviewInv'
  <2>1. /\ previewPc[r] = "waiting" /\ Cardinality(conns) < PoolSize /\ conns' = conns \cup {r}
        /\ UNCHANGED <<providers, pcm, broken>>
        /\ \/ /\ r \in Previews
              /\ previewPc' = [previewPc EXCEPT ![r] = "building"] /\ result' = [result EXCEPT ![r] = result[r]]
           \/ /\ r \notin Previews
              /\ previewPc' = [previewPc EXCEPT ![r] = "ending"] /\ result' = [result EXCEPT ![r] = 200]
    <3>1. /\ previewPc[r] = "waiting" /\ Cardinality(conns) < PoolSize /\ conns' = conns \cup {r}
          /\ UNCHANGED <<providers, pcm, broken>>
          /\ IF r \in Previews THEN previewPc' = [previewPc EXCEPT ![r] = "building"] /\ result' = result
                               ELSE /\ previewPc' = [previewPc EXCEPT ![r] = "ending"]
                                    /\ result' = [result EXCEPT ![r] = 200]
      BY <1>4, OneCardinality DEF Preview!CheckOut, Preview!GoTo, Preview!Answers
    <3>2. result = [result EXCEPT ![r] = result[r]]
      BY <1>2
    <3> QED
      BY <3>1, <3>2
  <2>2. IsFiniteSet(conns') /\ Cardinality(conns') <= PoolSize
    <3>1. IsFiniteSet(conns \cup {r}) /\ Cardinality(conns \cup {r}) \in {Cardinality(conns), Cardinality(conns) + 1}
      BY <1>3, FS_AddElement
    <3> QED
      BY <1>3, <2>1, <3>1, PoolSizeAssumption
  <2>3. Each(r)'
    BY <1>2, <2>1 DEF Each
  <2>4. \A q \in Preview!Users \ {r} : /\ q \in conns' => q \in conns
                                       /\ q \in providers' => q \in providers
                                       /\ q \in broken' => q \in broken
                                       /\ q \in pcm => q \in pcm'
    BY <2>1
  <2>5. 200 \in Nat /\ result[r] \in Nat
    BY <1>2
  <2>6. CASE r \in Previews
    BY <1>1, <2>1, <2>2, <2>3, <2>4, <2>5, <2>6
  <2>7. CASE r \notin Previews
    BY <1>1, <2>1, <2>2, <2>3, <2>4, <2>5, <2>7
  <2> QED
    BY <2>6, <2>7
<1>5. ASSUME NEW r \in Preview!Users, Preview!End(r) PROVE PreviewInv'
  <2>1. /\ previewPc[r] = "ending" /\ conns' = conns \ {r} /\ UNCHANGED <<providers, pcm, broken>>
        /\ previewPc' = [previewPc EXCEPT ![r] = "done"] /\ result' = [result EXCEPT ![r] = result[r]]
    BY <1>2, <1>5 DEF Preview!End, Preview!GoTo
  <2>2. IsFiniteSet(conns') /\ Cardinality(conns') <= PoolSize
    <3>1. IsFiniteSet(conns \ {r}) /\ Cardinality(conns \ {r}) \in {Cardinality(conns), Cardinality(conns) - 1}
      BY <1>3, FS_RemoveElement
    <3> QED
      BY <1>3, <2>1, <3>1, PoolSizeAssumption
  <2>3. Each(r)'
    BY <1>2, <2>1 DEF Each
  <2> QED
    BY <1>1, <1>2, <2>1, <2>2, <2>3
<1>6. ASSUME NEW r \in Preview!Users, UNCHANGED conns,
             \E step \in Steps : previewPc' = [previewPc EXCEPT ![r] = step],
             \E code \in Nat : result' = [result EXCEPT ![r] = code],
             providers' \in {providers, providers \cup {r}, providers \ {r}},
             broken' \in {broken, broken \cup {r}}, pcm' \in {pcm, pcm \cup {r}},
             Each(r)'
      PROVE  PreviewInv'
  BY <1>1, <1>3, <1>6
<1>7. ASSUME NEW r \in Preview!Users, Preview!Refuse(r) \/ Preview!PoolTimeout(r) \/ Preview!BuildFails(r)
      PROVE  PreviewInv'
  <2>1. /\ previewPc[r] \in {"idle", "waiting", "building"} /\ UNCHANGED <<conns, providers, pcm, broken>>
        /\ \E code \in {400, 422, 500} : result' = [result EXCEPT ![r] = code]
        /\ \/ previewPc[r] # "building" /\ previewPc' = [previewPc EXCEPT ![r] = "done"]
           \/ previewPc[r] = "building" /\ previewPc' = [previewPc EXCEPT ![r] = "ending"]
    BY <1>7 DEF Preview!Refuse, Preview!PoolTimeout, Preview!BuildFails, Preview!GoTo, Preview!Answers
  <2>2. Each(r)'
    BY <1>2, <2>1 DEF Each
  <2>3. \E step \in Steps : previewPc' = [previewPc EXCEPT ![r] = step]
    BY <2>1
  <2>4. \E code \in Nat : result' = [result EXCEPT ![r] = code]
    <3>1. PICK code \in {400, 422, 500} : result' = [result EXCEPT ![r] = code]
      BY <2>1
    <3>2. code \in Nat
      OBVIOUS
    <3> QED
      BY <3>1, <3>2
  <2> QED
    BY <1>6, <2>1, <2>2, <2>3, <2>4
<1>8. ASSUME NEW r \in Preview!Users, Preview!Ask(r) \/ Preview!Build(r) \/ Preview!Chunk(r) \/ Preview!StreamEnds(r)
      PROVE  PreviewInv'
  <2>1. /\ UNCHANGED <<conns, broken>> /\ result' = [result EXCEPT ![r] = result[r]]
        /\ \/ /\ previewPc[r] = "idle" /\ previewPc' = [previewPc EXCEPT ![r] = "waiting"]
              /\ UNCHANGED <<providers, pcm>>
           \/ /\ previewPc[r] = "building" /\ previewPc' = [previewPc EXCEPT ![r] = "streaming"]
              /\ providers' = providers \cup {r} /\ UNCHANGED pcm
           \/ /\ previewPc[r] = "streaming" /\ previewPc' = [previewPc EXCEPT ![r] = "streaming"]
              /\ pcm' = pcm \cup {r} /\ UNCHANGED providers
           \/ /\ previewPc[r] = "streaming" /\ previewPc' = [previewPc EXCEPT ![r] = "closing"]
              /\ UNCHANGED <<providers, pcm>>
    BY <1>2, <1>8 DEF Preview!Ask, Preview!Build, Preview!Chunk, Preview!StreamEnds, Preview!GoTo
  <2>2. Each(r)'
    BY <1>2, <2>1 DEF Each
  <2>3. result[r] \in Nat
    BY <1>2
  <2> QED
    BY <1>6, <2>1, <2>2, <2>3
<1>9. ASSUME NEW r \in Preview!Users, Preview!StreamFails(r) PROVE PreviewInv'
  <2>1. /\ previewPc[r] = "streaming" /\ previewPc' = [previewPc EXCEPT ![r] = "closing"]
        /\ \E code \in {400, 500, 502} : result' = [result EXCEPT ![r] = code]
        /\ broken' = broken \cup {r} /\ UNCHANGED <<conns, providers, pcm>>
    BY <1>9 DEF Preview!StreamFails, Preview!Finally, Preview!GoTo, Preview!Answers
  <2>2. Each(r)'
    BY <1>2, <2>1 DEF Each
  <2>3. \E step \in Steps : previewPc' = [previewPc EXCEPT ![r] = step]
    BY <2>1
  <2>4. \E code \in Nat : result' = [result EXCEPT ![r] = code]
    <3>1. PICK code \in {400, 500, 502} : result' = [result EXCEPT ![r] = code]
      BY <2>1
    <3>2. code \in Nat
      OBVIOUS
    <3> QED
      BY <3>1, <3>2
  <2> QED
    BY <1>6, <2>1, <2>2, <2>3, <2>4
<1>10. ASSUME NEW r \in Preview!Users, Preview!Close(r) PROVE PreviewInv'
  <2>1. /\ previewPc[r] = "closing" /\ previewPc' = [previewPc EXCEPT ![r] = "ending"]
        /\ result' = [result EXCEPT ![r] = Preview!Outcome(r)]
        /\ providers' = providers \ {r} /\ UNCHANGED <<conns, pcm, broken>>
    BY <1>10 DEF Preview!Close, Preview!GoTo, Preview!Answers
  <2>2. Preview!Outcome(r) = IF result[r] # 0 THEN result[r] ELSE IF r \in pcm THEN 200 ELSE 502
    BY DEF Preview!Outcome
  <2>3. Each(r)' /\ Preview!Outcome(r) \in Nat
    BY <1>2, <2>1, <2>2 DEF Each
  <2> QED
    BY <1>6, <2>1, <2>3
<1>11. ASSUME NEW r \in Preview!Users, Preview!CloseRaises(r) PROVE PreviewInv'
  <2>1. /\ previewPc[r] = "closing" /\ previewPc' = [previewPc EXCEPT ![r] = "ending"]
        /\ result' = [result EXCEPT ![r] = 500]
        /\ providers' = providers \ {r} /\ UNCHANGED <<conns, pcm, broken>>
    BY <1>11 DEF Preview!CloseRaises, Preview!GoTo, Preview!Answers
  <2>2. Each(r)' /\ 500 \in Nat
    BY <1>2, <2>1 DEF Each
  <2> QED
    BY <1>6, <2>1, <2>2
<1>12. CASE UNCHANGED Preview!vars
  BY <1>12 DEF Preview!vars, PreviewInv
<1> QED
  BY <1>4, <1>5, <1>7, <1>8, <1>9, <1>10, <1>11, <1>12 DEF Preview!Next

\* The inductive invariant of the previews.
LEMMA PreviewInvariance == MCSpec => []PreviewInv
<1>1. Preview!Init => PreviewInv
  BY FS_EmptySet, PoolSizeAssumption DEF Preview!Init, PreviewInv
<1> QED
  BY <1>1, PreviewStep, RunsAlone, PTL DEF Preview!Spec

\* No answered request holds a TTS provider or a pooled connection, and no more
\* connections than the pool has are out, for any number of previews and
\* queries, however the synthesis fails.
THEOREM NothingEverLeaks == MCSpec => []NothingLeaks
<1>1. PreviewInv => NothingLeaks
  <2> SUFFICES ASSUME PreviewInv PROVE Preview!NothingLeaks
    BY DEF NothingLeaks
  <2>1. ASSUME NEW r \in Preview!Users, previewPc[r] = "done"
        PROVE  r \notin conns \cup providers
    BY <2>1 DEF PreviewInv
  <2>2. Cardinality(conns) <= PoolSize
    BY DEF PreviewInv
  <2> QED
    BY <2>1, <2>2, OneCardinality DEF Preview!NothingLeaks
<1> QED
  BY <1>1, PreviewInvariance, PTL

\* A WAV answer is the whole synthesis: of a stream that raised, no part is ever
\* answered.
THEOREM WavIsAlwaysWhole == MCSpec => []WavIsWhole
<1>1. PreviewInv => WavIsWhole
  BY DEF PreviewInv, WavIsWhole, Preview!WavIsWhole, Preview!Users
<1> QED
  BY <1>1, PreviewInvariance, PTL

-----------------------------------------------------------------------------
(* The campaign control.                                                   *)

\* What is proved of the campaign control alone.
Commanding == INSTANCE CampaignControl_proofs WITH
                  Requests <- Commanders, stored <- campaigns, pc <- commandPc

\* The two ends of the Redis list are a log of the accepted commands, that the
\* scheduler goes through in order, whoever else pushes, fails or deletes.
THEOREM CommandsAlwaysLogged == MCSpec => CommandsAreLogged
<1>1. MCSpec => Commanding!Spec
  <2>1. MCInit => Commanding!Init
    BY DEF MCInit, Control!Init, Commanding!Init
  <2>2. [MCNext]_allVars => [Commanding!Next]_(Commanding!vars)
    <3>1. [MCNext]_allVars => [Control!Next]_(Control!vars)
      BY DEF MCNext, allVars, commandVars, Control!vars
    <3>2. Control!Next <=> Commanding!Next
      BY DEF Control!Next, Control!Load, Control!Push, Control!PushFails, Control!Delete, Control!Report,
             Control!Schedule, Control!GoTo, Control!At, Control!Pushed, Control!IsActive, Control!Commands,
             Commanding!Next, Commanding!Load, Commanding!Push, Commanding!PushFails, Commanding!Delete, Commanding!Report,
             Commanding!Schedule, Commanding!GoTo, Commanding!At, Commanding!Pushed, Commanding!IsActive, Commanding!Commands
    <3> QED
      BY <3>1, <3>2 DEF Control!vars, Commanding!vars
  <2> QED
    BY <2>1, <2>2, PTL DEF MCSpec, allVars, Commanding!Spec
<1>2. Commanding!Spec => Commanding!CommandsAreLogged
  BY Commanding!CommandsAreAlwaysLogged
<1>3. Commanding!CommandsAreLogged => CommandsAreLogged
  <2>1. Commanding!Order = Control!Order
    BY DEF Commanding!Order, Control!Order, Commanding!Reverse, Control!Reverse
  <2>2. Commanding!Log!Init <=> Control!Log!Init
    BY <2>1 DEF Commanding!Log!Init, Commanding!At, Commanding!Commands,
                Control!Log!Init, Control!At, Control!Commands
  <2>3. [Commanding!Log!Next]_(Commanding!Log!vars) <=> [Control!Log!Next]_(Control!Log!vars)
    BY DEF Commanding!Log!Next, Commanding!Log!Enter, Commanding!Log!Handle, Commanding!Log!vars,
           Commanding!Order, Commanding!Reverse, Commanding!At, Commanding!Commands,
           Control!Log!Next, Control!Log!Enter, Control!Log!Handle, Control!Log!vars,
           Control!Order, Control!Reverse, Control!At, Control!Commands
  <2> QED
    BY <2>2, <2>3, PTL DEF CommandsAreLogged, Control!CommandsAreLogged, Commanding!CommandsAreLogged,
                        Control!Log!Spec, Commanding!Log!Spec
<1> QED
  BY <1>1, <1>2, <1>3, PTL

-----------------------------------------------------------------------------
(* /provider-credentials.                                                  *)

\* What is proved of the credentials alone.
Storing == INSTANCE ProviderCredentials_proofs WITH
               Requests <- Storers, None <- Null, rows <- credentials, pc <- storePc,
               write <- store, holder <- keyHolder

\* Nothing else writes a credential.
LEMMA StoringRuns == Storing!ConstantsOK /\ (MCSpec => Storing!Spec)
<1>1. Storing!ConstantsOK
  BY CredentialsAssumption DEF Creds!ConstantsOK, Creds!Row, Storing!ConstantsOK, Storing!Row
<1>2. MCInit => Storing!Init
  BY DEF MCInit, Creds!Init, Storing!Init
<1>3. [MCNext]_allVars => [Storing!Next]_(Storing!vars)
  <2>1. [MCNext]_allVars => [Creds!Next]_(Creds!vars)
    BY DEF MCNext, allVars, credentialVars, Creds!vars
  <2>2. Creds!Next <=> Storing!Next
    BY DEF Creds!Next, Creds!Reject, Creds!Upsert, Creds!CommitUpsert, Creds!Refresh, Creds!Load, Creds!Delete,
           Creds!CommitDelete, Creds!Rollback, Creds!GoTo, Creds!Unlock, Creds!IsStored, Creds!Known, Creds!Inserted,
           Creds!Updated, Creds!Matched,
           Storing!Next, Storing!Reject, Storing!Upsert, Storing!CommitUpsert, Storing!Refresh, Storing!Load,
           Storing!Delete, Storing!CommitDelete, Storing!Rollback, Storing!GoTo, Storing!Unlock, Storing!IsStored,
           Storing!Known, Storing!Inserted, Storing!Updated, Storing!Matched
  <2> QED
    BY <2>1, <2>2 DEF Creds!vars, Storing!vars
<1> QED
  BY <1>1, <1>2, <1>3, PTL DEF MCSpec, allVars, Storing!Spec

\* Keys outside the white lists are never written (ALLOWED_PROVIDERS,
\* ALLOWED_FIELDS), whatever they are and whoever writes.
THEOREM CredentialsAlwaysTyped == MCSpec => []CredentialsTyped
<1>1. Storing!TypeOK <=> CredentialsTyped
  BY DEF Storing!TypeOK, Storing!Row, CredentialsTyped, Creds!TypeOK, Creds!Row
<1>2. Storing!Spec => []Storing!TypeOK
  BY StoringRuns, Storing!TypeCorrect
<1> QED
  BY <1>1, <1>2, StoringRuns, PTL

\* The answer of an upsert shows what it stored or what a later one did, for
\* any number of upserts and deletes of the field (create_credential).
THEOREM CreatedIsAlwaysStored == MCSpec => []CreatedIsStored
<1>1. Storing!CreatedIsStored <=> CreatedIsStored
  BY DEF Storing!CreatedIsStored, CreatedIsStored, Creds!CreatedIsStored
<1>2. Storing!Spec => []Storing!CreatedIsStored
  BY StoringRuns, Storing!AnswerIsCurrent
<1> QED
  BY <1>1, <1>2, StoringRuns, PTL

\* A delete removes the row it loaded, never one that was created in its place
\* under the same provider and field (delete_credential).
THEOREM DeletesOnlyItsRow == MCSpec => DeletesItsRow
<1>1. Storing!Spec => Storing!DeletesItsRow
  BY StoringRuns, Storing!DeleteHitsItsRow
<1>2. Storing!DeletesItsRow => DeletesItsRow
  BY PTL DEF Storing!DeletesItsRow, DeletesItsRow, Creds!DeletesItsRow, Storing!vars, Creds!vars
<1> QED
  BY <1>1, <1>2, StoringRuns, PTL

-----------------------------------------------------------------------------
(* GET /edge-devices/status.                                               *)

\* last_seen_at is the last of a device's heartbeats.
EdgeInv ==
    /\ now \in Nat
    /\ lastSeen = [d \in Devices |-> lastSeen[d]]
    /\ beats \in [Devices -> SUBSET (0 .. now)]
    /\ \A d \in Devices :
          /\ beats[d] = {} => lastSeen[d] = Never
          /\ beats[d] # {} => lastSeen[d] \in beats[d] /\ \A t \in beats[d] : t <= lastSeen[d]

\* A heartbeat and the clock keep this.
LEMMA EdgeStep == EdgeInv /\ [Edge!Next]_(Edge!vars) => EdgeInv'
<1> SUFFICES ASSUME EdgeInv, [Edge!Next]_(Edge!vars) PROVE EdgeInv'
  OBVIOUS
<1>1. ASSUME NEW d \in Devices, Edge!Heartbeat(d) PROVE EdgeInv'
  <2>1. /\ lastSeen' = [lastSeen EXCEPT ![d] = now]
        /\ beats' = [beats EXCEPT ![d] = beats[d] \cup {now}] /\ now' = now
    BY <1>1 DEF Edge!Heartbeat
  <2>2. beats[d] \cup {now} \in SUBSET (0 .. now) /\ now \in Nat
    BY DEF EdgeInv
  <2>3. /\ lastSeen' = [e \in Devices |-> lastSeen'[e]] /\ lastSeen'[d] = now
        /\ \A e \in Devices : e # d => lastSeen'[e] = lastSeen[e]
    BY <2>1 DEF EdgeInv
  <2>4. /\ beats' \in [Devices -> SUBSET (0 .. now)] /\ beats'[d] = beats[d] \cup {now}
        /\ \A e \in Devices : e # d => beats'[e] = beats[e]
    BY <2>1, <2>2 DEF EdgeInv
  <2>5. \A t \in beats'[d] : t <= now
    BY <2>2, <2>4
  <2> QED
    BY <2>1, <2>2, <2>3, <2>4, <2>5 DEF EdgeInv
<1>2. ASSUME Edge!Tick PROVE EdgeInv'
  <2>1. now' = now + 1 /\ UNCHANGED <<lastSeen, beats>> /\ now \in Nat
    BY <1>2 DEF Edge!Tick, EdgeInv
  <2>2. 0 .. now \subseteq 0 .. now' /\ now' \in Nat
    BY <2>1
  <2>3. beats' \in [Devices -> SUBSET (0 .. now')]
    BY <2>1, <2>2 DEF EdgeInv
  <2> QED
    BY <2>1, <2>2, <2>3 DEF EdgeInv
<1>3. CASE UNCHANGED Edge!vars
  BY <1>3 DEF Edge!vars, EdgeInv
<1> QED
  BY <1>1, <1>2, <1>3 DEF Edge!Next

\* The two counters of the status are those of the devices with and without a
\* heartbeat in the last Threshold seconds, the boundary included, for any
\* number of devices.
THEOREM StatusIsTrue == MCSpec => []StatusIsSilence
<1>1. Edge!Init => EdgeInv
  BY DevicesAssumption DEF Edge!Init, EdgeInv
<1>2. EdgeInv => StatusIsSilence
  <2> SUFFICES ASSUME EdgeInv PROVE Edge!StatusIsSilence
    BY DEF StatusIsSilence
  <2> DEFINE heard == {d \in Devices : \E k \in 0 .. Threshold : now - k \in beats[d]}
             online == {d \in Devices : Edge!IsOnline(d)}
  <2>1. ASSUME NEW d \in Devices
        PROVE  Edge!IsOnline(d) <=> \E k \in 0 .. Threshold : now - k \in beats[d]
    <3> DEFINE last == lastSeen[d]
    <3>1. now \in Nat /\ Threshold \in Nat /\ beats[d] \subseteq 0 .. now
      BY DevicesAssumption DEF EdgeInv
    <3>2. CASE beats[d] = {}
      BY <3>2 DEF EdgeInv, Edge!IsOnline
    <3>3. CASE beats[d] # {}
      <4>1. last \in beats[d] /\ last \in 0 .. now /\ \A t \in beats[d] : t <= last
        BY <3>1, <3>3 DEF EdgeInv
      <4>2. last # Never
        BY <3>1, <4>1, DevicesAssumption
      <4>3. ASSUME last >= now - Threshold PROVE \E k \in 0 .. Threshold : now - k \in beats[d]
        <5>1. now - last \in 0 .. Threshold /\ now - (now - last) = last
          BY <3>1, <4>1, <4>3
        <5> QED
          BY <4>1, <5>1
      <4>4. ASSUME NEW k \in 0 .. Threshold, now - k \in beats[d] PROVE last >= now - Threshold
        BY <3>1, <4>1, <4>4
      <4> QED
        BY <4>2, <4>3, <4>4 DEF Edge!IsOnline
    <3> QED
      BY <3>2, <3>3
  <2>2. online = heard
    BY <2>1
  <2>3. /\ IsFiniteSet(Devices) /\ online \subseteq Devices
    BY DevicesAssumption
  <2>4. Cardinality(Devices \ heard) = Cardinality(Devices) - Cardinality(heard)
    <3>1. Devices \cap heard = heard
      OBVIOUS
    <3> QED
      BY <3>1, DevicesAssumption, FS_Difference
  <2>5. Edge!Status = [online |-> Cardinality(online), offline |-> Cardinality(Devices) - Cardinality(online)]
    BY OneCardinality DEF Edge!Status
  <2> QED
    BY <2>2, <2>4, <2>5, OneCardinality DEF Edge!StatusIsSilence
<1> QED
  BY <1>1, <1>2, EdgeStep, EdgeRuns, PTL DEF Edge!Spec

-----------------------------------------------------------------------------
(* The paginated lists.                                                    *)

\* Until the list changes, the total that the count statement found is the
\* number of rows that the second statement selects.
TotalInv ==
    /\ page \in Nat \ {0}
    /\ walkPc \in {"count", "rows", "done"}
    /\ moved \in BOOLEAN
    /\ row = [i \in Lists!Ids |-> row[i]]
    /\ walkPc = "rows" /\ ~ moved => total = Cardinality(Lists!Selected)
    /\ Lists!TotalMatchesPage

\* What is in a list can be counted.
LEMMA SelectedIsFinite == IsFiniteSet(Lists!Selected) /\ Cardinality(Lists!Selected) \in Nat
<1>1. IsFiniteSet(1 .. MaxId)
  BY PageAssumption, FS_Interval
<1>2. Lists!Selected \subseteq 1 .. MaxId
  BY DEF Lists!Selected, Lists!Ids
<1> QED
  BY <1>1, <1>2, FS_Subset, FS_CardinalityType

\* How many rows OFFSET and LIMIT leave of a result.
LEMMA PageLength ==
    ASSUME NEW S, NEW s \in Seq(S), NEW p \in Nat \ {0}
    PROVE  LET rest == IF Len(s) > Lists!Offset(p) THEN Len(s) - Lists!Offset(p) ELSE 0
           IN  Len(SubSeq(s, Lists!Offset(p) + 1, Lists!Least(Lists!Offset(p) + PageSize, Len(s))))
                 = Lists!Least(PageSize, rest)
<1> DEFINE off == Lists!Offset(p)
           last == Lists!Least(off + PageSize, Len(s))
<1>1. off \in Nat /\ PageSize \in Nat /\ Len(s) \in Nat
  BY PageAssumption, LenProperties DEF Lists!Offset
<1> HIDE DEF off
<1>2. last = (IF off + PageSize < Len(s) THEN off + PageSize ELSE Len(s)) /\ last \in Nat /\ last <= Len(s)
  BY <1>1 DEF Lists!Least
<1> HIDE DEF last
<1>3. Len(SubSeq(s, off + 1, last)) = IF off + 1 <= last THEN last - off ELSE 0
  BY <1>1, <1>2, SubSeqProperties
<1>4. Len(SubSeq(s, off + 1, last)) = Lists!Least(PageSize, IF Len(s) > off THEN Len(s) - off ELSE 0)
  BY <1>1, <1>2, <1>3 DEF Lists!Least
<1> QED
  BY <1>4 DEF off, last

\* The writers and the reader keep this.
LEMMA TotalStep == TotalInv /\ [Lists!Next]_(Lists!vars) => TotalInv'
<1> SUFFICES ASSUME TotalInv, [Lists!Next]_(Lists!vars) PROVE TotalInv'
  OBVIOUS
<1>1. ASSUME NEW i \in Lists!Ids, Lists!Insert(i) PROVE TotalInv'
  <2>1. /\ row[i] = "unborn" /\ row' = [row EXCEPT ![i] = "open"]
        /\ UNCHANGED <<page, walkPc, total, items, moved>>
    BY <1>1 DEF Lists!Insert, Lists!walk
  <2>2. row' = [j \in Lists!Ids |-> row'[j]] /\ Lists!Selected' = Lists!Selected
    BY <2>1 DEF TotalInv, Lists!Selected
  <2> QED
    BY <2>1, <2>2 DEF TotalInv, Lists!TotalMatchesPage, Lists!Offset, Lists!Least
<1>2. ASSUME NEW i \in Lists!Ids, Lists!Enter(i) \/ Lists!Leave(i) PROVE TotalInv'
  <2>1. /\ moved' = TRUE /\ \E cell : row' = [row EXCEPT ![i] = cell]
        /\ UNCHANGED <<page, walkPc, total, items>>
    BY <1>2 DEF Lists!Enter, Lists!Leave, Lists!Changes, Lists!walk
  <2>2. row' = [j \in Lists!Ids |-> row'[j]]
    BY <2>1 DEF TotalInv
  <2> QED
    BY <2>1, <2>2 DEF TotalInv, Lists!TotalMatchesPage
<1>3. ASSUME Lists!Count PROVE TotalInv'
  <2>1. /\ walkPc' = "rows" /\ total' = Cardinality(Lists!Selected) /\ moved' = FALSE
        /\ UNCHANGED <<row, page>>
    BY <1>3, OneCardinality DEF Lists!Count, Lists!Counted
  <2>2. Lists!Selected' = Lists!Selected
    BY <2>1 DEF Lists!Selected
  <2> QED
    BY <2>1, <2>2 DEF TotalInv, Lists!TotalMatchesPage
<1>4. ASSUME Lists!Rows PROVE TotalInv'
  <2>1. PICK s \in Lists!Orders :
          LET got == SubSeq(s, Lists!Offset(page) + 1, Lists!Least(Lists!Offset(page) + PageSize, Len(s)))
          IN  /\ walkPc = "rows" /\ items' = got
              /\ \/ walkPc' = "count" /\ page' = page + 1
                 \/ walkPc' = "done" /\ page' = page
              /\ UNCHANGED <<row, total, moved>>
    BY <1>4 DEF Lists!Rows
  <2>2. s \in Seq(Lists!Selected) /\ Len(s) = Cardinality(Lists!Selected)
    <3>1. s \in [1 .. Cardinality(Lists!Selected) -> Lists!Selected]
      BY OneCardinality DEF Lists!Orders, Lists!SetToSeqs
    <3> QED
      BY <3>1, SelectedIsFinite
  <2>3. page \in Nat \ {0} /\ (~ moved => total = Len(s))
    BY <2>1, <2>2 DEF TotalInv
  <2>4. ~ moved => Len(items') = Lists!Least(PageSize, IF total > Lists!Offset(page) THEN total - Lists!Offset(page) ELSE 0)
    BY <2>1, <2>2, <2>3, PageLength
  <2>5. page' - 1 = page \/ walkPc' = "done"
    BY <2>1, <2>3
  <2>6. Lists!TotalMatchesPage'
    BY <2>1, <2>3, <2>4, <2>5 DEF Lists!TotalMatchesPage, Lists!Offset, Lists!Least
  <2> QED
    BY <2>1, <2>3, <2>6 DEF TotalInv
<1>5. CASE UNCHANGED Lists!vars \/ \E i \in Lists!Ids : Lists!Move(i)
  <2>1. UNCHANGED <<row, page, walkPc, total, items, moved>>
    BY <1>5 DEF Lists!vars, Lists!walk, Lists!Move
  <2> QED
    BY <2>1 DEF TotalInv, Lists!TotalMatchesPage, Lists!Selected, Lists!Offset, Lists!Least
<1> QED
  BY <1>1, <1>2, <1>3, <1>4, <1>5 DEF Lists!Next

\* The total of an answer and the length of its page agree, unless the list
\* changed between their two statements, for lists and pages of any size and
\* whatever is written meanwhile.
THEOREM TotalsMatch == MCSpec => []TotalMatchesPage
<1>1. Lists!Init => TotalInv
  <2> SUFFICES ASSUME Lists!Init PROVE TotalInv
    OBVIOUS
  <2>1. row \in [Lists!Ids -> {"in", "out", "unborn"}]
    BY DEF Lists!Init
  <2>2. page = 1 /\ walkPc = "count" /\ moved = FALSE
    BY DEF Lists!Init
  <2>3. row = [i \in Lists!Ids |-> row[i]]
    BY <2>1
  <2>4. Lists!TotalMatchesPage
    BY <2>2 DEF Lists!TotalMatchesPage
  <2>5. page \in Nat \ {0}
    BY <2>2
  <2> QED
    BY <2>2, <2>3, <2>4, <2>5, Zenon DEF TotalInv
<1>2. TotalInv => TotalMatchesPage
  BY DEF TotalInv, TotalMatchesPage
<1> QED
  BY <1>1, <1>2, TotalStep, RunsAlone, PTL DEF Lists!Spec

-----------------------------------------------------------------------------
(* The walk over the pages of a list.                                      *)

\* The rows of the list that a page before has shown, and those before them.
Shown == {x \in Lists!Selected : \E y \in Lists!ToSet(seen) : x = y \/ Lists!Before(x, y)}

\* The rows of the list that come before one.
Ahead(x) == {y \in Lists!Selected : Lists!Before(y, x)}

\* No row has come in or moved ahead of those already shown: they are at most as many as
\* the next OFFSET skips.
NoneAgain ==
    /\ Cardinality(Shown) <= Len(seen)
    /\ \A k, m \in DOMAIN seen : seen[k] = seen[m] => k = m

\* No row has left or moved: one that is still to be shown has at least as many before it
\* as the next OFFSET skips.
NoneMissed ==
    /\ first \subseteq Lists!Selected
    /\ walkPc # "done" => \A x \in first \ Lists!ToSet(seen) : Cardinality(Ahead(x)) >= Len(seen)
    /\ walkPc = "done" => first \subseteq Lists!ToSet(seen)

WalkInv ==
    /\ list.order \in {"up", "down", "date"}
    /\ date \in [Lists!Ids -> Nat]
    /\ row = [i \in Lists!Ids |-> row[i]]
    /\ page \in Nat \ {0}
    /\ seen \in Seq(Lists!Ids) /\ first \subseteq Lists!Ids
    /\ walkPc # "done" => Len(seen) = Lists!Offset(page)
    /\ ~ tied => Lists!NoTies
    /\ ~ entered /\ ~ tied => NoneAgain
    /\ ~ left /\ ~ tied => NoneMissed

\* What the ORDER BY compares.
LEMMA OrderBy ==
    ASSUME WalkInv, NEW i \in Lists!Ids, NEW j \in Lists!Ids
    PROVE  /\ i \in Nat /\ j \in Nat /\ date[i] \in Nat /\ date[j] \in Nat
           /\ \/ list.order = "up" /\ (Lists!Before(i, j) <=> i < j)
              \/ list.order = "down" /\ (Lists!Before(i, j) <=> i > j)
              \/ list.order = "date" /\ (Lists!Before(i, j) <=> date[i] < date[j])
<1>1. i \in Nat /\ j \in Nat /\ date[i] \in Nat /\ date[j] \in Nat
  BY DEF WalkInv, Lists!Ids
<1>2. CASE list.order = "up"
  <2>1. Lists!Before(i, j) <=> i < j
    BY <1>2 DEF Lists!Before
  <2> QED
    BY <1>1, <1>2, <2>1
<1>3. CASE list.order = "down"
  <2>1. Lists!Before(i, j) <=> i > j
    BY <1>3 DEF Lists!Before
  <2> QED
    BY <1>1, <1>3, <2>1
<1>4. CASE list.order = "date"
  <2>1. Lists!Before(i, j) <=> date[i] < date[j]
    BY <1>4 DEF Lists!Before
  <2> QED
    BY <1>1, <1>4, <2>1
<1> QED
  BY <1>2, <1>3, <1>4 DEF WalkInv

\* Rows that differ in the ORDER BY are in one order only.
LEMMA OrderIsStrict ==
    ASSUME WalkInv, NEW i \in Lists!Ids, NEW j \in Lists!Ids, Lists!Before(i, j)
    PROVE  i # j /\ ~ Lists!Before(j, i)
BY OrderBy

\* The rows of the first m positions.
Firsts(s, m) == {s[k] : k \in 1 .. m}

\* The first m of n different values are m.
LEMMA FirstOfMany ==
    ASSUME NEW n \in Nat, NEW s, \A k, m \in 1 .. n : k # m => s[k] # s[m], NEW m \in 0 .. n
    PROVE  IsFiniteSet(Firsts(s, m)) /\ Cardinality(Firsts(s, m)) = m
<1> DEFINE firsts == Firsts(s, m)
           f == [k \in 1 .. m |-> s[k]]
<1>1. \A k \in 1 .. m : k \in 1 .. n
  OBVIOUS
<1>2. f \in [1 .. m -> firsts] /\ \A k \in 1 .. m : f[k] = s[k]
  BY DEF Firsts
<1>3. \A k, l \in 1 .. m : k # l => f[k] # f[l]
  BY <1>1, <1>2
<1>4. \A x \in firsts : \E k \in 1 .. m : f[k] = x
  BY <1>2 DEF Firsts
<1>5. f \in Bijection(1 .. m, firsts)
  BY <1>2, <1>3, <1>4 DEF Bijection, Injection, Surjection, IsInjective
<1>6. IsFiniteSet(1 .. m) /\ Cardinality(1 .. m) = m
  <2>1. 1 \in Int /\ m \in Int
    OBVIOUS
  <2>2. IsFiniteSet(1 .. m) /\ Cardinality(1 .. m) = IF 1 > m THEN 0 ELSE m - 1 + 1
    BY <2>1, FS_Interval
  <2> QED
    BY <2>2
<1> QED
  BY <1>5, <1>6, FS_Bijection DEF ExistsBijection

\* Without ties there is one ordering of the list, and the position of a row in
\* it tells which rows come before it.
LEMMA OneOrder ==
    ASSUME WalkInv, Lists!NoTies, NEW s \in Lists!Orders
    PROVE  /\ s \in Seq(Lists!Selected) /\ Len(s) \in Nat
           /\ \A k \in 1 .. Len(s) : s[k] \in Lists!Selected
           /\ \A k, m \in 1 .. Len(s) : k # m => s[k] # s[m]
           /\ \A x \in Lists!Selected : \E k \in 1 .. Len(s) : s[k] = x
           /\ \A k, m \in 1 .. Len(s) : Lists!Before(s[k], s[m]) <=> k < m
<1> DEFINE n == Cardinality(Lists!Selected)
<1>1. /\ s \in [1 .. n -> Lists!Selected]
      /\ \A k, m \in 1 .. n : k # m => s[k] # s[m]
      /\ \A k, m \in 1 .. n : k < m => ~ Lists!Before(s[m], s[k])
  BY OneCardinality DEF Lists!Orders, Lists!SetToSeqs
<1>2. n \in Nat /\ IsFiniteSet(Lists!Selected)
  BY SelectedIsFinite
<1> HIDE DEF n
<1>3. s \in Seq(Lists!Selected) /\ Len(s) = n
  BY <1>1, <1>2
<1>4. \A x \in Lists!Selected : \E k \in 1 .. n : s[k] = x
  <2> DEFINE listed == Firsts(s, n)
  <2>1. n \in 0 .. n
    BY <1>2
  <2>2. Cardinality(listed) = n
    BY <1>1, <1>2, <2>1, FirstOfMany
  <2>3. listed \subseteq Lists!Selected
    BY <1>1 DEF Firsts
  <2>4. listed = Lists!Selected
    BY <1>2, <2>2, <2>3, FS_Subset DEF n
  <2> QED
    BY <2>4 DEF Firsts
<1>5. ASSUME NEW k \in 1 .. n, NEW m \in 1 .. n, k < m
      PROVE  Lists!Before(s[k], s[m])
  <2>1. s[k] # s[m] /\ ~ Lists!Before(s[m], s[k]) /\ s[k] \in Lists!Selected /\ s[m] \in Lists!Selected
    BY <1>1, <1>2, <1>5
  <2> QED
    BY <2>1 DEF Lists!NoTies, Lists!Selected
<1>6. ASSUME NEW k \in 1 .. n, NEW m \in 1 .. n, Lists!Before(s[k], s[m])
      PROVE  k < m
  <2>1. s[k] \in Lists!Ids /\ s[m] \in Lists!Ids
    BY <1>1 DEF Lists!Selected
  <2>2. s[k] # s[m] /\ ~ Lists!Before(s[m], s[k])
    BY <1>6, <2>1, OrderIsStrict
  <2>3. k # m /\ ~ m < k
    BY <1>5, <2>2
  <2> QED
    BY <1>2, <2>3
<1> QED
  BY <1>1, <1>2, <1>3, <1>4, <1>5, <1>6

\* The position of a row counts the rows before it, and no row that has been
\* shown, or comes before one, is further on than there are such rows.
LEMMA Positions ==
    ASSUME WalkInv, Lists!NoTies, NEW s \in Lists!Orders, NEW k \in 1 .. Len(s)
    PROVE  /\ Cardinality(Ahead(s[k])) = k - 1
           /\ s[k] \in Shown => k <= Cardinality(Shown)
<1>1. /\ Len(s) \in Nat
      /\ \A l \in 1 .. Len(s) : s[l] \in Lists!Selected
      /\ \A l, m \in 1 .. Len(s) : l # m => s[l] # s[m]
      /\ \A x \in Lists!Selected : \E l \in 1 .. Len(s) : s[l] = x
      /\ \A l, m \in 1 .. Len(s) : Lists!Before(s[l], s[m]) <=> l < m
  BY OneOrder
<1>2. Cardinality(Firsts(s, k - 1)) = k - 1 /\ Cardinality(Firsts(s, k)) = k
  <2>1. k \in 0 .. Len(s) /\ k - 1 \in 0 .. Len(s)
    BY <1>1
  <2> QED
    BY <1>1, <2>1, FirstOfMany
<1>3. Ahead(s[k]) = Firsts(s, k - 1)
  <2>1. \A l \in 1 .. Len(s) : l < k <=> l \in 1 .. k - 1
    BY <1>1
  <2>2. \A l \in 1 .. k - 1 : l \in 1 .. Len(s)
    BY <1>1
  <2> QED
    BY <1>1, <2>1, <2>2 DEF Ahead, Firsts
<1>4. ASSUME s[k] \in Shown PROVE k <= Cardinality(Shown)
  <2>1. PICK y \in Lists!ToSet(seen) : s[k] = y \/ Lists!Before(s[k], y)
    BY <1>4 DEF Shown
  <2>2. y \in Lists!Ids
    BY DEF WalkInv, Lists!ToSet
  <2>3. ASSUME NEW l \in 1 .. k PROVE s[l] \in Shown
    <3>1. l \in 1 .. Len(s) /\ (l = k \/ l < k)
      BY <1>1
    <3>2. s[l] \in Lists!Selected /\ (l = k \/ Lists!Before(s[l], s[k]))
      BY <1>1, <3>1
    <3>3. l # k /\ s[k] # y => Lists!Before(s[l], y)
      <4>1. s[l] \in Lists!Ids /\ s[k] \in Lists!Ids
        BY <1>1, <3>1 DEF Lists!Selected
      <4>2. ASSUME Lists!Before(s[l], s[k]), Lists!Before(s[k], y) PROVE Lists!Before(s[l], y)
        <5> DEFINE a == s[l]
                   b == s[k]
        <5>1. a \in Lists!Ids /\ b \in Lists!Ids
          BY <4>1
        <5> HIDE DEF a, b
        <5>2. Lists!Before(a, b) /\ Lists!Before(b, y)
          BY <4>2 DEF a, b
        <5>3. Lists!Before(a, y)
          BY <2>2, <5>1, <5>2, OrderBy
        <5> QED
          BY <5>3 DEF a
      <4> QED
        BY <2>1, <3>2, <4>2
    <3> QED
      BY <2>1, <3>2, <3>3 DEF Shown
  <2>4. Firsts(s, k) \subseteq Shown
    BY <2>3 DEF Firsts
  <2>5. IsFiniteSet(Shown)
    <3>1. Shown \subseteq Lists!Selected
      BY DEF Shown
    <3> QED
      BY <3>1, SelectedIsFinite, FS_Subset
  <2> QED
    BY <1>2, <2>4, <2>5, FS_Subset
<1> QED
  BY <1>2, <1>3, <1>4

\* What OFFSET and LIMIT take from a result.
Taken(s, p) == SubSeq(s, Lists!Offset(p) + 1, Lists!Least(Lists!Offset(p) + PageSize, Len(s)))

\* The rows that OFFSET and LIMIT take from a result: up to a full page of those
\* after the first Offset ones, and all of these when the page is not full.
LEMMA PageRows ==
    ASSUME NEW S, NEW s \in Seq(S), NEW p \in Nat \ {0}
    PROVE  /\ Taken(s, p) \in Seq(S) /\ Len(Taken(s, p)) \in 0 .. PageSize
           /\ \A i \in 1 .. Len(Taken(s, p)) : /\ Lists!Offset(p) + i \in 1 .. Len(s)
                                              /\ Taken(s, p)[i] = s[Lists!Offset(p) + i]
           /\ Len(Taken(s, p)) # PageSize => Lists!Offset(p) + Len(Taken(s, p)) >= Len(s)
<1> DEFINE got == Taken(s, p)
           off == Lists!Offset(p)
           last == Lists!Least(off + PageSize, Len(s))
<1>1. off \in Nat /\ PageSize \in Nat \ {0} /\ Len(s) \in Nat
  BY PageAssumption, LenProperties DEF Lists!Offset
<1>2. got = SubSeq(s, off + 1, last)
  BY DEF Taken
<1> HIDE DEF off, got
<1>3. last = (IF off + PageSize < Len(s) THEN off + PageSize ELSE Len(s)) /\ last \in Nat /\ last <= Len(s)
  BY <1>1 DEF Lists!Least
<1> HIDE DEF last
<1>4. \A i \in off + 1 .. last : i \in 1 .. Len(s) /\ s[i] \in S
  <2>1. \A i \in off + 1 .. last : i \in 1 .. Len(s)
    BY <1>1, <1>3
  <2> QED
    BY <2>1, ElementOfSeq
<1>5. /\ got \in Seq(S)
      /\ Len(got) = IF off + 1 <= last THEN last - (off + 1) + 1 ELSE 0
      /\ \A i \in 1 .. last - (off + 1) + 1 : got[i] = s[off + 1 + i - 1]
  <2> DEFINE lo == off + 1
  <2>1. lo \in Int /\ last \in Int /\ \A i \in lo .. last : s[i] \in S
    BY <1>1, <1>3, <1>4
  <2> HIDE DEF lo
  <2>2. /\ SubSeq(s, lo, last) \in Seq(S)
        /\ Len(SubSeq(s, lo, last)) = IF lo <= last THEN last - lo + 1 ELSE 0
        /\ \A i \in 1 .. last - lo + 1 : SubSeq(s, lo, last)[i] = s[lo + i - 1]
    BY <2>1, SubSeqProperties
  <2> QED
    BY <1>2, <2>2 DEF lo
<1>6. Len(got) \in 0 .. PageSize /\ (Len(got) # PageSize => off + Len(got) >= Len(s))
  BY <1>1, <1>3, <1>5
<1>7. ASSUME NEW i \in 1 .. Len(got) PROVE off + i \in 1 .. Len(s) /\ got[i] = s[off + i]
  <2>1. i \in 1 .. last - (off + 1) + 1 /\ off + 1 + i - 1 = off + i /\ off + i \in 1 .. Len(s)
    BY <1>1, <1>3, <1>5
  <2> QED
    BY <1>5, <2>1
<1> QED
  BY <1>5, <1>6, <1>7 DEF off, got

\* A page that is read keeps both halves of the invariant.
LEMMA RowsStep == WalkInv /\ Lists!Rows => WalkInv'
<1> SUFFICES ASSUME WalkInv, Lists!Rows PROVE WalkInv'
  OBVIOUS
<1> DEFINE off == Lists!Offset(page)
<1>1. PICK s \in Lists!Orders :
        /\ walkPc = "rows"
        /\ items' = SubSeq(s, off + 1, Lists!Least(off + PageSize, Len(s)))
        /\ seen' = seen \o items'
        /\ \/ Len(items') = PageSize /\ walkPc' = "count" /\ page' = page + 1
           \/ Len(items') # PageSize /\ walkPc' = "done" /\ page' = page
        /\ UNCHANGED <<list, date, row, entered, left, tied, first>>
  BY DEF Lists!Rows
<1> DEFINE got == items'
<1>2. /\ page \in Nat \ {0} /\ seen \in Seq(Lists!Ids) /\ Len(seen) = off
      /\ off \in Nat /\ PageSize \in Nat \ {0}
  BY <1>1, PageAssumption DEF WalkInv, Lists!Offset
<1>3. s \in Seq(Lists!Selected)
  <2>1. s \in [1 .. Cardinality(Lists!Selected) -> Lists!Selected]
    BY OneCardinality DEF Lists!Orders, Lists!SetToSeqs
  <2> QED
    BY <2>1, SelectedIsFinite
<1>4. /\ got \in Seq(Lists!Selected) /\ Len(got) \in 0 .. PageSize /\ Len(got) \in Nat
      /\ \A i \in 1 .. Len(got) : off + i \in 1 .. Len(s) /\ got[i] = s[off + i]
      /\ Len(got) # PageSize => off + Len(got) >= Len(s)
  <2>1. got = Taken(s, page)
    BY <1>1 DEF Taken
  <2> HIDE DEF got
  <2>2. /\ got \in Seq(Lists!Selected) /\ Len(got) \in 0 .. PageSize
        /\ \A i \in 1 .. Len(got) : off + i \in 1 .. Len(s) /\ got[i] = s[off + i]
        /\ Len(got) # PageSize => off + Len(got) >= Len(s)
    BY <1>2, <1>3, <2>1, PageRows
  <2> QED
    BY <1>2, <2>2
<1>5. /\ seen' \in Seq(Lists!Ids) /\ Len(seen') = off + Len(got)
      /\ \A k \in 1 .. off + Len(got) : seen'[k] = IF k <= off THEN seen[k] ELSE got[k - off]
  <2>1. got \in Seq(Lists!Ids)
    BY <1>4 DEF Lists!Selected
  <2>2. /\ seen \o got \in Seq(Lists!Ids) /\ Len(seen \o got) = Len(seen) + Len(got)
        /\ \A k \in 1 .. Len(seen) + Len(got) :
              (seen \o got)[k] = IF k <= Len(seen) THEN seen[k] ELSE got[k - Len(seen)]
    BY <1>2, <2>1, ConcatProperties
  <2> QED
    BY <1>1, <1>2, <2>2
<1>6. walkPc' # "done" => Len(seen') = Lists!Offset(page')
  <2>1. ASSUME walkPc' # "done" PROVE Len(seen') = off + PageSize /\ page' = page + 1
    BY <1>1, <1>5, <2>1
  <2>2. Lists!Offset(page + 1) = off + PageSize
    BY <1>2 DEF Lists!Offset
  <2> QED
    BY <2>1, <2>2 DEF Lists!Offset
<1> HIDE DEF off
<1>7. DOMAIN seen = 1 .. off /\ DOMAIN got = 1 .. Len(got) /\ DOMAIN seen' = 1 .. off + Len(got)
  BY <1>2, <1>4, <1>5, LenProperties
<1>8. /\ \A k \in 1 .. off : k \in 1 .. off + Len(got) /\ seen'[k] = seen[k]
      /\ \A i \in 1 .. Len(got) : off + i \in 1 .. off + Len(got) /\ seen'[off + i] = got[i]
      /\ \A k \in 1 .. off + Len(got) : k \in 1 .. off \/ (k - off \in 1 .. Len(got) /\ seen'[k] = got[k - off])
  BY <1>2, <1>4, <1>5
<1>9. /\ Lists!ToSet(seen) \subseteq Lists!ToSet(seen)'
      /\ \A i \in 1 .. Len(got) : got[i] \in Lists!ToSet(seen)'
      /\ \A y \in Lists!ToSet(seen)' : y \in Lists!ToSet(seen) \/ \E i \in 1 .. Len(got) : y = got[i]
  BY <1>7, <1>8 DEF Lists!ToSet
<1>10. /\ UNCHANGED Lists!Selected /\ UNCHANGED Lists!NoTies
       /\ \A x, y : Lists!Before(x, y)' = Lists!Before(x, y)
       /\ \A x : Ahead(x)' = Ahead(x)
  BY <1>1 DEF Lists!Selected, Lists!NoTies, Lists!Before, Ahead
<1>11. ASSUME ~ tied
       PROVE  /\ Len(s) \in Nat
              /\ \A k \in 1 .. Len(s) : s[k] \in Lists!Selected
              /\ \A k, m \in 1 .. Len(s) : k # m => s[k] # s[m]
              /\ \A x \in Lists!Selected : \E k \in 1 .. Len(s) : s[k] = x
              /\ \A k, m \in 1 .. Len(s) : Lists!Before(s[k], s[m]) <=> k < m
              /\ \A k \in 1 .. Len(s) : /\ Cardinality(Ahead(s[k])) = k - 1
                                        /\ s[k] \in Shown => k <= Cardinality(Shown)
  <2>1. Lists!NoTies
    BY <1>11 DEF WalkInv
  <2> QED
    BY <2>1, OneOrder, Positions
<1>12. ASSUME ~ entered, ~ tied PROVE NoneAgain'
  <2>1. Cardinality(Shown) <= off /\ \A k, m \in 1 .. off : seen[k] = seen[m] => k = m
    BY <1>2, <1>7, <1>12 DEF WalkInv, NoneAgain
  <2>2. \A k \in 1 .. Len(s) : s[k] \in Shown => k <= off
    <3>1. Cardinality(Shown) \in Nat
      <4>1. Shown \subseteq Lists!Selected
        BY DEF Shown
      <4> QED
        BY <4>1, SelectedIsFinite, FS_Subset, FS_CardinalityType
    <3> QED
      BY <1>2, <1>11, <1>12, <2>1, <3>1
  <2>3. ASSUME NEW i \in 1 .. Len(got) PROVE got[i] \notin Lists!ToSet(seen)
    <3>1. off + i \in 1 .. Len(s) /\ got[i] = s[off + i] /\ ~ (off + i <= off)
      BY <1>2, <1>4
    <3>2. got[i] \in Lists!Selected /\ got[i] \notin Shown
      BY <1>11, <1>12, <2>2, <3>1
    <3> QED
      BY <3>2 DEF Shown
  <2>4. \A i, j \in 1 .. Len(got) : got[i] = got[j] => i = j
    <3> SUFFICES ASSUME NEW i \in 1 .. Len(got), NEW j \in 1 .. Len(got), got[i] = got[j] PROVE i = j
      OBVIOUS
    <3>1. /\ off + i \in 1 .. Len(s) /\ got[i] = s[off + i]
          /\ off + j \in 1 .. Len(s) /\ got[j] = s[off + j]
      BY <1>4
    <3>2. off + i = off + j
      BY <1>11, <1>12, <3>1
    <3> QED
      BY <1>2, <1>4, <3>2
  <2>5. ASSUME NEW k \in 1 .. off + Len(got), NEW m \in 1 .. off + Len(got), seen'[k] = seen'[m]
        PROVE  k = m
    <3>1. CASE k \in 1 .. off /\ m \in 1 .. off
      BY <1>8, <2>1, <2>5, <3>1
    <3>2. CASE k \in 1 .. off /\ m \notin 1 .. off
      <4>1. m - off \in 1 .. Len(got) /\ seen'[m] = got[m - off]
        BY <1>8, <3>2
      <4>2. seen'[k] \in Lists!ToSet(seen)
        BY <1>7, <1>8, <3>2 DEF Lists!ToSet
      <4> QED
        BY <2>3, <2>5, <4>1, <4>2
    <3>3. CASE k \notin 1 .. off /\ m \in 1 .. off
      <4>1. k - off \in 1 .. Len(got) /\ seen'[k] = got[k - off]
        BY <1>8, <3>3
      <4>2. seen'[m] \in Lists!ToSet(seen)
        BY <1>7, <1>8, <3>3 DEF Lists!ToSet
      <4> QED
        BY <2>3, <2>5, <4>1, <4>2
    <3>4. CASE k \notin 1 .. off /\ m \notin 1 .. off
      <4>1. /\ k - off \in 1 .. Len(got) /\ seen'[k] = got[k - off]
            /\ m - off \in 1 .. Len(got) /\ seen'[m] = got[m - off]
        BY <1>8, <3>4
      <4>2. k - off = m - off
        BY <2>4, <2>5, <4>1
      <4> QED
        BY <1>2, <1>4, <4>2
    <3> QED
      BY <3>1, <3>2, <3>3, <3>4
  <2>6. Cardinality(Shown') <= off + Len(got)
    <3> DEFINE m == IF off + Len(got) <= Len(s) THEN off + Len(got) ELSE Len(s)
    <3>1. m \in 0 .. Len(s) /\ m <= off + Len(got) /\ \A k \in 1 .. Len(s) : k <= off + Len(got) => k \in 1 .. m
      BY <1>2, <1>4, <1>11, <1>12
    <3> HIDE DEF m
    <3>2. ASSUME NEW x \in Shown' PROVE x \in Firsts(s, m)
      <4>1. PICK y \in Lists!ToSet(seen)' : x = y \/ Lists!Before(x, y)
        BY <1>10, <3>2 DEF Shown
      <4>2. x \in Lists!Selected
        BY <1>10, <3>2 DEF Shown
      <4>3. PICK k \in 1 .. Len(s) : s[k] = x
        BY <1>11, <1>12, <4>2
      <4>4. CASE y \in Lists!ToSet(seen)
        <5>1. x \in Shown
          BY <4>1, <4>2, <4>4 DEF Shown
        <5>2. k <= off
          BY <2>2, <4>3, <5>1
        <5> QED
          BY <1>2, <1>4, <3>1, <4>3, <5>2 DEF Firsts
      <4>5. CASE \E i \in 1 .. Len(got) : y = got[i]
        <5>1. PICK i \in 1 .. Len(got) : y = s[off + i] /\ off + i \in 1 .. Len(s)
          BY <1>4, <4>5
        <5>2. k = off + i \/ k < off + i
          BY <1>11, <1>12, <4>1, <4>3, <5>1
        <5>3. k <= off + Len(got)
          BY <1>2, <1>4, <5>1, <5>2
        <5> QED
          BY <3>1, <4>3, <5>3 DEF Firsts
      <4> QED
        BY <1>9, <4>1, <4>4, <4>5
    <3>3. IsFiniteSet(Firsts(s, m)) /\ Cardinality(Firsts(s, m)) = m
      BY <1>11, <1>12, <3>1, FirstOfMany
    <3>4. Shown' \subseteq Firsts(s, m)
      BY <3>2
    <3>5. Cardinality(Shown') <= m /\ Cardinality(Shown') \in Nat
      BY <3>3, <3>4, FS_Subset, FS_CardinalityType
    <3> QED
      BY <1>2, <1>4, <1>11, <1>12, <3>1, <3>5
  <2> QED
    BY <1>5, <1>7, <2>5, <2>6 DEF NoneAgain
<1>13. ASSUME ~ left, ~ tied PROVE NoneMissed'
  <2>1. /\ first \subseteq Lists!Selected
        /\ \A x \in first \ Lists!ToSet(seen) : Cardinality(Ahead(x)) >= off
    BY <1>1, <1>2, <1>13 DEF WalkInv, NoneMissed
  <2>2. ASSUME NEW x \in first, x \notin Lists!ToSet(seen)'
        PROVE  Cardinality(Ahead(x)) >= off + Len(got) /\ Len(got) = PageSize
    <3>1. PICK k \in 1 .. Len(s) : s[k] = x
      BY <1>11, <1>13, <2>1
    <3>2. k - 1 >= off /\ Cardinality(Ahead(x)) = k - 1
      BY <1>9, <1>11, <1>13, <2>1, <2>2, <3>1
    <3>3. ~ k <= off + Len(got)
      <4>1. SUFFICES ASSUME k <= off + Len(got) PROVE FALSE
        OBVIOUS
      <4>2. k - off \in 1 .. Len(got) /\ off + (k - off) = k
        BY <1>2, <1>4, <1>11, <1>13, <3>2, <4>1
      <4>3. got[k - off] = x
        BY <1>4, <3>1, <4>2
      <4> QED
        BY <1>9, <2>2, <4>2, <4>3
    <3> QED
      BY <1>2, <1>4, <1>11, <1>13, <3>2, <3>3
  <2>3. UNCHANGED first
    BY <1>1
  <2>4. first' \subseteq Lists!Selected'
    BY <1>10, <2>1, <2>3
  <2>5. walkPc' # "done" => \A x \in first' \ Lists!ToSet(seen)' : Cardinality(Ahead(x)') >= Len(seen')
    BY <1>5, <1>10, <2>2, <2>3
  <2>6. walkPc' = "done" => first' \subseteq Lists!ToSet(seen)'
    BY <1>1, <2>2, <2>3
  <2> QED
    BY <2>4, <2>5, <2>6 DEF NoneMissed
<1>14. /\ UNCHANGED <<list, date, row, first>> /\ page' \in Nat \ {0}
       /\ (~ entered' <=> ~ entered) /\ (~ left' <=> ~ left) /\ (~ tied' <=> ~ tied)
  BY <1>1, <1>2
<1> QED
  BY <1>5, <1>6, <1>10, <1>12, <1>13, <1>14 DEF WalkInv

\* The rows of a list, before and after a step, can be counted.
LEMMA PartsAreFinite ==
    ASSUME NEW T, T \subseteq Lists!Selected \/ T \subseteq Lists!Selected'
    PROVE  IsFiniteSet(T) /\ Cardinality(T) \in Nat
<1>1. IsFiniteSet(1 .. MaxId)
  BY PageAssumption, FS_Interval
<1>2. Lists!Selected \subseteq 1 .. MaxId /\ Lists!Selected' \subseteq 1 .. MaxId
  BY DEF Lists!Selected, Lists!Ids
<1> QED
  BY <1>1, <1>2, FS_Subset, FS_CardinalityType

\* When no row joins those shown, none is shown again.
LEMMA FewerShown ==
    ASSUME WalkInv, UNCHANGED seen, Shown' \subseteq Shown, NoneAgain
    PROVE  NoneAgain'
<1>1. Shown \subseteq Lists!Selected
  BY DEF Shown
<1>2. IsFiniteSet(Shown) /\ Cardinality(Shown) \in Nat
  BY <1>1, PartsAreFinite
<1>3. Cardinality(Shown') <= Cardinality(Shown) /\ Cardinality(Shown') \in Nat
  BY <1>2, FS_Subset, FS_CardinalityType
<1>4. Len(seen) \in Nat
  BY LenProperties DEF WalkInv
<1>5. Cardinality(Shown') <= Len(seen)
  BY <1>2, <1>3, <1>4 DEF NoneAgain
<1> QED
  BY <1>5 DEF NoneAgain

\* When no row leaves and those there at first keep the rows before them, none
\* is missed.
LEMMA MoreAhead ==
    ASSUME WalkInv, UNCHANGED <<walkPc, seen, first>>, Lists!Selected \subseteq Lists!Selected',
           \A x \in first : Ahead(x) \subseteq Ahead(x)', NoneMissed
    PROVE  NoneMissed'
<1>1. Lists!ToSet(seen)' = Lists!ToSet(seen)
  BY DEF Lists!ToSet
<1>2. ASSUME NEW x \in first, Cardinality(Ahead(x)) >= Len(seen)
      PROVE  Cardinality(Ahead(x)') >= Len(seen)
  <2>1. Ahead(x) \subseteq Lists!Selected /\ Ahead(x)' \subseteq Lists!Selected'
    BY DEF Ahead
  <2> DEFINE before == Ahead(x)
             after == Ahead(x)'
  <2>2. /\ before \subseteq after /\ IsFiniteSet(after) /\ Cardinality(after) \in Nat
        /\ Cardinality(before) \in Nat
    BY <2>1, PartsAreFinite
  <2> HIDE DEF before, after
  <2>3. Cardinality(before) <= Cardinality(after)
    BY <2>2, FS_Subset
  <2>4. Len(seen) \in Nat
    BY LenProperties DEF WalkInv
  <2> QED
    BY <1>2, <2>2, <2>3, <2>4 DEF before, after
<1> QED
  BY <1>1, <1>2 DEF NoneMissed

\* The writers that leave the order alone keep the invariant.
LEMMA WritersStep ==
    ASSUME WalkInv, NEW i \in Lists!Ids, Lists!Insert(i) \/ Lists!Enter(i) \/ Lists!Leave(i)
    PROVE  WalkInv'
<1>1. PICK cell : row' = [row EXCEPT ![i] = cell]
  BY DEF Lists!Insert, Lists!Enter, Lists!Leave
<1>2. UNCHANGED <<list, date, page, walkPc, seen, first>>
  BY DEF Lists!Insert, Lists!Enter, Lists!Leave, Lists!walk
<1>3. /\ row' = [j \in Lists!Ids |-> row'[j]] /\ row'[i] = cell
      /\ \A j \in Lists!Ids : j # i => row'[j] = row[j]
  BY <1>1 DEF WalkInv
<1>4. /\ \A x, y : Lists!Before(x, y)' = Lists!Before(x, y)
      /\ Lists!ToSet(seen)' = Lists!ToSet(seen) /\ Lists!Offset(page)' = Lists!Offset(page)
  BY <1>2 DEF Lists!Before, Lists!ToSet, Lists!Offset
<1>5. (~ tied' => ~ tied) /\ (~ tied' => Lists!NoTies')
  <2>1. ASSUME Lists!Insert(i) PROVE (~ tied' => ~ tied) /\ (~ tied' => Lists!NoTies')
    BY <2>1, Zenon DEF Lists!Insert
  <2>2. ASSUME Lists!Enter(i) \/ Lists!Leave(i), ~ tied'
        PROVE  ~ tied /\ Lists!NoTies'
    <3>1. /\ tied' = tied /\ row[i] # "unborn"
      BY <2>2 DEF Lists!Enter, Lists!Leave
    <3>2. Lists!NoTies
      BY <2>2, <3>1 DEF WalkInv
    <3>3. ASSUME NEW a \in Lists!Ids, NEW b \in Lists!Ids,
                 a # b, "unborn" \notin {row[a], row[b]}'
          PROVE  Lists!Before(a, b)' \/ Lists!Before(b, a)'
      <4>1. row[a] # "unborn" /\ row[b] # "unborn"
        BY <1>3, <3>1, <3>3
      <4> QED
        BY <1>4, <3>2, <3>3, <4>1 DEF Lists!NoTies
    <3> QED
      BY <2>2, <3>1, <3>3 DEF Lists!NoTies
  <2> QED
    BY <2>1, <2>2
<1>6. /\ Lists!Insert(i) => Shown' \subseteq Shown /\ Lists!Selected \subseteq Lists!Selected' /\ UNCHANGED <<entered, left>>
      /\ Lists!Leave(i) => Shown' \subseteq Shown /\ left' = TRUE /\ UNCHANGED entered
  <2>1. ASSUME Lists!Insert(i) PROVE Lists!Selected' = Lists!Selected /\ UNCHANGED <<entered, left>>
    BY <1>3, <2>1 DEF Lists!Insert, Lists!Selected, WalkInv
  <2>2. ASSUME Lists!Leave(i) PROVE Lists!Selected' \subseteq Lists!Selected /\ left' = TRUE /\ UNCHANGED entered
    <3>1. row[i] = "in" /\ left' = TRUE /\ UNCHANGED entered
      BY <2>2 DEF Lists!Leave
    <3> QED
      BY <1>3, <3>1 DEF Lists!Selected
  <2>3. Lists!Selected' \subseteq Lists!Selected => Shown' \subseteq Shown
    BY <1>4 DEF Shown
  <2> QED
    BY <2>1, <2>2, <2>3
<1>7. ASSUME Lists!Enter(i)
      PROVE  /\ Lists!Selected \subseteq Lists!Selected' /\ UNCHANGED left
             /\ ~ entered' => ~ entered /\ Shown' \subseteq Shown
  <2>1. /\ row' = [row EXCEPT ![i] = "in"] /\ UNCHANGED left
        /\ entered' = (entered \/ \E x \in Lists!ToSet(seen) : ~ Lists!Before(x, i))
    BY <1>7 DEF Lists!Enter
  <2>2. Lists!Selected' = Lists!Selected \cup {i}
    BY <2>1 DEF Lists!Selected, WalkInv
  <2>3. ASSUME ~ entered' PROVE ~ entered /\ \A x \in Lists!ToSet(seen) : Lists!Before(x, i)
    BY <2>1, <2>3, Zenon
  <2>4. ASSUME ~ entered', NEW x \in Shown' PROVE x \in Shown
    <3>1. PICK y \in Lists!ToSet(seen) : x = y \/ Lists!Before(x, y)
      BY <1>4, <2>4 DEF Shown
    <3>2. y \in Lists!Ids /\ Lists!Before(y, i)
      BY <2>3, <2>4 DEF WalkInv, Lists!ToSet
    <3>3. y # i /\ ~ Lists!Before(i, y)
      BY <3>2, OrderIsStrict
    <3>4. x \in Lists!Selected
      BY <2>2, <2>4, <3>1, <3>3 DEF Shown
    <3> QED
      BY <3>1, <3>4 DEF Shown
  <2> QED
    BY <2>1, <2>2, <2>3, <2>4
<1>8. ASSUME ~ entered', ~ tied' PROVE NoneAgain'
  <2>1. ~ entered /\ Shown' \subseteq Shown
    BY <1>6, <1>7, <1>8
  <2>2. NoneAgain
    BY <1>5, <1>8, <2>1 DEF WalkInv
  <2> QED
    BY <1>2, <2>1, <2>2, FewerShown
<1>9. ASSUME ~ left', ~ tied' PROVE NoneMissed'
  <2>1. ~ left /\ Lists!Selected \subseteq Lists!Selected'
    BY <1>6, <1>7, <1>9
  <2>2. NoneMissed
    BY <1>5, <1>9, <2>1 DEF WalkInv
  <2>3. \A x : Ahead(x) \subseteq Ahead(x)'
    BY <1>4, <2>1 DEF Ahead
  <2> QED
    BY <1>2, <2>1, <2>2, <2>3, MoreAhead
<1> QED
  BY <1>2, <1>3, <1>4, <1>5, <1>8, <1>9 DEF WalkInv

\* So does a PATCH of a holiday's day: when no row shown is behind its new place
\* none can be shown again by it, and when it is not in the list none is missed.
LEMMA MoveStep ==
    ASSUME WalkInv, NEW i \in Lists!Ids, Lists!Move(i)
    PROVE  WalkInv'
<1>1. PICK d \in Nat : date' = [date EXCEPT ![i] = d]
  BY PageAssumption DEF Lists!Move
<1>2. /\ UNCHANGED <<list, row, page, walkPc, seen, first>> /\ list.order = "date"
      /\ left' = (left \/ row[i] = "in")
      /\ entered' = (entered \/ \E x \in Lists!ToSet(seen) : ~ Lists!Before(x, i)')
      /\ tied' = (tied \/ ~ Lists!NoTies')
  BY DEF Lists!Move, Lists!walk
<1>3. /\ date' \in [Lists!Ids -> Nat] /\ date'[i] = d
      /\ \A j \in Lists!Ids : j # i => date'[j] = date[j]
  BY <1>1 DEF WalkInv
<1>4. ASSUME NEW a \in Lists!Ids, NEW b \in Lists!Ids
      PROVE  /\ Lists!Before(a, b) <=> date[a] < date[b]
             /\ Lists!Before(a, b)' <=> date'[a] < date'[b]
             /\ a # i /\ b # i => (Lists!Before(a, b)' <=> Lists!Before(a, b))
             /\ Lists!Before(a, b)' => ~ Lists!Before(b, a)'
  <2>1. (Lists!Before(a, b) <=> date[a] < date[b]) /\ (Lists!Before(a, b)' <=> date'[a] < date'[b])
        /\ (Lists!Before(b, a)' <=> date'[b] < date'[a])
    BY <1>2 DEF Lists!Before
  <2>2. date'[a] \in Nat /\ date'[b] \in Nat
    BY <1>3
  <2> QED
    BY <1>3, <2>1, <2>2
<1>5. /\ Lists!Selected' = Lists!Selected /\ Lists!ToSet(seen)' = Lists!ToSet(seen)
      /\ Lists!Offset(page)' = Lists!Offset(page)
      /\ Lists!ToSet(seen) \subseteq Lists!Ids /\ Lists!Selected \subseteq Lists!Ids
  BY <1>2 DEF Lists!Selected, Lists!ToSet, Lists!Offset, WalkInv
<1>6. (~ tied' => ~ tied) /\ (~ tied' => Lists!NoTies')
  BY <1>2, Zenon
<1>7. ASSUME ~ entered', ~ tied' PROVE NoneAgain'
  <2>1. ~ entered /\ \A x \in Lists!ToSet(seen) : Lists!Before(x, i)'
    BY <1>2, <1>7, Zenon
  <2>2. ASSUME NEW x \in Shown' PROVE x \in Shown
    <3>1. x \in Lists!Selected /\ \E y \in Lists!ToSet(seen) : x = y \/ Lists!Before(x, y)'
      BY <1>5, <2>2 DEF Shown
    <3>2. PICK y \in Lists!ToSet(seen) : x = y \/ Lists!Before(x, y)'
      BY <3>1
    <3>3. /\ x \in Lists!Ids /\ y \in Lists!Ids /\ Lists!Before(y, i)'
      BY <1>5, <2>1, <3>1
    <3>4. y # i
      BY <1>4, <3>3
    <3>5. x = i => FALSE
      BY <1>4, <3>2, <3>3, <3>4
    <3>6. x = y \/ Lists!Before(x, y)
      BY <1>4, <3>2, <3>3, <3>4, <3>5
    <3> QED
      BY <3>1, <3>6 DEF Shown
  <2>3. NoneAgain
    BY <1>6, <1>7, <2>1 DEF WalkInv
  <2> QED
    BY <1>2, <2>2, <2>3, FewerShown
<1>8. ASSUME ~ left', ~ tied' PROVE NoneMissed'
  <2>1. ~ left /\ row[i] # "in"
    BY <1>2, <1>8, Zenon
  <2>2. NoneMissed
    BY <1>6, <1>8, <2>1 DEF WalkInv
  <2>3. i \notin Lists!Selected /\ first \subseteq Lists!Selected
    BY <2>1, <2>2 DEF Lists!Selected, NoneMissed
  <2>4. ASSUME NEW x \in first, NEW y \in Ahead(x) PROVE y \in Ahead(x)'
    <3>1. y \in Lists!Selected /\ Lists!Before(y, x) /\ x # i /\ y # i /\ x \in Lists!Ids /\ y \in Lists!Ids
      BY <1>5, <2>3, <2>4 DEF Ahead
    <3>2. Lists!Before(y, x)'
      BY <1>4, <3>1
    <3> QED
      BY <1>2, <1>5, <3>1, <3>2 DEF Ahead
  <2> QED
    BY <1>2, <1>5, <2>2, <2>4, MoreAhead
<1> QED
  BY <1>2, <1>3, <1>5, <1>6, <1>7, <1>8 DEF WalkInv

\* So does the count statement, and a step of anything else.
LEMMA CountStep == WalkInv /\ (Lists!Count \/ UNCHANGED Lists!vars) => WalkInv'
<1> SUFFICES ASSUME WalkInv, Lists!Count \/ UNCHANGED Lists!vars PROVE WalkInv'
  OBVIOUS
<1>1. /\ UNCHANGED <<list, date, row, page, seen, entered, left, tied, first>>
      /\ walkPc' = walkPc \/ (walkPc = "count" /\ walkPc' = "rows")
  BY DEF Lists!Count, Lists!vars, Lists!walk
<1>2. /\ UNCHANGED Lists!NoTies /\ UNCHANGED Shown /\ UNCHANGED Lists!Selected
      /\ UNCHANGED Lists!ToSet(seen) /\ UNCHANGED Lists!Offset(page)
      /\ \A x : Ahead(x)' = Ahead(x)
  BY <1>1 DEF Lists!NoTies, Shown, Ahead, Lists!Selected, Lists!Before, Lists!ToSet, Lists!Offset
<1>3. NoneAgain => NoneAgain'
  BY <1>1, <1>2 DEF NoneAgain
<1>4. NoneMissed => NoneMissed'
  BY <1>1, <1>2 DEF NoneMissed
<1> QED
  BY <1>1, <1>2, <1>3, <1>4 DEF WalkInv

\* The inductive invariant of the walk.
LEMMA WalkInvariance == MCSpec => []WalkInv
<1>1. Lists!Init => WalkInv
  <2> SUFFICES ASSUME Lists!Init PROVE WalkInv
    OBVIOUS
  <2>1. /\ list \in {Lists!CampaignList, Lists!RoleConfigList, Lists!LeadList, Lists!CallList,
                     Lists!VersionList, Lists!HolidayList}
        /\ page = 1 /\ seen = <<>> /\ walkPc = "count" /\ first = Lists!Selected
        /\ row \in [Lists!Ids -> {"in", "out", "unborn"}]
        /\ tied = ~ Lists!NoTies
    BY DEF Lists!Init
  <2>2. list.order \in {"up", "down", "date"}
    BY <2>1 DEF Lists!CampaignList, Lists!RoleConfigList, Lists!LeadList, Lists!CallList,
                Lists!VersionList, Lists!HolidayList
  <2>3. date \in [Lists!Ids -> Nat]
    <3>1. date = [i \in Lists!Ids |-> 0] \/ date \in Lists!SetToSeqs(Lists!Ids)
      BY DEF Lists!Init
    <3>2. Lists!Cardinality(Lists!Ids) = MaxId
      <4>1. 1 \in Int /\ MaxId \in Int /\ MaxId \in Nat
        BY PageAssumption
      <4>2. Cardinality(1 .. MaxId) = IF 1 > MaxId THEN 0 ELSE MaxId - 1 + 1
        BY <4>1, FS_Interval
      <4>3. Cardinality(1 .. MaxId) = MaxId
        BY <4>1, <4>2
      <4> QED
        BY <4>3, OneCardinality DEF Lists!Ids
    <3>3. date \in Lists!SetToSeqs(Lists!Ids) => date \in [Lists!Ids -> Lists!Ids]
      BY <3>2 DEF Lists!SetToSeqs, Lists!Ids
    <3> QED
      BY <3>1, <3>3 DEF Lists!Ids
  <2>4. Lists!Offset(1) = 0 /\ Len(seen) = 0 /\ Lists!ToSet(seen) = {} /\ DOMAIN seen = {}
    BY <2>1, PageAssumption DEF Lists!Offset, Lists!ToSet
  <2>5. NoneAgain
    <3>1. Shown = {}
      BY <2>4 DEF Shown
    <3>2. Cardinality(Shown) = 0
      BY <3>1, FS_EmptySet
    <3> QED
      BY <2>4, <3>2 DEF NoneAgain
  <2>6. NoneMissed
    <3>1. \A x : Cardinality(Ahead(x)) \in Nat
      <4>1. \A x : Ahead(x) \subseteq Lists!Selected
        BY DEF Ahead
      <4> QED
        BY <4>1, SelectedIsFinite, FS_Subset, FS_CardinalityType
    <3> QED
      BY <2>1, <2>4, <3>1 DEF NoneMissed
  <2>7. /\ row = [i \in Lists!Ids |-> row[i]] /\ page \in Nat \ {0}
        /\ seen \in Seq(Lists!Ids) /\ first \subseteq Lists!Ids
    BY <2>1 DEF Lists!Selected
  <2> QED
    BY <2>1, <2>2, <2>3, <2>4, <2>5, <2>6, <2>7 DEF WalkInv
<1>2. WalkInv /\ [Lists!Next]_(Lists!vars) => WalkInv'
  BY RowsStep, WritersStep, MoveStep, CountStep DEF Lists!Next
<1> QED
  BY <1>1, <1>2, RunsAlone, PTL DEF Lists!Spec

\* A walk over the pages of a list shows every row that was in it when it began
\* unless rows leave it or are given another place, and none twice unless one
\* comes in or is moved ahead, as far as the ORDER BY decides: for lists, pages and numbers of changes of any size.
THEOREM WalksAreExact == MCSpec => []WalkIsExact
<1>1. WalkInv => WalkIsExact
  BY DEF WalkInv, NoneAgain, NoneMissed, WalkIsExact, Lists!WalkIsExact, Lists!NoRowSkipped, Lists!NoRowTwice
<1> QED
  BY <1>1, WalkInvariance, PTL

-----------------------------------------------------------------------------
(* GET /analytics.                                                         *)

CallRecords == [created : Nat, campaign : Campaigns, started : BOOLEAN,
                duration : Durations \cup {Null},
                goal : {"no summary", "null", "achieved", "missed"}]

\* A call lasts once it was answered, and is summarised once it has ended.
Progressed == {call \in CallRecords : /\ call.duration # Null => call.started
                                      /\ call.goal # "no summary" => call.duration # Null}

\* The call records are a list that only grows.
CallsInv == now \in Nat /\ calls \in Seq(Progressed)

\* Dialling, a call's progress and the clock keep this.
LEMMA CallsStep == CallsInv /\ [MCNext]_allVars => CallsInv'
<1> SUFFICES ASSUME CallsInv, [MCNext]_allVars PROVE CallsInv'
  OBVIOUS
<1>1. ASSUME NEW i \in DOMAIN calls, NEW call \in Progressed, calls' = [calls EXCEPT ![i] = call], now' = now
      PROVE  CallsInv'
  <2>1. i \in 1 .. Len(calls)
    BY LenProperties DEF CallsInv
  <2> QED
    BY <1>1, <2>1, ExceptSeq DEF CallsInv
<1>2. ASSUME NEW c \in Campaigns, Reports!Dial(c) PROVE CallsInv'
  <2> DEFINE call == [created |-> now, campaign |-> c, started |-> FALSE,
                      duration |-> Null, goal |-> "no summary"]
  <2>1. call \in Progressed
    BY <1>2 DEF CallsInv, CallRecords, Progressed
  <2>2. calls' = Append(calls, call) /\ now' = now
    BY <1>2 DEF Reports!Dial
  <2> QED
    BY <2>1, <2>2, AppendProperties DEF CallsInv
<1>3. ASSUME NEW i \in DOMAIN calls PROVE calls[i] \in Progressed
  BY LenProperties, ElementOfSeq DEF CallsInv
<1>4. ASSUME NEW i \in DOMAIN calls, Reports!Connect(i) PROVE CallsInv'
  <2>1. calls' = [calls EXCEPT ![i] = [calls[i] EXCEPT !.started = TRUE]] /\ now' = now
    BY <1>4, Zenon DEF Reports!Connect
  <2>2. [calls[i] EXCEPT !.started = TRUE] \in Progressed
    BY <1>3, <1>4 DEF Progressed, Reports!Connect, CallRecords
  <2> QED
    BY <1>1, <2>1, <2>2
<1>5. ASSUME NEW i \in DOMAIN calls, NEW d \in Durations, Reports!HangUp(i, d) PROVE CallsInv'
  <2>1. calls' = [calls EXCEPT ![i] = [calls[i] EXCEPT !.duration = d]] /\ now' = now
    BY <1>5, Zenon DEF Reports!HangUp
  <2>2. [calls[i] EXCEPT !.duration = d] \in Progressed
    BY <1>3, <1>5 DEF Progressed, Reports!HangUp, CallRecords
  <2> QED
    BY <1>1, <2>1, <2>2
<1>6. ASSUME NEW i \in DOMAIN calls, NEW goal \in {"null", "achieved", "missed"}, Reports!Summarise(i, goal)
      PROVE  CallsInv'
  <2>1. calls' = [calls EXCEPT ![i] = [calls[i] EXCEPT !.goal = goal]] /\ now' = now
    BY <1>6, Zenon DEF Reports!Summarise
  <2>2. [calls[i] EXCEPT !.goal = goal] \in Progressed
    BY <1>3, <1>6 DEF Progressed, Reports!Summarise, CallRecords
  <2> QED
    BY <1>1, <2>1, <2>2
<1>7. CASE UNCHANGED calls /\ now' \in {now, now + 1}
  BY <1>7 DEF CallsInv
<1>8. CASE Reports!Next
  BY <1>2, <1>4, <1>5, <1>6, <1>7, <1>8 DEF Reports!Next, Reports!Tick
<1>9. CASE UNCHANGED calls /\ Edge!Next
  BY <1>7, <1>9 DEF Edge!Next, Edge!Heartbeat, Edge!Tick
<1>10. Reports!Next \/ UNCHANGED calls
  BY DEF MCNext, allVars
<1>11. Reports!Next \/ Edge!Next \/ UNCHANGED now
  BY DEF MCNext, allVars
<1> QED
  BY <1>7, <1>8, <1>9, <1>10, <1>11

\* What two windows that follow each other select, the whole of them selects.
LEMMA WindowsSplit ==
    ASSUME CallsInv, NEW since \in Reports!Times \cup {Null},
           NEW mid \in Reports!Times, NEW until \in Reports!Times, NEW c,
           Reports!Start(since, mid) <= mid, mid <= until
    PROVE  LET early == Reports!Selected(since, mid, c)
               late == Reports!Selected(mid, until, c)
           IN  /\ Reports!Selected(Reports!Start(since, mid), until, c) = early \cup late
               /\ early \cap late = {}
               /\ IsFiniteSet(early) /\ IsFiniteSet(late)
<1> DEFINE whole == Reports!Start(since, mid)
<1>1. /\ mid \in Int /\ until \in Int /\ mid # Null /\ until # Null
      /\ whole \in Int /\ whole # Null
  BY WindowAssumption DEF Reports!Times, Reports!Start, Reports!End
<1>2. ASSUME NEW t \in Int
      PROVE  /\ Reports!InWindow(t, since, mid) <=> whole <= t /\ t < mid
             /\ Reports!InWindow(t, mid, until) <=> mid <= t /\ t < until
             /\ Reports!InWindow(t, whole, until) <=> whole <= t /\ t < until
  BY <1>1 DEF Reports!InWindow, Reports!Start, Reports!End
<1> HIDE DEF whole
<1>3. ASSUME NEW t \in Int
      PROVE  /\ Reports!InWindow(t, whole, until)
                  <=> Reports!InWindow(t, since, mid) \/ Reports!InWindow(t, mid, until)
             /\ ~ (Reports!InWindow(t, since, mid) /\ Reports!InWindow(t, mid, until))
  <2>1. whole <= mid
    BY DEF whole
  <2> QED
    BY <1>1, <1>2, <2>1
<1>4. \A i \in DOMAIN calls : calls[i].created \in Int
  <2>1. \A i \in DOMAIN calls : calls[i] \in CallRecords
    BY LenProperties, ElementOfSeq DEF CallsInv, Progressed
  <2>2. \A call \in CallRecords : call.created \in Nat
    BY Zenon DEF CallRecords
  <2> QED
    BY <2>1, <2>2
<1>5. IsFiniteSet(DOMAIN calls)
  <2>1. DOMAIN calls = 1 .. Len(calls) /\ 1 \in Int /\ Len(calls) \in Int
    BY LenProperties DEF CallsInv
  <2> QED
    BY <2>1, FS_Interval
<1>6. \A from, to : IsFiniteSet(Reports!Selected(from, to, c))
  <2>1. \A from, to : Reports!Selected(from, to, c) \subseteq DOMAIN calls
    BY DEF Reports!Selected
  <2> QED
    BY <1>5, <2>1, FS_Subset
<1>7. /\ Reports!Selected(whole, until, c) = Reports!Selected(since, mid, c) \cup Reports!Selected(mid, until, c)
      /\ Reports!Selected(since, mid, c) \cap Reports!Selected(mid, until, c) = {}
  BY <1>3, <1>4 DEF Reports!Selected
<1> QED
  BY <1>6, <1>7 DEF whole

\* Two sets with nothing in common have as many members as both together.
LEMMA DisjointSum ==
    ASSUME NEW A, NEW B, IsFiniteSet(A), IsFiniteSet(B), A \cap B = {}
    PROVE  Cardinality(A) + Cardinality(B) = Cardinality(A \cup B)
<1>1. Cardinality(A) \in Nat /\ Cardinality(B) \in Nat /\ Cardinality(A \cap B) = 0
  BY FS_CardinalityType, FS_EmptySet
<1>2. Cardinality(A \cup B) = Cardinality(A) + Cardinality(B) - Cardinality(A \cap B)
  BY FS_Union
<1> QED
  BY <1>1, <1>2

\* Windows that follow each other count every call, every answer and every
\* duration of a bucket once: for every list of call records, every clock and every default window.
THEOREM WindowsAlwaysAdd == MCSpec => []WindowsAdd
<1>1. MCInit => CallsInv
  BY DEF MCInit, Reports!Init, CallsInv
<1>2. CallsInv => WindowsAdd
  <2> SUFFICES ASSUME CallsInv,
                      NEW since \in Reports!Times \cup {Null}, NEW mid \in Reports!Times, NEW until \in Reports!Times,
                      NEW c \in Campaigns \cup {Null}, Reports!Start(since, mid) <= mid, mid <= until
               PROVE  LET whole == Reports!Start(since, mid)
                      IN  /\ Reports!AnswerRate(since, mid, c).total + Reports!AnswerRate(mid, until, c).total
                               = Reports!AnswerRate(whole, until, c).total
                          /\ Reports!AnswerRate(since, mid, c).answered + Reports!AnswerRate(mid, until, c).answered
                               = Reports!AnswerRate(whole, until, c).answered
                          /\ \A b \in DOMAIN Reports!Lower :
                                Reports!Distribution(since, mid, c).buckets[b]
                                  + Reports!Distribution(mid, until, c).buckets[b]
                                  = Reports!Distribution(whole, until, c).buckets[b]
    BY DEF WindowsAdd, Reports!WindowsAdd
  <2> DEFINE whole == Reports!Start(since, mid)
             early == Reports!Selected(since, mid, c)
             late == Reports!Selected(mid, until, c)
             all == Reports!Selected(whole, until, c)
  <2>1. all = early \cup late /\ early \cap late = {} /\ IsFiniteSet(early) /\ IsFiniteSet(late)
    BY WindowsSplit
  <2>2. \A from, to : Reports!AnswerRate(from, to, c).total = Cardinality(Reports!Selected(from, to, c))
    BY OneCardinality DEF Reports!AnswerRate
  <2>3. Reports!AnswerRate(since, mid, c).total + Reports!AnswerRate(mid, until, c).total
          = Reports!AnswerRate(whole, until, c).total
    <3>1. Cardinality(early) + Cardinality(late) = Cardinality(all)
      BY <2>1, DisjointSum
    <3> QED
      BY <2>2, <3>1
  <2>4. ASSUME NEW b \in DOMAIN Reports!Lower
        PROVE  Reports!Distribution(since, mid, c).buckets[b] + Reports!Distribution(mid, until, c).buckets[b]
                 = Reports!Distribution(whole, until, c).buckets[b]
    <3> DEFINE InIt(i) == calls[i].duration # Null /\ Reports!InBucket(calls[i].duration, b)
               Of(S) == {i \in S : InIt(i)}
    <3>1. ASSUME NEW from, NEW to
          PROVE  Reports!Distribution(from, to, c).buckets[b] = Cardinality(Of(Reports!Selected(from, to, c)))
      <4> DEFINE sel == Reports!Selected(from, to, c)
      <4>1. {i \in {j \in sel : calls[j].duration # Null} : Reports!InBucket(calls[i].duration, b)} = Of(sel)
        OBVIOUS
      <4>2. Reports!Distribution(from, to, c).buckets[b]
              = Reports!Cardinality({i \in {j \in sel : calls[j].duration # Null} :
                                        Reports!InBucket(calls[i].duration, b)})
        BY DEF Reports!Distribution
      <4> QED
        BY <4>1, <4>2, OneCardinality
    <3>2. IsFiniteSet(Of(early)) /\ IsFiniteSet(Of(late))
      <4>1. Of(early) \subseteq early /\ Of(late) \subseteq late
        OBVIOUS
      <4> QED
        BY <2>1, <4>1, FS_Subset
    <3>3. Of(early) \cap Of(late) = {} /\ Of(all) = Of(early) \cup Of(late)
      BY <2>1
    <3>4. Cardinality(Of(early)) + Cardinality(Of(late)) = Cardinality(Of(all))
      BY <3>2, <3>3, DisjointSum
    <3> QED
      BY <3>1, <3>4
  <2>5. Reports!AnswerRate(since, mid, c).answered + Reports!AnswerRate(mid, until, c).answered
          = Reports!AnswerRate(whole, until, c).answered
    <3> DEFINE Of(S) == {i \in S : calls[i].started}
    <3>1. \A from, to : Reports!AnswerRate(from, to, c).answered = Cardinality(Of(Reports!Selected(from, to, c)))
      BY OneCardinality DEF Reports!AnswerRate
    <3>2. IsFiniteSet(Of(early)) /\ IsFiniteSet(Of(late))
      <4>1. Of(early) \subseteq early /\ Of(late) \subseteq late
        OBVIOUS
      <4> QED
        BY <2>1, <4>1, FS_Subset
    <3>3. Of(early) \cap Of(late) = {} /\ Of(all) = Of(early) \cup Of(late)
      BY <2>1
    <3>4. Cardinality(Of(early)) + Cardinality(Of(late)) = Cardinality(Of(all))
      BY <3>2, <3>3, DisjointSum
    <3> QED
      BY <3>1, <3>4
  <2> QED
    BY <2>3, <2>4, <2>5
<1> QED
  BY <1>1, <1>2, CallsStep, PTL DEF MCSpec, allVars

\* The buckets of the durations start at zero and leave no gap.
LEMMA OneBucket ==
    ASSUME NEW d \in Nat
    PROVE  /\ Reports!InBucket(d, 1) <=> d < 30
           /\ Reports!InBucket(d, 2) <=> 30 <= d /\ d < 60
           /\ Reports!InBucket(d, 3) <=> 60 <= d /\ d < 180
           /\ Reports!InBucket(d, 4) <=> 180 <= d /\ d < 600
           /\ Reports!InBucket(d, 5) <=> 600 <= d
BY DEF Reports!InBucket, Reports!Lower

\* The three aggregates of a window and campaign speak of the same calls: their
\* totals agree, and every call that ended is in exactly one bucket.
THEOREM AggregatesAlwaysAgree == MCSpec => []AggregatesAgree
<1>1. MCInit => CallsInv
  BY DEF MCInit, Reports!Init, CallsInv
<1>2. CallsInv => AggregatesAgree
  <2> SUFFICES ASSUME CallsInv, NEW since \in Reports!Times \cup {Null}, NEW until \in Reports!Times \cup {Null},
                      NEW c \in Campaigns \cup {Null}
               PROVE  LET rate == Reports!AnswerRate(since, until, c)
                          goal == Reports!GoalRate(since, until, c)
                          spread == Reports!Distribution(since, until, c)
                      IN  /\ goal.total = rate.total
                          /\ goal.achieved <= rate.answered
                          /\ spread.total <= rate.answered
                          /\ spread.buckets[1] + spread.buckets[2] + spread.buckets[3] + spread.buckets[4]
                               + spread.buckets[5] = spread.total
    BY DEF AggregatesAgree, Reports!AggregatesAgree
  <2> DEFINE rate == Reports!AnswerRate(since, until, c)
             goal == Reports!GoalRate(since, until, c)
             spread == Reports!Distribution(since, until, c)
             sel == Reports!Selected(since, until, c)
             answered == {i \in sel : calls[i].started}
             achieved == {i \in sel : calls[i].goal = "achieved"}
             ended == {i \in sel : calls[i].duration # Null}
             Of(b) == {i \in ended : Reports!InBucket(calls[i].duration, b)}
  <2>1. /\ rate.total = Cardinality(sel) /\ rate.answered = Cardinality(answered)
        /\ goal.total = Cardinality(sel) /\ goal.achieved = Cardinality(achieved)
        /\ spread.total = Cardinality(ended)
    BY OneCardinality DEF Reports!AnswerRate, Reports!GoalRate, Reports!Distribution, Reports!Joined
  <2>2. \A b \in 1 .. 5 : spread.buckets[b] = Cardinality(Of(b))
    <3>1. DOMAIN Reports!Lower = 1 .. 5
      BY DEF Reports!Lower
    <3> QED
      BY <3>1, OneCardinality DEF Reports!Distribution
  <2>3. IsFiniteSet(sel) /\ sel \subseteq DOMAIN calls
    <3>1. DOMAIN calls = 1 .. Len(calls) /\ 1 \in Int /\ Len(calls) \in Int
      BY LenProperties DEF CallsInv
    <3>2. sel \subseteq DOMAIN calls
      BY DEF Reports!Selected
    <3> QED
      BY <3>1, <3>2, FS_Interval, FS_Subset
  <2>4. \A i \in sel : calls[i] \in Progressed
    BY <2>3, LenProperties, ElementOfSeq DEF CallsInv
  <2>5. achieved \subseteq answered /\ ended \subseteq answered /\ answered \subseteq sel
    BY <2>4 DEF Progressed
  <2>6. /\ IsFiniteSet(answered) /\ IsFiniteSet(ended)
        /\ Cardinality(achieved) <= Cardinality(answered)
        /\ Cardinality(ended) <= Cardinality(answered)
    BY <2>3, <2>5, FS_Subset
  <2>7. \A i \in ended : calls[i].duration \in Nat
    <3>1. \A call \in Progressed : call.duration # Null => call.duration \in Durations
      BY Zenon DEF Progressed, CallRecords
    <3>2. \A i \in ended : calls[i] \in Progressed /\ calls[i].duration # Null
      BY <2>4
    <3> QED
      BY <3>1, <3>2, WindowAssumption
  <2>8. /\ ended = Of(1) \cup Of(2) \cup Of(3) \cup Of(4) \cup Of(5)
        /\ Of(1) \cap Of(2) = {} /\ (Of(1) \cup Of(2)) \cap Of(3) = {}
        /\ (Of(1) \cup Of(2) \cup Of(3)) \cap Of(4) = {}
        /\ (Of(1) \cup Of(2) \cup Of(3) \cup Of(4)) \cap Of(5) = {}
    BY <2>7, OneBucket
  <2>9. \A T \in SUBSET ended : IsFiniteSet(T)
    BY <2>6, FS_Subset
  <2> HIDE DEF ended, Of
  <2>10. Cardinality(Of(1)) + Cardinality(Of(2)) + Cardinality(Of(3)) + Cardinality(Of(4)) + Cardinality(Of(5))
           = Cardinality(ended)
    <3>1. Cardinality(Of(1)) + Cardinality(Of(2)) = Cardinality(Of(1) \cup Of(2))
      BY <2>8, <2>9, DisjointSum
    <3>2. Cardinality(Of(1) \cup Of(2)) + Cardinality(Of(3)) = Cardinality(Of(1) \cup Of(2) \cup Of(3))
      BY <2>8, <2>9, DisjointSum
    <3>3. Cardinality(Of(1) \cup Of(2) \cup Of(3)) + Cardinality(Of(4))
            = Cardinality(Of(1) \cup Of(2) \cup Of(3) \cup Of(4))
      BY <2>8, <2>9, DisjointSum
    <3>4. Cardinality(Of(1) \cup Of(2) \cup Of(3) \cup Of(4)) + Cardinality(Of(5)) = Cardinality(ended)
      BY <2>8, <2>9, DisjointSum
    <3> QED
      BY <3>1, <3>2, <3>3, <3>4
  <2> QED
    BY <2>1, <2>2, <2>6, <2>10
<1> QED
  BY <1>1, <1>2, CallsStep, PTL DEF MCSpec, allVars
=============================================================================
