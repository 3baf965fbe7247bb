----------------------- MODULE CampaignControl_proofs -----------------------
(***************************************************************************)
(* The Redis list and its two ends implement the log of commands, for any  *)
(* campaigns and requests: CommandsAreLogged. The invariant says that a    *)
(* request whose command is in the list or was handled has been answered,  *)
(* so that no command enters twice.                                        *)
(***************************************************************************)
EXTENDS CampaignControl, SequenceTheorems, TLAPS

TypeOK ==
    /\ pc \in [Requests -> {"idle", "found", "missing", "accepted", "done", "failed"}]
    /\ kind \in [Requests -> Commands \cup {"none", "delete", "progress"}]
    /\ queue \in Seq(Requests) /\ handled \in Seq(Requests)

\* A command in the list, or handled, is one of an answered request.
Answered(seq) == \A i \in 1 .. Len(seq) : pc[seq[i]] \in {"accepted", "failed"}

IInv == TypeOK /\ Answered(queue) /\ Answered(handled)

\* The commands already accepted.
Accepted == {r \in Requests : At(r, "accepted", Commands)}

-----------------------------------------------------------------------------
\* The last element of a nonempty list, and the rest of the list.
LEMMA PoppedRight ==
    ASSUME NEW S, NEW q \in Seq(S), q # <<>>
    PROVE  /\ Len(q) \in Nat /\ Len(q) >= 1 /\ q[Len(q)] \in S
           /\ SubSeq(q, 1, Len(q) - 1) \in Seq(S)
           /\ Len(SubSeq(q, 1, Len(q) - 1)) = Len(q) - 1
           /\ \A i \in 1 .. Len(q) - 1 : SubSeq(q, 1, Len(q) - 1)[i] = q[i]
<1>1. Len(q) \in Nat /\ Len(q) >= 1 /\ q[Len(q)] \in S
  BY LenProperties, EmptySeq, ElementOfSeq
<1> DEFINE n == Len(q) - 1
<1>2. n \in Int /\ \A i \in 1 .. n : q[i] \in S
  BY <1>1, ElementOfSeq
<1> HIDE DEF n
<1>3. /\ SubSeq(q, 1, n) \in Seq(S)
      /\ Len(SubSeq(q, 1, n)) = IF 1 <= n THEN n - 1 + 1 ELSE 0
      /\ \A i \in 1 .. n - 1 + 1 : SubSeq(q, 1, n)[i] = q[1 + i - 1]
  BY <1>2, SubSeqProperties
<1>4. n \in Nat /\ n - 1 + 1 = n
  BY <1>1 DEF n
<1>5. Len(SubSeq(q, 1, n)) = n
  BY <1>3, <1>4
<1>6. ASSUME NEW i \in 1 .. n PROVE SubSeq(q, 1, n)[i] = q[i]
  <2>1. 1 + i - 1 = i
    BY <1>4
  <2> QED BY <1>3, <1>4, <2>1
<1> QED
  BY <1>1, <1>3, <1>5, <1>6 DEF n

\* A reversed list, element by element.
LEMMA ReverseIs ==
    ASSUME NEW S, NEW q \in Seq(S)
    PROVE  /\ Reverse(q) \in Seq(S) /\ Len(Reverse(q)) = Len(q)
           /\ \A i \in 1 .. Len(q) : Reverse(q)[i] = q[Len(q) - i + 1]
<1>1. Len(q) \in Nat /\ \A i \in 1 .. Len(q) : q[Len(q) - i + 1] \in S
  BY LenProperties, ElementOfSeq
<1> DEFINE n == Len(q)
<1>2. Reverse(q) \in [1 .. n -> S] /\ \A i \in 1 .. n : Reverse(q)[i] = q[n - i + 1]
  BY <1>1 DEF Reverse
<1> HIDE DEF n
<1>3. n \in Nat
  BY <1>1 DEF n
<1>4. Reverse(q) \in Seq(S) /\ Len(Reverse(q)) = n
  BY <1>2, <1>3
<1> QED
  BY <1>2, <1>4 DEF n

\* The LPUSH adds a command at the end of the reversed list.
LEMMA ReversePushed ==
    ASSUME NEW S, NEW q \in Seq(S), NEW r \in S
    PROVE  Reverse(<<r>> \o q) = Reverse(q) \o <<r>>
<1> DEFINE p == <<r>> \o q
           one == <<r>>
           back == Reverse(q)
           left == Reverse(p)
           right == back \o one
<1>1. one \in Seq(S) /\ Len(one) = 1 /\ one[1] = r /\ Len(q) \in Nat
  BY LenProperties
<1> HIDE DEF one
<1>2. /\ p \in Seq(S) /\ Len(p) = Len(q) + 1
      /\ \A i \in 1 .. Len(q) + 1 : p[i] = IF i <= 1 THEN r ELSE q[i - 1]
  BY <1>1, ConcatProperties DEF one
<1> HIDE DEF p
<1>3. /\ left \in Seq(S) /\ Len(left) = Len(q) + 1
      /\ \A i \in 1 .. Len(q) + 1 : left[i] = p[Len(q) + 1 - i + 1]
  BY <1>2, ReverseIs
<1>4. /\ right \in Seq(S) /\ Len(right) = Len(q) + 1
      /\ \A i \in 1 .. Len(q) + 1 :
            right[i] = IF i <= Len(q) THEN back[i] ELSE one[i - Len(q)]
  <2>1. /\ back \in Seq(S) /\ Len(back) = Len(q)
    BY ReverseIs
  <2> HIDE DEF back
  <2>2. /\ right \in Seq(S) /\ Len(right) = Len(back) + Len(one)
        /\ \A i \in 1 .. Len(back) + Len(one) :
              right[i] = IF i <= Len(back) THEN back[i] ELSE one[i - Len(back)]
    BY <1>1, <2>1, ConcatProperties
  <2> HIDE DEF right
  <2> QED BY <1>1, <2>1, <2>2
<1> HIDE DEF left, right
<1>5. ASSUME NEW i \in 1 .. Len(q) + 1 PROVE left[i] = right[i]
  <2>1. CASE i <= Len(q)
    <3>1. right[i] = q[Len(q) - i + 1]
      BY <1>1, <1>4, <2>1, ReverseIs
    <3>2. Len(q) + 1 - i + 1 \in 1 .. Len(q) + 1 /\ ~(Len(q) + 1 - i + 1 <= 1)
      BY <1>1, <2>1
    <3>3. left[i] = q[Len(q) + 1 - i + 1 - 1]
      BY <1>2, <1>3, <3>2
    <3> QED BY <1>1, <3>1, <3>3
  <2>2. CASE i = Len(q) + 1
    BY <1>1, <1>2, <1>3, <1>4, <2>2
  <2> QED BY <1>1, <2>1, <2>2
<1>6. left = right
  BY <1>3, <1>4, <1>5, SeqEqual
<1> QED
  BY <1>6 DEF left, right, p, one, back

\* A list is its rest and its last element, and so is the reversed list.
LEMMA ReversePopped ==
    ASSUME NEW S, NEW q \in Seq(S), q # <<>>
    PROVE  Reverse(q) = <<q[Len(q)]>> \o Reverse(SubSeq(q, 1, Len(q) - 1))
<1> DEFINE one == <<q[Len(q)]>>
           rest == SubSeq(q, 1, Len(q) - 1)
           left == Reverse(q)
           back == Reverse(rest)
           right == one \o back
<1>1. /\ Len(q) \in Nat /\ Len(q) >= 1
      /\ rest \in Seq(S) /\ Len(rest) = Len(q) - 1
      /\ \A i \in 1 .. Len(q) - 1 : rest[i] = q[i]
  BY PoppedRight
<1>2. one \in Seq(S) /\ Len(one) = 1 /\ one[1] = q[Len(q)]
  BY PoppedRight
<1> HIDE DEF one, rest
<1>3. /\ back \in Seq(S) /\ Len(back) = Len(q) - 1
      /\ \A i \in 1 .. Len(q) - 1 : back[i] = rest[Len(q) - 1 - i + 1]
  BY <1>1, ReverseIs
<1> HIDE DEF back
<1>4. /\ right \in Seq(S) /\ Len(right) = 1 + (Len(q) - 1)
      /\ \A i \in 1 .. 1 + (Len(q) - 1) :
            right[i] = IF i <= 1 THEN one[i] ELSE back[i - 1]
  <2>1. /\ right \in Seq(S) /\ Len(right) = Len(one) + Len(back)
        /\ \A i \in 1 .. Len(one) + Len(back) :
              right[i] = IF i <= Len(one) THEN one[i] ELSE back[i - Len(one)]
    <3>1. one \in Seq(S) /\ back \in Seq(S)
      BY <1>2, <1>3
    <3> QED BY <3>1, ConcatProperties
  <2> HIDE DEF right
  <2> QED BY <1>2, <1>3, <2>1
<1>5. /\ left \in Seq(S) /\ Len(left) = Len(q)
      /\ \A i \in 1 .. Len(q) : left[i] = q[Len(q) - i + 1]
  BY ReverseIs
<1> HIDE DEF left, right
<1>6. ASSUME NEW i \in 1 .. Len(q) PROVE left[i] = right[i]
  <2>1. CASE i = 1
    BY <1>1, <1>2, <1>4, <1>5, <2>1
  <2>2. CASE i > 1
    <3>1. right[i] = rest[Len(q) - 1 - (i - 1) + 1]
      BY <1>1, <1>3, <1>4, <2>2
    <3>2. Len(q) - 1 - (i - 1) + 1 \in 1 .. Len(q) - 1
      BY <1>1, <2>2
    <3>3. rest[Len(q) - 1 - (i - 1) + 1] = q[Len(q) - 1 - (i - 1) + 1]
      BY <1>1, <3>2
    <3> QED BY <1>1, <1>5, <3>1, <3>3
  <2> QED BY <2>1, <2>2
<1>7. Len(left) = Len(right)
  BY <1>1, <1>4, <1>5
<1>8. left = right
  BY <1>4, <1>5, <1>6, <1>7, SeqEqual
<1> QED
  BY <1>8 DEF left, right, one, rest, back

\* The LPUSH adds a command at the end of the order.
LEMMA PushAppends ==
    ASSUME NEW S, NEW h \in Seq(S), NEW q \in Seq(S), NEW r \in S
    PROVE  h \o Reverse(<<r>> \o q) = Append(h \o Reverse(q), r)
<1>1. Reverse(q) \in Seq(S) /\ <<r>> \in Seq(S)
  BY ReverseIs
<1>2. h \o (Reverse(q) \o <<r>>) = (h \o Reverse(q)) \o <<r>>
  BY <1>1, ConcatAssociative
<1>3. h \o Reverse(q) \in Seq(S)
  BY <1>1, ConcatProperties
<1> QED
  BY <1>2, <1>3, ReversePushed, AppendIsConcat

\* The scheduler's pop keeps the order.
LEMMA PopKeepsOrder ==
    ASSUME NEW S, NEW h \in Seq(S), NEW q \in Seq(S), q # <<>>
    PROVE  Append(h, q[Len(q)]) \o Reverse(SubSeq(q, 1, Len(q) - 1)) = h \o Reverse(q)
<1> DEFINE e == q[Len(q)]
           rest == SubSeq(q, 1, Len(q) - 1)
<1>1. e \in S /\ rest \in Seq(S)
  BY PoppedRight
<1>2. Reverse(q) = <<e>> \o Reverse(rest)
  BY ReversePopped
<1> HIDE DEF e, rest
<1>3. <<e>> \in Seq(S) /\ Reverse(rest) \in Seq(S)
  BY <1>1, ReverseIs
<1>4. Append(h, e) = h \o <<e>>
  BY <1>1, AppendIsConcat
<1>5. (h \o <<e>>) \o Reverse(rest) = h \o (<<e>> \o Reverse(rest))
  BY <1>3, ConcatAssociative
<1> QED
  BY <1>2, <1>4, <1>5 DEF e, rest

-----------------------------------------------------------------------------
\* After an LPUSH the list holds the command and what was there.
LEMMA PushElements ==
    ASSUME NEW S, NEW q \in Seq(S), NEW r \in S
    PROVE  /\ <<r>> \o q \in Seq(S)
           /\ \A i \in 1 .. Len(<<r>> \o q) :
                 \/ (<<r>> \o q)[i] = r
                 \/ \E j \in 1 .. Len(q) : (<<r>> \o q)[i] = q[j]
<1> DEFINE one == <<r>>
           p == one \o q
<1>1. one \in Seq(S) /\ Len(one) = 1 /\ one[1] = r /\ Len(q) \in Nat
  BY LenProperties
<1> HIDE DEF one
<1>2. /\ p \in Seq(S) /\ Len(p) = Len(one) + Len(q)
      /\ \A i \in 1 .. Len(one) + Len(q) : p[i] = IF i <= Len(one) THEN one[i] ELSE q[i - Len(one)]
  <2>1. one \in Seq(S)
    BY <1>1
  <2> QED BY <2>1, ConcatProperties
<1> HIDE DEF p
<1>3. \A i \in 1 .. Len(p) : p[i] = r \/ \E j \in 1 .. Len(q) : p[i] = q[j]
  <2> TAKE i \in 1 .. Len(p)
  <2>1. CASE i = 1
    BY <1>1, <1>2, <2>1
  <2>2. CASE i > 1
    <3>1. i - 1 \in 1 .. Len(q) /\ p[i] = q[i - 1]
      BY <1>1, <1>2, <2>2
    <3> QED BY <3>1
  <2> QED BY <1>1, <1>2, <2>1, <2>2
<1> QED
  BY <1>2, <1>3 DEF p, one

\* After the pop the handled commands are those handled before and the last one.
LEMMA PopElements ==
    ASSUME NEW S, NEW h \in Seq(S), NEW e \in S
    PROVE  /\ Append(h, e) \in Seq(S) /\ Len(Append(h, e)) = Len(h) + 1 /\ Len(h) \in Nat
           /\ \A i \in 1 .. Len(Append(h, e)) :
                 Append(h, e)[i] = e \/ (i \in 1 .. Len(h) /\ Append(h, e)[i] = h[i])
<1>1. Len(h) \in Nat
  BY LenProperties
<1> DEFINE a == Append(h, e)
<1>2. /\ a \in Seq(S) /\ Len(a) = Len(h) + 1 /\ a[Len(h) + 1] = e
      /\ \A i \in 1 .. Len(h) : a[i] = h[i]
  BY AppendProperties
<1> HIDE DEF a
<1>3. \A i \in 1 .. Len(a) : a[i] = e \/ (i \in 1 .. Len(h) /\ a[i] = h[i])
  BY <1>1, <1>2
<1> QED
  BY <1>1, <1>2, <1>3 DEF a

\* What is in the order was handled or is in the list.
LEMMA OrderElements ==
    ASSUME NEW h \in Seq(Requests), NEW q \in Seq(Requests)
    PROVE  /\ DOMAIN (h \o Reverse(q)) = 1 .. Len(h) + Len(q)
           /\ Len(h \o Reverse(q)) = Len(h) + Len(q)
           /\ \A i \in DOMAIN (h \o Reverse(q)) :
                 \/ \E j \in 1 .. Len(h) : (h \o Reverse(q))[i] = h[j]
                 \/ \E j \in 1 .. Len(q) : (h \o Reverse(q))[i] = q[j]
<1> DEFINE back == Reverse(q)
           all == h \o back
<1>1. /\ back \in Seq(Requests) /\ Len(back) = Len(q)
      /\ \A i \in 1 .. Len(q) : back[i] = q[Len(q) - i + 1]
  BY ReverseIs
<1>2. Len(h) \in Nat /\ Len(q) \in Nat
  BY LenProperties
<1> HIDE DEF back
<1>3. /\ all \in Seq(Requests) /\ Len(all) = Len(h) + Len(back)
      /\ \A i \in 1 .. Len(h) + Len(back) : all[i] = IF i <= Len(h) THEN h[i] ELSE back[i - Len(h)]
  <2>1. back \in Seq(Requests)
    BY <1>1
  <2> QED BY <2>1, ConcatProperties
<1> HIDE DEF all
<1>4. DOMAIN all = 1 .. Len(h) + Len(q) /\ Len(all) = Len(h) + Len(q)
  BY <1>1, <1>3, LenProperties
<1>5. ASSUME NEW i \in DOMAIN all
      PROVE  \/ \E j \in 1 .. Len(h) : all[i] = h[j]
             \/ \E j \in 1 .. Len(q) : all[i] = q[j]
  <2>1. CASE i <= Len(h)
    <3>1. i \in 1 .. Len(h) /\ i \in 1 .. Len(h) + Len(back)
      BY <1>1, <1>2, <1>4, <2>1
    <3>2. all[i] = h[i]
      BY <1>3, <2>1, <3>1
    <3> QED BY <3>1, <3>2
  <2>2. CASE i > Len(h)
    <3>1. i - Len(h) \in 1 .. Len(q) /\ Len(q) - (i - Len(h)) + 1 \in 1 .. Len(q)
      BY <1>2, <1>4, <2>2
    <3>2. all[i] = q[Len(q) - (i - Len(h)) + 1]
      <4>1. i \in 1 .. Len(h) + Len(back) /\ ~ (i <= Len(h))
        BY <1>1, <1>2, <1>4, <2>2
      <4>2. all[i] = back[i - Len(h)]
        BY <1>3, <4>1
      <4>3. back[i - Len(h)] = q[Len(q) - (i - Len(h)) + 1]
        BY <1>1, <3>1
      <4> QED BY <4>2, <4>3
    <3> QED BY <3>1, <3>2
  <2> QED BY <1>2, <1>4, <2>1, <2>2
<1> QED
  BY <1>4, <1>5 DEF all, back

-----------------------------------------------------------------------------
(* The invariant.                                                          *)

LEMMA InitIInv == Init => IInv
<1> SUFFICES ASSUME Init PROVE IInv
  OBVIOUS
<1>1. TypeOK
  BY EmptySeq DEF Init, TypeOK, Commands
<1>2. Len(queue) = 0 /\ Len(handled) = 0
  BY EmptySeq DEF Init
<1> QED
  BY <1>1, <1>2 DEF IInv, Answered

\* A step of one request from where it has not been answered leaves the answers
\* of the commands alone.
LEMMA AnsweredKept ==
    ASSUME NEW seq \in Seq(Requests), Answered(seq), TypeOK, NEW r \in Requests, NEW step,
           pc[r] \in {"idle", "found"}, pc' = [pc EXCEPT ![r] = step]
    PROVE  \A i \in 1 .. Len(seq) : pc'[seq[i]] \in {"accepted", "failed"}
<1> TAKE i \in 1 .. Len(seq)
<1>1. seq[i] \in Requests /\ pc[seq[i]] \in {"accepted", "failed"}
  BY ElementOfSeq DEF Answered
<1> QED
  BY <1>1 DEF TypeOK

\* Every step keeps the invariant.
LEMMA StepIInv == IInv /\ [Next]_vars => IInv'
<1> SUFFICES ASSUME IInv, [Next]_vars PROVE IInv'
  OBVIOUS
<1> USE DEF IInv
<1>1. ASSUME NEW r \in Requests, NEW k \in Commands \cup {"delete", "progress"}, Load(r, k)
      PROVE  IInv'
  <2>1. pc[r] = "idle" /\ queue' = queue /\ handled' = handled
    BY <1>1 DEF Load
  <2>2. TypeOK'
    BY <1>1 DEF Load, GoTo, TypeOK
  <2>3. PICK step : pc' = [pc EXCEPT ![r] = step]
    BY <1>1 DEF Load, GoTo
  <2> QED BY <2>1, <2>2, <2>3, AnsweredKept DEF Answered, TypeOK
<1>2. ASSUME NEW r \in Requests, Push(r) \/ PushFails(r) PROVE IInv'
  <2>1. pc[r] = "found" /\ queue' \in {queue, <<r>> \o queue} /\ handled' = handled
        /\ kind' = kind
    BY <1>2 DEF Push, PushFails, At, Pushed
  <2>2. PICK step \in {"accepted", "failed"} : pc' = [pc EXCEPT ![r] = step]
    BY <1>2 DEF Push, PushFails, GoTo
  <2>3. TypeOK'
    BY <2>1, <2>2, PushElements DEF TypeOK
  <2>4. /\ \A i \in 1 .. Len(queue) : pc'[queue[i]] \in {"accepted", "failed"}
        /\ \A i \in 1 .. Len(handled) : pc'[handled[i]] \in {"accepted", "failed"}
    <3>1. pc[r] \in {"idle", "found"} /\ queue \in Seq(Requests) /\ handled \in Seq(Requests)
      BY <2>1 DEF TypeOK
    <3>2. Answered(queue) /\ Answered(handled) /\ TypeOK
      OBVIOUS
    <3> QED BY <2>2, <3>1, <3>2, AnsweredKept DEF Answered
  <2>5. pc'[r] \in {"accepted", "failed"}
    BY <2>2 DEF TypeOK
  <2>6. ASSUME queue' = <<r>> \o queue, NEW i \in 1 .. Len(queue')
        PROVE  pc'[queue'[i]] \in {"accepted", "failed"}
    <3>1. queue'[i] = r \/ \E j \in 1 .. Len(queue) : queue'[i] = queue[j]
      BY <2>6, PushElements DEF TypeOK
    <3> QED BY <2>4, <2>5, <3>1
  <2> QED BY <2>1, <2>3, <2>4, <2>6 DEF Answered
<1>3. ASSUME NEW r \in Requests, Delete(r) \/ Report(r) PROVE IInv'
  <2>1. pc[r] = "found" /\ pc' = [pc EXCEPT ![r] = "done"]
        /\ queue' = queue /\ handled' = handled /\ kind' = kind
    BY <1>3 DEF Delete, Report, At, GoTo
  <2> QED BY <2>1, AnsweredKept DEF Answered, TypeOK
<1>4. ASSUME Schedule PROVE IInv'
  <2> DEFINE e == queue[Len(queue)]
             rest == SubSeq(queue, 1, Len(queue) - 1)
  <2>1. queue # <<>> /\ queue' = rest /\ handled' = Append(handled, e)
        /\ pc' = pc /\ kind' = kind
    BY <1>4 DEF Schedule
  <2>2. /\ Len(queue) \in 1 .. Len(queue) /\ e \in Requests
        /\ rest \in Seq(Requests) /\ \A i \in 1 .. Len(rest) : i \in 1 .. Len(queue) /\ rest[i] = queue[i]
    BY <2>1, PoppedRight DEF TypeOK
  <2>3. pc[e] \in {"accepted", "failed"}
    BY <2>2 DEF Answered
  <2> HIDE DEF e, rest
  <2>4. TypeOK'
    BY <2>1, <2>2, PopElements DEF TypeOK
  <2>5. Answered(queue)'
    BY <2>1, <2>2 DEF Answered
  <2>6. ASSUME NEW i \in 1 .. Len(handled') PROVE pc'[handled'[i]] \in {"accepted", "failed"}
    <3>1. handled'[i] = e \/ (i \in 1 .. Len(handled) /\ handled'[i] = handled[i])
      BY <2>1, <2>2, PopElements DEF TypeOK
    <3> QED BY <2>1, <2>3, <3>1 DEF Answered
  <2> QED BY <2>4, <2>5, <2>6 DEF Answered
<1>5. CASE UNCHANGED vars
  BY <1>5 DEF vars, TypeOK, Answered
<1> QED
  BY <1>1, <1>2, <1>3, <1>4, <1>5 DEF Next

\* Commands in the list or handled are those of answered requests, in every run.
THEOREM Invariance == Spec => []IInv
BY InitIInv, StepIInv, PTL DEF Spec

-----------------------------------------------------------------------------
(* The refinement.                                                         *)

LEMMA InitLog == Init => Log!Init
<1> SUFFICES ASSUME Init PROVE Log!Init
  OBVIOUS
<1>1. /\ queue = <<>> /\ handled = <<>> /\ Len(handled) = 0 /\ queue \in Seq(Requests)
      /\ handled \in Seq(Requests) /\ Len(queue) = 0
  BY EmptySeq DEF Init
<1>2. Order = <<>>
  <2>1. Reverse(queue) \in Seq(Requests) /\ Len(Reverse(queue)) = 0
    BY <1>1, ReverseIs
  <2>2. Reverse(queue) = <<>>
    BY <2>1, EmptySeq
  <2> QED BY <1>1, <2>2, ConcatEmptySeq DEF Order
<1>3. Accepted = {}
  BY DEF Init, Accepted, At
<1> QED
  BY <1>1, <1>2, <1>3 DEF Log!Init, Accepted

\* A step that leaves both lists and the accepted commands alone.
LEMMA Stutter ==
    ASSUME queue' = queue, handled' = handled, Accepted' = Accepted
    PROVE  UNCHANGED Log!vars
BY DEF Log!vars, Order, Accepted, At

\* The command of a request that has not been answered is not in the order.
LEMMA NotInOrder ==
    ASSUME IInv, NEW r \in Requests, pc[r] = "found"
    PROVE  \A i \in DOMAIN Order : Order[i] # r
<1>1. /\ \A j \in 1 .. Len(queue) : queue[j] # r
      /\ \A j \in 1 .. Len(handled) : handled[j] # r
  BY DEF IInv, Answered
<1>2. handled \in Seq(Requests) /\ queue \in Seq(Requests)
  BY DEF IInv, TypeOK
<1>3. \A i \in DOMAIN (handled \o Reverse(queue)) :
         \/ \E j \in 1 .. Len(handled) : (handled \o Reverse(queue))[i] = handled[j]
         \/ \E j \in 1 .. Len(queue) : (handled \o Reverse(queue))[i] = queue[j]
  <2>1. ASSUME NEW h \in Seq(Requests), NEW q \in Seq(Requests)
        PROVE  \A i \in DOMAIN (h \o Reverse(q)) :
                  \/ \E j \in 1 .. Len(h) : (h \o Reverse(q))[i] = h[j]
                  \/ \E j \in 1 .. Len(q) : (h \o Reverse(q))[i] = q[j]
    BY OrderElements
  <2> QED BY <1>2, <2>1, Zenon
<1>4. ASSUME NEW i \in DOMAIN Order PROVE Order[i] # r
  <2>1. \/ \E j \in 1 .. Len(handled) : Order[i] = handled[j]
        \/ \E j \in 1 .. Len(queue) : Order[i] = queue[j]
    BY <1>3, Zenon DEF Order
  <2> QED BY <1>1, <2>1
<1> QED
  BY <1>4

\* Every step enters a command, handles one or leaves the log alone.
LEMMA StepLog == IInv /\ [Next]_vars => [Log!Next]_(Log!vars)
<1> SUFFICES ASSUME IInv, [Next]_vars PROVE [Log!Next]_(Log!vars)
  OBVIOUS
<1>a. TypeOK
  BY DEF IInv
<1>1. ASSUME NEW r \in Requests, NEW k \in Commands \cup {"delete", "progress"}, Load(r, k)
      PROVE  UNCHANGED Log!vars
  <2>1. /\ pc[r] = "idle" /\ pc' = [pc EXCEPT ![r] = pc'[r]] /\ pc'[r] \in {"found", "missing"}
        /\ kind' = [kind EXCEPT ![r] = k] /\ queue' = queue /\ handled' = handled
    BY <1>a, <1>1 DEF Load, GoTo, TypeOK
  <2>2. Accepted' = Accepted
    BY <1>a, <2>1 DEF Accepted, At, TypeOK
  <2> QED BY <2>1, <2>2, Stutter
<1>2. ASSUME NEW r \in Requests, Push(r) \/ PushFails(r) PROVE [Log!Next]_(Log!vars)
  <2>1. pc[r] = "found" /\ kind[r] \in Commands /\ kind' = kind /\ handled' = handled
    BY <1>2 DEF Push, PushFails, At
  <2>2. Accepted' \in {Accepted, Accepted \cup {r}}
    BY <1>a, <1>2, <2>1 DEF Push, PushFails, GoTo, Accepted, At, TypeOK
  <2>3. CASE queue' = <<r>> \o queue
    <3>1. Order' = Append(Order, r)
      <4>1. handled \in Seq(Requests) /\ queue \in Seq(Requests)
        BY <1>a DEF TypeOK
      <4>2. handled \o Reverse(<<r>> \o queue) = Append(handled \o Reverse(queue), r)
        BY <4>1, PushAppends
      <4> QED BY <2>1, <2>3, <4>2 DEF Order
    <3>2. \A i \in DOMAIN Order : Order[i] # r
      BY <2>1, NotInOrder
    <3>3. Log!Enter(r)
      BY <2>1, <2>2, <3>1, <3>2 DEF Log!Enter, Accepted
    <3> QED BY <3>3 DEF Log!Next
  <2>4. CASE queue' = queue /\ PushFails(r)
    <3>1. Accepted' = Accepted
      BY <1>a, <2>1, <2>4 DEF PushFails, GoTo, Accepted, At, TypeOK
    <3> QED BY <2>1, <2>4, <3>1, Stutter
  <2> QED BY <1>2, <2>3, <2>4 DEF Push, PushFails, Pushed
<1>3. ASSUME NEW r \in Requests, Delete(r) \/ Report(r) PROVE UNCHANGED Log!vars
  <2>1. pc[r] = "found" /\ pc' = [pc EXCEPT ![r] = "done"]
        /\ queue' = queue /\ handled' = handled /\ kind' = kind
    BY <1>3 DEF Delete, Report, At, GoTo
  <2>2. Accepted' = Accepted
    BY <1>a, <2>1 DEF Accepted, At, TypeOK
  <2> QED BY <2>1, <2>2, Stutter
<1>4. ASSUME Schedule PROVE Log!Next
  <2>1. /\ queue # <<>> /\ queue' = SubSeq(queue, 1, Len(queue) - 1)
        /\ handled' = Append(handled, queue[Len(queue)]) /\ pc' = pc /\ kind' = kind
    BY <1>4 DEF Schedule
  <2>2. Order' = Order
    BY <1>a, <2>1, PopKeepsOrder DEF Order, TypeOK
  <2>3. queue[Len(queue)] \in Requests /\ Len(queue) >= 1 /\ Len(queue) \in Nat
    BY <1>a, <2>1, PoppedRight DEF TypeOK
  <2>4. Len(handled') = Len(handled) + 1 /\ Len(handled) \in Nat
    BY <1>a, <2>1, <2>3, PopElements DEF TypeOK
  <2>5. Len(Order) = Len(handled) + Len(queue)
    BY <1>a, OrderElements DEF Order, TypeOK
  <2>6. Len(handled) < Len(Order)
    BY <2>3, <2>4, <2>5
  <2>7. Accepted' = Accepted
    BY <2>1 DEF Accepted, At
  <2>8. Log!Handle
    BY <2>2, <2>4, <2>6, <2>7 DEF Log!Handle, Accepted
  <2> QED BY <2>8 DEF Log!Next
<1>5. ASSUME UNCHANGED vars PROVE UNCHANGED Log!vars
  <2>1. queue' = queue /\ handled' = handled /\ Accepted' = Accepted
    BY <1>5 DEF vars, Accepted, At
  <2> QED BY <2>1, Stutter
<1> QED
  BY <1>1, <1>2, <1>3, <1>4, <1>5 DEF Next

\* The Redis list, with the requests at its left end and the scheduler at its
\* right end, is a log of commands, for any campaigns and requests.
THEOREM CommandsAreAlwaysLogged == Spec => CommandsAreLogged
BY InitIInv, StepIInv, InitLog, StepLog, PTL DEF Spec, CommandsAreLogged, Log!Spec
=============================================================================
