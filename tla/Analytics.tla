------------------------------ MODULE Analytics ------------------------------
(***************************************************************************)
(* The three aggregates of /analytics, as functions of the call records    *)
(* that the engine writes while calls run.                                 *)
(***************************************************************************)
EXTENDS Integers, Sequences, FiniteSets

CONSTANTS Campaigns,  \* campaign ids
          Durations,  \* the seconds a call may last
          Week,       \* the default window, in ticks
          MaxCalls,   \* bound on the calls
          MaxClock,   \* bound on the clock
          Null        \* SQL's NULL, a query parameter that is not given

VARIABLES calls,  \* call_records with their summary's goal_achieved
          now     \* datetime.now

vars == <<calls, now>>

Init == calls = <<>> /\ now = 0

-----------------------------------------------------------------------------
(* The engine.                                                             *)

Dial(c) ==
    /\ Len(calls) < MaxCalls
    /\ calls' = Append(calls, [created |-> now, campaign |-> c, started |-> FALSE,
                               duration |-> Null, goal |-> "no summary"])
    /\ UNCHANGED now

Connect(i) ==
    /\ ~ calls[i].started
    /\ calls' = [calls EXCEPT ![i].started = TRUE]
    /\ UNCHANGED now

HangUp(i, d) ==
    /\ calls[i].started /\ calls[i].duration = Null
    /\ calls' = [calls EXCEPT ![i].duration = d]
    /\ UNCHANGED now

Summarise(i, goal) ==
    /\ calls[i].duration # Null /\ calls[i].goal = "no summary"
    /\ calls' = [calls EXCEPT ![i].goal = goal]
    /\ UNCHANGED now

Tick == now < MaxClock /\ now' = now + 1 /\ UNCHANGED calls

Next ==
    \/ \E c \in Campaigns : Dial(c)
    \/ \E i \in DOMAIN calls : Connect(i) \/ (\E d \in Durations : HangUp(i, d))
    \/ \E i \in DOMAIN calls, goal \in {"null", "achieved", "missed"} : Summarise(i, goal)
    \/ Tick

Spec == Init /\ [][Next]_vars

-----------------------------------------------------------------------------
(* The endpoints.                                                          *)

End(until) == IF until = Null THEN now ELSE until

\* _window
Start(since, until) == IF since = Null THEN End(until) - Week ELSE since

\* Mutant: both ends of the window are included.
ClosedWindow(t, since, until) == Start(since, until) <= t /\ t <= End(until)

\* The start is included, the end is not.
InWindow(t, since, until) == Start(since, until) <= t /\ t < End(until)

\* The WHERE clause that the three queries share.
Selected(since, until, campaign) ==
    {i \in DOMAIN calls : /\ InWindow(calls[i].created, since, until)
                          /\ campaign = Null \/ calls[i].campaign = campaign}

\* answer_rate
AnswerRate(since, until, campaign) ==
    LET sel == Selected(since, until, campaign)
    IN  [total |-> Cardinality(sel),
         answered |-> Cardinality({i \in sel : calls[i].started})]

\* Mutant: an inner join drops the calls without a summary.
InnerJoined(sel) == {i \in sel : calls[i].goal # "no summary"}

\* The outer join with the summaries.
Joined(sel) == sel

\* goal_rate
GoalRate(since, until, campaign) ==
    LET sel == Joined(Selected(since, until, campaign))
    IN  [total |-> Cardinality(sel),
         achieved |-> Cardinality({i \in sel : calls[i].goal = "achieved"})]

\* _DURATION_BUCKETS: the lower ends, each bucket ending where the next begins.
Lower == <<0, 30, 60, 180, 600>>

InBucket(d, b) == Lower[b] <= d /\ (b = Len(Lower) \/ d < Lower[b + 1])

\* duration_distribution
Distribution(since, until, campaign) ==
    LET ended == {i \in Selected(since, until, campaign) : calls[i].duration # Null}
    IN  [total |-> Cardinality(ended),
         buckets |-> [b \in DOMAIN Lower |->
                        Cardinality({i \in ended : InBucket(calls[i].duration, b)})]]

-----------------------------------------------------------------------------
(* Properties.                                                             *)

Times == 0 .. MaxClock

\* Windows that follow each other add up: no call is counted in both or in
\* neither, the default window before a time included (start inclusive, end
\* exclusive), for calls, answers and every duration bucket.
WindowsAdd ==
    \A since \in Times \cup {Null}, mid, until \in Times, c \in Campaigns \cup {Null} :
        Start(since, mid) <= mid /\ mid <= until =>
            LET whole == Start(since, mid)
            IN  /\ AnswerRate(since, mid, c).total + AnswerRate(mid, until, c).total
                     = AnswerRate(whole, until, c).total
                /\ AnswerRate(since, mid, c).answered + AnswerRate(mid, until, c).answered
                     = AnswerRate(whole, until, c).answered
                /\ \A b \in DOMAIN Lower :
                      Distribution(since, mid, c).buckets[b] + Distribution(mid, until, c).buckets[b]
                        = Distribution(whole, until, c).buckets[b]

\* The endpoints speak of the same calls: the totals of the two rates agree, a
\* campaign cannot reach its goal in more calls than were answered, and every
\* call that has a duration, on a boundary or not, is in exactly one bucket.
AggregatesAgree ==
    \A since, until \in Times \cup {Null}, c \in Campaigns \cup {Null} :
        LET rate == AnswerRate(since, until, c)
            goal == GoalRate(since, until, c)
            spread == Distribution(since, until, c)
        IN  /\ goal.total = rate.total
            /\ goal.achieved <= rate.answered
            /\ spread.total <= rate.answered
            /\ spread.buckets[1] + spread.buckets[2] + spread.buckets[3] + spread.buckets[4]
                 + spread.buckets[5] = spread.total
=============================================================================
