----------------------------- MODULE CommandLog -----------------------------
(***************************************************************************)
(* What the start and pause endpoints promise of their commands: one that  *)
(* is accepted is logged, once, at the end of the log, and the scheduler   *)
(* handles the log from its beginning, leaving none out.                   *)
(***************************************************************************)
EXTENDS Naturals, Sequences

CONSTANT Requests  \* a command is named by its request

VARIABLES log,      \* the commands, oldest first
          done,     \* how many of them have been handled
          accepted  \* the commands answered with "queued": true

vars == <<log, done, accepted>>

Init == log = <<>> /\ done = 0 /\ accepted = {}

\* A failed request may leave its command, and is never called accepted later.
Enter(r) ==
    /\ \A i \in DOMAIN log : log[i] # r
    /\ log' = Append(log, r)
    /\ accepted' \in {accepted, accepted \cup {r}}
    /\ UNCHANGED done

Handle ==
    /\ done < Len(log) /\ done' = done + 1
    /\ UNCHANGED <<log, accepted>>

Next == (\E r \in Requests : Enter(r)) \/ Handle

Spec == Init /\ [][Next]_vars
=============================================================================
