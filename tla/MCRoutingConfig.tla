-------------------------- MODULE MCRoutingConfig --------------------------
(* Instances of RoutingConfig small enough for TLC: two labels, one tool.  *)
EXTENDS RoutingConfig

Role(k, l) == [kind |-> k, label |-> l]
Main == Role("main", NoLabel)

\* Rules to hang up, to route to a persona or a builtin route, to call a tool.
HangUp == [referee |-> "a", action |-> "hangup", arg |-> "-"]
ToPersona == [referee |-> "a", action |-> "route", arg |-> "p"]
ToNewPersona == [referee |-> "a", action |-> "route", arg |-> "a"]
ToClosing == [referee |-> "b", action |-> "route", arg |-> "closing"]
CallTool == [referee |-> "a", action |-> "tool", arg |-> "t"]

Created == [roles |-> <<Main, Role("referee", "a"), Role("persona", "p")>>,
            rules |-> {HangUp}, tools |-> {"t"}]
Bare == [roles |-> <<Main>>, rules |-> {}, tools |-> {}]
Unruled == [Created EXCEPT !.rules = {}]
MCCreations == {Created, Bare}
OnlyUnruled == {Unruled}
OnlyCreated == {Created}

Puts == {[op |-> "putRules", rules |-> R] : R \in {{}, {ToPersona}, {ToNewPersona}, {CallTool, ToClosing}}}
Posts == {[op |-> "postRole", role |-> d] : d \in {Role("referee", "b"), Role("persona", "a"), Main}}
Deletes == {[op |-> "deleteRole"]}
Renames == {[op |-> "patchRole", role |-> d] : d \in {Role("referee", "b"), Role("persona", "p"), Main}}

Patch(rs, R, T) == [op |-> "patch", roles |-> rs, rules |-> R, tools |-> T]
Patches == {Patch(<<Main, Role("referee", "b")>>, Omitted, Omitted),
            Patch(<<Main, Role("referee", "a"), Role("referee", "b")>>, {ToClosing}, Omitted),
            Patch(<<Role("referee", "a"), Role("referee", "a")>>, {}, Omitted),
            Patch(Omitted, Omitted, {}),
            Patch(Omitted, {CallTool}, {"t"})}

\* _SLOTS and ROUTING_RULES of the seed; REFEREE_LABEL is "main_judge".
Seeds == {[op |-> "seed", roles |-> <<Main, Role("referee", "main_judge"), Role("extractor", NoLabel)>>,
           rules |-> {[HangUp EXCEPT !.referee = "main_judge"]}, tools |-> Omitted]}

\* Everything but the PATCH of a role.
SerialBodies == Puts \cup Posts \cup Deletes \cup Patches \cup Seeds
LockBodies == Patches \cup Deletes \cup Renames \cup Seeds
RaceBodies == Puts \cup Deletes
=============================================================================
