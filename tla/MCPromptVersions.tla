-------------------------- MODULE MCPromptVersions --------------------------
(* Instances of PromptVersions small enough for TLC.                       *)
EXTENDS PromptVersions, TLC

CONSTANTS v1, v2, v3, v4

\* Three versions of one scope, two of them stored, and one
\* of another scope, stored or to be created.
TwoScopes == (v1 :> 1) @@ (v2 :> 1) @@ (v3 :> 1) @@ (v4 :> 2)
=============================================================================
