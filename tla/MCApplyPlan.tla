----------------------------- MODULE MCApplyPlan -----------------------------
(***************************************************************************)
(* Small Plans for ApplyPlan: a refresh and an organize Plan.              *)
(***************************************************************************)
EXTENDS ApplyPlan

\* A refresh Plan: a file blocked at planning, one Track refreshed in place, two
\* that move and the artwork they share.
RefreshKind  == <<"move", "refresh", "move", "move", "companion">>
RefreshDeps  == <<{}, {}, {}, {}, {3, 4}>>
RefreshOwner == <<0, 0, 0, 0, 3>>

\* An organize Plan: two misplaced files and the lyrics of the second.
OrganizeKind  == <<"move", "move", "companion">>
OrganizeDeps  == <<{}, {}, {2}>>
OrganizeOwner == <<0, 0, 2>>
=============================================================================
