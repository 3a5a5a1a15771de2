-------------------------- MODULE MCStateMigration --------------------------
(* Small instances of StateMigration for TLC. *)
EXTENDS StateMigration, TLC

CONSTANTS j1, j2, a1, q1

TwoJobs == <<j1, j2>>
OneApproval == <<a1>>
OnePlan == <<q1>>
=============================================================================
