-------------------------- MODULE MCPlanResolver --------------------------
(***************************************************************************)
(* Small instance of PlanResolver: one user on an application and on the   *)
(* global tier, resolved by two requests at a time.                        *)
(***************************************************************************)
EXTENDS PlanResolver

MCSubjects == {[app |-> "A", user |-> "7"], [app |-> "", user |-> "7"]}
=============================================================================
