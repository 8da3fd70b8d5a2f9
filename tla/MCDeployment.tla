---------------------------- MODULE MCDeployment ----------------------------
(* Instances of Deployment for TLC. *)
EXTENDS Deployment, TLC

Symmetry == Permutations(Processes)

Empty == [created |-> FALSE, recorded |-> {}, seeded |-> FALSE,
          roles |-> {}, granted |-> {}]

(* The database of the release before the last migration file, its operator *)
(* role deleted and the administrator role stripped of its permissions.     *)
Aged == [created |-> TRUE, recorded |-> {1}, seeded |-> TRUE,
         roles |-> {"admin"}, granted |-> {}]

(* Both roles were deleted while nobody held them. *)
Roleless == [Aged EXCEPT !.recorded = {1, 2}, !.roles = {}]

Databases == {Empty, Aged, Roleless}

Usernames == {"admin", "root"}
=============================================================================
