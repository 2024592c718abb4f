------------------------ MODULE MCMachineCredentials ------------------------
(***************************************************************************)
(* Instances of MachineCredentials for TLC.                                *)
(***************************************************************************)
EXTENDS MachineCredentials, TLC

\* Nothing tells sessions, machines, or keys of one kind apart.
Interchangeable ==
    Permutations(Sessions) \cup Permutations(Machines) \cup Permutations(Keys)
        \cup Permutations(Enrollments) \cup Permutations(Metas)

=============================================================================
