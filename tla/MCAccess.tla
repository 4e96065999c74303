------------------------------- MODULE MCAccess -------------------------------
(***************************************************************************)
(* Instances of Access for TLC.                                            *)
(***************************************************************************)
EXTENDS Access, TLC

\* A role can assign roles, or can do nothing.
AssignOrNothing == {{Assign}, {}}
AssignOnly == {{Assign}}

\* Accounts differ in nothing but their address.
PeopleAreAlike == Permutations(People)

\* Edits of addresses and of the permissions of system roles.
Edits == Cardinality(former)
           + Cardinality({r \in SystemRoles : perms[r] # SeededPermissions[r]})

Pending == Cardinality(checked) + Cardinality(deleting)

\* The histories explored: up to three memberships and three role assignments; two
\* of an edit, a request between its check and its commit, and a tenant with
\* warehouses; and the first lapse.
FewRows ==
    /\ Cardinality(member) <= 3 /\ Cardinality(grants) <= 3
    /\ Cardinality(stocked) <= 1
    /\ Edits + Pending + Cardinality(stocked) <= 2
    /\ lapses = {}

NoEdits == FewRows /\ Edits = 0
OneEdit == FewRows /\ Edits <= 1

=============================================================================
