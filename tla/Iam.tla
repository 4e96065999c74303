--------------------------------- MODULE Iam ---------------------------------
(***************************************************************************)
(* iam_service: a tenant's own administration of users and roles.  Every   *)
(* request is one transaction and one action, except that revocations,     *)
(* which count the other holders before they delete, are split between the *)
(* check and the commit, so that anything may happen in between.           *)
(***************************************************************************)
EXTENDS AccessData

FaultyRoleSet(r) == {r}

\* create_user grants no role when the request names none.
RoleSet(r) == {r} \ {None}

\* create_user.  A deleted member with the address is a conflict as well, and so
\* is a role that an account found by its Keycloak address holds already.
CreateUser(t, u, e, r) ==
    /\ \A v \in MembersOf(t) : email[v] # e
    /\ r \in roles \cup {None}
    /\ SomeoneMay(t, Assign)
    /\ Provision(u, e)
    /\ Mirror(u, e)
    /\ RolesIn(u, t) \cap RoleSet(r) = {}
    /\ Enrol(u, t, RoleSet(r))
    /\ UNCHANGED <<tenantVars, roleVars, openVars>>

\* The address half of update_user; the placeholder has no account to change.
NewAddress(u, e) ==
    \/ e = None /\ UNCHANGED <<keycloakVars, userVars>>
    \/ /\ e # None
       /\ e # email[u] => FreeInUsers(u, e)
       /\ ChangeAddress(u, e)
       /\ email' = [email EXCEPT ![u] = e]
       /\ UNCHANGED users

\* The role half: it replaces the one the user holds, and a user with several is
\* an error (scalar_one_or_none).
NewRole(t, u, r) ==
    \/ r = None /\ UNCHANGED grants
    \/ /\ r \in roles
       /\ Cardinality(RolesIn(u, t)) <= 1
       /\ grants' = {g \in grants : ~(g[1] = u /\ g[3] = t)} \cup {<<u, r, t>>}

\* update_user, with an address, a role or both.
UpdateUser(t, u, e, r) ==
    /\ <<u, t>> \in member
    /\ SomeoneMay(t, Assign)
    /\ NewAddress(u, e)
    /\ NewRole(t, u, r)
    /\ lapses' = lapses \cup Lapse("demotion", IsPlatformAdmin(u) /\ ~IsPlatformAdmin(u)')
    /\ UNCHANGED <<tenantVars, member, roleVars, checked, deleting>>

FaultyDeleteUser(t, u) ==
    /\ <<u, t>> \in member /\ users[u] # "deleted"
    /\ SomeoneMay(t, Assign)
    /\ users' = [users EXCEPT ![u] = "deleted"]
    /\ Disable({u})
    /\ member' = member \ {<<u, t>>}
    /\ UNCHANGED <<email, tenantVars, roleVars, grants, openVars>>

\* delete_user: memberships and roles stay.
DeleteUser(t, u) ==
    /\ <<u, t>> \in member /\ users[u] # "deleted"
    /\ SomeoneMay(t, Assign)
    /\ users' = [users EXCEPT ![u] = "deleted"]
    /\ Disable({u})
    /\ UNCHANGED <<email, tenantVars, member, roleVars, grants, openVars>>

\* assign_role
AssignRole(t, u, r) ==
    /\ <<u, t>> \in member /\ users[u] # "deleted"
    /\ r \in roles /\ <<u, r, t>> \notin grants
    /\ SomeoneMay(t, Assign)
    /\ grants' = grants \cup {<<u, r, t>>}
    /\ UNCHANGED <<keycloakVars, userVars, tenantVars, member, roleVars, openVars>>

-----------------------------------------------------------------------------
(* Revocations of a role in the actor's own tenant.                        *)

\* revoke_role's count of the others who can assign roles; deleted users count.
OthersAssign(u, t) ==
    \E v \in Users \ {u} : Assign \in ResolvedPermissions(v, t)

\* The lockout check of revoke_role.
MayRevoke(u, r, t) == Assign \in perms[r] => OthersAssign(u, t)

CheckRevokeRole(t, u, r) ==
    /\ <<u, t>> \in member
    /\ <<u, r, t>> \in grants
    /\ MayRevoke(u, r, t)
    /\ SomeoneMay(t, Assign)
    /\ Open("revoke_role", <<u, r, t>>)

\* revoke_role looks at the permission to assign roles only: in the platform
\* tenant it may take the last platform administrator's role.
RevokeRole(t, u, r) ==
    Commit("revoke_role", <<u, r, t>>,
           Lapse("revoke_role", ~MayRevoke(u, r, t))
             \cup Lapse("demotion", r = PlatformAdmin /\ t = Platform))

-----------------------------------------------------------------------------
(* Roles.                                                                  *)

SomeManager == \E t \in Tenants : SomeoneMay(t, Manage)

CreateRole(r, ps) ==
    /\ r \notin roles
    /\ SomeManager
    /\ roles' = roles \cup {r}
    /\ perms' = [perms EXCEPT ![r] = ps]
    /\ UNCHANGED <<keycloakVars, userVars, tenantVars, member, grants, openVars>>

\* update_role replaces the permissions of any role, a system role's as well.
UpdateRole(r, ps) ==
    /\ r \in roles
    /\ SomeManager
    /\ perms' = [perms EXCEPT ![r] = ps]
    /\ UNCHANGED <<keycloakVars, userVars, tenantVars, member, roles, grants, openVars>>

\* delete_role: not a system role, and user_roles still refers to no one of it.
DeleteRole(r) ==
    /\ r \in roles \ SystemRoles
    /\ \A g \in grants : g[2] # r
    /\ SomeManager
    /\ roles' = roles \ {r}
    /\ perms' = [perms EXCEPT ![r] = {}]
    /\ Forget({c \in checked : c[2][2] = r})
    /\ UNCHANGED <<keycloakVars, userVars, tenantVars, member, grants, deleting, lapses>>

=============================================================================
