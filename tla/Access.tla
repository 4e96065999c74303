-------------------------------- MODULE Access --------------------------------
(***************************************************************************)
(* Identity and access as a whole: tenants administer themselves (Iam),    *)
(* the platform administers tenants (PlatformAdmins), first sign-ins       *)
(* bootstrap, and Keycloak may be ahead of the database.                   *)
(***************************************************************************)
EXTENDS Iam, PlatformAdmins

AccessNext ==
    \/ \E u \in People, e \in Addresses :
          \/ AccountAppears(u, e)
          \/ RenamedInVain(u, e)
          \/ SignIn(u, e)
          \/ BootstrapTenantAdmin(u, e)
          \/ CreatePlatformAdmin(u, e)
          \/ UpdatePlatformAdmin(u, e)
    \/ \E u \in People : DisabledInVain(u) \/ BootstrapPlatformAdmin(u)
    \/ \E t \in Tenants, u \in People, e \in Addresses :
          \/ \E r \in Roles \cup {None} : CreateUser(t, u, e, r)
          \/ CreateTenant(t, u, e)
          \/ UpdateTenant(t, u, e)
    \/ \E t \in Tenants, u \in Users, e \in Addresses \cup {None}, r \in Roles \cup {None} :
          UpdateUser(t, u, e, r)
    \/ \E t \in Tenants, u \in Users, r \in Roles :
          \/ AssignRole(t, u, r)
          \/ CheckRevokeRole(t, u, r)
          \/ RevokeRole(t, u, r)
    \/ \E t \in Tenants, u \in Users : DeleteUser(t, u)
    \/ \E r \in Roles, ps \in PermissionSets : CreateRole(r, ps) \/ UpdateRole(r, ps)
    \/ \E r \in Roles : DeleteRole(r)
    \/ \E t \in Tenants : CountOrphans(t) \/ CreateWarehouse(t)
    \/ \E d \in deleting : DeleteTenant(d) \/ RollBackDeletion(d)
    \/ \E u \in Users :
          \/ AssignPlatformAdmin(u)
          \/ CheckRevokePlatformAdmin(u)
          \/ RevokePlatformAdmin(u)

AccessSpec == AccessInit /\ [][AccessNext]_accessVars

-----------------------------------------------------------------------------
\* Type invariant: every table holds rows of its type.
AccessTypeOK ==
    /\ account \in [Users -> {"none", "enabled", "disabled"}]
    /\ address \in [Users -> Addresses \cup {None}]
    /\ former \subseteq Users \X Addresses
    /\ users \in [Users -> {"none", "live", "deleted"}]
    /\ email \in [Users -> Addresses \cup {None}]
    /\ tenants \subseteq Tenants
    /\ adminEmail \in [Tenants -> Addresses \cup {None}]
    /\ stocked \subseteq Tenants
    /\ member \subseteq Users \X Tenants
    /\ roles \subseteq Roles
    /\ perms \in [Roles -> SUBSET Permissions]
    /\ grants \subseteq Users \X Roles \X Tenants
    /\ checked \subseteq {"revoke_role", "revoke_platform_admin"}
                         \X (Users \X Roles \X Tenants)
    /\ deleting \subseteq Deletions
    /\ lapses \subseteq {"revoke_role", "revoke_platform_admin", "delete_tenant", "demotion"}

\* Every role assignment is of an existing role, in an existing tenant, to one
\* of its members: no handler that removes a role, a membership or a tenant
\* leaves an assignment behind (user_roles has no foreign key to user_tenants).
GrantsAreBacked ==
    \A g \in grants : g[2] \in roles /\ g[3] \in tenants /\ <<g[1], g[3]>> \in member

\* A live user belongs to a tenant: whoever a deleted tenant leaves without one
\* is soft-deleted, and a request that finds none for its caller leaves no row.
\* Excepted is a deletion that committed on an outdated count (UsersLeftAreDeleted).
LiveUsersBelong ==
    "delete_tenant" \notin lapses =>
        \A u \in People : users[u] = "live" => TenantsOf(u) # {}

\* Keycloak is called before anything is committed, so that every local user has
\* an account.
RowsHaveAccounts == \A u \in People : users[u] # "none" => account[u] # "none"

\* A tenant made through the platform always has the person as a member who was
\* made its administrator: an account with its admin_email, or that had it before
\* its address was edited (_provision_admin: no half-provisioned tenant).
TenantsHaveTheirAdmin ==
    \A t \in tenants \ {Platform, Default} :
        \E u \in People :
            /\ <<u, t>> \in member
            /\ address[u] = adminEmail[t] \/ <<u, adminEmail[t]>> \in former

\* Warehouses always belong to a tenant that exists (delete_tenant refuses).
StockedTenantsExist == stocked \subseteq tenants

\* Somebody holds the platform administrator's role, whatever bootstraps,
\* promotions and revocations meet, unless two revocations overlapped or the
\* platform tenant's own user administration took it (revoke_platform_admin:
\* blocks self-lockout).
PlatformKeepsAdmin ==
    lapses \cap {"revoke_platform_admin", "demotion"} = {} => \E u \in Users : IsPlatformAdmin(u)

-----------------------------------------------------------------------------
(* What the documentation says and the code does not do.                   *)

\* Some user who has not been deleted can manage the roles of every tenant made
\* through the platform, unless two revocations overlapped.
TenantsKeepAManager ==
    "revoke_role" \notin lapses =>
        \A t \in tenants \ {Platform, Default} :
            \E u \in People : users[u] = "live" /\ Assign \in ResolvedPermissions(u, t)

\* A member of several tenants can still sign in: get_current_tenant finds one.
MembersCanSignIn == \A u \in People : Cardinality(TenantsOf(u)) <= 1

\* The administrator of a tenant is found by its admin_email: one of its members
\* has that address (_tenant_admin_user_id, reset_tenant_admin_password).
AdminEmailNamesAMember ==
    \A t \in tenants \ {Platform, Default} :
        \E u \in MembersOf(t) : email[u] = adminEmail[t]

\* The platform administrators can do their work, whatever tenants do within
\* their own boundary: someone in the platform tenant may manage tenants.
PlatformCanBeManaged ==
    lapses \cap {"revoke_platform_admin", "demotion"} = {} =>
        \E u \in Users : TenantManage \in ResolvedPermissions(u, Platform)

\* Users left without any tenant are soft-deleted, however deletions overlap.
UsersLeftAreDeleted == \A u \in People : users[u] = "live" => TenantsOf(u) # {}

=============================================================================
