---------------------------- MODULE PlatformAdmins ----------------------------
(***************************************************************************)
(* platform_service: tenants as administrative objects, the accounts that  *)
(* administer them, and the platform administrators.  A handler that       *)
(* provisions calls Keycloak before it commits; the calls whose commit     *)
(* never comes are AccountAppears and DisabledInVain.                      *)
(***************************************************************************)
EXTENDS AccessData

\* _upsert_local_user: unlike upsert_user it revives a deleted row.
UpsertLocalUser(u, e) ==
    /\ users' = [users EXCEPT ![u] = "live"]
    /\ email' = [email EXCEPT ![u] = e]

\* _provision_admin
ProvisionAdmin(u, e, r, t) ==
    /\ Provision(u, e)
    /\ UpsertLocalUser(u, e)
    /\ Enrol(u, t, {r})

\* create_tenant
CreateTenant(t, u, e) ==
    /\ t \notin tenants
    /\ SomeonePlatformMay
    /\ tenants' = tenants \cup {t}
    /\ adminEmail' = [adminEmail EXCEPT ![t] = e]
    /\ ProvisionAdmin(u, e, TenantAdmin, t)
    /\ UNCHANGED <<stocked, roleVars, openVars>>

FaultyUpdateTenant(t, u, e) ==
    /\ t \in tenants \ {Platform}
    /\ e # adminEmail[t]
    /\ SomeonePlatformMay
    /\ adminEmail' = [adminEmail EXCEPT ![t] = e]
    /\ UNCHANGED <<keycloakVars, userVars, member, grants, tenants, stocked, roleVars,
                   openVars>>

\* update_tenant with another admin_email; the previous administrator stays.
UpdateTenant(t, u, e) ==
    /\ t \in tenants \ {Platform}
    /\ e # adminEmail[t]
    /\ SomeonePlatformMay
    /\ adminEmail' = [adminEmail EXCEPT ![t] = e]
    /\ ProvisionAdmin(u, e, TenantAdmin, t)
    /\ UNCHANGED <<tenants, stocked, roleVars, openVars>>

-----------------------------------------------------------------------------
(* delete_tenant reads and deletes the memberships, counts what its members *)
(* have left, and commits later; another transaction sees none of it before. *)

FaultyOrphans(t) == {}

\* The members whom the deletion of t leaves without any tenant.
Orphans(t) == {u \in Users : TenantsOf(u) = {t}}

FaultyEmpty(t) == TRUE

\* The tenant owns no warehouse.
Empty(t) == t \notin stocked

\* The deletions in progress: the rows each has deleted, and its orphans.
Deletions ==
    [tenant : Tenants, members : SUBSET Users, grants : SUBSET (Users \X Roles \X Tenants),
     orphans : SUBSET Users]

CountOrphans(t) ==
    /\ t \in tenants \ {Platform}
    /\ Empty(t)
    /\ SomeonePlatformMay
    /\ SlotFree
    /\ deleting' = deleting \cup {[tenant |-> t, members |-> MembersOf(t),
                                   grants |-> GrantsIn(t), orphans |-> Orphans(t)]}
    /\ UNCHANGED <<keycloakVars, userVars, tenantVars, member, roleVars, grants, checked,
                   lapses>>

\* The commit.  A warehouse, membership or role that came in between refers to the
\* tenant and makes the deletion of its row fail (foreign keys).
DeleteTenant(d) ==
    LET t == d.tenant
    IN  /\ d \in deleting
        /\ Empty(t) /\ MembersOf(t) \subseteq d.members /\ GrantsIn(t) \subseteq d.grants
        /\ grants' = grants \ GrantsIn(t)
        /\ member' = {m \in member : m[2] # t}
        /\ users' = [u \in Users |-> IF u \in d.orphans THEN "deleted" ELSE users[u]]
        /\ Disable(d.orphans)
        /\ tenants' = tenants \ {t}
        /\ adminEmail' = [adminEmail EXCEPT ![t] = None]
        /\ deleting' = {other \in deleting : other.tenant # t}
        /\ Forget({c \in checked : c[2][3] = t})
        /\ lapses' = lapses \cup Lapse("delete_tenant", ~(Orphans(t) \subseteq d.orphans))
        /\ UNCHANGED <<email, stocked, roleVars>>

\* It fails instead; the accounts disabled so far are DisabledInVain.
RollBackDeletion(d) ==
    /\ d \in deleting
    /\ deleting' = deleting \ {d}
    /\ UNCHANGED <<keycloakVars, userVars, tenantVars, member, roleVars, grants, checked,
                   lapses>>

-----------------------------------------------------------------------------
(* Platform administrators.                                                *)

\* The rows of users with this address; the placeholder has the owner's.
RowsOf(e) == {v \in Users : email[v] = e}

\* create_platform_admin with an address; the row looked at is any one of those.
CreatePlatformAdmin(u, e) ==
    /\ RowsOf(e) = {} \/ \E v \in RowsOf(e) : ~IsPlatformAdmin(v)
    /\ SomeonePlatformMay
    /\ ProvisionAdmin(u, e, PlatformAdmin, Platform)
    /\ UNCHANGED <<tenantVars, roleVars, openVars>>

\* update_platform_admin with an address
UpdatePlatformAdmin(u, e) ==
    /\ IsPlatformAdmin(u)
    /\ FreeInUsers(u, e)
    /\ SomeonePlatformMay
    /\ ChangeAddress(u, e)
    /\ email' = [email EXCEPT ![u] = e]
    /\ UNCHANGED <<users, tenantVars, member, roleVars, grants, openVars>>

\* assign_platform_admin: promote a user who already exists.
AssignPlatformAdmin(u) ==
    /\ users[u] = "live"
    /\ ~IsPlatformAdmin(u)
    /\ SomeonePlatformMay
    /\ Enrol(u, Platform, {PlatformAdmin})
    /\ UNCHANGED <<keycloakVars, userVars, tenantVars, roleVars, openVars>>

FaultyOtherAdmins(u) == {v \in Users : IsPlatformAdmin(v)} # {}

\* revoke_platform_admin's query.
OtherAdmins(u) == {v \in Users \ {u} : IsPlatformAdmin(v)} # {}

CheckRevokePlatformAdmin(u) ==
    /\ IsPlatformAdmin(u)
    /\ OtherAdmins(u)
    /\ SomeonePlatformMay
    /\ Open("revoke_platform_admin", <<u, PlatformAdmin, Platform>>)

\* revoke_platform_admin: the membership of the platform tenant stays.
RevokePlatformAdmin(u) ==
    Commit("revoke_platform_admin", <<u, PlatformAdmin, Platform>>,
           Lapse("revoke_platform_admin", ~OtherAdmins(u)))

=============================================================================
