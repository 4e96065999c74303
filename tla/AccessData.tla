------------------------------ MODULE AccessData ------------------------------
(***************************************************************************)
(* Who may do what: the tables users, user_tenants, roles,                 *)
(* role_permissions, user_roles and tenants, the Keycloak accounts they    *)
(* mirror, and how a request finds its tenant and its permissions.         *)
(*                                                                         *)
(* A user is the sub of a Keycloak account and the primary key of the row  *)
(* that mirrors it; both carry an e-mail address, and either may change.   *)
(***************************************************************************)
EXTENDS Integers, FiniteSets

CONSTANTS
    People,          \* the subs of Keycloak accounts
    Addresses,       \* e-mail addresses, in lower case
    Placeholder,     \* the migration's user 'platform-admin-bootstrap'
    Tenants,         \* tenant names
    Platform,        \* the platform pseudo-tenant
    Default,         \* the seeded tenant 'default'
    Roles,           \* role slugs
    TenantAdmin, PlatformAdmin,  \* the system roles
    PlatformOwner,   \* Settings.platform_admin_email
    DefaultAdmin,    \* admin_email of the default tenant
    None,            \* NULL
    PermissionSets,  \* the permission sets that role edits choose from
    MaxOpen          \* bound on the requests between their check and their commit

Users == People \cup {Placeholder}

Assign          == "iam.user_role.assign"
Manage          == "iam.role.manage"
TenantManage    == "platform.tenant.manage"
WarehouseCreate == "warehouse.create"
Permissions == {Assign, Manage, TenantManage, WarehouseCreate}

ASSUME AccessAssumption ==
    /\ Placeholder \notin People
    /\ {PlatformOwner, DefaultAdmin} \subseteq Addresses
    /\ {Platform, Default} \subseteq Tenants /\ Platform # Default
    /\ {TenantAdmin, PlatformAdmin} \subseteq Roles /\ TenantAdmin # PlatformAdmin
    /\ None \notin Users \cup Roles \cup Addresses
    /\ PermissionSets \subseteq SUBSET Permissions
    /\ MaxOpen \in Nat

VARIABLES
    account,     \* Keycloak: the state of every account
    address,     \* Keycloak: its address
    former,      \* history: the addresses it had before, and tokens may carry
    users,       \* the local mirror: no row, live, or deleted_at set
    email,       \* users.email
    tenants,     \* rows of tenants
    adminEmail,  \* tenants.admin_email
    stocked,     \* the tenants that own warehouses
    member,      \* user_tenants
    roles,       \* rows of roles
    perms,       \* role_permissions
    grants,      \* user_roles: who holds which role in which tenant
    checked,     \* revocations that passed their lockout check, not committed
    deleting,    \* tenant deletions that counted their orphans, not committed
    lapses       \* history: what was committed against the intent of a check

keycloakVars == <<account, address, former>>
userVars     == <<users, email>>
tenantVars   == <<tenants, adminEmail, stocked>>
roleVars     == <<roles, perms>>
openVars     == <<checked, deleting, lapses>>
accessVars   == <<keycloakVars, userVars, tenantVars, member, roleVars, grants, openVars>>

-----------------------------------------------------------------------------
SystemRoles == {TenantAdmin, PlatformAdmin}

\* The permissions the migrations give the system roles.
SeededPermissions ==
    [r \in Roles |-> CASE r = TenantAdmin -> {Assign, Manage, WarehouseCreate}
                       [] r = PlatformAdmin -> {TenantManage}
                       [] OTHER -> {}]

-----------------------------------------------------------------------------
(* Queries.                                                                *)

TenantsOf(u) == {t \in Tenants : <<u, t>> \in member}

MembersOf(t) == {u \in Users : <<u, t>> \in member}

GrantsIn(t) == {g \in grants : g[3] = t}

RolesIn(u, t) == {r \in Roles : <<u, r, t>> \in grants}

\* platform_service._has_platform_admin
IsPlatformAdmin(u) == <<u, PlatformAdmin, Platform>> \in grants

\* permission_service.resolve_permissions
ResolvedPermissions(u, t) == UNION {perms[r] : r \in RolesIn(u, t)}

\* get_current_user, get_current_tenant and require_permission: the caller has a
\* token, exactly one membership, and the permission there.  Neither deleted_at
\* nor whether the account was disabled since the token was issued is looked at.
May(u, t, permission) ==
    /\ account[u] # "none"
    /\ TenantsOf(u) = {t}
    /\ permission \in ResolvedPermissions(u, t)

SomeoneMay(t, permission) == \E u \in People : May(u, t, permission)

SomeonePlatformMay == \E t \in Tenants : SomeoneMay(t, TenantManage)

\* A token carries the address its account has, or had when it was issued.
TokenSays(u, e) == account[u] # "none" /\ (e = address[u] \/ <<u, e>> \in former)

\* The address belongs to no other Keycloak account, which would be a conflict.
FreeInKeycloak(u, e) == \A v \in Users \ {u} : address[v] # e

\* No other row of users has the address (update_user, update_platform_admin).
FreeInUsers(u, e) == \A v \in Users \ {u} : email[v] # e

-----------------------------------------------------------------------------
\* The state the migrations leave: a placeholder platform administrator, with the
\* owner's address, and the default tenant, whose administrator has not signed in.
AccessInit ==
    /\ account = [u \in Users |-> "none"]
    /\ address = [u \in Users |-> None]
    /\ former = {}
    /\ users = [u \in Users |-> IF u = Placeholder THEN "live" ELSE "none"]
    /\ email = [u \in Users |-> IF u = Placeholder THEN PlatformOwner ELSE None]
    /\ tenants = {Platform, Default}
    /\ adminEmail = [t \in Tenants |-> IF t = Default THEN DefaultAdmin ELSE None]
    /\ stocked = {}
    /\ member = {<<Placeholder, Platform>>}
    /\ roles = SystemRoles
    /\ perms = SeededPermissions
    /\ grants = {<<Placeholder, PlatformAdmin, Platform>>}
    /\ checked = {}
    /\ deleting = {}
    /\ lapses = {}

-----------------------------------------------------------------------------
(* Accounts and rows.                                                      *)

FaultyProvision(u, e) == UNCHANGED keycloakVars

\* keycloak_admin.provision_user: the account u of this address, returned
\* untouched, a disabled one too; or a new one.
Provision(u, e) ==
    \/ /\ address[u] = e
       /\ UNCHANGED keycloakVars
    \/ /\ account[u] = "none" /\ FreeInKeycloak(u, e)
       /\ account' = [account EXCEPT ![u] = "enabled"]
       /\ address' = [address EXCEPT ![u] = e]
       /\ UNCHANGED former

\* keycloak_admin.update_user with an address.
ChangeAddress(u, e) ==
    /\ account[u] # "none" /\ FreeInKeycloak(u, e)
    /\ address' = [address EXCEPT ![u] = e]
    /\ former' = former \cup {<<u, a>> : a \in {address[u]} \ {e}}
    /\ UNCHANGED account

\* security.upsert_user: a deleted row stays deleted.
Mirror(u, e) ==
    /\ users' = [users EXCEPT ![u] = IF users[u] = "none" THEN "live" ELSE users[u]]
    /\ email' = [email EXCEPT ![u] = e]

\* set_enabled(u, False) for some of these accounts; the calls that fail are
\* logged and ignored.
Disable(gone) ==
    /\ \E off \in SUBSET {u \in gone : account[u] = "enabled"} :
          account' = [u \in Users |-> IF u \in off THEN "disabled" ELSE account[u]]
    /\ UNCHANGED <<address, former>>

\* A membership, unless it is there already, and the given roles.
Enrol(u, t, held) ==
    /\ member' = member \cup {<<u, t>>}
    /\ grants' = grants \cup {<<u, r, t>> : r \in held}

-----------------------------------------------------------------------------
(* A revocation reads who else holds the role in one step and deletes the  *)
(* row in another, with anything in between: nothing locks what it read.   *)

\* History: what happened, if it did.
Lapse(name, happened) == {l \in {name} : happened}

SlotFree == Cardinality(checked) + Cardinality(deleting) < MaxOpen

Open(handler, row) ==
    /\ SlotFree
    /\ checked' = checked \cup {<<handler, row>>}
    /\ UNCHANGED <<keycloakVars, userVars, tenantVars, member, roleVars, grants, deleting,
                   lapses>>

\* Deleting a row that is gone already has no effect, and no lapse.
Commit(handler, row, lapse) ==
    /\ <<handler, row>> \in checked
    /\ checked' = checked \ {<<handler, row>>}
    /\ grants' = grants \ {row}
    /\ lapses' = lapses \cup {l \in lapse : row \in grants}
    /\ UNCHANGED <<keycloakVars, userVars, tenantVars, member, roleVars, deleting>>

\* Revocations whose row's role or tenant was deleted: a later row of the same
\* name has another id, so they no longer touch anything.
Forget(revocations) == checked' = checked \ revocations

-----------------------------------------------------------------------------
(* The environment, and requests that change nothing but identities.       *)

\* An account exists in Keycloak that no committed request made: seeded in the
\* realm, or left behind by a provisioning request that then failed.
AccountAppears(u, e) ==
    /\ account[u] = "none" /\ FreeInKeycloak(u, e)
    /\ account' = [account EXCEPT ![u] = "enabled"]
    /\ address' = [address EXCEPT ![u] = e]
    /\ UNCHANGED <<former, userVars, tenantVars, member, roleVars, grants, openVars>>

\* delete_user or delete_tenant disabled the account, then failed to commit.
DisabledInVain(u) ==
    /\ account[u] = "enabled"
    /\ \E t \in TenantsOf(u) : SomeoneMay(t, Assign) \/ SomeonePlatformMay
    /\ account' = [account EXCEPT ![u] = "disabled"]
    /\ UNCHANGED <<address, former, userVars, tenantVars, member, roleVars, grants, openVars>>

\* update_user or update_platform_admin changed the address, then failed to
\* commit, or found no role of the requested name.
RenamedInVain(u, e) ==
    /\ e # email[u] => FreeInUsers(u, e)
    /\ \/ \E t \in TenantsOf(u) : SomeoneMay(t, Assign)
       \/ IsPlatformAdmin(u) /\ SomeonePlatformMay
    /\ ChangeAddress(u, e)
    /\ UNCHANGED <<userVars, tenantVars, member, roleVars, grants, openVars>>

\* _resolve_identity, when the caller's tenant is found: the row takes the
\* address in the token.
SignIn(u, e) ==
    /\ TokenSays(u, e)
    /\ Cardinality(TenantsOf(u)) = 1
    /\ Mirror(u, e)
    /\ UNCHANGED <<keycloakVars, tenantVars, member, roleVars, grants, openVars>>

\* bootstrap_platform_admin, on the first request of the platform owner; the
\* placeholder's membership and its role, while it has one, are replaced.
BootstrapPlatformAdmin(u) ==
    LET placed == RolesIn(Placeholder, Platform)
    IN  /\ TokenSays(u, PlatformOwner)
        /\ TenantsOf(u) = {}
        /\ Cardinality(placed) <= 1
        /\ Mirror(u, PlatformOwner)
        /\ member' = (IF placed # {} THEN member \ {<<Placeholder, Platform>>} ELSE member)
                       \cup {<<u, Platform>>}
        /\ grants' = {g \in grants : ~(g[1] = Placeholder /\ g[3] = Platform)}
                       \cup {<<u, PlatformAdmin, Platform>>}
        /\ UNCHANGED <<keycloakVars, tenantVars, roleVars, openVars>>

\* maybe_bootstrap_admin, on a request of someone without a tenant.
BootstrapTenantAdmin(u, e) ==
    /\ TokenSays(u, e) /\ e # PlatformOwner
    /\ TenantsOf(u) = {}
    /\ Default \in tenants
    /\ adminEmail[Default] = e
    /\ GrantsIn(Default) = {}
    /\ Mirror(u, e)
    /\ Enrol(u, Default, {TenantAdmin})
    /\ UNCHANGED <<keycloakVars, tenantVars, roleVars, openVars>>

\* warehouse_service.create_warehouse
CreateWarehouse(t) ==
    /\ t \in tenants
    /\ SomeoneMay(t, WarehouseCreate)
    /\ stocked' = stocked \cup {t}
    /\ UNCHANGED <<keycloakVars, userVars, tenants, adminEmail, member, roleVars, grants,
                   openVars>>

=============================================================================
