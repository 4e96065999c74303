----------------------------- MODULE AccessProofs -----------------------------
(***************************************************************************)
(* Access keeps its tables consistent with each other and with Keycloak,   *)
(* for any people, addresses, tenants and roles.                           *)
(***************************************************************************)
EXTENDS Access, FiniteSetTheorems, TLAPS

USE DEF keycloakVars, userVars, tenantVars, roleVars, openVars

\* The address is the account's, or was before an edit.
Known(u, e) == address[u] = e \/ <<u, e>> \in former

\* Keycloak: every account has an address.
KeycloakOK ==
    /\ account \in [Users -> {"none", "enabled", "disabled"}]
    /\ address \in [Users -> Addresses \cup {None}]
    /\ former \subseteq Users \X Addresses
    /\ \A u \in Users : account[u] = "none" <=> address[u] = None

\* Accounts are never deleted, and what addresses they had is not forgotten.
KeycloakGrows ==
    \A u \in Users : /\ account[u] # "none" => account'[u] # "none"
                     /\ \A e \in Addresses : Known(u, e) => Known(u, e)'

\* Memberships, deletions in progress and administrators point at rows that exist.
RowsArePresent ==
    /\ Platform \in tenants
    /\ SystemRoles \subseteq roles
    /\ \A m \in member : m[2] \in tenants /\ users[m[1]] # "none"
    /\ \A t \in tenants \ {Platform, Default} : adminEmail[t] \in Addresses
    /\ \A d \in deleting : d.tenant # Platform /\ \A u \in d.orphans : users[u] # "none"

\* The inductive invariant.
AccessInv ==
    /\ AccessTypeOK
    /\ KeycloakOK
    /\ RowsArePresent
    /\ GrantsAreBacked
    /\ LiveUsersBelong
    /\ RowsHaveAccounts
    /\ TenantsHaveTheirAdmin
    /\ StockedTenantsExist
    /\ PlatformKeepsAdmin

-----------------------------------------------------------------------------
(* What the helpers do.                                                    *)

\* Keycloak left alone keeps what it has.
LEMMA KeycloakSame ==
    ASSUME KeycloakOK, UNCHANGED keycloakVars
    PROVE  KeycloakOK' /\ KeycloakGrows
  BY DEF KeycloakOK, KeycloakGrows, Known

\* A provisioned account exists under its address.
LEMMA ProvisionEffect ==
    ASSUME KeycloakOK, NEW u \in People, NEW e \in Addresses, Provision(u, e)
    PROVE  /\ KeycloakOK' /\ KeycloakGrows
           /\ account'[u] # "none" /\ address'[u] = e
<1>1. u \in Users /\ e # None
  BY AccessAssumption DEF Users
<1>2. CASE address[u] = e /\ UNCHANGED keycloakVars
  BY <1>1, <1>2, KeycloakSame DEF KeycloakOK
<1>3. CASE /\ account[u] = "none"
           /\ account' = [account EXCEPT ![u] = "enabled"]
           /\ address' = [address EXCEPT ![u] = e]
           /\ UNCHANGED former
  <2>1. KeycloakOK'
    BY <1>1, <1>3 DEF KeycloakOK
  <2>2. ASSUME NEW v \in Users PROVE account[v] # "none" => account'[v] # "none"
    BY <1>3 DEF KeycloakOK
  <2>3. ASSUME NEW v \in Users, NEW a \in Addresses, Known(v, a) PROVE Known(v, a)'
    <3>1. address[u] = None /\ a # None
      BY <1>1, <1>3, AccessAssumption DEF KeycloakOK
    <3> QED BY <1>3, <2>3, <3>1 DEF Known, KeycloakOK
  <2>4. account'[u] # "none" /\ address'[u] = e
    BY <1>1, <1>3 DEF KeycloakOK
  <2> QED BY <2>1, <2>2, <2>3, <2>4 DEF KeycloakGrows
<1> QED BY <1>2, <1>3 DEF Provision

\* An edited address is remembered.
LEMMA ChangeAddressEffect ==
    ASSUME KeycloakOK, NEW u \in Users, NEW e \in Addresses, ChangeAddress(u, e)
    PROVE  KeycloakOK' /\ KeycloakGrows
<1>1. e # None /\ address[u] \in Addresses
  BY AccessAssumption DEF KeycloakOK, ChangeAddress
<1>2. KeycloakOK'
  BY <1>1 DEF ChangeAddress, KeycloakOK
<1>3. ASSUME NEW v \in Users, NEW a \in Addresses, Known(v, a) PROVE Known(v, a)'
  BY <1>1, <1>3 DEF ChangeAddress, Known, KeycloakOK
<1> QED BY <1>2, <1>3 DEF KeycloakGrows, ChangeAddress

\* Disabled accounts are still accounts.
LEMMA DisableEffect ==
    ASSUME KeycloakOK, NEW gone \in SUBSET Users, Disable(gone)
    PROVE  KeycloakOK' /\ KeycloakGrows
<1>1. PICK off \in SUBSET {u \in gone : account[u] = "enabled"} :
           account' = [u \in Users |-> IF u \in off THEN "disabled" ELSE account[u]]
  BY DEF Disable
<1>2. KeycloakOK'
  BY <1>1 DEF KeycloakOK, Disable
<1>3. ASSUME NEW u \in Users PROVE account[u] # "none" => account'[u] # "none"
  BY <1>1
<1>4. ASSUME NEW u \in Users, NEW e \in Addresses PROVE Known(u, e) => Known(u, e)'
  BY DEF Disable, Known
<1> QED BY <1>2, <1>3, <1>4 DEF KeycloakGrows

\* Enrol adds one membership and roles in that tenant, and removes nothing.
LEMMA EnrolEffect ==
    ASSUME AccessTypeOK, NEW u \in Users, NEW t \in Tenants, NEW held \in SUBSET Roles,
           Enrol(u, t, held)
    PROVE  /\ member' \subseteq Users \X Tenants
           /\ grants' \subseteq Users \X Roles \X Tenants
           /\ member \subseteq member' /\ <<u, t>> \in member'
           /\ grants \subseteq grants'
           /\ \A m \in member' : m \in member \/ m = <<u, t>>
           /\ \A g \in grants' :
                 g \in grants \/ (g[1] = u /\ g[2] \in held /\ g[3] = t)
  BY DEF Enrol, AccessTypeOK

-----------------------------------------------------------------------------
(* When a step preserves each part of the invariant.                       *)

\* Rows of users keep an account if Keycloak grows and new rows have one.
LEMMA AccountsKept ==
    ASSUME RowsHaveAccounts, KeycloakGrows,
           \A u \in People : users'[u] # "none" => users[u] # "none" \/ account'[u] # "none"
    PROVE  RowsHaveAccounts'
  BY DEF RowsHaveAccounts, KeycloakGrows, Users

\* Whoever kept their memberships, and belonged to a tenant while live, still does.
LEMMA StillBelong ==
    ASSUME LiveUsersBelong, member \subseteq member', lapses \subseteq lapses',
           \A u \in People :
              users'[u] = "live" => users[u] = "live" \/ \E t \in Tenants : <<u, t>> \in member'
    PROVE  LiveUsersBelong'
<1> SUFFICES ASSUME "delete_tenant" \notin lapses', NEW u \in People, users'[u] = "live"
             PROVE  TenantsOf(u)' # {}
  BY DEF LiveUsersBelong
<1>1. CASE users[u] = "live"
  <2>1. PICK t \in Tenants : <<u, t>> \in member
    BY <1>1 DEF LiveUsersBelong, TenantsOf
  <2> QED BY <2>1 DEF TenantsOf
<1>2. CASE \E t \in Tenants : <<u, t>> \in member'
  BY <1>2 DEF TenantsOf
<1> QED BY <1>1, <1>2

\* Tenants whose administrators were not exchanged keep them, if people keep
\* their memberships.
LEMMA AdminsKept ==
    ASSUME TenantsHaveTheirAdmin, RowsArePresent, KeycloakGrows,
           NEW S, \A t \in S \ {Platform, Default} : t \in tenants /\ adminEmail'[t] = adminEmail[t],
           \A u \in People, t \in S : <<u, t>> \in member => <<u, t>> \in member'
    PROVE  \A t \in S \ {Platform, Default} :
              \E u \in People : <<u, t>> \in member' /\ Known(u, adminEmail[t])'
<1> SUFFICES ASSUME NEW t \in S \ {Platform, Default}
             PROVE  \E u \in People : <<u, t>> \in member' /\ Known(u, adminEmail[t])'
  OBVIOUS
<1>1. PICK u \in People : <<u, t>> \in member /\ Known(u, adminEmail[t])
  BY DEF TenantsHaveTheirAdmin, Known
<1>2. adminEmail[t] \in Addresses /\ adminEmail'[t] = adminEmail[t]
  BY DEF RowsArePresent
<1>3. Known(u, adminEmail[t])'
  BY <1>1, <1>2 DEF KeycloakGrows, Users, Known
<1> QED BY <1>1, <1>3

\* The same, of all the tenants there are.
LEMMA AllAdminsKept ==
    ASSUME TenantsHaveTheirAdmin, RowsArePresent, KeycloakGrows,
           tenants' = tenants, adminEmail' = adminEmail,
           \A u \in People, t \in tenants : <<u, t>> \in member => <<u, t>> \in member'
    PROVE  TenantsHaveTheirAdmin'
<1>1. \A t \in tenants \ {Platform, Default} : t \in tenants /\ adminEmail'[t] = adminEmail[t]
  OBVIOUS
<1>2. \A t \in tenants \ {Platform, Default} :
         \E u \in People : <<u, t>> \in member' /\ Known(u, adminEmail[t])'
  BY <1>1, AdminsKept
<1> QED BY <1>2 DEF TenantsHaveTheirAdmin, Known

\* Platform administrators who all keep their role are still there.
LEMMA AdminRoleKept ==
    ASSUME PlatformKeepsAdmin, lapses \subseteq lapses',
           \A u \in Users : IsPlatformAdmin(u) => IsPlatformAdmin(u)'
    PROVE  PlatformKeepsAdmin'
  BY DEF PlatformKeepsAdmin

\* A tenant in which someone may do something exists.
LEMMA ActorsTenantExists ==
    ASSUME RowsArePresent, NEW t \in Tenants, NEW p, SomeoneMay(t, p)
    PROVE  t \in tenants
<1>1. PICK a \in People : TenantsOf(a) = {t}
  BY DEF SomeoneMay, May
<1>2. <<a, t>> \in member
  BY <1>1 DEF TenantsOf
<1> QED BY <1>2 DEF RowsArePresent

\* A step on Keycloak alone.
LEMMA KeycloakStep ==
    ASSUME AccessInv, KeycloakOK', KeycloakGrows,
           UNCHANGED <<userVars, tenantVars, member, roleVars, grants, openVars>>
    PROVE  AccessInv'
<1> USE DEF AccessInv
<1>1. AccessTypeOK'
  BY DEF AccessTypeOK, KeycloakOK
<1>2. RowsHaveAccounts' /\ TenantsHaveTheirAdmin'
  BY AccountsKept, AllAdminsKept
<1>3. /\ RowsArePresent' /\ GrantsAreBacked' /\ LiveUsersBelong' /\ StockedTenantsExist'
      /\ PlatformKeepsAdmin'
  BY DEF RowsArePresent, GrantsAreBacked, LiveUsersBelong, TenantsOf, StockedTenantsExist,
         PlatformKeepsAdmin, IsPlatformAdmin
<1> QED BY <1>1, <1>2, <1>3

\* A step that touches only requests in progress, and starts no deletion of the
\* platform tenant or of users without a row.
LEMMA OpenStep ==
    ASSUME AccessInv,
           UNCHANGED <<keycloakVars, userVars, tenantVars, member, roleVars, grants, lapses>>,
           checked' \subseteq {"revoke_role", "revoke_platform_admin"}
                                 \X (Users \X Roles \X Tenants),
           deleting' \subseteq Deletions,
           \A d \in deleting' :
              d.tenant # Platform /\ \A u \in d.orphans : users[u] # "none"
    PROVE  AccessInv'
<1> USE DEF AccessInv
<1>1. AccessTypeOK'
  BY DEF AccessTypeOK, Deletions
<1>2. KeycloakOK'
  BY KeycloakSame
<1>3. /\ RowsArePresent' /\ GrantsAreBacked' /\ LiveUsersBelong' /\ RowsHaveAccounts'
      /\ TenantsHaveTheirAdmin' /\ StockedTenantsExist' /\ PlatformKeepsAdmin'
  BY DEF RowsArePresent, GrantsAreBacked, LiveUsersBelong, TenantsOf, RowsHaveAccounts,
         TenantsHaveTheirAdmin, StockedTenantsExist, PlatformKeepsAdmin, IsPlatformAdmin
<1> QED BY <1>1, <1>2, <1>3

\* A user is enrolled in a tenant, which may be new or get another admin_email:
\* the rest of the tables stays, and the new administrator is the enrolled one.
LEMMA EnrolStep ==
    ASSUME AccessInv, KeycloakOK', KeycloakGrows,
           NEW u \in Users, NEW t \in Tenants, NEW held \in SUBSET Roles, Enrol(u, t, held),
           held \subseteq roles, tenants' = tenants \cup {t},
           users' \in [Users -> {"none", "live", "deleted"}],
           email' \in [Users -> Addresses \cup {None}],
           adminEmail' \in [Tenants -> Addresses \cup {None}],
           \A v \in Users : users[v] # "none" => users'[v] # "none",
           users'[u] # "none", u \in People => account'[u] # "none",
           \A v \in Users \ {u} : users'[v] = users[v],
           \A s \in Tenants \ {t} : adminEmail'[s] = adminEmail[s],
           \/ t \in tenants /\ adminEmail'[t] = adminEmail[t]
           \/ u \in People /\ adminEmail'[t] \in Addresses /\ address'[u] = adminEmail'[t],
           UNCHANGED <<stocked, roleVars, openVars>>
    PROVE  AccessInv'
<1> USE DEF AccessInv
<1>0. /\ member' \subseteq Users \X Tenants
      /\ grants' \subseteq Users \X Roles \X Tenants
      /\ member \subseteq member' /\ <<u, t>> \in member'
      /\ grants \subseteq grants'
      /\ \A m \in member' : m \in member \/ m = <<u, t>>
      /\ \A g \in grants' : g \in grants \/ (g[1] = u /\ g[2] \in held /\ g[3] = t)
  BY EnrolEffect
<1>1. AccessTypeOK'
  BY <1>0 DEF AccessTypeOK, KeycloakOK, Deletions
<1>2. RowsArePresent'
  <2>1. \A m \in member' : m[2] \in tenants' /\ users'[m[1]] # "none"
    <3> SUFFICES ASSUME NEW m \in member' PROVE m[2] \in tenants' /\ users'[m[1]] # "none"
      OBVIOUS
    <3>1. CASE m = <<u, t>>
      BY <3>1
    <3>2. CASE m \in member
      BY <3>2 DEF RowsArePresent, AccessTypeOK
    <3> QED BY <1>0, <3>1, <3>2
  <2>2. \A s \in tenants' \ {Platform, Default} : adminEmail'[s] \in Addresses
    BY DEF RowsArePresent, AccessTypeOK
  <2>3. \A d \in deleting : \A v \in d.orphans : users'[v] # "none"
    BY DEF RowsArePresent, AccessTypeOK, Deletions
  <2> QED BY <2>1, <2>2, <2>3 DEF RowsArePresent
<1>3. GrantsAreBacked'
  BY <1>0 DEF GrantsAreBacked
<1>4. LiveUsersBelong'
  BY <1>0, StillBelong DEF Users
<1>5. RowsHaveAccounts'
  BY AccountsKept DEF Users
<1>6. TenantsHaveTheirAdmin'
  <2>1. \A s \in (tenants \ {t}) \ {Platform, Default} :
           \E v \in People : <<v, s>> \in member' /\ Known(v, adminEmail[s])'
    <3> DEFINE S == tenants \ {t}
    <3>1. \A s \in S \ {Platform, Default} : s \in tenants /\ adminEmail'[s] = adminEmail[s]
      BY DEF AccessTypeOK
    <3>2. \A v \in People, s \in S : <<v, s>> \in member => <<v, s>> \in member'
      BY <1>0
    <3> HIDE DEF S
    <3>3. \A s \in S \ {Platform, Default} :
             \E v \in People : <<v, s>> \in member' /\ Known(v, adminEmail[s])'
      BY <3>1, <3>2, AdminsKept
    <3> QED BY <3>3 DEF S
  <2>2. CASE t \in tenants /\ adminEmail'[t] = adminEmail[t]
    BY <1>0, <2>2, AllAdminsKept DEF AccessTypeOK
  <2>3. CASE u \in People /\ adminEmail'[t] \in Addresses /\ address'[u] = adminEmail'[t]
    BY <1>0, <2>1, <2>3 DEF TenantsHaveTheirAdmin, Known
  <2> QED BY <2>2, <2>3
<1>7. StockedTenantsExist'
  BY DEF StockedTenantsExist
<1>8. PlatformKeepsAdmin'
  BY <1>0, AdminRoleKept DEF IsPlatformAdmin
<1> QED BY <1>1, <1>2, <1>3, <1>4, <1>5, <1>6, <1>7, <1>8

-----------------------------------------------------------------------------
(* One lemma per action.                                                   *)

LEMMA AccountAppearsStep ==
    ASSUME AccessInv, NEW u \in People, NEW e \in Addresses, AccountAppears(u, e)
    PROVE  AccessInv'
<1>1. Provision(u, e)
  BY DEF AccountAppears, Provision
<1>2. KeycloakOK' /\ KeycloakGrows
  BY <1>1, ProvisionEffect DEF AccessInv
<1> QED BY <1>2, KeycloakStep DEF AccountAppears

LEMMA DisabledInVainStep ==
    ASSUME AccessInv, NEW u \in People, DisabledInVain(u)
    PROVE  AccessInv'
<1>1. KeycloakOK'
  BY DEF DisabledInVain, KeycloakOK, AccessInv
<1>2. KeycloakGrows
  BY DEF DisabledInVain, KeycloakOK, KeycloakGrows, Known, AccessInv
<1> QED BY <1>1, <1>2, KeycloakStep DEF DisabledInVain

LEMMA RenamedInVainStep ==
    ASSUME AccessInv, NEW u \in People, NEW e \in Addresses, RenamedInVain(u, e)
    PROVE  AccessInv'
<1>1. KeycloakOK' /\ KeycloakGrows
  BY ChangeAddressEffect DEF RenamedInVain, AccessInv, Users
<1> QED BY <1>1, KeycloakStep DEF RenamedInVain

\* A caller with a tenant has a row already.
LEMMA SignInStep ==
    ASSUME AccessInv, NEW u \in People, NEW e \in Addresses, SignIn(u, e)
    PROVE  AccessInv'
<1> USE DEF AccessInv
<1>1. /\ account[u] # "none" /\ u \in Users
      /\ Mirror(u, e)
      /\ UNCHANGED <<keycloakVars, tenantVars, member, roleVars, grants, openVars>>
  BY DEF SignIn, TokenSays, Users
<1>2. users[u] # "none"
  <2>1. TenantsOf(u) # {}
    <3>1. TenantsOf(u) = {} => Cardinality(TenantsOf(u)) = 0
      BY FS_EmptySet
    <3> QED BY <3>1 DEF SignIn
  <2>2. PICK t \in Tenants : <<u, t>> \in member
    BY <2>1 DEF TenantsOf
  <2> QED BY <2>2 DEF RowsArePresent
<1>3. users' = users
  BY <1>1, <1>2 DEF Mirror, AccessTypeOK
<1>4. KeycloakOK' /\ KeycloakGrows
  BY <1>1, KeycloakSame
<1>5. AccessTypeOK'
  BY <1>1, <1>3 DEF Mirror, AccessTypeOK
<1>6. RowsHaveAccounts' /\ TenantsHaveTheirAdmin'
  BY <1>1, <1>3, <1>4, AccountsKept, AllAdminsKept
<1>7. /\ RowsArePresent' /\ GrantsAreBacked' /\ LiveUsersBelong' /\ StockedTenantsExist'
      /\ PlatformKeepsAdmin'
  BY <1>1, <1>3 DEF RowsArePresent, GrantsAreBacked, LiveUsersBelong, TenantsOf,
     StockedTenantsExist, PlatformKeepsAdmin, IsPlatformAdmin
<1> QED BY <1>4, <1>5, <1>6, <1>7

\* The default tenant gets its administrator, who becomes a member of it.
LEMMA BootstrapTenantAdminStep ==
    ASSUME AccessInv, NEW u \in People, NEW e \in Addresses, BootstrapTenantAdmin(u, e)
    PROVE  AccessInv'
<1>1. /\ account[u] # "none" /\ u \in Users /\ Default \in tenants
      /\ Mirror(u, e) /\ Enrol(u, Default, {TenantAdmin})
      /\ UNCHANGED <<keycloakVars, tenantVars, roleVars, openVars>>
  BY DEF BootstrapTenantAdmin, TokenSays, Users
<1>2. KeycloakOK' /\ KeycloakGrows
  BY <1>1, KeycloakSame DEF AccessInv
<1>3. {TenantAdmin} \subseteq roles /\ {TenantAdmin} \in SUBSET Roles /\ Default \in Tenants
  BY AccessAssumption DEF AccessInv, RowsArePresent, SystemRoles
<1>4. /\ users' \in [Users -> {"none", "live", "deleted"}]
      /\ email' \in [Users -> Addresses \cup {None}]
      /\ \A v \in Users : users[v] # "none" => users'[v] # "none"
      /\ users'[u] # "none" /\ \A v \in Users \ {u} : users'[v] = users[v]
  BY <1>1 DEF Mirror, AccessInv, AccessTypeOK
<1>5. account'[u] # "none" /\ adminEmail' \in [Tenants -> Addresses \cup {None}]
  BY <1>1 DEF AccessInv, AccessTypeOK
<1> QED BY <1>1, <1>2, <1>3, <1>4, <1>5, EnrolStep

\* A provisioned administrator has an account, a live row, a membership and the
\* role.
LEMMA ProvisionAdminEffect ==
    ASSUME AccessInv, NEW u \in People, NEW e \in Addresses, NEW r \in SystemRoles,
           NEW t \in Tenants, ProvisionAdmin(u, e, r, t)
    PROVE  /\ KeycloakOK' /\ KeycloakGrows /\ Enrol(u, t, {r})
           /\ {r} \subseteq roles /\ {r} \in SUBSET Roles
           /\ account'[u] # "none" /\ address'[u] = e
           /\ users' \in [Users -> {"none", "live", "deleted"}]
           /\ email' \in [Users -> Addresses \cup {None}]
           /\ \A v \in Users : users[v] # "none" => users'[v] # "none"
           /\ users'[u] # "none" /\ \A v \in Users \ {u} : users'[v] = users[v]
<1>1. /\ KeycloakOK' /\ KeycloakGrows /\ account'[u] # "none" /\ address'[u] = e
  BY ProvisionEffect DEF ProvisionAdmin, AccessInv
<1>2. {r} \subseteq roles /\ {r} \in SUBSET Roles
  BY AccessAssumption DEF AccessInv, RowsArePresent, SystemRoles
<1>3. /\ users' \in [Users -> {"none", "live", "deleted"}]
      /\ email' \in [Users -> Addresses \cup {None}]
      /\ \A v \in Users : users[v] # "none" => users'[v] # "none"
      /\ users'[u] # "none" /\ \A v \in Users \ {u} : users'[v] = users[v]
  BY DEF ProvisionAdmin, UpsertLocalUser, AccessInv, AccessTypeOK, Users
<1> QED BY <1>1, <1>2, <1>3 DEF ProvisionAdmin

LEMMA CreatePlatformAdminStep ==
    ASSUME AccessInv, NEW u \in People, NEW e \in Addresses, CreatePlatformAdmin(u, e)
    PROVE  AccessInv'
<1>1. ProvisionAdmin(u, e, PlatformAdmin, Platform) /\ UNCHANGED <<tenantVars, roleVars, openVars>>
  BY DEF CreatePlatformAdmin
<1>2. Platform \in tenants /\ Platform \in Tenants /\ PlatformAdmin \in SystemRoles /\ u \in Users
  BY AccessAssumption DEF AccessInv, RowsArePresent, SystemRoles, Users
<1>3. adminEmail' \in [Tenants -> Addresses \cup {None}] /\ tenants' = tenants \cup {Platform}
  BY <1>1, <1>2 DEF AccessInv, AccessTypeOK
<1>4. /\ KeycloakOK' /\ KeycloakGrows /\ Enrol(u, Platform, {PlatformAdmin})
      /\ {PlatformAdmin} \subseteq roles /\ {PlatformAdmin} \in SUBSET Roles
      /\ account'[u] # "none" /\ address'[u] = e
      /\ users' \in [Users -> {"none", "live", "deleted"}]
      /\ email' \in [Users -> Addresses \cup {None}]
      /\ \A v \in Users : users[v] # "none" => users'[v] # "none"
      /\ users'[u] # "none" /\ \A v \in Users \ {u} : users'[v] = users[v]
  BY <1>1, <1>2, ProvisionAdminEffect
<1> QED BY <1>1, <1>2, <1>3, <1>4, EnrolStep

\* A new tenant has its administrator from the start.
LEMMA CreateTenantStep ==
    ASSUME AccessInv, NEW t \in Tenants, NEW u \in People, NEW e \in Addresses,
           CreateTenant(t, u, e)
    PROVE  AccessInv'
<1>1. /\ ProvisionAdmin(u, e, TenantAdmin, t)
      /\ tenants' = tenants \cup {t} /\ adminEmail' = [adminEmail EXCEPT ![t] = e]
      /\ UNCHANGED <<stocked, roleVars, openVars>>
  BY DEF CreateTenant
<1>2. TenantAdmin \in SystemRoles /\ u \in Users
  BY DEF SystemRoles, Users
<1>3. /\ adminEmail' \in [Tenants -> Addresses \cup {None}] /\ adminEmail'[t] = e
      /\ \A s \in Tenants \ {t} : adminEmail'[s] = adminEmail[s]
  BY <1>1 DEF AccessInv, AccessTypeOK
<1>4. /\ KeycloakOK' /\ KeycloakGrows /\ Enrol(u, t, {TenantAdmin})
      /\ {TenantAdmin} \subseteq roles /\ {TenantAdmin} \in SUBSET Roles
      /\ account'[u] # "none" /\ address'[u] = e
      /\ users' \in [Users -> {"none", "live", "deleted"}]
      /\ email' \in [Users -> Addresses \cup {None}]
      /\ \A v \in Users : users[v] # "none" => users'[v] # "none"
      /\ users'[u] # "none" /\ \A v \in Users \ {u} : users'[v] = users[v]
  BY <1>1, <1>2, ProvisionAdminEffect
<1> QED BY <1>1, <1>2, <1>3, <1>4, EnrolStep

\* The new administrator is enrolled before admin_email names them.
LEMMA UpdateTenantStep ==
    ASSUME AccessInv, NEW t \in Tenants, NEW u \in People, NEW e \in Addresses,
           UpdateTenant(t, u, e)
    PROVE  AccessInv'
<1>1. /\ ProvisionAdmin(u, e, TenantAdmin, t)
      /\ tenants' = tenants \cup {t} /\ adminEmail' = [adminEmail EXCEPT ![t] = e]
      /\ UNCHANGED <<stocked, roleVars, openVars>>
  BY DEF UpdateTenant
<1>2. TenantAdmin \in SystemRoles /\ u \in Users
  BY DEF SystemRoles, Users
<1>3. /\ adminEmail' \in [Tenants -> Addresses \cup {None}] /\ adminEmail'[t] = e
      /\ \A s \in Tenants \ {t} : adminEmail'[s] = adminEmail[s]
  BY <1>1 DEF AccessInv, AccessTypeOK
<1>4. /\ KeycloakOK' /\ KeycloakGrows /\ Enrol(u, t, {TenantAdmin})
      /\ {TenantAdmin} \subseteq roles /\ {TenantAdmin} \in SUBSET Roles
      /\ account'[u] # "none" /\ address'[u] = e
      /\ users' \in [Users -> {"none", "live", "deleted"}]
      /\ email' \in [Users -> Addresses \cup {None}]
      /\ \A v \in Users : users[v] # "none" => users'[v] # "none"
      /\ users'[u] # "none" /\ \A v \in Users \ {u} : users'[v] = users[v]
  BY <1>1, <1>2, ProvisionAdminEffect
<1> QED BY <1>1, <1>2, <1>3, <1>4, EnrolStep

\* A promoted user is live, so that there is a row and an account.
LEMMA AssignPlatformAdminStep ==
    ASSUME AccessInv, NEW u \in Users, AssignPlatformAdmin(u)
    PROVE  AccessInv'
<1>1. /\ users[u] = "live" /\ Enrol(u, Platform, {PlatformAdmin})
      /\ UNCHANGED <<keycloakVars, userVars, tenantVars, roleVars, openVars>>
  BY DEF AssignPlatformAdmin
<1>2. KeycloakOK' /\ KeycloakGrows
  BY <1>1, KeycloakSame DEF AccessInv
<1>3. /\ {PlatformAdmin} \subseteq roles /\ {PlatformAdmin} \in SUBSET Roles
      /\ Platform \in Tenants /\ tenants' = tenants \cup {Platform} /\ Platform \in tenants
  BY <1>1, AccessAssumption DEF AccessInv, RowsArePresent, SystemRoles
<1>4. /\ users' \in [Users -> {"none", "live", "deleted"}]
      /\ email' \in [Users -> Addresses \cup {None}]
      /\ adminEmail' \in [Tenants -> Addresses \cup {None}]
  BY <1>1 DEF AccessInv, AccessTypeOK
<1>5. users'[u] # "none" /\ (u \in People => account'[u] # "none")
  BY <1>1 DEF AccessInv, RowsHaveAccounts
<1> QED BY <1>1, <1>2, <1>3, <1>4, <1>5, EnrolStep

\* A tenant gets a member: the tenant exists, as someone in it may assign roles.
LEMMA CreateUserStep ==
    ASSUME AccessInv, NEW t \in Tenants, NEW u \in People, NEW e \in Addresses,
           NEW r \in Roles \cup {None}, CreateUser(t, u, e, r)
    PROVE  AccessInv'
<1>1. /\ Provision(u, e) /\ Mirror(u, e) /\ Enrol(u, t, RoleSet(r))
      /\ UNCHANGED <<tenantVars, roleVars, openVars>>
      /\ r \in roles \cup {None} /\ u \in Users
  BY DEF CreateUser, Users
<1>2. KeycloakOK' /\ KeycloakGrows /\ account'[u] # "none"
  BY <1>1, ProvisionEffect DEF AccessInv
<1>3. t \in tenants /\ tenants' = tenants \cup {t}
  BY <1>1, ActorsTenantExists DEF CreateUser, AccessInv
<1>4. RoleSet(r) \subseteq roles /\ RoleSet(r) \in SUBSET Roles
  BY <1>1 DEF RoleSet
<1>5. /\ users' \in [Users -> {"none", "live", "deleted"}]
      /\ email' \in [Users -> Addresses \cup {None}]
      /\ \A v \in Users : users[v] # "none" => users'[v] # "none"
      /\ users'[u] # "none" /\ \A v \in Users \ {u} : users'[v] = users[v]
  BY <1>1 DEF Mirror, AccessInv, AccessTypeOK
<1>6. adminEmail' \in [Tenants -> Addresses \cup {None}]
  BY <1>1 DEF AccessInv, AccessTypeOK
<1> QED BY <1>1, <1>2, <1>3, <1>4, <1>5, <1>6, EnrolStep

\* The owner takes the place of the placeholder, whose roles in the platform
\* tenant all go, so that dropping its membership leaves no role behind.
LEMMA BootstrapPlatformAdminStep ==
    ASSUME AccessInv, NEW u \in People, BootstrapPlatformAdmin(u)
    PROVE  AccessInv'
<1> USE DEF AccessInv
<1> DEFINE placed == RolesIn(Placeholder, Platform)
<1>1. /\ account[u] # "none" /\ u \in Users /\ u # Placeholder
      /\ Mirror(u, PlatformOwner)
      /\ member' = (IF placed # {} THEN member \ {<<Placeholder, Platform>>} ELSE member)
                     \cup {<<u, Platform>>}
      /\ grants' = {g \in grants : ~(g[1] = Placeholder /\ g[3] = Platform)}
                     \cup {<<u, PlatformAdmin, Platform>>}
      /\ UNCHANGED <<keycloakVars, tenantVars, roleVars, openVars>>
  BY AccessAssumption DEF BootstrapPlatformAdmin, TokenSays, Users
<1> HIDE DEF placed
<1>2. /\ users' \in [Users -> {"none", "live", "deleted"}]
      /\ email' \in [Users -> Addresses \cup {None}]
      /\ \A v \in Users : users[v] # "none" => users'[v] # "none"
      /\ users'[u] # "none" /\ \A v \in Users \ {u} : users'[v] = users[v]
  BY <1>1, AccessAssumption DEF Mirror, AccessTypeOK
<1>3. KeycloakOK' /\ KeycloakGrows
  BY <1>1, KeycloakSame
<1>4. AccessTypeOK'
  <2>1. member' \subseteq Users \X Tenants /\ grants' \subseteq Users \X Roles \X Tenants
    BY <1>1, AccessAssumption DEF AccessTypeOK
  <2> QED BY <1>1, <1>2, <2>1 DEF AccessTypeOK
<1>5. RowsArePresent'
  <2>1. \A m \in member' : m[2] \in tenants' /\ users'[m[1]] # "none"
    BY <1>1, <1>2 DEF RowsArePresent, AccessTypeOK
  <2>2. \A d \in deleting' : \A v \in d.orphans : users'[v] # "none"
    BY <1>1, <1>2 DEF RowsArePresent, AccessTypeOK, Deletions
  <2> QED BY <1>1, <2>1, <2>2 DEF RowsArePresent
<1>6. GrantsAreBacked'
  <2> SUFFICES ASSUME NEW g \in grants'
               PROVE  g[2] \in roles /\ g[3] \in tenants /\ <<g[1], g[3]>> \in member'
    BY <1>1 DEF GrantsAreBacked
  <2>1. CASE g = <<u, PlatformAdmin, Platform>>
    BY <1>1, <2>1 DEF RowsArePresent, SystemRoles
  <2>2. CASE g \in grants /\ ~(g[1] = Placeholder /\ g[3] = Platform)
    <3>1. g[2] \in roles /\ g[3] \in tenants /\ <<g[1], g[3]>> \in member
      BY <2>2 DEF GrantsAreBacked
    <3>2. <<g[1], g[3]>> # <<Placeholder, Platform>>
      BY <2>2
    <3> QED BY <1>1, <3>1, <3>2
  <2> QED BY <1>1, <2>1, <2>2
<1>7. LiveUsersBelong'
  <2> SUFFICES ASSUME "delete_tenant" \notin lapses, NEW v \in People, users'[v] = "live"
               PROVE  TenantsOf(v)' # {}
    BY <1>1 DEF LiveUsersBelong
  <2>1. CASE v = u
    BY <1>1, <2>1, AccessAssumption DEF TenantsOf
  <2>2. CASE v # u
    <3>1. users[v] = "live"
      BY <1>2, <2>2 DEF Users
    <3>2. PICK t \in Tenants : <<v, t>> \in member
      BY <3>1 DEF LiveUsersBelong, TenantsOf
    <3>3. <<v, t>> \in member'
      BY <1>1, <3>2, AccessAssumption
    <3> QED BY <3>3 DEF TenantsOf
  <2> QED BY <2>1, <2>2
<1>8. RowsHaveAccounts'
  BY <1>1, <1>2, <1>3, AccountsKept DEF Users
<1>9. TenantsHaveTheirAdmin'
  <2>1. \A v \in People, t \in tenants : <<v, t>> \in member => <<v, t>> \in member'
    BY <1>1, AccessAssumption
  <2> QED BY <1>1, <1>3, <2>1, AllAdminsKept
<1>10. PlatformKeepsAdmin' /\ StockedTenantsExist'
  BY <1>1 DEF PlatformKeepsAdmin, IsPlatformAdmin, StockedTenantsExist
<1> QED BY <1>3, <1>4, <1>5, <1>6, <1>7, <1>8, <1>9, <1>10

\* Replacing the role of a platform administrator is a lapse; an address that is
\* edited is remembered.
LEMMA UpdateUserStep ==
    ASSUME AccessInv, NEW t \in Tenants, NEW u \in Users, NEW e \in Addresses \cup {None},
           NEW r \in Roles \cup {None}, UpdateUser(t, u, e, r)
    PROVE  AccessInv'
<1> USE DEF AccessInv
<1>1. /\ <<u, t>> \in member /\ t \in tenants
      /\ lapses' = lapses \cup Lapse("demotion", IsPlatformAdmin(u) /\ ~IsPlatformAdmin(u)')
      /\ UNCHANGED <<tenantVars, member, roleVars, checked, deleting>>
  BY DEF UpdateUser, RowsArePresent
<1>2. /\ KeycloakOK' /\ KeycloakGrows /\ users' = users
      /\ email' \in [Users -> Addresses \cup {None}]
  <2>1. CASE e = None /\ UNCHANGED <<keycloakVars, userVars>>
    BY <2>1, KeycloakSame DEF AccessTypeOK
  <2>2. CASE e # None /\ ChangeAddress(u, e) /\ email' = [email EXCEPT ![u] = e]
             /\ UNCHANGED users
    BY <2>2, ChangeAddressEffect DEF AccessTypeOK
  <2> QED BY <2>1, <2>2 DEF UpdateUser, NewAddress
<1>3. /\ grants' \subseteq Users \X Roles \X Tenants
      /\ \A g \in grants' : g \in grants \/ (g = <<u, r, t>> /\ r \in roles)
      /\ \A g \in grants : g[1] # u => g \in grants'
  BY DEF UpdateUser, NewRole, AccessTypeOK
<1>4. AccessTypeOK'
  <2>1. lapses' \subseteq {"revoke_role", "revoke_platform_admin", "delete_tenant", "demotion"}
    BY <1>1 DEF AccessTypeOK, Lapse
  <2> QED BY <1>1, <1>2, <1>3, <2>1 DEF AccessTypeOK, KeycloakOK
<1>5. GrantsAreBacked'
  <2> SUFFICES ASSUME NEW g \in grants'
               PROVE  g[2] \in roles /\ g[3] \in tenants /\ <<g[1], g[3]>> \in member
    BY <1>1 DEF GrantsAreBacked
  <2>1. CASE g = <<u, r, t>> /\ r \in roles
    BY <1>1, <2>1
  <2>2. CASE g \in grants
    BY <2>2 DEF GrantsAreBacked
  <2> QED BY <1>3, <2>1, <2>2
<1>6. PlatformKeepsAdmin'
  <2> SUFFICES ASSUME lapses' \cap {"revoke_platform_admin", "demotion"} = {}
               PROVE  \E v \in Users : IsPlatformAdmin(v)'
    BY DEF PlatformKeepsAdmin
  <2>1. PICK v \in Users : IsPlatformAdmin(v)
    BY <1>1 DEF PlatformKeepsAdmin
  <2>2. CASE v # u
    BY <1>3, <2>1, <2>2 DEF IsPlatformAdmin
  <2>3. CASE v = u
    BY <1>1, <2>1, <2>3 DEF Lapse
  <2> QED BY <2>2, <2>3
<1>7. RowsHaveAccounts' /\ TenantsHaveTheirAdmin'
  BY <1>1, <1>2, AccountsKept, AllAdminsKept
<1>8. RowsArePresent' /\ LiveUsersBelong' /\ StockedTenantsExist'
  BY <1>1, <1>2 DEF RowsArePresent, LiveUsersBelong, TenantsOf, StockedTenantsExist
<1> QED BY <1>2, <1>4, <1>5, <1>6, <1>7, <1>8

LEMMA UpdatePlatformAdminStep ==
    ASSUME AccessInv, NEW u \in People, NEW e \in Addresses, UpdatePlatformAdmin(u, e)
    PROVE  AccessInv'
<1> USE DEF AccessInv
<1>1. /\ ChangeAddress(u, e) /\ email' = [email EXCEPT ![u] = e] /\ u \in Users
      /\ UNCHANGED <<users, tenantVars, member, roleVars, grants, openVars>>
  BY DEF UpdatePlatformAdmin, Users
<1>2. KeycloakOK' /\ KeycloakGrows
  BY <1>1, ChangeAddressEffect
<1>3. AccessTypeOK'
  BY <1>1, <1>2 DEF AccessTypeOK, KeycloakOK
<1>4. RowsHaveAccounts' /\ TenantsHaveTheirAdmin'
  BY <1>1, <1>2, AccountsKept, AllAdminsKept
<1>5. /\ RowsArePresent' /\ GrantsAreBacked' /\ LiveUsersBelong' /\ StockedTenantsExist'
      /\ PlatformKeepsAdmin'
  BY <1>1 DEF RowsArePresent, GrantsAreBacked, LiveUsersBelong, TenantsOf,
     StockedTenantsExist, PlatformKeepsAdmin, IsPlatformAdmin
<1> QED BY <1>2, <1>3, <1>4, <1>5

\* A role is assigned to a member only.
LEMMA AssignRoleStep ==
    ASSUME AccessInv, NEW t \in Tenants, NEW u \in Users, NEW r \in Roles,
           AssignRole(t, u, r)
    PROVE  AccessInv'
<1> USE DEF AccessInv
<1>1. /\ <<u, t>> \in member /\ t \in tenants /\ r \in roles
      /\ grants' = grants \cup {<<u, r, t>>}
      /\ UNCHANGED <<keycloakVars, userVars, tenantVars, member, roleVars, openVars>>
  BY DEF AssignRole, RowsArePresent
<1>2. AccessTypeOK'
  BY <1>1 DEF AccessTypeOK
<1>3. KeycloakOK' /\ KeycloakGrows
  BY <1>1, KeycloakSame
<1>4. GrantsAreBacked'
  <2> SUFFICES ASSUME NEW g \in grants'
               PROVE  g[2] \in roles /\ g[3] \in tenants /\ <<g[1], g[3]>> \in member
    BY <1>1 DEF GrantsAreBacked
  <2>1. CASE g = <<u, r, t>>
    BY <1>1, <2>1
  <2>2. CASE g \in grants
    BY <2>2 DEF GrantsAreBacked
  <2> QED BY <1>1, <2>1, <2>2
<1>5. RowsHaveAccounts' /\ TenantsHaveTheirAdmin'
  BY <1>1, <1>3, AccountsKept, AllAdminsKept
<1>6. /\ RowsArePresent' /\ LiveUsersBelong' /\ StockedTenantsExist' /\ PlatformKeepsAdmin'
  BY <1>1 DEF RowsArePresent, LiveUsersBelong, TenantsOf, StockedTenantsExist,
     PlatformKeepsAdmin, IsPlatformAdmin
<1> QED BY <1>2, <1>3, <1>4, <1>5, <1>6

\* Passing a check changes no table.
LEMMA CheckRevokeRoleStep ==
    ASSUME AccessInv, NEW t \in Tenants, NEW u \in Users, NEW r \in Roles,
           CheckRevokeRole(t, u, r)
    PROVE  AccessInv'
  BY OpenStep DEF CheckRevokeRole, Open, AccessInv, AccessTypeOK, RowsArePresent

LEMMA CheckRevokePlatformAdminStep ==
    ASSUME AccessInv, NEW u \in Users, CheckRevokePlatformAdmin(u)
    PROVE  AccessInv'
<1>1. <<u, PlatformAdmin, Platform>> \in Users \X Roles \X Tenants
  BY AccessAssumption
<1> QED BY <1>1, OpenStep DEF CheckRevokePlatformAdmin, Open, AccessInv, AccessTypeOK,
     RowsArePresent

\* A revocation deletes one row, if it is still there.
LEMMA CommitEffect ==
    ASSUME AccessInv, NEW handler, NEW row,
           NEW lapse \in SUBSET {"revoke_role", "revoke_platform_admin", "demotion"},
           Commit(handler, row, lapse), PlatformKeepsAdmin'
    PROVE  AccessInv'
<1> USE DEF AccessInv
<1>1. /\ checked' \subseteq checked /\ grants' \subseteq grants
      /\ lapses' \subseteq lapses \cup lapse /\ lapses \subseteq lapses'
      /\ UNCHANGED <<keycloakVars, userVars, tenantVars, member, roleVars, deleting>>
  BY DEF Commit
<1>2. AccessTypeOK'
  BY <1>1 DEF AccessTypeOK
<1>3. KeycloakOK' /\ KeycloakGrows
  BY <1>1, KeycloakSame
<1>4. RowsHaveAccounts' /\ TenantsHaveTheirAdmin'
  BY <1>1, <1>3, AccountsKept, AllAdminsKept
<1>5. RowsArePresent' /\ GrantsAreBacked' /\ LiveUsersBelong' /\ StockedTenantsExist'
  BY <1>1 DEF RowsArePresent, GrantsAreBacked, LiveUsersBelong, TenantsOf, StockedTenantsExist
<1> QED BY <1>2, <1>3, <1>4, <1>5

\* Revoking a role in a tenant takes it from a platform administrator only as a
\* lapse.
LEMMA RevokeRoleStep ==
    ASSUME AccessInv, NEW t \in Tenants, NEW u \in Users, NEW r \in Roles,
           RevokeRole(t, u, r)
    PROVE  AccessInv'
<1> USE DEF AccessInv
<1> DEFINE lapse == Lapse("revoke_role", ~MayRevoke(u, r, t))
                      \cup Lapse("demotion", r = PlatformAdmin /\ t = Platform)
<1>1. Commit("revoke_role", <<u, r, t>>, lapse)
  BY DEF RevokeRole
<1>2. lapse \in SUBSET {"revoke_role", "revoke_platform_admin", "demotion"}
  BY DEF Lapse
<1>3. PlatformKeepsAdmin'
  <2> SUFFICES ASSUME lapses' \cap {"revoke_platform_admin", "demotion"} = {}
               PROVE  \E v \in Users : IsPlatformAdmin(v)'
    BY DEF PlatformKeepsAdmin
  <2>1. PICK v \in Users : IsPlatformAdmin(v)
    BY <1>1 DEF PlatformKeepsAdmin, Commit
  <2>2. CASE <<u, r, t>> = <<v, PlatformAdmin, Platform>>
    BY <1>1, <2>1, <2>2 DEF Commit, Lapse, IsPlatformAdmin
  <2>3. CASE <<u, r, t>> # <<v, PlatformAdmin, Platform>>
    BY <1>1, <2>1, <2>3 DEF Commit, IsPlatformAdmin
  <2> QED BY <2>2, <2>3
<1> HIDE DEF lapse
<1> QED BY <1>1, <1>2, <1>3, CommitEffect

\* The role is taken while another holds it, or the revocation is a lapse.
LEMMA RevokePlatformAdminStep ==
    ASSUME AccessInv, NEW u \in Users, RevokePlatformAdmin(u)
    PROVE  AccessInv'
<1> USE DEF AccessInv
<1> DEFINE lapse == Lapse("revoke_platform_admin", ~OtherAdmins(u))
<1>1. Commit("revoke_platform_admin", <<u, PlatformAdmin, Platform>>, lapse)
  BY DEF RevokePlatformAdmin
<1>2. lapse \in SUBSET {"revoke_role", "revoke_platform_admin", "demotion"}
  BY DEF Lapse
<1>3. PlatformKeepsAdmin'
  <2> SUFFICES ASSUME lapses' \cap {"revoke_platform_admin", "demotion"} = {}
               PROVE  \E v \in Users : IsPlatformAdmin(v)'
    BY DEF PlatformKeepsAdmin
  <2>1. CASE IsPlatformAdmin(u)
    <3>1. OtherAdmins(u)
      BY <1>1, <2>1 DEF Commit, Lapse, IsPlatformAdmin
    <3>2. PICK v \in Users \ {u} : IsPlatformAdmin(v)
      BY <3>1 DEF OtherAdmins
    <3>3. IsPlatformAdmin(v)'
      BY <1>1, <3>2 DEF Commit, IsPlatformAdmin
    <3> QED BY <3>3
  <2>2. CASE ~IsPlatformAdmin(u)
    <3>1. PICK v \in Users : IsPlatformAdmin(v)
      BY <1>1 DEF PlatformKeepsAdmin, Commit
    <3>2. IsPlatformAdmin(v)'
      BY <1>1, <2>2, <3>1 DEF Commit, IsPlatformAdmin
    <3> QED BY <3>2
  <2> QED BY <2>1, <2>2
<1> HIDE DEF lapse
<1> QED BY <1>1, <1>2, <1>3, CommitEffect

\* Deleting a user removes neither account, membership nor role.
LEMMA DeleteUserStep ==
    ASSUME AccessInv, NEW t \in Tenants, NEW u \in Users, DeleteUser(t, u)
    PROVE  AccessInv'
<1> USE DEF AccessInv
<1>1. /\ <<u, t>> \in member /\ users' = [users EXCEPT ![u] = "deleted"] /\ Disable({u})
      /\ UNCHANGED <<email, tenantVars, member, roleVars, grants, openVars>>
  BY DEF DeleteUser
<1>2. KeycloakOK' /\ KeycloakGrows
  BY <1>1, DisableEffect
<1>3. users[u] # "none" /\ \A v \in Users : users[v] # "none" <=> users'[v] # "none"
  BY <1>1 DEF RowsArePresent, AccessTypeOK
<1>4. AccessTypeOK'
  BY <1>1, <1>2 DEF AccessTypeOK, KeycloakOK
<1>5. RowsArePresent'
  BY <1>1, <1>3 DEF RowsArePresent, AccessTypeOK, Deletions
<1>6. LiveUsersBelong'
  <2>1. \A v \in People : users'[v] = "live" => users[v] = "live"
    BY <1>1 DEF AccessTypeOK, Users
  <2> QED BY <1>1, <2>1, StillBelong
<1>7. RowsHaveAccounts' /\ TenantsHaveTheirAdmin'
  BY <1>1, <1>2, <1>3, AccountsKept, AllAdminsKept DEF Users
<1>8. GrantsAreBacked' /\ StockedTenantsExist' /\ PlatformKeepsAdmin'
  BY <1>1 DEF GrantsAreBacked, StockedTenantsExist, PlatformKeepsAdmin, IsPlatformAdmin
<1> QED BY <1>2, <1>4, <1>5, <1>6, <1>7, <1>8

\* Edits of roles keep every role that is assigned.
LEMMA RolesStep ==
    ASSUME AccessInv, roles' \subseteq Roles, SystemRoles \subseteq roles',
           \A g \in grants : g[2] \in roles',
           perms' \in [Roles -> SUBSET Permissions], checked' \subseteq checked,
           UNCHANGED <<keycloakVars, userVars, tenantVars, member, grants, deleting, lapses>>
    PROVE  AccessInv'
<1> USE DEF AccessInv
<1>1. KeycloakOK' /\ KeycloakGrows
  BY KeycloakSame
<1>2. AccessTypeOK'
  BY DEF AccessTypeOK
<1>3. RowsHaveAccounts' /\ TenantsHaveTheirAdmin'
  BY <1>1, AccountsKept, AllAdminsKept
<1>4. /\ RowsArePresent' /\ GrantsAreBacked' /\ LiveUsersBelong' /\ StockedTenantsExist'
      /\ PlatformKeepsAdmin'
  BY DEF RowsArePresent, GrantsAreBacked, LiveUsersBelong, TenantsOf, StockedTenantsExist,
     PlatformKeepsAdmin, IsPlatformAdmin
<1> QED BY <1>1, <1>2, <1>3, <1>4

LEMMA CreateRoleStep ==
    ASSUME AccessInv, NEW r \in Roles, NEW ps \in PermissionSets, CreateRole(r, ps)
    PROVE  AccessInv'
<1>1. perms' \in [Roles -> SUBSET Permissions]
  BY AccessAssumption DEF CreateRole, AccessInv, AccessTypeOK
<1> QED BY <1>1, RolesStep DEF CreateRole, AccessInv, AccessTypeOK, RowsArePresent, GrantsAreBacked

LEMMA UpdateRoleStep ==
    ASSUME AccessInv, NEW r \in Roles, NEW ps \in PermissionSets, UpdateRole(r, ps)
    PROVE  AccessInv'
<1>1. perms' \in [Roles -> SUBSET Permissions]
  BY AccessAssumption DEF UpdateRole, AccessInv, AccessTypeOK
<1> QED BY <1>1, RolesStep DEF UpdateRole, AccessInv, AccessTypeOK, RowsArePresent, GrantsAreBacked

\* A role that is deleted is held by no one.
LEMMA DeleteRoleStep ==
    ASSUME AccessInv, NEW r \in Roles, DeleteRole(r)
    PROVE  AccessInv'
<1>1. perms' \in [Roles -> SUBSET Permissions]
  BY DEF DeleteRole, AccessInv, AccessTypeOK
<1>2. SystemRoles \subseteq roles'
  BY DEF DeleteRole, AccessInv, RowsArePresent
<1>3. \A g \in grants : g[2] \in roles'
  BY DEF DeleteRole, AccessInv, GrantsAreBacked
<1>4. checked' \subseteq checked
  BY DEF DeleteRole, Forget
<1> QED BY <1>1, <1>2, <1>3, <1>4, RolesStep DEF DeleteRole, AccessInv, AccessTypeOK

\* The orphans counted are members, who have rows.
LEMMA CountOrphansStep ==
    ASSUME AccessInv, NEW t \in Tenants, CountOrphans(t)
    PROVE  AccessInv'
<1> USE DEF AccessInv
<1> DEFINE d == [tenant |-> t, members |-> MembersOf(t), grants |-> GrantsIn(t),
                 orphans |-> Orphans(t)]
<1>1. /\ t # Platform /\ deleting' = deleting \cup {d}
      /\ UNCHANGED <<keycloakVars, userVars, tenantVars, member, roleVars, grants, checked,
                     lapses>>
  BY DEF CountOrphans
<1>2. d \in Deletions
  BY DEF Deletions, MembersOf, GrantsIn, Orphans, AccessTypeOK
<1>3. \A u \in Orphans(t) : users[u] # "none"
  <2> SUFFICES ASSUME NEW u \in Orphans(t) PROVE users[u] # "none"
    OBVIOUS
  <2>1. <<u, t>> \in member
    BY DEF Orphans, TenantsOf
  <2> QED BY <2>1 DEF RowsArePresent
<1>4. d.tenant # Platform /\ \A u \in d.orphans : users[u] # "none"
  BY <1>1, <1>3
<1> HIDE DEF d
<1>5. \A c \in deleting' : c.tenant # Platform /\ \A u \in c.orphans : users[u] # "none"
  BY <1>1, <1>4 DEF RowsArePresent
<1> QED BY <1>1, <1>2, <1>5, OpenStep DEF AccessTypeOK

LEMMA RollBackDeletionStep ==
    ASSUME AccessInv, NEW d \in deleting, RollBackDeletion(d)
    PROVE  AccessInv'
  BY OpenStep DEF RollBackDeletion, AccessInv, AccessTypeOK, RowsArePresent

\* A deleted tenant takes its memberships and roles with it; whoever belongs to no
\* other tenant was counted, or the deletion is a lapse.
LEMMA DeleteTenantStep ==
    ASSUME AccessInv, NEW d \in deleting, DeleteTenant(d)
    PROVE  AccessInv'
<1> USE DEF AccessInv
<1> DEFINE t == d.tenant
<1>1. t \in Tenants /\ d.orphans \in SUBSET Users /\ t # Platform
  BY DEF AccessTypeOK, Deletions, RowsArePresent
<1>2. /\ Empty(t)
      /\ grants' = grants \ GrantsIn(t) /\ member' = {m \in member : m[2] # t}
      /\ users' = [u \in Users |-> IF u \in d.orphans THEN "deleted" ELSE users[u]]
      /\ Disable(d.orphans)
      /\ tenants' = tenants \ {t} /\ adminEmail' = [adminEmail EXCEPT ![t] = None]
      /\ deleting' \subseteq deleting /\ checked' \subseteq checked
      /\ lapses' = lapses \cup Lapse("delete_tenant", ~(Orphans(t) \subseteq d.orphans))
      /\ UNCHANGED <<email, stocked, roleVars>>
  BY DEF DeleteTenant, Forget
<1> HIDE DEF t
<1>3. KeycloakOK' /\ KeycloakGrows
  BY <1>1, <1>2, DisableEffect
<1>4. \A u \in Users : users[u] # "none" <=> users'[u] # "none"
  BY <1>1, <1>2 DEF RowsArePresent
<1>5. AccessTypeOK'
  <2>1. lapses' \subseteq {"revoke_role", "revoke_platform_admin", "delete_tenant", "demotion"}
    BY <1>2 DEF AccessTypeOK, Lapse
  <2> QED BY <1>1, <1>2, <1>3, <2>1 DEF AccessTypeOK, KeycloakOK
<1>6. RowsArePresent'
  <2>1. \A m \in member' : m[2] \in tenants' /\ users'[m[1]] # "none"
    BY <1>2, <1>4 DEF RowsArePresent, AccessTypeOK
  <2>2. \A s \in tenants' \ {Platform, Default} : adminEmail'[s] \in Addresses
    BY <1>1, <1>2 DEF RowsArePresent, AccessTypeOK
  <2>3. \A c \in deleting' : c.tenant # Platform /\ \A u \in c.orphans : users'[u] # "none"
    BY <1>2, <1>4 DEF RowsArePresent, AccessTypeOK, Deletions
  <2> QED BY <1>1, <1>2, <2>1, <2>2, <2>3 DEF RowsArePresent
<1>7. GrantsAreBacked'
  BY <1>2 DEF GrantsAreBacked, GrantsIn, AccessTypeOK
<1>8. LiveUsersBelong'
  <2> SUFFICES ASSUME "delete_tenant" \notin lapses', NEW u \in People, users'[u] = "live"
               PROVE  TenantsOf(u)' # {}
    BY DEF LiveUsersBelong
  <2>1. "delete_tenant" \notin lapses /\ Orphans(t) \subseteq d.orphans
    BY <1>2 DEF Lapse
  <2>2. users[u] = "live" /\ u \notin Orphans(t)
    BY <1>2, <2>1 DEF Users
  <2>3. TenantsOf(u) # {} /\ TenantsOf(u) # {t}
    BY <2>1, <2>2 DEF LiveUsersBelong, Orphans, Users
  <2>4. PICK s \in Tenants : <<u, s>> \in member /\ s # t
    BY <2>3 DEF TenantsOf
  <2>5. <<u, s>> \in member'
    BY <1>2, <2>4
  <2> QED BY <2>5 DEF TenantsOf
<1>9. RowsHaveAccounts'
  BY <1>3, <1>4, AccountsKept DEF Users
<1>10. TenantsHaveTheirAdmin'
  <2> DEFINE S == tenants \ {t}
  <2>1. \A s \in S \ {Platform, Default} : s \in tenants /\ adminEmail'[s] = adminEmail[s]
    BY <1>2 DEF AccessTypeOK
  <2>2. \A u \in People, s \in S : <<u, s>> \in member => <<u, s>> \in member'
    BY <1>2
  <2>3. tenants' = S
    BY <1>2
  <2> HIDE DEF S
  <2>4. \A s \in S \ {Platform, Default} :
           \E u \in People : <<u, s>> \in member' /\ Known(u, adminEmail[s])'
    BY <1>3, <2>1, <2>2, AdminsKept
  <2> QED BY <2>3, <2>4 DEF TenantsHaveTheirAdmin, Known
<1>11. StockedTenantsExist'
  BY <1>2 DEF Empty, StockedTenantsExist
<1>12. PlatformKeepsAdmin'
  <2>1. \A u \in Users : IsPlatformAdmin(u) => IsPlatformAdmin(u)'
    BY <1>1, <1>2 DEF IsPlatformAdmin, GrantsIn
  <2> QED BY <1>2, <2>1, AdminRoleKept
<1> QED BY <1>3, <1>5, <1>6, <1>7, <1>8, <1>9, <1>10, <1>11, <1>12

\* A warehouse is created in a tenant that exists.
LEMMA CreateWarehouseStep ==
    ASSUME AccessInv, NEW t \in Tenants, CreateWarehouse(t)
    PROVE  AccessInv'
<1> USE DEF AccessInv
<1>1. /\ t \in tenants /\ stocked' = stocked \cup {t}
      /\ UNCHANGED <<keycloakVars, userVars, tenants, adminEmail, member, roleVars, grants,
                     openVars>>
  BY DEF CreateWarehouse
<1>2. KeycloakOK' /\ KeycloakGrows
  BY <1>1, KeycloakSame
<1>3. AccessTypeOK'
  BY <1>1 DEF AccessTypeOK
<1>4. RowsHaveAccounts' /\ TenantsHaveTheirAdmin'
  BY <1>1, <1>2, AccountsKept, AllAdminsKept
<1>5. /\ RowsArePresent' /\ GrantsAreBacked' /\ LiveUsersBelong' /\ StockedTenantsExist'
      /\ PlatformKeepsAdmin'
  BY <1>1 DEF RowsArePresent, GrantsAreBacked, LiveUsersBelong, TenantsOf,
     StockedTenantsExist, PlatformKeepsAdmin, IsPlatformAdmin
<1> QED BY <1>2, <1>3, <1>4, <1>5

-----------------------------------------------------------------------------
(* The theorems.                                                           *)

\* What the migrations leave satisfies the invariant: one platform administrator,
\* the placeholder, and a default tenant that nobody belongs to yet.
LEMMA AccessInvInit == AccessInit => AccessInv
<1> SUFFICES ASSUME AccessInit PROVE AccessInv
  OBVIOUS
<1>1. KeycloakOK
  BY DEF AccessInit, KeycloakOK
<1>2. AccessTypeOK
  <2>1. SeededPermissions \in [Roles -> SUBSET Permissions]
    BY DEF SeededPermissions, Permissions
  <2>2. /\ adminEmail \in [Tenants -> Addresses \cup {None}]
        /\ email \in [Users -> Addresses \cup {None}]
    BY AccessAssumption DEF AccessInit
  <2>3. users \in [Users -> {"none", "live", "deleted"}]
    BY DEF AccessInit
  <2>4. /\ tenants \subseteq Tenants /\ stocked \subseteq Tenants
        /\ member \subseteq Users \X Tenants
        /\ grants \subseteq Users \X Roles \X Tenants
    BY AccessAssumption DEF AccessInit, Users
  <2> QED
    BY <1>1, <2>1, <2>2, <2>3, <2>4, AccessAssumption
    DEF AccessInit, AccessTypeOK, KeycloakOK, SystemRoles
<1>3. RowsArePresent
  BY AccessAssumption DEF AccessInit, RowsArePresent, Users
<1>4. GrantsAreBacked
  BY DEF AccessInit, GrantsAreBacked, SystemRoles
<1>5. LiveUsersBelong /\ RowsHaveAccounts
  BY AccessAssumption DEF AccessInit, LiveUsersBelong, RowsHaveAccounts, Users
<1>6. TenantsHaveTheirAdmin /\ StockedTenantsExist
  BY DEF AccessInit, TenantsHaveTheirAdmin, StockedTenantsExist
<1>7. PlatformKeepsAdmin
  BY DEF AccessInit, PlatformKeepsAdmin, IsPlatformAdmin, Users
<1> QED BY <1>1, <1>2, <1>3, <1>4, <1>5, <1>6, <1>7 DEF AccessInv

\* Every handler preserves the invariant, and so does a step that is none.
LEMMA AccessInvStep == AccessInv /\ [AccessNext]_accessVars => AccessInv'
<1> SUFFICES ASSUME AccessInv, [AccessNext]_accessVars PROVE AccessInv'
  OBVIOUS
<1>1. CASE UNCHANGED accessVars
  <2>1. KeycloakOK' /\ KeycloakGrows
    BY <1>1, KeycloakSame DEF accessVars, AccessInv
  <2> QED BY <1>1, <2>1, KeycloakStep DEF accessVars
<1>2. ASSUME NEW u \in People, NEW e \in Addresses,
             \/ AccountAppears(u, e) \/ RenamedInVain(u, e) \/ SignIn(u, e)
             \/ BootstrapTenantAdmin(u, e) \/ CreatePlatformAdmin(u, e)
             \/ UpdatePlatformAdmin(u, e)
      PROVE  AccessInv'
  BY <1>2, AccountAppearsStep, RenamedInVainStep, SignInStep, BootstrapTenantAdminStep,
     CreatePlatformAdminStep, UpdatePlatformAdminStep
<1>3. ASSUME NEW u \in People, DisabledInVain(u) \/ BootstrapPlatformAdmin(u)
      PROVE  AccessInv'
  BY <1>3, DisabledInVainStep, BootstrapPlatformAdminStep
<1>4. ASSUME NEW t \in Tenants, NEW u \in People, NEW e \in Addresses,
             \/ \E r \in Roles \cup {None} : CreateUser(t, u, e, r)
             \/ CreateTenant(t, u, e) \/ UpdateTenant(t, u, e)
      PROVE  AccessInv'
  BY <1>4, CreateUserStep, CreateTenantStep, UpdateTenantStep
<1>5. ASSUME NEW t \in Tenants, NEW u \in Users, NEW r \in Roles,
             AssignRole(t, u, r) \/ CheckRevokeRole(t, u, r) \/ RevokeRole(t, u, r)
      PROVE  AccessInv'
  BY <1>5, AssignRoleStep, CheckRevokeRoleStep, RevokeRoleStep
<1>6. ASSUME NEW r \in Roles, NEW ps \in PermissionSets, CreateRole(r, ps) \/ UpdateRole(r, ps)
      PROVE  AccessInv'
  BY <1>6, CreateRoleStep, UpdateRoleStep
<1>7. ASSUME NEW t \in Tenants, CountOrphans(t) \/ CreateWarehouse(t)
      PROVE  AccessInv'
  BY <1>7, CountOrphansStep, CreateWarehouseStep
<1>8. ASSUME NEW d \in deleting, DeleteTenant(d) \/ RollBackDeletion(d)
      PROVE  AccessInv'
  BY <1>8, DeleteTenantStep, RollBackDeletionStep
<1>9. ASSUME NEW u \in Users,
             \/ AssignPlatformAdmin(u) \/ CheckRevokePlatformAdmin(u)
             \/ RevokePlatformAdmin(u)
      PROVE  AccessInv'
  BY <1>9, AssignPlatformAdminStep, CheckRevokePlatformAdminStep, RevokePlatformAdminStep
<1> QED
  BY <1>1, <1>2, <1>3, <1>4, <1>5, <1>6, <1>7, <1>8, <1>9, UpdateUserStep, DeleteUserStep,
     DeleteRoleStep
  DEF AccessNext

\* The tables stay consistent with each other.
THEOREM AccessInvCorrect == AccessSpec => []AccessInv
BY AccessInvInit, AccessInvStep, PTL DEF AccessSpec

\* Every table holds rows of its type.
THEOREM AccessTypeCorrect == AccessSpec => []AccessTypeOK
<1>1. AccessInv => AccessTypeOK
  BY DEF AccessInv
<1> QED BY <1>1, AccessInvCorrect, PTL

\* No handler leaves a role assignment to a role, a tenant or a membership that
\* is gone.
THEOREM GrantsBackedCorrect == AccessSpec => []GrantsAreBacked
<1>1. AccessInv => GrantsAreBacked
  BY DEF AccessInv
<1> QED BY <1>1, AccessInvCorrect, PTL

\* Every live user belongs to a tenant, unless deletions of tenants overlapped.
THEOREM LiveUsersCorrect == AccessSpec => []LiveUsersBelong
<1>1. AccessInv => LiveUsersBelong
  BY DEF AccessInv
<1> QED BY <1>1, AccessInvCorrect, PTL

\* Every local user has a Keycloak account, however provisioning fails.
THEOREM RowsHaveAccountsCorrect == AccessSpec => []RowsHaveAccounts
<1>1. AccessInv => RowsHaveAccounts
  BY DEF AccessInv
<1> QED BY <1>1, AccessInvCorrect, PTL

\* Every tenant made through the platform has the person as a member who was made
\* its administrator, whatever addresses are edited afterwards.
THEOREM TenantAdminsCorrect == AccessSpec => []TenantsHaveTheirAdmin
<1>1. AccessInv => TenantsHaveTheirAdmin
  BY DEF AccessInv
<1> QED BY <1>1, AccessInvCorrect, PTL

\* A tenant that owns warehouses is never deleted.
THEOREM StockedTenantsCorrect == AccessSpec => []StockedTenantsExist
<1>1. AccessInv => StockedTenantsExist
  BY DEF AccessInv
<1> QED BY <1>1, AccessInvCorrect, PTL

\* Somebody holds the platform administrator's role, whatever roles and tenants
\* are edited, unless revocations overlapped or the platform tenant's own user
\* administration took it.
THEOREM PlatformAdminCorrect == AccessSpec => []PlatformKeepsAdmin
<1>1. AccessInv => PlatformKeepsAdmin
  BY DEF AccessInv
<1> QED BY <1>1, AccessInvCorrect, PTL
=============================================================================
