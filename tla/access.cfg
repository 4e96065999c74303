\* Two accounts, the owner's and the default administrator's address, one more
\* tenant and one custom role; at any point one address is edited or one system
\* role gets other permissions.
SPECIFICATION AccessSpec
CONSTANTS
    People = {p1, p2}
    Addresses = {owner, admin}
    Placeholder = placeholder
    Tenants = {platform, default, acme}
    Platform = platform
    Default = default
    Roles = {tenant_admin, platform_admin, custom}
    TenantAdmin = tenant_admin
    PlatformAdmin = platform_admin
    PlatformOwner = owner
    DefaultAdmin = admin
    None = None
    PermissionSets <- AssignOnly
    MaxOpen = 1
CONSTRAINT OneEdit
SYMMETRY PeopleAreAlike
INVARIANTS
    AccessTypeOK
    GrantsAreBacked
    LiveUsersBelong
    RowsHaveAccounts
    StockedTenantsExist
    TenantsHaveTheirAdmin
    PlatformKeepsAdmin
\* The system may stop: everyone may have lost the means to act (promoted.cfg).
CHECK_DEADLOCK FALSE
