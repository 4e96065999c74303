\* The last user who can manage a tenant's roles is given another role.
SPECIFICATION AccessSpec
CONSTANTS
    People = {p1, p2}
    Addresses = {owner, admin}
    Placeholder = placeholder
    Tenants = {platform, default, acme}
    Platform = platform
    Default = default
    Roles = {tenant_admin, platform_admin, custom}
    TenantAdmin = tenant_admin
    PlatformAdmin = platform_admin
    PlatformOwner = owner
    DefaultAdmin = admin
    None = None
    PermissionSets <- AssignOnly
    MaxOpen = 1
CONSTRAINT NoEdits
SYMMETRY PeopleAreAlike
INVARIANT TenantsKeepAManager
CHECK_DEADLOCK FALSE
