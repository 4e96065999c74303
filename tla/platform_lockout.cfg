\* A tenant's administrator empties the platform administrators' role.
SPECIFICATION AccessSpec
CONSTANTS
    People = {p1, p2}
    Addresses = {owner, admin}
    Placeholder = placeholder
    Tenants = {platform, default, acme}
    Platform = platform
    Default = default
    Roles = {tenant_admin, platform_admin, custom}
    TenantAdmin = tenant_admin
    PlatformAdmin = platform_admin
    PlatformOwner = owner
    DefaultAdmin = admin
    None = None
    PermissionSets <- AssignOrNothing
    MaxOpen = 1
CONSTRAINT OneEdit
SYMMETRY PeopleAreAlike
INVARIANT PlatformCanBeManaged
CHECK_DEADLOCK FALSE
