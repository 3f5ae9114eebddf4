SPECIFICATION FairSpec
CONSTANTS
    c1 = c1
    c2 = c2
    a1 = a1
    a2 = a2
    t1 = t1
    t2 = t2
    Callers <- MCCallers
    Admins <- MCAdmins
    Tenants <- MCOneTenant
    NoTenant = NoTenant
    Free = Free
    MaxCalls = 2
    MaxLaunches = 2
INVARIANTS
    OwnResponse
    TenantIsolation
    ProcessLifecycle
PROPERTIES
    ImplementsService
    CallReturns
