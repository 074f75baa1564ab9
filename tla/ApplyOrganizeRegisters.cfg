SPECIFICATION Spec
CONSTANTS
    LastAction = 3
    Kind <- OrganizeKind
    Deps <- OrganizeDeps
    Owner <- OrganizeOwner
    Blocked = {}
    Stale = {}
    PlanType = "organize"
    MaxEdits = 1
INVARIANTS
    AppliedOrganizeRegisters
