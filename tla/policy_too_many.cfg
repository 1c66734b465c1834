SPECIFICATION Spec
CONSTANTS
    None = None
    Applications = {1, 2, 3}
    MaximumOrder = 3
    Controllers = {p1, p2}
    p1 = p1
    p2 = p2
    Changes <- Switch
    TestApplication = 1
    MaximumPolicyApplications = 2
    MaximumSavedApplications = 3
    MaximumWriteErrors = 1
    MaximumSyncErrors = 0
    MaximumStops = 2
SYMMETRY Interchangeable
INVARIANTS
    RestartRestoresPolicy
