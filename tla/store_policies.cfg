SPECIFICATION Spec
CONSTANTS
    None = None
    Applications = {1, 2, 3}
    Instances = {1}
    ElementIds = {1}
    Contents <- PolicyContents
    ResourceIds = {}
    Resources <- NoUploads
    MaximumElements = 1
    MaximumGroupDepth = 1
    MaximumChildren = 1
    MaximumSceneBytes = 1
    Connections = {c1, c2}
    c1 = c1
    c2 = c2
    TransactionIds = {1}
    Mutations <- PolicyMutations
    Orders <- PolicyOrders
    LoadedPolicies <- PolicyLoaded
    MaximumOrder = 3
    MaximumProviders = 2
    MaximumMutations = 1
    MaximumResources = 0
    MaximumProviderBytes <- ProviderBytes
    MaximumGlobalBytes <- GlobalBytes
    MaximumRetainedChanges = 2
    MaximumRevision = 3
SYMMETRY Interchangeable
INVARIANTS
    TypeOK
    SnapshotIsCurrent
    FeedIsContiguous
    NextOrderOnTop
PROPERTIES
    ImplementsFeed
