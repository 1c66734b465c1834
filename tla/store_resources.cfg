SPECIFICATION Spec
CONSTANTS
    None = None
    Applications = {1}
    Instances = {1, 2}
    ElementIds = {1, 2}
    Contents <- ResourceContents
    ResourceIds = {1, 2}
    Resources <- ResourceUploads
    MaximumElements = 2
    MaximumGroupDepth = 1
    MaximumChildren = 1
    MaximumSceneBytes = 2
    Connections = {c1, c2}
    c1 = c1
    c2 = c2
    TransactionIds = {0, 1, 2}
    Mutations <- ResourceMutations
    Orders = {}
    LoadedPolicies <- ResourceLoaded
    MaximumOrder = 2
    MaximumProviders = 2
    MaximumMutations = 2
    MaximumResources = 2
    MaximumProviderBytes <- ProviderBytes
    MaximumGlobalBytes <- GlobalBytes
    MaximumRetainedChanges = 1
    MaximumRevision = 4
SYMMETRY Interchangeable
INVARIANTS
    PublishedIsCommitted
    NoDanglingResource
    BytesAccounted
    VisibleScenesFit
PROPERTIES
    EveryTransactionAppliesOnce
