SPECIFICATION FairStreamSpec
CHECK_DEADLOCK FALSE
CONSTANTS
    None = None
    Applications = {1}
    Instances = {1}
    ElementIds = {1}
    Contents <- NoContents
    ResourceIds = {}
    Resources <- NoUploads
    MaximumElements = 1
    MaximumGroupDepth = 1
    MaximumChildren = 1
    MaximumSceneBytes = 1
    c1 = c1
    c2 = c2
    MaximumProviders = 2
    MaximumResources = 1
    MaximumProviderBytes <- ProviderBytes
    MaximumGlobalBytes <- GlobalBytes
    MaximumRetainedChanges = 1
    FeedOrders = {0}
    MaximumRevision = 2
    ChannelCapacity = 2
    MaximumFailures = 2
PROPERTIES
    ImplementsReplica
    RendererCatchesUp
