SPECIFICATION StreamSpec
CHECK_DEADLOCK FALSE
CONSTANTS
    None = None
    Applications = {1, 2}
    Instances = {1}
    ElementIds = {1}
    Contents <- LayerContents
    ResourceIds = {}
    Resources <- NoUploads
    MaximumElements = 1
    MaximumGroupDepth = 1
    MaximumChildren = 1
    MaximumSceneBytes = 1
    c1 = c1
    c2 = c2
    MaximumProviders = 2
    MaximumResources = 1
    MaximumProviderBytes <- TightBytes
    MaximumGlobalBytes <- TightBytes
    MaximumRetainedChanges = 1
    FeedOrders = {0, 1}
    MaximumRevision = 2
    ChannelCapacity = 1
    MaximumFailures = 0
INVARIANTS
    UserControlsLayers
