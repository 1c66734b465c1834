SPECIFICATION FairProtocolSpec
CHECK_DEADLOCK FALSE
CONSTANTS
    None = None
    Applications = {1}
    Instances = {1, 2}
    ElementIds = {1}
    Contents <- ProtocolContents
    ResourceIds = {1}
    Resources <- ProtocolUploads
    MaximumElements = 1
    MaximumGroupDepth = 1
    MaximumChildren = 1
    MaximumSceneBytes = 1
    c1 = c1
    c2 = c2
    Connections = {1, 2}
    TransactionIds = {1, 2}
    Mutations <- ProtocolMutations
    Orders = {}
    LoadedPolicies <- OneLoaded
    MaximumOrder = 3
    MaximumProviders = 2
    MaximumMutations = 1
    MaximumResources = 1
    MaximumProviderBytes <- ProviderBytes
    MaximumGlobalBytes <- GlobalBytes
    MaximumRetainedChanges = 1
    MaximumRevision = 20
    Processes = {1}
    IdentityOf <- EachItsOwn
    MaximumConnections = 2
    MaximumResidents = 1
    MaximumErrors = 2
    MaximumRequests = 4
    MaximumTransactions = 2
PROPERTIES
    ConnectionsEnd
    RequestsEnd
    KeepsTheStore
