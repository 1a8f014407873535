CONSTANTS
    Configs <- MCConfigs
    DeliveriesFor <- MCDeliveriesFor
    RepoNames <- MCRepoNames
    Branches = {"main", "master", "dev"}
    GivenGraphs <- MCGraphs
    GivenCalls <- MCCalls
    FlowNodes <- MCFlowNodes
    ImpactRequests <- MCImpactRequests
    FlowRequests <- MCFlowRequests
    GivenNodes <- MCGivenNodes
    Batches <- MCBatches
    ImportPaths <- MCImportPaths
    GivenDiffs <- MCDiffs
    PageRequests <- MCPageRequests
    DefaultLimit = 2
    MaxLimit = 3
    GivenPackages <- MCPackages
    Languages <- MCLanguages
    Walks <- MCWalks
    Width <- WidthOf
    Before <- BeforeOf
    GivenFiles <- MCFiles
    Readings <- FileReadings
    StoredFile <- MCStoredFile
    TestNames <- MCTestNames
    BlockLanguages = {"go"}
    LineMarkers <- MCLineMarkers
    KnownTags <- MCKnownTags
    ChunkSize = 3
    FlushFiles = 2
    FlushBytes = 3
    Foreign = {"github.com"}
    Exported = {"Store", "Disk", "Get", "Put", "Run", "TestRun"}
SPECIFICATION Spec
INVARIANTS
    NamespacesKeptApart
    SearchesAreBalls
    PagesCoverRanking
    ReplayMissesNothing
    ResolutionIsConservative
    IngestLosesNothing
    SplitDoesNotMatter
    DiscoveryIgnoresOrder
    PackagesFollowFiles
    DocsReachTheirDeclaration
    ParseIsStorable
    RewritesNameDeclaredTypes
    LazyTreeIsFullTree
    WikiAnswersOpen
CHECK_DEADLOCK FALSE
