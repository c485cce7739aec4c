SPECIFICATION ToolsSpec
CONSTANTS
    Matrices <- MCMatrices
    Exporters <- MCExporters
    BitsSet = {1, 2}
    SampleSize = 3
    Unit = 60
    WeightUnit = 2
    GroupSize = 4
    ScaleFixedPoint = 10000
    Builds <- MCBuilds
    SchemaVersion = 1
    OpNames <- MCOpNames
    MaxGenerations = 2
    MaxPasses = 2
    SilentPasses = 1
    Vocabs <- MCVocabs
    Texts <- MCTexts
    NBytes = 2
    MaxTokenBytes = 3
    HeaderCells = 2
    SectorCells = 4
    DiskCells = 24
    RamVocab = 7
    NvmeVocab = 8
    MaxOutput = 3
    Manifests <- MCManifests
    Upper <- MCUpper
    RegionLists <- MCRegionLists
    Shapes <- MCShapes
    DmaBytes = 512
    StaleWord = 0
    MaxBetas = 145
    OffsetSlots = 32
    CacheSlot = 13
INVARIANTS
    
    GroupwiseDecoded
    
    
    TextComesBack
    ImagesAgree
    PairsReported
    LayersRecorded
PROPERTY
    DistortionFalls
\* the scripts end
CHECK_DEADLOCK FALSE
