SPECIFICATION ServicesSpec
CONSTANTS
    \* GuestHeap
    HeapBytes = 8
    Granule = 2
    HeapSlots = 3
    MaxWord = 8
    Requests = {0, 1, 3, 5, 8}
    HeapTags = {0, 1}
    \* StateStore
    SubKeys <- MCSubKeys
    MaxPath = 2
    ValueNames = {"x"}
    ValueData = {0, 1}
    KeySlots = 2
    ValueSlots = 2
    EmptyKey = FALSE
    MaxOpens = 1
    MaxChanges = 2
    MaxStarts = 2
    \* Desktop
    Classes = {"c", "m"}
    MenuClasses = {"m"}
    Cursors = {"arrow"}
    Sizes = {1, 2}
    MenuItems = {"i"}
    WindowSlots = 2
    QueueSlots = 2
    ItemSlots = 1
    CreateDepth = 2
    InitDepth = 2
    Scenes <- MCScenes
    DcSlots = 2
    SurfaceSlots = 2
    PaletteSlots = 1
    PixelCapacity = 3
    BitmapSizes = {1, 2}
    \* Gate
    Programs <- MCPrograms
    SystemModules = {"k", "n"}
    MaxModules = 5
    MaxEdges = 3
    MaxDepth = 3
    MaxSpans = 4
    MaxFaults = 3
    ReportLines = 18
    \* TitleRuntime
    MaxFrames = 3
    TitleFaults = 2
    \* AgcStage
    Builds = {"B", "C", "D", "E", "I"}
    Frames = 3
    EarlyExit = FALSE
    \* PeImage
    Word = 16
    Page = 4
    Widths = {1, 2, 4}
    Images <- MCImages
    Spans = {0, 2, 4, 5, 7, 15}
    Bases = {0, 8, 16}
    MaxBlocks = 2
    \* X87
    Slots = 3
    MaskChoices <- MCMasks
    FpSteps = 4
INVARIANTS
    ServicesTypeOK
    StateSurvives
    WindowsSound
    SurfacesSound
    GateHonest
    RuntimeSound
    StageSound
    ImageSound
PROPERTIES
    HeapContract
    X87Precise
CHECK_DEADLOCK FALSE
