SPECIFICATION Spec
CONSTANTS
    Preparers = {"p", "q"}
    Uploads <- Attached
    Machine = "x86_64"
    InitEdits = 1
    Pins <- TwoPins
    Unpacked <- SrpmMembers
    CatalogIds = {"b1", "b2", "odd"}
    Made <- Builds
    Genuine = {"b1", "b2"}
    Collectors = {"c1", "c2"}
    MaxDamage = 1
    Requests <- Asked
    MaxWrites = 1
    Runs = {"r1", "r2", "r3"}
    Inputs <- RunInputs
    History <- Branching
    Manifest <- Manifests
    MaxMoves = 3
    Images = {"plain", "half", "other", "mkfs", "new", "dyn"}
    SizeOf <- ImageSize
    IsErofs <- HasMagic
    FsckPasses <- FsckFine
    Holds <- Stored
    LocalSize = 134
    CentralSize = 134
    Builders = {"b1", "b2"}
    Readers = {"r"}
    MaxChanges = 1
INVARIANT PreparedIsSelected
INVARIANT CatalogsAreGenuine
INVARIANT ShownIsValidated
INVARIANT PassedIsSelected
INVARIANT BuiltVerifies
INVARIANT AcceptedIsWhole
CHECK_DEADLOCK FALSE
