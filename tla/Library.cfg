SPECIFICATION Spec
CONSTANTS
    Elems = {e1, e2, e3, e4}
    ListVals = {v1, v2}
    NULL = NULL
    Keys = {"a", "b", "c", "long"}
    LongKeys = {"long"}
    Hash <- MCHash
    Garbage = {3, 4}
    MapVals = {"v1", "v2"}
    FirstSize = 2
    MaxEntries = 4
    Names = {"p", "std/os", "./x", "none"}
    Relative = {"./x"}
    Builtin = {"std/os"}
    Dirs = {"app", "app/std", "lib"}
    NoDir = ""
    Files <- MCFiles
    ModFile = "mod"
    MaxModules = 4
    MaxDepth = 3
    MaxPrograms = 2
    Drivers = {"for", "unpack", "map", "filter", "count", "join"}
    Sources = {"list", "range", "class"}
    CellVals = {"a", "b"}
    Ranges <- MCRanges
    Width = 4
    MaxCells = 3
    MaxVisits = 7
    Objects = {o1, o2}
    DictVals = {1, 2}
    MaxPlaces = 3
    MaxSearches = 2
INVARIANTS
    TypeOK
    LookupFindsEntries
    ModulesRunOnce
    CachedModulesHaveRun
    VisitsInOrder
    EntriesAreWhatWasStored
    SearchesMeetTheirKey
    RemovalsAreExact
PROPERTIES
    RefinesListSpec
    RefinesMapSpec
    LoopsEnd
CHECK_DEADLOCK FALSE
