CONSTANTS
    A = 1
    Data = 2
    Main = 3
    TypesOfLib = 4
    PkgTypes = 5
    PkgCode = 6
    Paths <- AllPaths
    Scannable <- Code
    JavaScript = {6}
    Specifiers <- AllSpecifiers
    Runtime <- AtRuntime
    Declared <- AsDeclared
    TypesOf <- UnderTypes
    Entries <- SomeEntries
    Disks <- SomeDisks
    Edits <- SomeEdits
    MaxEdits = 1
SPECIFICATION Spec
INVARIANTS GraphIsWhatWasRead ChangesAreSeen ReadsComeFirst
CHECK_DEADLOCK TRUE
