CONSTANTS
    Hosts = {"h1", "h2"}
    Others = {"o1"}
    NoFile = NoFile
    Decisions <- const_Decisions
    Statics <- const_Statics
    MaxEdits = 2
    MaxSeeds = 1
    MaxFaults = 1
SPECIFICATION FairSpec
INVARIANTS
    AppendsSurvive
PROPERTIES
    RefinesManagedFile
    Converges
