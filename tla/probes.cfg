CONSTANTS
    Literals <- const_Literals
    Tokens = {"alpha", "beta"}
    BuiltIn <- const_BuiltIn
    BuiltInHold <- const_BuiltInHold
    PortOf <- const_PortOf
    Configs <- const_Configs
    Known <- const_Known
    SlowestName = 4
    Nap = 2
    Full = 5
    SeqSpan = 4
    Statuses <- const_Statuses
    Said <- const_Said
SPECIFICATION Spec
INVARIANTS
    HealthyIsEarned
    EndsInTime
    NoOrphans
    AsksWhoIsNamed
    AcceptedIsUsable
PROPERTIES
    IdNamesThePath
