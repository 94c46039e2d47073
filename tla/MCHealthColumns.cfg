CONSTANTS
    a = a
    b = b
    nothing = nothing
    noError = noError
    Apps = {a, b}
    Nothing = nothing
    Configurations <- MCConfigurations
    Databases <- MCDatabases
    NoError = noError
SPECIFICATION Spec
INVARIANT ColumnsAsserted
