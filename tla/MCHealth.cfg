CONSTANTS
    a = a
    b = b
    nothing = nothing
    noError = noError
    Apps = {a, b}
    Nothing = nothing
    Configurations <- MCConfigurations
    Databases <- MCDatabases
    NoError = noError
SPECIFICATION Spec
INVARIANTS HealthTypeOK HealthIsLastRound CheckIsSound NoFalseAlarm
PROPERTIES StartsOnlyIfAllPass DriftTurnsRed RecoversByItself
