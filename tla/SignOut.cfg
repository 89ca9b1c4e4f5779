SPECIFICATION Spec
CONSTANTS
    Tabs = {t1, t2}
    Users = {reader, stranger}
    Allowed = {reader}
    Nobody = nobody
    ProviderLogout = TRUE
    MaxLogins = 2
    MaxRestarts = 1

PROPERTIES
    SignOutEnds
CHECK_DEADLOCK FALSE
