SPECIFICATION Spec
CONSTANTS
    Clients = {c1, c2}
    Modes = {"client", "serial", "dumper"}
    MaxStarts = 4
    DiskFails = TRUE
INVARIANTS TypeOK PasswordIsIssued ServedIfReleased
PROPERTY CredentialsStay
CHECK_DEADLOCK FALSE
