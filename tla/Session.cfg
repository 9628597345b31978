\* Two goroutines behind REST and UDP; nothing is serialised.
CONSTANTS
    Procs = {p1, p2}
    Ids = {admin, u1}
    Usernames = {root, ann}
    Emails = {e0, e1}
    None = None
    AdminId = admin
    AdminName = root
    AdminEmail = e0
    Ops = {"CreateUser", "GetUser", "UpdateUser", "DeleteUser", "SetOnline", "Login"}
    StatusInputs = {None}
    Overlap = TRUE
SPECIFICATION SessionSpec
INVARIANTS TypeOK PresenceNeedsCredentials TokenNamesAccount LockedUntilLogin
PROPERTIES DeletionSettles InternalErrorExplained OfflineOnlyOnRequest
SYMMETRY Symmetry
