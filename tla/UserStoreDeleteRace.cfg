\* A deletion and a presence change of one user.
CONSTANTS
    Procs = {p1, p2}
    Ids = {admin, u1, u2}
    Usernames = {root, ann}
    Emails = {e0, e1}
    None = None
    AdminId = admin
    AdminName = root
    AdminEmail = e0
    Ops = {"DeleteUser", "SetOnline"}
    StatusInputs = {None}
    Overlap = TRUE
SPECIFICATION Spec
PROPERTY DeletedIsFinal
