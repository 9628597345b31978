\* Two goroutines whose writing requests never overlap on one user.
CONSTANTS
    Procs = {p1, p2}
    Ids = {admin, u1, u2}
    Usernames = {root, ann}
    Emails = {e0, e1, e2}
    None = None
    AdminId = admin
    AdminName = root
    AdminEmail = e0
    Ops = {"CreateUser", "GetUser", "UpdateUser", "DeleteUser", "SetOnline", "Login", "Auth"}
    StatusInputs = {None, "disabled"}
    Overlap = FALSE
SPECIFICATION Spec
INVARIANTS EmailIndexExact UsernameIndexExact LoginBindsName
PROPERTY ImplementsRegistry
SYMMETRY Symmetry
