\* Two goroutines and a client that pages; nothing is serialised.
CONSTANTS
    Procs = {p1, p2}
    Ids = {admin, u1, u2}
    Usernames = {root, ann, bob}
    Emails = {e0, e1, e2}
    None = None
    AdminId = admin
    AdminName = root
    AdminEmail = e0
    StatusInputs = {None}
    Stamps <- SomeStamps
    PageSize = 1
SPECIFICATION Spec
INVARIANTS WalkLosesNothing
PROPERTIES PgDeletedIsFinal ImplementsRegistry
SYMMETRY Symmetry
