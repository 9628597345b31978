\* Two requests at a time on one organization, one group and two users.
CONSTANTS
    Procs = {p1, p2}
    OrgIds = {o1}
    GroupIds = {g1}
    Users = {u1, u2}
    Roles = {member}
    Infos = {i1}
    None = None
SPECIFICATION Spec
INVARIANTS TypeOK RelationsKnown DeletedStaysEmpty BlankIsDeleted NoInternalError
SYMMETRY Symmetry
