\* Members of up to three organizations.
CONSTANTS
    OrgIds = {o1, o2, o3}
    Users = {u1, u2}
    Roles = {member, manager}
    None = None
SPECIFICATION Spec
INVARIANTS IndexesMirror PathsChain
PROPERTY ImplementsMembership
SYMMETRY Symmetry
