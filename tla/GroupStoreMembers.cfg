\* Members of up to three groups.
CONSTANTS
    GroupIds = {g1, g2, g3}
    Users = {u1, u2}
    Roles = {member, owner}
    Infos = {i1, i2}
    None = None
SPECIFICATION Spec
INVARIANTS IndexesMirror
PROPERTY ImplementsMembership
SYMMETRY Symmetry
