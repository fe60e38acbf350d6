SPECIFICATION Spec
CONSTANTS
    Creator = {c1, c2}
    Opener = {o1}
    OpenModes = {"read_only", "read_write"}
    MaxFaults = 1
    Nobody = Nobody
    User = User
SYMMETRY ProcessSymmetry
CHECK_DEADLOCK FALSE
INVARIANTS
    CreationInv
    RepositoryWhole
PROPERTIES
    RemovesOnlyOwn
