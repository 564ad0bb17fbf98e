SPECIFICATION Spec
CONSTANTS
    Servers = {s1}
    Ids = {i1, i2, i3}
    Root = Root
    Disabled = Disabled
    None = None
SYMMETRY Symmetry
INVARIANTS
    TypeOK
    RunsAsOwnUser
    OwnsItsFiles
