\* Two overlapping publications of up to two of three events each.
SPECIFICATION Spec
CONSTANTS
    plain = plain
    second = second
    third = third
    one = one
    other = other
    custom = custom
    Events = {plain, second, third}
    Classes <- MCClasses
    Publications = {p1, p2}
    Batches <- MCBatches
    Contexts <- MCContexts
    Names = {named}
    Ids = {one, other}
    Types = {custom}
    Partials <- MCPartials
    Absent = Absent
    Undefined = Undefined
INVARIANTS StoredValid TypeNamesEvent StreamIsOwn
PROPERTY PreparedStable
SYMMETRY Symmetry
CHECK_DEADLOCK FALSE
