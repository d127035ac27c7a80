\* Six messages and three times: a removal from one subtree then moves up a
\* message from the other, which five cannot show.
SPECIFICATION Spec
CONSTANTS
    None = None
    Items = {m1, m2, m3, m4, m5, m6}
    Times = {0, 1, 2}
    InitCap = 2
    ShrinkOver = 3
SYMMETRY Symmetry
INVARIANTS
    HeapShape
PROPERTIES
    RefinesPQ
