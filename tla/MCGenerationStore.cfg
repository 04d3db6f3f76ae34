SPECIFICATION Spec
CONSTANTS
    Publishers = {p1, p2}
    Files = {a, b}
    Metas = {m}
    MaxVersion = 2
SYMMETRY Symmetry
CONSTRAINT OneLoss
INVARIANTS AnswerIsSnapshot
PROPERTY VisibleIsWhole
