SPECIFICATION Spec
CONSTANTS
    d1 = d1
    d2 = d2
    n1 = n1
    n2 = n2
    x1 = x1
    t1 = t1
    t2 = t2
    j1 = j1
    w1 = w1
    c1 = c1
    Types = {d1, d2}
    Root <- OneRoot
    Asked = {n1, n2}
    Slug <- OneSlug
    Contents = {x1}
    Tasks = {t1, t2}
    Trainings = {j1}
    Walks = {w1}
    Conversions = {c1}
SYMMETRY Alike
INVARIANTS
    WeightsAreThere
    CompletedHasItsModel
    ArchivesAreOwned
CONSTRAINT Few
CHECK_DEADLOCK FALSE
