SPECIFICATION Spec
CONSTANTS
    r1 = r1
    r2 = r2
    t1 = t1
    t2 = t2
    ann = ann
    bob = bob
    Users = {ann, bob}
    Seeded = ann
    Tokens = {t1, t2}
    Requests = {r1, r2}
    MaxTime = 2
    Keys = {"k"}
CONSTRAINT KeysBound
INVARIANTS
    WithdrawnStaysOut
    AnsweredOnce
SYMMETRY Symmetry
CHECK_DEADLOCK FALSE
