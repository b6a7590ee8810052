\* A save whose document is closed or edited before its index analysis ends.
CONSTANTS
    u1 = u1  u2 = u2  s1 = s1  s2 = s2  s3 = s3
    a = a  b = b  x = x  crash = crash
    NoText = NoText
    NoDoc = NoDoc
    Idle = Idle
    Uris <- OneUri
    Workspace <- OneUri
    Loads <- OneLoad
    Texts = {a, b}
    Broken = {}
    Crashing = {}
    Slots = {s1, s2}
    MaxVersion = 4
    Requests = {}
    Budget <- StaleBudget
    Window = 1
SPECIFICATION Spec
SYMMETRY SlotSymmetry
INVARIANTS
    IndexMatchesDisk
