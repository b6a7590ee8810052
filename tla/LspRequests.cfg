\* Requests about two documents, cancelled or not, against notifications that may
\* be started out of order.
CONSTANTS
    u1 = u1  u2 = u2  s1 = s1  s2 = s2  s3 = s3
    a = a  b = b  x = x  crash = crash
    NoText = NoText
    NoDoc = NoDoc
    Idle = Idle
    Uris <- TwoUris
    Workspace <- OneUri
    Loads <- TwoLoads
    Texts = {a, x}
    Broken = {x}
    Crashing = {}
    Slots = {s1, s2}
    MaxVersion = 4
    Requests = {"definition", "references"}
    Budget <- RequestBudget
    Window = 2
SPECIFICATION Spec
SYMMETRY SlotSymmetry
PROPERTIES
    NothingLateTakesEffect
