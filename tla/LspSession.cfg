\* One document opened, edited, saved, closed and reopened, analyses in flight.
CONSTANTS
    u1 = u1  u2 = u2  s1 = s1  s2 = s2  s3 = s3
    a = a  b = b  x = x  crash = crash
    NoText = NoText
    NoDoc = NoDoc
    Idle = Idle
    Uris <- OneUri
    Workspace <- OneUri
    Loads <- OneLoad
    Texts = {a, x, crash}
    Broken = {x}
    Crashing = {crash}
    Slots = {s1, s2, s3}
    MaxVersion = 4
    Requests = {}
    Budget <- SessionBudget
    Window = 1
SPECIFICATION Spec
SYMMETRY SlotSymmetry
INVARIANTS
    TypeOK
    ReportIsOfSource
    ServerFollowsEditor
    DiagnosticsSettle
    IndexedTextsWereSaved
PROPERTIES
    NoObsoleteDiagnostics
    IndexFromCurrentGeneration
