\* Handlers that take one lock or both, requests cancelled or not, behind queued
\* writers; the editor stops, the server settles.
CONSTANTS
    u1 = u1  u2 = u2  s1 = s1  s2 = s2  s3 = s3
    a = a  b = b  x = x  crash = crash
    NoText = NoText
    NoDoc = NoDoc
    Idle = Idle
    Uris <- OneUri
    Workspace <- OneUri
    Loads <- OneLoad
    Texts = {a, x, crash}
    Broken = {x}
    Crashing = {crash}
    Slots = {s1, s2}
    MaxVersion = 4
    Requests = {"definition", "rename", "symbol"}
    Budget <- LiveBudget
    Window = 1
SPECIFICATION FairSpec
INVARIANTS
    GuardsMatchHandlers
    NoLockCycle
PROPERTIES
    FinallyDiagnosed
