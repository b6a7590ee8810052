CONSTANTS
    Main = Main Leaf = Leaf Other = Other Mod = Mod Toml = Toml Qzi = Qzi
    d0 = d0 d1 = d1 d2 = d2 only = only good = good fixed = fixed bad = bad t1 = t1 t2 = t2 v1 = v1 v2 = v2
    Root = Main
    Leaves = {Leaf, Other}
    Route = Mod
    Manifest = Toml
    Dep = Qzi
    Sigs = {d0, d1, d2}
    Bodies = {only, good, fixed, bad}
    Broken = {bad}
    Texts <- RouteTexts
    Settings = {t1}
    Revisions = {v1}
    Absent = Absent
    Builders = {b1}
    Idle = Idle Busy = Busy Failed = Failed
    None = None
    Racing = {}
    Vanishing = {}
    Edited = {Mod}
    MaxEdits = 1
    MaxBuilds = 2
SPECIFICATION Spec
PROPERTIES BuildsInFull
SYMMETRY Alike
CHECK_DEADLOCK FALSE
