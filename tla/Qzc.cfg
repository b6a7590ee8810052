CONSTANTS
    Main = Main Leaf = Leaf Other = Other Mod = Mod Toml = Toml Qzi = Qzi
    d0 = d0 d1 = d1 d2 = d2 only = only good = good fixed = fixed bad = bad t1 = t1 t2 = t2 v1 = v1 v2 = v2
    Root = Main
    Leaves = {Leaf}
    Route = Mod
    Manifest = Toml
    Dep = Qzi
    Sigs = {d0, d1, d2}
    Bodies = {only, good, fixed, bad}
    Broken = {bad}
    Texts <- MCTexts
    Settings = {t1, t2}
    Revisions = {v1}
    Absent = Absent
    Builders = {b1, b2}
    Idle = Idle Busy = Busy Failed = Failed
    None = None
    Racing = {Main, Leaf}
    Vanishing = {}
    Edited = {Main, Leaf, Toml, Qzi}
    MaxEdits = 2
    MaxBuilds = 3
SPECIFICATION Spec
INVARIANTS TypeOK CoherentArtifacts SourcesAreCurrent ConfigurationIsCurrent
PROPERTIES BuildsInFull EntrySurvives
SYMMETRY Alike
CHECK_DEADLOCK FALSE
