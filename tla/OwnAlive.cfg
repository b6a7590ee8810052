CONSTANTS
    main = main small = small hook = hook other = other extern = extern nick = nick
    Items <- MCItems
    Bodies <- Simple
    SourceOf <- MCSource
    Roots = {main, hook}
    Exports = {hook}
    Bodiless = {extern}
    Small = {small, other}
    AliasOf <- MCAlias
    MaxEdits = 2
    shell = shell editor = editor repo = repo page = page
    Order <- TwoNames
    GitUrls = {repo}
    FileUrls = {page}
    Default = Default Latest = Latest
    Wanted <- MCWanted
    FirstManifest <- OneDependency
    Colleagues <- TwoDependencies
    Processes = {shell, editor}
    Does <- Together
    Idle = Idle NoLock = NoLock Torn = Torn Absent = Absent NoTree = NoTree
    MaxPublished = 1
    MaxChanges = 1
    MaxRuns = 2
    given = given second = second third = third view = view
    fnGiven = fnGiven fnSecond = fnSecond fnThird = fnThird
    FnOwners = {fnGiven, fnSecond, fnThird}
    References = {view}
    OwnedFunctions <- Assigning
    MaxRounds = 2
    Enums <- MCEnums
    AliasTypes <- NoneNamed Statics <- TypedStatics Variants <- NoneNamed Traits <- TypedTraits
    Generics = {} StructParams <- TypedParameters Implements <- TypedImplements
    Signatures <- TypedFunctions Structs <- TypedFields Methods <- TypedMethods
    WordBits <- FourBits ResultOf <- Effect
    Parts = {"owners"}
SPECIFICATION Spec
INVARIANTS OwnersStayAlive
CHECK_DEADLOCK FALSE
