SPECIFICATION OSpec
CONSTANTS
    k1 = k1
    bystander = bystander
    Keys = {k1, bystander}
    Fields = {f1, f2, f3}
    Members = {m1, m2, m3}
    FieldHash <- Hashes
    Rank <- Ranks
    txt = txt
    f1 = f1
    f2 = f2
    f3 = f3
    m1 = m1
    m2 = m2
    m3 = m3
    Text = {txt}
    NaN = NaN
    Err = Err
    Ok = Ok
    Nil = Nil
    Garbage = Garbage
    Buckets0 = 1
    MaxMembers = 3
    RangeCap = 2
    HSetArgs <- HSets
    HDelArgs <- HDels
    HIncrByArgs <- HIncrs
    PushArgs <- Pushes
    LRemArgs <- LRems
    LTrimArgs <- LTrims
    ZAddArgs <- ZAdds
    ZRemArgs <- ZRems
    MaxLen <- LenBound
    MaxInt = 1
    Scores = {0, 1, 2}
INVARIANTS
    OTypeOK
    HScanComplete
    ReadsTellTruth
PROPERTIES
    ImplementsTypedStore
