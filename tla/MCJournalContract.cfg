SPECIFICATION Spec
CONSTANTS
    p1 = p1
    p2 = p2
    p3 = p3
    s1 = s1
    s2 = s2
    Parts = {p1, p2, p3}
    Ids = {s1, s2}
    NoId = NoId
    PartLen <- MCPartLen
    Configs <- OneConfig
    HeaderLen = 1
    FrameHeaderLen = 1
    MarkerLen = 1
    MaxGeneration = 3
PROPERTY ImplementsContract
SYMMETRY Symmetry
CONSTRAINT FewCutShort
