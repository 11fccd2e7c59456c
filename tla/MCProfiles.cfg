SPECIFICATION Spec
CONSTANTS
    p = p
    n = n
    c1 = c1
    c2 = c2
    c3 = c3
    s = s
    k = k
    f = f
    Name = {p, n}
    Preset = {p}
    Content = {c1, c2, c3}
    Uses <- CardsOf
    Shipped <- ShippedContent
    ShippedDisk <- ShippedImage
    Card = {s, k}
    Seed = {s}
    Kernel = {k}
    Image = {f}
    Instance = {i1}
    Snapshot = {s1}
    MaxInserts = 4
INVARIANTS
    NewestIsHighest
PROPERTIES
    LineageStaysTogether
    DefinitionsStand
