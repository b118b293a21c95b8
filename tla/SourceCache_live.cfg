SPECIFICATION FairSpec
CONSTANTS
    s1 = s1
    s2 = s2
    Scan = {s1, s2}
    Families <- AllFamilies
    MaxEdition = 2
INVARIANTS TypeOK ProcessedIsLoaded
PROPERTIES EveryChunkLands
