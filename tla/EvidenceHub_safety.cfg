SPECIFICATION HubSpec
CONSTANTS
    emir = emir
    pasticuan = pasticuan
    Client = {emir, pasticuan}
    Gone = Gone
    Free = Free
    Families <- AllFamilies
    Callers <- MeetingCallers
    MaxPeriod = 2
    MaxSeen = 2
    MaxReports = 2
    MaxWrites = 2
    Parts <- SomeParts
SYMMETRY Symmetric
INVARIANTS TypeOK SuccessIsFenced  EmptyIsEmpty OfficialIsFiled
PROPERTIES OneHolderFetches CachedStaysCached
