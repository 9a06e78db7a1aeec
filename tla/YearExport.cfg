CONSTANTS
    Texts = {"", "x"}
    NoText = ""
    Slots <- SmallSlots
    Bands <- SmallBands
    BandSlots <- OwnSlotOnly
    DoubleSlot <- NoDouble
    Template = 2
    FullSheetSlots <- SmallFullSheetSlots
    NoPeriods = NoPeriods
    SlotRows <- SmallSlotRows
    NumTables = 2
    TableRows <- SmallTableRows
    Subject = "subject"
    Presses = {k1, k2}
    AssetsFail = TRUE
    TypedTexts = {"", "x"}
    Documents <- NewAndSaved
    NumSlots = 3
    MaxChanges = 4
SPECIFICATION Spec
INVARIANT
    TypeOK
PROPERTIES
    ImplementsDownloads
    LoneDownloadsWhole
    EveryPressEnds
