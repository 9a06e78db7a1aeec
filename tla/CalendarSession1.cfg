CONSTANTS
    Texts = {"", "x"}
    NoText = ""
    Slots <- SmallSlots
    Bands <- SmallBands
    BandSlots <- OwnSlotOnly
    DoubleSlot <- NoDouble
    Template = 2
    FullSheetSlots <- FreeCellOnly
    Devices = {d1}
    TypedTexts = {"", "x"}
    Absent = Absent
    NoPeriods = NoPeriods
    NetworkFails = TRUE
    MaxMounts = 2
    MaxPending = 2
SPECIFICATION Spec
INVARIANTS
    TypeOK
    SoundDocuments
    RowsHavePeriods
    CleanMeansStored
PROPERTIES
    LossNeedsHastySave
    TemplateOverNothing
