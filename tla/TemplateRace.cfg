CONSTANTS
    Texts = {"", "x"}
    NoText = ""
    Slots <- SmallSlots
    Bands <- SmallBands
    BandSlots <- OwnSlotOnly
    DoubleSlot <- NoDouble
    Template = 2
    FullSheetSlots <- SmallFullSheetSlots
    Devices = {d1, d2}
    TypedTexts = {"x"}
    Absent = Absent
    NoPeriods = NoPeriods
    NetworkFails = FALSE
    MaxMounts = 1
    MaxPending = 2
SPECIFICATION Spec
PROPERTIES
    TemplateOnlyWhenAbsent
