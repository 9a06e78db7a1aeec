CONSTANTS
    Texts = {"", "x"}
    NoText = ""
    Slots <- MiniSlots
    Bands <- MiniBands
    BandSlots <- MiniBandSlots
    DoubleSlot <- MiniDoubleSlot
    Template = 7
    FullSheetSlots <- MiniFullSheetSlots
    Fields = {"className", "roomName"}
    MaxEdits = 3
SPECIFICATION Spec
INVARIANTS
    TypeOK
    SchedulesSound
    SaveSettles
PROPERTIES
    FreeBandsKept
    CoursesExpanded
    DroppedCourseGone
