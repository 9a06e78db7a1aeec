CONSTANTS
    Texts = {"", "x"}
    NoText = ""
    Slots <- PersonSlots
    Bands <- PersonBands
    BandSlots <- PersonBandSlots
    DoubleSlot <- PersonDoubleSlot
    Template = 55
    FullSheetSlots <- PersonFullSheetSlots
    Fields = {"className"}
    MaxEdits = 2
    NumBands = 8
SPECIFICATION LoopSpec
PROPERTIES
    LoopsImplementPlan
