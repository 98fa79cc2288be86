SPECIFICATION Spec
CONSTANTS
    RingSize = 8
    Margin = 3
    Window = 3
    MaxTicks = 20
INVARIANTS
    UnreadIntact
    ReportIsLastWindow
PROPERTY ReportIsMade
