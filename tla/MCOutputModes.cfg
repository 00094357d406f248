SPECIFICATION Spec
CONSTANTS
    panel = panel
    PanelType = "LVDS"
    dsi = dsi
    hdmi = hdmi
    tv = tv
    lcd = lcd
    Connectors = {panel, dsi, hdmi}
    TypeOf <- Types
    Displays = {tv, lcd}
    NoDisplay = NoDisplay
    Machines <- TwoMachines
    ModesOf <- TwoDisplays
    NoMode = NoMode
    MaxAttempts = 2
INVARIANTS
    OutputTypeOK
    SelectedIsBest
    DrivesDisplay
    OutputBeatsVendor
    NothingLeftOpen
    BestOutput
    PanelOrder
    SizedAtWholeHertz
PROPERTIES
    SelectionEnds
    SelectionShrinks
    ImplementsStart
CHECK_DEADLOCK FALSE
