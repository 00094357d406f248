SPECIFICATION Spec
CONSTANTS
    panel = panel
    PanelType = "eDP"
    dsi = dsi
    hdmi = hdmi
    tv = tv
    lcd = lcd
    Connectors = {panel, dsi, hdmi}
    TypeOf <- Types
    Displays = {tv, lcd}
    NoDisplay = NoDisplay
    Machines <- TwoMachines
    ModesOf <- TwoDisplays
    NoMode = NoMode
    MaxAttempts = 1
INVARIANT
    SizedToOutput
CHECK_DEADLOCK FALSE
