---- MODULE MCOutputModes ----
(***************************************************************************)
(* OutputModes on two machines: a hybrid laptop whose HDMI comes before    *)
(* its panel, and one with two small panels behind a device without a      *)
(* primary node.                                                           *)
(***************************************************************************)
EXTENDS OutputModes, TLC

CONSTANTS panel, dsi, hdmi, tv, lcd, PanelType

Types == (panel :> PanelType) @@ (dsi :> "DSI") @@ (hdmi :> "external")

Dev(primary, render, vendor, connectors) ==
    [primary |-> primary, render |-> render, vendor |-> vendor, connectors |-> connectors]

Hybrid == <<Dev(TRUE, TRUE, "INTEL", <<hdmi, panel>>), Dev(TRUE, FALSE, "AMD", <<dsi>>)>>
Tablet == <<Dev(FALSE, TRUE, "OTHER", <<>>), Dev(TRUE, TRUE, "OTHER", <<dsi, panel>>),
            Dev(TRUE, FALSE, "OTHER", <<hdmi>>)>>

TwoMachines == {Hybrid, Tablet}

ModeOf(width, height, refresh, preferred) ==
    [width |-> width, height |-> height, refresh |-> refresh, preferred |-> preferred]

\* A television prefers Full HD and offers more at 59.94 Hz; a panel has one mode.
TwoDisplays ==
    (tv :> <<ModeOf(1920, 1080, 60000, TRUE), ModeOf(3840, 2160, 59940, FALSE),
             ModeOf(3840, 2160, 30000, FALSE)>>)
    @@ (lcd :> <<ModeOf(1280, 720, 60000, TRUE), ModeOf(1280, 800, 60000, FALSE)>>)
====
