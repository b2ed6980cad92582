----------------------------- MODULE MCDeckGrid -----------------------------
EXTENDS DeckGrid, TLC

\* GtkDeckPlugin has one action, SystemPlugin three; the last is Multimedia.
MCCodes == "GtkDeckPlugin" :> <<0>> @@ "SystemPlugin" :> <<0, 1, 2>>
MCLabelActions   == {<<"GtkDeckPlugin", 1>>}
MCPictureActions == {<<"SystemPlugin", 3>>}

MCDropped        == MCLabelActions \cup MCPictureActions

\* All keys are pressed at once: one without a button is as good as not pressed.
MCReports == {[k \in Keys |-> 1]}

Symmetry == Permutations(Buttons)
=============================================================================
