--------------------------- MODULE MC_OmniActions ---------------------------
(* Two actions, pressed up to five times in all.                          *)
EXTENDS OmniActions

MCActions == {0, 1}

=============================================================================
