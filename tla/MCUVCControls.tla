---------------------------- MODULE MCUVCControls ----------------------------
(***************************************************************************)
(* Model checking of the camera controls: a terminal control and four of   *)
(* the processing unit, with limits as cameras have them, among them a     *)
(* negative minimum, a minimum that is not 0 and a range of 16 bits.       *)
(***************************************************************************)
EXTENDS UVCControls

SomeLimits ==
    [c \in Controls |->
        CASE c = "focus"        -> [min |-> 10, max |-> 250, def |-> 100]
          [] c = "whiteBalance" -> [min |-> 2800, max |-> 6500, def |-> 4600]
          [] c = "contrast"     -> [min |-> 0, max |-> 65535, def |-> 32]
          [] c = "saturation"   -> [min |-> 1, max |-> 8, def |-> 4]
          [] c = "hue"          -> [min |-> -180, max |-> 180, def |-> 0]]

SomePercents == {-1, 0, 29, 100, 150}
=============================================================================
