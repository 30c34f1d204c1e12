------------------------------ MODULE MCMkIcons ------------------------------
(***************************************************************************)
(* MkIcons for TLC.  Bytes are base-4 digits, so a 2-byte field holds      *)
(* 0 .. 15 and a 4-byte field 0 .. 255, and images a few pixels wide reach *)
(* the limits the script meets at 65535 and 4 GiB.                         *)
(***************************************************************************)
EXTENDS MkIcons

(***************************************************************************)
(* Three consecutive entries of the script's list.  calc.png is listed     *)
(* under two ids there, so one image file feeds two entries.               *)
(***************************************************************************)
MCIcons ==
    << [id |-> 6, path |-> "calc.png"],
       [id |-> 7, path |-> "clock.png"],
       [id |-> 8, path |-> "calc.png"] >>

Small == [w |-> 1,  h |-> 1, tint |-> 1]    \*   4 bytes
Two   == [w |-> 2,  h |-> 1, tint |-> 2]    \*   8 bytes
Edge  == [w |-> 15, h |-> 1, tint |-> 3]    \*  60 bytes, the widest width that fits
Wide  == [w |-> 16, h |-> 1, tint |-> 0]    \*  one pixel too wide for 2 bytes
Big   == [w |-> 15, h |-> 4, tint |-> 1]    \* 240 bytes: the next offset needs 5 bytes

MCImages == {Small, Two, Edge, Wide, Big}
=============================================================================
