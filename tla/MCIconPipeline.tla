---------------------------- MODULE MCIconPipeline ----------------------------
(***************************************************************************)
(* IconPipeline for TLC: base-4 bytes, two icons, images of one and two    *)
(* pixels and one that is a pixel too wide for its field.                  *)
(***************************************************************************)
EXTENDS IconPipeline

MCIcons ==
    << [id |-> 6, path |-> "calc.png"],
       [id |-> 7, path |-> "clock.png"] >>

Small == [w |-> 1,  h |-> 1, tint |-> 1]
Two   == [w |-> 2,  h |-> 1, tint |-> 2]
Wide  == [w |-> 16, h |-> 1, tint |-> 0]

MCImages == {Small, Two, Wide}

\* The two ids of the list and one that no entry has.
MCLookupIds == {6, 7, 9}
=============================================================================
