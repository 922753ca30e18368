----------------------------- MODULE MCDisplay -----------------------------
(* A screen of two by two pixels and lists of two rectangles: what the views *)
(* and the overlay draw overlaps, merges and overflows the lists.            *)
EXTENDS Display

Command(p, r, on, c, b) == [plane |-> p, rect |-> r, on |-> on, color |-> c, blit |-> b]

MCDraws ==
    {Command("base", Box(1, 2, 1, 1), Box(1, 2, 1, 1), 1, 1),
     Command("overlay", Box(1, 1, 1, 2), Box(1, 1, 1, 1), 2, 0),
     Command("overlay", Box(2, 2, 1, 1), Box(2, 2, 1, 1), 2, 0),
     Command("overlay", Box(2, 2, 2, 2), Box(2, 2, 2, 2), 2, 0)}

MCWrites  == {[rect |-> Box(2, 2, 1, 2), color |-> 1]}
MCRegions == {Box(2, 2, 1, 2)}
=============================================================================
