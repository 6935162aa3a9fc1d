--------------------------- MODULE MCDogMovement ---------------------------
(* Maps of up to three roads: all the ways two or three roads can meet,    *)
(* overlap, touch, or miss each other on a small grid.                     *)
EXTENDS DogMovement

MCRoad(x0, y0, x1, y1) ==
    [start |-> [x |-> x0, y |-> y0], end |-> [x |-> x1, y |-> y1]]

MCRoads ==
    {MCRoad(0, 0, 3, 0), MCRoad(2, 0, 1, 0), MCRoad(3, 0, 4, 0),
     MCRoad(1, 0, 1, 2), MCRoad(1, 3, 1, 2), MCRoad(0, 2, 2, 2)}

MCMaps == {m \in SUBSET MCRoads : Cardinality(m) \in 1 .. 3}

MCWays == {3, 7}
=============================================================================
