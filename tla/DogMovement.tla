---------------------------- MODULE DogMovement ----------------------------
(***************************************************************************)
(* How a dog moves on the roads of a map: SetDogDirection and MoveDog of   *)
(* src/src/app/game_session.cpp, with the spawn points of use_cases.cpp.   *)
(*                                                                         *)
(* Roads lie on whole coordinates.  A dog is anywhere between; its place   *)
(* is counted in Unit parts of a coordinate, so that half the width of a   *)
(* road, 0.4, and the way made in a tick are whole numbers.                *)
(***************************************************************************)
EXTENDS Integers, FiniteSets, RoadIndex

CONSTANTS
    Maps,        \* the sets of roads to consider
    Unit,        \* parts of a coordinate
    HalfWidth,   \* HALF_ROAD_WIDTH in parts
    Ways         \* how far a tick may carry a dog, in parts

ASSUME ConstantsAssumption ==
    /\ Unit \in Nat \ {0} /\ HalfWidth \in 0 .. Unit
    /\ 2 * HalfWidth < Unit
    /\ Ways \subseteq Nat

(* A map has finitely many roads.  The constructors of Road make them      *)
(* horizontal or vertical.                                                 *)
ASSUME MapsAssumption ==
    \A map \in Maps :
        /\ IsFiniteSet(map)
        /\ \A road \in map :
              /\ {road.start.x, road.start.y, road.end.x, road.end.y} \subseteq Int
              /\ road.start.y = road.end.y \/ road.start.x = road.end.x

VARIABLES
    roads,       \* the roads of the map
    position_,   \* the place of the dog, [x, y] in parts
    direction_,  \* where it faces
    moving       \* is speed_ other than zero?  It then points to direction_

vars == <<roads, position_, direction_, moving>>

Direction == {"NORTH", "EAST", "WEST", "SOUTH"}

Towards(direction) ==
    CASE direction = "NORTH" -> [x |-> 0, y |-> -1]
      [] direction = "EAST"  -> [x |-> 1, y |-> 0]
      [] direction = "WEST"  -> [x |-> -1, y |-> 0]
      [] direction = "SOUTH" -> [x |-> 0, y |-> 1]

(* GenerateSpawnPoint: the start of the first road, or, with random spawn  *)
(* points, any point on the axis of any road.                              *)
OnAxis(road) ==
    LET xs == Fragment(road.start.x, road.end.x)
        ys == Fragment(road.start.y, road.end.y)
    IN  [x : Unit * xs.first .. Unit * xs.second, y : Unit * ys.first .. Unit * ys.second]

Init ==
    /\ roads \in Maps
    /\ position_ \in UNION {OnAxis(r) : r \in roads}
    /\ direction_ = "NORTH"
    /\ moving = FALSE

SetDogDirection(direction) ==
    /\ direction_' = direction
    /\ moving' = TRUE
    /\ UNCHANGED <<roads, position_>>

Stop ==
    /\ moving' = FALSE
    /\ UNCHANGED <<roads, position_, direction_>>

(* Bug: the fraction is cut off downwards.                                 *)
RoundDown(c) == c \div Unit

(* std::round, halves away from zero.                                      *)
Round(c) == IF c >= 0 THEN (2 * c + Unit) \div (2 * Unit)
            ELSE -((Unit - 2 * c) \div (2 * Unit))

RoadsAt(p) == GetRoadsAtPoint(roads, Round(p.x), Round(p.y))

(* The corners, in parts, of the stretches of road found at the dog.       *)
Corners(p) ==
    LET found == RoadsAt(p)
    IN  {[x |-> Unit * c, y |-> Unit * Round(p.y)] :
             c \in UNION {{f.first, f.second} : f \in found.horizontal}}
        \cup
        {[x |-> Unit * Round(p.x), y |-> Unit * c] :
             c \in UNION {{f.first, f.second} : f \in found.vertical}}

LeastOf(S) == CHOOSE m \in S : \A n \in S : m <= n
GreatestOf(S) == CHOOSE m \in S : \A n \in S : m >= n

(* Bug: the place of the dog is left out of the range.                     *)
BoundsOfRoads(p) ==
    LET corners == Corners(p)
    IN  [min_x |-> LeastOf({c.x - HalfWidth : c \in corners}),
         max_x |-> GreatestOf({c.x + HalfWidth : c \in corners}),
         min_y |-> LeastOf({c.y - HalfWidth : c \in corners}),
         max_y |-> GreatestOf({c.y + HalfWidth : c \in corners})]

(* Where the dog may go: the smallest box around it and the roads.         *)
Bounds(p) ==
    LET corners == Corners(p)
    IN  [min_x |-> LeastOf({p.x} \cup {c.x - HalfWidth : c \in corners}),
         max_x |-> GreatestOf({p.x} \cup {c.x + HalfWidth : c \in corners}),
         min_y |-> LeastOf({p.y} \cup {c.y - HalfWidth : c \in corners}),
         max_y |-> GreatestOf({p.y} \cup {c.y + HalfWidth : c \in corners})]

(* Bug: only the lower border holds.                                       *)
ClampFromBelow(c, min, max) == IF c < min THEN min ELSE c

Clamp(c, min, max) == IF c < min THEN min ELSE IF c > max THEN max ELSE c

(* MoveDog: a dog that would leave the range is put at its border and      *)
(* stopped.  A dog that stands is checked as well.                         *)
MoveDog(way) ==
    LET go == IF moving THEN Towards(direction_) ELSE [x |-> 0, y |-> 0]
        new_pos == [x |-> position_.x + way * go.x, y |-> position_.y + way * go.y]
        range == Bounds(position_)
        clamped == [x |-> Clamp(new_pos.x, range.min_x, range.max_x),
                    y |-> Clamp(new_pos.y, range.min_y, range.max_y)]
    IN  /\ position_' = clamped
        /\ moving' = (moving /\ clamped = new_pos)
        /\ UNCHANGED <<roads, direction_>>

Next ==
    \/ \E direction \in Direction : SetDogDirection(direction)
    \/ Stop
    \/ \E way \in Ways : MoveDog(way)

Spec == Init /\ [][Next]_vars

-----------------------------------------------------------------------------
(* Properties.                                                             *)

(* The index answers what the list of roads would: there is a fragment at  *)
(* a point just if a road passes it, it reaches along all roads it was     *)
(* merged from, and there is one fragment at most, as GetRoadsAtPoint      *)
(* asserts.                                                                *)
Passing(fragments, c) == {f \in fragments : f.first <= c /\ c <= f.second}

IsIndexed(fragments, c) ==
    LET found == FragmentsAt(fragments, c)
    IN  /\ Cardinality(found) <= 1
        /\ found = {} <=> Passing(fragments, c) = {}
        /\ \A f \in found, g \in Passing(fragments, c) :
              f.first <= g.first /\ g.second <= f.second

Near(road) ==
    LET xs == Fragment(road.start.x, road.end.x)
        ys == Fragment(road.start.y, road.end.y)
    IN  (xs.first - 1 .. xs.second + 1) \X (ys.first - 1 .. ys.second + 1)

IndexFindsTheRoads ==
    \A road \in roads : \A p \in Near(road) :
        /\ IsIndexed(HorizontalRoads(roads, p[2]), p[1])
        /\ IsIndexed(VerticalRoads(roads, p[1]), p[2])

(* Wherever a dog has run or been stopped, the index finds a road there:   *)
(* without one its range would be its own place, and it could never leave. *)
NeverStranded == Corners(position_) # {}

(* A dog that turns off is let go a little beside the road it came along:  *)
(* the rounding finds the side road from up to half a coordinate away.     *)
(* Farther than that from every road no dog gets, nor beyond a road's end  *)
(* by more than half its width.                                            *)
Beside(road, p) ==
    LET xs == Fragment(road.start.x, road.end.x)
        ys == Fragment(road.start.y, road.end.y)
        across == Unit \div 2
        dx == IF IsHorizontal(road) THEN HalfWidth ELSE across
        dy == IF IsHorizontal(road) THEN across ELSE HalfWidth
    IN  /\ Unit * xs.first - dx <= p.x /\ p.x <= Unit * xs.second + dx
        /\ Unit * ys.first - dy <= p.y /\ p.y <= Unit * ys.second + dy

StaysBesideRoads == \E road \in roads : Beside(road, position_)

(* A dog only ever moves ahead, and no farther than its speed carries it:  *)
(* the clamping puts no dog back or aside.                                 *)
MovesAhead ==
    [][position_' # position_ =>
          \E way \in Ways : \E part \in 1 .. way :
              /\ moving
              /\ position_'.x = position_.x + part * Towards(direction_).x
              /\ position_'.y = position_.y + part * Towards(direction_).y]_vars
=============================================================================
