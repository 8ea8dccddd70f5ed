------------------------------ MODULE Crossing ------------------------------
(***************************************************************************)
(* The geometry of crossing from one machine's screens to another's: pure  *)
(* functions on rectangles of integers (topology/crossing.cpp).            *)
(***************************************************************************)
EXTENDS Integers, FiniteSets

Lesser(a, b)  == IF b < a THEN b ELSE a
Greater(a, b) == IF a < b THEN b ELSE a
Clamp(v, lo, hi) == Lesser(Greater(v, lo), hi)

Directions == {"Left", "Right", "Up", "Down"}
Horizontal(dir) == dir \in {"Left", "Right"}
Opposite(dir) ==
  CASE dir = "Left" -> "Right" [] dir = "Right" -> "Left"
    [] dir = "Up" -> "Down"    [] OTHER -> "Up"

(* A monitor, the monitors of a machine, and the bounds around them all.   *)
Monitors  == [x : Int, y : Int, width : Nat \ {0}, height : Nat \ {0}]
Layout(L) == L \subseteq Monitors /\ IsFiniteSet(L)
Least(S)    == CHOOSE v \in S : \A w \in S : v <= w
Greatest(S) == CHOOSE v \in S : \A w \in S : v >= w
ComputeBounds(monitors) ==
  [minX |-> Least({m.x : m \in monitors}),
   maxX |-> Greatest({m.x + m.width : m \in monitors}),
   minY |-> Least({m.y : m \in monitors}),
   maxY |-> Greatest({m.y + m.height : m \in monitors})]

AllBounds == [minX : Int, maxX : Int, minY : Int, maxY : Int]
ProperBounds(b) == b \in AllBounds /\ b.minX < b.maxX /\ b.minY < b.maxY
Inside(b, x, y) == x \in b.minX .. b.maxX /\ y \in b.minY .. b.maxY

(* Where a cursor that leaves in direction dir at the perpendicular        *)
(* position perp lands on a peer that is shifted by offset.                *)
ComputeCrossing(b, dir, offset, perp) ==
  IF Horizontal(dir)
  THEN [x |-> IF dir = "Right" THEN b.minX ELSE b.maxX,
        y |-> Clamp(perp, offset, offset + (b.maxY - b.minY)) - offset + b.minY]
  ELSE [x |-> Clamp(perp, offset, offset + (b.maxX - b.minX)) - offset + b.minX,
        y |-> IF dir = "Down" THEN b.minY ELSE b.maxY]

(* Which edge of b the position touches or exceeds, X before Y.            *)
Crossed(b, x, y) == x <= b.minX \/ x >= b.maxX \/ y <= b.minY \/ y >= b.maxY
EdgeOf(b, x, y) ==
  CASE x <= b.minX -> "Left"
    [] x > b.minX /\ x >= b.maxX -> "Right"
    [] x > b.minX /\ x < b.maxX /\ y <= b.minY -> "Up"
    [] OTHER -> "Down"

CheckBoundary(b, x, y) ==
  LET cx == Clamp(x, b.minX, b.maxX)
      cy == Clamp(y, b.minY, b.maxY)
  IN  [crossed |-> Crossed(b, x, y), dir |-> EdgeOf(b, x, y), x |-> cx, y |-> cy,
       perp |-> IF Horizontal(EdgeOf(b, x, y)) THEN cy ELSE cx]

(* The peer's place as seen from the Master, turned into the Master's      *)
(* place as seen from the peer.                                            *)
InvertEntry(entry, master, peer) ==
  [dir |-> Opposite(entry.dir),
   offset |-> IF Horizontal(entry.dir) THEN peer.minY + master.minY - entry.offset
                                       ELSE peer.minX + master.minX - entry.offset]

(* The dragged block's direction is the axis on which its centre is        *)
(* farther from the Master's; centres are doubled to stay integers.        *)
Magnitude(v) == IF v < 0 THEN -v ELSE v
DecidePlacement(master, width, height, x, y) ==
  LET dx == 2 * x + width  - (master.minX + master.maxX)
      dy == 2 * y + height - (master.minY + master.maxY)
  IN  IF Magnitude(dx) >= Magnitude(dy)
      THEN [dir |-> IF dx >= 0 THEN "Right" ELSE "Left", offset |-> y]
      ELSE [dir |-> IF dy >= 0 THEN "Down" ELSE "Up", offset |-> x]
=============================================================================
