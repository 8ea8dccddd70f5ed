--------------------------- MODULE PointerProofs ---------------------------
(***************************************************************************)
(* The crossing geometry lands where it should on screens of any size and  *)
(* place, and the owner of the mouse is suppressed, tracked and kept at    *)
(* rest as it should be for all screens, moves, places and margins.        *)
(***************************************************************************)
EXTENDS Pointer, FiniteSetTheorems, WellFoundedInduction, TLAPS

-----------------------------------------------------------------------------
(* Geometry.                                                               *)

(* A finite set of integers has a least element: in a smallest set without *)
(* one, the rest beside any element would have one.                        *)
LEMMA HasLeast ==
  ASSUME NEW S \in SUBSET Int, IsFiniteSet(S), S # {}
  PROVE  \E v \in S : \A w \in S : v <= w
<1> DEFINE Bottom(U) == \E v \in U : \A w \in U : v <= w
           F == FiniteSubsetsOf(Int)
           Bad == {U \in F : U # {} /\ ~Bottom(U)}
<1> SUFFICES ASSUME Bad # {} PROVE FALSE
  BY DEF FiniteSubsetsOf
<1>1. PICK U \in Bad : \A V \in Bad : <<V, U>> \notin StrictSubsetOrdering(Int)
  BY FS_StrictSubsetOrderingWellFounded, WFMin
<1>2. U \in SUBSET Int /\ IsFiniteSet(U) /\ U # {} /\ ~Bottom(U)
  BY DEF FiniteSubsetsOf
<1>3. PICK e \in U : TRUE
  BY <1>2
<1>4. U \ {e} \in F /\ <<U \ {e}, U>> \in StrictSubsetOrdering(Int)
  BY <1>2, <1>3, FS_RemoveElement DEF FiniteSubsetsOf, StrictSubsetOrdering
<1>5. CASE U \ {e} = {}
  <2>1. e \in Int
    BY <1>2, <1>3
  <2>2. e \in U /\ \A w \in U : w = e
    BY <1>3, <1>5
  <2>3. Bottom(U)
    BY <2>1, <2>2
  <2> QED
    BY <1>2, <2>3
<1>6. ASSUME NEW v \in U \ {e}, \A w \in U \ {e} : v <= w PROVE FALSE
  <2>1. CASE e <= v
    BY <1>2, <1>3, <1>6, <2>1
  <2>2. CASE v <= e
    BY <1>2, <1>3, <1>6, <2>2
  <2> QED
    BY <1>2, <1>3, <1>6, <2>1, <2>2
<1> QED
  BY <1>1, <1>4, <1>5, <1>6

(* A finite set has finitely many values under any function.               *)
LEMMA ValuesFinite ==
  ASSUME NEW S, IsFiniteSet(S), NEW f, f = [e \in S |-> f[e]]
  PROVE  IsFiniteSet({f[e] : e \in S})
<1> DEFINE T == {f[e] : e \in S}
<1>1. f \in Surjection(S, T)
  BY DEF Surjection
<1> QED
  BY <1>1, FS_Surjection

(* And a greatest one: the least of what is mirrored.                      *)
LEMMA HasGreatest ==
  ASSUME NEW S \in SUBSET Int, IsFiniteSet(S), S # {}
  PROVE  \E v \in S : \A w \in S : v >= w
<1> DEFINE T == {0 - s : s \in S}
<1>1. IsFiniteSet(T)
  <2> DEFINE f == [s \in S |-> 0 - s]
  <2>1. T = {f[s] : s \in S} /\ f = [s \in S |-> f[s]]
    OBVIOUS
  <2> HIDE DEF f, T
  <2> QED
    BY <2>1, ValuesFinite
<1>2. T \subseteq Int /\ T # {}
  <2>1. \A s \in S : 0 - s \in Int
    OBVIOUS
  <2> QED
    BY <2>1
<1>3. PICK v \in T : \A w \in T : v <= w
  BY <1>1, <1>2, HasLeast
<1>4. PICK s \in S : v = 0 - s
  BY <1>3
<1>5. ASSUME NEW t \in S PROVE s >= t
  <2>1. v <= 0 - t
    BY <1>3
  <2> QED
    BY <1>4, <1>5, <2>1
<1> QED
  BY <1>5

(* The bounds of a machine's monitors enclose every one of them and have a *)
(* size, however many there are and wherever (crossing.cpp:13-23).         *)
THEOREM BoundsProper ==
  ASSUME NEW L, Layout(L), L # {}
  PROVE  LET b == ComputeBounds(L)
         IN  /\ ProperBounds(b)
             /\ \A m \in L : Inside(b, m.x, m.y) /\ Inside(b, m.x + m.width, m.y + m.height)
<1> DEFINE b == ComputeBounds(L)
           X == {m.x : m \in L}
           Y == {m.y : m \in L}
           R == {m.x + m.width : m \in L}
           B == {m.y + m.height : m \in L}
<1>1. \A m \in L : m.x \in Int /\ m.y \in Int /\ m.width \in Nat \ {0} /\ m.height \in Nat \ {0}
  BY DEF Layout, Monitors
<1>2. IsFiniteSet(L)
  BY DEF Layout
<1>3. IsFiniteSet(X) /\ IsFiniteSet(Y) /\ IsFiniteSet(R) /\ IsFiniteSet(B)
  <2> DEFINE left == [m \in L |-> m.x]
             top == [m \in L |-> m.y]
             right == [m \in L |-> m.x + m.width]
             bottom == [m \in L |-> m.y + m.height]
  <2>1. /\ X = {left[m] : m \in L} /\ left = [m \in L |-> left[m]]
        /\ Y = {top[m] : m \in L} /\ top = [m \in L |-> top[m]]
        /\ R = {right[m] : m \in L} /\ right = [m \in L |-> right[m]]
        /\ B = {bottom[m] : m \in L} /\ bottom = [m \in L |-> bottom[m]]
    OBVIOUS
  <2> HIDE DEF X, Y, R, B, left, top, right, bottom
  <2> QED
    BY <1>2, <2>1, ValuesFinite
<1>4. /\ X \in SUBSET Int /\ Y \in SUBSET Int /\ R \in SUBSET Int /\ B \in SUBSET Int
      /\ X # {} /\ Y # {} /\ R # {} /\ B # {}
  BY <1>1
<1>5. /\ b.minX = Least(X) /\ b.minY = Least(Y)
      /\ b.maxX = Greatest(R) /\ b.maxY = Greatest(B)
      /\ b = [minX |-> b.minX, maxX |-> b.maxX, minY |-> b.minY, maxY |-> b.maxY]
  BY DEF ComputeBounds
<1> HIDE DEF X, Y, R, B, b
<1>6. /\ b.minX \in X /\ \A v \in X : b.minX <= v
      /\ b.minY \in Y /\ \A v \in Y : b.minY <= v
      /\ b.maxX \in R /\ \A v \in R : b.maxX >= v
      /\ b.maxY \in B /\ \A v \in B : b.maxY >= v
  BY <1>3, <1>4, <1>5, HasLeast, HasGreatest DEF Least, Greatest
<1>7. b \in AllBounds
  BY <1>4, <1>5, <1>6 DEF AllBounds
<1>8. ASSUME NEW m \in L
      PROVE  /\ b.minX <= m.x /\ m.x + m.width <= b.maxX
             /\ b.minY <= m.y /\ m.y + m.height <= b.maxY
  <2>1. m.x \in X /\ m.y \in Y /\ m.x + m.width \in R /\ m.y + m.height \in B
    BY DEF X, Y, R, B
  <2> QED
    BY <1>1, <1>4, <1>6, <2>1
<1>9. \A m \in L : /\ Inside(b, m.x, m.y) /\ Inside(b, m.x + m.width, m.y + m.height)
                   /\ b.minX < b.maxX /\ b.minY < b.maxY
  BY <1>1, <1>7, <1>8 DEF Inside, AllBounds
<1> QED
  BY <1>7, <1>9 DEF ProperBounds, b

(* Whatever the direction, the offset and the position it left at, a       *)
(* cursor lands within the peer's bounds (crossing.cpp:25-46).             *)
THEOREM LandingInside ==
  ASSUME NEW b, ProperBounds(b), NEW dir \in Directions,
         NEW offset \in Int, NEW perp \in Int
  PROVE  LET to == ComputeCrossing(b, dir, offset, perp)
         IN  to.x \in Int /\ to.y \in Int /\ Inside(b, to.x, to.y)
<1>1. b.minX \in Int /\ b.maxX \in Int /\ b.minY \in Int /\ b.maxY \in Int
      /\ b.minX < b.maxX /\ b.minY < b.maxY
  BY DEF ProperBounds, AllBounds
<1>2. Clamp(perp, offset, offset + (b.maxY - b.minY)) \in offset .. offset + (b.maxY - b.minY)
  BY <1>1 DEF Clamp, Lesser, Greater
<1>3. Clamp(perp, offset, offset + (b.maxX - b.minX)) \in offset .. offset + (b.maxX - b.minX)
  BY <1>1 DEF Clamp, Lesser, Greater
<1>4. CASE Horizontal(dir)
  BY <1>1, <1>2, <1>4 DEF ComputeCrossing, Inside
<1>5. CASE ~Horizontal(dir)
  BY <1>1, <1>3, <1>5 DEF ComputeCrossing, Inside
<1> QED
  BY <1>4, <1>5

(* The clamped position lies within bounds, and only a position beyond an  *)
(* edge is moved by clamping (crossing.cpp:68-97).                         *)
LEMMA BoundaryClamps ==
  ASSUME NEW b, ProperBounds(b), NEW px \in Int, NEW py \in Int
  PROVE  LET at == CheckBoundary(b, px, py)
         IN  /\ at.x \in Int /\ at.y \in Int /\ at.perp \in Int
             /\ at.crossed \in BOOLEAN /\ at.dir \in Directions
             /\ Inside(b, at.x, at.y)
             /\ Inside(b, px, py) => at.x = px /\ at.y = py
<1> DEFINE at == CheckBoundary(b, px, py)
<1>1. b.minX \in Int /\ b.maxX \in Int /\ b.minY \in Int /\ b.maxY \in Int
      /\ b.minX < b.maxX /\ b.minY < b.maxY
  BY DEF ProperBounds, AllBounds
<1>2. /\ Clamp(px, b.minX, b.maxX) \in b.minX .. b.maxX
      /\ Clamp(py, b.minY, b.maxY) \in b.minY .. b.maxY
      /\ px \in b.minX .. b.maxX => Clamp(px, b.minX, b.maxX) = px
      /\ py \in b.minY .. b.maxY => Clamp(py, b.minY, b.maxY) = py
  BY <1>1 DEF Clamp, Lesser, Greater
<1>3. /\ at.x = Clamp(px, b.minX, b.maxX) /\ at.y = Clamp(py, b.minY, b.maxY)
      /\ at.perp \in {at.x, at.y}
      /\ at.crossed = Crossed(b, px, py) /\ at.dir = EdgeOf(b, px, py)
  BY DEF CheckBoundary
<1>4. EdgeOf(b, px, py) \in Directions
  BY <1>1 DEF EdgeOf, Directions
<1>5. Crossed(b, px, py) \in BOOLEAN
  BY DEF Crossed
<1> QED
  BY <1>1, <1>2, <1>3, <1>4, <1>5 DEF Inside

(* Going out to the peer and straight back leads to the position the       *)
(* cursor left at, wherever the two screens touch: the inverted entry      *)
(* undoes the stored one (crossing.cpp:112-122).                           *)
THEOREM RoundTrip ==
  ASSUME NEW master, ProperBounds(master), NEW b, ProperBounds(b),
         NEW e \in Entries, NEW perp \in Int
  PROVE  LET inv  == InvertEntry(e, master, b)
             out  == ComputeCrossing(b, e.dir, e.offset, perp)
             back == ComputeCrossing(master, inv.dir, inv.offset,
                                     IF Horizontal(e.dir) THEN out.y ELSE out.x)
         IN  IF Horizontal(e.dir)
             THEN perp \in master.minY .. master.maxY
                  /\ perp \in e.offset .. e.offset + (b.maxY - b.minY) => back.y = perp
             ELSE perp \in master.minX .. master.maxX
                  /\ perp \in e.offset .. e.offset + (b.maxX - b.minX) => back.x = perp
<1> DEFINE inv == InvertEntry(e, master, b)
           out == ComputeCrossing(b, e.dir, e.offset, perp)
<1>1. b.minX \in Int /\ b.maxX \in Int /\ b.minY \in Int /\ b.maxY \in Int
      /\ b.minX < b.maxX /\ b.minY < b.maxY
  BY DEF ProperBounds, AllBounds
<1>2. master.minX \in Int /\ master.maxX \in Int /\ master.minY \in Int
      /\ master.maxY \in Int /\ master.minX < master.maxX /\ master.minY < master.maxY
  BY DEF ProperBounds, AllBounds
<1>3. e.dir \in Directions /\ e.offset \in Int
  BY DEF Entries
<1>4. Horizontal(inv.dir) <=> Horizontal(e.dir)
  BY <1>3 DEF InvertEntry, Opposite, Horizontal, Directions
<1>5. CASE Horizontal(e.dir)
  <2> SUFFICES ASSUME perp \in master.minY .. master.maxY,
                      perp \in e.offset .. e.offset + (b.maxY - b.minY)
               PROVE  ComputeCrossing(master, inv.dir, inv.offset, out.y).y = perp
    BY <1>5
  <2>1. Clamp(perp, e.offset, e.offset + (b.maxY - b.minY)) = perp
    BY <1>1, <1>3 DEF Clamp, Lesser, Greater
  <2>2. out.y = perp - e.offset + b.minY
    BY <1>5, <2>1 DEF ComputeCrossing
  <2>3. inv.offset = b.minY + master.minY - e.offset
    BY <1>5 DEF InvertEntry
  <2>4. out.y \in inv.offset .. inv.offset + (master.maxY - master.minY)
    BY <1>1, <1>2, <1>3, <2>2, <2>3
  <2>5. Clamp(out.y, inv.offset, inv.offset + (master.maxY - master.minY)) = out.y
    BY <1>1, <1>2, <1>3, <2>2, <2>3, <2>4 DEF Clamp, Lesser, Greater
  <2> QED
    BY <1>1, <1>2, <1>3, <1>4, <1>5, <2>2, <2>3, <2>5 DEF ComputeCrossing
<1>6. CASE ~Horizontal(e.dir)
  <2> SUFFICES ASSUME perp \in master.minX .. master.maxX,
                      perp \in e.offset .. e.offset + (b.maxX - b.minX)
               PROVE  ComputeCrossing(master, inv.dir, inv.offset, out.x).x = perp
    BY <1>6
  <2>1. Clamp(perp, e.offset, e.offset + (b.maxX - b.minX)) = perp
    BY <1>1, <1>3 DEF Clamp, Lesser, Greater
  <2>2. out.x = perp - e.offset + b.minX
    BY <1>6, <2>1 DEF ComputeCrossing
  <2>3. inv.offset = b.minX + master.minX - e.offset
    BY <1>6 DEF InvertEntry
  <2>4. out.x \in inv.offset .. inv.offset + (master.maxX - master.minX)
    BY <1>1, <1>2, <1>3, <2>2, <2>3
  <2>5. Clamp(out.x, inv.offset, inv.offset + (master.maxX - master.minX)) = out.x
    BY <1>1, <1>2, <1>3, <2>2, <2>3, <2>4 DEF Clamp, Lesser, Greater
  <2> QED
    BY <1>1, <1>2, <1>3, <1>4, <1>6, <2>2, <2>3, <2>5 DEF ComputeCrossing
<1> QED
  BY <1>5, <1>6

-----------------------------------------------------------------------------
(* The state machine.                                                      *)

(* The types carry the geometry's hypotheses, the hook flag keeps an idle  *)
(* frame's ownership at home, and the tracked position is where HomeInside *)
(* wants it even while a session is down that no frame has seen end.       *)
TypeInv ==
  /\ slave \in Slaves /\ peer \in PeerLayouts
  /\ arranged \in [Slaves -> Entries \cup {NoEntry}]
  /\ x \in Int /\ y \in Int
  /\ moved \in Moves \cup {Still} /\ moved \in Int \X Int
FlagInv ==
  /\ connected \in BOOLEAN /\ hooked \in BOOLEAN /\ suppress \in BOOLEAN
  /\ mine \in BOOLEAN /\ landed \in BOOLEAN
  /\ suppress <=> hooked /\ ~mine
  /\ ~hooked => mine
HomeInv == hooked /\ mine /\ ~landed => Inside(MasterBounds, x, y)
IInv == TypeInv /\ FlagInv /\ HomeInv

LEMMA MasterProper ==
  /\ ProperBounds(MasterBounds)
  /\ MasterBounds.minX \in Int /\ MasterBounds.maxX \in Int
  /\ MasterBounds.minY \in Int /\ MasterBounds.maxY \in Int
  BY ScreenAssumption, BoundsProper DEF MasterBounds, ProperBounds, AllBounds

LEMMA PeerProper ==
  ASSUME peer \in PeerLayouts, peer # {}
  PROVE  /\ ProperBounds(PeerBounds)
         /\ PeerBounds.minX \in Int /\ PeerBounds.maxX \in Int
         /\ PeerBounds.minY \in Int /\ PeerBounds.maxY \in Int
  BY ScreenAssumption, BoundsProper DEF PeerBounds, ProperBounds, AllBounds

LEMMA MiddleInt == Middle(MasterBounds)[1] \in Int /\ Middle(MasterBounds)[2] \in Int
  BY MasterProper DEF Middle, Half

(* What pump_input computes before it decides is well-typed.               *)
LEMMA AheadTyped ==
  ASSUME TypeInv, NEW b, ProperBounds(b)
  PROVE  /\ Ahead(b).x \in Int /\ Ahead(b).y \in Int /\ Ahead(b).perp \in Int
         /\ Ahead(b).crossed \in BOOLEAN /\ Ahead(b).dir \in Directions
         /\ Inside(b, Ahead(b).x, Ahead(b).y)
         /\ OverX(b) \in Int /\ OverY(b) \in Int
<1>1. x + moved[1] \in Int /\ y + moved[2] \in Int
  BY DEF TypeInv
<1>2. /\ Ahead(b).x \in Int /\ Ahead(b).y \in Int /\ Ahead(b).perp \in Int
      /\ Ahead(b).crossed \in BOOLEAN /\ Ahead(b).dir \in Directions
      /\ Inside(b, Ahead(b).x, Ahead(b).y)
  BY <1>1, BoundaryClamps DEF Ahead
<1>3. OverX(b) \in Int /\ OverY(b) \in Int
  BY <1>2 DEF OverX, OverY, TypeInv
<1> QED
  BY <1>2, <1>3

LEMMA PlacementTyped ==
  ASSUME NEW b, ProperBounds(b), NEW w \in Int, NEW h \in Int,
         NEW px \in Int, NEW py \in Int
  PROVE  DecidePlacement(b, w, h, px, py) \in Entries
  BY DEF DecidePlacement, Entries, Directions

LEMMA LandTyped ==
  ASSUME NEW to, to.x \in Int, to.y \in Int, NEW dir, NEW overX \in Int, NEW overY \in Int,
         Land(to, dir, overX, overY)
  PROVE  x' \in Int /\ y' \in Int
  BY DEF Land

(* The inductive step, by component of the invariant.                      *)
LEMMA TypeStep == IInv /\ [Next]_vars => TypeInv'
<1> SUFFICES ASSUME IInv, [Next]_vars PROVE TypeInv'
  OBVIOUS
<1> USE DEF IInv
<1>1. CASE SessionEnds
  BY <1>1, ScreenAssumption DEF SessionEnds, TypeInv
<1>2. ASSUME NEW s \in Slaves, SessionStarts(s) PROVE TypeInv'
  BY <1>2, ScreenAssumption DEF SessionStarts, TypeInv
<1>3. ASSUME NEW p \in PeerLayouts, MonitorsReported(p) PROVE TypeInv'
  BY <1>3 DEF MonitorsReported, TypeInv
<1>4. ASSUME NEW drop \in Drops, Rearrange(drop) PROVE TypeInv'
  <2>1. drop[1] \in Int /\ drop[2] \in Int
    BY EntryAssumption
  <2>2. /\ PeerBounds.maxX - PeerBounds.minX \in Int
        /\ PeerBounds.maxY - PeerBounds.minY \in Int
    BY <1>4, PeerProper DEF Rearrange, TypeInv
  <2>3. DecidePlacement(MasterBounds, PeerBounds.maxX - PeerBounds.minX,
                        PeerBounds.maxY - PeerBounds.minY, drop[1], drop[2]) \in Entries
    BY <2>1, <2>2, MasterProper, PlacementTyped
  <2> QED
    BY <1>4, <2>3 DEF Rearrange, TypeInv
<1>5. ASSUME NEW d \in Moves, MouseMoves(d) PROVE TypeInv'
  BY <1>5, MoveAssumption DEF MouseMoves, TypeInv
<1>6. ASSUME NEW cx \in MasterBounds.minX .. MasterBounds.maxX,
             NEW cy \in MasterBounds.minY .. MasterBounds.maxY, Install(cx, cy)
      PROVE  TypeInv'
  BY <1>6, MasterProper DEF Install, TypeInv
<1>7. CASE Deactivate
  BY <1>7 DEF Deactivate, TypeInv
<1>8. CASE PeerWentDark
  BY <1>8, MiddleInt DEF PeerWentDark, ForceHome, TypeInv
<1>9. CASE Escape
  BY <1>9, MiddleInt DEF Escape, ForceHome, TypeInv, Still
<1>10. CASE CrossOut
  <2>1. entry \in Entries /\ peer # {}
    BY <1>10 DEF CrossOut, MayLeave, TypeInv, entry
  <2>2. entry.dir \in Directions /\ entry.offset \in Int
    BY <2>1 DEF Entries
  <2> DEFINE to == ComputeCrossing(PeerBounds, entry.dir, entry.offset, Ahead(MasterBounds).perp)
  <2>3. to.x \in Int /\ to.y \in Int
    BY <2>1, <2>2, LandingInside, PeerProper, AheadTyped, MasterProper DEF TypeInv
  <2>4. x' \in Int /\ y' \in Int
    BY <1>10, <2>3, LandTyped, AheadTyped, MasterProper DEF CrossOut
  <2> QED
    BY <1>10, <2>4 DEF CrossOut, TypeInv, Still
<1>11. CASE StayHome
  BY <1>11, AheadTyped, MasterProper DEF StayHome, TypeInv, Still
<1>12. CASE CrossBack
  <2>1. entry \in Entries /\ peer # {}
    BY <1>12 DEF CrossBack, SlaveOwns, MayReturn, OnReturnEdge, TypeInv, entry
  <2>2. ProperBounds(PeerBounds) /\ PeerBounds.minX \in Int /\ PeerBounds.minY \in Int
    BY <2>1, PeerProper DEF TypeInv
  <2>3. WayBack.dir \in Directions /\ WayBack.offset \in Int
    BY <2>1, <2>2, MasterProper DEF WayBack, InvertEntry, Opposite, Directions, Entries
  <2> DEFINE to == ComputeCrossing(MasterBounds, WayBack.dir, WayBack.offset, Ahead(PeerBounds).perp)
  <2>4. to.x \in Int /\ to.y \in Int
    BY <2>2, <2>3, LandingInside, AheadTyped, MasterProper
  <2>5. x' \in Int /\ y' \in Int
    BY <1>12, <2>2, <2>4, LandTyped, AheadTyped DEF CrossBack
  <2> QED
    BY <1>12, <2>5 DEF CrossBack, TypeInv, Still
<1>13. CASE StayAway
  <2>1. ProperBounds(PeerBounds)
    BY <1>13, PeerProper DEF StayAway, SlaveOwns, TypeInv
  <2>2. x' \in Int /\ y' \in Int
    BY <1>13, <2>1, AheadTyped DEF StayAway, TypeInv
  <2> QED
    BY <1>13, <2>2 DEF StayAway, TypeInv, Still
<1>14. CASE UNCHANGED vars
  BY <1>14 DEF vars, TypeInv
<1> QED
  BY <1>1, <1>2, <1>3, <1>4, <1>5, <1>6, <1>7, <1>8, <1>9, <1>10, <1>11, <1>12, <1>13, <1>14
  DEF Next, Frame

(* Only a frame takes or gives up the input, and sets the flags together.  *)
LEMMA FlagStep == IInv /\ [Next]_vars => FlagInv'
<1> SUFFICES ASSUME IInv, [Next]_vars PROVE FlagInv'
  OBVIOUS
<1> USE DEF IInv, FlagInv
<1>1. CASE SessionEnds
  BY <1>1 DEF SessionEnds
<1>2. ASSUME NEW s \in Slaves, SessionStarts(s) PROVE FlagInv'
  BY <1>2 DEF SessionStarts
<1>3. ASSUME NEW p \in PeerLayouts, MonitorsReported(p) PROVE FlagInv'
  BY <1>3 DEF MonitorsReported
<1>4. ASSUME NEW drop \in Drops, Rearrange(drop) PROVE FlagInv'
  BY <1>4 DEF Rearrange
<1>5. ASSUME NEW d \in Moves, MouseMoves(d) PROVE FlagInv'
  BY <1>5 DEF MouseMoves
<1>6. ASSUME NEW cx \in MasterBounds.minX .. MasterBounds.maxX,
             NEW cy \in MasterBounds.minY .. MasterBounds.maxY, Install(cx, cy)
      PROVE  FlagInv'
  BY <1>6 DEF Install
<1>7. CASE Deactivate
  BY <1>7 DEF Deactivate, Resumed
<1>8. CASE PeerWentDark \/ Escape
  BY <1>8 DEF PeerWentDark, Escape, ForceHome, Resumed
<1>9. CASE CrossOut
  BY <1>9 DEF CrossOut, Running
<1>10. CASE StayHome \/ StayAway
  <2>1. landed' = FALSE /\ UNCHANGED <<connected, hooked, suppress, mine>>
    BY <1>10 DEF StayHome, StayAway
  <2> QED
    BY <2>1
<1>11. CASE CrossBack
  BY <1>11 DEF CrossBack, Resumed
<1>12. CASE UNCHANGED vars
  BY <1>12 DEF vars
<1> QED
  BY <1>1, <1>2, <1>3, <1>4, <1>5, <1>6, <1>7, <1>8, <1>9, <1>10, <1>11, <1>12
  DEF Next, Frame

(* A frame that leaves the input at home has clamped the position, and     *)
(* every other way home raises landed or starts from the cursor.           *)
LEMMA HomeStep == IInv /\ [Next]_vars => HomeInv'
<1> SUFFICES ASSUME IInv, [Next]_vars PROVE HomeInv'
  OBVIOUS
<1> USE DEF IInv, HomeInv
<1>1. CASE SessionEnds
  BY <1>1 DEF SessionEnds, Inside
<1>2. ASSUME NEW s \in Slaves, SessionStarts(s) PROVE HomeInv'
  BY <1>2 DEF SessionStarts, Inside
<1>3. ASSUME NEW p \in PeerLayouts, MonitorsReported(p) PROVE HomeInv'
  BY <1>3 DEF MonitorsReported, Inside
<1>4. ASSUME NEW drop \in Drops, Rearrange(drop) PROVE HomeInv'
  BY <1>4 DEF Rearrange, Inside
<1>5. ASSUME NEW d \in Moves, MouseMoves(d) PROVE HomeInv'
  BY <1>5 DEF MouseMoves, Inside
<1>6. ASSUME NEW cx \in MasterBounds.minX .. MasterBounds.maxX,
             NEW cy \in MasterBounds.minY .. MasterBounds.maxY, Install(cx, cy)
      PROVE  HomeInv'
  BY <1>6 DEF Install, Inside
<1>7. CASE Deactivate
  BY <1>7 DEF Deactivate
<1>8. CASE PeerWentDark \/ Escape
  BY <1>8 DEF PeerWentDark, Escape, ForceHome
<1>9. CASE CrossOut \/ CrossBack
  BY <1>9 DEF CrossOut, CrossBack
<1>10. CASE StayHome
  <2>1. Inside(MasterBounds, Ahead(MasterBounds).x, Ahead(MasterBounds).y)
    BY AheadTyped, MasterProper
  <2> QED
    BY <1>10, <2>1 DEF StayHome, Inside
<1>11. CASE StayAway
  BY <1>11 DEF StayAway, SlaveOwns
<1>12. CASE UNCHANGED vars
  BY <1>12 DEF vars, Inside
<1> QED
  BY <1>1, <1>2, <1>3, <1>4, <1>5, <1>6, <1>7, <1>8, <1>9, <1>10, <1>11, <1>12
  DEF Next, Frame

LEMMA Initially == Init => IInv
<1> SUFFICES ASSUME Init PROVE IInv
  OBVIOUS
<1>1. TypeInv
  BY ScreenAssumption, EntryAssumption DEF Init, TypeInv, Still
<1>2. FlagInv /\ HomeInv
  BY DEF Init, FlagInv, HomeInv
<1> QED
  BY <1>1, <1>2 DEF IInv

(* No frame of pump_input and nothing around it breaks the invariant.      *)
THEOREM Inductive == Spec => []IInv
<1>1. IInv /\ [Next]_vars => IInv'
  BY TypeStep, FlagStep, HomeStep DEF IInv
<1> QED
  BY Initially, <1>1, PTL DEF Spec

(* Every variable of the pump keeps its type.                              *)
THEOREM TypeCorrect == Spec => []TypeOK
<1>1. IInv => TypeOK
  BY DEF IInv, TypeInv, FlagInv, TypeOK
<1> QED
  BY Inductive, <1>1, PTL

(* The Master's keyboard and mouse are dead exactly while a Slave owns the *)
(* input, for all screens, arrangements and motion (input_pump.cpp).       *)
THEOREM SuppressionCorrect == Spec => []SuppressedForSlave
<1>1. IInv => SuppressedForSlave
  BY DEF IInv, FlagInv, SuppressedForSlave
<1> QED
  BY Inductive, <1>1, PTL

(* The tracked position is on the Master's screens whenever the frame      *)
(* after a landing is over, however far the mouse was flung.               *)
THEOREM HomeCorrect == Spec => []HomeInside
<1>1. IInv => HomeInside
  BY DEF IInv, HomeInv, HomeInside, Running
<1> QED
  BY Inductive, <1>1, PTL

(* No frame moves or hands over a Slave's cursor that rests on its screens *)
(* and their edges, for every margin of at least 1.                        *)
THEOREM RestCorrect == Spec => RestStays
<1> DEFINE Rest == Frame /\ SlaveOwns /\ moved = Still /\ Inside(PeerBounds, x, y)
                     => Escape \/ (~mine' /\ place' = place)
<1>1. IInv /\ [Next]_vars => [Rest]_vars
  <2> SUFFICES ASSUME IInv, Frame, SlaveOwns, moved = Still, Inside(PeerBounds, x, y),
                      ~Escape
               PROVE  ~mine' /\ place' = place
    BY DEF vars
  <2> USE DEF IInv
  <2>1. ProperBounds(PeerBounds) /\ x \in Int /\ y \in Int
    BY PeerProper DEF SlaveOwns, TypeInv
  <2>2. x + moved[1] = x /\ y + moved[2] = y
    BY <2>1 DEF Still
  <2>3. Ahead(PeerBounds).x = x /\ Ahead(PeerBounds).y = y
    BY <2>1, <2>2, BoundaryClamps DEF Ahead
  <2>4. OverX(PeerBounds) = 0 /\ OverY(PeerBounds) = 0
    <3>1. OverX(PeerBounds) = x + (0 - x) /\ OverY(PeerBounds) = y + (0 - y)
      BY <2>3 DEF OverX, OverY, Still
    <3> QED
      BY <2>1, <3>1
  <2>5. ~PastMargin
    BY <2>4, MarginAssumption DEF PastMargin, Magnitude
  <2>6. CASE StayAway
    BY <2>1, <2>2, <2>3, <2>6 DEF StayAway, SlaveOwns, place
  <2>7. ~Deactivate /\ ~PeerWentDark /\ ~CrossOut /\ ~StayHome
    BY DEF SlaveOwns, Running, Deactivate, PeerWentDark, CrossOut, StayHome
  <2>8. ~CrossBack
    BY <2>5 DEF CrossBack, MayReturn
  <2> QED
    BY <2>6, <2>7, <2>8 DEF Frame
<1>2. [][Rest]_vars => RestStays
  BY PTL DEF RestStays
<1> QED
  BY Inductive, <1>1, <1>2, PTL DEF Spec

(* Beyond the Slave's screens the tracked position is past the one edge    *)
(* that leads home, or nowhere, wherever the screens are and however they  *)
(* are arranged.                                                           *)
THEOREM PinnedCorrect == Spec => PinnedElsewhere
<1> DEFINE Pinned == StayAway =>
             LET b == PeerBounds
             IN  /\ ~Inside(b, x', y') => entry # NoEntry
                 /\ x' < b.minX => WayBack.dir = "Left"
                 /\ x' > b.maxX => WayBack.dir = "Right"
                 /\ y' < b.minY => WayBack.dir = "Up"
                 /\ y' > b.maxY => WayBack.dir = "Down"
<1>1. IInv /\ [Next]_vars => [Pinned]_vars
  <2> SUFFICES ASSUME IInv, StayAway PROVE Pinned
    OBVIOUS
  <2> USE DEF IInv
  <2> DEFINE at == Ahead(PeerBounds)
             px == x + moved[1]
             py == y + moved[2]
  <2>1. /\ ProperBounds(PeerBounds)
        /\ PeerBounds.minX \in Int /\ PeerBounds.maxX \in Int
        /\ PeerBounds.minY \in Int /\ PeerBounds.maxY \in Int
        /\ PeerBounds.minX < PeerBounds.maxX /\ PeerBounds.minY < PeerBounds.maxY
    BY PeerProper DEF StayAway, SlaveOwns, TypeInv, ProperBounds
  <2>2. px \in Int /\ py \in Int
    BY DEF TypeInv
  <2>3. /\ at.x \in PeerBounds.minX .. PeerBounds.maxX
        /\ at.y \in PeerBounds.minY .. PeerBounds.maxY
    BY <2>1, AheadTyped DEF Inside
  <2>4. at.dir = EdgeOf(PeerBounds, px, py)
    BY DEF Ahead, CheckBoundary
  <2>5. /\ x' = IF KeepsX(at) THEN px ELSE at.x
        /\ y' = IF KeepsY(at) THEN py ELSE at.y
    BY DEF StayAway
  <2>6. CASE ~KeepsX(at) /\ ~KeepsY(at)
    BY <2>1, <2>3, <2>5, <2>6 DEF Inside
  <2>7. CASE KeepsX(at)
    <3>1. entry # NoEntry /\ at.dir = WayBack.dir /\ at.dir \in {"Left", "Right"}
      BY <2>7 DEF KeepsX, OnReturnEdge, Horizontal
    <3>2. x' = px /\ y' = at.y
      BY <2>5, <2>7 DEF KeepsX, KeepsY
    <3>3. px < PeerBounds.minX => at.dir = "Left"
      BY <2>1, <2>2, <2>4 DEF EdgeOf
    <3>4. px > PeerBounds.maxX => at.dir = "Right"
      BY <2>1, <2>2, <2>4 DEF EdgeOf
    <3> QED
      BY <2>1, <2>3, <3>1, <3>2, <3>3, <3>4
  <2>8. CASE KeepsY(at)
    <3>1. entry # NoEntry /\ at.dir = WayBack.dir /\ at.dir \notin {"Left", "Right"}
      BY <2>8 DEF KeepsY, OnReturnEdge, Horizontal
    <3>2. y' = py /\ x' = at.x
      BY <2>5, <2>8 DEF KeepsX, KeepsY
    <3>3. py < PeerBounds.minY => at.dir = "Up"
      BY <2>1, <2>2, <2>4, <3>1 DEF EdgeOf
    <3>4. py > PeerBounds.maxY => at.dir = "Down"
      BY <2>1, <2>2, <2>4, <3>1 DEF EdgeOf
    <3> QED
      BY <2>1, <2>3, <3>1, <3>2, <3>3, <3>4
  <2> QED
    BY <2>6, <2>7, <2>8
<1>2. [][Pinned]_vars => PinnedElsewhere
  BY PTL DEF PinnedElsewhere
<1> QED
  BY Inductive, <1>1, <1>2, PTL DEF Spec
=============================================================================
