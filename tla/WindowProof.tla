----------------------------- MODULE WindowProof -----------------------------
(***************************************************************************)
(* Proofs about the window, for any places, any coast and any circuits,    *)
(* any number of threads and clicks. Of the map (MapView): every hop is in *)
(* sight, two places are drawn the short way round, and the antimeridian   *)
(* draws no streak. Of the panel (Gui): the types, and that a click alone  *)
(* holds the button, which never stays dead on nobody's account.           *)
(***************************************************************************)
EXTENDS Gui, MapView, FiniteSetTheorems, WellFoundedInduction, TLAPS

-----------------------------------------------------------------------------
(* The map. First its types.                                               *)

\* Whatever answers, statuses and zooming come, the map has a list of circuits and a
\* zoom of the three kinds.
THEOREM MapTypeCorrect == MapSpec => []MapTypeOK
<1>1. MapInit => MapTypeOK
  <2>1. <<>> \in CircuitLists
    <3>1. 0 \in 0..MaxCircuits
      BY PlacesAssumption
    <3>2. <<>> = [i \in 1..0 |-> 0] /\ <<>> \in [1..0 -> AnyCircuit]
      OBVIOUS
    <3> QED
      BY <3>1, <3>2 DEF CircuitLists
  <2> QED
    BY <2>1 DEF MapInit, MapTypeOK
<1>2. MapTypeOK /\ [MapNext]_map_vars => MapTypeOK'
  <2> SUFFICES ASSUME MapTypeOK, [MapNext]_map_vars
               PROVE  MapTypeOK'
    OBVIOUS
  <2> USE DEF MapTypeOK
  <2>1. <<>> \in CircuitLists
    <3>1. 0 \in 0..MaxCircuits
      BY PlacesAssumption
    <3>2. <<>> \in [1..0 -> AnyCircuit]
      OBVIOUS
    <3> QED
      BY <3>1, <3>2 DEF CircuitLists
  <2>2. CASE Redraw \/ ZoomIn \/ ZoomOut \/ ZoomFit \/ UNCHANGED map_vars
    BY <2>2 DEF Redraw, ZoomIn, ZoomOut, ZoomFit, map_vars
  <2>3. CASE Clear
    BY <2>1, <2>3 DEF Clear
  <2> QED
    BY <2>2, <2>3 DEF MapNext
<1> QED
  BY <1>1, <1>2, PTL DEF MapSpec

-----------------------------------------------------------------------------
(* Least and greatest longitudes.                                          *)

\* A set of numbers that is not empty has a least one.
LEMMA LeastNatural ==
  ASSUME NEW S, S \subseteq Nat, S # {}
  PROVE  \E x \in S : \A y \in S : x <= y
<1>1. PICK x \in S : \A y \in S : <<y, x>> \notin OpToRel(<, Nat)
  BY NatLessThanWellFounded, WFMin
<1>2. \A y \in S : ~(y < x)
  BY <1>1, Zenon DEF OpToRel
<1> QED
  BY <1>2

\* Longitudes as given, and shifted too.
Degrees == -180..180
Around  == -180..360

\* Min and Max of a set of longitudes are longitudes of it, and the rest is between.
LEMMA Extremes ==
  ASSUME NEW S, S \subseteq Around, S # {}
  PROVE  /\ Min(S) \in S /\ Max(S) \in S
         /\ \A y \in S : Min(S) <= y /\ y <= Max(S)
<1> USE DEF Around
<1>1. \E x \in S : \A y \in S : x <= y
  <2> DEFINE T == {y + 180 : y \in S}
  <2>1. PICK t \in T : \A u \in T : t <= u
    <3>1. \A y \in S : y + 180 \in Nat
      OBVIOUS
    <3>2. T \subseteq Nat
      BY <3>1
    <3>3. T # {}
      BY ZenonT(30)
    <3> HIDE DEF T
    <3> QED
      BY <3>2, <3>3, LeastNatural
  <2>2. PICK x \in S : t = x + 180
    OBVIOUS
  <2>3. \A y \in S : y + 180 \in T
    OBVIOUS
  <2> HIDE DEF T
  <2>4. \A y \in S : x + 180 <= y + 180
    BY <2>1, <2>2, <2>3
  <2>5. \A y \in S : y \in Int
    OBVIOUS
  <2>6. \A y \in S : x <= y
    BY <2>4, <2>5
  <2> QED
    BY <2>6
<1>2. \E x \in S : \A y \in S : x >= y
  <2> DEFINE T == {360 - y : y \in S}
  <2>1. PICK t \in T : \A u \in T : t <= u
    <3>1. \A y \in S : 360 - y \in Nat
      OBVIOUS
    <3>2. T \subseteq Nat
      BY <3>1
    <3>3. T # {}
      BY ZenonT(30)
    <3> HIDE DEF T
    <3> QED
      BY <3>2, <3>3, LeastNatural
  <2>2. PICK x \in S : t = 360 - x
    OBVIOUS
  <2>3. \A y \in S : 360 - y \in T
    OBVIOUS
  <2> HIDE DEF T
  <2>4. \A y \in S : 360 - x <= 360 - y
    BY <2>1, <2>2, <2>3
  <2>5. \A y \in S : y \in Int
    OBVIOUS
  <2>6. \A y \in S : x >= y
    BY <2>4, <2>5
  <2> QED
    BY <2>6
<1>3. Min(S) \in S /\ \A y \in S : Min(S) <= y
  BY <1>1, Zenon DEF Min
<1>4. Max(S) \in S /\ \A y \in S : Max(S) >= y
  BY <1>2, Zenon DEF Max
<1>5. \A y \in S : y \in Int
  OBVIOUS
<1> HIDE DEF Around
<1> DEFINE top == Max(S)
<1>6. top \in S /\ \A y \in S : top >= y
  BY <1>4
<1> HIDE DEF top
<1>7. \A y \in S : y <= top
  BY <1>5, <1>6
<1> QED
  BY <1>3, <1>4, <1>7 DEF top

-----------------------------------------------------------------------------
(* Where the view lies, and what wrap makes of it.                         *)

\* From half a turn west to a whole one east.
Lies(x)  == x \in Int /\ -36000 <= x /\ x <= 72000
\* Within half a turn.
HalfATurn == 36000
Near(x)  == x \in Int /\ -36000 <= x /\ x <= 36000

\* What is located is a place.
LEMMA LocatedArePlaces ==
  ASSUME MapTypeOK
  PROVE  Located(drawn_circuits) \subseteq Places
<1> DEFINE points == Located(drawn_circuits)
<1>1. \A c \in General(drawn_circuits) : c \in AnyCircuit
  <2>1. PICK n \in 0..MaxCircuits : drawn_circuits \in [1..n -> AnyCircuit]
    BY DEF MapTypeOK, CircuitLists
  <2> QED
    BY <2>1 DEF General
<1>2. \A c \in AnyCircuit : \A i \in DOMAIN c.hops : c.hops[i] \in Places \cup {Unplaced}
  <2> SUFFICES ASSUME NEW c \in AnyCircuit, NEW i \in DOMAIN c.hops
               PROVE  c.hops[i] \in Places \cup {Unplaced}
    OBVIOUS
  <2>1. PICK n \in 0..MaxHops : c.hops \in [1..n -> Places \cup {Unplaced}]
    BY DEF AnyCircuit, Hops
  <2> QED
    BY <2>1
<1>3. \A p \in points : \E c \in General(drawn_circuits) :
        \E i \in DOMAIN c.hops : p = c.hops[i] /\ p # Unplaced
  BY DEF Located
<1> HIDE DEF points
<1>4. points \subseteq Places
  BY <1>1, <1>2, <1>3
<1> QED
  BY <1>4 DEF points

\* The middle of a view is a longitude, as given or shifted.
LEMMA ViewLies ==
  ASSUME PlacesAssumption, MapTypeOK
  PROVE  Lies(View(drawn_circuits).lon)
<1> DEFINE points == Located(drawn_circuits)
<1>1. points \subseteq Places
  BY LocatedArePlaces
<1>2. CASE points = {}
  BY <1>2 DEF View, World, Lies
<1>3. CASE points # {}
  <2> DEFINE plain == {p[1] : p \in points}
             shifted == {Shift(l) : l \in plain}
             lons == Longitudes(points)
  <2>1. plain \subseteq Degrees /\ plain # {}
    BY <1>1, <1>3, PlacesAssumption DEF Degrees
  <2>2. shifted \subseteq Around /\ shifted # {}
    <3>1. \A l \in Degrees : Shift(l) \in Around
      BY DEF Shift, Degrees, Around
    <3> HIDE DEF plain
    <3>2. shifted \subseteq Around
      BY <2>1, <3>1
    <3>3. shifted # {}
      BY <2>1
    <3> QED
      BY <3>2, <3>3
  <2>3. lons = plain \/ lons = shifted
    BY DEF Longitudes
  <2> HIDE DEF lons, plain, shifted
  <2>4. lons \subseteq Around /\ lons # {}
    <3>1. Degrees \subseteq Around
      BY DEF Degrees, Around
    <3> QED
      BY <2>1, <2>2, <2>3, <3>1
  <2>5. Min(lons) \in Around /\ Max(lons) \in Around
    BY <2>4, Extremes
  <2>6. View(drawn_circuits).lon = 100 * (Min(lons) + Max(lons))
    BY <1>3 DEF View, Window, lons
  <2>7. ASSUME NEW a \in Around, NEW b \in Around
        PROVE  Lies(100 * (a + b))
    <3>1. a + b \in Int /\ -360 <= a + b /\ a + b <= 720
      BY DEF Around
    <3> QED
      BY <3>1 DEF Lies
  <2> QED
    BY <2>5, <2>6, <2>7
<1> QED
  BY <1>2, <1>3

\* How often a loop of wrap runs: once, if not at all, when once is enough.
LEMMA OnceOrNever ==
  ASSUME NEW S, S \subseteq 0..2, 1 \in S
  PROVE  Min(S) = IF 0 \in S THEN 0 ELSE 1
<1>1. S \subseteq Nat /\ S # {}
  OBVIOUS
<1>2. \E x \in S : \A y \in S : x <= y
  BY <1>1, LeastNatural
<1> DEFINE n == Min(S)
<1>3. n \in S /\ \A k \in S : n <= k
  BY <1>2 DEF Min
<1> HIDE DEF n
<1>4. n \in Int /\ 0 <= n
  BY <1>3
<1>5. n <= 1
  BY <1>3
<1>6. CASE 0 \in S
  <2>1. n <= 0
    BY <1>3, <1>6
  <2> QED
    BY <1>4, <1>6, <2>1 DEF n
<1>7. CASE 0 \notin S
  <2>1. n # 0
    BY <1>3, <1>7
  <2> QED
    BY <1>4, <1>5, <1>7, <2>1 DEF n
<1> QED
  BY <1>6, <1>7

\* wrap takes a longitude round by whole turns, to within half a turn.
LEMMA WrapIsWithinHalf ==
  ASSUME NEW view, Lies(view.lon), NEW lon \in -180..180
  PROVE  /\ Near(Wrap(view, lon))
         /\ \E m \in -1..1 : Wrap(view, lon) = lon * Unit - view.lon + m * Whole
<1> USE DEF Unit, Whole
<1> DEFINE delta == lon * Unit - view.lon
           W == {k \in 0..2 : delta - k * Whole <= 180 * Unit}
           E == {k \in 0..2 : delta + k * Whole >= -180 * Unit}
<1>1. delta \in Int /\ -108000 <= delta /\ delta <= 72000
  BY DEF Lies
<1>2. Wrap(view, lon) = delta + (Min(E) - Min(W)) * Whole
  BY DEF Wrap
<1> HIDE DEF delta
<1>3. \A k \in 0..2 : /\ k \in W <=> delta - k * 72000 <= 36000
                      /\ k \in E <=> delta + k * 72000 >= -36000
  BY <1>1
<1>4. W \subseteq 0..2 /\ E \subseteq 0..2
  OBVIOUS
<1> HIDE DEF W, E
<1>5. /\ 0 \in W <=> delta <= 36000
      /\ 0 \in E <=> delta >= -36000
      /\ 1 \in W /\ 1 \in E
  BY <1>1, <1>3
<1>6. /\ Min(W) = IF 0 \in W THEN 0 ELSE 1
      /\ Min(E) = IF 0 \in E THEN 0 ELSE 1
  <2>1. W \subseteq 0..2 /\ 1 \in W
    BY <1>4, <1>5
  <2>2. E \subseteq 0..2 /\ 1 \in E
    BY <1>4, <1>5
  <2>3. Min(W) = IF 0 \in W THEN 0 ELSE 1
    BY <2>1, OnceOrNever, Zenon
  <2>4. Min(E) = IF 0 \in E THEN 0 ELSE 1
    BY <2>2, OnceOrNever, Zenon
  <2> QED
    BY <2>3, <2>4
<1>7. /\ Min(W) = IF delta <= 36000 THEN 0 ELSE 1
      /\ Min(E) = IF delta >= -36000 THEN 0 ELSE 1
  BY <1>5, <1>6
<1>8. CASE delta > 36000
  <2>1. Wrap(view, lon) = delta + (-1) * 72000
    BY <1>1, <1>2, <1>7, <1>8
  <2>2. Near(Wrap(view, lon))
    BY <1>1, <1>8, <2>1 DEF Near
  <2> QED
    BY <2>1, <2>2 DEF delta
<1>9. CASE delta < -36000
  <2>1. Wrap(view, lon) = delta + 1 * 72000
    BY <1>1, <1>2, <1>7, <1>9
  <2>2. Near(Wrap(view, lon))
    BY <1>1, <1>9, <2>1 DEF Near
  <2> QED
    BY <2>1, <2>2 DEF delta
<1>10. CASE -36000 <= delta /\ delta <= 36000
  <2>1. Wrap(view, lon) = delta + 0 * 72000
    BY <1>1, <1>2, <1>7, <1>10
  <2>2. Near(Wrap(view, lon))
    BY <1>1, <1>10, <2>1 DEF Near
  <2> QED
    BY <2>1, <2>2 DEF delta
<1> QED
  BY <1>1, <1>8, <1>9, <1>10

\* Two longitudes, wrapped, that are not half a turn apart are as far apart as the
\* short way round.
LEMMA DrawnItsLength ==
  ASSUME NEW view, Lies(view.lon),
         NEW a \in -180..180, NEW b \in -180..180, ~Broken(view, a, b)
  PROVE  Distance(Wrap(view, a), Wrap(view, b)) = Short(a, b)
<1> USE DEF Unit, Whole
<1> DEFINE x == Wrap(view, a)  y == Wrap(view, b)  d == Distance(a, b)
<1>1. PICK m \in -1..1 : x = a * 200 - view.lon + m * 72000
  BY WrapIsWithinHalf
<1>2. PICK n \in -1..1 : y = b * 200 - view.lon + n * 72000
  BY WrapIsWithinHalf
<1>3. ~(Distance(x, y) > 36000)
  BY DEF Broken
<1>4. Short(a, b) = 200 * Min({d, 360 - d})
  BY DEF Short
<1> HIDE DEF x, y
<1>5. /\ d \in Int /\ 0 <= d /\ d <= 360
      /\ d = a - b \/ d = b - a
  BY DEF Distance
<1> HIDE DEF d
<1>6. Min({d, 360 - d}) = IF d <= 180 THEN d ELSE 360 - d
  BY <1>5 DEF Min
<1>7. view.lon \in Int
  BY DEF Lies
<1>8. PICK e \in -2..2 : x - y = 200 * (a - b) + e * 72000 /\ x \in Int /\ y \in Int
  <2>1. m - n \in -2..2
    OBVIOUS
  <2>2. x - y = 200 * (a - b) + (m - n) * 72000 /\ x \in Int /\ y \in Int
    BY <1>1, <1>2, <1>7
  <2> QED
    BY <2>1, <2>2
<1>9. Distance(x, y) = 200 * (IF d <= 180 THEN d ELSE 360 - d)
  <2>1. /\ Distance(x, y) \in Int /\ 0 <= Distance(x, y) /\ Distance(x, y) <= 36000
        /\ Distance(x, y) = x - y \/ Distance(x, y) = y - x
    BY <1>3, <1>8 DEF Distance
  <2> DEFINE z == Distance(x, y)
  <2> HIDE DEF z
  <2>2. z \in Int /\ 0 <= z /\ z <= 36000 /\ (z = x - y \/ z = y - x)
    BY <2>1 DEF z
  <2>3. CASE e = 0
    BY <1>5, <1>8, <2>2, <2>3 DEF z
  <2>4. CASE e = 1
    BY <1>5, <1>8, <2>2, <2>4 DEF z
  <2>5. CASE e = -1
    BY <1>5, <1>8, <2>2, <2>5 DEF z
  <2>6. CASE e = 2
    BY <1>5, <1>8, <2>2, <2>6 DEF z
  <2>7. CASE e = -2
    BY <1>5, <1>8, <2>2, <2>7 DEF z
  <2> QED
    BY <2>3, <2>4, <2>5, <2>6, <2>7
<1> QED
  BY <1>4, <1>6, <1>9 DEF x, y

-----------------------------------------------------------------------------
(* What the view frames.                                                   *)

LEMMA GreaterOfTwo ==
  ASSUME NEW a \in Int, NEW b \in Int
  PROVE  /\ Max({a, b}) \in Int /\ a <= Max({a, b}) /\ b <= Max({a, b})
         /\ Max({a, b}) = a \/ Max({a, b}) = b
<1>1. \E x \in {a, b} : \A y \in {a, b} : x >= y
  OBVIOUS
<1> DEFINE n == Max({a, b})
<1>2. n \in {a, b} /\ \A y \in {a, b} : n >= y
  BY <1>1, Zenon DEF Max
<1> HIDE DEF n
<1>3. n \in Int /\ a <= n /\ b <= n /\ (n = a \/ n = b)
  BY <1>2
<1> QED
  BY <1>3 DEF n

\* What is framed lies within half its span of the middle, at 200 to the degree.
LEMMA WithinHalfItsSpan ==
  ASSUME NEW S, S \subseteq Around, NEW y \in S
  PROVE  LET e == y * Unit - 100 * (Min(S) + Max(S))
         IN  /\ Span(S) \in Nat /\ Span(S) <= 540 /\ e \in Int
             /\ -100 * Span(S) <= e /\ e <= 100 * Span(S)
<1> DEFINE mn == Min(S)  mx == Max(S)
<1>1. mn \in Around /\ mx \in Around /\ mn <= y /\ y <= mx
  BY Extremes
<1>2. Span(S) = mx - mn
  BY DEF Span
<1> HIDE DEF mn, mx
<1>3. /\ mn \in Int /\ mx \in Int /\ y \in Int
      /\ -180 <= mn /\ mn <= y /\ y <= mx /\ mx <= 360
  BY <1>1 DEF Around
<1>4. /\ mx - mn \in Nat /\ mx - mn <= 540
      /\ -100 * (mx - mn) <= y * 200 - 100 * (mn + mx)
      /\ y * 200 - 100 * (mn + mx) <= 100 * (mx - mn)
      /\ y * 200 - 100 * (mn + mx) \in Int
  BY <1>3
<1> QED
  BY <1>2, <1>4 DEF Unit, mn, mx

\* A view is wider than what it frames.
LEMMA PaddedIsWider ==
  ASSUME NEW S, Span(S) \in Nat, Span(S) <= 540, NEW least \in {20, 40}
  PROVE  /\ Padded(S, least) \in Int /\ Padded(S, least) >= 4000
         /\ 200 * Span(S) < Padded(S, least)
<1> DEFINE s == Span(S)
<1>1. s \in Int /\ 0 <= s /\ 290 * s \in Int /\ least * Unit \in Int /\ least * Unit >= 4000
  BY DEF Unit
<1>2. /\ Padded(S, least) \in Int
      /\ 290 * s <= Padded(S, least) /\ least * Unit <= Padded(S, least)
  <2> DEFINE a == 290 * s  b == least * Unit
  <2>1. a \in Int /\ b \in Int /\ Padded(S, least) = Max({a, b})
    BY <1>1 DEF Padded
  <2> HIDE DEF a, b
  <2>2. Padded(S, least) \in Int /\ a <= Padded(S, least) /\ b <= Padded(S, least)
    BY <2>1, GreaterOfTwo
  <2> QED
    BY <2>2 DEF a, b
<1> HIDE DEF s
<1>3. Padded(S, least) >= 4000
  BY <1>1, <1>2
<1>4. 200 * s < Padded(S, least)
  BY <1>1, <1>2, <1>3
<1> QED
  BY <1>2, <1>3, <1>4 DEF s

\* Of one turn more or less, wrap takes the one that is within half a turn.
LEMMA WrapIsNearest ==
  ASSUME NEW view, Lies(view.lon), NEW lon \in -180..180, NEW k \in {0, 1},
         NEW bound \in Nat, bound <= HalfATurn,
         -bound <= lon * Unit - view.lon + k * Whole, lon * Unit - view.lon + k * Whole <= bound
  PROVE  /\ Distance(Wrap(view, lon), 0) <= bound
         /\ -bound <= Wrap(view, lon) /\ Wrap(view, lon) <= bound
<1> DEFINE w == Wrap(view, lon)
<1>1. /\ Near(w)
      /\ \E m \in -1..1 : w = lon * Unit - view.lon + m * Whole
  BY WrapIsWithinHalf
<1> HIDE DEF w
<1>2. PICK m \in -1..1 : w = lon * Unit - view.lon + m * Whole
  BY <1>1
<1>3. w \in Int /\ -36000 <= w /\ w <= 36000
  BY <1>1 DEF Near
<1> DEFINE e == lon * Unit - view.lon + k * Whole
<1>4. e \in Int /\ -bound <= e /\ e <= bound
  BY DEF Lies, Unit, Whole
<1>5. PICK d \in -2..2 : w = e + d * 72000
  <2>1. m - k \in -2..2
    OBVIOUS
  <2>2. w = e + (m - k) * 72000
    BY <1>2 DEF Lies, Unit, Whole
  <2> QED
    BY <2>1, <2>2
<1> HIDE DEF e
<1>6. -bound <= w /\ w <= bound
  <2>1. d = -2 \/ d = -1 \/ d = 0 \/ d = 1 \/ d = 2
    OBVIOUS
  <2>2. bound <= 36000
    BY DEF HalfATurn
  <2> QED
    BY <1>3, <1>4, <1>5, <2>1, <2>2
<1>7. Distance(w, 0) <= bound
  BY <1>3, <1>6 DEF Distance
<1> QED
  BY <1>6, <1>7 DEF w

\* Whichever way round a set of places is measured, each of them is drawn within
\* half the span of it.
LEMMA DrawnWithinTheSpan ==
  ASSUME MapTypeOK, NEW place \in Located(drawn_circuits)
  PROVE  LET view == View(drawn_circuits)
             lons == Longitudes(Located(drawn_circuits))
             lats == {p[2] : p \in Located(drawn_circuits)}
             w    == Wrap(view, place[1])
         IN  /\ Lies(view.lon)
             /\ view.wide = Padded(lons, 40) /\ view.high = Padded(lats, 20)
             /\ Span(lons) \in Nat /\ Span(lons) <= 360 /\ Span(lats) \in Nat /\ Span(lats) <= 540
             /\ w \in Int /\ -100 * Span(lons) <= w /\ w <= 100 * Span(lons)
             /\ Distance(w, 0) <= 100 * Span(lons)
             /\ Distance(place[2] * Unit, view.lat) <= 100 * Span(lats)
<1> DEFINE points == Located(drawn_circuits)
           view == View(drawn_circuits)
           plain == {p[1] : p \in points}
           shifted == {Shift(l) : l \in plain}
           lons == Longitudes(points)
           lats == {p[2] : p \in points}
           x == place[1]
<1>1. points \subseteq Places /\ points # {} /\ Lies(view.lon)
  BY LocatedArePlaces, ViewLies, PlacesAssumption
<1>2. /\ view.lon = 100 * (Min(lons) + Max(lons)) /\ view.lat = 100 * (Min(lats) + Max(lats))
      /\ view.wide = Padded(lons, 40) /\ view.high = Padded(lats, 20)
  BY <1>1 DEF View, Window
<1>3. /\ plain \subseteq Degrees /\ lats \subseteq Around
      /\ x \in plain /\ place[2] \in lats /\ x \in -180..180
  BY <1>1, PlacesAssumption DEF Degrees, Around
<1>4. \A l \in Degrees : Shift(l) \in Around /\ Shift(l) \in {l, l + 360}
  BY DEF Shift, Degrees, Around
<1>5. /\ shifted \subseteq Around /\ plain \subseteq Around /\ Shift(x) \in shifted
      /\ Shift(x) \in {x, x + 360}
  <2> HIDE DEF plain
  <2>1. Degrees \subseteq Around
    BY DEF Degrees, Around
  <2> QED
    BY <1>3, <1>4, <2>1
<1>6. /\ lons = IF Span(shifted) < Span(plain) THEN shifted ELSE plain
  BY DEF Longitudes
<1>7. Span(plain) \in Nat /\ Span(plain) <= 360
  <2>1. /\ Min(plain) \in Degrees /\ Max(plain) \in Degrees
        /\ Min(plain) <= x /\ x <= Max(plain)
    BY <1>3, <1>5, Extremes
  <2> DEFINE mn == Min(plain)  mx == Max(plain)
  <2>2. Span(plain) = mx - mn /\ mn \in Degrees /\ mx \in Degrees /\ mn <= x /\ x <= mx
    BY <2>1 DEF Span
  <2> HIDE DEF mn, mx, plain, x
  <2>3. mx - mn \in Nat /\ mx - mn <= 360
    BY <1>3, <2>2 DEF Degrees
  <2> QED
    BY <2>2, <2>3
<1> HIDE DEF points, view, plain, shifted, lons, lats
<1>8. /\ Span(lats) \in Nat /\ Span(lats) <= 540
      /\ Distance(place[2] * Unit, view.lat) <= 100 * Span(lats)
  <2> DEFINE e == place[2] * Unit - 100 * (Min(lats) + Max(lats))
  <2>1. /\ Span(lats) \in Nat /\ Span(lats) <= 540 /\ e \in Int
        /\ -100 * Span(lats) <= e /\ e <= 100 * Span(lats)
    BY <1>3, WithinHalfItsSpan
  <2>2. Min(lats) \in Around /\ Max(lats) \in Around
    BY <1>3, Extremes
  <2>3. view.lat \in Int /\ place[2] * Unit \in Int /\ e = place[2] * Unit - view.lat
    <3> DEFINE mn == Min(lats)  mx == Max(lats)  y == place[2]
    <3>1. mn \in Around /\ mx \in Around /\ view.lat = 100 * (mn + mx) /\ y \in Around
      BY <1>2, <1>3, <2>2
    <3>2. e = y * Unit - 100 * (mn + mx)
      OBVIOUS
    <3> HIDE DEF mn, mx, y, e
    <3>3. view.lat \in Int /\ y * Unit \in Int /\ e = y * Unit - view.lat
      BY <3>1, <3>2 DEF Around, Unit
    <3> QED
      BY <3>3 DEF y
  <2> HIDE DEF e
  <2> DEFINE b == 100 * Span(lats)
  <2>4. b \in Int /\ -b <= e /\ e <= b
    BY <2>1
  <2> HIDE DEF b
  <2>5. Distance(place[2] * Unit, view.lat) <= b
    BY <2>3, <2>4 DEF Distance
  <2> QED
    BY <2>1, <2>5 DEF b
<1>9. ASSUME NEW S, lons = S, S \subseteq Around, NEW y \in S, y \in {x, x + 360}, Span(S) <= 360
      PROVE  /\ Span(lons) \in Nat /\ Span(lons) <= 360
             /\ Distance(Wrap(view, x), 0) <= 100 * Span(lons)
             /\ -100 * Span(lons) <= Wrap(view, x) /\ Wrap(view, x) <= 100 * Span(lons)
  <2> DEFINE b == 100 * Span(S)
             f == y * Unit - 100 * (Min(S) + Max(S))
  <2>1. Span(S) \in Nat /\ Span(S) <= 540 /\ f \in Int /\ -100 * Span(S) <= f /\ f <= 100 * Span(S)
    BY <1>9, WithinHalfItsSpan
  <2>2. f = y * Unit - view.lon
    BY <1>2, <1>9
  <2>3. PICK k \in {0, 1} : y = x + k * 360
    BY <1>3, <1>9
  <2>4. view.lon \in Int
    BY <1>1 DEF Lies
  <2> HIDE DEF f
  <2>5. f = x * Unit - view.lon + k * Whole
    BY <1>3, <2>2, <2>3, <2>4 DEF Unit, Whole
  <2>6. Span(S) \in Nat /\ Span(S) <= 360 /\ b \in Nat /\ b <= 36000 /\ -b <= f /\ f <= b
    <3> DEFINE s == Span(S)
    <3>1. s \in Nat /\ s <= 540 /\ s <= 360 /\ -100 * s <= f /\ f <= 100 * s /\ f \in Int
      BY <1>9, <2>1
    <3> HIDE DEF s
    <3>2. s \in Nat /\ s <= 360 /\ 100 * s \in Nat /\ 100 * s <= 36000 /\ -(100 * s) <= f /\ f <= 100 * s
      BY <3>1
    <3> QED
      BY <3>2 DEF s
  <2> HIDE DEF b
  <2>7. Distance(Wrap(view, x), 0) <= b /\ -b <= Wrap(view, x) /\ Wrap(view, x) <= b
    <3> HIDE DEF x
    <3>1. /\ Lies(view.lon) /\ x \in -180..180 /\ k \in {0, 1}
          /\ b \in Nat /\ b <= HalfATurn
          /\ -b <= x * Unit - view.lon + k * Whole /\ x * Unit - view.lon + k * Whole <= b
      BY <1>1, <1>3, <2>5, <2>6 DEF HalfATurn
    <3> QED
      BY <3>1, WrapIsNearest, Zenon
  <2>8. -100 * Span(S) = -b
    BY <2>6 DEF b
  <2> QED
    BY <1>9, <2>6, <2>7, <2>8 DEF b
<1>10. Wrap(view, x) \in Int
  BY <1>1, <1>3, WrapIsWithinHalf DEF Near
<1>11. CASE lons = plain
  BY <1>1, <1>2, <1>3, <1>5, <1>7, <1>8, <1>9, <1>10, <1>11 DEF points, view, lons, lats
<1>12. CASE lons # plain
  <2>1. lons = shifted /\ Span(shifted) < Span(plain)
    BY <1>6, <1>12
  <2>2. Span(shifted) <= 360
    <3>1. Span(shifted) \in Nat /\ Span(shifted) <= 540
      BY <1>5, WithinHalfItsSpan
    <3> DEFINE s == Span(shifted)  t == Span(plain)
    <3>2. s \in Nat /\ s <= 540 /\ t \in Nat /\ t <= 360 /\ s < t
      BY <1>7, <2>1, <3>1
    <3> HIDE DEF s, t
    <3>3. s <= 360
      BY <3>2
    <3> QED
      BY <3>3 DEF s
  <2> QED
    BY <1>1, <1>2, <1>5, <1>8, <1>9, <1>10, <2>1, <2>2 DEF points, view, lons, lats
<1> QED
  BY <1>11, <1>12

\* Wherever the circuits put the view, a stretch of coast that is drawn at all is
\* drawn its own length.
THEOREM NothingStreaks == MapSpec => []NoStreaks
<1>1. MapTypeOK => NoStreaks
  <2> SUFFICES ASSUME MapTypeOK, NEW a \in Coast, NEW b \in Coast,
                      ~Broken(View(drawn_circuits), a, b)
               PROVE  Distance(Wrap(View(drawn_circuits), a), Wrap(View(drawn_circuits), b))
                        = Short(a, b)
    BY DEF NoStreaks
  <2>1. a \in -180..180 /\ b \in -180..180
    BY PlacesAssumption
  <2> QED
    BY <2>1, PlacesAssumption, ViewLies, DrawnItsLength, ZenonT(30)
<1> QED
  BY <1>1, MapTypeCorrect, PTL

LEMMA LessTimesMore ==
  ASSUME NEW d \in Int, NEW n \in Int, 2 * d < n, NEW h \in Nat, h > 0
  PROVE  2 * h * d < n * h
<1> DEFINE gap == n - 2 * d
<1>1. gap \in Nat /\ gap >= 1 /\ n = 2 * d + gap
  OBVIOUS
<1> HIDE DEF gap
<1>2. n * h = 2 * h * d + gap * h
  BY <1>1
<1>3. gap * h >= 1 /\ gap * h \in Int
  BY <1>1
<1>4. 2 * h * d \in Int
  OBVIOUS
<1> QED
  BY <1>2, <1>3, <1>4

\* Whatever the shape of the widget and whichever side of the antimeridian the
\* hops are on, every hop that has a place is inside it until the view is magnified:
\* the margin that padded adds is strictly outside of what wrap can reach.
THEOREM EveryHopInSight == MapSpec => []InSight
<1>1. MapTypeOK => InSight
  <2> SUFFICES ASSUME MapTypeOK, NEW size \in Sizes, NEW place \in Located(drawn_circuits)
               PROVE  InWidget(View(drawn_circuits), size, place)
    BY DEF InSight
  <2> DEFINE view == View(drawn_circuits)
             w == size[1]  h == size[2]
             wide == Max({view.wide, Unit})  high == Max({view.high, Unit})
             reach == Max({wide * h, high * w})
             far == Distance(Wrap(view, place[1]), 0)
             off == Distance(place[2] * Unit, view.lat)
             lons == Longitudes(Located(drawn_circuits))
             lats == {p[2] : p \in Located(drawn_circuits)}
  <2>1. w \in Nat /\ w > 0 /\ h \in Nat /\ h > 0
    BY PlacesAssumption
  <2>2. /\ view.wide = Padded(lons, 40) /\ view.high = Padded(lats, 20)
        /\ Span(lons) \in Nat /\ Span(lons) <= 360 /\ Span(lats) \in Nat /\ Span(lats) <= 540
        /\ far <= 100 * Span(lons) /\ off <= 100 * Span(lats)
    BY DrawnWithinTheSpan
  <2>3. far \in Int /\ off \in Int
    <3>1. Wrap(view, place[1]) \in Int
      BY DrawnWithinTheSpan
    <3>2. place \in (-180..180) \X (-85..85)
      BY LocatedArePlaces, PlacesAssumption
    <3>3. view.lat \in Int
      <4>1. lats \subseteq Around /\ place[2] \in lats
        <5>1. \A p \in Located(drawn_circuits) : p[2] \in Around
          BY LocatedArePlaces, PlacesAssumption DEF Around
        <5> QED
          BY <5>1
      <4> HIDE DEF lats
      <4>2. Min(lats) \in Around /\ Max(lats) \in Around
        BY <4>1, Extremes
      <4>3. view.lat = 100 * (Min(lats) + Max(lats))
        BY DEF View, Window, lats
      <4> DEFINE mn == Min(lats)  mx == Max(lats)
      <4>4. mn \in Around /\ mx \in Around /\ view.lat = 100 * (mn + mx)
        BY <4>2, <4>3
      <4> HIDE DEF mn, mx, view
      <4> QED
        BY <4>4 DEF Around
    <3> HIDE DEF view
    <3>4. place[2] * Unit \in Int
      BY <3>2 DEF Unit
    <3> QED
      BY <3>1, <3>3, <3>4 DEF Distance
  <2> HIDE DEF far, off, w, h, lons, lats, view
  <2>4. /\ view.wide \in Int /\ 200 * Span(lons) < view.wide
        /\ view.high \in Int /\ 200 * Span(lats) < view.high
    <3>1. Span(lons) <= 540
      BY <2>2
    <3> QED
      BY <2>2, <3>1, PaddedIsWider
  <2>5. wide \in Int /\ view.wide <= wide /\ high \in Int /\ view.high <= high
    <3>1. Unit \in Int
      BY DEF Unit
    <3> QED
      BY <2>4, <3>1, GreaterOfTwo
  <2> HIDE DEF wide, high
  <2>6. 2 * far < wide /\ 2 * off < high
    BY <2>2, <2>3, <2>4, <2>5
  <2>7. 2 * h * far < wide * h /\ 2 * w * off < high * w
    BY <2>1, <2>3, <2>5, <2>6, LessTimesMore
  <2>8. /\ reach \in Int /\ wide * h <= reach /\ high * w <= reach
        /\ wide * h \in Int /\ high * w \in Int /\ 2 * h * far \in Int /\ 2 * w * off \in Int
    <3>1. wide * h \in Int /\ high * w \in Int /\ 2 * h * far \in Int /\ 2 * w * off \in Int
      BY <2>1, <2>3, <2>5
    <3> QED
      BY <3>1, GreaterOfTwo
  <2> HIDE DEF reach
  <2>9. 2 * h * far < reach /\ 2 * w * off < reach
    BY <2>7, <2>8
  <2> QED
    BY <2>9 DEF InWidget, far, off, w, h, view, wide, high, reach
<1> QED
  BY <1>1, MapTypeCorrect, PTL

\* Of two longitudes, one way or the other of measuring spans half a turn at most.
LEMMA TheShorterWay ==
  ASSUME NEW x \in -180..180, NEW y \in -180..180
  PROVE  LET plain == {x, y}
             shifted == {Shift(x), Shift(y)}
         IN  Span(plain) <= 180 \/ Span(shifted) <= 180
<1> DEFINE a == Shift(x)  b == Shift(y)
<1>1. /\ x \in Around /\ y \in Around /\ a \in Around /\ b \in Around
      /\ a = IF x < 0 THEN x + 360 ELSE x
      /\ b = IF y < 0 THEN y + 360 ELSE y
  BY DEF Shift, Around
<1> HIDE DEF a, b
<1>2. ASSUME NEW u \in Around, NEW v \in Around
      PROVE  Span({u, v}) = Distance(u, v)
  <2> DEFINE mn == Min({u, v})  mx == Max({u, v})
  <2>1. mn \in {u, v} /\ mx \in {u, v} /\ mn <= u /\ mn <= v /\ u <= mx /\ v <= mx
    BY Extremes
  <2>2. Span({u, v}) = mx - mn
    BY DEF Span
  <2> HIDE DEF mn, mx
  <2>3. mx - mn = Distance(u, v)
    BY <2>1 DEF Distance, Around
  <2> QED
    BY <2>2, <2>3
<1>3. Distance(x, y) <= 180 \/ Distance(a, b) <= 180
  BY <1>1 DEF Distance
<1> QED
  BY <1>1, <1>2, <1>3 DEF a, b

\* Two places, framed, are drawn as far apart as they are the short way round: the
\* window that Bounds::around picks is the one that wrap does not cut between them.
THEOREM TwoAreDrawnShort == MapSpec => []TwoAreShort
<1>1. MapTypeOK => TwoAreShort
  <2> DEFINE places == Located(drawn_circuits)
             view == View(drawn_circuits)
  <2> SUFFICES ASSUME MapTypeOK, Cardinality(places) = 2, NEW p \in places, NEW q \in places
               PROVE  Distance(Wrap(view, p[1]), Wrap(view, q[1])) = Short(p[1], q[1])
    BY DEF TwoAreShort
  <2>1. places \subseteq (-180..180) \X (-85..85)
    BY LocatedArePlaces, PlacesAssumption
  <2>2. p[1] \in -180..180 /\ q[1] \in -180..180 /\ Lies(view.lon)
    BY <2>1, ViewLies, PlacesAssumption
  <2> DEFINE x == p[1]  y == q[1]
             lons == Longitudes(places)
             u == Wrap(view, x)  v == Wrap(view, y)
  <2>3. /\ u \in Int /\ -100 * Span(lons) <= u /\ u <= 100 * Span(lons)
        /\ v \in Int /\ -100 * Span(lons) <= v /\ v <= 100 * Span(lons)
        /\ Span(lons) \in Nat
    BY DrawnWithinTheSpan, ZenonT(30)
  <2> HIDE DEF places, view
  <2>4. CASE p = q
    <3> HIDE DEF u, v, x, y
    <3>1. x = y /\ x \in Int /\ u = v
      BY <2>2, <2>4 DEF x, y, u, v
    <3>2. Distance(x, y) = 0 /\ Distance(u, v) = 0
      BY <2>3, <3>1 DEF Distance
    <3>3. Min({0, 360 - 0}) = 0
      BY DEF Min
    <3>4. Short(x, y) = 0
      BY <3>2, <3>3 DEF Short, Unit
    <3> QED
      BY <3>2, <3>4 DEF x, y, u, v
  <2>5. CASE p # q
    <3>1. places = {p, q}
      <4>1. IsFiniteSet((-180..180) \X (-85..85))
        <5>1. /\ -180 \in Int /\ 180 \in Int /\ -85 \in Int /\ 85 \in Int
          OBVIOUS
        <5>2. IsFiniteSet(-180..180) /\ IsFiniteSet(-85..85)
          BY <5>1, FS_Interval, ZenonT(30)
        <5> QED
          BY <5>2, FS_Product
      <4>2. IsFiniteSet(places)
        BY <2>1, <4>1, FS_Subset
      <4>3. IsFiniteSet(places \ {p}) /\ Cardinality(places \ {p}) = 1
        BY <4>2, FS_RemoveElement
      <4>4. PICK z : places \ {p} = {z}
        BY <4>3, FS_Singleton
      <4> QED
        BY <2>5, <4>4
    <3>2. {r[1] : r \in places} = {x, y} /\ {Shift(l) : l \in {x, y}} = {Shift(x), Shift(y)}
      BY <3>1
    <3>3. lons = IF Span({Shift(x), Shift(y)}) < Span({x, y})
                 THEN {Shift(x), Shift(y)} ELSE {x, y}
      BY <3>2 DEF Longitudes
    <3> HIDE DEF lons, x, y
    <3>4. Span(lons) <= 180
      <4>1. /\ Span({x, y}) \in Int /\ Span({Shift(x), Shift(y)}) \in Int
        <5>1. /\ {x, y} \subseteq Around /\ {Shift(x), Shift(y)} \subseteq Around
          BY <2>2 DEF Shift, Around, x, y
        <5>2. x \in {x, y} /\ Shift(x) \in {Shift(x), Shift(y)}
          OBVIOUS
        <5>3. Span({x, y}) \in Nat /\ Span({Shift(x), Shift(y)}) \in Nat
          BY <5>1, <5>2, WithinHalfItsSpan
        <5> QED
          BY <5>3
      <4>2. Span({x, y}) <= 180 \/ Span({Shift(x), Shift(y)}) <= 180
        BY <2>2, TheShorterWay DEF x, y
      <4> QED
        BY <3>3, <4>1, <4>2
    <3> HIDE DEF u, v
    <3>5. ~(Distance(u, v) > 180 * Unit)
      BY <2>3, <3>4 DEF Distance, Unit
    <3>6. ~Broken(view, x, y)
      BY <3>5 DEF Broken, u, v
    <3> QED
      BY <2>2, <3>6, DrawnItsLength DEF x, y
  <2> QED
    BY <2>4, <2>5
<1> QED
  BY <1>1, MapTypeCorrect, PTL

-----------------------------------------------------------------------------
(* The panel.                                                              *)

\* What may be in the channel.
Updates == Replies \cup {Busy(b) : b \in BOOLEAN}

\* Where a request thread may be, and what it may ask.
JobStates == [at : {"off", "asked", "serving", "answered", "said"}, ask : {"nothing", "up", "down"}]

PanelTyped ==
  /\ TypeOK
  /\ job \in [Jobs -> JobStates] /\ channel \in Seq(Updates) /\ overlap \in BOOLEAN

\* The button is dead and nothing on its way revives it, or what deadens it is on
\* its way and what would revive it is not behind that.
Held ==
  \/ ~sensitive /\ \A i \in 1..Len(channel) : channel[i] # Busy(FALSE)
  \/ \E i \in 1..Len(channel) :
       /\ channel[i] = Busy(TRUE)
       /\ \A k \in i + 1..Len(channel) : channel[k] # Busy(FALSE)

\* Without an overlap one request is in flight at most, and it holds the button.
Alone == ~overlap => /\ \A i, j \in Going : i = j
                     /\ Going # {} => Held

\* A button that is dead for good, so far, is somebody's who has yet to say so.
InHand == Held => Going # {}

PanelInv == PanelTyped /\ Alone /\ InHand

\* Which update is which.
LEMMA UpdatesByKind ==
  ASSUME NEW u \in Updates
  PROVE  /\ u.kind \in {"status", "circuits", "busy"}
         /\ u.kind = "status" => u.tunnel \in Tunnels /\ u \in Replies
         /\ u.kind = "circuits" => u.some \in BOOLEAN /\ u \in Replies
         /\ u.kind = "busy" => u.busy \in BOOLEAN /\ u = Busy(u.busy)
         /\ u \in Replies => \A b \in BOOLEAN : u # Busy(b)
<1>1. CASE \E t \in Tunnels : u = Status(t)
  BY <1>1 DEF Status, Replies, Busy
<1>2. CASE \E some \in BOOLEAN : u = Circuits(some)
  BY <1>2 DEF Circuits, Replies, Busy
<1>3. CASE \E b \in BOOLEAN : u = Busy(b)
  <2>1. u.kind = "busy" /\ u.busy \in BOOLEAN /\ u = Busy(u.busy)
    BY <1>3 DEF Busy
  <2>2. \A v \in Replies : v.kind # "busy"
    BY DEF Replies, Status, Circuits
  <2> QED
    BY <2>1, <2>2
<1> QED
  BY <1>1, <1>2, <1>3 DEF Updates, Replies

\* At the start, nothing is in flight.
LEMMA PanelInit ==
  ASSUME Init
  PROVE  PanelInv
<1>1. job \in [Jobs -> JobStates] /\ \A j \in Jobs : job[j].at = "off"
  BY DEF Init, Off, JobStates
<1>2. Going = {}
  BY <1>1 DEF Going
<1>3. channel \in Seq(Updates) /\ channel = <<>> /\ overlap = FALSE
  BY DEF Init
<1>4. TypeOK
  <2>1. /\ tunnel \in Tunnels /\ serving = {} /\ changes = 0
        /\ is_up = FALSE /\ shown = "checking" /\ button = "Connect" /\ sensitive = TRUE
        /\ has_circuits = FALSE
    BY DEF Init
  <2>2. asking \in [Asks -> Nat] /\ answered \in [Replies -> Nat]
    BY DEF Init
  <2>3. \A i \in DOMAIN channel : FALSE
    BY <1>3
  <2>4. shown \in Shown /\ serving \subseteq Jobs /\ changes \in 0..MaxChanges
    BY <2>1, BoundsAssumption DEF Shown
  <2>5. serving = {j \in Jobs : job[j].at = "serving"}
    BY <1>1, <2>1
  <2> QED
    BY <1>1, <2>1, <2>2, <2>3, <2>4, <2>5 DEF TypeOK
<1>5. ~Held
  <2>1. sensitive = TRUE
    BY DEF Init
  <2>2. \A i \in 1..Len(channel) : FALSE
    BY <1>3
  <2> QED
    BY <2>1, <2>2 DEF Held
<1> QED
  BY <1>1, <1>2, <1>3, <1>4, <1>5 DEF PanelInv, PanelTyped, Alone, InHand

\* What receiving an update takes from the channel.
LEMMA ReceivedTakesTheHead ==
  ASSUME PanelTyped, NEW kind, Received(kind)
  PROVE  /\ Head(channel) \in Updates /\ Head(channel).kind = kind
         /\ channel' \in Seq(Updates) /\ channel # <<>>
         /\ Head(channel) = channel[1] /\ Len(channel') = Len(channel) - 1
         /\ Len(channel) \in Nat /\ Len(channel) > 0
         /\ \A i \in 1..Len(channel') : channel'[i] = channel[i + 1]
         /\ UNCHANGED <<tunnel, serving, changes, asking, answered, job, clicks, overlap>>
<1>1. /\ channel \in Seq(Updates) /\ channel # <<>> /\ channel' = Tail(channel)
      /\ Head(channel).kind = kind
  BY DEF PanelTyped, Received
<1>2. /\ Head(channel) \in Updates /\ channel' \in Seq(Updates)
      /\ Head(channel) = channel[1] /\ Len(channel') = Len(channel) - 1
      /\ Len(channel) \in Nat /\ Len(channel) > 0
  BY <1>1
<1>3. \A i \in 1..Len(channel') : channel'[i] = channel[i + 1]
  BY <1>1, <1>2
<1> QED
  BY <1>1, <1>2, <1>3 DEF Received, daemon, threads, queries, user

\* Every step of the panel leaves its variables of their types.
LEMMA PanelTypedStep ==
  ASSUME PanelTyped, [Next]_vars
  PROVE  PanelTyped'
<1> USE DEF PanelTyped
<1>0. /\ tunnel \in Tunnels /\ serving \subseteq Jobs /\ changes \in 0..MaxChanges
      /\ asking \in [Asks -> Nat] /\ answered \in [Replies -> Nat]
      /\ serving = {j \in Jobs : job[j].at = "serving"}
      /\ is_up \in BOOLEAN /\ shown \in Shown /\ button \in {"Connect", "Disconnect"}
      /\ sensitive \in BOOLEAN /\ has_circuits \in BOOLEAN
      /\ job \in [Jobs -> JobStates] /\ channel \in Seq(Updates) /\ overlap \in BOOLEAN
  BY DEF TypeOK
<1> USE BoundsAssumption DEF vars, daemon, queries, threads, user, screen
<1>1. SUFFICES
        /\ tunnel' \in Tunnels /\ changes' \in 0..MaxChanges
        /\ asking' \in [Asks -> Nat] /\ answered' \in [Replies -> Nat]
        /\ serving' = {j \in Jobs : job'[j].at = "serving"} /\ job' \in [Jobs -> JobStates]
        /\ is_up' \in BOOLEAN /\ shown' \in Shown /\ button' \in {"Connect", "Disconnect"}
        /\ sensitive' \in BOOLEAN /\ has_circuits' \in BOOLEAN
        /\ channel' \in Seq(Updates) /\ overlap' \in BOOLEAN
  <2>1. channel' \in Seq(Updates) =>
          \A i \in DOMAIN channel' : channel'[i].kind \in {"status", "circuits", "busy"}
    BY UpdatesByKind
  <2>2. job' \in [Jobs -> JobStates] =>
          \A j \in Jobs : job'[j].at \in {"off", "asked", "serving", "answered", "said"}
    BY DEF JobStates
  <2> QED
    BY <2>1, <2>2 DEF TypeOK
<1>2. ASSUME Refresh
      PROVE  asking' \in [Asks -> Nat] /\ answered' \in [Replies -> Nat]
  BY <1>0, <1>2 DEF Refresh
<1>3. CASE Tick
  BY <1>0, <1>2, <1>3 DEF Tick
<1>4. CASE Click
  <2>1. PICK j \in Jobs : /\ job[j].at = "off"
          /\ job' = [job EXCEPT ![j] = [at |-> "asked", ask |-> IF is_up THEN "down" ELSE "up"]]
    BY <1>4 DEF Click
  <2>2. job' \in [Jobs -> JobStates] /\ serving = {k \in Jobs : job'[k].at = "serving"}
    BY <1>0, <2>1 DEF JobStates
  <2>3. channel' \in Seq(Updates)
    <3> DEFINE u == Busy(TRUE)
    <3>1. channel' = Append(channel, u) /\ u \in Updates
      BY <1>4 DEF Click, Updates
    <3> HIDE DEF u
    <3> QED
      BY <1>0, <3>1
  <2>4. overlap' \in BOOLEAN
    BY <1>4 DEF Click
  <2> QED
    BY <1>0, <1>4, <2>2, <2>3, <2>4 DEF Click
<1>5. CASE ReceiveStatus
  <2>1. /\ Received("status")
        /\ is_up' = (Head(channel).tunnel = "up") /\ apply_status(Head(channel).tunnel)
        /\ has_circuits' = (has_circuits /\ is_up') /\ UNCHANGED sensitive
    BY <1>5 DEF ReceiveStatus
  <2>2. /\ Head(channel).tunnel \in Tunnels /\ channel' \in Seq(Updates)
        /\ UNCHANGED <<tunnel, serving, changes, asking, answered, job, clicks, overlap>>
    BY <2>1, ReceivedTakesTheHead, UpdatesByKind
  <2>3. shown' \in Shown /\ button' \in {"Connect", "Disconnect"}
    BY <2>1, <2>2 DEF apply_status, Tunnels, Shown
  <2>4. is_up' \in BOOLEAN /\ has_circuits' \in BOOLEAN
    BY <2>1
  <2> QED
    BY <1>0, <2>1, <2>2, <2>3, <2>4
<1>6. CASE ReceiveCircuits
  <2>1. /\ Received("circuits")
        /\ has_circuits' = Head(channel).some /\ UNCHANGED <<is_up, shown, button, sensitive>>
    BY <1>6 DEF ReceiveCircuits
  <2>2. /\ Head(channel).some \in BOOLEAN /\ channel' \in Seq(Updates)
        /\ UNCHANGED <<tunnel, serving, changes, asking, answered, job, clicks, overlap>>
    BY <2>1, ReceivedTakesTheHead, UpdatesByKind
  <2> QED
    BY <1>0, <2>1, <2>2
<1>7. CASE ReceiveBusy
  <2>1. /\ Received("busy")
        /\ sensitive' = ~Head(channel).busy /\ UNCHANGED <<is_up, shown, button, has_circuits>>
    BY <1>7 DEF ReceiveBusy
  <2>2. /\ channel' \in Seq(Updates)
        /\ UNCHANGED <<tunnel, serving, changes, asking, answered, job, clicks, overlap>>
    BY <2>1, ReceivedTakesTheHead
  <2>3. sensitive' \in BOOLEAN
    BY <2>1
  <2> QED
    BY <1>0, <2>1, <2>2, <2>3
<1>8. CASE Elsewhere
  <2>1. tunnel' \in Tunnels /\ changes' \in 0..MaxChanges
    <3>1. changes < MaxChanges /\ changes' = changes + 1 /\ tunnel' \in Tunnels
      BY <1>8 DEF Elsewhere
    <3> QED
      BY <1>0, <3>1
  <2> QED
    BY <1>0, <1>8, <2>1 DEF Elsewhere
<1>9. ASSUME NEW ask \in Asks, Query(ask)
      PROVE  /\ asking' \in [Asks -> Nat] /\ answered' \in [Replies -> Nat]
             /\ UNCHANGED <<tunnel, serving, changes, job, clicks, overlap, channel, is_up, shown,
                            button, sensitive, has_circuits>>
  <2>1. /\ asking[ask] > 0 /\ asking' = [asking EXCEPT ![ask] = @ - 1]
        /\ UNCHANGED <<tunnel, serving, changes, job, clicks, overlap, channel, is_up, shown,
                       button, sensitive, has_circuits>>
    BY <1>9 DEF Query, Answer, NoAnswer, Fewer
  <2>2. asking' \in [Asks -> Nat]
    BY <1>0, <2>1
  <2>3. CASE Answer(ask)
    <3>1. PICK u \in Answers(ask) : answered' = [answered EXCEPT ![u] = @ + 1]
      BY <2>3 DEF Answer, More
    <3> DEFINE R == Replies
    <3>2. answered \in [R -> Nat] /\ u \in R
      BY <1>0 DEF Answers, Replies
    <3> HIDE DEF R
    <3>3. answered' \in [R -> Nat]
      BY <3>1, <3>2
    <3> QED
      BY <2>1, <2>2, <3>3 DEF R
  <2>4. CASE NoAnswer(ask)
    BY <1>0, <2>1, <2>2, <2>4 DEF NoAnswer
  <2> QED
    BY <1>9, <2>3, <2>4 DEF Query
<1>10. ASSUME NEW u \in Replies, Send(u)
       PROVE  /\ answered' \in [Replies -> Nat] /\ channel' \in Seq(Updates)
              /\ UNCHANGED <<tunnel, serving, changes, asking, job, clicks, overlap, is_up, shown,
                             button, sensitive, has_circuits>>
  <2>1. u \in Updates
    BY DEF Updates
  <2>2. /\ answered[u] > 0 /\ answered' = [answered EXCEPT ![u] = @ - 1]
        /\ channel' = Append(channel, u)
        /\ UNCHANGED <<tunnel, serving, changes, asking, job, clicks, overlap, is_up, shown,
                       button, sensitive, has_circuits>>
    BY <1>10 DEF Send, Fewer
  <2> QED
    BY <1>0, <2>1, <2>2
<1>11. ASSUME NEW j \in Jobs, Job(j)
       PROVE  /\ job' \in [Jobs -> JobStates] /\ serving' = {k \in Jobs : job'[k].at = "serving"}
              /\ tunnel' \in Tunnels /\ overlap' \in BOOLEAN /\ channel' \in Seq(Updates)
              /\ asking' \in [Asks -> Nat] /\ answered' \in [Replies -> Nat]
              /\ UNCHANGED <<changes, clicks, is_up, shown, button, sensitive, has_circuits>>
  <2>1. CASE Begin(j)
    BY <1>0, <2>1 DEF Begin, JobStates
  <2>2. CASE End(j)
    <3>1. Outcomes(job[j].ask) \subseteq Tunnels
      BY <1>0 DEF Outcomes, Tunnels
    <3> QED
      BY <1>0, <2>2, <3>1 DEF End, JobStates
  <2>3. CASE NotServed(j)
    BY <1>0, <2>3 DEF NotServed, JobStates
  <2>4. CASE Say(j)
    <3>1. Busy(FALSE) \in Updates
      BY DEF Updates
    <3>2. channel' \in Seq(Updates)
      <4> DEFINE u == Busy(FALSE)
      <4>1. channel' = Append(channel, u) /\ u \in Updates
        BY <2>4, <3>1 DEF Say
      <4> HIDE DEF u
      <4> QED
        BY <1>0, <4>1
    <3>3. overlap' \in BOOLEAN
      BY <1>0, <2>4 DEF Say
    <3> QED
      BY <1>0, <2>4, <3>2, <3>3 DEF Say, JobStates
  <2>5. CASE AskAgain(j)
    BY <1>0, <1>2, <2>5 DEF AskAgain, JobStates, Off
  <2> QED
    BY <1>11, <2>1, <2>2, <2>3, <2>4, <2>5 DEF Job
<1>12. CASE UNCHANGED vars
  BY <1>0, <1>12
<1> QED
  BY <1>0, <1>3, <1>4, <1>5, <1>6, <1>7, <1>8, <1>9, <1>10, <1>11, <1>12
     DEF Next, Receive

\* What holds the button goes on holding it when anything else is sent.
LEMMA HeldBehindMore ==
  ASSUME channel \in Seq(Updates), Held, NEW u \in Updates, u # Busy(FALSE),
         channel' = Append(channel, u), sensitive' = sensitive
  PROVE  Held'
<1>1. /\ Len(channel) \in Nat /\ Len(channel') = Len(channel) + 1
      /\ \A i \in 1..Len(channel) : channel'[i] = channel[i]
      /\ channel'[Len(channel) + 1] = u
  BY DEF Updates
<1>2. ASSUME NEW m \in Nat, m > 0, \A k \in m..Len(channel) : channel[k] # Busy(FALSE)
      PROVE  \A k \in m..Len(channel') : channel'[k] # Busy(FALSE)
  <2> TAKE k \in m..Len(channel')
  <2>1. CASE k = Len(channel) + 1
    BY <1>1, <2>1
  <2>2. CASE k # Len(channel) + 1
    <3>1. k \in m..Len(channel) /\ k \in 1..Len(channel)
      BY <1>1, <1>2, <2>2
    <3> QED
      BY <1>1, <1>2, <3>1
  <2> QED
    BY <2>1, <2>2
<1>3. CASE ~sensitive /\ \A i \in 1..Len(channel) : channel[i] # Busy(FALSE)
  <2>1. \A k \in 1..Len(channel) : channel[k] # Busy(FALSE)
    BY <1>3
  <2>2. \A k \in 1..Len(channel') : channel'[k] # Busy(FALSE)
    <3>1. 1 \in Nat /\ 1 > 0
      OBVIOUS
    <3> QED
      BY <1>2, <2>1, <3>1, Zenon
  <2> QED
    BY <1>3, <2>2 DEF Held
<1>4. CASE \E i \in 1..Len(channel) :
             /\ channel[i] = Busy(TRUE)
             /\ \A k \in i + 1..Len(channel) : channel[k] # Busy(FALSE)
  <2>1. PICK i \in 1..Len(channel) :
             /\ channel[i] = Busy(TRUE)
             /\ \A k \in i + 1..Len(channel) : channel[k] # Busy(FALSE)
    BY <1>4
  <2>2. i + 1 \in Nat /\ i + 1 > 0 /\ i \in 1..Len(channel')
    BY <1>1
  <2>3. channel'[i] = Busy(TRUE)
    BY <1>1, <2>1
  <2>4. \A k \in i + 1..Len(channel') : channel'[k] # Busy(FALSE)
    BY <1>2, <2>1, <2>2
  <2> QED
    BY <2>2, <2>3, <2>4 DEF Held
<1> QED
  BY <1>3, <1>4 DEF Held

\* And when the head of the channel is taken, if Busy is what it says.
LEMMA HeldBehindLess ==
  ASSUME PanelTyped, Held, NEW kind, Received(kind),
         sensitive' = IF kind = "busy" THEN ~Head(channel).busy ELSE sensitive
  PROVE  Held'
<1>1. /\ Head(channel) \in Updates /\ Head(channel).kind = kind
      /\ Head(channel) = channel[1] /\ Len(channel') = Len(channel) - 1
      /\ Len(channel) \in Nat /\ Len(channel) > 0
      /\ \A i \in 1..Len(channel') : channel'[i] = channel[i + 1]
  BY ReceivedTakesTheHead
<1>2. /\ kind = "busy" => Head(channel) = Busy(Head(channel).busy)
      /\ kind = "busy" => Head(channel).busy \in BOOLEAN
      /\ Head(channel) = Busy(TRUE) => kind = "busy" /\ Head(channel).busy = TRUE
  BY <1>1, UpdatesByKind DEF Busy
<1>3. CASE ~sensitive /\ \A i \in 1..Len(channel) : channel[i] # Busy(FALSE)
  <2>1. ~sensitive'
    <3>1. Head(channel) # Busy(FALSE)
      <4>1. 1 \in 1..Len(channel)
        BY <1>1
      <4> QED
        BY <1>1, <1>3, <4>1
    <3>2. kind = "busy" => Head(channel).busy = TRUE
      BY <1>2, <3>1
    <3> QED
      BY <1>3, <3>2
  <2>2. \A i \in 1..Len(channel') : channel'[i] # Busy(FALSE)
    <3>1. \A i \in 1..Len(channel') : i + 1 \in 1..Len(channel)
      BY <1>1
    <3> QED
      BY <1>1, <1>3, <3>1
  <2> QED
    BY <2>1, <2>2 DEF Held
<1>4. ASSUME NEW i \in 1..Len(channel), channel[i] = Busy(TRUE),
             \A k \in i + 1..Len(channel) : channel[k] # Busy(FALSE)
      PROVE  Held'
  <2>1. \A k \in 1..Len(channel') : k + 1 \in 1..Len(channel)
    BY <1>1
  <2>2. CASE i = 1
    <3>1. sensitive' = FALSE
      BY <1>1, <1>2, <1>4, <2>2
    <3>2. \A k \in 1..Len(channel') : channel'[k] # Busy(FALSE)
      <4>1. \A k \in 1..Len(channel') : k + 1 \in i + 1..Len(channel)
        BY <1>1, <2>2
      <4> QED
        BY <1>1, <1>4, <4>1
    <3> QED
      BY <3>1, <3>2 DEF Held
  <2>3. CASE i # 1
    <3> DEFINE h == i - 1
    <3>1. h \in 1..Len(channel') /\ h + 1 = i
      BY <1>1, <2>3
    <3>2. channel'[h] = Busy(TRUE)
      BY <1>1, <1>4, <3>1
    <3>3. \A k \in h + 1..Len(channel') :
            /\ k \in 1..Len(channel') /\ k + 1 \in i + 1..Len(channel)
      BY <1>1, <3>1
    <3>4. \A k \in h + 1..Len(channel') : channel'[k] # Busy(FALSE)
      BY <1>1, <1>4, <3>3
    <3> HIDE DEF h
    <3> QED
      BY <3>1, <3>2, <3>4 DEF Held
  <2> QED
    BY <2>2, <2>3
<1> QED
  BY <1>3, <1>4 DEF Held

LEMMA AloneStep ==
  ASSUME PanelInv, [Next]_vars
  PROVE  Alone'
<1> USE DEF vars, daemon, queries, threads, user, screen
<1>0. PanelTyped /\ Alone /\ job \in [Jobs -> JobStates] /\ channel \in Seq(Updates)
  BY DEF PanelInv, PanelTyped
\* A step that starts and ends no request, of which the button is told nothing.
<1>1. ASSUME Going' = Going, overlap' = overlap, Held => Held'
      PROVE  Alone'
  BY <1>0, <1>1 DEF Alone
<1>2. ASSUME UNCHANGED <<channel, sensitive>>
      PROVE  Held => Held'
  BY <1>2 DEF Held
<1>3. ASSUME UNCHANGED job
      PROVE  Going' = Going
  BY <1>3 DEF Going
<1>4. CASE Tick \/ Elsewhere \/ UNCHANGED vars
           \/ \E ask \in Asks : Query(ask)
  <2>1. UNCHANGED <<job, overlap, channel, sensitive>>
    BY <1>4 DEF Tick, Elsewhere, Query, Answer, NoAnswer
  <2> QED
    BY <1>1, <1>2, <1>3, <2>1
<1>5. CASE Click
  <2>1. PICK j \in Jobs : /\ job[j].at = "off"
          /\ job' = [job EXCEPT ![j] = [at |-> "asked", ask |-> IF is_up THEN "down" ELSE "up"]]
    BY <1>5 DEF Click
  <2>2. Going' = Going \cup {j}
    BY <1>0, <2>1 DEF Going
  <2>3. overlap' = (overlap \/ Going # {}) /\ channel' = Append(channel, Busy(TRUE))
    BY <1>5 DEF Click
  <2>4. Held'
    <3>1. /\ Len(channel) \in Nat /\ Len(channel') = Len(channel) + 1
          /\ channel'[Len(channel) + 1] = Busy(TRUE)
      <4> DEFINE u == Busy(TRUE)
      <4>1. channel' = Append(channel, u) /\ u \in Updates
        BY <2>3 DEF Updates
      <4> HIDE DEF u
      <4>2. /\ Len(channel) \in Nat /\ Len(channel') = Len(channel) + 1
            /\ channel'[Len(channel) + 1] = u
        BY <1>0, <4>1
      <4> QED
        BY <4>2 DEF u
    <3>2. Len(channel) + 1 \in 1..Len(channel')
      BY <3>1
    <3>3. \A k \in (Len(channel) + 1) + 1..Len(channel') : FALSE
      BY <3>1
    <3> QED
      BY <3>1, <3>2, <3>3 DEF Held
  <2>5. ~overlap' => Going' = {j}
    BY <2>2, <2>3
  <2> QED
    BY <2>4, <2>5 DEF Alone
<1>6. CASE Receive
  <2>1. PICK kind \in {"status", "circuits", "busy"} :
          /\ Received(kind)
          /\ sensitive' = IF kind = "busy" THEN ~Head(channel).busy ELSE sensitive
    BY <1>6 DEF Receive, ReceiveStatus, ReceiveCircuits, ReceiveBusy
  <2>2. UNCHANGED <<job, overlap>>
    BY <2>1 DEF Received
  <2>3. Held => Held'
    BY <1>0, <2>1, HeldBehindLess
  <2> QED
    BY <1>1, <1>3, <2>2, <2>3
<1>7. ASSUME NEW u \in Replies, Send(u)
      PROVE  Alone'
  <2>1. UNCHANGED <<job, overlap, sensitive>> /\ channel' = Append(channel, u)
    BY <1>7 DEF Send
  <2>2. u \in Updates
    BY DEF Updates
  <2>3. u # Busy(FALSE)
    BY <2>2, UpdatesByKind
  <2>4. Held => Held'
    BY <1>0, <2>1, <2>2, <2>3, HeldBehindMore
  <2> QED
    BY <1>1, <1>3, <2>1, <2>4
<1>8. ASSUME NEW j \in Jobs, Job(j)
      PROVE  Alone'
  <2>1. CASE Begin(j) \/ End(j) \/ NotServed(j)
    <3>1. /\ UNCHANGED <<overlap, channel, sensitive>>
          /\ job[j].at \in {"asked", "serving"}
          /\ job' = [job EXCEPT ![j].at = "serving"] \/ job' = [job EXCEPT ![j].at = "answered"]
      <4>1. End(j) => job[j].at = "serving"
        BY <1>0 DEF End, PanelTyped, TypeOK
      <4> QED
        BY <2>1, <4>1 DEF Begin, End, NotServed
    <3>2. Going' = Going
      BY <1>0, <3>1 DEF Going, JobStates
    <3> QED
      BY <1>1, <1>2, <3>1, <3>2
  <2>2. CASE Say(j)
    <3>1. /\ job[j].at = "answered" /\ job' = [job EXCEPT ![j].at = "said"]
          /\ overlap' = (overlap /\ Going # {j})
      BY <2>2 DEF Say
    <3>2. Going' = Going \ {j} /\ j \in Going
      BY <1>0, <3>1 DEF Going, JobStates
    <3>3. ~overlap' => Going = {j}
      BY <1>0, <3>1, <3>2 DEF Alone
    <3> QED
      BY <3>2, <3>3 DEF Alone
  <2>3. CASE AskAgain(j)
    <3>1. /\ job[j].at = "said" /\ job' = [job EXCEPT ![j] = Off]
          /\ UNCHANGED <<overlap, channel, sensitive>>
      BY <2>3 DEF AskAgain
    <3>2. Going' = Going
      BY <1>0, <3>1 DEF Going, Off
    <3> QED
      BY <1>1, <1>2, <3>1, <3>2
  <2> QED
    BY <1>8, <2>1, <2>2, <2>3 DEF Job
<1> QED
  BY <1>4, <1>5, <1>6, <1>7, <1>8 DEF Next

\* What is sent behind does not hold the button, unless it is Busy(true), and Busy(false)
\* lets it go.
LEMMA HeldBeforeMore ==
  ASSUME channel \in Seq(Updates), Held', NEW u \in Updates, u # Busy(TRUE),
         channel' = Append(channel, u), sensitive' = sensitive
  PROVE  Held /\ u # Busy(FALSE)
<1>1. /\ Len(channel) \in Nat /\ Len(channel') = Len(channel) + 1
      /\ \A i \in 1..Len(channel) : channel'[i] = channel[i]
      /\ channel'[Len(channel) + 1] = u
  BY DEF Updates
<1>2. CASE ~sensitive' /\ \A i \in 1..Len(channel') : channel'[i] # Busy(FALSE)
  <2>1. /\ Len(channel) + 1 \in 1..Len(channel')
        /\ \A i \in 1..Len(channel) : i \in 1..Len(channel')
    BY <1>1
  <2> QED
    BY <1>1, <1>2, <2>1 DEF Held
<1>3. ASSUME NEW i \in 1..Len(channel'), channel'[i] = Busy(TRUE),
             \A k \in i + 1..Len(channel') : channel'[k] # Busy(FALSE)
      PROVE  Held /\ u # Busy(FALSE)
  <2>1. i # Len(channel) + 1
    BY <1>1, <1>3
  <2>2. i \in 1..Len(channel) /\ Len(channel) + 1 \in i + 1..Len(channel')
    BY <1>1, <2>1
  <2>3. \A k \in i + 1..Len(channel) : k \in i + 1..Len(channel') /\ k \in 1..Len(channel)
    BY <1>1, <2>2
  <2>4. \A k \in i + 1..Len(channel) : channel[k] # Busy(FALSE)
    BY <1>1, <1>3, <2>3
  <2>5. channel[i] = Busy(TRUE) /\ u # Busy(FALSE)
    BY <1>1, <1>3, <2>2
  <2> QED
    BY <2>2, <2>4, <2>5 DEF Held
<1> QED
  BY <1>2, <1>3 DEF Held

\* A button that is held when the head has been taken was held before.
LEMMA HeldBeforeLess ==
  ASSUME PanelTyped, Held', NEW kind, Received(kind),
         sensitive' = IF kind = "busy" THEN ~Head(channel).busy ELSE sensitive
  PROVE  Held
<1>1. /\ Head(channel) \in Updates /\ Head(channel).kind = kind
      /\ Head(channel) = channel[1] /\ Len(channel') = Len(channel) - 1
      /\ Len(channel) \in Nat /\ Len(channel) > 0
      /\ \A i \in 1..Len(channel') : channel'[i] = channel[i + 1]
  BY ReceivedTakesTheHead
<1>2. /\ kind = "busy" => Head(channel) = Busy(Head(channel).busy)
      /\ kind = "busy" => Head(channel).busy \in BOOLEAN
      /\ Head(channel) = Busy(FALSE) => kind = "busy"
  BY <1>1, UpdatesByKind DEF Busy
<1>3. \A i \in 2..Len(channel) : /\ i - 1 \in 1..Len(channel')
                                 /\ channel[i] = channel'[i - 1]
  BY <1>1
<1>4. CASE ~sensitive' /\ \A i \in 1..Len(channel') : channel'[i] # Busy(FALSE)
  <2>1. \A i \in 2..Len(channel) : channel[i] # Busy(FALSE)
    BY <1>3, <1>4
  <2>2. CASE kind = "busy"
    <3>1. channel[1] = Busy(TRUE) /\ 1 \in 1..Len(channel)
      <4>1. Head(channel).busy = TRUE
        BY <1>2, <1>4, <2>2
      <4>2. Head(channel) = Busy(TRUE)
        BY <1>2, <2>2, <4>1
      <4>3. channel[1] = Busy(TRUE)
        BY <1>1, <4>2, Zenon
      <4> QED
        BY <1>1, <4>3
    <3>2. \A k \in 1 + 1..Len(channel) : channel[k] # Busy(FALSE)
      <4>1. \A k \in 1 + 1..Len(channel) : k \in 2..Len(channel)
        BY <1>1
      <4> QED
        BY <2>1, <4>1
    <3> QED
      BY <3>1, <3>2 DEF Held
  <2>3. CASE kind # "busy"
    <3>1. ~sensitive /\ channel[1] # Busy(FALSE)
      BY <1>1, <1>2, <1>4, <2>3
    <3>2. \A i \in 1..Len(channel) : i = 1 \/ i \in 2..Len(channel)
      BY <1>1
    <3>3. \A i \in 1..Len(channel) : channel[i] # Busy(FALSE)
      BY <2>1, <3>1, <3>2, Zenon
    <3> QED
      BY <3>1, <3>3 DEF Held
  <2> QED
    BY <2>2, <2>3
<1>5. ASSUME NEW h \in 1..Len(channel'), channel'[h] = Busy(TRUE),
             \A k \in h + 1..Len(channel') : channel'[k] # Busy(FALSE)
      PROVE  Held
  <2> DEFINE i == h + 1
  <2>1. i \in 1..Len(channel) /\ channel[i] = Busy(TRUE)
    <3>1. i \in 1..Len(channel)
      BY <1>1
    <3>2. channel[h + 1] = Busy(TRUE)
      BY <1>1, <1>5, Zenon
    <3> QED
      BY <3>1, <3>2
  <2>2. \A k \in i + 1..Len(channel) : k \in 2..Len(channel) /\ k - 1 \in h + 1..Len(channel')
    BY <1>1
  <2>3. \A k \in i + 1..Len(channel) : channel[k] # Busy(FALSE)
    BY <1>3, <1>5, <2>2
  <2> HIDE DEF i
  <2> QED
    BY <2>1, <2>3 DEF Held
<1> QED
  BY <1>4, <1>5 DEF Held

LEMMA InHandStep ==
  ASSUME PanelInv, [Next]_vars
  PROVE  InHand'
<1> USE DEF vars, daemon, queries, threads, user, screen
<1>0. PanelTyped /\ InHand /\ job \in [Jobs -> JobStates] /\ channel \in Seq(Updates)
  BY DEF PanelInv, PanelTyped
\* A step that ends no request and does not make the button held.
<1>1. ASSUME Going \subseteq Going', Held' => Held
      PROVE  InHand'
  BY <1>0, <1>1 DEF InHand
<1>2. ASSUME UNCHANGED <<channel, sensitive>>
      PROVE  Held' => Held
  BY <1>2 DEF Held
<1>3. ASSUME UNCHANGED job
      PROVE  Going \subseteq Going'
  BY <1>3 DEF Going
<1>4. CASE Tick \/ Elsewhere \/ UNCHANGED vars
           \/ \E ask \in Asks : Query(ask)
  <2>1. UNCHANGED <<job, channel, sensitive>>
    BY <1>4 DEF Tick, Elsewhere, Query, Answer, NoAnswer
  <2> QED
    BY <1>1, <1>2, <1>3, <2>1
<1>5. CASE Click
  <2>1. PICK j \in Jobs : job' = [job EXCEPT ![j] =
                             [at |-> "asked", ask |-> IF is_up THEN "down" ELSE "up"]]
    BY <1>5 DEF Click
  <2>2. j \in Going'
    BY <1>0, <2>1 DEF Going
  <2> QED
    BY <2>2 DEF InHand
<1>6. CASE Receive
  <2>1. PICK kind \in {"status", "circuits", "busy"} :
          /\ Received(kind)
          /\ sensitive' = IF kind = "busy" THEN ~Head(channel).busy ELSE sensitive
    BY <1>6 DEF Receive, ReceiveStatus, ReceiveCircuits, ReceiveBusy
  <2>2. UNCHANGED job
    BY <2>1 DEF Received
  <2>3. Held' => Held
    BY <1>0, <2>1, HeldBeforeLess
  <2> QED
    BY <1>1, <1>3, <2>2, <2>3
<1>7. ASSUME NEW u \in Replies, Send(u)
      PROVE  InHand'
  <2>1. UNCHANGED <<job, sensitive>> /\ channel' = Append(channel, u)
    BY <1>7 DEF Send
  <2>2. u \in Updates
    BY DEF Updates
  <2>3. u # Busy(TRUE)
    BY <2>2, UpdatesByKind
  <2>4. Held' => Held
    BY <1>0, <2>1, <2>2, <2>3, HeldBeforeMore
  <2> QED
    BY <1>1, <1>3, <2>1, <2>4
<1>8. ASSUME NEW j \in Jobs, Job(j)
      PROVE  InHand'
  <2>1. CASE Begin(j) \/ End(j) \/ NotServed(j)
    <3>1. /\ UNCHANGED <<channel, sensitive>>
          /\ job' = [job EXCEPT ![j].at = "serving"] \/ job' = [job EXCEPT ![j].at = "answered"]
      BY <2>1 DEF Begin, End, NotServed
    <3>2. Going \subseteq Going'
      BY <1>0, <3>1 DEF Going, JobStates
    <3> QED
      BY <1>1, <1>2, <3>1, <3>2
  <2>2. CASE Say(j)
    <3> DEFINE u == Busy(FALSE)
    <3>1. channel' = Append(channel, u) /\ u \in Updates /\ UNCHANGED sensitive
      BY <2>2 DEF Say, Updates
    <3>2. u # Busy(TRUE)
      BY DEF Busy
    <3>3. Held' => u # Busy(FALSE)
      <4> HIDE DEF u
      <4> QED
        BY <1>0, <3>1, <3>2, HeldBeforeMore
    <3> QED
      BY <3>3 DEF InHand
  <2>3. CASE AskAgain(j)
    <3>1. /\ job[j].at = "said" /\ job' = [job EXCEPT ![j] = Off]
          /\ UNCHANGED <<channel, sensitive>>
      BY <2>3 DEF AskAgain
    <3>2. Going \subseteq Going'
      BY <1>0, <3>1 DEF Going, Off
    <3> QED
      BY <1>1, <1>2, <3>1, <3>2
  <2> QED
    BY <1>8, <2>1, <2>2, <2>3 DEF Job
<1> QED
  BY <1>4, <1>5, <1>6, <1>7, <1>8 DEF Next

\* However many threads ask and answer, and whatever the order their updates come
\* in, the panel's variables stay of their types: a thread is being served exactly
\* when the daemon serves it, and no update is of a kind the loop does not know.
THEOREM PanelTypeCorrect == Spec => []TypeOK
<1>1. PanelTyped => TypeOK
  BY DEF PanelTyped
<1>2. Init => PanelTyped
  BY PanelInit DEF PanelInv
<1>3. PanelTyped /\ [Next]_vars => PanelTyped'
  BY PanelTypedStep
<1> QED
  BY <1>1, <1>2, <1>3, PTL DEF Spec

\* While one request is in flight the button is dead, or the update that deadens it
\* is on its way; for any number of threads and clicks.
THEOREM AloneHolds == Spec => []AloneIsHeld
<1>1. PanelInv => AloneIsHeld
  BY DEF PanelInv, Alone, Held, AloneIsHeld, Contains
<1>2. Init => PanelInv
  BY PanelInit
<1>3. PanelInv /\ [Next]_vars => PanelInv'
  BY PanelTypedStep, AloneStep, InHandStep DEF PanelInv
<1> QED
  BY <1>1, <1>2, <1>3, PTL DEF Spec

\* A dead button has what revives it on its way, or a request that will send it; for
\* any number of threads and clicks, those of before the first was read included.
THEOREM DeadHasAReviver == Spec => []DeadIsInHand
<1>1. PanelInv => DeadIsInHand
  <2>1. SUFFICES ASSUME PanelInv, ~sensitive, ~Contains(channel, Busy(FALSE))
                 PROVE  Going # {}
    BY DEF DeadIsInHand
  <2>2. \A i \in 1..Len(channel) : channel[i] # Busy(FALSE)
    BY <2>1 DEF Contains
  <2> QED
    BY <2>1, <2>2 DEF PanelInv, InHand, Held
<1>2. Init => PanelInv
  BY PanelInit
<1>3. PanelInv /\ [Next]_vars => PanelInv'
  BY PanelTypedStep, AloneStep, InHandStep DEF PanelInv
<1> QED
  BY <1>1, <1>2, <1>3, PTL DEF Spec
==============================================================================
