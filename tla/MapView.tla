------------------------------ MODULE MapView ------------------------------
(***************************************************************************)
(* The map of the window: which part of the world it shows, and where in   *)
(* the widget a place falls (src/map.rs, and draw_map of                   *)
(* src/bin/tortunnel.rs), as circuits come and go and the view is zoomed.  *)
(* Places are whole degrees. A window is reckoned in hundredths of a       *)
(* degree and two (Unit to the degree), which makes its centre and its     *)
(* margin of 45% exact.                                                    *)
(***************************************************************************)
EXTENDS Integers, Sequences, FiniteSetsExt

CONSTANTS
  Places,       \* pairs of longitude and latitude
  Unplaced,     \* a hop whose country is unknown, or not on the map
  Coast,        \* longitudes of coastlines
  Sizes,        \* pairs of a width and a height of the widget
  MaxCircuits,  \* bound: circuits in an answer
  MaxHops       \* bound: hops of a circuit

ASSUME PlacesAssumption ==
  /\ Places \subseteq (-180..180) \X (-85..85) /\ Unplaced \notin Places
  /\ Coast \subseteq -180..180
  /\ Sizes \subseteq (Nat \ {0}) \X (Nat \ {0}) /\ {MaxCircuits, MaxHops} \subseteq Nat

VARIABLES
  drawn_circuits,  \* what the last answer brought
  zoom             \* far, fit (1.0) or near

map_vars == <<drawn_circuits, zoom>>

Unit  == 200
Whole == 360 * Unit

Hops     == UNION {[1..n -> Places \cup {Unplaced}] : n \in 0..MaxHops}
AnyCircuit == [general : BOOLEAN, hops : Hops]
CircuitLists  == UNION {[1..n -> AnyCircuit] : n \in 0..MaxCircuits}

-----------------------------------------------------------------------------
(* Bounds.                                                                 *)

Distance(a, b) == IF a < b THEN b - a ELSE a - b
Span(S)  == Max(S) - Min(S)
Shift(l) == IF l < 0 THEN l + 360 ELSE l

\* Mutant: longitudes as they are given.
LongitudesPlain(points) == {p[1] : p \in points}

\* Bounds::around measures twice, and the narrower span wins.
Longitudes(points) ==
  LET plain   == {p[1] : p \in points}
      shifted == {Shift(l) : l \in plain}
  IN  IF Span(shifted) < Span(plain) THEN shifted ELSE plain

\* Bounds::padded: 45% more, and at least so much.
Padded(S, least) == Max({290 * Span(S), least * Unit})

Window(lons, lats) ==
  [lon  |-> 100 * (Min(lons) + Max(lons)), lat  |-> 100 * (Min(lats) + Max(lats)),
   wide |-> Padded(lons, 40),              high |-> Padded(lats, 20)]

World == [lon |-> 0, lat |-> 0, wide |-> Whole, high |-> 170 * Unit]

\* draw_map frames every hop that has a place, of every circuit that carries
\* traffic.
General(circuits) == {circuits[i] : i \in {j \in DOMAIN circuits : circuits[j].general}}

Located(circuits) ==
  (UNION {{c.hops[i] : i \in DOMAIN c.hops} : c \in General(circuits)}) \ {Unplaced}

View(circuits) ==
  LET points == Located(circuits)
  IN  IF points = {} THEN World ELSE Window(Longitudes(points), {p[2] : p \in points})

-----------------------------------------------------------------------------
(* Projection.                                                             *)

\* Mutant: only what lies too far east is taken round.
WrapEastOnly(view, lon) ==
  LET delta == lon * Unit - view.lon
  IN  delta - Whole * Min({k \in 0..2 : delta - k * Whole <= 180 * Unit})

\* Projection::wrap: its two loops, each run as often as it takes.
Wrap(view, lon) ==
  LET delta == lon * Unit - view.lon
      west  == Min({k \in 0..2 : delta - k * Whole <= 180 * Unit})
      east  == Min({k \in 0..2 : delta + k * Whole >= -180 * Unit})
  IN  delta + (east - west) * Whole

\* Projection::new at zoom 1: the tighter axis decides the scale. A point is in
\* the widget when it is less than half of it away from the middle, in both.
InWidget(view, size, place) ==
  LET w == size[1]  h == size[2]
      wide == Max({view.wide, Unit})  high == Max({view.high, Unit})
      reach == Max({wide * h, high * w})
  IN  /\ 2 * h * Distance(Wrap(view, place[1]), 0) < reach
      /\ 2 * w * Distance(place[2] * Unit, view.lat) < reach

\* Mutant: the longitudes are compared as they are.
BrokenPlain(view, a, b) == Distance(a, b) > 180

\* Two points of a coast that fall on opposite edges are not joined by a line.
Broken(view, a, b) == Distance(Wrap(view, a), Wrap(view, b)) > 180 * Unit

-----------------------------------------------------------------------------
(* The window.                                                             *)

MapInit == drawn_circuits = <<>> /\ zoom = "fit"

\* An answer, Update::Circuits.
Redraw == drawn_circuits' \in CircuitLists /\ UNCHANGED zoom

\* A status that says the tunnel is not up: its circuits are history, and so is the
\* view of them. (One that says it is changes nothing here.)
Clear ==
  /\ drawn_circuits # <<>>
  /\ drawn_circuits' = <<>> /\ zoom' = "fit"

ZoomIn ==
  /\ zoom' \in IF zoom = "far" THEN {"far", "fit", "near"} ELSE {"near"}
  /\ UNCHANGED drawn_circuits

ZoomOut ==
  /\ zoom' \in IF zoom = "near" THEN {"far", "fit", "near"} ELSE {"far"}
  /\ UNCHANGED drawn_circuits

ZoomFit == zoom' = "fit" /\ UNCHANGED drawn_circuits

MapNext == Redraw \/ Clear \/ ZoomIn \/ ZoomOut \/ ZoomFit

MapSpec == MapInit /\ [][MapNext]_map_vars

-----------------------------------------------------------------------------
(* Properties.                                                             *)

\* Every variable stays in its type.
MapTypeOK == drawn_circuits \in CircuitLists /\ zoom \in {"far", "fit", "near"}

\* Unless the view has been magnified, every hop that has a place is inside the
\* widget, whatever its shape and on whichever side of the antimeridian the hops
\* are: around, padded and wrap agree on which way round they measure.
InSight ==
  zoom # "near" =>
    \A size \in Sizes : \A place \in Located(drawn_circuits) :
      InWidget(View(drawn_circuits), size, place)

Short(a, b) == Unit * Min({Distance(a, b), 360 - Distance(a, b)})

\* Two places are drawn as far apart as they are the short way round: "a circuit
\* spanning the Pacific must frame the Pacific" (map.rs:221).
TwoAreShort ==
  LET places == Located(drawn_circuits)
      view   == View(drawn_circuits)
  IN  Cardinality(places) = 2 =>
        \A p, q \in places :
          Distance(Wrap(view, p[1]), Wrap(view, q[1])) = Short(p[1], q[1])

\* A stretch of coast that is drawn is drawn its own length, wherever the view's
\* edge falls: never as a streak across the map (tortunnel.rs:972).
NoStreaks ==
  LET view == View(drawn_circuits)
  IN  \A a, b \in Coast :
        ~Broken(view, a, b) => Distance(Wrap(view, a), Wrap(view, b)) = Short(a, b)
=============================================================================
