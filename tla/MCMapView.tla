----------------------------- MODULE MCMapView -----------------------------
(* A small instance of MapView for TLC: places on both sides of every edge. *)
EXTENDS MapView

MCPlaces == {<<-170, 60>>, <<-100, 20>>, <<-1, 0>>, <<10, 52>>, <<100, -40>>, <<179, 40>>}
MCCoast  == {-180, -179, -120, -90, -1, 0, 1, 60, 90, 91, 170, 180}
MCSizes  == {<<5, 3>>, <<1, 4>>}
=============================================================================
