-------------------------------- MODULE Display --------------------------------
(***************************************************************************)
(* What the examples show on the screen: a Display (display/src/           *)
(* Display.cpp) has one window for each projection, a ViewPane with a      *)
(* register of what it has to draw, each object with a layer, and a canvas *)
(* of ROOT's, to which Draw adds an object on top of what is there.        *)
(*                                                                         *)
(* A drawable is named for the object of the event it is made from; it     *)
(* copies what it shows (GTrajectories.cpp, GBlob.cpp).  Within a layer    *)
(* there is no order: std::sort is not stable.                             *)
(***************************************************************************)
EXTENDS Integers, Sequences, FiniteSets

CONSTANT Views             \* the projections of the windows

VARIABLES register,        \* view |-> pairs of a drawable and its layer
          canvas           \* view |-> sets of drawables, the later over the earlier

displayVars == <<register, canvas>>

\* The detector counts as an object of a type of its own.
Detector == [ts |-> "detector", index |-> 0]

NoWindow == [v \in {} |-> {}]

DisplayInit == register = NoWindow /\ canvas = NoWindow

\* Display::Display.
NewRegister == [v \in Views |-> {}]
NewCanvas == [v \in Views |-> <<>>]

\* Display::addToRegister: each view registers the drawable.
addToRegister(r, drawables, layer) ==
  [v \in DOMAIN r |-> r[v] \cup (drawables \X {layer})]

\* What a view has registered, sorted by layer.
ByLayer(reg) ==
  LET layers == {pair[2] : pair \in reg}
      rank(l) == Cardinality({k \in layers : k <= l})
  IN [n \in 1 .. Cardinality(layers) |-> {pair[1] : pair \in {q \in reg : rank(q[2]) = n}}]

\* The detector is not drawn in the windows of polar angles.
DrawnIn(drawables, v) == IF v \in {"xy", "yz", "xz"} THEN drawables ELSE drawables \ {Detector}

\* ViewPane::draw in each view.
Drawn(c, r) ==
  [v \in DOMAIN r |-> c[v] \o [n \in DOMAIN ByLayer(r[v]) |-> DrawnIn(ByLayer(r[v])[n], v)]]

\* PFEventDisplay::drawEvent, after the detector: particles and smeared clusters.
drawEvent(particles, clusters) ==
  register' = addToRegister(addToRegister(NewRegister, {Detector}, 0), particles \cup clusters, 2)

\* Mutant of display: the display goes with the PFApp that made it.
displayForAMoment(particles, clusters) == register' = NoWindow /\ canvas' = NoWindow

\* PFApp::display.  The PFApp goes when displayEvent returns, but not its display,
\* which nobody deletes: the windows stay.
display(particles, clusters) ==
  /\ drawEvent(particles, clusters)
  /\ canvas' = Drawn(NewCanvas, register')
=============================================================================
