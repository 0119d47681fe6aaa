--------------------------------- MODULE Line ---------------------------------
(***************************************************************************)
(* What a house with a button wired to a relay by two rules (pressed: on,  *)
(* released: off) promises: a line.  What is done to the button travels    *)
(* first through the air, where it may be lost, and then along the way,    *)
(* where it may not: it comes out at the light in the order it went in.    *)
(* Only a server that has just started (one that is not ready) may drop    *)
(* what reaches it; one that ends drops all it has, but for the oldest,    *)
(* which may still come out.                                               *)
(***************************************************************************)
EXTENDS Sequences

VARIABLES pressed, air, way, light, ready

lvars == <<pressed, air, way, light, ready>>

LineInit ==
  pressed = FALSE /\ air = <<>> /\ way = <<>> /\ light = FALSE /\ ready = FALSE

Switch ==
  /\ pressed' = ~pressed /\ air' = Append(air, ~pressed)
  /\ UNCHANGED <<way, light, ready>>

Miss ==
  /\ air # <<>> /\ air' = Tail(air)
  /\ UNCHANGED <<pressed, way, light, ready>>

Enter ==
  /\ air # <<>> /\ air' = Tail(air) /\ way' = Append(way, Head(air))
  /\ UNCHANGED <<pressed, light, ready>>

Light ==
  /\ way # <<>> /\ light' = Head(way) /\ way' = Tail(way)
  /\ UNCHANGED <<pressed, air, ready>>

BeReady ==
  /\ ready' = TRUE
  /\ UNCHANGED <<pressed, air, way, light>>

Drop ==
  /\ ~ready /\ way # <<>> /\ way' = Tail(way)
  /\ UNCHANGED <<pressed, air, light, ready>>

End ==
  /\ way' = <<>> /\ ready' = FALSE
  /\ light' = light \/ (way # <<>> /\ light' = Head(way))
  /\ UNCHANGED <<pressed, air>>

Begin ==
  /\ way = <<>> /\ ~ready /\ air' = <<>>
  /\ UNCHANGED <<pressed, way, light, ready>>

LineNext ==
  Switch \/ Miss \/ Enter \/ Light \/ BeReady \/ Drop \/ End \/ Begin

LineSpec == LineInit /\ [][LineNext]_lvars
=============================================================================
