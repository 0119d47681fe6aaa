-------------------------- MODULE MCWebsocketSession --------------------------
(***************************************************************************)
(* An instance of the websocket session for TLC.  A session looks neither  *)
(* at the ids nor at the values it passes on: both are symmetric.          *)
(***************************************************************************)
EXTENDS WebsocketSession

Symmetry == Permutations(Output) \cup Permutations(Values)
=============================================================================
