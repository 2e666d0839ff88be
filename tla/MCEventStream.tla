--------------------------- MODULE MCEventStream ---------------------------
(* EventStream for TLC; the constants are in the Event*.cfg files.          *)
EXTENDS EventStream
=============================================================================
