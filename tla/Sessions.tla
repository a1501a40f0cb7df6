------------------------------ MODULE Sessions ------------------------------
(* The session objects of the application pool.  A socket lends its          *)
(* connections to them, and requests of the HTTP server own them.            *)

CONSTANTS
  Session,   \* session objects
  NoSession  \* NULL

ASSUME SessionsAssumption == NoSession \notin Session
=============================================================================
