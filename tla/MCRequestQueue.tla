--------------------------- MODULE MCRequestQueue ---------------------------
(* TLC instance of the request queue: each thread has one role, as in cream. *)
EXTENDS RequestQueueProps, TLC

CONSTANTS p1, p2, c1, c2, x

MCProducers    == {p1, p2}
MCConsumers    == {c1, c2}
MCInvalidators == {x}
=============================================================================
