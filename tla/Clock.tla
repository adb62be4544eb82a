-------------------------------- MODULE Clock --------------------------------
(***************************************************************************)
(* The clock of the small services: of the process for the in-memory       *)
(* stores, of the server for Redis and Postgres.                           *)
(***************************************************************************)
EXTENDS Naturals

VARIABLE clock

\* Each service bounds the time TLC lets pass.
Advance(horizon) == clock < horizon /\ clock' = clock + 1
=============================================================================
