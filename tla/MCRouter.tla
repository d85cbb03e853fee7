------------------------------ MODULE MCRouter ------------------------------
(* Values of the constants of Router for TLC.                              *)
EXTENDS Router

CONSTANTS h1, h2, h3

(* The second route is never taken for h1; h3 has none.                    *)
MCHosts == {h1, h2, h3}
MCRoutes == <<{h1}, {h1, h2}>>
=============================================================================
