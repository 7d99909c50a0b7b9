------------------------------ MODULE MCWorkTabs ------------------------------
(* The console is pinned and not cached, the character page is Setup and   *)
(* cached, two fleet details share a route and, so that cached pages wait  *)
(* for their guard too, are taken as cached; components are called like    *)
(* their routes.                                                           *)
EXTENDS WorkTabs

CONSTANTS console, setup, detail1, detail2, error

MCNameOf == [p \in Pages |-> IF p \in {detail1, detail2} THEN "FleetDetail"
                            ELSE IF p = console THEN "Console"
                            ELSE IF p = setup THEN "Characters" ELSE "Exception500"]
MCKeptAlive == {setup, detail1, detail2}
MCPinnedPages == {console}
MCHiddenPages == {error}

(* the two details differ in nothing *)
Symmetry == Permutations({detail1, detail2})
=============================================================================
