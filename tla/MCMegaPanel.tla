------------------------------ MODULE MCMegaPanel ------------------------------
(* A station on turnout 1; turnout 2 is on no panel, but routes command it.    *)
EXTENDS MegaPanel

MCStationAddress == <<1>>
MCRouteOfButton ==
    << << <<1, "Thrown">>, <<2, "Closed">> >>, << <<2, "Thrown">> >> >>
================================================================================
