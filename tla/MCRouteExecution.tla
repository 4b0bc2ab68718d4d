--------------------------- MODULE MCRouteExecution ---------------------------
(* Routes of no, one, two and three commands over two turnouts.            *)
EXTENDS RouteExecution

MCRoutes ==
    LET throw1 == <<1, "Thrown">>
        close2 == <<2, "Closed">>
        close1 == <<1, "Closed">>
    IN  {<<>>, <<close1>>, <<throw1, close2>>, <<close2, throw1, close1>>}
===============================================================================
