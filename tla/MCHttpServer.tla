---------------------------- MODULE MCHttpServer ----------------------------
(* An instance of HttpServer for TLC.                                      *)
EXTENDS HttpServer

CONSTANTS c1, c2

(* The root has a page or none; at "a" there is a file, a shorter one, a   *)
(* directory with its own page, or nothing.                                *)
SomeDisks ==
  {(<< >> :> Dir) @@ (<<"index.html">> :> n[1]) @@ (<<"a">> :> n[2]) @@ (<<"a", "index.html">> :> n[3])
     : n \in {<<1, 2, Absent>>, <<Absent, 1, Absent>>, <<1, Dir, 1>>, <<Absent, Absent, Absent>>}}

SomeRequests ==
  [h \in {"files", "proxy"} |->
     {<<<<"GET", p>>, <<"end">>>> :
        p \in IF h = "files" THEN {<< >>, <<"a">>} ELSE {<<"a">>}}]

(* One process for a file, as those share nothing but the directory; two   *)
(* for the proxy, too few for two connections.                             *)
SomeLimits == [h \in {"files", "proxy"} |-> IF h = "files" THEN {1} ELSE {2}]
=============================================================================
