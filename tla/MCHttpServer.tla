---------------------------- MODULE MCHttpServer ----------------------------
(***************************************************************************)
(* What the clients of the model-checked instance send: a request, two on  *)
(* a connection kept alive, a request with a body, a request line that     *)
(* does not parse, and more than MaxReq.                                   *)
(***************************************************************************)
EXTENDS HttpServer

MCScripts == { <<"get", "end">>,
               <<"getka", "end", "get", "end">>,
               <<"get", "end", "body">>,
               <<"bad", "end">>,
               <<"getka", "end", "get", "body", "body", "body">> }
=============================================================================
