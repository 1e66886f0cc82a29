---------------------------- MODULE MCSharedPage ----------------------------
(* Two resolvers of one request.                                           *)
EXTENDS SharedPage
=============================================================================
