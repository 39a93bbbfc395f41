----------------------------- MODULE MCHttpProxy ----------------------------
(* Small instances of Server with its clients. *)
EXTENDS HttpProxy

UnknownThenGet == <<"unknown", "get">>
=============================================================================
