---------------------------- MODULE MCProxyServer ----------------------------
(* Model-checking instance of ProxyServer; it has no constants.           *)
EXTENDS ProxyServer
=============================================================================
