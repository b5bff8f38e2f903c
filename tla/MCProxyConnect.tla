--------------------------- MODULE MCProxyConnect ---------------------------
(* ProxyConnect on small instances: two structs are a SOCKS5 attempt and its *)
(* child, two attempts of different users, or one attempt and its successor. *)
EXTENDS ProxyConnect
=============================================================================
