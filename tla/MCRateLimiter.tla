--------------------------- MODULE MCRateLimiter ---------------------------
(***************************************************************************)
(* Small instance of RateLimiter: the requests of one user on one endpoint *)
(* run their checks on one client, over two windows and an outage. The     *)
(* identities are those of a wider set of callers, where identifiers of    *)
(* different kinds have the same value.                                    *)
(***************************************************************************)
EXTENDS RateLimiter

Peer == "10.0.0.9"
User(app, user) ==
  [app |-> app, user |-> user, device |-> "", session |-> "", forwarded |-> <<>>,
   realIP |-> "", remote |-> Peer, endpoint |-> "e1"]

MCCallers == {User("A", "7")}

MCEveryone ==
  [app : {"A", "B"}, user : {"", "7"}, device : {"", "7"}, session : {"", "7", "8"},
   forwarded : {<<>>, <<"", "7">>, <<"8", "7">>}, realIP : {"", "8"}, remote : {Peer},
   endpoint : {"e1", "e2"}]
=============================================================================
