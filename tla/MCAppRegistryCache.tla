------------------------ MODULE MCAppRegistryCache ------------------------
(***************************************************************************)
(* Small instance of AppRegistryCache: three instances are built at once.  *)
(* The registries have a host in two spellings with different              *)
(* applications, overlapping wildcards, a lone "*", an inactive host and   *)
(* applications without hosts.                                             *)
(***************************************************************************)
EXTENDS AppRegistryCache

Host(labels, form) == [labels |-> labels, form |-> form]
Entry(app, active) == [app |-> app, active |-> active]

One == Host(<<"one", "ex">>, "lower")
OneLoud == Host(<<"one", "ex">>, "upper:port")
AnyTwo == Host(<<"*", "two">>, "lower")
AnySubTwo == Host(<<"*", "a", "two">>, "lower")
Star == Host(<<"*">>, "lower")

MCRegistries ==
  { [hosts |-> (One :> Entry("app1", TRUE)) @@ (OneLoud :> Entry("app2", TRUE)) @@ (AnyTwo :> Entry("app2", TRUE)),
     apps |-> {Entry("app3", TRUE)}],
    [hosts |-> (One :> Entry("app1", FALSE)) @@ (AnyTwo :> Entry("app2", TRUE)) @@ (AnySubTwo :> Entry("app1", TRUE))
               @@ (Star :> Entry("app3", TRUE)),
     apps |-> {Entry("app1", FALSE)}] }

MCRequestHosts ==
  {One, OneLoud} \cup {Host(l, "dot") : l \in {<<"two">>, <<"b", "two">>, <<"b", "a", "two">>, <<"three", "ex">>, <<"*">>}}
=============================================================================
