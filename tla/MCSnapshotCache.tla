-------------------------- MODULE MCSnapshotCache --------------------------
(***************************************************************************)
(* Small instance of SnapshotCache: three snapshots that differ in their   *)
(* endpoints (two services, a pattern that does not compile) and in their  *)
(* policies and bindings (one dangling, one role bound twice).             *)
(***************************************************************************)
EXTENDS SnapshotCache

Ep(regex, perm) ==
  [method |-> "GET", regex |-> regex, fullPath |-> "/a", perm |-> perm,
   access |-> "public", owner |-> Nil, limits |-> <<>>]

Read == <<"content", "read">>

Viewer == [name |-> "viewer", statements |-> {[actions |-> {Read}, apps |-> {"app1"}]}]
Bind(role, policy) == [role |-> role, policy |-> policy]

MCContents ==
  { [apps     |-> << [app |-> "app1", services |-> << <<Ep({"/a"}, Read)>>, <<Ep({"/b"}, NoPerm)>> >>],
                     [app |-> "app2", services |-> << <<Ep({"/a", "/b"}, Read)>> >>] >>,
     policies |-> <<Viewer>>,
     bindings |-> <<Bind(<<"mod">>, "viewer")>>],
    [apps     |-> << [app |-> "app1", services |-> << <<Ep(Nil, Read)>> >>] >>,
     policies |-> <<Viewer, [Viewer EXCEPT !.name = "editor"]>>,
     bindings |-> <<Bind(<<"mod">>, "viewer"), Bind(<<"mod">>, "editor"), Bind(<<"ops">>, "gone")>>],
    [apps |-> <<>>, policies |-> <<>>, bindings |-> <<>>] }
=============================================================================
