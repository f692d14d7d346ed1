---------------------------- MODULE AppRegistry ----------------------------
(***************************************************************************)
(* The host -> application registry (registry.go): its published form, the *)
(* compilation a refresh performs and the lookups of a request.            *)
(*                                                                         *)
(* A host is [labels, form]: its lower-case labels, "*" first for a        *)
(* wildcard, and how it is written (case, port, trailing dot). A published *)
(* registry is [hosts |-> raw host -> [app, active], apps |-> set of       *)
(* [app, active]].                                                         *)
(***************************************************************************)
EXTENDS Authz

\* Case, port and the trailing dot do not tell hosts apart.
normalizeHost(h) == h.labels

isWildcardHost(labels) == Len(labels) > 1 /\ labels[1] = "*"

-----------------------------------------------------------------------------
(* Compilation. Go iterates over the hosts map in random order, so of two  *)
(* spellings of one host either may win, and the wildcards end up in any   *)
(* order.                                                                  *)

appOf(reg, h) == reg.hosts[h].app

\* Mutant: the status of an entry is ignored.
liveHostsAll(reg) == DOMAIN reg.hosts

liveHosts(reg) == {h \in DOMAIN reg.hosts : reg.hosts[h].active}

wildHosts(reg) == {h \in liveHosts(reg) : isWildcardHost(normalizeHost(h))}

exactHosts(reg) == liveHosts(reg) \ wildHosts(reg)

\* The host maps a refresh may build.
hostMaps(reg) ==
  LET names == {normalizeHost(h) : h \in exactHosts(reg)}
  IN {f \in [names -> {appOf(reg, h) : h \in exactHosts(reg)}] :
        \A n \in names : \E h \in exactHosts(reg) :
          normalizeHost(h) = n /\ f[n] = appOf(reg, h)}

\* The wildcard list of one order w of the wildcard hosts.
wildcardList(reg, w) ==
  [i \in DOMAIN w |-> [suffix |-> Tail(normalizeHost(w[i])), app |-> appOf(reg, w[i])]]

\* Active applications, those with active hosts included.
activeApps(reg, f) ==
  ({a.app : a \in {b \in reg.apps : b.active}} \ {NoApp})
    \cup {f[n] : n \in DOMAIN f} \cup {appOf(reg, h) : h \in wildHosts(reg)}

\* Every result a refresh may compute from reg.
compileRegistry(reg) ==
  {[byHost |-> p[1], wildcards |-> wildcardList(reg, p[2]), active |-> activeApps(reg, p[1])] :
     p \in hostMaps(reg) \X SetToSeqs(wildHosts(reg))}

-----------------------------------------------------------------------------

EmptyRegistry == [byHost |-> <<>>, wildcards |-> <<>>, active |-> {}]

\* The application of a host, as a set of at most one: an exact entry, else
\* the first wildcard whose suffix it ends in, else none.
resolveHost(reg, host) ==
  LET nh == normalizeHost(host)
      hits == {i \in DOMAIN reg.wildcards : IsStrictSuffix(reg.wildcards[i].suffix, nh)}
      first == {i \in hits : \A j \in hits : i <= j}
  IN IF nh \in DOMAIN reg.byHost THEN {reg.byHost[nh]}
     ELSE {reg.wildcards[i].app : i \in first}
=============================================================================
