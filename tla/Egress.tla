------------------------------- MODULE Egress -------------------------------
(***************************************************************************)
(* The one egress route of a session (internal/app/egress.go), resolved    *)
(* from six variables of the parent's environment.  An environment is      *)
(*   [proxy   |-> <<HTTPS_PROXY, https_proxy, HTTP_PROXY, http_proxy>>,    *)
(*    noProxy |-> <<NO_PROXY, no_proxy>>],                                 *)
(* a proxy a host and the credentials of its URL, a NO_PROXY value the     *)
(* sequence of its comma-separated segments, trimmed.                      *)
(***************************************************************************)
EXTENDS Naturals, Sequences

\* A variable that is not set, or holds nothing but white space.
Blank == {"", " "}
BlankLists == {<<>>, <<"">>}

(* The value at the first of the positions that hold something. *)
FirstNonEmpty(values, filled) ==
  values[IF filled = {} THEN 1 ELSE CHOOSE i \in filled : \A j \in filled : i <= j]

(* parseNoProxy: a segment that is malformed, the wildcard, an entry, or empty. *)
Segments(list) == {list[i] : i \in DOMAIN list} \ {""}
MalformedNoProxy(list) == "malformed" \in Segments(list)
Entries(list) == Segments(list) \ {"*"}

(* Seeded fault of Wildcard: an entry disables the proxy as well. *)
WildcardOrEntries(list) == Segments(list) # {}

Wildcard(list) == "*" \in Segments(list)

\* The route object keeps the credentials; there is no upstream on a direct one.
EgressRoute(proxy, addressGuarantee) ==
  [host |-> proxy.host, credentials |-> proxy.credentials,
   target |-> TRUE, address |-> addressGuarantee]
DirectRoute == EgressRoute([host |-> "", credentials |-> ""], TRUE)
EgressRouteError == EgressRoute([host |-> "error", credentials |-> ""], FALSE)

(* resolveEgressRoute *)
Route(environment) ==
  LET proxies == environment.proxy
      lists == environment.noProxy
      upstream == FirstNonEmpty(proxies, {i \in DOMAIN proxies : proxies[i].host \notin Blank})
      noProxy == FirstNonEmpty(lists, {i \in DOMAIN lists : lists[i] \notin BlankLists})
  IN IF MalformedNoProxy(noProxy) THEN EgressRouteError
     ELSE IF upstream.host \in Blank \/ Wildcard(noProxy) THEN DirectRoute
     ELSE IF Entries(noProxy) # {} \/ upstream.host = "malformed" THEN EgressRouteError
     ELSE EgressRoute(upstream, FALSE)

Resolves(environment) == Route(environment) # EgressRouteError

(* Seeded fault of RouteFingerprint: the credentials of the proxy are in it. *)
RouteFingerprintWithCredentials(route) == <<route.host, route.credentials>>

RouteFingerprint(route) == <<route.host>>

=============================================================================
