---------------------------- MODULE MCWebServer ----------------------------
(* Values for the constants of WebServer. *)
EXTENDS WebServer

Page == [scheme |-> "https", host |-> "page"]
Foreign == [scheme |-> "https", host |-> "foreign"]

Library(websockets, registered, nonRoot) ==
  [proxy |-> FALSE, useWebsockets |-> websockets, registeredOnly |-> registered, nonRoot |-> nonRoot,
   allowAll |-> FALSE, allowed |-> {Page}]
Proxy(all, origins) ==
  [proxy |-> TRUE, useWebsockets |-> TRUE, registeredOnly |-> FALSE, nonRoot |-> FALSE,
   allowAll |-> all, allowed |-> origins]

AllConfigs ==
  { Library(TRUE, TRUE, TRUE), Library(TRUE, TRUE, FALSE), Library(FALSE, FALSE, TRUE),
    Proxy(TRUE, {}), Proxy(FALSE, {[scheme |-> "", host |-> "page"]}) }
ListedOrigins == { Proxy(FALSE, {Page}) }

AllEndpoints == { <<"service", "method">> }
Root == <<"service", "method">>
Prefixed == <<"prefix", "service", "method">>
AllPaths == { Root, Prefixed, <<"prefix", "service", "method", "">>, <<"service", "other">>,
              <<"service">>, <<"service", "">>, <<"", "">> }

Request(method, upgrade, cors, format, origin, p) ==
  [method |-> method, upgrade |-> upgrade, corsHeaders |-> cors[1], corsMethod |-> cors[2],
   type |-> format, origin |-> origin, host |-> "server", path |-> p]

Origins == { NoOrigin, Page, Foreign, [scheme |-> "http", host |-> "server"] }

Post(format, p) == Request("POST", FALSE, <<FALSE, FALSE>>, format, Page, p)
Options(h, m, o, p) == Request("OPTIONS", FALSE, <<h, m>>, "other", o, p)

\* Requests that end in Route, with every configuration.
RoutedRequests ==
  { Post(f, Root) : f \in {"grpc", "other"} }
  \cup { Options(h, TRUE, o, p) : h \in BOOLEAN, o \in Origins, p \in AllPaths }
  \cup { Request("GET", TRUE, <<FALSE, FALSE>>, "other", o, p) : o \in Origins, p \in AllPaths }

\* Requests whose response is followed to its end, with some.
AllSetups ==
  (AllConfigs \X RoutedRequests)
  \cup { <<Library(TRUE, TRUE, TRUE), r>> : r \in {Post("web", Prefixed), Post("text", Root)} }
  \cup { <<Proxy(TRUE, {}), r>> : r \in {Post("web", Prefixed), Options(TRUE, FALSE, NoOrigin, Root)} }

ListedSetups == ListedOrigins \X RoutedRequests
=============================================================================
