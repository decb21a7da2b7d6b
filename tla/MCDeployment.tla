---------------------------- MODULE MCDeployment ----------------------------
(***************************************************************************)
(* Model-checking instance of Deployment: the nodes that are created and   *)
(* the edits that are made, each after what it may break.                  *)
(***************************************************************************)
EXTENDS Deployment, TLC

Edge(path, front, port) ==
    [edge |-> TRUE, protocol |-> "vless", tls |-> TRUE, kind |-> "ws", path |-> path,
     host |-> "own", sni |-> Nothing, front |-> front, port |-> port]

(* Nodes for an endpoint, with one thing missing, and two external ones. *)
MCDrafts ==
    {Edge(path, Nothing, TRUE) : path \in Paths \cup {NoPath}}
    \cup {Edge(DefaultPath, "own", TRUE), Edge(DefaultPath, Nothing, FALSE)}
    \cup {[Edge(DefaultPath, Nothing, TRUE) EXCEPT !.edge = FALSE, !.protocol = "trojan"],
          [Edge(DefaultPath, Nothing, TRUE) EXCEPT !.edge = FALSE, !.tls = FALSE, !.kind = "xhttp"]}

None == [f \in {"edge"} \cup LinkFields |-> Keep]

(* An edit of kind and protocol, of the transport, of TLS and host, or of  *)
(* the port.                                                               *)
MCEdits ==
    {[None EXCEPT !.edge = edge, !.protocol = protocol] :
        edge \in BOOLEAN \cup {Keep}, protocol \in {"vless", "trojan", Keep}}
    \cup {[None EXCEPT !.kind = "ws", !.path = path, !.front = Nothing] :
        path \in Paths \cup {NoPath}}
    \cup {[None EXCEPT !.kind = "ws", !.path = DefaultPath, !.front = s] : s \in Scripts}
    \cup {[None EXCEPT !.kind = "xhttp", !.path = NoPath, !.front = Nothing]}
    \cup {[None EXCEPT !.tls = tls, !.sni = Nothing] : tls \in BOOLEAN}
    \cup {[None EXCEPT !.tls = TRUE, !.sni = s] : s \in Scripts}
    \cup {[None EXCEPT !.host = "own"], [None EXCEPT !.port = FALSE]}

Symmetry == Permutations(Nodes) \cup Permutations(Scripts) \cup Permutations(Reqs)
=============================================================================
