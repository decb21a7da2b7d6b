----------------------------- MODULE MCDelivery -----------------------------
(* Model-checking instance of Delivery: the node 1, next to others.  No    *)
(* symmetry: the run checks liveness.                                      *)
EXTENDS Delivery

Node(id, health, latency, priority, weight, name, country, protocol, kind) ==
    [id |-> id, enabled |-> TRUE, health |-> health, latency |-> latency, priority |-> priority,
     weight |-> weight, name |-> name, country |-> country, protocol |-> protocol, kind |-> kind]

MCFleets ==
    {{Node(1, "unknown", 20, 1, 50, 1, 1, "vless", "ws")},
     {Node(1, "unknown", 20, 1, 50, 1, 1, "vless", "xhttp"),
      Node(2, "unreachable", 10, 2, 50, 2, 1, "vless", "ws")},
     {Node(1, "unknown", 20, 1, 50, 1, 1, "vless", "ws"),
      Node(2, "healthy", 20, 1, 50, 1, 2, "trojan", "grpc"),
      Node(3, "healthy", 20, 1, 50, 2, Blank, "shadowsocks", "xhttp")},
     {Node(1, "unknown", Unmeasured, 2, 10, 1, Blank, "vless", "grpc"),
      Node(2, "degraded", 10, 1, 50, 2, Blank, "vless", "ws"),
      Node(3, "unknown", 10, 2, 90, 3, 1, "vless", "xhttp")}}

MCTemplates ==
    {[shows |-> {"COUNTRY"}, text |-> FALSE], [shows |-> {"COUNTRY", "NAME"}, text |-> FALSE],
     [shows |-> {"INDEX"}, text |-> TRUE]}

Host(labels) == [labels |-> labels]
Address(v6, number) == [v6 |-> v6, number |-> number]
Rule(name, type, pattern, bits, action, priority) ==
    [name |-> name, type |-> type, pattern |-> pattern, bits |-> bits, action |-> action,
     priority |-> priority, enabled |-> TRUE]

MCRules ==
    {Rule(1, "ip", Address(TRUE, 5), 0, "block", 1),
     Rule(2, "cidr", Address(FALSE, 2), 1, "direct", 1),
     Rule(1, "domain-suffix", Host(<<"com">>), 0, "block", 2),
     Rule(1, "domain", Host(<<"a", "com">>), 0, "direct", 2),
     [Rule(2, "domain-keyword", Host(<<"b">>), 0, "proxy", 1) EXCEPT !.enabled = FALSE]}

MCRuleSets == {{}, MCRules}
MCTargets ==
    {Host(<<"a", "com">>), Host(<<"b", "com">>), Host(<<"b">>)}
    \cup {Address(FALSE, n) : n \in 0 .. 3} \cup {Address(TRUE, n) : n \in 0 .. 7}

NoColumns(tls) ==
    [edge |-> FALSE, hostname |-> 1, port |-> 443, path |-> Blank, host |-> Blank, service |-> Blank,
     tls |-> tls, sni |-> Blank, fingerprint |-> Blank, alpn |-> Blank, insecure |-> Blank]

MCColumns ==
    UNION {{NoColumns(tls), [NoColumns(tls) EXCEPT !.edge = TRUE, !.path = 2],
            [NoColumns(tls) EXCEPT !.host = 3, !.service = 4],
            [NoColumns(tls) EXCEPT !.sni = 3, !.fingerprint = 5]} : tls \in BOOLEAN}
=============================================================================
