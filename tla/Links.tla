-------------------------------- MODULE Links --------------------------------
(***************************************************************************)
(* The adapters of protocols.ts: what a link of a Base64 document and a    *)
(* proxy of a Clash document say of one node, and what a client reads in   *)
(* either.  A link is a set of named values, Blank ones left out; so is a  *)
(* proxy, the nested options (ws-opts, grpc-opts, plugin-opts) under names *)
(* of their own.                                                           *)
(*                                                                         *)
(* A row has, beside what Documents looks at, [edge, hostname, port, path, *)
(* host, service, tls, sni, fingerprint, alpn, insecure]; edge says that   *)
(* the node runs on this panel's worker.                                   *)
(***************************************************************************)
EXTENDS Documents

RootPath == -1      \* "/", the path of a row that has none

Given(name, value) == IF value = Blank THEN {} ELSE {<<name, value>>}
Default(value, otherwise) == IF value = Blank THEN otherwise ELSE value

(* validate() of the three adapters, beside the columns every node needs. *)
VlessValid(row) == row.edge => row.kind = "ws"
TrojanValid(row) == row.tls /\ row.kind # "xhttp" /\ ~row.edge
ShadowsocksValid(row) == ~row.edge

(* getProtocolAdapter(protocol).validate *)
Valid(row) ==
    CASE row.protocol = "vless" -> VlessValid(row)
      [] row.protocol = "trojan" -> TrojanValid(row)
      [] row.protocol = "shadowsocks" -> ShadowsocksValid(row)

HostOf(row) == Default(row.host, row.hostname)
SniOf(row) == Default(row.sni, row.hostname)

(* transportQuery. *)
TransportQuery(row) ==
    {<<"type", row.kind>>}
    \cup (IF row.kind \in {"ws", "xhttp"} THEN Given("path", row.path) \cup {<<"host", HostOf(row)>>}
          ELSE Given("serviceName", row.service))
    \cup (IF row.tls THEN {<<"security", "tls">>, <<"sni", SniOf(row)>>}
                          \cup Given("fp", row.fingerprint) \cup Given("alpn", row.alpn)
                          \cup Given("allowInsecure", row.insecure)
          ELSE {<<"security", "none">>})

(* The options of v2ray-plugin: in the plugin parameter of a link... *)
PluginParameter(row) ==
    IF row.kind # "ws" THEN {}
    ELSE (IF row.tls THEN {<<"tls", TRUE>>} ELSE {})
         \cup {<<"host", HostOf(row)>>, <<"path", Default(row.path, RootPath)>>}

(* ...and in plugin-opts of a proxy. *)
PluginOpts(row) ==
    IF row.kind # "ws" THEN {}
    ELSE {<<"mode", "websocket">>, <<"tls", row.tls>>, <<"host", HostOf(row)>>,
          <<"path", Default(row.path, RootPath)>>}

(* generateSubscriptionEntry of the three adapters. *)
Endpoint(row) == {<<"server", row.hostname>>, <<"port", row.port>>}

VlessLink(row) == {<<"scheme", "vless">>, <<"user", "uuid">>} \cup Endpoint(row) \cup TransportQuery(row)
TrojanLink(row) ==
    {<<"scheme", "trojan">>, <<"user", "trojanPassword">>} \cup Endpoint(row) \cup TransportQuery(row)
ShadowsocksLink(row) ==
    {<<"scheme", "shadowsocks">>, <<"user", "ssPassword">>,
     <<"plugin", PluginParameter(row)>>} \cup Endpoint(row)

Link(row) ==
    CASE row.protocol = "vless" -> VlessLink(row)
      [] row.protocol = "trojan" -> TrojanLink(row)
      [] row.protocol = "shadowsocks" -> ShadowsocksLink(row)

(* clashTransportFields, for the transports Clash knows. *)
ClashTransport(row) ==
    IF row.kind = "ws"
    THEN {<<"network", "ws">>, <<"ws-path", Default(row.path, RootPath)>>, <<"ws-host", HostOf(row)>>}
    ELSE {<<"network", "grpc">>} \cup Given("grpc-service-name", row.service)

(* Mutant of ClashTls: no server name unless the node has one. *)
ClashTlsOwnSni(row) ==
    IF row.tls THEN {<<"tls", TRUE>>} \cup Given("servername", row.sni)
                    \cup Given("skip-cert-verify", row.insecure)
                    \cup Given("client-fingerprint", row.fingerprint) \cup Given("alpn", row.alpn)
    ELSE {<<"tls", FALSE>>}

(* clashTlsFields. *)
ClashTls(row) ==
    IF row.tls THEN {<<"tls", TRUE>>, <<"servername", SniOf(row)>>}
                    \cup Given("skip-cert-verify", row.insecure)
                    \cup Given("client-fingerprint", row.fingerprint) \cup Given("alpn", row.alpn)
    ELSE {<<"tls", FALSE>>}

(* generateClashProxy of the three adapters, where there is a proxy.       *)
VlessProxy(row) ==
    {<<"type", "vless">>, <<"secret", "uuid">>} \cup Endpoint(row)
    \cup ClashTransport(row) \cup ClashTls(row)

(* Trojan, always over TLS, has a name of its own for the server name.     *)
TrojanProxy(row) ==
    {<<"type", "trojan">>, <<"secret", "trojanPassword">>, <<"sni", SniOf(row)>>} \cup Endpoint(row)
    \cup ClashTransport(row)
    \cup {field \in ClashTls(row) : field[1] \notin {"tls", "servername"}}

ShadowsocksProxy(row) ==
    {<<"type", "shadowsocks">>, <<"secret", "ssPassword">>,
     <<"plugin-opts", PluginOpts(row)>>} \cup Endpoint(row)

ClashProxy(row) ==
    CASE row.protocol = "vless" -> VlessProxy(row)
      [] row.protocol = "trojan" -> TrojanProxy(row)
      [] row.protocol = "shadowsocks" -> ShadowsocksProxy(row)

-----------------------------------------------------------------------------
(* The clients.                                                            *)

(* The value under a name, or what a client takes without one. *)
Read(fields, name, otherwise) ==
    IF \E field \in fields : field[1] = name THEN (CHOOSE field \in fields : field[1] = name)[2]
    ELSE otherwise

(* The websocket of v2ray-plugin, if there is one. *)
Websocket(options) ==
    [on |-> options # {}, tls |-> Read(options, "tls", FALSE),
     host |-> Read(options, "host", Blank), path |-> Read(options, "path", Blank)]

(* How a client that has the link connects. *)
ByLink(link) ==
    LET tls == Read(link, "security", "none") = "tls"
        ws == Read(link, "type", "tcp") = "ws" IN
    [to |-> <<Read(link, "scheme", Blank), Read(link, "server", Blank), Read(link, "port", Blank)>>,
     user |-> Read(link, "user", Blank),
     network |-> Read(link, "type", "tcp"),
     path |-> IF ws THEN Read(link, "path", RootPath) ELSE Blank,
     host |-> IF ws THEN Read(link, "host", Blank) ELSE Blank,
     service |-> Read(link, "serviceName", Blank),
     tls |-> tls, sni |-> Read(link, "sni", Blank), fp |-> Read(link, "fp", Blank),
     alpn |-> Read(link, "alpn", Blank), insecure |-> Read(link, "allowInsecure", Blank),
     plugin |-> Websocket(Read(link, "plugin", {}))]

(* How a Clash client connects. *)
ByClash(proxy) ==
    LET trojan == Read(proxy, "type", Blank) = "trojan" IN
    [to |-> <<Read(proxy, "type", Blank), Read(proxy, "server", Blank), Read(proxy, "port", Blank)>>,
     user |-> Read(proxy, "secret", Blank),
     network |-> Read(proxy, "network", "tcp"),
     path |-> Read(proxy, "ws-path", Blank), host |-> Read(proxy, "ws-host", Blank),
     service |-> Read(proxy, "grpc-service-name", Blank),
     tls |-> trojan \/ Read(proxy, "tls", FALSE),
     sni |-> Read(proxy, IF trojan THEN "sni" ELSE "servername", Blank),
     fp |-> Read(proxy, "client-fingerprint", Blank), alpn |-> Read(proxy, "alpn", Blank),
     insecure |-> Read(proxy, "skip-cert-verify", Blank),
     plugin |-> Websocket(Read(proxy, "plugin-opts", {}))]
=============================================================================
