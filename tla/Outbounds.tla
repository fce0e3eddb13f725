----------------------------- MODULE Outbounds -----------------------------
(***************************************************************************)
(* How one node of a subscription becomes an outbound or an endpoint of    *)
(* the sing-box config (core/singbox/outbound.go, wireguard.go and         *)
(* validateNode in builder.go).                                            *)
(*                                                                         *)
(* A node has a protocol ("odd" is one this build cannot render, "" none   *)
(* at all), a port, the credentials its protocol needs, whether it asks    *)
(* for a plugin, a TLS block and a stream transport.  Credentials that are *)
(* there can be malformed: a key that is no key, a method, a flow or a     *)
(* fingerprint sing-box does not know.  A node without a TLS block is one  *)
(* whose block is off and says nothing.                                    *)
(***************************************************************************)
EXTENDS Integers, Sequences, FiniteSets

CONSTANTS MaxPort,     \* the largest port number of the instance
          Texts        \* what a name may say before its numbers

ASSUME PortAssumption == MaxPort \in Nat \ {0}
ASSUME TextAssumption == {"", "-", "node"} \subseteq Texts

Streams == {"vless", "vmess", "trojan", "hysteria2", "shadowsocks"}
Protocols == Streams \cup {"amneziawg", "odd", ""}
knownProtocol(p) == p \in Streams \cup {"amneziawg"}
NativeTransports == {"", "ws", "grpc", "http", "httpupgrade"}
Transports == NativeTransports \cup {"quic", "kcp"}
TLSBlocks == [on : BOOLEAN, reality : {"none", "keyless", "malformed", "keyed"}, utls : BOOLEAN,
              fragment : BOOLEAN]
NoTLS == [on |-> FALSE, reality |-> "none", utls |-> FALSE, fragment |-> FALSE]
PlainTLS == [NoTLS EXCEPT !.on = TRUE]

\* A name or tag is a text and the numbers behind it: [text |-> "a", nums |->
\* <<2>>] is "a-2", Blank the empty string.
Names == [text : Texts, nums : Seq(Nat)]
Blank == [text |-> "", nums |-> << >>]

Credentials == {"absent", "malformed", "good"}
Nodes == [name : Names, protocol : Protocols, port : Nat, credentials : Credentials,
          plugin : BOOLEAN, tls : TLSBlocks, transport : Transports]

\* What a node says of its keys is what sing-box decodes.
WellFormed(n) == n.credentials # "malformed" /\ n.tls.reality # "malformed"

\* Of credentials, and of a REALITY key, only that they are there.
validateNode(n) ==
  /\ n.port \in 1..MaxPort
  /\ n.tls.reality # "keyless"
  /\ \/ n.transport \in NativeTransports
     \/ n.transport = "quic" /\ (n.protocol \in {"vless", "vmess"} => n.tls.on)
  /\ knownProtocol(n.protocol) => n.credentials # "absent"
  /\ n.protocol = "shadowsocks" => ~n.plugin

\* REALITY brings its own uTLS fingerprint when the node names none.
tlsObject(t) == IF t.on THEN [t EXCEPT !.utls = t.utls \/ t.reality # "none"] ELSE NoTLS
transportObject(tr) == tr

Outbound(n, tag) ==
  [tag |-> tag, type |-> n.protocol, credentials |-> n.credentials,
   tls |-> CASE n.protocol = "shadowsocks" -> NoTLS
             [] n.protocol \in {"vless", "vmess"} -> tlsObject(n.tls)
             [] OTHER -> IF n.tls.on THEN tlsObject(n.tls) ELSE PlainTLS,
   transport |-> IF n.protocol \in {"vless", "vmess", "trojan"}
                 THEN transportObject(n.transport) ELSE ""]
wireguardEndpoint(n, tag) ==
  [tag |-> tag, type |-> "wireguard", credentials |-> n.credentials, tls |-> NoTLS, transport |-> ""]

\* The global switch; an absent or disabled block is never emitted, so only
\* nodes with TLS are affected by it.
forceFragment(nodes) == [i \in DOMAIN nodes |-> [nodes[i] EXCEPT !.tls.fragment = TRUE]]

(***************************************************************************)
(* What the bundled sing-box accepts (external): it refuses the whole      *)
(* config for one object it cannot construct.                              *)
(***************************************************************************)
Decodes(o) ==
  /\ o.credentials # "malformed"
  /\ o.tls.reality # "none" => o.tls.reality = "keyed" /\ o.tls.utls
  /\ o.type \in {"trojan", "hysteria2"} => o.tls.on
  /\ o.transport # "kcp"
  /\ o.transport = "quic" => o.tls.on
=============================================================================
