----------------------------- MODULE MCFallback -----------------------------
EXTENDS Fallback
CONSTANTS n1, n2, n3

\* One node has the preferred protocol, two share one the preference does not name.
MCProtocol == n1 :> "trojan" @@ n2 :> "vless" @@ n3 :> "trojan"
MCOrder == <<"vless", "hysteria2", "amneziawg">>
=============================================================================
