------------------------------ MODULE MCLaunch ------------------------------
EXTENDS Launch

\* Two uplinks, a VPN whose adapter is called "Ethernet 2" (only its type
\* tells), our own tun still going away, and a disabled VPN adapter.
Metric(v4, v6) == [f \in {4, 6} |-> IF f = 4 THEN v4 ELSE v6]
eth  == [name |-> "eth",  up |-> TRUE,  physical |-> TRUE,  ours |-> FALSE, named |-> FALSE, iftype |-> FALSE, metric |-> Metric(1, 0)]
wifi == [name |-> "wifi", up |-> TRUE,  physical |-> TRUE,  ours |-> FALSE, named |-> FALSE, iftype |-> FALSE, metric |-> Metric(2, 2)]
vpn  == [name |-> "vpn",  up |-> TRUE,  physical |-> FALSE, ours |-> FALSE, named |-> FALSE, iftype |-> TRUE,  metric |-> Metric(1, 0)]
ours == [name |-> "ours", up |-> TRUE,  physical |-> FALSE, ours |-> TRUE,  named |-> TRUE,  iftype |-> TRUE,  metric |-> Metric(0, 0)]
down == [name |-> "down", up |-> FALSE, physical |-> FALSE, ours |-> FALSE, named |-> TRUE,  iftype |-> TRUE,  metric |-> Metric(0, 0)]
MCIfaces == {eth, wifi, vpn, ours, down}

row(i, f, d, o, m) == [iface |-> i, family |-> f, dest |-> d, ones |-> o, metric |-> m]

\* Defaults, halves and quarters at two metrics, a hand-written route that is
\* not a network address, and one route that saturates.
MCRows ==
    {row(eth, 4, 0, 0, 0), row(eth, 4, 0, 0, 1), row(eth, 6, 0, 0, 0), row(eth, 4, 0, 1, 0),
     row(wifi, 4, 0, 0, 0), row(wifi, 4, 2, 1, 0),
     row(ours, 4, 0, 0, 0), row(down, 4, 0, 0, 0),
     row(vpn, 6, 0, 0, 1), row(vpn, 4, 0, 0, 3), row(vpn, 4, 1, 1, 0)}
    \cup {row(vpn, 4, d, 1, m) : d \in {0, 2}, m \in {0, 2}}
    \cup {row(vpn, 4, d, 2, 0) : d \in 0..3}
=============================================================================
