----------------------------- MODULE MCSession -----------------------------
(* Session on small instances: the scenes of the two runs.                   *)
EXTENDS Session

CONSTANTS n1, n2, c1, c2

\* One user, two servers, nothing fails.
Plain == [clients |-> {c1}, nodes |-> {n1, n2}, commands |-> {"connect", "disconnect"},
          picks |-> {None}, flips |-> {}, chains |-> {}, backend |-> FALSE,
          healthWatch |-> FALSE, tunWatch |-> FALSE, guardFails |-> FALSE,
          proxyFails |-> FALSE, strategies |-> 1, events |-> 3]

\* Two clients connect to, refresh and remove the profile (which disconnects).
TwoClients == [Plain EXCEPT !.clients = {c1, c2},
    !.commands = {"connect", "remove_profile", "refresh"}]
\* Options and a multihop chain change while a connect runs.
OptionChanges == [Plain EXCEPT
    !.commands = {"connect", "set_multihop", "set_option"},
    !.flips = {"kill_switch", "tls_fragment"}, !.chains = {[entry |-> n1, exit |-> n2]}]
\* Persistent protection and the system proxy, every call failing.
Failures == [Plain EXCEPT !.commands = {"connect", "disconnect", "set_option"},
    !.nodes = {n1}, !.flips = {"kill_switch", "system_proxy"}, !.backend = TRUE,
    !.guardFails = TRUE, !.proxyFails = TRUE]
\* All watchers, live switches and failovers.
Watchers == [Plain EXCEPT !.picks = {None, n2}, !.healthWatch = TRUE,
    !.tunWatch = TRUE, !.backend = TRUE, !.events = 2]
\* One server, two strategies: every connect and every death settles.
Repair == [Plain EXCEPT !.nodes = {n1}, !.strategies = 2, !.events = 2]
\* Watchers that want connMu while a teardown waits for them.
Locks == [Plain EXCEPT !.commands = {"connect"}, !.picks = {n2}, !.healthWatch = TRUE,
    !.tunWatch = TRUE, !.events = 2]

SessionScenes == {TwoClients, OptionChanges, Failures, Watchers}
LiveScenes == {Repair, Locks}
=============================================================================
