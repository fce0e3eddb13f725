--------------------------- MODULE MCConfigBuild ---------------------------
(* ConfigBuild for TLC: either the options vary over one small profile, or *)
(* the profile varies under the default options.                           *)
EXTENDS ConfigBuild

CONSTANTS MaxSet,      \* how many options differ from the defaults at once
          MaxServers   \* the longest server list

Default == [mode |-> "smart", split |-> "off", apps |-> {}, kill |-> FALSE, lan |-> FALSE,
            zapret |-> FALSE, covered |-> {}, unblock |-> FALSE, games |-> FALSE,
            voice |-> FALSE, adblock |-> FALSE, direct |-> {}, proxy |-> {}, presets |-> {},
            fragment |-> FALSE]

Fields == [mode : {"smart", "global", "direct"}, split : {"off", "exclude", "include"},
           apps : {{}, {"listed"}, {""}, {"game"}}, kill : BOOLEAN, lan : BOOLEAN,
           zapret : BOOLEAN, covered : {{}, {"music"}, {"social", ""}}, unblock : BOOLEAN,
           games : BOOLEAN, voice : BOOLEAN, adblock : BOOLEAN,
           direct : {{}, {"plain"}, {"video"}},
           proxy : {{}, {"ru"}, {"music", ""}, {"bad suffix"}}, presets : {{}, presetRuSuffixes},
           fragment : BOOLEAN]

OptionSets == {o \in Fields : Cardinality({f \in DOMAIN o : o[f] # Default[f]}) <= MaxSet}

A == [text |-> "a", nums |-> << >>]
Good == [name |-> A, protocol |-> "vless", port |-> 1, credentials |-> "good",
         plugin |-> FALSE, tls |-> NoTLS, transport |-> ""]

\* Names that collide once sanitized or suffixed, over nodes of every fate.
Named == {[Good EXCEPT !.protocol = p] : p \in {"vless", "amneziawg", "odd", ""}}
           \cup {[Good EXCEPT !.name = n, !.port = q] : n \in {A, Numbered(A, 2)}, q \in 0..1}
           \cup {[Good EXCEPT !.name = n, !.protocol = "amneziawg"] : n \in [text : {"quote", "-"}, nums : {<< >>}]}
Lists == UNION {[1..n -> Named] : n \in 1..MaxServers}

\* Every node, next to a good one.
AnyNode == {n \in [name : {Blank}, protocol : Protocols, port : {0, MaxPort, MaxPort + 1},
               credentials : Credentials, plugin : BOOLEAN, tls : TLSBlocks, transport : Transports] :
          /\ ~n.tls.fragment
          /\ n.plugin => n.protocol = "shadowsocks"
          /\ n.port # MaxPort \/ n.credentials # "good" => n.tls \in {NoTLS, PlainTLS}}
Pair == <<[Good EXCEPT !.name = Blank],
          [Good EXCEPT !.name = [Blank EXCEPT !.text = "node"], !.protocol = "odd", !.credentials = "absent"]>>
Profiles == Lists \cup {<<n, Good>> : n \in AnyNode}

MCCases == [opts : OptionSets, servers : {Pair},
            present : {RuleSets, {}, {"geoip-ru", "geosite-ads"}}]
             \cup [opts : {[Default EXCEPT !.fragment = TRUE]}, servers : Profiles, present : {{}}]

=============================================================================
