---------------------------- MODULE ConfigBuild ----------------------------
(***************************************************************************)
(* Building the config of one connect attempt: the control layer names the *)
(* servers (core/control/connect.go), singbox.Build renders the selector   *)
(* and the blocks, and the rule-set files are looked up anew by each block *)
(* while an update, an antivirus or the user may touch them.               *)
(***************************************************************************)
EXTENDS RoutingOps, Selector

CONSTANTS
  Cases,          \* routing options, a profile's servers, rule-set files on disk
  MaxChanges      \* changes to the rule-set directory per behaviour

ASSUME ConfigAssumption ==
  /\ MaxChanges \in Nat
  /\ \A c \in Cases :
       /\ c.opts \in Options
       /\ c.servers \in Seq(Nodes)
       /\ c.present \subseteq RuleSets

VARIABLES
  opts,           \* the daemon's routing options
  servers,        \* the profile's servers
  present,        \* rule-set files readable now
  changes,        \* how often the directory changed
  pc,             \* where the attempt is
  chain,          \* the multihop choice: [on, entry, exit], server ids
  want,           \* the server this attempt is for
  selector,       \* what Build emitted, block by block
  dns, rules, sets

attemptVars == <<opts, servers, present, changes, pc, chain, want, selector, dns, rules, sets>>

NoBlock == [rules |-> << >>, final |-> ""]
NoChain == [on |-> FALSE, entry |-> 0, exit |-> 0]

AttemptInit ==
  /\ \E c \in Cases : opts = c.opts /\ servers = c.servers /\ present = c.present
  /\ changes = 0
  /\ pc = "idle"
  /\ chain = NoChain
  /\ want = 0
  /\ selector = NoSelector
  /\ dns = NoBlock /\ rules = NoBlock /\ sets = {}

TagOf(id) == LET tags == serverTags(servers)
             IN  IF id \in DOMAIN tags THEN tags[id] ELSE NoTag

validateMultihopProfile(c) ==
  c.on => /\ c.entry # c.exit
          /\ {c.entry, c.exit} \subseteq DOMAIN servers
          /\ validateMultihopOutbounds(buildNodes(servers).outs, TagOf(c.entry), TagOf(c.exit))

(***************************************************************************)
(* A connect to server id explicit, or 0 for any, under the chain c.       *)
(***************************************************************************)
Connect(explicit, c) ==
  /\ pc = "idle"
  /\ chain' = c
  /\ LET node == IF c.on THEN c.exit ELSE explicit
         cands == buildCandidates(servers, node)
     IN  \/ /\ validateMultihopProfile(c) /\ cands # {}
            /\ want' \in cands
            /\ pc' = "nodes"
         \/ /\ ~validateMultihopProfile(c) \/ cands = {}
            /\ want' = 0
            /\ pc' = "refused"
  /\ UNCHANGED <<opts, servers, present, changes, selector, dns, rules, sets>>

resolveMultihop(c) == [on |-> c.on, entry |-> TagOf(c.entry), exit |-> TagOf(c.exit)]

\* Build up to the selector: normalize, validate, render the nodes.
BuildOutbounds ==
  /\ pc = "nodes"
  /\ selector' = IF Validate(Normalize(opts))
                 THEN BuildSelector(IF opts.fragment THEN forceFragment(servers) ELSE servers,
                                    TagOf(want), resolveMultihop(chain))
                 ELSE NoSelector
  /\ pc' = IF selector'.ok THEN "dns" ELSE "failed"
  /\ UNCHANGED <<opts, servers, present, changes, chain, want, dns, rules, sets>>

BuildDNS ==
  /\ pc = "dns"
  /\ dns' = DNS(Normalize(opts), present)
  /\ pc' = "route"
  /\ UNCHANGED <<opts, servers, present, changes, chain, want, selector, rules, sets>>

routeBlock ==
  /\ pc = "route"
  /\ rules' = [rules |-> RouteRules(Normalize(opts), present),
               final |-> FinalOutbound(Normalize(opts))]
  /\ pc' = "sets"
  /\ UNCHANGED <<opts, servers, present, changes, chain, want, selector, dns, sets>>

BuildRuleSets ==
  /\ pc = "sets"
  /\ sets' = RouteRuleSets(Normalize(opts), present)
  /\ pc' = "done"
  /\ UNCHANGED <<opts, servers, present, changes, chain, want, selector, dns, rules>>

\* A file of the resources directory appears or disappears while the blocks
\* are being built; at any other time it is as good as another Init.
FilesChange ==
  /\ pc \in {"dns", "route", "sets"}
  /\ changes < MaxChanges
  /\ \E f \in RuleSets : present' = IF f \in present THEN present \ {f} ELSE present \cup {f}
  /\ changes' = changes + 1
  /\ UNCHANGED <<opts, servers, pc, chain, want, selector, dns, rules, sets>>

Chains == {NoChain} \cup [on : {TRUE}, entry : DOMAIN servers, exit : DOMAIN servers]

AttemptNext ==
  \/ \E explicit \in {0} \cup DOMAIN servers, c \in Chains : Connect(explicit, c)
  \/ BuildOutbounds \/ BuildDNS \/ routeBlock \/ BuildRuleSets
  \/ FilesChange

AttemptSpec == AttemptInit /\ [][AttemptNext]_attemptVars

-----------------------------------------------------------------------------
O == Normalize(opts)
Built == pc = "done"
Leaves(f) == FirstMatch(rules, f)
Resolver(f) == FirstMatch(dns, f)

(***************************************************************************)
(* A connection that goes through the tunnel never had its name looked up  *)
(* by the direct resolver.  Route rules and dns rules are two lists built  *)
(* by two functions (RouteRules, dnsRules); an application rule, a domain  *)
(* rule or a final in only one of them shows every site to the ISP.  Holds *)
(* for a config sing-box accepts, whatever single change of the rule-set   *)
(* files fell into its building.                                           *)
(***************************************************************************)
Loadable == Built /\ Referenced(dns) \cup Referenced(rules) \subseteq sets
NoDNSLeak ==
  Loadable /\ changes <= 1 =>
    \A f \in Flows : Leaves(f) = "proxy" => Resolver(f) # "dns-direct"

(***************************************************************************)
(* Under the kill switch a connection leaves outside the tunnel only by    *)
(* the user's own application lists, direct mode or the RU geo split: the  *)
(* same connection would go direct with every preset, pin, bypass and LAN  *)
(* exception switched off (directPinAllowed).  Files as they are.          *)
(***************************************************************************)
Stripped(o) == [o EXCEPT !.games = FALSE, !.voice = FALSE, !.lan = FALSE, !.zapret = FALSE,
                         !.direct = {}, !.presets = {}]
KillSwitchPins ==
  Built /\ changes = 0 /\ O.kill =>
    \A f \in Flows :
      Leaves(f) = "direct" =>
        FirstMatch([rules |-> RouteRules(Stripped(O), present), final |-> rules.final], f) = "direct"

(***************************************************************************)
(* With the blocked-services preset on, a service of the preset leaves the *)
(* tunnel only where the running bypass covers it, or by a rule of the     *)
(* user about the application, the domain or voice: never because its      *)
(* address happens to be Russian, and never because a bypass that does not *)
(* know the service is running (proxySuffixesWithPresets).                 *)
(***************************************************************************)
BlockedServicesCarried ==
  Built /\ O.unblock /\ O.mode # "direct" =>
    \A f \in Flows :
      f.domain \in blockedServiceSuffixes /\ Leaves(f) = "direct" =>
         \/ O.zapret /\ ~O.kill /\ coveredByZapret(coverage(O), f.domain)
         \/ ~O.kill /\ ((f.voice /\ O.voice) \/ coveredByZapret(O.direct, f.domain))
         \/ f.app \in O.apps /\ O.split = "exclude"
         \/ f.app \in gameProcesses /\ O.games /\ ~O.kill

\* Traffic leaves outside the tunnel only where the user's options mean it to.
DirectIsMeant == KillSwitchPins /\ BlockedServicesCarried

(***************************************************************************)
(* A config whose rules name a rule-set it does not define stops sing-box  *)
(* for every candidate.  dnsRules, RouteRules and RouteRuleSets each look  *)
(* at the directory for themselves: they agree unless it changed while the *)
(* config was being built.                                                 *)
(***************************************************************************)
RuleSetsDefined ==
  Built /\ changes = 0 => Loadable

(***************************************************************************)
(* A node that lacks something, or asks for what cannot be rendered, costs *)
(* the subscription nothing: sing-box can construct every object Build     *)
(* emits unless it is of a node whose credentials are there and malformed, *)
(* and every server the control layer may attempt is in the config.  The   *)
(* exception is the code's: validateNode does not decode a key, and one    *)
(* malformed key stops sing-box for every server (validateNode, tlsObject, *)
(* renderable).                                                            *)
(***************************************************************************)
BadNodesAreLeftOut ==
  selector.ok => /\ \A o \in selector.objects :
                      Decodes(o) \/ \E i \in DOMAIN servers : TagOf(i) = o.tag /\ ~WellFormed(servers[i])
                 /\ {o.tag : o \in selector.objects}
                      = {TagOf(i) : i \in buildCandidates(servers, 0)}

(***************************************************************************)
(* The tag the control layer hands to Build, computed by its own copy of   *)
(* the naming walk, leads to the server that was meant: the packets of the *)
(* attempt pass exactly the chosen servers, entry before exit under a      *)
(* chain.  A probe port is pinned to the server its binding names, under   *)
(* the tag the control layer uses for it: a verdict is never credited to a *)
(* namesake (serverTags, buildNodes, BuildProbe).                          *)
(***************************************************************************)
BuiltFrom(tag) == {s.index : s \in {t \in Range(buildNodes(servers).sel) : t.tag = tag}}
ProbesNameTheirServer ==
  \A base \in 0..MaxPort :
    LET bindings == BuildProbe(servers, base)
    IN  \A j, k \in DOMAIN bindings :
          /\ bindings[k].port \in 1..MaxPort
          /\ BuiltFrom(TagOf(bindings[k].index)) = BuiltFrom(bindings[k].tag)
          /\ bindings[j].port = bindings[k].port => j = k
RightExit ==
  /\ pc = "nodes" => ProbesNameTheirServer
  /\ selector.ok =>
       /\ [k \in DOMAIN Hops(selector) |-> BuiltFrom(Hops(selector)[k])]
            = IF chain.on THEN <<{chain.entry}, {chain.exit}>> ELSE <<{want}>>
       /\ selector.default \in Range(selector.members)

(***************************************************************************)
(* A built config works: sing-box accepts all of it, but for what a node   *)
(* misspells, and every server is reached by its own name and by nobody    *)
(* else's.                                                                 *)
(***************************************************************************)
ConfigWorks == RuleSetsDefined /\ BadNodesAreLeftOut /\ RightExit

=============================================================================
