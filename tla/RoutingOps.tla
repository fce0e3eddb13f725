----------------------------- MODULE RoutingOps -----------------------------
(***************************************************************************)
(* The routing options and the rules built from them (core/routing).       *)
(*                                                                         *)
(* A config carries two ordered rule lists, one for connections (the route *)
(* block) and one for lookups (the dns block); sing-box takes the first    *)
(* rule that matches and the block's final when none does.  Names are      *)
(* classes: an application is on the user's list, in the games preset, or  *)
(* neither; a domain is one of Domains.  Sets stand for the sorted and     *)
(* de-duplicated lists of the code, an empty string for a blank entry.     *)
(***************************************************************************)
EXTENDS Integers, Sequences, FiniteSets, FiniteSetsExt

Modes == {"smart", "global", "direct"}
Splits == {"off", "exclude", "include"}
Apps == {"listed", "game", "other"}
gameProcesses == {"game"}

(***************************************************************************)
(* "ru" and "gov" are in the RU geosite list, "bank" is a bank outside it. *)
(* "video" and "social" are services of the blocked-services preset;       *)
(* "music" is a subdomain of "video" the preset also names.                *)
(***************************************************************************)
Domains == {"ru", "gov", "bank", "video", "music", "social", "ads", "plain"}
Addresses == {"ru", "foreign", "private"}
blockedServiceSuffixes == {"video", "music", "social"}
defaultZapretCovered == {"video"}
presetRuSuffixes == {"bank", "gov"}
SuffixesOf(d) == IF d = "music" THEN {"music", "video"} ELSE {d}

\* A connection: who makes it, to which name and address, and whether it is
\* UDP in the voice port range.  A lookup is the same without its address.
Flows == [app : Apps, domain : Domains, ip : Addresses, voice : BOOLEAN]

\* Options as they reach the builder: any strings, any lists.
Options == [mode : STRING, split : STRING, apps : SUBSET STRING, kill : BOOLEAN, lan : BOOLEAN,
            zapret : BOOLEAN, covered : SUBSET STRING, unblock : BOOLEAN, games : BOOLEAN,
            voice : BOOLEAN, adblock : BOOLEAN, direct : SUBSET STRING, proxy : SUBSET STRING,
            presets : SUBSET presetRuSuffixes, fragment : BOOLEAN]

(***************************************************************************)
(* Options after Normalize.  An unknown mode is smart, an unknown split    *)
(* off; blank list entries disappear, an empty list leaves the split mode  *)
(* as the user chose it.                                                   *)
(***************************************************************************)
normalizeApps(apps) == apps \ {""}
normalizeSuffixes(suffixes) == suffixes \ {""}
Normalize(o) ==
  [o EXCEPT !.mode = IF @ \in Modes THEN @ ELSE "smart",
            !.split = IF @ \in Splits THEN @ ELSE "off",
            !.apps = normalizeApps(@),
            !.direct = normalizeSuffixes(@),
            !.proxy = normalizeSuffixes(@),
            !.covered = normalizeSuffixes(@)]

ValidDomainSuffix(s) == s \in Domains
Validate(o) == /\ o.mode \in Modes
               /\ o.split \in Splits
               /\ \A s \in o.direct \cup o.proxy : ValidDomainSuffix(s)

-----------------------------------------------------------------------------
(***************************************************************************)
(* The bundled rule-set files; present is the set of those readable now.   *)
(***************************************************************************)
RuleSets == {"geoip-ru", "geosite-ru", "geosite-ads"}
ruleSetFilePresent(present, name) == name \in present
geoRuleSetsReady(present) ==
  ruleSetFilePresent(present, "geoip-ru") /\ ruleSetFilePresent(present, "geosite-ru")
smartGeoActive(o, present) == o.mode = "smart" /\ geoRuleSetsReady(present)
adBlockActive(o, present) == o.adblock /\ ruleSetFilePresent(present, "geosite-ads")

\* Every rule that takes traffic out of the tunnel asks this first.
directPinAllowed(o) == o.mode # "direct" /\ ~o.kill
rulesActive(o) == o.mode # "direct"
gamesDirectActive(o) == o.games /\ directPinAllowed(o)
voiceDirectActive(o) == o.voice /\ directPinAllowed(o)
lanBypassActive(o) == o.lan /\ directPinAllowed(o)
unblockActive(o) == o.unblock /\ o.mode # "direct"

splitAppsWithPresets(o) ==
  IF gamesDirectActive(o) THEN normalizeApps(o.apps \cup gameProcesses) ELSE o.apps
directSplitApps(o) ==
  CASE o.split = "include" -> {}
    [] o.split = "exclude" -> splitAppsWithPresets(o)
    [] OTHER -> IF gamesDirectActive(o) THEN normalizeApps(gameProcesses) ELSE {}

directRuleSuffixes(o) ==
  IF directPinAllowed(o) THEN normalizeSuffixes(o.direct \cup o.presets) ELSE {}
proxyRuleSuffixes(o) == IF rulesActive(o) THEN normalizeSuffixes(o.proxy) ELSE {}

coverage(o) == IF o.covered # {} THEN o.covered ELSE defaultZapretCovered
coveredByZapret(covered, d) == SuffixesOf(d) \cap covered # {}
\* Mutant: the bypass pins its services direct whatever the kill switch says.
zapretDirectUngated(o) ==
  IF o.zapret /\ o.mode # "direct"
  THEN {s \in blockedServiceSuffixes : coveredByZapret(coverage(o), s)}
  ELSE {}
zapretDirectSuffixes(o) ==
  IF o.zapret /\ directPinAllowed(o)
  THEN {s \in blockedServiceSuffixes : coveredByZapret(coverage(o), s)}
  ELSE {}
proxySuffixesWithPresets(o) ==
  IF unblockActive(o)
  THEN proxyRuleSuffixes(o) \cup
       {s \in blockedServiceSuffixes : ~coveredByZapret(zapretDirectSuffixes(o), s)}
  ELSE proxyRuleSuffixes(o)

-----------------------------------------------------------------------------
(***************************************************************************)
(* Rule lists.  emit(c, r) is the rule r where the code appends it under   *)
(* the condition c.                                                        *)
(***************************************************************************)
emit(cond, rule) == IF cond THEN <<rule>> ELSE << >>
route(by, of, to) == [by |-> by, of |-> of, to |-> to]

includeOnly(o) == o.split = "include" /\ o.apps # {}

RouteRules(o, present) ==
     emit(includeOnly(o), route("app", o.apps, "proxy"))
  \o emit(directSplitApps(o) # {}, route("app", directSplitApps(o), "direct"))
  \o emit(voiceDirectActive(o), route("voice", {}, "direct"))
  \o emit(directRuleSuffixes(o) # {}, route("domain", directRuleSuffixes(o), "direct"))
  \o emit(zapretDirectSuffixes(o) # {}, route("domain", zapretDirectSuffixes(o), "direct"))
  \o emit(proxySuffixesWithPresets(o) # {},
          route("domain", proxySuffixesWithPresets(o), "proxy"))
  \o emit(~includeOnly(o) /\ smartGeoActive(o, present),
          route("rule_set", {"geoip-ru", "geosite-ru"}, "direct"))
  \o emit(lanBypassActive(o), route("private", {}, "direct"))

FinalOutbound(o) == IF includeOnly(o) \/ o.mode = "direct" THEN "direct" ELSE "proxy"

RouteRuleSets(o, present) ==
  (IF smartGeoActive(o, present) THEN {"geoip-ru", "geosite-ru"} ELSE {})
    \cup (IF adBlockActive(o, present) THEN {"geosite-ads"} ELSE {})

dnsRejectRule(set) == route("rule_set", {set}, "reject")
\* Mutant: the tunnelled applications of an include list are not mirrored.
dnsRulesNoInclude(o, present) ==
     emit(adBlockActive(o, present), dnsRejectRule("geosite-ads"))
  \o emit(directSplitApps(o) # {}, route("app", directSplitApps(o), "dns-direct"))
  \o emit(proxySuffixesWithPresets(o) # {},
          route("domain", proxySuffixesWithPresets(o), "dns-remote"))
  \o emit(smartGeoActive(o, present), route("rule_set", {"geosite-ru"}, "dns-direct"))
dnsRules(o, present) ==
     emit(adBlockActive(o, present), dnsRejectRule("geosite-ads"))
  \o emit(includeOnly(o), route("app", o.apps, "dns-remote"))
  \o emit(directSplitApps(o) # {}, route("app", directSplitApps(o), "dns-direct"))
  \o emit(directRuleSuffixes(o) # {}, route("domain", directRuleSuffixes(o), "dns-direct"))
  \o emit(zapretDirectSuffixes(o) # {},
          route("domain", zapretDirectSuffixes(o), "dns-direct"))
  \o emit(proxySuffixesWithPresets(o) # {},
          route("domain", proxySuffixesWithPresets(o), "dns-remote"))
  \o emit(smartGeoActive(o, present), route("rule_set", {"geosite-ru"}, "dns-direct"))

dnsFinal(o) == IF o.mode = "direct" THEN "dns-direct" ELSE "dns-remote"
DNS(o, present) == [rules |-> dnsRules(o, present), final |-> dnsFinal(o)]

-----------------------------------------------------------------------------
(***************************************************************************)
(* How sing-box reads a rule list (external): the first match decides.  A  *)
(* rule naming several rule-sets matches if any of them does.              *)
(***************************************************************************)
InRuleSet(set, f) == CASE set = "geoip-ru" -> f.ip = "ru"
                       [] set = "geosite-ru" -> f.domain \in {"ru", "gov"}
                       [] set = "geosite-ads" -> f.domain = "ads"
Matches(r, f) == CASE r.by = "app" -> f.app \in r.of
                   [] r.by = "domain" -> SuffixesOf(f.domain) \cap r.of # {}
                   [] r.by = "voice" -> f.voice
                   [] r.by = "private" -> f.ip = "private"
                   [] r.by = "rule_set" -> \E s \in r.of : InRuleSet(s, f)
FirstMatch(block, f) ==
  LET hits == {i \in DOMAIN block.rules : Matches(block.rules[i], f)}
  IN  IF hits = {} THEN block.final ELSE block.rules[Min(hits)].to
Referenced(block) ==
  UNION {block.rules[i].of : i \in {j \in DOMAIN block.rules : block.rules[j].by = "rule_set"}}
=============================================================================
