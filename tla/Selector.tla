------------------------------ MODULE Selector ------------------------------
(***************************************************************************)
(* The selector of a built config: which servers become outbounds, under   *)
(* which tags, and which tag each part of the program uses for a server    *)
(* (core/singbox/builder.go and its mirror in core/control/daemon.go).     *)
(***************************************************************************)
EXTENDS Outbounds, FiniteSetsExt, SequencesExt

sanitizeTag(name) ==
  IF name = Blank THEN [Blank EXCEPT !.text = "node"]
  ELSE [name EXCEPT !.text = IF @ = "quote" THEN "-" ELSE @]

-----------------------------------------------------------------------------
(***************************************************************************)
(* Unique tags.  seen counts the uses of a tag; a taken base gets the next *)
(* number whose tag is free.  uniq is the tag, Take the new counts,        *)
(* GiveBack the counts once the tag is given back.                         *)
(***************************************************************************)
\* A Go map with one entry written.
Put(m, key, value) == [k \in DOMAIN m \cup {key} |-> IF k = key THEN value ELSE m[k]]

Numbered(base, k) == [base EXCEPT !.nums = Append(@, k)]
Count(seen, tag) == IF tag \in DOMAIN seen THEN seen[tag] ELSE 0
Suffix(seen, base) ==
  Min({k \in 1..(Cardinality(DOMAIN seen) + Count(seen, base) + 2) :
         k > Count(seen, base) /\ Count(seen, Numbered(base, k)) = 0})
uniq(seen, base) ==
  IF Count(seen, base) = 0 THEN base ELSE Numbered(base, Suffix(seen, base))
Take(seen, base) ==
  IF Count(seen, base) = 0 THEN Put(seen, base, 1)
  ELSE Put(Put(seen, base, Suffix(seen, base)), Numbered(base, Suffix(seen, base)), 1)
GiveBack(seen, tag) == [t \in DOMAIN seen \ {tag} |-> seen[t]]

(***************************************************************************)
(* The builder's walk over the nodes.  outs and endpoints hold what was    *)
(* rendered, sel the tags of the selectable nodes with their position.     *)
(***************************************************************************)
Walked == [seen |-> << >>, outs |-> << >>, endpoints |-> << >>, sel |-> << >>]
buildNode(w, n, i) ==
  LET base == sanitizeTag(n.name)
      tag == uniq(w.seen, base)
      taken == [w EXCEPT !.seen = Take(w.seen, base)]
      skipped == [taken EXCEPT !.seen = GiveBack(taken.seen, tag)]
      chosen == [taken EXCEPT !.sel = Append(@, [index |-> i, tag |-> tag])]
  IN  CASE n.protocol = "" -> w
        [] n.protocol # "" /\ ~validateNode(n) -> skipped
        [] validateNode(n) /\ n.protocol = "amneziawg" ->
             [chosen EXCEPT !.endpoints = Append(@, wireguardEndpoint(n, tag))]
        [] validateNode(n) /\ n.protocol \in Streams ->
             [chosen EXCEPT !.outs = Append(@, Outbound(n, tag))]
        [] OTHER -> skipped
buildNodes(nodes) ==
  LET walk[i \in 0..Len(nodes)] == IF i = 0 THEN Walked ELSE buildNode(walk[i - 1], nodes[i], i)
  IN  walk[Len(nodes)]

(***************************************************************************)
(* The control layer's own copy of the walk: the tag of each server id.    *)
(* A profile's servers have distinct ids, here their positions.            *)
(***************************************************************************)
\* Mutant: the copy forgets that invalid nodes give their tag back.
serverTagUnchecked(w, s, i) ==
  LET base == sanitizeTag(s.name)
      tag == uniq(w.seen, base)
      taken == Take(w.seen, base)
  IN  CASE s.protocol = "" -> w
        [] s.protocol # "" /\ ~knownProtocol(s.protocol) -> [w EXCEPT !.seen = GiveBack(taken, tag)]
        [] OTHER -> [w EXCEPT !.seen = taken, !.tags = Put(@, i, tag)]
serverTag(w, s, i) ==
  LET base == sanitizeTag(s.name)
      tag == uniq(w.seen, base)
      taken == Take(w.seen, base)
  IN  CASE s.protocol = "" -> w
        [] s.protocol # "" /\ (~validateNode(s) \/ ~knownProtocol(s.protocol)) ->
             [w EXCEPT !.seen = GiveBack(taken, tag)]
        [] OTHER -> [w EXCEPT !.seen = taken, !.tags = Put(@, i, tag)]
serverTags(servers) ==
  LET walk[i \in 0..Len(servers)] ==
        IF i = 0 THEN [seen |-> << >>, tags |-> << >>]
        ELSE serverTag(walk[i - 1], servers[i], i)
  IN  walk[Len(servers)].tags

renderable(s) == s.protocol # "" /\ knownProtocol(s.protocol) /\ validateNode(s)
buildCandidates(servers, explicit) ==
  {i \in DOMAIN servers : renderable(servers[i]) /\ (explicit # 0 => i = explicit)}

-----------------------------------------------------------------------------
(***************************************************************************)
(* The selector Build emits.  A chain that cannot be built is an error.    *)
(***************************************************************************)
NoTag == Blank
outboundByTag(outs, tag) == \E o \in Range(outs) : o.tag = tag
validateMultihopOutbounds(outs, entry, exit) ==
  /\ entry # NoTag /\ exit # NoTag /\ entry # exit
  /\ outboundByTag(outs, entry)
  /\ outboundByTag(outs, exit)

NoSelector == [ok |-> FALSE, objects |-> {}, members |-> << >>, default |-> NoTag, detour |-> << >>]
BuildSelector(nodes, selected, hop) ==
  LET built == buildNodes(nodes)
      objects == Range(built.outs) \cup Range(built.endpoints)
      tags == [k \in DOMAIN built.sel |-> built.sel[k].tag]
      def == IF selected \in Range(tags) THEN selected ELSE tags[1]
  IN  CASE tags = << >> -> NoSelector
        [] tags # << >> /\ hop.on /\ ~validateMultihopOutbounds(built.outs, hop.entry, hop.exit) ->
             NoSelector
        [] tags # << >> /\ ~hop.on ->
             [ok |-> TRUE, objects |-> objects, members |-> tags, default |-> def,
              detour |-> << >>]
        [] OTHER -> [ok |-> TRUE, objects |-> objects, members |-> <<hop.exit>>,
                     default |-> hop.exit, detour |-> [t \in {hop.exit} |-> hop.entry]]

\* Where traffic sent to the selector's default leaves from: the hops, in
\* the order a packet passes them.
Hops(s) == IF s.default \in DOMAIN s.detour THEN <<s.detour[s.default], s.default>>
           ELSE <<s.default>>

(***************************************************************************)
(* The probe config: one loopback port per selectable node.                *)
(***************************************************************************)
BuildProbe(nodes, basePort) ==
  LET sel == buildNodes(nodes).sel
  IN  IF basePort \in 1..MaxPort /\ sel # << >> /\ basePort + Len(sel) - 1 <= MaxPort
      THEN [k \in DOMAIN sel |->
              [port |-> basePort + k - 1, tag |-> sel[k].tag, index |-> sel[k].index]]
      ELSE << >>
=============================================================================
