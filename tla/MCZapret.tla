------------------------------ MODULE MCZapret ------------------------------
(* The compiled-in bundle, a pinned release that adds a strategy, and one     *)
(* that is newer than the pins.                                             *)
EXTENDS Zapret

MCContent == (<<1>> :> {1}) @@ (<<2>> :> {0, 1}) @@ (<<3>> :> {0})
MCEmbedded == <<1>>
MCPinned == {<<1>>, <<2>>}
MCSum == (<<1>> :> "s1") @@ (<<2>> :> "s2") @@ (<<3>> :> "s3")
GitHub == [scheme |-> "https", user |-> FALSE, host |-> "github.com"]
Elsewhere == [scheme |-> "https", user |-> FALSE, host |-> "example.com"]
Published(v, sum) ==
    [version |-> v, sum |-> sum, url |-> GitHub, draft |-> FALSE, zip |-> TRUE, size |-> 1]
MCReleases == {Published(<<2>>, ""), Published(<<2>>, "s3"), Published(<<3>>, "s3")}
MCHosts == {Elsewhere}
MCArchives == {<<2>>}
=============================================================================
