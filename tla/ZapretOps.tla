----------------------------- MODULE ZapretOps -----------------------------
(***************************************************************************)
(* The pure decisions of the DPI bypass (core/zapret): which strategies a  *)
(* bundle offers, how a measured run is ranked, when it may stop early,    *)
(* which release is newer and which download may be unpacked.              *)
(*                                                                         *)
(* A strategy is its alphabetical rank, 0 being the one named "general".   *)
(* A version is a sequence of naturals, <<>> the missing stamp.            *)
(***************************************************************************)
EXTENDS Naturals, Sequences, FiniteSets, TLC, SequencesExt

\* Discover: the .bat files of a directory, without the bundle's own service
\* scripts and without dot-files, "general" first and the rest alphabetically.
Discover(files) ==
    SetToSortSeq({f.name : f \in {g \in files : g.kind = "bat"}}, <)

----------------------------------------------------------------------------
(* Ranking a measured run.  A result is [name, targets], a target is       *)
(* [ok, rtt].                                                              *)

\* Result.OKCount.
OKCount(r) == Cardinality({i \in DOMAIN r.targets : r.targets[i].ok})

\* The Unreachable score: above every round-trip (2^62 - 1 in the code, which
\* TLC's integers do not hold).
Unreachable == 2147483647

\* Result.Score: the lower median of the round-trips of the targets carried.
Score(r) ==
    LET rtts == SortSeq(SelectSeq([i \in DOMAIN r.targets |->
                            IF r.targets[i].ok THEN r.targets[i].rtt ELSE 0],
                        LAMBDA x : x > 0), <)
    IN  IF rtts = <<>> THEN Unreachable ELSE rtts[((Len(rtts) - 1) \div 2) + 1]

\* Rank: coverage first, then the score, then the order of measurement.
Rank(results) ==
    LET First(r) == CHOOSE i \in DOMAIN results :
                       /\ results[i].name = r.name
                       /\ \A j \in 1..(i - 1) : results[j].name # r.name
        Before(a, b) ==
            \/ OKCount(a) > OKCount(b)
            \/ OKCount(a) = OKCount(b) /\ Score(a) < Score(b)
            \/ /\ OKCount(a) = OKCount(b) /\ Score(a) = Score(b)
               /\ First(a) < First(b)
    IN  SortSeq(results, Before)

\* Best: the top of the ranking, provided it beats doing nothing.
NoResult == [name |-> 0, targets |-> <<>>]
Best(results, baseline) ==
    IF results # <<>> /\ OKCount(Rank(results)[1]) > baseline
    THEN [found |-> TRUE, best |-> Rank(results)[1]]
    ELSE [found |-> FALSE, best |-> NoResult]

\* ShouldStopEarly: full coverage, on a network where something is blocked.
ShouldStopEarly(r, targets, baseline) ==
    /\ targets > 0
    /\ baseline < targets
    /\ OKCount(r) >= targets

\* leadWith: the remembered strategy moved to the front, the others in order.
leadWith(strategies, first) ==
    IF \E i \in DOMAIN strategies : strategies[i] = first
    THEN <<first>> \o SelectSeq(strategies, LAMBDA s : s # first)
    ELSE strategies

----------------------------------------------------------------------------
(* Releases.                                                               *)

\* Newer: numeric, field by field, the shorter version padded with zeros.
Newer(local, remote) ==
    /\ remote # <<>>
    /\ \/ local = <<>>
       \/ LET Field(v, i) == IF i <= Len(v) THEN v[i] ELSE 0
              n == IF Len(local) > Len(remote) THEN Len(local) ELSE Len(remote)
          IN  \E i \in 1..n :
                 /\ Field(local, i) < Field(remote, i)
                 /\ \A j \in 1..(i - 1) : Field(local, j) = Field(remote, j)

\* checkArchiveURL: https, no userinfo, one of the release hosts.
checkArchiveURL(url) ==
    /\ url.scheme = "https"
    /\ ~url.user
    /\ url.host \in {"github.com", "objects.githubusercontent.com",
                     "release-assets.githubusercontent.com"}

\* expectedArchiveSum: the compiled-in checksum of that version; a release
\* that publishes another one is refused ("" is an unusable published sum).
expectedArchiveSum(rel, pinned) ==
    IF rel.version \notin DOMAIN pinned THEN "untrusted"
    ELSE IF rel.sum # "" /\ rel.sum # pinned[rel.version] THEN "integrity"
    ELSE pinned[rel.version]

\* LatestRelease: a published, sized .zip of a trusted address; a version with
\* no compiled-in checksum is still reported, so that the user hears of it.
LatestRelease(rel, pinned) ==
    /\ ~rel.draft
    /\ rel.version # <<>> /\ rel.zip
    /\ checkArchiveURL(rel.url)
    /\ rel.size > 0
    /\ expectedArchiveSum(rel, pinned) # "integrity"

\* Mutant: the length is compared and the checksum is not.
downloadSized(rel, pinned, maxBytes, got) ==
    /\ checkArchiveURL(rel.url)
    /\ rel.size > 0 /\ rel.size < maxBytes /\ got.size = rel.size

\* download and verifyArchive: what the bytes that arrived must be.
downloadAccepted(rel, pinned, maxBytes, got) ==
    /\ checkArchiveURL(rel.url)
    /\ expectedArchiveSum(rel, pinned) \notin {"untrusted", "integrity"}
    /\ rel.size > 0 /\ rel.size < maxBytes
    /\ \A hop \in got.redirects : checkArchiveURL(hop)
    /\ got.size > 0 /\ got.size < maxBytes
    /\ got.size = rel.size
    /\ got.sum = expectedArchiveSum(rel, pinned)
=============================================================================
