---------------------------- MODULE Observation ----------------------------
(***************************************************************************)
(* Looking things up: the observation gateway and its four backends         *)
(* (tools/gateway/gateway.py, tools/observation), and what the evidence      *)
(* layer concludes from the records (tools/evidence).  Calls follow one      *)
(* another, as the router and the Intelligence stage make them.  A call that *)
(* fails leaves no record, so most failures are steps that change nothing;   *)
(* backend health is left out, since a DEGRADED backend is still dispatched  *)
(* to and every capability has exactly one.                                  *)
(***************************************************************************)
EXTENDS Integers, Sequences, FiniteSets

CONSTANTS
  Pages,            \* pages of the web
  Kind,             \* [Pages -> {"web", "video", "hacker_news", "reddit"}]
  Mentions,         \* [Pages -> SUBSET of what a page says of the subject]
  AllowedPages,     \* pages within the request's allowed_domains
  Requested,        \* requested_source_families
  MaxRedirects,     \* HttpStaticBackend.max_redirects
  MaxObservations   \* bound: records of one piece of research

ASSUME ObservationAssumption ==
  /\ AllowedPages \subseteq Pages /\ MaxRedirects \in Nat /\ MaxObservations \in Nat
  /\ Kind \in [Pages -> {"web", "video", "hacker_news", "reddit"}]
  /\ Mentions \in [Pages -> SUBSET {"domain", "name", "alias", "category", "hardware", "devlog"}]

VARIABLES
  subject,   \* how much of the subject's identity is given
  fetch,     \* the HTTP observation under way: its GETs in order
  observed,  \* ObservationRecords
  bundle     \* the validated evidence and the grounding made of it

observationVars == <<subject, fetch, observed, bundle>>

\* A subject with a canonical name and a brand, without the one (UNNAMED) or the
\* other (UNBRANDED) but with some anchor, or with ids only; the GETs of a page
\* that is being fetched, a record (its evidence item is made of nothing else)
\* and a bundle with what grounding made of it.
SubjectIdentities == {"IDENTIFIED", "UNNAMED", "UNBRANDED", "NAMELESS"}
PageFetches == [cap : {"none", "read_page", "analyze_url", "read_forum_thread"},
                gets : Seq(Pages), product : {"own", "other", "none"}]
ObservationRecords ==
  [cap : {"search_web", "read_page", "analyze_url", "youtube_metadata", "read_transcript",
          "read_forum_thread", "search_public_discussions"},
   source : Pages \cup {"query", "threads", "none"}, product : {"own", "other"}]
IsGrounding(b) ==
  /\ DOMAIN b = {"items", "disputed", "coverage", "coherence", "gaps", "dimensions", "settled"}
  /\ b.items \subseteq DOMAIN observed /\ b.settled \cup b.disputed \subseteq b.items
  /\ {b.coverage, b.coherence} \subseteq {"PASS", "PARTIAL", "FAIL"}

NoFetch == [cap |-> "none", gets |-> <<>>, product |-> "none"]
NoBundle == [items |-> {}]
Products == {"own", "other"}
Query == "query"     \* a search record's source is its own query
Threads == "threads" \* a discussion search whose hits speak of hardware
Nowhere == "none"    \* a search nobody had results for

ObservationInit ==
  /\ subject \in SubjectIdentities /\ fetch = NoFetch
  /\ observed = <<>> /\ bundle = NoBundle

-----------------------------------------------------------------------------
(* The tools.                                                               *)

\* The gateway takes the next call and the record will fit the instance.
Dispatches == fetch = NoFetch /\ bundle = NoBundle /\ Len(observed) < MaxObservations

Record(cap, source, product) ==
  observed' = Append(observed, [cap |-> cap, source |-> source, product |-> product])

Observe(cap, source, product) ==
  Dispatches /\ Record(cap, source, product) /\ UNCHANGED <<subject, fetch, bundle>>

Chains == {<<"duckduckgo", "searxng">>, <<"searxng", "duckduckgo">>,
           <<"wikipedia", "duckduckgo", "searxng">>}

\* What an HTTP endpoint gives: results or none, status 429 or another refusal, a body
\* that is no JSON or an object without results, or nothing at all.
Replies == {"hits", "nothing", "limited", "refused", "noise", "misshapen", "silence"}

\* What each backend makes of it.  DuckDuckGo parses HTML, so that it finds no results
\* in any odd body; Wikipedia retries neither a rate limit nor a malformed array.
SearXNG == [hits |-> "HITS", nothing |-> "EMPTY", limited |-> "RETRYABLE",
            refused |-> "FATAL", noise |-> "RETRYABLE", misshapen |-> "EMPTY",
            silence |-> "RETRYABLE"]
DuckDuckGo == [SearXNG EXCEPT !["noise"] = "EMPTY"]
Wikipedia == [SearXNG EXCEPT !["limited"] = "FATAL", !["misshapen"] = "FATAL"]
HackerNews == SearXNG
Reddit == SearXNG

BackendAnswers == [searxng |-> SearXNG, duckduckgo |-> DuckDuckGo, wikipedia |-> Wikipedia,
                   hacker_news |-> HackerNews, reddit |-> Reddit]

\* The first backend with results wins; without any, only a last error that
\* cannot be retried is reported, everything else is an empty result.
SearchSource(chain, answer) ==
  LET hit == {i \in DOMAIN chain : answer[i] = "HITS"}
      err == {i \in DOMAIN chain : answer[i] \in {"RETRYABLE", "FATAL"}}
      last == CHOOSE i \in err : \A j \in err : j <= i
  IN  IF hit # {} THEN Query
      ELSE IF err # {} /\ answer[last] = "FATAL" THEN "error" ELSE Nowhere

\* What searching along a chain may come to.
Searched ==
  UNION {{SearchSource(chain, [i \in DOMAIN chain |-> BackendAnswers[chain[i]][reply[i]]]) :
            reply \in [DOMAIN chain -> Replies]} : chain \in Chains}

SearchWeb(product) ==
  \E source \in Searched \ {"error"} : Observe("search_web", source, product)

VideoMetadata(p, product) == Kind[p] = "video" /\ Observe("youtube_metadata", p, product)
\* Any track will do, preferred languages and manual subtitles first.
ReadTranscript(p, product) == Kind[p] = "video" /\ Observe("read_transcript", p, product)

HackerNewsThread(p, product) ==
  Kind[p] = "hacker_news" /\ Observe("read_forum_thread", p, product)
RedditThread(p, product) ==
  Kind[p] = "reddit" /\ Observe("read_forum_thread", p, product)

\* A search that finds no thread is recorded like any other.
SearchDiscussions(product) ==
  \E platform \in {"hacker_news", "reddit"}, reply \in Replies :
    LET answer == BackendAnswers[platform][reply]
    IN  /\ answer \in {"HITS", "EMPTY"}
        /\ \E source \in IF answer = "HITS" THEN {Query, Threads} ELSE {Nowhere} :
             Observe("search_public_discussions", source, product)

\* validate_url; a forum read passes no allowed_domains on.
Admitted(cap) == IF cap = "read_forum_thread" THEN Pages ELSE AllowedPages

\* Forums no platform handler knows are read as pages.
WebForum(p) == Kind[p] \notin {"hacker_news", "reddit"}

StartFetch(p, product) ==
  /\ Dispatches
  /\ \E cap \in {"read_page", "analyze_url"} \cup
                (IF WebForum(p) THEN {"read_forum_thread"} ELSE {}) :
       /\ p \in Admitted(cap)
       /\ fetch' = [cap |-> cap, gets |-> <<p>>, product |-> product]
  /\ UNCHANGED <<subject, observed, bundle>>

Visited(gets) == {gets[i] : i \in DOMAIN gets}

Redirected(target) ==
  /\ fetch # NoFetch
  /\ fetch' = IF /\ Len(fetch.gets) <= MaxRedirects
                 /\ target \notin Visited(fetch.gets)
                 /\ target \in Admitted(fetch.cap)
                THEN [fetch EXCEPT !.gets = Append(@, target)] ELSE NoFetch
  /\ UNCHANGED <<subject, observed, bundle>>

\* A name that no longer resolves to public addresses, a timeout, a refused
\* connection, a status, content type or size that is not accepted.
FetchFails == fetch # NoFetch /\ fetch' = NoFetch /\ UNCHANGED <<subject, observed, bundle>>

\* A page's record names its last hop, a thread's the URL that was asked for.
Fetched ==
  /\ fetch # NoFetch
  /\ Record(fetch.cap,
            fetch.gets[IF fetch.cap = "read_forum_thread" THEN 1 ELSE Len(fetch.gets)],
            fetch.product)
  /\ fetch' = NoFetch /\ UNCHANGED <<subject, bundle>>

-----------------------------------------------------------------------------
(* What a record is evidence of.                                            *)

Discussions == {"read_forum_thread", "search_public_discussions"}
Videos == {"youtube_metadata", "read_transcript"}

Role(o) ==
  CASE o.cap = "search_web" -> "DISCOVERY"
    [] o.cap = "read_page" -> "FETCHED_SOURCE_CONTENT"
    [] o.cap = "analyze_url" -> "METADATA"
    [] o.cap = "youtube_metadata" -> "PLATFORM_REPORTED_METRIC"
    [] o.cap = "read_transcript" -> "TRANSCRIPT"
    [] OTHER -> "USER_GENERATED_CONTENT"

Family(o) ==
  CASE o.cap = "search_web" -> "SEARCH_DISCOVERY"
    [] o.cap \in Videos -> "VIDEO"
    [] o.cap \in Discussions -> "COMMUNITY"
    [] OTHER -> IF subject # "NAMELESS" /\ "domain" \in Mentions[o.source]
                  THEN "FIRST_PARTY_WEB" ELSE "SECONDARY_WEB"

\* What the matched fields hold: a search's URL repeats the query and so the
\* subject's name, whatever was found; of a page's metadata only the address is
\* looked at; an unverified alias or a category term matches nothing that counts.
Fields(o) ==
  IF o.source \notin Pages THEN {"name"}
  ELSE Mentions[o.source] \cap
         (IF o.cap = "analyze_url" THEN {"domain"} ELSE {"domain", "name", "alias"})

\* Any one anchor makes an identity; the pattern of an empty canonical name or
\* brand, two word boundaries with nothing between, matches every address.
Relevance(o) ==
  IF subject = "NAMELESS" THEN "UNKNOWN"
  ELSE IF subject = "UNNAMED" \/ Fields(o) \cap {"domain", "name"} # {} THEN "RELEVANT"
  ELSE IF subject = "UNBRANDED" \/ "alias" \in Fields(o) THEN "LIKELY_RELEVANT"
  ELSE "IRRELEVANT"

\* Mutant: whatever was not rejected counts.
EligibleUnlessRejected(o) == Relevance(o) # "IRRELEVANT"
Eligible(o) == Relevance(o) \in {"RELEVANT", "LIKELY_RELEVANT"}

Dimensions == {"MARKET_POSITIONING", "DEVELOPER_RECEPTION", "OPERATIONAL_FRICTION"}

\* What a record's content speaks of.
Speaks(o) ==
  IF o.source \in Pages THEN Mentions[o.source]
  ELSE IF o.source = Threads THEN {"hardware"} ELSE {}

Suits(o, dim) ==
  CASE dim = "MARKET_POSITIONING" -> Role(o) \in {"FETCHED_SOURCE_CONTENT", "METADATA"}
    [] dim = "DEVELOPER_RECEPTION" -> Role(o) = "USER_GENERATED_CONTENT"
    [] OTHER -> \/ Role(o) = "USER_GENERATED_CONTENT" /\ "hardware" \in Speaks(o)
                \/ Role(o) = "FETCHED_SOURCE_CONTENT" /\ "devlog" \in Speaks(o)

Support(items, dim) == {i \in items : Eligible(observed[i]) /\ Suits(observed[i], dim)}

DimensionCoverage(n) == IF n >= 2 THEN "SUPPORTED" ELSE IF n = 1 THEN "PARTIAL" ELSE "UNSUPPORTED"

Collected(items) ==
  {Family(observed[i]) : i \in {j \in items : Eligible(observed[j])}}

Coverage(items) ==
  IF Requested \subseteq Collected(items) THEN "PASS"
  ELSE IF Collected(items) # {} THEN "PARTIAL" ELSE "FAIL"

\* EvidenceBundleSemanticValidator.validate and, from the unsupported
\* dimensions, GapTracker.detect_gaps.
Coherence(items) ==
  LET some(status) == \E i \in items : Relevance(observed[i]) = status
  IN  IF Coverage(items) = "PASS"
        THEN IF some("IRRELEVANT") \/ some("UNKNOWN") THEN "PARTIAL" ELSE "PASS"
      ELSE IF Coverage(items) = "PARTIAL" \/ (some("UNKNOWN") /\ ~some("IRRELEVANT"))
        THEN "PARTIAL" ELSE "FAIL"
Gaps(items) == {dim \in Dimensions : Support(items, dim) = {}}

\* Facts stated as known leave out the items of unresolved conflicts.
Settled(items, disputed) == {i \in items \ disputed : Eligible(observed[i])}

Grounding(items, disputed) ==
  [items |-> items, disputed |-> disputed,
   coverage |-> Coverage(items), coherence |-> Coherence(items), gaps |-> Gaps(items),
   dimensions |-> [dim \in Dimensions |-> DimensionCoverage(Cardinality(Support(items, dim)))],
   settled |-> Settled(items, disputed)]

\* assemble_bundle raises for an item of another product.
OneProduct(items) == Cardinality({observed[i].product : i \in items}) = 1

\* The Intelligence stage: the search record alone, no names to match.
GroundSearch ==
  /\ fetch = NoFetch /\ bundle = NoBundle /\ subject = "NAMELESS"
  /\ \E i \in DOMAIN observed :
       observed[i].cap = "search_web" /\ bundle' = Grounding({i}, {})
  /\ UNCHANGED <<subject, fetch, observed>>

\* A research run: what names the subject, and a conflict its author records.
GroundResearch ==
  /\ fetch = NoFetch /\ bundle = NoBundle /\ subject # "NAMELESS"
  /\ LET admitted == {i \in DOMAIN observed : Eligible(observed[i])}
         told == {i \in admitted : Role(observed[i]) \in
                    {"FETCHED_SOURCE_CONTENT", "USER_GENERATED_CONTENT"}}
     IN  /\ admitted # {} /\ OneProduct(admitted)
         /\ \E disputed \in SUBSET told :
              Cardinality(disputed) <= 2 /\ bundle' = Grounding(admitted, disputed)
  /\ UNCHANGED <<subject, fetch, observed>>

ObservationNext ==
  \/ \E product \in Products :
       \/ SearchWeb(product) \/ SearchDiscussions(product)
       \/ \E p \in Pages : \/ VideoMetadata(p, product) \/ ReadTranscript(p, product)
                           \/ HackerNewsThread(p, product) \/ RedditThread(p, product)
                           \/ StartFetch(p, product)
  \/ \E p \in Pages : Redirected(p)
  \/ FetchFails \/ Fetched \/ GroundSearch \/ GroundResearch

ObservationSpec == ObservationInit /\ [][ObservationNext]_observationVars

-----------------------------------------------------------------------------
(* Properties.                                                              *)

ObservationTypeOK ==
  /\ subject \in SubjectIdentities /\ fetch \in PageFetches
  /\ \A i \in DOMAIN observed : observed[i] \in ObservationRecords
  /\ bundle = NoBundle \/ IsGrounding(bundle)

Anchors == {"domain", "name", "alias"}

\* The record names the subject; a search does so by its query alone.
OnSubject(o) == o.source \in Pages => Mentions[o.source] \cap Anchors # {}

\* What grounding claims is earned by records of one product.  Without an identity nothing
\* is known and every question stays a gap.  Of a subject with both its names a supported
\* question rests on two records about it: for the market's view these are pages it was
\* read on, for friction they found something that speaks of it, for reception they are of
\* the community; and every family that coverage claims was met on the subject.  No fact
\* counts as settled that a conflict disputes (EvidenceBundleSemanticValidator,
\* ResearchDimensionEvaluator, GroundingContextBuilder).
GroundingIsEarned ==
  bundle # NoBundle =>
    LET about == {i \in bundle.items : OnSubject(observed[i])}
        supported(dim) == bundle.dimensions[dim] = "SUPPORTED"
    IN  /\ Cardinality({observed[i].product : i \in bundle.items}) = 1
        /\ subject = "NAMELESS" =>
             bundle.settled = {} /\ bundle.gaps = Dimensions /\ bundle.coherence = "PARTIAL"
        /\ subject = "IDENTIFIED" =>
             /\ supported("MARKET_POSITIONING") =>
                  Cardinality({i \in about : observed[i].source \in Pages}) >= 2
             /\ supported("OPERATIONAL_FRICTION") =>
                  Cardinality({i \in about : Speaks(observed[i]) # {}}) >= 2
             /\ supported("DEVELOPER_RECEPTION") =>
                  Cardinality({i \in about : observed[i].cap \in Discussions}) >= 2
             /\ bundle.coverage = "PASS" =>
                  \A f \in Requested : \E i \in about : Family(observed[i]) = f
        /\ bundle.settled \cap bundle.disputed = {}

\* "substantive claims require fetched source content" (tools/evidence/models.py): the
\* community's reception counts as supported only where two records found something.  The
\* code does not keep to it: EvidenceBuilder gives the record of a discussion search that
\* found nothing the role of user content.
ReceptionHasContent ==
  bundle # NoBundle /\ bundle.dimensions["DEVELOPER_RECEPTION"] = "SUPPORTED" =>
      Cardinality({i \in bundle.items :
                     observed[i].cap \in Discussions /\ observed[i].source # Nowhere}) >= 2

\* "IRRELEVANT evidence does not support claims and does not close gaps."
\* (tools/evidence/models.py): a page that mentions none of the subject's anchors supports
\* no dimension.  The code does not keep to it where the identity is partly empty.
OffSubjectIsOut ==
  bundle # NoBundle =>
    \A dim \in Dimensions : \A i \in Support(bundle.items, dim) : OnSubject(observed[i])
=============================================================================
