------------------------------- MODULE Crawler -------------------------------
(***************************************************************************)
(* The bounded crawl of the seed URLs of an ingestion run.                 *)
(*                                                                         *)
(* The web is given by the constants.  A URL is public when the fetcher    *)
(* accepts its host, and allowed when its host is a seed's or matches      *)
(* --crawl-allow-domain.  A page may redirect, and may fail to load.       *)
(***************************************************************************)
EXTENDS Integers, Sequences, FiniteSets, SequencesExt

CONSTANTS
    PublicUrls, AllowedUrls,
    CanonicalUrl,       \* CanonicalUrl[u]: u without its trailing slash and fragment
    FinalUrls,          \* FinalUrls[u]: where a request for u may end
    PageLinks,          \* PageLinks[u]: the links on page u, in order
    PageBytes,          \* PageBytes[u]: the size of page u
    BlankPages,         \* the pages without text
    MaxCrawlDepth, MaxCrawlPages, MaxPageBytes, MaxTotalBytes

Urls == DOMAIN CanonicalUrl

ASSUME LimitsAssumption ==
    /\ MaxCrawlDepth \in Nat /\ MaxCrawlPages \in Nat
    /\ MaxPageBytes \in Nat /\ MaxTotalBytes \in Nat
ASSUME WebAssumption ==
    \A u \in PublicUrls : u \in Urls /\ PageBytes[u] \in Nat /\ PageLinks[u] \in Seq(Urls)

VARIABLES
    frontier,           \* queue: the URLs to request, [url, depth]
    seenUrls,           \* seen
    fetchedCount,       \* fetched_count
    totalBytes,         \* total_bytes
    pages               \* the accepted pages, [url, depth, text]

crawlVars == <<frontier, seenUrls, fetchedCount, totalBytes, pages>>

\* The locals of crawl_url_evidence, outside a call.
NoCrawl ==
    /\ frontier = <<>> /\ seenUrls = {} /\ fetchedCount = 0
    /\ totalBytes = 0 /\ pages = <<>>
CrawlForgotten ==
    /\ frontier' = <<>> /\ seenUrls' = {} /\ fetchedCount' = 0
    /\ totalBytes' = 0 /\ pages' = <<>>

\* _validated_queue_item for each URL in turn; a filtered URL is not seen.
Enqueued(state, urls, depth) ==
    FoldLeft(LAMBDA s, u :
                IF u \in PublicUrls /\ CanonicalUrl[u] \notin s.seen /\ u \in AllowedUrls
                THEN [queue |-> Append(s.queue, [url |-> u, depth |-> depth]),
                      seen |-> s.seen \cup {CanonicalUrl[u]}]
                ELSE s,
             state, urls)

CrawlBegins(seeds) ==
    LET q == Enqueued([queue |-> <<>>, seen |-> {}], seeds, 0)
    IN  /\ frontier' = q.queue
        /\ seenUrls' = q.seen
        /\ UNCHANGED <<fetchedCount, totalBytes, pages>>

CrawlGoesOn == frontier # <<>> /\ fetchedCount < MaxCrawlPages /\ totalBytes < MaxTotalBytes

\* A request that fails counts against no limit.
FetchFails ==
    /\ CrawlGoesOn
    /\ frontier' = Tail(frontier)
    /\ UNCHANGED <<seenUrls, fetchedCount, totalBytes, pages>>

\* Seeded fault: the bytes already read are not subtracted.
ByteLimitPerPage == MaxPageBytes

ByteLimit == Min({MaxPageBytes, MaxTotalBytes - totalBytes})

\* A truncated page loses its last links.
LinksRead(url) ==
    IF PageBytes[url] > ByteLimit
    THEN {SubSeq(PageLinks[url], 1, n) : n \in 0..Len(PageLinks[url])}
    ELSE {PageLinks[url]}

FetchPage ==
    /\ CrawlGoesOn
    /\ LET item == Head(frontier)
       IN  \E final \in FinalUrls[item.url] \cap PublicUrls :
            /\ fetchedCount' = fetchedCount + 1
            /\ totalBytes' = totalBytes + Min({PageBytes[final], ByteLimit})
            /\ IF \/ CanonicalUrl[final] \in seenUrls \ {CanonicalUrl[item.url]}
                  \/ final \notin AllowedUrls
               THEN frontier' = Tail(frontier) /\ UNCHANGED <<seenUrls, pages>>
               ELSE \E links \in LinksRead(final) :
                    LET rest == [queue |-> Tail(frontier),
                                 seen |-> seenUrls \cup {CanonicalUrl[final]}]
                        q == IF item.depth >= MaxCrawlDepth THEN rest
                             ELSE Enqueued(rest, links, item.depth + 1)
                    IN  /\ frontier' = q.queue
                        /\ seenUrls' = q.seen
                        /\ pages' = Append(pages, [url |-> final, depth |-> item.depth,
                                                   text |-> final \notin BlankPages])

CrawlStep == FetchFails \/ FetchPage

CrawlEvidence == \E p \in ToSet(pages) : p.text
=============================================================================
