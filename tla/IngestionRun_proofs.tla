------------------------- MODULE IngestionRun_proofs -------------------------
(***************************************************************************)
(* Proofs about one ingestion run, for every setup, web, limit, store and  *)
(* answer of the models, and whatever other processes add meanwhile.       *)
(*                                                                         *)
(* In order: the crawl and its limits; what canonicalization returns and   *)
(* that it keeps the kinds of things; the types of a run, one lemma per    *)
(* action; the votes behind an approval; where each candidate is when the  *)
(* run has ended; that the store has of the run what was approved; and     *)
(* that canonicalization keeps the texts of the candidates.                *)
(***************************************************************************)
EXTENDS IngestionRun, Reasoning_proofs

(***************************************************************************)
(* What a queue of URLs offers                                             *)
(***************************************************************************)
Item == [url : Urls, depth : 0..MaxCrawlDepth]
Crawled == [queue : Seq(Item), seen : SUBSET {CanonicalUrl[u] : u \in Urls}]

\* The step of Enqueued for one URL.
Offered(s, u, depth) ==
    IF u \in PublicUrls /\ CanonicalUrl[u] \notin s.seen /\ u \in AllowedUrls
    THEN [queue |-> Append(s.queue, [url |-> u, depth |-> depth]),
          seen |-> s.seen \cup {CanonicalUrl[u]}]
    ELSE s

\* Enqueued ends in any set of states that it starts in and that no offer leaves.
LEMMA EnqueuedStays ==
  ASSUME NEW urls \in Seq(Urls), NEW depth, NEW Y, NEW state \in Y,
         \A s \in Y, u \in Urls : Offered(s, u, depth) \in Y
  PROVE  Enqueued(state, urls, depth) \in Y
  <1>1. PICK n \in Nat : n = Len(urls) /\ DOMAIN urls = 1..n /\ \A i \in 1..n : urls[i] \in Urls
    OBVIOUS
  <1>. DEFINE step == [i \in 1..n |-> [s \in Y |-> Offered(s, urls[i], depth)]]
              Rec(it) == [S \in SUBSET (DOMAIN urls) |-> IF S = {} THEN state
                            ELSE Offered(it[S \ {Max(S)}], urls[Max(S)], depth)]
              F == CHOOSE it : it = Rec(it)
  <1>2. \A i \in 1..n, s \in Y : step[i][s] = Offered(s, urls[i], depth)
    OBVIOUS
  <1>3. \A i \in 1..n, s \in Y : Offered(s, urls[i], depth) \in Y
    BY <1>1
  <1>12. Enqueued(state, urls, depth) = F[DOMAIN urls]
    BY Zenon DEF Enqueued, FoldLeft, MapThenFoldSet, F, Offered
  <1>. HIDE DEF step, F
  <1>5. Preserves(step, 1..n, Y)
    BY <1>2, <1>3 DEF Preserves
  <1>6. PICK it \in [SUBSET (1..n) -> Y] : IsListFold(it, n, state, step)
    BY <1>5, ListFoldExists
  <1>7. it = Rec(it)
    <2>1. ASSUME NEW S \in SUBSET (1..n), S # {}
          PROVE  it[S] = Offered(it[S \ {Max(S)}], urls[Max(S)], depth)
      <3>1. Max(S) \in 1..n
        BY <2>1, MaxIsMember
      <3>2. it[S \ {Max(S)}] \in Y
        BY <1>1, <3>1
      <3>3. it[S] = step[Max(S)][it[S \ {Max(S)}]]
        BY <1>6, <2>1 DEF IsListFold
      <3>. QED
        BY <1>2, <3>1, <3>2, <3>3
    <2>2. it[{}] = state
      BY <1>6 DEF IsListFold
    <2>3. \A S \in SUBSET (1..n) : it[S] = IF S = {} THEN state
                            ELSE Offered(it[S \ {Max(S)}], urls[Max(S)], depth)
      BY <2>1, <2>2
    <2>4. it = [S \in SUBSET (1..n) |-> IF S = {} THEN state
                            ELSE Offered(it[S \ {Max(S)}], urls[Max(S)], depth)]
      BY <2>3
    <2>. QED
      BY <1>1, <2>4
  <1>8. F = Rec(F)
    <2>. HIDE DEF Rec
    <2>. QED
      BY <1>7 DEF F
  <1>9. FoldsWithin(F, n, state, step, Y)
    <2>1. F[{}] = state
      BY <1>8
    <2>2. ASSUME NEW S \in SUBSET (1..n), S # {}, F[S \ {Max(S)}] \in Y
          PROVE  F[S] = step[Max(S)][F[S \ {Max(S)}]]
      <3>1. Max(S) \in 1..n
        BY <2>2, MaxIsMember
      <3>2. F[S] = Offered(F[S \ {Max(S)}], urls[Max(S)], depth)
        BY <1>1, <1>8, <2>2
      <3>. QED
        BY <1>1, <1>2, <2>2, <3>1, <3>2
    <2>. QED
      BY <2>1, <2>2 DEF FoldsWithin
  <1>10. PICK f \in [0..n -> Y] : IsRecursion(f, n, state, step) /\ F[1..n] = f[n]
    BY <1>5, <1>9, FoldIsRecursion
  <1>. QED
    BY <1>1, <1>10, <1>12

(***************************************************************************)
(* The crawl                                                               *)
(***************************************************************************)
Canonicals(s) == {CanonicalUrl[s[i].url] : i \in 1..Len(s)}
NoneTwice(s) ==
    \A i, k \in 1..Len(s) : i # k => CanonicalUrl[s[i].url] # CanonicalUrl[s[k].url]

Page == [url : PublicUrls \cap AllowedUrls, depth : 0..MaxCrawlDepth, text : BOOLEAN]

\* What waits was seen and is no page yet, and is there once; the pages were seen.
CrawlInv ==
    /\ fetchedCount \in 0..MaxCrawlPages /\ totalBytes \in 0..MaxTotalBytes
    /\ [queue |-> frontier, seen |-> seenUrls] \in Crawled
    /\ pages \in Seq(Page)
    /\ NoneTwice(frontier) /\ NoneTwice(pages)
    /\ Canonicals(pages) \subseteq seenUrls
    /\ Canonicals(frontier) \subseteq seenUrls \ Canonicals(pages)

RunInv ==
    /\ run \in Setups
    /\ CrawlInv
    /\ phase # "crawl" => NoCrawl

\* The queues of URLs none of which is in done, with what base has seen.
Waiting(base, done) ==
    {s \in Crawled : /\ base \subseteq s.seen /\ NoneTwice(s.queue)
                     /\ Canonicals(s.queue) \subseteq s.seen \ done}

LEMMA OfferedWaits ==
  ASSUME NEW base, NEW done, done \subseteq base, NEW depth \in 0..MaxCrawlDepth,
         NEW s \in Waiting(base, done), NEW u \in Urls
  PROVE  Offered(s, u, depth) \in Waiting(base, done)
  <1>. DEFINE x == [url |-> u, depth |-> depth]
              q == Append(s.queue, x)
              new == s.seen \cup {CanonicalUrl[u]}
  <1>1. CASE u \in PublicUrls /\ CanonicalUrl[u] \notin s.seen /\ u \in AllowedUrls
    <2>1. Offered(s, u, depth) = [queue |-> q, seen |-> new]
      BY <1>1 DEF Offered
    <2>2. /\ s.queue \in Seq(Item) /\ s.seen \in SUBSET {CanonicalUrl[v] : v \in Urls}
          /\ base \subseteq s.seen
          /\ NoneTwice(s.queue) /\ Canonicals(s.queue) \subseteq s.seen \ done
      BY DEF Waiting, Crawled
    <2>3. x \in Item
      BY DEF Item
    <2>4. PICK n \in Nat : n = Len(s.queue)
      BY <2>2
    <2>5. /\ q \in Seq(Item) /\ Len(q) = n + 1 /\ q[n + 1] = x
          /\ \A i \in 1..n : q[i] = s.queue[i]
      BY <2>2, <2>3, <2>4
    <2>6. \A i \in 1..n : CanonicalUrl[s.queue[i].url] \in s.seen \ done
      BY <2>2, <2>4 DEF Canonicals
    <2>. HIDE DEF q
    <2>7. \A i \in 1..(n + 1) : i \in 1..n \/ i = n + 1
      OBVIOUS
    <2>8. NoneTwice(q)
      <3>1. \A i, k \in 1..n : i # k => CanonicalUrl[q[i].url] # CanonicalUrl[q[k].url]
        <4>. SUFFICES ASSUME NEW i \in 1..n, NEW k \in 1..n, i # k
                      PROVE  CanonicalUrl[q[i].url] # CanonicalUrl[q[k].url]
          OBVIOUS
        <4>1. CanonicalUrl[s.queue[i].url] # CanonicalUrl[s.queue[k].url]
          BY <2>2, <2>4 DEF NoneTwice
        <4>2. q[i] = s.queue[i] /\ q[k] = s.queue[k]
          BY <2>5
        <4>. QED
          BY <4>1, <4>2
      <3>2. \A i \in 1..n : CanonicalUrl[q[i].url] # CanonicalUrl[q[n + 1].url]
        BY <1>1, <2>5, <2>6
      <3>. QED
        BY <2>5, <2>7, <3>1, <3>2 DEF NoneTwice
    <2>9. Canonicals(q) \subseteq new \ done
      <3>1. \A i \in 1..n : CanonicalUrl[q[i].url] \in new \ done
        BY <2>5, <2>6
      <3>2. CanonicalUrl[q[n + 1].url] \in new \ done
        BY <1>1, <2>2, <2>5
      <3>. QED
        BY <2>5, <2>7, <3>1, <3>2 DEF Canonicals
    <2>10. [queue |-> q, seen |-> new] \in Crawled
      BY <2>2, <2>5 DEF Crawled
    <2>. QED
      BY <2>1, <2>2, <2>8, <2>9, <2>10 DEF Waiting
  <1>2. CASE ~(u \in PublicUrls /\ CanonicalUrl[u] \notin s.seen /\ u \in AllowedUrls)
    <2>1. Offered(s, u, depth) = s
      BY <1>2 DEF Offered
    <2>. QED
      BY <2>1
  <1>. QED
    BY <1>1, <1>2

LEMMA EnqueuedWaits ==
  ASSUME NEW base, NEW done, done \subseteq base, NEW depth \in 0..MaxCrawlDepth,
         NEW s \in Waiting(base, done), NEW urls \in Seq(Urls)
  PROVE  Enqueued(s, urls, depth) \in Waiting(base, done)
  <1>1. \A t \in Waiting(base, done), u \in Urls :
            Offered(t, u, depth) \in Waiting(base, done)
    BY OfferedWaits
  <1>. QED
    BY <1>1, EnqueuedStays

LEMMA LeastOfTwo ==
  ASSUME NEW a \in Int, NEW b \in Int
  PROVE  Min({a, b}) \in {a, b} /\ Min({a, b}) <= a /\ Min({a, b}) <= b
  <1>1. \E x \in {a, b} : \A y \in {a, b} : x <= y
    <2>1. CASE a <= b
      BY <2>1
    <2>2. CASE ~(a <= b)
      BY <2>2
    <2>. QED
      BY <2>1, <2>2
  <1>. QED
    BY <1>1 DEF Min

LEMMA TailFacts ==
  ASSUME NEW S, NEW q \in Seq(S), NEW n \in Nat, Len(q) = n + 1
  PROVE  Tail(q) \in Seq(S) /\ Len(Tail(q)) = n /\ \A i \in 1..n : Tail(q)[i] = q[i + 1]
  <1>1. q # <<>>
    OBVIOUS
  <1>2. Tail(q) \in Seq(S)
    BY <1>1
  <1>3. Len(Tail(q)) = n /\ \A i \in 1..n : Tail(q)[i] = q[i + 1]
    BY <1>1
  <1>. QED
    BY <1>2, <1>3

\* A request for the first URL of the queue takes it off.
LEMMA Requested ==
  ASSUME CrawlInv, CrawlGoesOn
  PROVE  /\ Head(frontier) \in Item
         /\ [queue |-> Tail(frontier), seen |-> seenUrls] \in Crawled
         /\ NoneTwice(Tail(frontier))
         /\ CanonicalUrl[Head(frontier).url] \in seenUrls \ Canonicals(pages)
         /\ Canonicals(Tail(frontier))
              \subseteq seenUrls \ (Canonicals(pages) \cup {CanonicalUrl[Head(frontier).url]})
  <1>1. frontier \in Seq(Item) /\ frontier # <<>>
    BY DEF CrawlInv, Crawled, CrawlGoesOn
  <1>2. PICK n \in Nat : Len(frontier) = n + 1
    <2>1. Len(frontier) \in Nat /\ Len(frontier) # 0
      BY <1>1
    <2>2. Len(frontier) - 1 \in Nat /\ Len(frontier) = (Len(frontier) - 1) + 1
      BY <2>1
    <2>. QED
      BY <2>2
  <1>3. PICK rest : rest = Tail(frontier)
    OBVIOUS
  <1>4. rest \in Seq(Item) /\ Len(rest) = n /\ \A i \in 1..n : rest[i] = frontier[i + 1]
    BY <1>1, <1>2, <1>3, TailFacts
  <1>5. Head(frontier) = frontier[1] /\ frontier[1] \in Item /\ 1 \in 1..(n + 1)
    BY <1>1, <1>2
  <1>6. \A i \in 1..(n + 1) : CanonicalUrl[frontier[i].url] \in seenUrls \ Canonicals(pages)
    BY <1>2 DEF CrawlInv, Canonicals
  <1>7. \A i, k \in 1..(n + 1) :
            i # k => CanonicalUrl[frontier[i].url] # CanonicalUrl[frontier[k].url]
    BY <1>2 DEF CrawlInv, NoneTwice
  <1>8. \A i \in 1..n : i + 1 \in 1..(n + 1) /\ i + 1 # 1
    OBVIOUS
  <1>9. NoneTwice(rest)
    <2>. SUFFICES ASSUME NEW i \in 1..n, NEW k \in 1..n, i # k
                  PROVE  CanonicalUrl[rest[i].url] # CanonicalUrl[rest[k].url]
      BY <1>4 DEF NoneTwice
    <2>1. i + 1 # k + 1
      OBVIOUS
    <2>2. CanonicalUrl[frontier[i + 1].url] # CanonicalUrl[frontier[k + 1].url]
      BY <1>7, <1>8, <2>1
    <2>. QED
      BY <1>4, <2>2
  <1>10. Canonicals(rest)
            \subseteq seenUrls \ (Canonicals(pages) \cup {CanonicalUrl[frontier[1].url]})
    <2>. SUFFICES ASSUME NEW i \in 1..n
                  PROVE  CanonicalUrl[rest[i].url]
                            \in seenUrls \ (Canonicals(pages) \cup {CanonicalUrl[frontier[1].url]})
      BY <1>4 DEF Canonicals
    <2>1. CanonicalUrl[frontier[i + 1].url] # CanonicalUrl[frontier[1].url]
      BY <1>5, <1>7, <1>8
    <2>2. CanonicalUrl[frontier[i + 1].url] \in seenUrls \ Canonicals(pages)
      BY <1>6, <1>8
    <2>. QED
      BY <1>4, <2>1, <2>2
  <1>11. [queue |-> rest, seen |-> seenUrls] \in Crawled
    BY <1>4 DEF CrawlInv, Crawled
  <1>12. CanonicalUrl[frontier[1].url] \in seenUrls \ Canonicals(pages)
    BY <1>5, <1>6
  <1>. QED
    BY <1>3, <1>5, <1>9, <1>10, <1>11, <1>12

LEMMA FetchFailsInv ==
  ASSUME CrawlInv, FetchFails
  PROVE  CrawlInv'
  <1>1. CrawlGoesOn /\ frontier' = Tail(frontier)
        /\ UNCHANGED <<seenUrls, fetchedCount, totalBytes, pages>>
    BY DEF FetchFails
  <1>2. /\ [queue |-> frontier', seen |-> seenUrls'] \in Crawled
        /\ NoneTwice(frontier') /\ Canonicals(frontier') \subseteq seenUrls' \ Canonicals(pages')
    BY <1>1, Requested
  <1>3. /\ fetchedCount' \in 0..MaxCrawlPages /\ totalBytes' \in 0..MaxTotalBytes
        /\ pages' \in Seq(Page) /\ NoneTwice(pages') /\ Canonicals(pages') \subseteq seenUrls'
    BY <1>1 DEF CrawlInv
  <1>. QED
    BY <1>2, <1>3, Zenon DEF CrawlInv

\* The bytes read of a page stay within what is left of the budget.
LEMMA BytesRead ==
  ASSUME CrawlInv, CrawlGoesOn, NEW size \in Nat
  PROVE  totalBytes + Min({size, ByteLimit}) \in 0..MaxTotalBytes
  <1>1. totalBytes \in Nat /\ totalBytes < MaxTotalBytes /\ MaxPageBytes \in Nat
        /\ MaxTotalBytes \in Nat
    BY LimitsAssumption DEF CrawlInv, CrawlGoesOn
  <1>. DEFINE left == MaxTotalBytes - totalBytes
  <1>2. left \in Nat
    BY <1>1
  <1>3. PICK b \in Nat : b = ByteLimit /\ b <= left
    <2>1. Min({MaxPageBytes, left}) \in {MaxPageBytes, left} /\ Min({MaxPageBytes, left}) <= left
      BY <1>1, <1>2, LeastOfTwo
    <2>. QED
      BY <1>1, <1>2, <2>1 DEF ByteLimit
  <1>4. Min({size, b}) \in {size, b} /\ Min({size, b}) <= b
    BY LeastOfTwo
  <1>. QED
    BY <1>1, <1>3, <1>4

LEMMA LinksAreUrls ==
  ASSUME NEW u \in PublicUrls, NEW links \in LinksRead(u)
  PROVE  links \in Seq(Urls)
  <1>1. PICK all \in Seq(Urls) : all = PageLinks[u]
    BY WebAssumption
  <1>2. \A n \in 0..Len(all) : SubSeq(all, 1, n) \in Seq(Urls)
    <2>. SUFFICES ASSUME NEW n \in 0..Len(all) PROVE SubSeq(all, 1, n) \in Seq(Urls)
      OBVIOUS
    <2>1. \A i \in 1..n : all[i] \in Urls
      OBVIOUS
    <2>. QED
      BY <2>1
  <1>. QED
    BY <1>1, <1>2 DEF LinksRead

LEMMA PageAdded ==
  ASSUME NEW S, NEW s \in Seq(S), NoneTwice(s), NEW x \in S,
         CanonicalUrl[x.url] \notin Canonicals(s)
  PROVE  /\ Append(s, x) \in Seq(S) /\ NoneTwice(Append(s, x))
         /\ Canonicals(Append(s, x)) = Canonicals(s) \cup {CanonicalUrl[x.url]}
  <1>1. PICK n \in Nat : n = Len(s)
    OBVIOUS
  <1>. DEFINE q == Append(s, x)
  <1>2. q \in Seq(S) /\ Len(q) = n + 1 /\ q[n + 1] = x /\ \A i \in 1..n : q[i] = s[i]
    BY <1>1
  <1>. HIDE DEF q
  <1>3. \A i \in 1..(n + 1) : i \in 1..n \/ i = n + 1
    OBVIOUS
  <1>4. \A i \in 1..n : i \in 1..(n + 1)
    OBVIOUS
  <1>5. NoneTwice(q)
    <2>1. \A i, k \in 1..n : i # k => CanonicalUrl[q[i].url] # CanonicalUrl[q[k].url]
      <3>. SUFFICES ASSUME NEW i \in 1..n, NEW k \in 1..n, i # k
                    PROVE  CanonicalUrl[q[i].url] # CanonicalUrl[q[k].url]
        OBVIOUS
      <3>1. CanonicalUrl[s[i].url] # CanonicalUrl[s[k].url]
        BY <1>1 DEF NoneTwice
      <3>2. q[i] = s[i] /\ q[k] = s[k]
        BY <1>2
      <3>. QED
        BY <3>1, <3>2
    <2>2. \A i \in 1..n : CanonicalUrl[q[i].url] # CanonicalUrl[q[n + 1].url]
      BY <1>1, <1>2 DEF Canonicals
    <2>. QED
      BY <1>2, <1>3, <2>1, <2>2 DEF NoneTwice
  <1>6. Canonicals(q) \subseteq Canonicals(s) \cup {CanonicalUrl[x.url]}
    BY <1>1, <1>2, <1>3 DEF Canonicals
  <1>7. Canonicals(s) \cup {CanonicalUrl[x.url]} \subseteq Canonicals(q)
    BY <1>1, <1>2, <1>4 DEF Canonicals
  <1>. QED
    BY <1>2, <1>5, <1>6, <1>7 DEF q

LEMMA FetchPageInv ==
  ASSUME CrawlInv, FetchPage
  PROVE  CrawlInv'
  <1>. DEFINE item == Head(frontier)
  <1>1. /\ CrawlGoesOn
        /\ item \in Item
        /\ [queue |-> Tail(frontier), seen |-> seenUrls] \in Crawled
        /\ NoneTwice(Tail(frontier))
        /\ CanonicalUrl[item.url] \in seenUrls \ Canonicals(pages)
        /\ Canonicals(Tail(frontier))
             \subseteq seenUrls \ (Canonicals(pages) \cup {CanonicalUrl[item.url]})
    BY Requested DEF FetchPage
  <1>. DEFINE Redirected(f) == \/ CanonicalUrl[f] \in seenUrls \ {CanonicalUrl[item.url]}
                               \/ f \notin AllowedUrls
              page(f) == [url |-> f, depth |-> item.depth, text |-> f \notin BlankPages]
              rest(f) == [queue |-> Tail(frontier), seen |-> seenUrls \cup {CanonicalUrl[f]}]
              after(f, l) == IF item.depth >= MaxCrawlDepth THEN rest(f)
                             ELSE Enqueued(rest(f), l, item.depth + 1)
  <1>2. PICK f \in PublicUrls :
            /\ fetchedCount' = fetchedCount + 1
            /\ totalBytes' = totalBytes + Min({PageBytes[f], ByteLimit})
            /\ \/ /\ Redirected(f)
                  /\ frontier' = Tail(frontier) /\ UNCHANGED <<seenUrls, pages>>
               \/ /\ ~Redirected(f)
                  /\ \E l \in LinksRead(f) : /\ frontier' = after(f, l).queue
                                             /\ seenUrls' = after(f, l).seen
                                             /\ pages' = Append(pages, page(f))
    BY DEF FetchPage
  <1>. HIDE DEF item
  <1>3. fetchedCount' \in 0..MaxCrawlPages
    BY <1>1, <1>2, LimitsAssumption DEF CrawlInv, CrawlGoesOn
  <1>4. totalBytes' \in 0..MaxTotalBytes
    BY <1>1, <1>2, WebAssumption, BytesRead
  <1>5. CASE Redirected(f)
    <2>1. frontier' = Tail(frontier) /\ seenUrls' = seenUrls /\ pages' = pages
      BY <1>2, <1>5
    <2>2. pages' \in Seq(Page) /\ NoneTwice(pages') /\ Canonicals(pages') \subseteq seenUrls'
      BY <2>1 DEF CrawlInv
    <2>3. /\ [queue |-> frontier', seen |-> seenUrls'] \in Crawled
          /\ NoneTwice(frontier') /\ Canonicals(frontier') \subseteq seenUrls' \ Canonicals(pages')
      BY <1>1, <2>1
    <2>. QED
      BY <1>3, <1>4, <2>2, <2>3, Zenon DEF CrawlInv
  <1>6. CASE ~Redirected(f)
    <2>1. PICK l \in LinksRead(f) : /\ frontier' = after(f, l).queue
                                    /\ seenUrls' = after(f, l).seen
                                    /\ pages' = Append(pages, page(f))
      BY <1>2, <1>6
    <2>2. l \in Seq(Urls) /\ f \in AllowedUrls /\ f \in Urls
      BY <1>6, LinksAreUrls, WebAssumption
    <2>3. CanonicalUrl[f] \notin Canonicals(pages) \cup Canonicals(Tail(frontier))
      BY <1>1, <1>6 DEF CrawlInv
    <2>. DEFINE done == Canonicals(pages) \cup {CanonicalUrl[f]}
                base == seenUrls \cup {CanonicalUrl[f]}
    <2>4. rest(f) \in Waiting(base, done) /\ done \subseteq base
      <3>1. rest(f) \in Crawled
        BY <1>1, <2>2 DEF Crawled
      <3>2. Canonicals(pages) \subseteq seenUrls
        BY DEF CrawlInv
      <3>. HIDE DEF Redirected
      <3>. QED
        BY <1>1, <2>3, <3>1, <3>2 DEF Waiting
    <2>5. after(f, l) \in Waiting(base, done)
      <3>1. CASE item.depth >= MaxCrawlDepth
        BY <2>4, <3>1
      <3>2. CASE ~(item.depth >= MaxCrawlDepth)
        <4>1. item.depth + 1 \in 0..MaxCrawlDepth
          BY <1>1, <3>2, LimitsAssumption DEF Item
        <4>. HIDE DEF rest, done, base
        <4>2. Enqueued(rest(f), l, item.depth + 1) \in Waiting(base, done)
          BY <2>2, <2>4, <4>1, EnqueuedWaits
        <4>. QED
          BY <3>2, <4>2
      <3>. QED
        BY <3>1, <3>2
    <2>6. page(f) \in Page
      BY <1>1, <2>2 DEF Item, Page
    <2>7. pages' \in Seq(Page) /\ NoneTwice(pages') /\ Canonicals(pages') = done
      <3>. HIDE DEF Redirected, rest, after
      <3>1. pages \in Seq(Page) /\ NoneTwice(pages)
        BY DEF CrawlInv
      <3>. QED
        BY <2>1, <2>3, <2>6, <3>1, PageAdded
    <2>8. /\ [queue |-> frontier', seen |-> seenUrls'] \in Crawled
          /\ base \subseteq seenUrls' /\ NoneTwice(frontier')
          /\ Canonicals(frontier') \subseteq seenUrls' \ done
      <3>1. PICK z : z = after(f, l)
        OBVIOUS
      <3>. HIDE DEF after, rest, base, done
      <3>2. z \in Waiting(base, done) /\ frontier' = z.queue /\ seenUrls' = z.seen
        BY <2>1, <2>5, <3>1
      <3>. HIDE <3>1
      <3>3. z \in Crawled
        BY <3>2 DEF Waiting
      <3>4. z = [queue |-> z.queue, seen |-> z.seen]
        BY <3>3 DEF Crawled
      <3>. QED
        BY <3>2, <3>3, <3>4 DEF Waiting
    <2>9. Canonicals(pages') \subseteq seenUrls'
      BY <2>4, <2>7, <2>8
    <2>. HIDE DEF done, base
    <2>10. Canonicals(frontier') \subseteq seenUrls' \ Canonicals(pages')
      BY <2>7, <2>8
    <2>. QED
      BY <1>3, <1>4, <2>7, <2>8, <2>9, <2>10, Zenon DEF CrawlInv
  <1>. QED
    BY <1>5, <1>6

LEMMA SeedsQueued ==
  ASSUME CrawlInv, NoCrawl, run \in Setups, CrawlBegins(run.urls)
  PROVE  CrawlInv'
  <1>. DEFINE none == [queue |-> <<>>, seen |-> {}]
  <1>1. none \in Waiting({}, {})
    BY DEF Waiting, Crawled, NoneTwice, Canonicals
  <1>2. 0 \in 0..MaxCrawlDepth /\ run.urls \in Seq(Urls)
    BY LimitsAssumption, SetupsAssumption DEF Setup
  <1>. HIDE DEF none
  <1>3. PICK q \in Waiting({}, {}) : q = Enqueued(none, run.urls, 0)
    BY <1>1, <1>2, EnqueuedWaits
  <1>4. /\ frontier' = q.queue /\ seenUrls' = q.seen
        /\ UNCHANGED <<fetchedCount, totalBytes, pages>>
    BY <1>3 DEF CrawlBegins, none
  <1>5. q \in Crawled /\ NoneTwice(q.queue) /\ Canonicals(q.queue) \subseteq q.seen
    BY DEF Waiting
  <1>6. q = [queue |-> q.queue, seen |-> q.seen]
    BY <1>5 DEF Crawled
  <1>7. pages = <<>> /\ Canonicals(<<>>) = {}
    BY DEF NoCrawl, Canonicals
  <1>8. /\ fetchedCount' \in 0..MaxCrawlPages /\ totalBytes' \in 0..MaxTotalBytes
        /\ pages' \in Seq(Page) /\ NoneTwice(pages') /\ pages' = <<>>
    BY <1>4, <1>7 DEF CrawlInv
  <1>9. /\ Canonicals(pages') \subseteq seenUrls'
        /\ Canonicals(frontier') \subseteq seenUrls' \ Canonicals(pages')
    BY <1>4, <1>5, <1>7, <1>8
  <1>10. NoneTwice(frontier') /\ [queue |-> frontier', seen |-> seenUrls'] \in Crawled
    BY <1>4, <1>5, <1>6
  <1>. QED
    BY <1>8, <1>9, <1>10, Zenon DEF CrawlInv

LEMMA NothingCrawled ==
  ASSUME NoCrawl
  PROVE  CrawlInv
  BY LimitsAssumption DEF NoCrawl, CrawlInv, Crawled, NoneTwice, Canonicals

LEMMA CrawlForgottenInv ==
  ASSUME CrawlForgotten
  PROVE  CrawlInv' /\ NoCrawl'
  <1>1. NoCrawl'
    BY DEF CrawlForgotten, NoCrawl
  <1>. QED
    BY <1>1, LimitsAssumption DEF NoCrawl, CrawlInv, Crawled, NoneTwice, Canonicals

LEMMA CrawlUntouched ==
  ASSUME CrawlInv, UNCHANGED crawlVars
  PROVE  CrawlInv'
  BY DEF crawlVars, CrawlInv, NoneTwice, Canonicals

\* The phases of a write, and those that only a step of the write enters.
MidPhase == {"dedupe", "assert", "check", "append", "import", "merge", "rewrite"}
WritingPhase == {"write", "dedupe", "assert", "check", "append", "import", "merge", "rewrite",
                 "enqueue"}
LateStep == WriteStep \/ ImportStep

\* A step of the write leaves what the run has gathered alone.
LEMMA LateStepFacts ==
  ASSUME LateStep
  PROVE  /\ UNCHANGED <<run, found, candidates, canonVars, imports, answers, report, queue, crawlVars>>
         /\ phase \in WritingPhase \ {"enqueue"}
         /\ phase' \in (WritingPhase \ {"write"}) \cup {"raised"}
  <1>. USE DEF WritingPhase, Goes, Written, WriteStopped
  <1>1. CASE PrepareRelations
    BY <1>1 DEF PrepareRelations
  <1>2. CASE Dedupe
    BY <1>2 DEF Dedupe
  <1>3. CASE ReadToCheck
    BY <1>3 DEF ReadToCheck
  <1>4. CASE CheckWrite
    BY <1>4 DEF CheckWrite
  <1>5. CASE AppendRelations
    BY <1>5 DEF AppendRelations
  <1>6. CASE MergeImports
    BY <1>6 DEF MergeImports
  <1>7. CASE ReadRelations
    BY <1>7 DEF ReadRelations
  <1>8. CASE RewriteStore
    BY <1>8 DEF RewriteStore, writeVars
  <1>. QED
    BY <1>1, <1>2, <1>3, <1>4, <1>5, <1>6, <1>7, <1>8 DEF LateStep, WriteStep, ImportStep

\* A write has come to an end before the propositions are imported.
LEMMA WriteEnds ==
  ASSUME LateStep
  PROVE  \/ outcome' \in {"written", "refused", "failed"}
         \/ UNCHANGED outcome /\ phase' \in {"dedupe", "assert", "check", "append", "raised"}
         \/ UNCHANGED outcome /\ phase \in {"import", "merge", "rewrite"}
  <1>. USE DEF Goes, Written, WriteStopped
  <1>1. CASE PrepareRelations
    BY <1>1 DEF PrepareRelations
  <1>2. CASE Dedupe
    BY <1>2 DEF Dedupe
  <1>3. CASE ReadToCheck
    BY <1>3 DEF ReadToCheck
  <1>4. CASE CheckWrite
    BY <1>4 DEF CheckWrite
  <1>5. CASE AppendRelations
    BY <1>5 DEF AppendRelations
  <1>6. CASE MergeImports \/ ReadRelations \/ RewriteStore
    BY <1>6 DEF MergeImports, ReadRelations, RewriteStore, writeVars
  <1>. QED
    BY <1>1, <1>2, <1>3, <1>4, <1>5, <1>6 DEF LateStep, WriteStep, ImportStep

\* Any other step leaves what the write has in memory alone.
LEMMA OutsideWriting ==
  ASSUME [Next]_vars, ~LateStep
  PROVE  UNCHANGED <<outcome, writing>> /\ (UNCHANGED phase \/ phase' \notin MidPhase)
  <1>. USE DEF MidPhase, Goes, writeVars
  <1>1. CASE LoadInput \/ Search \/ FetchUrls \/ BeginCrawl \/ Crawl \/ EndCrawl \/ EvidenceCheck
    <2>1. CASE Search
      <3>1. PICK result : phase' = CASE \/ run.crawl /\ run.urls = <<>>
                                        \/ ~found /\ run.urls = <<>> /\ ~run.search -> "raised"
                                     [] result = "failed" /\ ~(run.crawl /\ run.urls = <<>>) -> "error"
                                     [] OTHER -> "fetch"
        BY <2>1 DEF Search
      <3>2. phase' \in {"raised", "error", "fetch"}
        BY <3>1
      <3>. QED
        BY <2>1, <3>2 DEF Search
    <2>. QED
      BY <1>1, <2>1 DEF LoadInput, FetchUrls, BeginCrawl, Crawl, EndCrawl, EvidenceCheck
  <1>2. CASE Extract \/ Handoff
    BY <1>2 DEF Extract, Handoff, AfterExtraction
  <1>3. CASE CanonicalizeStep \/ GroupingAnswers
    BY <1>3 DEF CanonicalizeStep, GroupingAnswers, TakeCanonical
  <1>4. CASE \/ \E r \in ReviewerSet : ReviewerAnswers(r) \/ ReviewerFails(r) \/ ReviewerRaises(r)
             \/ ShortCircuit
    BY <1>4 DEF ReviewerAnswers, ReviewerFails, ReviewerRaises, ShortCircuit
  <1>5. CASE Gate
    <2>1. phase' \in {"done", "enqueue", "write"}
      BY <1>5, Zenon DEF Gate
    <2>. QED
      BY <1>5, <2>1 DEF Gate
  <1>6. CASE Enqueue \/ Validate \/ OtherProcess
    BY <1>6 DEF Enqueue, Validate, OtherProcess
  <1>7. CASE UNCHANGED vars
    BY <1>7 DEF vars
  <1>. QED
    BY <1>1, <1>2, <1>3, <1>4, <1>5, <1>6, <1>7 DEF Next, RunStep, Finished, LateStep

LEMMA RunInvInit == Init => RunInv
  BY NothingCrawled DEF Init, RunInv

LEMMA RunInvNext == RunInv /\ [Next]_vars => RunInv'
  <1>. SUFFICES ASSUME RunInv, [Next]_vars PROVE RunInv'
    OBVIOUS
  <1>. USE DEF RunInv
  <1>1. ASSUME run' = run, phase # "crawl", phase' # "crawl", UNCHANGED crawlVars PROVE RunInv'
    BY <1>1, CrawlUntouched DEF NoCrawl, crawlVars
  <1>2. ASSUME run' = run, phase' = phase, UNCHANGED crawlVars PROVE RunInv'
    BY <1>2, CrawlUntouched DEF NoCrawl, crawlVars
  <1>3. CASE BeginCrawl
    BY <1>3, SeedsQueued DEF BeginCrawl, Goes
  <1>4. CASE Crawl
    <2>1. CrawlInv'
      BY <1>4, FetchFailsInv, FetchPageInv DEF Crawl, CrawlStep
    <2>. QED
      BY <1>4, <2>1 DEF Crawl
  <1>5. CASE EndCrawl
    BY <1>5, CrawlForgottenInv DEF EndCrawl, Goes
  <1>6. CASE LoadInput \/ Search \/ FetchUrls \/ EvidenceCheck
    BY <1>1, <1>6 DEF LoadInput, Search, FetchUrls, EvidenceCheck, Goes
  <1>7. CASE Extract \/ Handoff
    BY <1>1, <1>7 DEF Extract, Handoff, Goes, AfterExtraction
  <1>8. CASE CanonicalizeStep \/ GroupingAnswers
    BY <1>1, <1>8 DEF CanonicalizeStep, GroupingAnswers, TakeCanonical, Goes
  <1>9. CASE \/ \E r \in ReviewerSet : ReviewerAnswers(r) \/ ReviewerFails(r) \/ ReviewerRaises(r)
             \/ ShortCircuit
    BY <1>1, <1>2, <1>9
       DEF ReviewerAnswers, ReviewerFails, ReviewerRaises, ShortCircuit, MayAnswer, Goes
  <1>10. CASE Gate \/ Enqueue
    BY <1>1, <1>10 DEF Gate, Enqueue, Goes
  <1>14. CASE LateStep
    BY <1>1, <1>14, LateStepFacts DEF WritingPhase
  <1>11. CASE Validate
    BY <1>1, <1>11 DEF Validate, Goes
  <1>12. CASE OtherProcess
    BY <1>2, <1>12 DEF OtherProcess
  <1>13. CASE UNCHANGED vars
    BY <1>2, <1>13 DEF vars, crawlVars
  <1>. QED
    BY <1>3, <1>4, <1>5, <1>6, <1>7, <1>8, <1>9, <1>10, <1>11, <1>12, <1>13, <1>14
       DEF Next, RunStep, Finished, LateStep

LEMMA RunInvariant == Spec => []RunInv
  BY RunInvInit, RunInvNext, PTL DEF Spec

\* Whatever the pages link and redirect to, a crawl keeps to its limits of
\* requests, bytes, depth and hosts, and takes no page twice.
THEOREM CrawlKeepsToItsLimits == Spec => []CrawlWithinBudget
  <1>1. RunInv => CrawlWithinBudget
    <2>. SUFFICES ASSUME RunInv PROVE CrawlWithinBudget
      OBVIOUS
    <2>1. CrawlInv
      BY DEF RunInv
    <2>2. PICK n \in Nat : n = Len(pages) /\ DOMAIN pages = 1..n /\ \A i \in 1..n : pages[i] \in Page
      BY <2>1 DEF CrawlInv
    <2>3. \A i \in 1..n : pages[i].url \in PublicUrls \cap AllowedUrls
                          /\ pages[i].depth <= MaxCrawlDepth
      BY <2>2, LimitsAssumption DEF Page
    <2>4. \A i, k \in 1..n : i # k => CanonicalUrl[pages[i].url] # CanonicalUrl[pages[k].url]
      BY <2>1, <2>2 DEF CrawlInv, NoneTwice
    <2>5. fetchedCount <= MaxCrawlPages /\ totalBytes <= MaxTotalBytes
      BY <2>1, LimitsAssumption DEF CrawlInv
    <2>. QED
      BY <2>2, <2>3, <2>4, <2>5 DEF CrawlWithinBudget
  <1>. QED
    BY <1>1, RunInvariant, PTL

(***************************************************************************)
(* Proposition nodes                                                       *)
(***************************************************************************)
\* Where the node with an id stands in a list.
LEMMA NamedFacts ==
  ASSUME NEW list \in Seq(NodeRecord), NEW id \in Ids(list)
  PROVE  Named(list, id) \in ToSet(list) /\ Named(list, id).id = id
         /\ Named(list, id) \in NodeRecord
  <1>1. \E i \in DOMAIN list : list[i].id = id
    BY DEF Ids
  <1>2. PICK i \in DOMAIN list : Named(list, id) = list[i] /\ list[i].id = id
    BY <1>1 DEF Named
  <1>3. list[i] \in NodeRecord
    OBVIOUS
  <1>. QED
    BY <1>2, <1>3 DEF ToSet

\* p with more terms.
Extended(p, terms) == [p EXCEPT !.terms = @ \cup terms]

LEMMA ExtendedFacts ==
  ASSUME NEW p \in NodeRecord, NEW terms \in SUBSET STRING
  PROVE  /\ Extended(p, terms) \in NodeRecord
         /\ Extended(p, terms).id = p.id /\ Extended(p, terms).label = p.label
         /\ Extended(p, terms).neg = p.neg /\ Extended(p, terms).terms = p.terms \cup terms
  BY DEF Extended, NodeRecord

\* A node of the list with the id of p has its terms.
Covers(list, p) == \E q \in ToSet(list) : q.id = p.id /\ p.terms \subseteq q.terms

LEMMA NamedCovers ==
  ASSUME NEW list \in Seq(NodeRecord), UniqueIds(list), NEW p, Covers(list, p)
  PROVE  p.id \in Ids(list) /\ p.terms \subseteq Named(list, p.id).terms
  <1>1. PICK n \in Nat : n = Len(list) /\ DOMAIN list = 1..n
    OBVIOUS
  <1>2. PICK k \in 1..n : list[k].id = p.id /\ p.terms \subseteq list[k].terms
    BY <1>1 DEF Covers, ToSet
  <1>3. \A i, j \in 1..n : list[i].id = list[j].id => i = j
    BY <1>1, UniqueIdsDistinct
  <1>4. (CHOOSE i \in DOMAIN list : list[i].id = p.id) = k
    BY <1>1, <1>2, <1>3
  <1>. QED
    BY <1>1, <1>2, <1>4 DEF Named, Ids

LEMMA MergeRecordCovers ==
  ASSUME NEW list \in Seq(NodeRecord), NEW p \in NodeRecord
  PROVE  /\ Covers(MergeRecord(list, p), p)
         /\ \A q : Covers(list, q) => Covers(MergeRecord(list, p), q)
  <1>1. PICK n \in Nat : n = Len(list) /\ DOMAIN list = 1..n
                         /\ \A i \in 1..n : list[i] \in NodeRecord
    OBVIOUS
  <1>2. PICK m : m = MergeRecord(list, p)
    OBVIOUS
  <1>3. CASE p.id \in Ids(list)
    <2>1. m = [i \in 1..n |-> IF list[i].id = p.id THEN Extended(list[i], p.terms) ELSE list[i]]
      BY <1>1, <1>2, <1>3 DEF MergeRecord, Extended
    <2>2. p.terms \in SUBSET STRING
      BY DEF NodeRecord
    <2>3. \A i \in 1..n : /\ m[i].id = list[i].id /\ list[i].terms \subseteq m[i].terms
                          /\ list[i].id = p.id => p.terms \subseteq m[i].terms
      BY <1>1, <2>1, <2>2, ExtendedFacts
    <2>4. ToSet(m) = {m[i] : i \in 1..n} /\ ToSet(list) = {list[i] : i \in 1..n}
      BY <1>1, <2>1 DEF ToSet
    <2>5. Covers(m, p)
      BY <1>1, <1>3, <2>3, <2>4 DEF Covers, Ids
    <2>6. \A q : Covers(list, q) => Covers(m, q)
      BY <2>3, <2>4 DEF Covers
    <2>. QED
      BY <1>2, <2>5, <2>6
  <1>4. CASE p.id \notin Ids(list)
    <2>1. ToSet(m) = ToSet(list) \cup {p}
      BY <1>2, <1>4, AppendFacts DEF MergeRecord
    <2>. QED
      BY <1>2, <2>1 DEF Covers
  <1>. QED
    BY <1>3, <1>4

\* MergeRecord adds a node, or its terms to the node with its id.
LEMMA MergeRecordFacts ==
  ASSUME NEW list \in Seq(NodeRecord), NEW p \in NodeRecord
  PROVE  /\ MergeRecord(list, p) \in Seq(NodeRecord)
         /\ Ids(MergeRecord(list, p)) = Ids(list) \cup {p.id}
         /\ UniqueIds(list) => UniqueIds(MergeRecord(list, p))
  <1>. DEFINE m == MergeRecord(list, p)
  <1>1. PICK n \in Nat : n = Len(list) /\ DOMAIN list = 1..n
                         /\ \A i \in 1..n : list[i] \in NodeRecord
    OBVIOUS
  <1>2. CASE p.id \in Ids(list)
    <2>1. m = [i \in 1..n |-> IF list[i].id = p.id THEN Extended(list[i], p.terms) ELSE list[i]]
      BY <1>1, <1>2 DEF MergeRecord, Extended
    <2>2. p.terms \in SUBSET STRING
      BY DEF NodeRecord
    <2>. HIDE DEF m
    <2>3. \A i \in 1..n : m[i] \in NodeRecord /\ m[i].id = list[i].id
      BY <1>1, <2>1, <2>2, ExtendedFacts
    <2>4. m \in Seq(NodeRecord) /\ DOMAIN m = 1..n /\ Len(m) = n
      BY <2>1, <2>3
    <2>5. Ids(m) = Ids(list)
      BY <1>1, <2>3, <2>4 DEF Ids
    <2>6. UniqueIds(m) <=> UniqueIds(list)
      BY <1>1, <2>4, <2>5 DEF UniqueIds
    <2>. QED
      BY <1>2, <2>4, <2>5, <2>6 DEF m
  <1>3. CASE p.id \notin Ids(list)
    <2>1. m = Append(list, p)
      BY <1>3 DEF MergeRecord
    <2>. HIDE DEF m
    <2>2. /\ m \in Seq(NodeRecord) /\ DOMAIN m = 1..(n + 1) /\ Len(m) = n + 1 /\ m[n + 1] = p
          /\ \A i \in 1..n : m[i] = list[i]
      BY <1>1, <2>1, AppendFacts
    <2>3. \A i \in 1..(n + 1) : i \in 1..n \/ i = n + 1
      OBVIOUS
    <2>4. Ids(m) = Ids(list) \cup {p.id}
      <3>1. \A i \in 1..n : i \in 1..(n + 1)
        OBVIOUS
      <3>. QED
        BY <1>1, <2>2, <2>3, <3>1 DEF Ids
    <2>5. ASSUME UniqueIds(list) PROVE UniqueIds(m)
      <3>1. \A i, j \in 1..n : list[i].id = list[j].id => i = j
        BY <1>1, <2>5, UniqueIdsDistinct
      <3>2. \A i \in 1..n : list[i].id # p.id
        BY <1>1, <1>3 DEF Ids
      <3>3. \A i, j \in 1..(n + 1) : m[i].id = m[j].id => i = j
        BY <2>2, <2>3, <3>1, <3>2
      <3>. QED
        BY <2>2, <3>3, UniqueIdsDistinct
    <2>. QED
      BY <2>2, <2>4, <2>5 DEF m
  <1>. QED
    BY <1>2, <1>3

\* The merge as a recursion along the list.
MergesAlong(f, records) ==
    f[0] = <<>> /\ \A k \in 1..Len(records) : f[k] = MergeRecord(f[k - 1], records[k])

LEMMA MergeRecordsSteps ==
  ASSUME NEW records \in Seq(NodeRecord)
  PROVE  \E f \in [0..Len(records) -> Seq(NodeRecord)] :
            MergesAlong(f, records) /\ MergeRecords(records) = f[Len(records)]
  <1>1. PICK n \in Nat : n = Len(records) /\ DOMAIN records = 1..n
                         /\ \A i \in 1..n : records[i] \in NodeRecord
    OBVIOUS
  <1>. DEFINE Y == Seq(NodeRecord)
              step == [i \in 1..n |-> [y \in Y |-> MergeRecord(y, records[i])]]
              Rec(it) == [S \in SUBSET (DOMAIN records) |-> IF S = {} THEN <<>>
                            ELSE MergeRecord(it[S \ {Max(S)}], records[Max(S)])]
              F == CHOOSE it : it = Rec(it)
  <1>2. \A i \in 1..n, y \in Y : step[i][y] = MergeRecord(y, records[i])
    OBVIOUS
  <1>3. \A i \in 1..n, y \in Y : MergeRecord(y, records[i]) \in Y
    BY <1>1, MergeRecordFacts
  <1>4. MergeRecords(records) = F[DOMAIN records]
    BY Zenon DEF MergeRecords, FoldLeft, MapThenFoldSet, F
  <1>a. PICK base \in Y : base = <<>>
    BY EmptyList
  <1>. HIDE DEF step, F, Y
  <1>5. Preserves(step, 1..n, Y)
    BY <1>2, <1>3 DEF Preserves
  <1>6. PICK it \in [SUBSET (1..n) -> Y] : IsListFold(it, n, base, step)
    BY <1>5, <1>a, ListFoldExists
  <1>7. it = Rec(it)
    <2>1. ASSUME NEW S \in SUBSET (1..n), S # {}
          PROVE  it[S] = MergeRecord(it[S \ {Max(S)}], records[Max(S)])
      <3>1. Max(S) \in 1..n
        BY <2>1, MaxIsMember
      <3>2. it[S \ {Max(S)}] \in Y
        BY <1>1, <3>1
      <3>3. it[S] = step[Max(S)][it[S \ {Max(S)}]]
        BY <1>6, <2>1 DEF IsListFold
      <3>. QED
        BY <1>2, <3>1, <3>2, <3>3
    <2>2. it[{}] = <<>>
      BY <1>6, <1>a DEF IsListFold
    <2>3. \A S \in SUBSET (1..n) : it[S] = IF S = {} THEN <<>>
                            ELSE MergeRecord(it[S \ {Max(S)}], records[Max(S)])
      BY <2>1, <2>2
    <2>4. it = [S \in SUBSET (1..n) |-> IF S = {} THEN <<>>
                            ELSE MergeRecord(it[S \ {Max(S)}], records[Max(S)])]
      BY <2>3
    <2>. QED
      BY <1>1, <2>4
  <1>8. F = Rec(F)
    <2>. HIDE DEF Rec
    <2>. QED
      BY <1>7 DEF F
  <1>9. FoldsWithin(F, n, base, step, Y)
    <2>1. F[{}] = base
      BY <1>8, <1>a
    <2>2. ASSUME NEW S \in SUBSET (1..n), S # {}, F[S \ {Max(S)}] \in Y
          PROVE  F[S] = step[Max(S)][F[S \ {Max(S)}]]
      <3>1. Max(S) \in 1..n
        BY <2>2, MaxIsMember
      <3>2. F[S] = MergeRecord(F[S \ {Max(S)}], records[Max(S)])
        BY <1>1, <1>8, <2>2
      <3>. QED
        BY <1>1, <1>2, <2>2, <3>1, <3>2
    <2>. QED
      BY <2>1, <2>2 DEF FoldsWithin
  <1>10. PICK f \in [0..n -> Y] : IsRecursion(f, n, base, step) /\ F[1..n] = f[n]
    BY <1>5, <1>9, <1>a, FoldIsRecursion, SMTT(30)
  <1>11. MergesAlong(f, records)
    <2>1. ASSUME NEW k \in 1..n PROVE f[k] = MergeRecord(f[k - 1], records[k])
      <3>1. f[k] = step[k][f[k - 1]] /\ k - 1 \in 0..n
        BY <1>10 DEF IsRecursion
      <3>. QED
        BY <1>2, <3>1
    <2>. QED
      BY <1>1, <1>10, <1>a, <2>1 DEF MergesAlong, IsRecursion
  <1>. QED
    BY <1>1, <1>4, <1>10, <1>11 DEF Y

\* Merged records have the ids of the records, each once, and all their terms.
LEMMA MergeRecordsFacts ==
  ASSUME NEW records \in Seq(NodeRecord)
  PROVE  /\ MergeRecords(records) \in Seq(NodeRecord)
         /\ UniqueIds(MergeRecords(records))
         /\ Ids(MergeRecords(records)) = Ids(records)
         /\ \A p \in ToSet(records) : Covers(MergeRecords(records), p)
  <1>1. PICK n \in Nat : n = Len(records) /\ DOMAIN records = 1..n
                         /\ \A i \in 1..n : records[i] \in NodeRecord
    OBVIOUS
  <1>2. PICK f \in [0..n -> Seq(NodeRecord)] :
            MergesAlong(f, records) /\ MergeRecords(records) = f[n]
    BY <1>1, MergeRecordsSteps
  <1>. DEFINE Holds(k) == /\ UniqueIds(f[k]) /\ Ids(f[k]) = {records[i].id : i \in 1..k}
                          /\ \A i \in 1..k : Covers(f[k], records[i])
              G == {k \in Nat : k <= n => Holds(k)}
  <1>3. 0 \in G
    <2>1. f[0] = <<>>
      BY <1>2 DEF MergesAlong
    <2>2. Ids(<<>>) = {}
      BY DEF Ids
    <2>3. UniqueIds(<<>>)
      BY <2>2, FS_EmptySet DEF UniqueIds
    <2>. QED
      BY <2>1, <2>2, <2>3
  <1>4. ASSUME NEW k \in Nat, k \in G PROVE k + 1 \in G
    <2>. SUFFICES ASSUME k + 1 <= n PROVE Holds(k + 1)
      OBVIOUS
    <2>1. k + 1 \in 1..n /\ k \in 0..n /\ (k + 1) - 1 = k
      BY <1>1
    <2>2. f[k + 1] = MergeRecord(f[k], records[k + 1])
      BY <1>1, <1>2, <2>1 DEF MergesAlong
    <2>3. /\ UniqueIds(f[k]) /\ Ids(f[k]) = {records[i].id : i \in 1..k}
          /\ \A i \in 1..k : Covers(f[k], records[i])
      BY <1>4, <2>1
    <2>4. f[k] \in Seq(NodeRecord) /\ records[k + 1] \in NodeRecord
      BY <1>1, <2>1
    <2>5. UniqueIds(f[k + 1]) /\ Ids(f[k + 1]) = Ids(f[k]) \cup {records[k + 1].id}
      BY <2>2, <2>3, <2>4, MergeRecordFacts
    <2>6. \A i : i \in 1..(k + 1) <=> i \in 1..k \/ i = k + 1
      BY <2>1
    <2>7. \A i \in 1..(k + 1) : Covers(f[k + 1], records[i])
      BY <2>2, <2>3, <2>4, <2>6, MergeRecordCovers
    <2>8. {records[i].id : i \in 1..(k + 1)} = {records[i].id : i \in 1..k} \cup {records[k + 1].id}
      BY <2>6
    <2>9. Ids(f[k + 1]) = {records[i].id : i \in 1..(k + 1)}
      BY <2>3, <2>5, <2>8
    <2>. QED
      BY <2>5, <2>7, <2>9
  <1>. HIDE DEF G
  <1>5. n \in G
    BY <1>3, <1>4, InductionOnNat
  <1>6. Holds(n)
    BY <1>5 DEF G
  <1>7. Ids(records) = {records[i].id : i \in 1..n}
    BY <1>1 DEF Ids
  <1>8. PICK m \in Seq(NodeRecord) : m = f[n]
    OBVIOUS
  <1>9. ToSet(records) = {records[i] : i \in 1..n}
    BY <1>1 DEF ToSet
  <1>. QED
    BY <1>2, <1>6, <1>7, <1>8, <1>9

(***************************************************************************)
(* Endpoints                                                               *)
(***************************************************************************)
Refs == Name \X {"source", "target"}
EndpointRecord == [ref : Refs, text : Texts, id : NameOrNone]

LEMMA LeastMember ==
  ASSUME NEW S \in SUBSET Nat, S # {}
  PROVE  Min(S) \in S
  <1>1. \E n \in S : \A m \in S : n <= m
    BY LeastNat
  <1>. QED
    BY <1>1 DEF Min

LEMMA IdsAreNames ==
  ASSUME NEW list \in Seq(NodeRecord)
  PROVE  Ids(list) \subseteq Name /\ None \notin Ids(list)
  <1>1. \A i \in DOMAIN list : list[i] \in NodeRecord
    OBVIOUS
  <1>2. \A p \in NodeRecord : p.id \in Name /\ p.id # None
    BY DEF NodeRecord, Name
  <1>. QED
    BY <1>1, <1>2 DEF Ids

LEMMA OwnerFacts ==
  ASSUME NEW list \in Seq(NodeRecord), NEW term
  PROVE  Owner(term, list) \in Ids(list) \cup {None}
  <1>. DEFINE with == {i \in DOMAIN list : term \in list[i].terms}
  <1>1. with \in SUBSET Nat /\ with \subseteq DOMAIN list
    OBVIOUS
  <1>2. CASE with = {}
    BY <1>2 DEF Owner
  <1>3. CASE with # {}
    <2>. HIDE DEF with
    <2>1. Min(with) \in DOMAIN list
      BY <1>1, <1>3, LeastMember
    <2>2. Owner(term, list) = list[Min(with)].id
      BY <1>3 DEF Owner, with
    <2>. QED
      BY <2>1, <2>2 DEF Ids
  <1>. QED
    BY <1>2, <1>3

LEMMA NegatesFacts ==
  ASSUME NEW list \in Seq(NodeRecord), NEW text
  PROVE  Negates(text, list) \in NameOrNone
  <1>. DEFINE bases == {n[2] : n \in {x \in TextNegates : x[1] = text}}
  <1>1. bases \subseteq Texts
    BY TextsAssumption
  <1>2. CASE bases = {}
    BY <1>2 DEF Negates, NameOrNone
  <1>3. CASE bases # {}
    <2>1. PICK b \in bases : b = CHOOSE x \in bases : TRUE
      BY <1>3
    <2>. HIDE DEF bases
    <2>2. Negates(text, list) = IF Owner(b, list) # None THEN Owner(b, list) ELSE StableId[b]
      BY <1>3, <2>1 DEF Negates, bases
    <2>3. StableId[b] \in Name
      BY <1>1, TextsAssumption
    <2>. QED
      BY <2>2, <2>3, OwnerFacts, IdsAreNames DEF NameOrNone
  <1>. QED
    BY <1>2, <1>3

LEMMA NewRecordFacts ==
  ASSUME NEW list \in Seq(NodeRecord), NEW id \in Name, NEW label \in Name
  PROVE  NewRecord(id, label, list) \in NodeRecord /\ label \in NewRecord(id, label, list).terms
  <1>1. Negates(label, list) \in NameOrNone
    BY NegatesFacts
  <1>2. {id, label} \in SUBSET STRING
    BY DEF Name
  <1>. QED
    BY <1>1, <1>2 DEF NewRecord, NodeRecord

LEMMA RecordForEndpointFacts ==
  ASSUME NEW list \in Seq(NodeRecord), NEW e \in EndpointRecord
  PROVE  RecordForEndpoint(e, list) \in NodeRecord /\ e.text \in RecordForEndpoint(e, list).terms
  <1>1. e.text \in Texts /\ e.text \in Name /\ {e.text} \in SUBSET STRING /\ e.id \in NameOrNone
    BY TextsAssumption DEF EndpointRecord, Name
  <1>2. PICK owner : owner = IF e.id \in Ids(list) THEN e.id ELSE Owner(e.text, list)
    OBVIOUS
  <1>3. owner \in Ids(list) \cup {None}
    BY <1>2, OwnerFacts
  <1>4. CASE owner # None
    <2>1. PICK p : p = Named(list, owner)
      OBVIOUS
    <2>2. p \in NodeRecord
      BY <1>3, <1>4, <2>1, NamedFacts
    <2>3. RecordForEndpoint(e, list) = Extended(p, {e.text})
      BY <1>2, <1>4, <2>1 DEF RecordForEndpoint, Extended
    <2>. QED
      BY <1>1, <2>2, <2>3, ExtendedFacts
  <1>5. CASE owner = None
    <2>1. PICK id : id = IF e.id # None THEN e.id ELSE StableId[e.text]
      OBVIOUS
    <2>2. id \in Name
      BY <1>1, <2>1, TextsAssumption DEF NameOrNone
    <2>3. RecordForEndpoint(e, list) = NewRecord(id, e.text, list)
      BY <1>2, <1>5, <2>1 DEF RecordForEndpoint
    <2>. QED
      BY <1>1, <2>2, <2>3, NewRecordFacts
  <1>. QED
    BY <1>4, <1>5

LEMMA KnownIdForFacts ==
  ASSUME NEW list \in Seq(NodeRecord), NEW d, NEW eps
  PROVE  KnownIdFor(d, eps, list) \in Ids(list) \cup {None}
  <1>. DEFINE terms == {d.label} \cup d.aliases \cup {e.text : e \in eps}
                           \cup ({e.id : e \in eps} \ {None})
              owners == {Owner(t, list) : t \in terms} \ {None}
  <1>1. owners \subseteq Ids(list)
    BY OwnerFacts
  <1>2. CASE d.id \in Ids(list)
    BY <1>2 DEF KnownIdFor
  <1>3. CASE d.id \notin Ids(list) /\ Cardinality(owners) = 1
    <2>1. owners # {}
      <3>1. PICK o : o = owners
        OBVIOUS
      <3>2. Cardinality(o) = 1
        BY <1>3, <3>1
      <3>3. o # {}
        <4>. SUFFICES ASSUME o = {} PROVE FALSE
          OBVIOUS
        <4>1. Cardinality(o) = 0
          BY FS_EmptySet
        <4>. QED
          BY <3>2, <4>1
      <3>. QED
        BY <3>1, <3>3
    <2>2. KnownIdFor(d, eps, list) = CHOOSE o \in owners : TRUE
      BY <1>3 DEF KnownIdFor
    <2>. QED
      BY <1>1, <2>1, <2>2
  <1>4. CASE d.id \notin Ids(list) /\ Cardinality(owners) # 1
    BY <1>4 DEF KnownIdFor
  <1>. QED
    BY <1>2, <1>3, <1>4

LEMMA RecordForDecisionFacts ==
  ASSUME NEW list \in Seq(NodeRecord), NEW d \in DecisionRecord, NEW eps \in SUBSET EndpointRecord
  PROVE  LET r == RecordForDecision(d, eps, list)
         IN  r.record \in NodeRecord /\ (r.ok => \A e \in eps : e.text \in r.record.terms)
  <1>. DEFINE merged == {d.label} \cup d.aliases \cup {e.text : e \in eps}
  <1>1. d.label \in Texts /\ d.label \in Name /\ d.aliases \in SUBSET STRING
    BY TextsAssumption DEF DecisionRecord
  <1>2. merged \in SUBSET STRING
    <2>1. \A e \in eps : e.text \in STRING
      BY TextsAssumption DEF EndpointRecord, Name
    <2>. QED
      BY <1>1, <2>1 DEF Name
  <1>3. PICK owner : owner = KnownIdFor(d, eps, list)
    OBVIOUS
  <1>4. PICK record : record = IF owner # None THEN Named(list, owner)
                               ELSE NewRecord(StableId[d.label], d.label, list)
    OBVIOUS
  <1>5. record \in NodeRecord
    <2>1. owner \in Ids(list) \cup {None}
      BY <1>3, KnownIdForFacts
    <2>2. CASE owner # None
      BY <1>4, <2>1, <2>2, NamedFacts
    <2>3. CASE owner = None
      <3>1. StableId[d.label] \in Name
        BY <1>1, TextsAssumption
      <3>. QED
        BY <1>1, <1>4, <2>3, <3>1, NewRecordFacts
    <2>. QED
      BY <2>2, <2>3
  <1>. HIDE DEF merged
  <1>6. PICK r : r = RecordForDecision(d, eps, list)
    OBVIOUS
  <1>7. \/ r = [ok |-> FALSE, record |-> record]
        \/ r = [ok |-> TRUE, record |-> Extended(record, merged)]
    BY <1>3, <1>4, <1>6, Zenon DEF RecordForDecision, Extended, merged
  <1>8. CASE r = [ok |-> FALSE, record |-> record]
    <2>1. ~r.ok /\ r.record = record
      BY <1>8, Zenon
    <2>. QED
      BY <1>5, <1>6, <2>1
  <1>9. CASE r = [ok |-> TRUE, record |-> Extended(record, merged)]
    <2>1. r.record = Extended(record, merged)
      BY <1>9, Zenon
    <2>2. \A e \in eps : e.text \in merged
      BY DEF merged
    <2>. QED
      BY <1>2, <1>5, <1>6, <2>1, <2>2, ExtendedFacts
  <1>. QED
    BY <1>7, <1>8, <1>9

\* The two endpoints of a candidate.
EndpointsOf(c) ==
    << [ref |-> <<c.id, "source">>, text |-> c.src, id |-> c.sid],
       [ref |-> <<c.id, "target">>, text |-> c.tgt, id |-> c.tid] >>

LEMMA PairToSet ==
  ASSUME NEW x, NEW y
  PROVE  ToSet(<<x, y>>) = {x, y}
  <1>1. PICK s : s = <<x, y>>
    OBVIOUS
  <1>2. DOMAIN s = {1, 2} /\ s[1] = x /\ s[2] = y
    BY <1>1
  <1>. QED
    BY <1>1, <1>2 DEF ToSet

LEMMA CandidateEndpointsFacts ==
  ASSUME NEW cands \in Seq(CandidateRecord)
  PROVE  /\ CandidateEndpoints(cands) \in Seq(EndpointRecord)
         /\ ToSet(CandidateEndpoints(cands)) = UNION {ToSet(EndpointsOf(cands[i])) : i \in DOMAIN cands}
  <1>1. PICK n \in Nat : n = Len(cands) /\ DOMAIN cands = 1..n
                         /\ \A i \in 1..n : cands[i] \in CandidateRecord
    OBVIOUS
  <1>2. PICK seqs : seqs = [i \in 1..n |-> EndpointsOf(cands[i])]
    OBVIOUS
  <1>3. ASSUME NEW c \in CandidateRecord PROVE EndpointsOf(c) \in Seq(EndpointRecord)
    <2>1. /\ [ref |-> <<c.id, "source">>, text |-> c.src, id |-> c.sid] \in EndpointRecord
          /\ [ref |-> <<c.id, "target">>, text |-> c.tgt, id |-> c.tid] \in EndpointRecord
      BY DEF CandidateRecord, RelationRecord, EndpointRecord, Refs
    <2>. QED
      BY <2>1 DEF EndpointsOf
  <1>4. seqs \in Seq(Seq(EndpointRecord)) /\ DOMAIN seqs = 1..n
    BY <1>1, <1>2, <1>3
  <1>5. CandidateEndpoints(cands) = FlattenSeq(seqs)
    BY <1>1, <1>2 DEF CandidateEndpoints, EndpointsOf
  <1>6. UNION {ToSet(seqs[i]) : i \in DOMAIN seqs}
            = UNION {ToSet(EndpointsOf(cands[i])) : i \in DOMAIN cands}
    BY <1>1, <1>2, <1>4
  <1>. QED
    BY <1>4, <1>5, <1>6, FlattenFacts

LEMMA PutAllRefOfSteps ==
  ASSUME NEW V, NEW s \in Seq(V), NEW new \in Seq(V),
         NEW key, \A x \in V : key[x] = RefOf(x)
  PROVE  \E f \in [0..Len(new) -> Seq(V)] :
            PutsAlong(f, key, s, new) /\ PutAll(RefOf, s, new) = f[Len(new)]
  <1>1. PICK n \in Nat : n = Len(new) /\ DOMAIN new = 1..n /\ \A i \in 1..n : new[i] \in V
    OBVIOUS
  <1>. DEFINE step == [i \in 1..n |-> [y \in Seq(V) |-> PutBy(key, y, new[i])]]
              Rec(it) == [S \in SUBSET (DOMAIN new) |-> IF S = {} THEN s
                            ELSE Put(RefOf, it[S \ {Max(S)}], new[Max(S)])]
              F == CHOOSE it : it = Rec(it)
  <1>2. \A i \in 1..n, y \in Seq(V) : step[i][y] = PutBy(key, y, new[i])
    OBVIOUS
  <1>3. \A i \in 1..n, y \in Seq(V) : PutBy(key, y, new[i]) \in Seq(V)
    BY <1>1, PutByFacts
  <1>4. \A y \in Seq(V), x \in V : Put(RefOf, y, x) = PutBy(key, y, x)
    <2>. SUFFICES ASSUME NEW y \in Seq(V), NEW x \in V PROVE Put(RefOf, y, x) = PutBy(key, y, x)
      OBVIOUS
    <2>. DEFINE at == {i \in DOMAIN y : RefOf(y[i]) = RefOf(x)}
                by == {i \in DOMAIN y : key[y[i]] = key[x]}
                put(S) == IF S = {} THEN Append(y, x)
                          ELSE [y EXCEPT ![CHOOSE i \in S : \A k \in S : k <= i] = x]
    <2>1. at = by
      <3>1. \A i \in DOMAIN y : y[i] \in V
        OBVIOUS
      <3>. QED
        BY <3>1
    <2>2. PutBy(key, y, x) = put(by)
      BY DEF PutBy
    <2>3. Put(RefOf, y, x) = put(at)
      BY DEF Put
    <2>. HIDE DEF put, at, by
    <2>. QED
      BY <2>1, <2>2, <2>3
  <1>. HIDE DEF step, F
  <1>5. Preserves(step, 1..n, Seq(V))
    BY <1>2, <1>3 DEF Preserves
  <1>6. PICK it \in [SUBSET (1..n) -> Seq(V)] : IsListFold(it, n, s, step)
    BY <1>5, ListFoldExists
  <1>7. it = Rec(it)
    <2>1. ASSUME NEW S \in SUBSET (1..n), S # {}
          PROVE  it[S] = Put(RefOf, it[S \ {Max(S)}], new[Max(S)])
      <3>1. Max(S) \in 1..n
        BY <2>1, MaxIsMember
      <3>2. it[S \ {Max(S)}] \in Seq(V) /\ new[Max(S)] \in V
        BY <1>1, <3>1
      <3>3. it[S] = step[Max(S)][it[S \ {Max(S)}]]
        BY <1>6, <2>1 DEF IsListFold
      <3>. QED
        BY <1>2, <1>4, <3>1, <3>2, <3>3
    <2>2. it[{}] = s
      BY <1>6 DEF IsListFold
    <2>3. \A S \in SUBSET (1..n) : it[S] = IF S = {} THEN s
                            ELSE Put(RefOf, it[S \ {Max(S)}], new[Max(S)])
      BY <2>1, <2>2
    <2>4. it = [S \in SUBSET (1..n) |-> IF S = {} THEN s
                            ELSE Put(RefOf, it[S \ {Max(S)}], new[Max(S)])]
      BY <2>3
    <2>. QED
      BY <1>1, <2>4
  <1>8. F = Rec(F)
    <2>. HIDE DEF Rec
    <2>. QED
      BY <1>7 DEF F
  <1>9. FoldsWithin(F, n, s, step, Seq(V))
    <2>1. F[{}] = s
      BY <1>8
    <2>2. ASSUME NEW S \in SUBSET (1..n), S # {}, F[S \ {Max(S)}] \in Seq(V)
          PROVE  F[S] = step[Max(S)][F[S \ {Max(S)}]]
      <3>1. Max(S) \in 1..n
        BY <2>2, MaxIsMember
      <3>2. F[S] = Put(RefOf, F[S \ {Max(S)}], new[Max(S)])
        BY <1>1, <1>8, <2>2
      <3>. QED
        BY <1>1, <1>2, <1>4, <2>2, <3>1, <3>2
    <2>. QED
      BY <2>1, <2>2 DEF FoldsWithin
  <1>10. PICK f \in [0..n -> Seq(V)] : IsRecursion(f, n, s, step) /\ F[1..n] = f[n]
    BY <1>5, <1>9, FoldIsRecursion
  <1>11. PutsAlong(f, key, s, new)
    <2>1. ASSUME NEW k \in 1..n PROVE f[k] = PutBy(key, f[k - 1], new[k])
      <3>1. f[k] = step[k][f[k - 1]] /\ k - 1 \in 0..n
        BY <1>10 DEF IsRecursion
      <3>. QED
        BY <1>2, <3>1
    <2>. QED
      BY <1>1, <1>10, <2>1 DEF PutsAlong, IsRecursion
  <1>12. PutAll(RefOf, s, new) = F[DOMAIN new]
    BY Zenon DEF PutAll, FoldLeft, MapThenFoldSet, F
  <1>. QED
    BY <1>1, <1>10, <1>11, <1>12

RefsOfCandidates(cands) == {<<cands[i].id, part>> : i \in DOMAIN cands, part \in {"source", "target"}}

OnePerRef(eps) == \A x, y \in ToSet(eps) : x.ref = y.ref => x = y

\* The endpoints of the candidates, and both refs of each.
LEMMA EndpointsFacts ==
  ASSUME NEW cands \in Seq(CandidateRecord)
  PROVE  /\ Endpoints(cands) \in Seq(EndpointRecord)
         /\ ToSet(Endpoints(cands)) \subseteq ToSet(CandidateEndpoints(cands))
         /\ RefsOf(Endpoints(cands)) = RefsOfCandidates(cands)
         /\ OnePerRef(Endpoints(cands))
  <1>1. PICK all \in Seq(EndpointRecord) : all = CandidateEndpoints(cands)
    BY CandidateEndpointsFacts
  <1>2. PICK key : key = [e \in EndpointRecord |-> RefOf(e)]
    OBVIOUS
  <1>3. PICK base \in Seq(EndpointRecord) : base = <<>>
    BY EmptyList
  <1>4. PICK f \in [0..Len(all) -> Seq(EndpointRecord)] :
            PutsAlong(f, key, base, all) /\ PutAll(RefOf, base, all) = f[Len(all)]
    <2>1. \A x \in EndpointRecord : key[x] = RefOf(x)
      BY <1>2
    <2>. QED
      BY <2>1, PutAllRefOfSteps
  <1>5. PICK eps \in Seq(EndpointRecord) : eps = f[Len(all)]
    OBVIOUS
  <1>6. Endpoints(cands) = eps
    BY <1>1, <1>3, <1>4, <1>5 DEF Endpoints
  <1>7. ToSet(base) = {}
    BY <1>3, EmptyList
  <1>8. ToSet(eps) \subseteq ToSet(all) /\ KeySet(eps, key) = KeySet(all, key)
    <2>1. KeySet(base, key) = {}
      BY <1>7 DEF KeySet
    <2>. QED
      BY <1>4, <1>5, <1>7, <2>1, PutsFacts
  <1>9. ASSUME NEW list \in Seq(EndpointRecord) PROVE KeySet(list, key) = {e.ref : e \in ToSet(list)}
    <2>1. \A e \in ToSet(list) : key[e] = e.ref
      BY <1>2 DEF ToSet, RefOf
    <2>. QED
      BY <2>1 DEF KeySet
  <1>10. RefsOf(eps) = {e.ref : e \in ToSet(all)}
    BY <1>8, <1>9 DEF RefsOf
  <1>11. {e.ref : e \in ToSet(all)} = RefsOfCandidates(cands)
    <2>1. ToSet(all) = UNION {ToSet(EndpointsOf(cands[i])) : i \in DOMAIN cands}
      BY <1>1, CandidateEndpointsFacts
    <2>2. ASSUME NEW c
          PROVE  {e.ref : e \in ToSet(EndpointsOf(c))} = {<<c.id, "source">>, <<c.id, "target">>}
      <3>1. PICK x : x = [ref |-> <<c.id, "source">>, text |-> c.src, id |-> c.sid]
        OBVIOUS
      <3>2. PICK y : y = [ref |-> <<c.id, "target">>, text |-> c.tgt, id |-> c.tid]
        OBVIOUS
      <3>3. ToSet(EndpointsOf(c)) = {x, y}
        BY <3>1, <3>2, PairToSet DEF EndpointsOf
      <3>4. x.ref = <<c.id, "source">> /\ y.ref = <<c.id, "target">>
        BY <3>1, <3>2
      <3>. QED
        BY <3>3, <3>4
    <2>3. ASSUME NEW i \in DOMAIN cands
          PROVE  {e.ref : e \in ToSet(EndpointsOf(cands[i]))}
                    = {<<cands[i].id, part>> : part \in {"source", "target"}}
      BY <2>2
    <2>4. PICK E : E = [i \in DOMAIN cands |-> ToSet(EndpointsOf(cands[i]))]
      OBVIOUS
    <2>5. PICK R : R = [i \in DOMAIN cands |-> {<<cands[i].id, part>> : part \in {"source", "target"}}]
      OBVIOUS
    <2>6. ToSet(all) = UNION {E[i] : i \in DOMAIN cands}
      BY <2>1, <2>4
    <2>7. RefsOfCandidates(cands) = UNION {R[i] : i \in DOMAIN cands}
      BY <2>5 DEF RefsOfCandidates
    <2>8. \A i \in DOMAIN cands : {e.ref : e \in E[i]} = R[i]
      BY <2>3, <2>4, <2>5
    <2>9. ASSUME NEW D, NEW F, NEW G, \A i \in D : {e.ref : e \in F[i]} = G[i]
          PROVE  {e.ref : e \in UNION {F[i] : i \in D}} = UNION {G[i] : i \in D}
      BY <2>9
    <2>. QED
      BY <2>6, <2>7, <2>8, <2>9
  <1>12. OnePerRef(eps)
    <2>1. Distinct(base, key)
      BY <1>3 DEF Distinct
    <2>2. Distinct(eps, key)
      BY <1>4, <1>5, <2>1, PutsFacts
    <2>3. \A i \in DOMAIN eps : key[eps[i]] = eps[i].ref
      BY <1>2 DEF RefOf
    <2>. QED
      BY <2>2, <2>3 DEF OnePerRef, Distinct, ToSet
  <1>. QED
    BY <1>1, <1>6, <1>8, <1>10, <1>11, <1>12

(***************************************************************************)
(* Canonicalization                                                        *)
(***************************************************************************)
LEMMA DecisionsTaken ==
  ASSUME NEW decided \in Seq(DecisionRecord), NEW eps, NEW list, NEW Y, NEW start \in Y,
         \A s \in Y, u \in DecisionRecord : Taken(s, u, eps, list) \in Y
  PROVE  AllTaken(start, decided, eps, list) \in Y
  <1>1. PICK n \in Nat : n = Len(decided) /\ DOMAIN decided = 1..n /\ \A i \in 1..n : decided[i] \in DecisionRecord
    OBVIOUS
  <1>. DEFINE step == [i \in 1..n |-> [s \in Y |-> Taken(s, decided[i], eps, list)]]
              Rec(it) == [S \in SUBSET (DOMAIN decided) |-> IF S = {} THEN start
                            ELSE Taken(it[S \ {Max(S)}], decided[Max(S)], eps, list)]
              F == CHOOSE it : it = Rec(it)
  <1>2. \A i \in 1..n, s \in Y : step[i][s] = Taken(s, decided[i], eps, list)
    OBVIOUS
  <1>3. \A i \in 1..n, s \in Y : Taken(s, decided[i], eps, list) \in Y
    BY <1>1
  <1>12. AllTaken(start, decided, eps, list) = F[DOMAIN decided]
    BY Zenon DEF AllTaken, FoldLeft, MapThenFoldSet, F
  <1>. HIDE DEF step, F
  <1>5. Preserves(step, 1..n, Y)
    BY <1>2, <1>3 DEF Preserves
  <1>6. PICK it \in [SUBSET (1..n) -> Y] : IsListFold(it, n, start, step)
    BY <1>5, ListFoldExists
  <1>7. it = Rec(it)
    <2>1. ASSUME NEW S \in SUBSET (1..n), S # {}
          PROVE  it[S] = Taken(it[S \ {Max(S)}], decided[Max(S)], eps, list)
      <3>1. Max(S) \in 1..n
        BY <2>1, MaxIsMember
      <3>2. it[S \ {Max(S)}] \in Y
        BY <1>1, <3>1
      <3>3. it[S] = step[Max(S)][it[S \ {Max(S)}]]
        BY <1>6, <2>1 DEF IsListFold
      <3>. QED
        BY <1>2, <3>1, <3>2, <3>3
    <2>2. it[{}] = start
      BY <1>6 DEF IsListFold
    <2>3. \A S \in SUBSET (1..n) : it[S] = IF S = {} THEN start
                            ELSE Taken(it[S \ {Max(S)}], decided[Max(S)], eps, list)
      BY <2>1, <2>2
    <2>4. it = [S \in SUBSET (1..n) |-> IF S = {} THEN start
                            ELSE Taken(it[S \ {Max(S)}], decided[Max(S)], eps, list)]
      BY <2>3
    <2>. QED
      BY <1>1, <2>4
  <1>8. F = Rec(F)
    <2>. HIDE DEF Rec
    <2>. QED
      BY <1>7 DEF F
  <1>9. FoldsWithin(F, n, start, step, Y)
    <2>1. F[{}] = start
      BY <1>8
    <2>2. ASSUME NEW S \in SUBSET (1..n), S # {}, F[S \ {Max(S)}] \in Y
          PROVE  F[S] = step[Max(S)][F[S \ {Max(S)}]]
      <3>1. Max(S) \in 1..n
        BY <2>2, MaxIsMember
      <3>2. F[S] = Taken(F[S \ {Max(S)}], decided[Max(S)], eps, list)
        BY <1>1, <1>8, <2>2
      <3>. QED
        BY <1>1, <1>2, <2>2, <3>1, <3>2
    <2>. QED
      BY <2>1, <2>2 DEF FoldsWithin
  <1>10. PICK f \in [0..n -> Y] : IsRecursion(f, n, start, step) /\ F[1..n] = f[n]
    BY <1>5, <1>9, FoldIsRecursion
  <1>. QED
    BY <1>1, <1>10, <1>12

\* The node assigned to an endpoint has its text.
TextsIn(at, eps) == \A e \in ToSet(eps) : e.ref \in DOMAIN at => e.text \in at[e.ref].terms

\* What the decisions taken so far have assigned to the refs of the endpoints.
Assignments(eps) ==
    {a \in [ok : BOOLEAN, list : Seq(NodeRecord),
            at : UNION {[R -> NodeRecord] : R \in SUBSET RefsOf(eps)}] :
        (\A x \in DOMAIN a.at : a.at[x] \in ToSet(a.list)) /\ TextsIn(a.at, eps)}

LEMMA TakenFacts ==
  ASSUME NEW list \in Seq(NodeRecord), NEW eps \in Seq(EndpointRecord),
         NEW d \in DecisionRecord, NEW a \in Assignments(eps)
  PROVE  Taken(a, d, eps, list) \in Assignments(eps)
  <1>1. PICK E : E = {e \in ToSet(eps) : e.ref \in d.refs}
    OBVIOUS
  <1>2. E \in SUBSET EndpointRecord
    BY <1>1 DEF ToSet
  <1>3. PICK r : r = RecordForDecision(d, E, list)
    OBVIOUS
  <1>4. PICK p \in NodeRecord : p = r.record /\ (r.ok => \A e \in E : e.text \in p.terms)
    BY <1>2, <1>3, RecordForDecisionFacts
  <1>5. PICK refs : refs = RefsOf(eps)
    OBVIOUS
  <1>6. /\ a.ok \in BOOLEAN /\ a.list \in Seq(NodeRecord)
        /\ \A x \in DOMAIN a.at : a.at[x] \in ToSet(a.list)
        /\ TextsIn(a.at, eps)
    BY DEF Assignments
  <1>7. PICK R \in SUBSET refs : a.at \in [R -> NodeRecord]
    BY <1>5 DEF Assignments
  <1>8. CASE d.refs \subseteq refs /\ d.refs \cap DOMAIN a.at = {} /\ r.ok
    <2>1. PICK new : new = [x \in R \cup d.refs |-> IF x \in d.refs THEN p ELSE a.at[x]]
      OBVIOUS
    <2>2. Taken(a, d, eps, list) = [ok |-> a.ok, list |-> Append(a.list, p), at |-> new]
      BY <1>1, <1>3, <1>4, <1>5, <1>7, <1>8, <2>1 DEF Taken
    <2>3. new \in [R \cup d.refs -> NodeRecord] /\ R \cup d.refs \in SUBSET refs
      BY <1>7, <1>8, <2>1
    <2>4. Append(a.list, p) \in Seq(NodeRecord) /\ ToSet(Append(a.list, p)) = ToSet(a.list) \cup {p}
      BY <1>6, AppendFacts
    <2>5. \A x \in DOMAIN new : new[x] \in ToSet(Append(a.list, p))
      BY <1>6, <1>7, <2>1, <2>4
    <2>6. new \in UNION {[Q -> NodeRecord] : Q \in SUBSET refs}
      BY <2>3
    <2>7. PICK q : q = [ok |-> a.ok, list |-> Append(a.list, p), at |-> new]
      OBVIOUS
    <2>8. q \in [ok : BOOLEAN, list : Seq(NodeRecord), at : UNION {[Q -> NodeRecord] : Q \in SUBSET refs}]
      BY <1>6, <2>4, <2>6, <2>7
    <2>9. \A x \in DOMAIN q.at : q.at[x] \in ToSet(q.list)
      BY <2>5, <2>7
    <2>10. TextsIn(new, eps)
      BY <1>1, <1>4, <1>6, <1>7, <1>8, <2>1 DEF TextsIn
    <2>11. TextsIn(q.at, eps)
      BY <2>7, <2>10
    <2>. QED
      BY <1>5, <2>2, <2>7, <2>8, <2>9, <2>11 DEF Assignments
  <1>9. CASE ~(d.refs \subseteq refs /\ d.refs \cap DOMAIN a.at = {} /\ r.ok)
    <2>1. Taken(a, d, eps, list) = [ok |-> FALSE, list |-> a.list, at |-> a.at]
      BY <1>1, <1>3, <1>5, <1>9 DEF Taken
    <2>. QED
      BY <1>5, <1>6, <1>7, <2>1 DEF Assignments
  <1>. QED
    BY <1>8, <1>9

\* A complete assignment: a node of the list for each ref, with the endpoint's text.
Complete(a, eps) ==
    /\ a.list \in Seq(NodeRecord) /\ a.at \in [RefsOf(eps) -> NodeRecord]
    /\ \A x \in RefsOf(eps) : a.at[x] \in ToSet(a.list)
    /\ TextsIn(a.at, eps)

LEMMA AssignedFacts ==
  ASSUME NEW list \in Seq(NodeRecord), NEW eps \in Seq(EndpointRecord),
         NEW decided \in Seq(DecisionRecord), Assigned(decided, eps, list).ok
  PROVE  Complete(Assigned(decided, eps, list), eps)
  <1>. DEFINE refs == RefsOf(eps)
  <1>1. PICK start : start = [ok |-> TRUE, list |-> <<>>, at |-> <<>>]
    OBVIOUS
  <1>2. start \in Assignments(eps)
    <2>1. <<>> \in [{} -> NodeRecord] /\ DOMAIN <<>> = {} /\ {} \in SUBSET refs
      OBVIOUS
    <2>2. <<>> \in UNION {[Q -> NodeRecord] : Q \in SUBSET refs}
      BY <2>1
    <2>3. <<>> \in Seq(NodeRecord)
      BY EmptyList
    <2>4. start \in [ok : BOOLEAN, list : Seq(NodeRecord),
                     at : UNION {[Q -> NodeRecord] : Q \in SUBSET refs}]
      BY <1>1, <2>2, <2>3, Zenon
    <2>5. \A x \in DOMAIN start.at : start.at[x] \in ToSet(start.list)
      BY <1>1, <2>1
    <2>6. TextsIn(start.at, eps)
      BY <1>1, <2>1 DEF TextsIn
    <2>. QED
      BY <2>4, <2>5, <2>6 DEF Assignments
  <1>3. \A a \in Assignments(eps), d \in DecisionRecord : Taken(a, d, eps, list) \in Assignments(eps)
    BY TakenFacts
  <1>4. AllTaken(start, decided, eps, list) \in Assignments(eps)
    BY <1>2, <1>3, DecisionsTaken
  <1>5. PICK all \in Assignments(eps) : all = AllTaken(start, decided, eps, list)
    BY <1>4
  <1>6. Assigned(decided, eps, list)
            = [ok |-> all.ok /\ DOMAIN all.at = RefsOf(eps), list |-> all.list, at |-> all.at]
    BY <1>1, <1>5, Zenon DEF Assigned
  <1>7. PICK d \in BOOLEAN : d = (all.ok /\ DOMAIN all.at = RefsOf(eps))
    OBVIOUS
  <1>13. PICK r : r = Assigned(decided, eps, list)
    OBVIOUS
  <1>14. r = [ok |-> d, list |-> all.list, at |-> all.at]
    BY <1>6, <1>7, <1>13, Zenon
  <1>15. r.ok = d /\ r.list = all.list /\ r.at = all.at
    BY <1>14
  <1>8. DOMAIN all.at = refs
    <2>1. d
      BY <1>13, <1>15
    <2>. QED
      BY <1>7, <2>1, Zenon
  <1>9. PICK R \in SUBSET refs : all.at \in [R -> NodeRecord]
    BY DEF Assignments
  <1>10. all.at \in [refs -> NodeRecord]
    BY <1>8, <1>9
  <1>11. /\ all.list \in Seq(NodeRecord) /\ \A x \in refs : all.at[x] \in ToSet(all.list)
         /\ TextsIn(all.at, eps)
    BY <1>8 DEF Assignments
  <1>12. Assigned(decided, eps, list).list = all.list /\ Assigned(decided, eps, list).at = all.at
    BY <1>13, <1>15, Zenon
  <1>. QED
    BY <1>10, <1>11, <1>12 DEF Complete

LEMMA AssignedByTermFacts ==
  ASSUME NEW list \in Seq(NodeRecord), NEW eps \in Seq(EndpointRecord), OnePerRef(eps)
  PROVE  Complete(AssignedByTerm(eps, list), eps)
  <1>. DEFINE a == AssignedByTerm(eps, list)
              e(ref) == CHOOSE x \in ToSet(eps) : x.ref = ref
  <1>1. PICK n \in Nat : n = Len(eps) /\ DOMAIN eps = 1..n /\ \A i \in 1..n : eps[i] \in EndpointRecord
    OBVIOUS
  <1>2. /\ a.list = [i \in 1..n |-> RecordForEndpoint(eps[i], list)]
        /\ a.at = [ref \in RefsOf(eps) |-> RecordForEndpoint(e(ref), list)]
    BY <1>1, Zenon DEF AssignedByTerm
  <1>. HIDE DEF a
  <1>3. \A i \in 1..n : RecordForEndpoint(eps[i], list) \in NodeRecord
    BY <1>1, RecordForEndpointFacts
  <1>4. a.list \in Seq(NodeRecord) /\ DOMAIN a.list = 1..n
    BY <1>2, <1>3
  <1>5. ASSUME NEW ref \in RefsOf(eps)
        PROVE  RecordForEndpoint(e(ref), list) \in NodeRecord
               /\ RecordForEndpoint(e(ref), list) \in ToSet(a.list)
    <2>1. e(ref) \in ToSet(eps)
      BY DEF RefsOf
    <2>2. PICK i \in 1..n : eps[i] = e(ref)
      BY <1>1, <2>1 DEF ToSet
    <2>3. a.list[i] = RecordForEndpoint(eps[i], list)
      BY <1>2
    <2>. QED
      BY <1>3, <1>4, <2>2, <2>3 DEF ToSet
  <1>6. a.at \in [RefsOf(eps) -> NodeRecord]
    <2>1. PICK g : g = [ref \in RefsOf(eps) |-> RecordForEndpoint(e(ref), list)]
      OBVIOUS
    <2>2. \A ref \in RefsOf(eps) : RecordForEndpoint(e(ref), list) \in NodeRecord
      BY <1>5
    <2>3. g \in [RefsOf(eps) -> NodeRecord]
      BY <2>1, <2>2, Zenon
    <2>. QED
      BY <1>2, <2>1, <2>3, Zenon
  <1>7. \A ref \in RefsOf(eps) : a.at[ref] \in ToSet(a.list)
    BY <1>2, <1>5
  <1>8. TextsIn(a.at, eps)
    <2>1. SUFFICES ASSUME NEW x \in ToSet(eps) PROVE x.ref \in RefsOf(eps) /\ x.text \in a.at[x.ref].terms
      BY DEF TextsIn
    <2>2. x.ref \in RefsOf(eps) /\ x \in EndpointRecord
      BY RecordsOf DEF RefsOf
    <2>3. e(x.ref) = x
      BY DEF OnePerRef
    <2>4. a.at[x.ref] = RecordForEndpoint(x, list)
      BY <1>2, <2>2, <2>3
    <2>. QED
      BY <2>2, <2>4, RecordForEndpointFacts
  <1>. QED
    BY <1>4, <1>6, <1>7, <1>8 DEF Complete, a

\* A canonicalization that stands: propositions of distinct ids, and the
\* candidates with both endpoints among them.
Canonical(r, cands) ==
    /\ r.props \in Seq(NodeRecord) /\ UniqueIds(r.props)
    /\ r.cands \in Seq(RelationRecord) /\ Len(r.cands) = Len(cands)
    /\ \A i \in DOMAIN cands :
        /\ r.cands[i].id = cands[i].id /\ r.cands[i].type = cands[i].type
        /\ r.cands[i].from = cands[i].from /\ r.cands[i].to = cands[i].to
        /\ {r.cands[i].sid, r.cands[i].tid} \subseteq Ids(r.props)
        /\ OwnId(cands, i) => SaidBy(cands[i], r.cands[i], r.props)

\* A candidate whose id no other has is assigned nodes with its own texts.
LEMMA OwnTexts ==
  ASSUME NEW cands \in Seq(CandidateRecord), NEW i \in DOMAIN cands, OwnId(cands, i),
         NEW at, DOMAIN at = RefsOfCandidates(cands), TextsIn(at, Endpoints(cands))
  PROVE  /\ cands[i].src \in at[<<cands[i].id, "source">>].terms
         /\ cands[i].tgt \in at[<<cands[i].id, "target">>].terms
  <1>1. PICK c : c = cands[i]
    OBVIOUS
  <1>2. /\ <<c.id, "source">> \in RefsOf(Endpoints(cands))
        /\ <<c.id, "target">> \in RefsOf(Endpoints(cands))
    BY <1>1, EndpointsFacts DEF RefsOfCandidates
  <1>3. ASSUME NEW e \in ToSet(Endpoints(cands)), NEW part, e.ref = <<c.id, part>>
        PROVE  \/ part = "source" /\ e.text = c.src
               \/ part = "target" /\ e.text = c.tgt
    <2>1. e \in UNION {ToSet(EndpointsOf(cands[k])) : k \in DOMAIN cands}
      BY EndpointsFacts, CandidateEndpointsFacts
    <2>2. PICK k \in DOMAIN cands : e \in ToSet(EndpointsOf(cands[k]))
      BY <2>1
    <2>3. PICK b : b = cands[k]
      OBVIOUS
    <2>4. PICK x : x = [ref |-> <<b.id, "source">>, text |-> b.src, id |-> b.sid]
      OBVIOUS
    <2>5. PICK y : y = [ref |-> <<b.id, "target">>, text |-> b.tgt, id |-> b.tid]
      OBVIOUS
    <2>6. e \in {x, y}
      BY <2>2, <2>3, <2>4, <2>5, PairToSet DEF EndpointsOf
    <2>7. b.id = c.id /\ (e = x => part = "source") /\ (e = y => part = "target")
      BY <1>3, <2>4, <2>5, <2>6
    <2>8. b = c
      BY <1>1, <2>3, <2>7 DEF OwnId
    <2>. QED
      BY <2>4, <2>5, <2>6, <2>7, <2>8
  <1>4. PICK e \in ToSet(Endpoints(cands)) : e.ref = <<c.id, "source">>
    BY <1>2 DEF RefsOf
  <1>5. PICK g \in ToSet(Endpoints(cands)) : g.ref = <<c.id, "target">>
    BY <1>2 DEF RefsOf
  <1>6. e.text = c.src /\ g.text = c.tgt
    BY <1>3, <1>4, <1>5
  <1>7. <<c.id, "source">> \in DOMAIN at /\ <<c.id, "target">> \in DOMAIN at
    BY <1>2, EndpointsFacts
  <1>. QED
    BY <1>1, <1>4, <1>5, <1>6, <1>7 DEF TextsIn

LEMMA CanonicalizedFacts ==
  ASSUME NEW cands \in Seq(CandidateRecord), NEW a, a.ok, Complete(a, Endpoints(cands))
  PROVE  Canonical(Canonicalized(cands, a), cands)
  <1>. DEFINE r == Canonicalized(cands, a)
  <1>1. PICK n \in Nat : n = Len(cands) /\ DOMAIN cands = 1..n
                         /\ \A i \in 1..n : cands[i] \in CandidateRecord
    OBVIOUS
  <1>2. /\ r.props = MergeRecords(a.list)
        /\ r.cands = [i \in 1..n |-> CanonicalizedCandidate(cands[i], a.at)]
    BY <1>1 DEF Canonicalized
  <1>. HIDE DEF r
  <1>a. RefsOf(Endpoints(cands)) = RefsOfCandidates(cands)
    BY EndpointsFacts
  <1>3. /\ r.props \in Seq(NodeRecord) /\ UniqueIds(r.props) /\ Ids(r.props) = Ids(a.list)
    BY <1>2, MergeRecordsFacts DEF Complete
  <1>4. \A p \in ToSet(a.list) : p.id \in Ids(a.list)
    BY DEF Ids, ToSet
  <1>5. ASSUME NEW i \in 1..n
        PROVE  /\ CanonicalizedCandidate(cands[i], a.at) \in RelationRecord
               /\ CanonicalizedCandidate(cands[i], a.at).id = cands[i].id
               /\ CanonicalizedCandidate(cands[i], a.at).type = cands[i].type
               /\ CanonicalizedCandidate(cands[i], a.at).from = cands[i].from
               /\ CanonicalizedCandidate(cands[i], a.at).to = cands[i].to
               /\ {CanonicalizedCandidate(cands[i], a.at).sid, CanonicalizedCandidate(cands[i], a.at).tid}
                    \subseteq Ids(r.props)
               /\ OwnId(cands, i) => SaidBy(cands[i], CanonicalizedCandidate(cands[i], a.at), r.props)
    <2>1. PICK c \in CandidateRecord : c = cands[i]
      BY <1>1
    <2>2. <<c.id, "source">> \in RefsOfCandidates(cands) /\ <<c.id, "target">> \in RefsOfCandidates(cands)
      BY <1>1, <2>1 DEF RefsOfCandidates
    <2>3. PICK s \in NodeRecord : s = a.at[<<c.id, "source">>] /\ s \in ToSet(a.list)
      BY <1>a, <2>2 DEF Complete
    <2>4. PICK t \in NodeRecord : t = a.at[<<c.id, "target">>] /\ t \in ToSet(a.list)
      BY <1>a, <2>2 DEF Complete
    <2>5. CanonicalizedCandidate(c, a.at)
            = [c EXCEPT !.src = s.label, !.sid = s.id, !.tgt = t.label, !.tid = t.id]
      BY <2>3, <2>4, Zenon DEF CanonicalizedCandidate
    <2>6. c \in RelationRecord
      BY DEF CandidateRecord
    <2>7. /\ s.label \in Name /\ s.id \in NameOrNone /\ t.label \in Name /\ t.id \in NameOrNone
      BY DEF NodeRecord, NameOrNone
    <2>8. PICK x : x = [c EXCEPT !.src = s.label, !.sid = s.id, !.tgt = t.label, !.tid = t.id]
      OBVIOUS
    <2>9. /\ x \in RelationRecord /\ x.id = c.id /\ x.type = c.type /\ x.sid = s.id /\ x.tid = t.id
          /\ x.from = c.from /\ x.to = c.to
      BY <2>6, <2>7, <2>8 DEF RelationRecord
    <2>10. ASSUME OwnId(cands, i) PROVE c.src \in s.terms /\ c.tgt \in t.terms
      BY <1>a, <1>1, <2>1, <2>3, <2>4, <2>10, OwnTexts DEF Complete
    <2>11. Covers(r.props, s) /\ Covers(r.props, t)
      BY <1>2, <2>3, <2>4, MergeRecordsFacts DEF Complete
    <2>12. s.terms \subseteq Named(r.props, s.id).terms /\ t.terms \subseteq Named(r.props, t.id).terms
      BY <1>3, <2>11, NamedCovers
    <2>13. OwnId(cands, i) => SaidBy(c, x, r.props)
      BY <2>9, <2>10, <2>12 DEF SaidBy
    <2>14. CanonicalizedCandidate(cands[i], a.at) = x
      BY <2>1, <2>5, <2>8
    <2>15. {x.sid, x.tid} \subseteq Ids(r.props)
      BY <1>3, <1>4, <2>3, <2>4, <2>9
    <2>16. OwnId(cands, i) => SaidBy(cands[i], x, r.props)
      BY <2>1, <2>13
    <2>17. x.id = cands[i].id /\ x.type = cands[i].type /\ x.from = cands[i].from /\ x.to = cands[i].to
      BY <2>1, <2>9
    <2>. QED
      BY <2>9, <2>14, <2>15, <2>16, <2>17
  <1>6. r.cands \in Seq(RelationRecord) /\ Len(r.cands) = n
    BY <1>2, <1>5
  <1>. QED
    BY <1>1, <1>2, <1>3, <1>5, <1>6 DEF Canonical, r

LEMMA CanonicalizeFacts ==
  ASSUME NEW cands \in Seq(CandidateRecord), NEW list \in Seq(NodeRecord)
  PROVE  /\ Canonical(CanonicalizeByTerm(cands, list), cands)
         /\ \A decided \in Seq(DecisionRecord) :
                CanonicalizeBy(decided, cands, list).ok
                    => Canonical(CanonicalizeBy(decided, cands, list), cands)
  <1>1. PICK eps \in Seq(EndpointRecord) : eps = Endpoints(cands)
                                           /\ OnePerRef(eps)
    BY EndpointsFacts
  <1>2. Canonical(CanonicalizeByTerm(cands, list), cands)
    <2>1. AssignedByTerm(eps, list).ok
      BY DEF AssignedByTerm
    <2>2. Complete(AssignedByTerm(eps, list), eps)
      BY <1>1, AssignedByTermFacts
    <2>. QED
      BY <1>1, <2>1, <2>2, CanonicalizedFacts DEF CanonicalizeByTerm
  <1>3. ASSUME NEW decided \in Seq(DecisionRecord), CanonicalizeBy(decided, cands, list).ok
        PROVE  Canonical(CanonicalizeBy(decided, cands, list), cands)
    <2>1. Assigned(decided, eps, list).ok
      BY <1>1, <1>3 DEF CanonicalizeBy, Canonicalized
    <2>2. Complete(Assigned(decided, eps, list), eps)
      BY <1>1, <2>1, AssignedFacts
    <2>. QED
      BY <1>1, <2>1, <2>2, CanonicalizedFacts DEF CanonicalizeBy
  <1>. QED
    BY <1>2, <1>3

(***************************************************************************)
(* The lists and the propositions of a run                                 *)
(***************************************************************************)
IdOfNode == [x \in NodeRecord |-> x.id]

LEMMA NodesPut ==
  ASSUME NEW s \in Seq(NodeRecord), NEW new \in Seq(NodeRecord)
  PROVE  \E f \in [0..Len(new) -> Seq(NodeRecord)] :
            PutsAlong(f, IdOfNode, s, new) /\ PutAll(IdOf, s, new) = f[Len(new)]
  <1>1. \A x \in NodeRecord : IdOfNode[x] = IdOf(x)
    BY DEF IdOfNode, IdOf
  <1>. QED
    BY <1>1, PutAllIdOfSteps

\* Propositions merged by id: the ids of both, each once.
LEMMA MergedPropositions ==
  ASSUME NEW s \in Seq(NodeRecord), NEW new \in Seq(NodeRecord), UniqueIds(s)
  PROVE  MergePropositions(s, new) \in Seq(NodeRecord) /\ UniqueIds(MergePropositions(s, new))
  <1>2. PICK f \in [0..Len(new) -> Seq(NodeRecord)] :
            PutsAlong(f, IdOfNode, s, new) /\ PutAll(IdOf, s, new) = f[Len(new)]
    BY NodesPut
  <1>3. PICK t : t = MergePropositions(s, new)
    OBVIOUS
  <1>4. t = f[Len(new)]
    BY <1>2, <1>3, Zenon DEF MergePropositions
  <1>5. t \in Seq(NodeRecord)
    BY <1>2, <1>4, PutsFacts
  <1>6. \A i, j \in 1..Len(s) : s[i].id = s[j].id => i = j
    BY UniqueIdsDistinct
  <1>7. Distinct(s, IdOfNode)
    BY <1>6 DEF Distinct, IdOfNode
  <1>8. Distinct(t, IdOfNode)
    BY <1>2, <1>4, <1>7, PutsFacts
  <1>9. \A i, j \in 1..Len(t) : t[i].id = t[j].id => i = j
    <2>1. DOMAIN t = 1..Len(t) /\ \A i \in 1..Len(t) : IdOfNode[t[i]] = t[i].id
      BY <1>5 DEF IdOfNode
    <2>2. \A i, j \in 1..Len(t) : IdOfNode[t[i]] = IdOfNode[t[j]] => i = j
      BY <1>8, <2>1 DEF Distinct
    <2>. QED
      BY <2>1, <2>2
  <1>10. UniqueIds(t)
    BY <1>5, <1>9, UniqueIdsDistinct
  <1>. QED
    BY <1>3, <1>5, <1>10

\* A proposition of a new id is added at the end.
LEMMA MergedNewProposition ==
  ASSUME NEW s \in Seq(NodeRecord), NEW p \in NodeRecord, p.id \notin Ids(s)
  PROVE  MergePropositions(s, <<p>>) = Append(s, p)
  <1>a. <<p>> \in Seq(NodeRecord)
    OBVIOUS
  <1>2. PICK new \in Seq(NodeRecord) : new = <<p>>
    BY <1>a
  <1>3. Len(new) = 1 /\ new[1] = p
    BY <1>2
  <1>b. PICK f \in [0..Len(new) -> Seq(NodeRecord)] :
            PutsAlong(f, IdOfNode, s, new) /\ PutAll(IdOf, s, new) = f[Len(new)]
    BY NodesPut
  <1>4. PutsAlong(f, IdOfNode, s, new) /\ PutAll(IdOf, s, new) = f[1]
    BY <1>3, <1>b
  <1>5. f[0] = s /\ f[1] = PutBy(IdOfNode, f[0], p)
    BY <1>3, <1>4 DEF PutsAlong
  <1>6. IdOfNode[p] \notin KeySet(s, IdOfNode)
    <2>1. \A i \in DOMAIN s : s[i] \in NodeRecord /\ s[i].id # p.id
      BY DEF Ids
    <2>. QED
      BY <2>1 DEF KeySet, ToSet, IdOfNode
  <1>7. PutBy(IdOfNode, s, p) = Append(s, p)
    BY <1>6, PutByNew
  <1>. QED
    BY <1>2, <1>4, <1>5, <1>7, Zenon DEF MergePropositions

LEMMA UniqueIdsAppend ==
  ASSUME NEW s \in Seq(NodeRecord), NEW p \in NodeRecord, p.id \notin Ids(s), UniqueIds(s)
  PROVE  Append(s, p) \in Seq(NodeRecord) /\ UniqueIds(Append(s, p))
  <1>a. <<p>> \in Seq(NodeRecord)
    OBVIOUS
  <1>1. PICK new \in Seq(NodeRecord) : new = <<p>>
    BY <1>a
  <1>2. MergePropositions(s, new) = Append(s, p)
    BY <1>1, MergedNewProposition
  <1>. QED
    BY <1>2, MergedPropositions

\* The lists of ids that a handoff makes up candidates for.
LEMMA PlaceholderFacts ==
  ASSUME NEW id \in Name
  PROVE  Placeholder(id) \in CandidateRecord
  <1>1. {"handoff source", "handoff target"} \subseteq Texts /\ Texts \subseteq Name
    BY AnswersAssumption, TextsAssumption
  <1>2. /\ NoConfidence \in 0..NoConfidence /\ Always \in Nat
        /\ Forever \in Nat \ {Always} /\ None \in NameOrNone
    BY DEF NoConfidence, Always, Forever, NameOrNone
  <1>3. "necessary" \in RelationType
    BY DEF RelationType
  <1>4. "default" \in Name
    BY AnswersAssumption
  <1>. QED
    BY <1>1, <1>2, <1>3, <1>4 DEF Placeholder, CandidateRecord, RelationRecord

(***************************************************************************)
(* What the gate returns                                                   *)
(***************************************************************************)
\* An action for each candidate.
ActionFor(cands, actions) == actions \in Seq(GateAction) /\ Len(actions) = Len(cands)

LEMMA ActionsFor ==
  ASSUME NEW V, NEW cands \in Seq(V), NEW actions \in [DOMAIN cands -> GateAction]
  PROVE  ActionFor(cands, actions)
  <1>1. DOMAIN cands = 1..Len(cands) /\ Len(cands) \in Nat
    OBVIOUS
  <1>. QED
    BY <1>1 DEF ActionFor

LEMMA RunGateActions ==
  ASSUME NEW V, NEW cands \in Seq(V), NEW reviews, NEW g, NEW props, NEW floor, NEW write
  PROVE  ActionFor(cands, RunGate(cands, reviews, g, props, floor, write).actions)
  <1>1. PICK S : S = ApprovedAt(cands, reviews, g, props, floor, write)
    OBVIOUS
  <1>2. PICK a : a = [i \in DOMAIN cands |-> ActionOf(reviews[i], i \in S)]
    OBVIOUS
  <1>3. RunGate(cands, reviews, g, props, floor, write)
            = [actions |-> a, approved |-> AtPositions(FromReviews(cands, reviews), S)]
    BY <1>1, <1>2, Zenon DEF RunGate
  <1>4. \A i \in DOMAIN cands : ActionOf(reviews[i], i \in S) \in GateAction
    BY DEF ActionOf, GateAction
  <1>5. a \in [DOMAIN cands -> GateAction]
    BY <1>2, <1>4
  <1>. QED
    BY <1>3, <1>5, ActionsFor

LEMMA QueuedActions ==
  ASSUME NEW V, NEW cands \in Seq(V), NEW result, ActionFor(cands, result.actions)
  PROVE  ActionFor(cands, Queued(result).actions)
  <1>1. PICK a : a = result.actions
    OBVIOUS
  <1>2. a \in Seq(GateAction) /\ Len(a) = Len(cands)
    BY <1>1 DEF ActionFor
  <1>3. PICK q : q = [i \in DOMAIN a |-> IF a[i] = "auto_write" THEN "queue" ELSE a[i]]
    OBVIOUS
  <1>4. q \in Seq(GateAction) /\ Len(q) = Len(cands)
    BY <1>2, <1>3 DEF GateAction
  <1>. QED
    BY <1>1, <1>3, <1>4 DEF Queued, ActionFor

LEMMA ValidateActions ==
  ASSUME NEW V, NEW cands \in Seq(V), NEW reviews, NEW g, NEW props, NEW floor
  PROVE  ActionFor(cands, ValidateCandidates(cands, reviews, g, props, floor).actions)
  <1>1. PICK r : r = RunGate(cands, reviews, g, props, floor, TRUE)
    OBVIOUS
  <1>2. ActionFor(cands, r.actions)
    BY <1>1, RunGateActions
  <1>3. ActionFor(cands, Queued(r).actions)
    BY <1>2, QueuedActions
  <1>. QED
    BY <1>1, <1>2, <1>3, Zenon DEF ValidateCandidates

LEMMA ProvenanceActions ==
  ASSUME NEW V, run.batch \in Seq(V), NEW result, ActionFor(run.batch, result.actions)
  PROVE  ActionFor(run.batch, ProvenanceGate(result).actions)
  <1>1. PICK a : a = result.actions
    OBVIOUS
  <1>2. PICK n \in Nat : n = Len(run.batch) /\ DOMAIN run.batch = 1..n
    OBVIOUS
  <1>3. a \in Seq(GateAction) /\ DOMAIN a = 1..n
    BY <1>1, <1>2 DEF ActionFor
  <1>4. PICK q : q = [i \in DOMAIN run.batch |->
                        IF run.batch[i].id \in run.unproven /\ a[i] = "auto_write"
                        THEN "queue" ELSE a[i]]
    OBVIOUS
  <1>5. q \in [DOMAIN run.batch -> GateAction]
    BY <1>2, <1>3, <1>4 DEF GateAction
  <1>6. ActionFor(run.batch, q)
    BY <1>5, ActionsFor
  <1>. QED
    BY <1>1, <1>4, <1>6 DEF ProvenanceGate

(***************************************************************************)
(* The types of a run                                                      *)
(***************************************************************************)
EarlyPhase == {"start", "search", "fetch", "crawl", "gathered", "extract", "canonicalize",
               "grouping", "review"}

GraphInv ==
    /\ graph = [rels |-> graph.rels, groups |-> graph.groups, inds |-> graph.inds,
                props |-> graph.props, meta |-> graph.meta]
    /\ graph.props \in Seq(NodeRecord) /\ UniqueIds(graph.props) /\ ~AliasConflict(graph.props)

\* What the run has gathered so far is of the kind that its next step takes:
\* the texts of the candidates have stable ids until they are canonicalized,
\* the propositions to import have an id each, and nothing is reported or
\* queued before the gate.
BatchInv ==
    /\ phase \in EarlyPhase \cup WritingPhase \cup EndPhases /\ found \in BOOLEAN
    /\ candidates \in Seq(RelationRecord)
    /\ phase \in {"canonicalize", "grouping"} => candidates \in Seq(CandidateRecord)
    /\ known \in Seq(NodeRecord)
    /\ imports \in Seq(NodeRecord) /\ UniqueIds(imports)
    /\ DOMAIN answers \subseteq ReviewerSet \cup {"handoff"}
    /\ report = [actions |-> report.actions, approved |-> report.approved]
    /\ report.actions \in Seq(GateAction) /\ Len(report.actions) \in {0, Len(candidates)}
    /\ phase \in EarlyPhase => report = NoReport
    /\ phase \in WritingPhase => Len(report.actions) = Len(candidates)
    /\ queue \subseteq {candidates[i].id : i \in DOMAIN candidates}
    /\ phase \in EarlyPhase => queue = {}

\* What the write has in memory: the propositions that an import is about to
\* store were checked when they were read.
Sound(props) == props \in Seq(NodeRecord) /\ UniqueIds(props) /\ ~AliasConflict(props)
WriteInv ==
    /\ outcome \in {"none", "written", "refused", "failed"}
    /\ writing = [rels |-> writing.rels, props |-> writing.props, seen |-> writing.seen]
    /\ phase \in {"merge", "rewrite"} => Sound(writing.props)

LEMMA WriteInvInit == Init => WriteInv
  BY DEF Init, WriteInv, NothingRead

LEMMA WriteInvNext ==
  ASSUME WriteInv, GraphInv, BatchInv, [Next]_vars
  PROVE  WriteInv'
  <1>. DEFINE Shape(w) == w = [rels |-> w.rels, props |-> w.props, seen |-> w.seen]
  <1>0. /\ Shape(writing) /\ outcome \in {"none", "written", "refused", "failed"}
        /\ imports \in Seq(NodeRecord) /\ graph.props \in Seq(NodeRecord) /\ UniqueIds(graph.props)
    BY DEF WriteInv, BatchInv, GraphInv
  <1>1. ASSUME Shape(writing'), outcome' \in {"none", "written", "refused", "failed"},
               phase' \notin {"merge", "rewrite"} \/ Sound(writing'.props)
        PROVE  WriteInv'
    BY <1>1, Zenon DEF WriteInv, Sound
  <1>2. /\ \A x : Shape([writing EXCEPT !.rels = x])
        /\ \A x : Shape([writing EXCEPT !.props = x])
        /\ \A x, y : Shape([writing EXCEPT !.rels = x, !.seen = y])
    <2>1. ASSUME NEW x PROVE Shape([writing EXCEPT !.rels = x])
      BY <1>0
    <2>2. ASSUME NEW x PROVE Shape([writing EXCEPT !.props = x])
      BY <1>0
    <2>3. ASSUME NEW x, NEW y PROVE Shape([writing EXCEPT !.rels = x, !.seen = y])
      <3>1. PICK v : v = [writing EXCEPT !.rels = x]
        OBVIOUS
      <3>2. Shape(v)
        BY <2>1, <3>1
      <3>3. v = [rels |-> v.rels, props |-> v.props, seen |-> v.seen]
        BY <3>2
      <3>4. Shape([v EXCEPT !.seen = y])
        BY <3>3
      <3>. QED
        BY <3>1, <3>4
    <2>. QED
      BY <2>1, <2>2, <2>3
  <1>3. CASE ~LateStep
    <2>1. /\ UNCHANGED <<outcome, writing>>
          /\ UNCHANGED phase \/ phase' \notin {"merge", "rewrite"}
      BY <1>3, OutsideWriting DEF MidPhase
    <2>. QED
      BY <2>1 DEF WriteInv, Sound
  <1>4. CASE WriteStep
    <2>1. phase' \notin {"merge", "rewrite"} /\ outcome' \in {"none", "written", "refused", "failed"}
      BY <1>0, <1>4
         DEF WriteStep, PrepareRelations, Dedupe, ReadToCheck, CheckWrite, AppendRelations, Written,
             WriteStopped, Goes
    <2>2. Shape(writing')
      <3>. HIDE DEF Shape
      <3>1. CASE PrepareRelations
        BY <1>0, <1>2, <3>1, Zenon DEF PrepareRelations
      <3>2. CASE Dedupe
        <4>1. CASE UNCHANGED writing
          BY <1>0, <4>1
        <4>2. CASE \E new : writing' = [writing EXCEPT !.rels = new, !.seen = Ids(graph.rels)]
          <5>1. PICK new, seen : seen = Ids(graph.rels) /\ writing' = [writing EXCEPT !.rels = new, !.seen = seen]
            BY <4>2
          <5>2. Shape([writing EXCEPT !.rels = new, !.seen = seen])
            BY <1>2
          <5>. QED
            BY <5>1, <5>2
        <4>. QED
          BY <3>2, <4>1, <4>2, Zenon DEF Dedupe
      <3>3. CASE ReadToCheck
        BY <1>0, <1>2, <3>3, Zenon DEF ReadToCheck
      <3>4. CASE CheckWrite \/ AppendRelations
        BY <1>0, <3>4 DEF CheckWrite, AppendRelations
      <3>. QED
        BY <1>4, <3>1, <3>2, <3>3, <3>4 DEF WriteStep
    <2>. QED
      BY <1>1, <2>1, <2>2
  <1>5. CASE MergeImports
    <2>1. UNCHANGED outcome
      BY <1>5 DEF MergeImports
    <2>2. CASE UNCHANGED writing /\ phase' = "raised"
      BY <1>0, <1>1, <2>1, <2>2
    <2>3. CASE Imported(imports) /\ writing' = [writing EXCEPT !.props = MergePropositions(graph.props, imports)]
      <3>1. PICK props : props = MergePropositions(graph.props, imports)
        OBVIOUS
      <3>2. props \in Seq(NodeRecord) /\ UniqueIds(props)
        BY <1>0, <3>1, MergedPropositions
      <3>3. ~AliasConflict(props)
        BY <2>3, <3>1 DEF Imported, Importable
      <3>4. writing' = [writing EXCEPT !.props = props]
        BY <2>3, <3>1
      <3>5. writing'.props = props /\ Shape(writing')
        BY <1>0, <3>4
      <3>. HIDE DEF Shape
      <3>. QED
        BY <1>0, <1>1, <2>1, <3>2, <3>3, <3>5, Zenon DEF Sound
    <2>. QED
      BY <1>5, <2>2, <2>3 DEF MergeImports, Goes
  <1>6. CASE ReadRelations
    <2>1. UNCHANGED outcome /\ phase = "merge"
      BY <1>6 DEF ReadRelations
    <2>2. Sound(writing.props)
      BY <2>1 DEF WriteInv
    <2>3. CASE UNCHANGED writing
      BY <1>0, <1>1, <2>1, <2>2, <2>3
    <2>4. CASE writing' = [writing EXCEPT !.rels = graph.rels]
      <3>1. writing'.props = writing.props /\ Shape(writing')
        BY <1>0, <2>4
      <3>. HIDE DEF Shape
      <3>. QED
        BY <1>0, <1>1, <2>1, <2>2, <3>1
    <2>. QED
      BY <1>6, <2>3, <2>4 DEF ReadRelations
  <1>7. CASE RewriteStore
    <2>1. UNCHANGED <<outcome, writing>> /\ phase' \in {"enqueue", "raised"}
      BY <1>7 DEF RewriteStore, writeVars, Goes
    <2>. QED
      BY <1>0, <1>1, <2>1
  <1>. QED
    BY <1>3, <1>4, <1>5, <1>6, <1>7 DEF LateStep, ImportStep

LEMMA GraphInvNext ==
  ASSUME GraphInv, BatchInv, WriteInv, [Next]_vars
  PROVE  GraphInv'
  <1>. DEFINE Fields(g) == g = [rels |-> g.rels, groups |-> g.groups, inds |-> g.inds,
                                props |-> g.props, meta |-> g.meta]
  <1>0. /\ Fields(graph) /\ graph.props \in Seq(NodeRecord) /\ UniqueIds(graph.props)
        /\ ~AliasConflict(graph.props)
    BY DEF GraphInv
  <1>a. imports \in Seq(NodeRecord)
    BY DEF BatchInv
  <1>1. ASSUME UNCHANGED graph PROVE GraphInv'
    BY <1>1 DEF GraphInv
  <1>2. ASSUME NEW rels, graph' = [graph EXCEPT !.rels = rels] PROVE GraphInv'
    <2>1. Fields(graph') /\ graph'.props = graph.props
      BY <1>0, <1>2
    <2>. HIDE DEF Fields
    <2>2. /\ graph'.props \in Seq(NodeRecord) /\ UniqueIds(graph'.props)
          /\ ~AliasConflict(graph'.props)
      BY <1>0, <2>1
    <2>. QED
      BY <2>1, <2>2 DEF GraphInv, Fields
  <1>3. ASSUME NEW props, graph' = [graph EXCEPT !.props = props],
               props \in Seq(NodeRecord), UniqueIds(props), ~AliasConflict(props)
        PROVE  GraphInv'
    <2>1. Fields(graph') /\ graph'.props = props
      BY <1>0, <1>3
    <2>. HIDE DEF Fields
    <2>2. /\ graph'.props \in Seq(NodeRecord) /\ UniqueIds(graph'.props)
          /\ ~AliasConflict(graph'.props)
      BY <1>3, <2>1
    <2>. QED
      BY <2>1, <2>2 DEF GraphInv, Fields
  <1>4. CASE AppendRelations
    <2>1. CASE UNCHANGED graph
      BY <1>1, <2>1
    <2>2. CASE graph' = [graph EXCEPT !.rels = @ \o writing.rels]
      <3>1. graph' = [graph EXCEPT !.rels = graph.rels \o writing.rels]
        BY <2>2
      <3>. QED
        BY <1>2, <3>1, Zenon
    <2>. QED
      BY <1>4, <2>1, <2>2, Zenon DEF AppendRelations
  <1>5. CASE RewriteStore
    <2>1. CASE graph' = [graph EXCEPT !.rels = writing.rels, !.props = writing.props]
      <3>1. PICK rels, props : rels = writing.rels /\ props = writing.props
        OBVIOUS
      <3>2. props \in Seq(NodeRecord) /\ UniqueIds(props) /\ ~AliasConflict(props)
        BY <1>5, <3>1 DEF RewriteStore, WriteInv, Sound
      <3>3. graph' = [graph EXCEPT !.rels = rels, !.props = props]
        BY <2>1, <3>1, Zenon
      <3>4. Fields(graph') /\ graph'.props = props
        BY <1>0, <3>3
      <3>. HIDE DEF Fields
      <3>5. /\ graph'.props \in Seq(NodeRecord) /\ UniqueIds(graph'.props)
            /\ ~AliasConflict(graph'.props)
        BY <3>2, <3>4
      <3>. QED
        BY <3>4, <3>5 DEF GraphInv, Fields
    <2>2. CASE UNCHANGED graph
      BY <1>1, <2>2
    <2>. QED
      BY <1>5, <2>1, <2>2, Zenon DEF RewriteStore
  <1>9. CASE \/ PrepareRelations \/ Dedupe \/ ReadToCheck \/ CheckWrite \/ MergeImports
             \/ ReadRelations
    BY <1>1, <1>9
       DEF PrepareRelations, Dedupe, ReadToCheck, CheckWrite, MergeImports, ReadRelations
  <1>6. CASE OtherProcess
    <2>1. CASE \E r \in OtherRelations :
                 graph' = [graph EXCEPT !.rels = Append(@, WithIdentity(r, graph.props))]
      <3>1. PICK r \in OtherRelations :
                 graph' = [graph EXCEPT !.rels = Append(@, WithIdentity(r, graph.props))]
        BY <2>1
      <3>2. PICK rels : rels = Append(graph.rels, WithIdentity(r, graph.props))
        OBVIOUS
      <3>3. graph' = [graph EXCEPT !.rels = rels]
        BY <3>1, <3>2
      <3>. QED
        BY <1>2, <3>3, Zenon
    <2>2. CASE \E p \in OtherPropositions :
                 /\ p.id \notin Ids(graph.props)
                 /\ ~AliasConflict(MergePropositions(graph.props, <<p>>))
                 /\ graph' = [graph EXCEPT !.props = Append(@, p)]
      <3>1. PICK p \in OtherPropositions :
                 /\ p.id \notin Ids(graph.props)
                 /\ ~AliasConflict(MergePropositions(graph.props, <<p>>))
                 /\ graph' = [graph EXCEPT !.props = Append(@, p)]
        BY <2>2
      <3>2. p \in NodeRecord
        BY StoreAssumption
      <3>3. PICK props : props = Append(graph.props, p)
        OBVIOUS
      <3>4. props \in Seq(NodeRecord) /\ UniqueIds(props)
        BY <1>0, <3>1, <3>2, <3>3, UniqueIdsAppend
      <3>5. MergePropositions(graph.props, <<p>>) = props
        BY <1>0, <3>1, <3>2, <3>3, MergedNewProposition
      <3>6. ~AliasConflict(props)
        BY <3>1, <3>5
      <3>7. graph' = [graph EXCEPT !.props = props]
        BY <3>1, <3>3
      <3>. QED
        BY <1>3, <3>4, <3>6, <3>7, Zenon
    <2>. QED
      BY <1>6, <2>1, <2>2, Zenon DEF OtherProcess
  <1>7. CASE \/ LoadInput \/ Search \/ FetchUrls \/ BeginCrawl \/ Crawl \/ EndCrawl \/ EvidenceCheck
             \/ Extract \/ Handoff \/ CanonicalizeStep \/ GroupingAnswers
    BY <1>1, <1>7
       DEF LoadInput, Search, FetchUrls, BeginCrawl, Crawl, EndCrawl, EvidenceCheck, Extract,
           Handoff, CanonicalizeStep, GroupingAnswers
  <1>8. CASE \/ \E r \in ReviewerSet : ReviewerAnswers(r) \/ ReviewerFails(r) \/ ReviewerRaises(r)
             \/ ShortCircuit \/ Gate \/ Enqueue \/ Validate \/ UNCHANGED vars
    BY <1>1, <1>8
       DEF ReviewerAnswers, ReviewerFails, ReviewerRaises, ShortCircuit, Gate, Enqueue, Validate, vars
  <1>. QED
    BY <1>4, <1>5, <1>6, <1>7, <1>8, <1>9
       DEF Next, RunStep, Finished, WriteStep, ImportStep

LEMMA GraphInvInit == Init => GraphInv
  BY StoreAssumption DEF Init, GraphInv

LEMMA BatchInvInit ==
  ASSUME Init
  PROVE  BatchInv
  <1>1. /\ phase = "start" /\ found = FALSE /\ candidates = <<>> /\ known = <<>> /\ imports = <<>>
        /\ answers = <<>> /\ report = NoReport /\ queue = {}
    BY DEF Init
  <1>2. /\ <<>> \in Seq(RelationRecord) /\ <<>> \in Seq(NodeRecord) /\ <<>> \in Seq(GateAction)
        /\ DOMAIN <<>> = {} /\ Len(<<>>) = 0
    BY EmptyList
  <1>3. UniqueIds(<<>>)
    <2>1. \A i, j \in 1..Len(<<>>) : <<>>[i].id = <<>>[j].id => i = j
      OBVIOUS
    <2>2. <<>> \in Seq(NodeRecord)
      BY EmptyList
    <2>. QED
      BY <2>1, <2>2, UniqueIdsDistinct
  <1>4. report = [actions |-> report.actions, approved |-> report.approved] /\ report.actions = <<>>
    BY <1>1 DEF NoReport
  <1>5. phase \in EarlyPhase /\ phase \notin {"canonicalize", "grouping"} /\ phase \notin WritingPhase
    BY <1>1 DEF EarlyPhase, WritingPhase
  <1>. QED
    BY <1>1, <1>2, <1>3, <1>4, <1>5 DEF BatchInv

\* A step of the run that leaves what it has gathered alone.
LEMMA BatchUntouched ==
  ASSUME BatchInv, UNCHANGED <<run, candidates, known, imports, answers, report, queue>>,
         found' \in BOOLEAN, phase' \in EarlyPhase \cup WritingPhase \cup EndPhases,
         phase' \in EarlyPhase => phase \in EarlyPhase,
         phase' \in WritingPhase => phase \in WritingPhase,
         phase' \in {"canonicalize", "grouping"} => phase \in {"canonicalize", "grouping"}
  PROVE  BatchInv'
  BY DEF BatchInv, ReviewerSet

\* The candidates of a batch, on their way to be canonicalized or reviewed.
LEMMA BatchTaken ==
  ASSUME BatchInv, phase = "extract", NEW batch \in Seq(CandidateRecord), candidates' = batch,
         phase' = AfterExtraction(batch), DOMAIN answers' \subseteq ReviewerSet \cup {"handoff"},
         UNCHANGED <<run, found, known, imports, report, graph, queue, crawlVars>>
  PROVE  BatchInv'
  <1>1. phase \in EarlyPhase
    BY DEF EarlyPhase
  <1>2. report = NoReport /\ queue = {}
    BY <1>1 DEF BatchInv
  <1>3. phase' \in {"canonicalize", "review"}
    BY DEF AfterExtraction
  <1>4. phase' \in EarlyPhase /\ phase' \notin WritingPhase
    BY <1>3 DEF EarlyPhase, WritingPhase
  <1>5. candidates' \in Seq(RelationRecord) /\ candidates' \in Seq(CandidateRecord)
    BY DEF CandidateRecord
  <1>6. report'.actions = <<>> /\ Len(<<>>) = 0
    BY <1>2 DEF NoReport
  <1>. QED
    BY <1>2, <1>4, <1>5, <1>6 DEF BatchInv, ReviewerSet

LEMMA ExtractBatchInv ==
  ASSUME BatchInv, Extract
  PROVE  BatchInv'
  <1>1. CASE \E batch \in Batches : candidates' = batch /\ Goes(AfterExtraction(batch))
    <2>1. PICK batch \in Batches : candidates' = batch /\ Goes(AfterExtraction(batch))
      BY <1>1
    <2>2. batch \in Seq(CandidateRecord)
      BY AnswersAssumption
    <2>3. DOMAIN answers' \subseteq ReviewerSet \cup {"handoff"}
      BY DEF Extract, BatchInv
    <2>. QED
      BY <2>1, <2>2, <2>3, BatchTaken DEF Extract, Goes, canonVars
  <1>2. CASE UNCHANGED candidates /\ phase' \in {"error", "raised"}
    <2>1. phase' \in EndPhases /\ phase' \notin EarlyPhase \cup WritingPhase
      BY <1>2 DEF EndPhases, EarlyPhase, WritingPhase
    <2>. QED
      BY <1>2, <2>1, BatchUntouched DEF Extract, BatchInv, canonVars
  <1>. QED
    BY <1>1, <1>2 DEF Extract, Goes

LEMMA HandoffTaken ==
  ASSUME Handoff
  PROVE  /\ candidates' \in Seq(CandidateRecord) /\ phase' = AfterExtraction(candidates')
         /\ DOMAIN answers' = {"handoff"} /\ candidates' \in Extracted'
  <1>1. PICK reviews \in HandoffReviews :
            LET cands == [i \in 1..Cardinality({v.cand : v \in ToSet(reviews)}) |->
                            Placeholder(SetToSeq({v.cand : v \in ToSet(reviews)})[i])]
            IN  /\ answers' = [r \in {"handoff"} |-> [reviews |-> reviews, failed |-> FALSE]]
                /\ candidates' = cands
                /\ Goes(AfterExtraction(cands))
    BY DEF Handoff
  <1>2. reviews \in Seq(ReviewRecord)
    BY AnswersAssumption
  <1>3. PICK S : S = {v.cand : v \in ToSet(reviews)}
    OBVIOUS
  <1>4. IsFiniteSet(S) /\ S \subseteq Name
    <2>1. IsFiniteSet(ToSet(reviews)) /\ ToSet(reviews) \in SUBSET ReviewRecord
      BY <1>2, ToSetFinite
    <2>2. PICK R \in SUBSET ReviewRecord : R = ToSet(reviews)
      BY <2>1
    <2>3. [v \in R |-> v.cand] \in Surjection(R, S)
      BY <1>3, <2>2 DEF Surjection
    <2>4. IsFiniteSet(S)
      BY <2>1, <2>2, <2>3, FS_Surjection
    <2>5. \A v \in R : v.cand \in Name
      BY DEF ReviewRecord
    <2>. QED
      BY <1>3, <2>2, <2>4, <2>5
  <1>5. PICK ids : ids = SetToSeq(S)
    OBVIOUS
  <1>6. PICK n \in Nat : n = Cardinality(S) /\ DOMAIN ids = 1..n /\ ids \in Seq(S)
    BY <1>4, <1>5, SetToSeqFacts
  <1>7. PICK cands : cands = [i \in 1..n |-> Placeholder(ids[i])]
    OBVIOUS
  <1>8. \A i \in 1..n : ids[i] \in Name
    BY <1>4, <1>6
  <1>9. \A i \in 1..n : Placeholder(ids[i]) \in CandidateRecord
    BY <1>8, PlaceholderFacts
  <1>10. cands \in Seq(CandidateRecord)
    BY <1>7, <1>9
  <1>11. /\ answers' = [r \in {"handoff"} |-> [reviews |-> reviews, failed |-> FALSE]]
         /\ candidates' = cands /\ phase' = AfterExtraction(cands)
    BY <1>1, <1>3, <1>5, <1>6, <1>7, Zenon DEF Goes
  <1>12. cands = [i \in DOMAIN cands |-> Placeholder(cands[i].id)]
    <2>1. DOMAIN cands = 1..n /\ \A i \in 1..n : cands[i].id = ids[i]
      BY <1>7 DEF Placeholder
    <2>. QED
      BY <1>7, <2>1, Zenon
  <1>13. candidates' \in Extracted'
    BY <1>11, <1>12, Zenon DEF Extracted
  <1>. QED
    BY <1>10, <1>11, <1>13

LEMMA HandoffBatchInv ==
  ASSUME BatchInv, Handoff
  PROVE  BatchInv'
  <1>1. /\ candidates' \in Seq(CandidateRecord) /\ phase' = AfterExtraction(candidates')
        /\ DOMAIN answers' \subseteq ReviewerSet \cup {"handoff"}
    BY HandoffTaken
  <1>2. /\ phase = "extract"
        /\ UNCHANGED <<run, found, known, imports, report, graph, queue, crawlVars>>
    BY DEF Handoff, canonVars
  <1>. QED
    BY <1>1, <1>2, BatchTaken

\* A canonicalization that is taken; or an error, or a question to the model.
CanonicalStands ==
    /\ phase' = "review"
    /\ \E result : /\ Canonical(result, candidates)
                   /\ candidates' = result.cands /\ imports' = result.props
CanonicalWaits ==
    /\ phase' \in {"grouping", "error", "raised"}
    /\ UNCHANGED <<candidates, imports>>

LEMMA CanonicalTaken ==
  ASSUME NEW result, TakeCanonical(result), result.ok => Canonical(result, candidates)
  PROVE  CanonicalStands \/ CanonicalWaits
  <1>1. CASE result.ok /\ (AutoWrite => Importable(result.props))
    BY <1>1 DEF TakeCanonical, Goes, CanonicalStands
  <1>2. CASE ~(result.ok /\ (AutoWrite => Importable(result.props)))
    BY <1>2 DEF TakeCanonical, Goes, CanonicalWaits
  <1>. QED
    BY <1>1, <1>2

LEMMA CanonicalizeTaken ==
  ASSUME BatchInv, GraphInv, run \in Setups, CanonicalizeStep \/ GroupingAnswers
  PROVE  /\ CanonicalStands \/ CanonicalWaits
         /\ phase \in {"canonicalize", "grouping"} /\ known' \in Seq(NodeRecord)
         /\ UNCHANGED <<run, found, answers, report, graph, queue, crawlVars>>
  <1>1. CASE CanonicalizeStep
    <2>1. candidates \in Seq(CandidateRecord) /\ phase = "canonicalize"
      BY <1>1 DEF BatchInv, CanonicalizeStep
    <2>2. run.given \in Seq(NodeRecord) /\ graph.props \in Seq(NodeRecord)
      BY SetupsAssumption DEF Setup, GraphInv
    <2>3. PICK props \in Seq(NodeRecord) : props = KnownPropositions(graph.props, run.given)
      <3>1. graph.props \o run.given \in Seq(NodeRecord)
        BY <2>2, ConcatFacts
      <3>. QED
        BY <3>1, MergeRecordsFacts DEF KnownPropositions
    <2>4. known' = props
      BY <1>1, <2>3 DEF CanonicalizeStep
    <2>5. UNCHANGED <<run, found, answers, report, graph, queue, crawlVars>>
      BY <1>1 DEF CanonicalizeStep
    <2>6. CASE NeedsModel(candidates, props)
      BY <1>1, <2>1, <2>3, <2>4, <2>5, <2>6 DEF CanonicalizeStep, Goes, CanonicalWaits
    <2>7. CASE ~NeedsModel(candidates, props)
      <3>1. TakeCanonical(CanonicalizeByTerm(candidates, props))
        BY <1>1, <2>3, <2>7 DEF CanonicalizeStep
      <3>2. Canonical(CanonicalizeByTerm(candidates, props), candidates)
        BY <2>1, CanonicalizeFacts
      <3>. QED
        BY <2>1, <2>4, <2>5, <3>1, <3>2, CanonicalTaken
    <2>. QED
      BY <2>6, <2>7
  <1>2. CASE GroupingAnswers
    <2>1. /\ candidates \in Seq(CandidateRecord) /\ phase = "grouping" /\ known \in Seq(NodeRecord)
          /\ known' = known /\ UNCHANGED <<run, found, answers, report, graph, queue, crawlVars>>
      BY <1>2 DEF BatchInv, GroupingAnswers
    <2>2. CASE \E decided \in Groupings : TakeCanonical(CanonicalizeBy(decided, candidates, known))
      <3>1. PICK decided \in Groupings : TakeCanonical(CanonicalizeBy(decided, candidates, known))
        BY <2>2
      <3>2. decided \in Seq(DecisionRecord)
        BY AnswersAssumption
      <3>3. CanonicalizeBy(decided, candidates, known).ok
                => Canonical(CanonicalizeBy(decided, candidates, known), candidates)
        BY <2>1, <3>2, CanonicalizeFacts
      <3>. QED
        BY <2>1, <3>1, <3>3, CanonicalTaken
    <2>3. CASE phase' \in {"error", "raised"} /\ UNCHANGED <<candidates, imports>>
      BY <2>1, <2>3 DEF CanonicalWaits
    <2>. QED
      BY <1>2, <2>2, <2>3 DEF GroupingAnswers, Goes
  <1>. QED
    BY <1>1, <1>2

LEMMA CanonicalizeBatchInv ==
  ASSUME BatchInv, GraphInv, run \in Setups, CanonicalizeStep \/ GroupingAnswers
  PROVE  BatchInv'
  <1>1. /\ CanonicalStands \/ CanonicalWaits
        /\ phase \in {"canonicalize", "grouping"} /\ known' \in Seq(NodeRecord)
        /\ UNCHANGED <<run, found, answers, report, graph, queue, crawlVars>>
    BY CanonicalizeTaken
  <1>2. phase \in EarlyPhase
    BY <1>1 DEF EarlyPhase
  <1>3. report = NoReport /\ queue = {}
    BY <1>2 DEF BatchInv
  <1>4. CASE CanonicalStands
    <2>1. PICK result : /\ Canonical(result, candidates)
                        /\ candidates' = result.cands /\ imports' = result.props
      BY <1>4 DEF CanonicalStands
    <2>2. /\ candidates' \in Seq(RelationRecord)
          /\ imports' \in Seq(NodeRecord) /\ UniqueIds(imports')
      BY <2>1 DEF Canonical
    <2>3. /\ phase' \in EarlyPhase /\ phase' \notin WritingPhase
          /\ phase' \notin {"canonicalize", "grouping"}
      BY <1>4 DEF CanonicalStands, EarlyPhase, WritingPhase
    <2>4. report'.actions = <<>> /\ Len(<<>>) = 0
      BY <1>1, <1>3 DEF NoReport
    <2>. QED
      BY <1>1, <1>3, <2>2, <2>3, <2>4 DEF BatchInv, ReviewerSet
  <1>5. CASE CanonicalWaits
    <2>1. phase' \in EarlyPhase \cup EndPhases /\ phase' \notin WritingPhase
      BY <1>5 DEF CanonicalWaits, EndPhases, EarlyPhase, WritingPhase
    <2>. QED
      BY <1>1, <1>3, <1>5, <2>1 DEF CanonicalWaits, BatchInv, ReviewerSet
  <1>. QED
    BY <1>1, <1>4, <1>5

LEMMA ReviewBatchInv ==
  ASSUME BatchInv,
         \/ \E r \in ReviewerSet : ReviewerAnswers(r) \/ ReviewerFails(r) \/ ReviewerRaises(r)
         \/ ShortCircuit
  PROVE  BatchInv'
  <1>1. CASE \E r \in ReviewerSet : ReviewerAnswers(r) \/ ReviewerFails(r)
    <2>1. PICK r \in ReviewerSet : ReviewerAnswers(r) \/ ReviewerFails(r)
      BY <1>1
    <2>2. PICK answer : answers' = Answered(r, answer)
      BY <2>1, Zenon DEF ReviewerAnswers, ReviewerFails
    <2>3. DOMAIN answers' \subseteq ReviewerSet \cup {"handoff"}
      BY <2>2 DEF Answered, BatchInv
    <2>4. UNCHANGED <<run, phase, found, candidates, known, imports, report, graph, queue, crawlVars>>
      BY <2>1 DEF ReviewerAnswers, ReviewerFails, canonVars    <2>. QED
      BY <2>3, <2>4 DEF BatchInv, ReviewerSet
  <1>2. CASE \E r \in ReviewerSet : ReviewerRaises(r)
    <2>1. /\ phase' = "raised"
          /\ UNCHANGED <<run, found, candidates, known, imports, answers, report, graph, queue,
                         crawlVars>>
      BY <1>2 DEF ReviewerRaises, Goes, canonVars
    <2>2. /\ phase' \in EndPhases /\ phase' \notin EarlyPhase /\ phase' \notin WritingPhase
          /\ phase' \notin {"canonicalize", "grouping"}
      BY <2>1 DEF EndPhases, EarlyPhase, WritingPhase
    <2>. QED
      BY <2>1, <2>2 DEF BatchInv, ReviewerSet
  <1>3. CASE ShortCircuit
    <2>1. DOMAIN answers' = ReviewerSet
      BY <1>3 DEF ShortCircuit
    <2>2. UNCHANGED <<run, phase, found, candidates, known, imports, report, graph, queue, crawlVars>>
      BY <1>3 DEF ShortCircuit, canonVars
    <2>. QED
      BY <2>1, <2>2 DEF BatchInv, ReviewerSet
  <1>. QED
    BY <1>1, <1>2, <1>3

\* A report of a gate: an action for each candidate.
LEMMA ReportTaken ==
  ASSUME BatchInv, phase \in EarlyPhase, NEW cands \in Seq(RelationRecord), candidates' = cands,
         NEW actions, NEW approved, ActionFor(cands, actions),
         report' = [actions |-> actions, approved |-> approved],
         phase' \in WritingPhase \cup EndPhases,
         UNCHANGED <<run, found, known, imports, answers, graph, queue, crawlVars>>
  PROVE  BatchInv'
  <1>2. /\ report' = [actions |-> report'.actions, approved |-> report'.approved]
        /\ report'.actions = actions
    OBVIOUS
  <1>3. report'.actions \in Seq(GateAction) /\ Len(report'.actions) = Len(candidates')
    BY <1>2 DEF ActionFor
  <1>4. queue' = {}
    BY DEF BatchInv
  <1>5. phase' \notin EarlyPhase /\ phase' \notin {"canonicalize", "grouping"}
    BY DEF EarlyPhase, WritingPhase, EndPhases
  <1>. QED
    BY <1>2, <1>3, <1>4, <1>5 DEF BatchInv, ReviewerSet

LEMMA GateBatchInv ==
  ASSUME BatchInv, Gate
  PROVE  BatchInv'
  <1>1. phase \in EarlyPhase /\ candidates \in Seq(RelationRecord)
    BY DEF Gate, EarlyPhase, BatchInv
  <1>2. PICK reviews : reviews = GuardedReviews(Aggregated(candidates, AllReviews, run.policy, run.high,
                                                           ReviewerSet \ {None}))
    OBVIOUS
  <1>3. PICK floor : floor = IF AutoWrite THEN MinWriteConfidence ELSE NoConfidence
    OBVIOUS
  <1>4. PICK result : result = RunGate(candidates, reviews, graph, RunPropositions, floor, AutoWrite)
    OBVIOUS
  <1>5. /\ report' = [actions |-> result.actions, approved |-> result.approved]
        /\ phase' = CASE ~AutoWrite -> "done"
                      [] AutoWrite /\ result.approved = <<>> -> "enqueue"
                      [] OTHER -> "write"
        /\ UNCHANGED <<run, found, candidates, known, imports, answers, graph, queue, crawlVars>>
    BY <1>2, <1>3, <1>4, Zenon DEF Gate, Goes, canonVars
  <1>6. phase' \in {"done", "enqueue", "write"}
    <2>1. CASE ~AutoWrite
      BY <1>5, <2>1, Zenon
    <2>2. CASE AutoWrite /\ result.approved = <<>>
      BY <1>5, <2>2, Zenon
    <2>3. CASE AutoWrite /\ result.approved # <<>>
      BY <1>5, <2>3, Zenon
    <2>. QED
      BY <2>1, <2>2, <2>3
  <1>7. phase' \in WritingPhase \cup EndPhases
    BY <1>6 DEF WritingPhase, EndPhases
  <1>8. ActionFor(candidates, result.actions)
    BY <1>1, <1>4, RunGateActions
  <1>. QED
    BY <1>1, <1>5, <1>7, <1>8, ReportTaken

LEMMA ValidateBatchInv ==
  ASSUME BatchInv, run \in Setups, Validate
  PROVE  BatchInv'
  <1>1. phase \in EarlyPhase /\ run.batch \in Seq(CandidateRecord)
    BY SetupsAssumption DEF Validate, EarlyPhase, Setup
  <1>2. CASE run.retrieval = "partial" \/ run.batch = <<>>
    <2>1. /\ phase' = "error" /\ UNCHANGED <<candidates, report>>
          /\ UNCHANGED <<run, found, known, imports, answers, graph, queue, crawlVars>>
      BY <1>2 DEF Validate, Goes, canonVars
    <2>2. /\ phase' \in EndPhases /\ phase' \notin EarlyPhase /\ phase' \notin WritingPhase
          /\ phase' \notin {"canonicalize", "grouping"}
      BY <2>1 DEF EndPhases, EarlyPhase, WritingPhase
    <2>. QED
      BY <2>1, <2>2 DEF BatchInv, ReviewerSet
  <1>3. CASE ~(run.retrieval = "partial" \/ run.batch = <<>>)
    <2>1. PICK reviews : reviews = Aggregated(run.batch, run.reviews, run.policy, run.high, {})
      OBVIOUS
    <2>2. PICK gated : gated = ValidateCandidates(run.batch, reviews, graph, run.given,
                                                  MinWriteConfidence)
      OBVIOUS
    <2>3. PICK result : result = ProvenanceGate(gated)
      OBVIOUS
    <2>4. /\ candidates' = run.batch /\ phase' = "done"
          /\ report' = result
          /\ UNCHANGED <<run, found, known, imports, answers, graph, queue, crawlVars>>
      BY <1>3, <2>1, <2>2, <2>3, Zenon DEF Validate, Goes, canonVars
    <2>9. report' = [actions |-> result.actions, approved |-> result.approved]
      BY <2>3, <2>4 DEF ProvenanceGate
    <2>5. ActionFor(run.batch, gated.actions)
      BY <1>1, <2>2, ValidateActions
    <2>6. ActionFor(run.batch, result.actions)
      BY <1>1, <2>3, <2>5, ProvenanceActions
    <2>7. run.batch \in Seq(RelationRecord)
      BY <1>1 DEF CandidateRecord
    <2>8. phase' \in WritingPhase \cup EndPhases
      BY <2>4 DEF EndPhases
    <2>. QED
      BY <1>1, <2>4, <2>6, <2>7, <2>8, <2>9, ReportTaken
  <1>. QED
    BY <1>2, <1>3

LEMMA WriteBatchInv ==
  ASSUME BatchInv, LateStep
  PROVE  BatchInv'
  <1>1. UNCHANGED <<run, found, candidates, known, imports, answers, report, queue>>
    BY LateStepFacts DEF canonVars
  <1>2. phase \in WritingPhase /\ phase' \in WritingPhase \cup {"raised"}
    BY LateStepFacts
  <1>3. /\ phase' \in EarlyPhase \cup WritingPhase \cup EndPhases /\ phase' \notin EarlyPhase
        /\ phase' \notin {"canonicalize", "grouping"}
    BY <1>2 DEF WritingPhase, EarlyPhase, EndPhases
  <1>4. found' \in BOOLEAN
    BY <1>1 DEF BatchInv
  <1>. QED
    BY <1>1, <1>2, <1>3, <1>4, BatchUntouched

LEMMA EnqueueBatchInv ==
  ASSUME BatchInv, Enqueue
  PROVE  BatchInv'
  <1>1. phase = "enqueue" /\ phase' \in {"done", "raised"}
    BY DEF Enqueue, Goes
  <1>2. /\ phase \in WritingPhase /\ phase' \in EndPhases /\ phase' \notin EarlyPhase
        /\ phase' \notin WritingPhase /\ phase' \notin {"canonicalize", "grouping"}
    BY <1>1 DEF WritingPhase, EarlyPhase, EndPhases
  <1>3. DOMAIN report.actions = DOMAIN candidates
    BY <1>2 DEF BatchInv
  <1>4. ToQueue(report.actions) \subseteq {candidates[i].id : i \in DOMAIN candidates}
    BY <1>3 DEF ToQueue
  <1>5. queue' \subseteq {candidates[i].id : i \in DOMAIN candidates}
    BY <1>4 DEF BatchInv, Enqueue
  <1>6. UNCHANGED <<run, found, candidates, known, imports, answers, report, graph, crawlVars>>
    BY DEF Enqueue, canonVars
  <1>. QED
    BY <1>2, <1>5, <1>6 DEF BatchInv, ReviewerSet

\* Where the steps that gather evidence lead.
LEMMA EvidencePhases ==
  ASSUME LoadInput \/ Search \/ FetchUrls \/ BeginCrawl \/ Crawl \/ EndCrawl \/ EvidenceCheck
  PROVE  phase' \in {"search", "fetch", "crawl", "gathered", "extract", "error", "raised"}
  <1>1. CASE Search
    <2>1. PICK result :
              phase' = CASE (run.crawl /\ run.urls = <<>>)
                            \/ (~found /\ run.urls = <<>> /\ ~run.search) -> "raised"
                         [] result = "failed" /\ ~(run.crawl /\ run.urls = <<>>) -> "error"
                         [] OTHER -> "fetch"
      BY <1>1, Zenon DEF Search
    <2>2. phase' \in {"raised", "error", "fetch"}
      BY <2>1, Zenon
    <2>. QED
      BY <2>2
  <1>2. CASE LoadInput \/ FetchUrls \/ BeginCrawl \/ EndCrawl \/ EvidenceCheck
    BY <1>2 DEF LoadInput, FetchUrls, BeginCrawl, EndCrawl, EvidenceCheck, Goes
  <1>3. CASE Crawl
    BY <1>3 DEF Crawl
  <1>. QED
    BY <1>1, <1>2, <1>3

LEMMA EvidenceBatchInv ==
  ASSUME BatchInv, run \in Setups,
         \/ LoadInput \/ Search \/ FetchUrls \/ BeginCrawl \/ Crawl \/ EndCrawl \/ EvidenceCheck
  PROVE  BatchInv'
  <1>1. UNCHANGED <<run, candidates, known, imports, answers, report, queue>>
    BY DEF LoadInput, Search, FetchUrls, BeginCrawl, Crawl, EndCrawl, EvidenceCheck, canonVars
  <1>2. phase \in {"start", "search", "fetch", "crawl", "gathered"}
    BY DEF LoadInput, Search, FetchUrls, BeginCrawl, Crawl, EndCrawl, EvidenceCheck
  <1>3. phase' \in {"search", "fetch", "crawl", "gathered", "extract", "error", "raised"}
    BY EvidencePhases
  <1>4. found' \in BOOLEAN
    <2>1. run.evidence \in BOOLEAN /\ found \in BOOLEAN
      BY SetupsAssumption DEF Setup, BatchInv
    <2>2. CASE LoadInput \/ FetchUrls \/ BeginCrawl \/ Crawl \/ EvidenceCheck
      BY <2>1, <2>2 DEF LoadInput, FetchUrls, BeginCrawl, Crawl, EvidenceCheck, Goes
    <2>3. CASE Search
      BY <2>1, <2>3, Zenon DEF Search
    <2>4. CASE EndCrawl
      BY <2>1, <2>4, Zenon DEF EndCrawl
    <2>. QED
      BY <2>2, <2>3, <2>4
  <1>5. /\ phase \in EarlyPhase /\ phase' \in EarlyPhase \cup EndPhases /\ phase' \notin WritingPhase
        /\ phase' \notin {"canonicalize", "grouping"}
    BY <1>2, <1>3 DEF EarlyPhase, WritingPhase, EndPhases
  <1>. QED
    BY <1>1, <1>4, <1>5, BatchUntouched

LEMMA BatchInvNext ==
  ASSUME run \in Setups, GraphInv, BatchInv, [Next]_vars
  PROVE  BatchInv'
  <1>1. CASE UNCHANGED vars \/ OtherProcess
    <2>1. UNCHANGED <<run, phase, found, candidates, known, imports, answers, report, queue>>
      BY <1>1 DEF vars, OtherProcess, canonVars
    <2>. QED
      BY <2>1 DEF BatchInv, ReviewerSet
  <1>2. CASE Extract \/ Handoff
    BY <1>2, ExtractBatchInv, HandoffBatchInv
  <1>3. CASE CanonicalizeStep \/ GroupingAnswers
    BY <1>3, CanonicalizeBatchInv
  <1>4. CASE \/ \E r \in ReviewerSet : ReviewerAnswers(r) \/ ReviewerFails(r) \/ ReviewerRaises(r)
             \/ ShortCircuit
    BY <1>4, ReviewBatchInv
  <1>5. CASE Gate \/ Validate
    BY <1>5, GateBatchInv, ValidateBatchInv
  <1>6. CASE LateStep \/ Enqueue
    BY <1>6, WriteBatchInv, EnqueueBatchInv
  <1>7. CASE LoadInput \/ Search \/ FetchUrls \/ BeginCrawl \/ Crawl \/ EndCrawl \/ EvidenceCheck
    BY <1>7, EvidenceBatchInv
  <1>. QED
    BY <1>1, <1>2, <1>3, <1>4, <1>5, <1>6, <1>7 DEF Next, RunStep, Finished, LateStep

LEMMA BatchInvariant == Spec => [](RunInv /\ GraphInv /\ BatchInv /\ WriteInv)
  <1>1. Init => GraphInv /\ BatchInv /\ WriteInv
    BY GraphInvInit, BatchInvInit, WriteInvInit
  <1>2. RunInv /\ GraphInv /\ BatchInv /\ WriteInv /\ [Next]_vars => (GraphInv /\ BatchInv /\ WriteInv)'
    BY GraphInvNext, BatchInvNext, WriteInvNext DEF RunInv
  <1>. QED
    BY <1>1, <1>2, RunInvariant, PTL DEF Spec

\* Whatever the models, the search and the web answer, and whatever others add
\* to the store meanwhile, a run has an action for each candidate or none,
\* queues candidates of its own, and leaves the propositions of the store with
\* one id each and no term of two.
THEOREM RunTypesCorrect == Spec => []TypeOK
  <1>1. RunInv /\ GraphInv /\ BatchInv /\ WriteInv => TypeOK
    <2>. SUFFICES ASSUME RunInv, GraphInv, BatchInv, WriteInv PROVE TypeOK
      OBVIOUS
    <2>1. phase \in {"start", "search", "fetch", "crawl", "gathered", "extract", "canonicalize",
                     "grouping", "review", "write", "dedupe", "assert", "check", "append", "import",
                     "merge", "rewrite", "enqueue"} \cup EndPhases
      BY DEF BatchInv, EarlyPhase, WritingPhase
    <2>2. ToSet(report.actions) \subseteq GateAction
      BY DEF BatchInv, ToSet
    <2>. QED
      BY <2>1, <2>2 DEF RunInv, GraphInv, BatchInv, WriteInv, TypeOK
  <1>. QED
    BY <1>1, BatchInvariant, PTL

(***************************************************************************)
(* The votes                                                               *)
(***************************************************************************)
LEMMA NeedsHumanFacts ==
  ASSUME NEW c \in Name, NEW m \in NameOrNone
  PROVE  /\ NeedsHuman(c, m) \in ReviewRecord
         /\ NeedsHuman(c, m).by = m /\ NeedsHuman(c, m).decision = "needs_human"
  BY DEF NeedsHuman, ReviewRecord, Decision, NoConfidence

\* A vote of "needs_human" for each model that cast none.
LEMMA MissingVotesFacts ==
  ASSUME NEW c \in Name, NEW cast, NEW models \in SUBSET Name, IsFiniteSet(models)
  PROVE  /\ MissingVotes(c, cast, models) \in Seq(ReviewRecord)
         /\ Len(MissingVotes(c, cast, models)) = Cardinality(models \ Models(cast))
         /\ IsFiniteSet(models \ Models(cast))
         /\ ToSet(MissingVotes(c, cast, models)) = {NeedsHuman(c, m) : m \in models \ Models(cast)}
  <1>1. PICK M \in SUBSET Name : M = models \ Models(cast)
    OBVIOUS
  <1>2. IsFiniteSet(M)
    BY <1>1, FS_Subset
  <1>3. PICK S : S = {NeedsHuman(c, m) : m \in M}
    OBVIOUS
  <1>4. PICK f : f = [m \in M |-> NeedsHuman(c, m)]
    OBVIOUS
  <1>5. \A m \in M : f[m] \in S /\ f[m].by = m /\ f[m] \in ReviewRecord
                     /\ f[m] = NeedsHuman(c, m)
    BY <1>3, <1>4, NeedsHumanFacts DEF NameOrNone
  <1>6. f \in Surjection(M, S)
    BY <1>3, <1>4 DEF Surjection
  <1>7. f \in Injection(M, S)
    <2>1. f \in [M -> S]
      BY <1>4, <1>5
    <2>2. \A a, b \in M : f[a] = f[b] => a = b
      BY <1>5
    <2>3. IsInjective(f)
      BY <2>1, <2>2 DEF IsInjective
    <2>. QED
      BY <2>1, <2>3 DEF Injection
  <1>8. IsFiniteSet(S) /\ Cardinality(S) = Cardinality(M)
    BY <1>2, <1>6, <1>7, FS_Surjection
  <1>9. S \subseteq ReviewRecord
    BY <1>3, <1>5
  <1>10. PICK t : t = SetToSeq(S)
    OBVIOUS
  <1>11. t \in Seq(S) /\ Len(t) = Cardinality(S) /\ ToSet(t) = S
    BY <1>8, <1>10, SetToSeqFacts
  <1>12. t \in Seq(ReviewRecord)
    BY <1>9, <1>11
  <1>13. MissingVotes(c, cast, models) = t
    BY <1>1, <1>3, <1>10, Zenon DEF MissingVotes
  <1>. QED
    BY <1>1, <1>2, <1>3, <1>8, <1>11, <1>12, <1>13

\* The approvals of one type.
For(votes, type) == {v \in ToSet(votes) : v.decision = "approve" /\ v.type = type}

\* Filtering by decision and then by type counts the votes of both.
LEMMA ApprovalsFor ==
  ASSUME NEW votes \in Seq(ReviewRecord), NEW type
  PROVE  Among(With(votes, "approve"), {v \in ToSet(With(votes, "approve")) : v.type = type})
            = Among(votes, For(votes, type))
  <1>1. PICK S : S = {v \in ToSet(votes) : v.decision = "approve"}
    OBVIOUS
  <1>2. PICK a \in Seq(ReviewRecord) : a = Among(votes, S)
    BY AmongFacts
  <1>3. ToSet(a) = S
    BY <1>1, <1>2, AmongFacts
  <1>4. With(votes, "approve") = a
    BY <1>1, <1>2 DEF With
  <1>5. PICK T : T = {v \in ToSet(a) : v.type = type}
    OBVIOUS
  <1>6. Among(a, T) = Among(votes, S \cap T)
    BY <1>2, AmongTwice
  <1>7. S \cap T = For(votes, type)
    BY <1>1, <1>3, <1>5 DEF For
  <1>. QED
    BY <1>4, <1>5, <1>6, <1>7

\* A type that is agreed on has as many approvals as are required.
LEMMA AgreedTypeFacts ==
  ASSUME NEW votes \in Seq(ReviewRecord), NEW required,
         AgreedType(With(votes, "approve"), required) # None
  PROVE  Len(Among(votes, For(votes, AgreedType(With(votes, "approve"), required)))) >= required
  <1>1. PICK a : a = With(votes, "approve")
    OBVIOUS
  <1>. DEFINE agreed(t) == Len(Among(a, {v \in ToSet(a) : v.type = t})) >= required
  <1>2. AgreedType(a, required)
            = IF \E t \in RelationType : agreed(t) THEN CHOOSE t \in RelationType : agreed(t) ELSE None
    BY Zenon DEF AgreedType
  <1>. HIDE DEF agreed
  <1>3. \E t \in RelationType : agreed(t)
    BY <1>1, <1>2
  <1>4. PICK type : type = CHOOSE t \in RelationType : agreed(t)
    OBVIOUS
  <1>5. agreed(type)
    BY <1>3, <1>4, Zenon
  <1>6. AgreedType(a, required) = type
    BY <1>2, <1>3, <1>4, Zenon
  <1>7. Among(a, {v \in ToSet(a) : v.type = type}) = Among(votes, For(votes, type))
    BY <1>1, ApprovalsFor
  <1>8. Len(Among(votes, For(votes, type))) >= required
    BY <1>5, <1>7, Zenon DEF agreed
  <1>. QED
    BY <1>1, <1>6, <1>8

\* The approvals among the ballots are among the votes cast.
LEMMA BallotsFacts ==
  ASSUME NEW c \in Name, NEW all \in Seq(ReviewRecord), NEW expected, NEW high,
         expected \cup high \in SUBSET Name, IsFiniteSet(expected \cup high)
  PROVE  LET cast == ReviewsOf(all, c)
             silent == (expected \cup high) \ Models(cast)
             votes == Ballots(c, all, expected, high)
         IN  /\ cast \in Seq(ReviewRecord) /\ votes \in Seq(ReviewRecord)
             /\ Len(votes) = Len(cast) + Cardinality(silent)
             /\ Len(cast) \in Nat /\ Cardinality(silent) \in Nat
             /\ Cardinality(silent) = 0 => silent = {} /\ votes = cast
             /\ ToSet(votes) = ToSet(cast) \cup {NeedsHuman(c, m) : m \in silent}
             /\ \A S : (\A m \in silent : NeedsHuman(c, m) \notin S) => Among(votes, S) = Among(cast, S)
  <1>1. PICK cast \in Seq(ReviewRecord) : cast = ReviewsOf(all, c)
    BY AmongFacts DEF ReviewsOf
  <1>2. PICK silent : silent = (expected \cup high) \ Models(cast)
    OBVIOUS
  <1>3. PICK missing : missing = MissingVotes(c, cast, expected \cup high)
    OBVIOUS
  <1>4. /\ missing \in Seq(ReviewRecord) /\ Len(missing) = Cardinality(silent)
        /\ IsFiniteSet(silent) /\ ToSet(missing) = {NeedsHuman(c, m) : m \in silent}
    BY <1>2, <1>3, MissingVotesFacts
  <1>5. PICK votes : votes = cast \o missing
    OBVIOUS
  <1>6. Ballots(c, all, expected, high) = votes
    BY <1>1, <1>3, <1>5, Zenon DEF Ballots
  <1>7. /\ votes \in Seq(ReviewRecord) /\ Len(votes) = Len(cast) + Cardinality(silent)
        /\ Len(cast) \in Nat /\ ToSet(votes) = ToSet(cast) \cup {NeedsHuman(c, m) : m \in silent}
    <2>1. PICK list \in Seq(ReviewRecord) : list = missing
      BY <1>4
    <2>2. /\ cast \o list \in Seq(ReviewRecord) /\ Len(cast \o list) = Len(cast) + Len(list)
          /\ Len(cast) \in Nat /\ ToSet(cast \o list) = ToSet(cast) \cup ToSet(list)
      BY ConcatFacts
    <2>. QED
      BY <1>4, <1>5, <2>1, <2>2
  <1>8. Cardinality(silent) \in Nat
    BY <1>4
  <1>9. ASSUME Cardinality(silent) = 0 PROVE silent = {} /\ votes = cast
    <2>1. silent = {}
      BY <1>4, <1>9, FS_EmptySet
    <2>2. missing = <<>>
      BY <1>4, <2>1, NoElements
    <2>. QED
      BY <1>5, <2>1, <2>2
  <1>10. ASSUME NEW S, \A m \in silent : NeedsHuman(c, m) \notin S
         PROVE  Among(votes, S) = Among(cast, S)
    <2>1. PICK list \in Seq(ReviewRecord) : list = missing
      BY <1>4
    <2>2. ToSet(list) \cap S = {}
      BY <1>4, <1>10, <2>1
    <2>3. Among(cast \o list, S) = Among(cast, S)
      BY <2>2, AmongDropped
    <2>. QED
      BY <1>5, <2>1, <2>3
  <1>. QED
    BY <1>1, <1>2, <1>6, <1>7, <1>8, <1>9, <1>10

LEMMA BallotsFor ==
  ASSUME NEW c \in Name, NEW all \in Seq(ReviewRecord), NEW expected, NEW high,
         expected \cup high \in SUBSET Name, IsFiniteSet(expected \cup high),
         NEW cast, cast = ReviewsOf(all, c),
         NEW votes, votes = Ballots(c, all, expected, high), NEW type
  PROVE  /\ For(votes, type) = For(cast, type)
         /\ Among(votes, For(votes, type)) = Among(cast, For(cast, type))
  <1>1. PICK silent : silent = (expected \cup high) \ Models(cast)
    OBVIOUS
  <1>2. /\ ToSet(votes) = ToSet(cast) \cup {NeedsHuman(c, m) : m \in silent}
        /\ \A S : (\A m \in silent : NeedsHuman(c, m) \notin S) => Among(votes, S) = Among(cast, S)
    BY <1>1, BallotsFacts, ZenonT(60)
  <1>3. \A m \in silent : NeedsHuman(c, m).decision = "needs_human"
    BY DEF NeedsHuman
  <1>4. \A m \in silent : NeedsHuman(c, m) \notin For(cast, type)
    BY <1>3 DEF For
  <1>5. For(votes, type) = For(cast, type)
    BY <1>2, <1>3 DEF For
  <1>6. PICK S : S = For(cast, type)
    OBVIOUS
  <1>7. Among(votes, S) = Among(cast, S)
    BY <1>2, <1>4, <1>6
  <1>. QED
    BY <1>5, <1>6, <1>7

\* What the votes on a candidate are to be for its review v to approve it.
Supports(cast, silent, policy, high, v) ==
    LET backers == Among(cast, For(cast, v.type))
    IN  /\ backers # <<>>
        /\ \A b \in For(cast, v.type) : b.ok
        /\ v.cost = Max({b.cost : b \in For(cast, v.type)})
        /\ 2 * Len(backers) > Len(cast) + Cardinality(silent)
        /\ policy = "unanimous" => backers = cast /\ silent = {}
        /\ policy = "risk_tiered" =>
            /\ high \subseteq Models(cast)
            /\ \A b \in ToSet(cast) : b.by \in high => b \in For(cast, v.type)

\* An aggregate approves only with a verdict, and if each vote confirms it.
LEMMA AggregateReviewFacts ==
  ASSUME NEW c, NEW votes, NEW verdict, NEW v, v = AggregateReview(c, votes, verdict),
         v.decision = "approve"
  PROVE  /\ verdict.decision = "approve" /\ v.type = verdict.type
         /\ \A b \in For(votes, verdict.type) : b.ok
         /\ v.cost = Max({b.cost : b \in For(votes, verdict.type)})
  <1>1. PICK S : S = For(votes, verdict.type)
    OBVIOUS
  <1>2. v = CASE verdict.decision = "approve" /\ (\A b \in S : b.ok) ->
                   [cand |-> c, decision |-> "approve", type |-> verdict.type,
                    cost |-> Max({b.cost : b \in S}), ok |-> TRUE, by |-> "aggregate"]
             [] verdict.decision = "reject" -> [NeedsHuman(c, "aggregate") EXCEPT !.decision = "reject"]
             [] OTHER -> NeedsHuman(c, "aggregate")
    BY <1>1, Zenon DEF AggregateReview, For
  <1>3. CASE verdict.decision = "approve" /\ (\A b \in S : b.ok)
    <2>1. PICK most : most = Max({b.cost : b \in S})
      OBVIOUS
    <2>2. v = [cand |-> c, decision |-> "approve", type |-> verdict.type,
               cost |-> most, ok |-> TRUE, by |-> "aggregate"]
      <3>1. verdict.decision # "reject"
        BY <1>3
      <3>. QED
        BY <1>2, <1>3, <2>1, <3>1, Zenon
    <2>3. v.type = verdict.type /\ v.cost = most
      BY <2>2
    <2>. QED
      BY <1>1, <1>3, <2>1, <2>3
  <1>4. CASE verdict.decision = "reject"
    <2>1. v = [NeedsHuman(c, "aggregate") EXCEPT !.decision = "reject"]
      <3>1. verdict.decision # "approve"
        BY <1>4
      <3>. QED
        BY <1>2, <1>4, <3>1, Zenon
    <2>2. v.decision = "reject"
      BY <2>1 DEF NeedsHuman
    <2>. QED
      BY <2>2
  <1>5. CASE ~(verdict.decision = "approve" /\ (\A b \in S : b.ok)) /\ verdict.decision # "reject"
    <2>1. v = NeedsHuman(c, "aggregate")
      BY <1>2, <1>5, Zenon
    <2>2. v.decision = "needs_human"
      BY <2>1 DEF NeedsHuman
    <2>. QED
      BY <2>2
  <1>. QED
    BY <1>3, <1>4, <1>5

\* The votes that a verdict of approval rests on.
Carries(votes, policy, high, type) ==
    /\ 2 * Len(Among(votes, For(votes, type))) > Len(votes)
    /\ policy = "unanimous" => Among(votes, For(votes, type)) = votes
    /\ policy = "risk_tiered" => \A b \in ToSet(votes) : b.by \in high => b \in For(votes, type)

LEMMA EnoughVotes ==
  ASSUME NEW votes \in Seq(ReviewRecord), NEW required \in Nat, 2 * required > Len(votes),
         NEW type, type = AgreedType(With(votes, "approve"), required), type # None
  PROVE  /\ 2 * Len(Among(votes, For(votes, type))) > Len(votes)
         /\ required = Len(votes) => Among(votes, For(votes, type)) = votes
  <1>1. PICK a \in Seq(ReviewRecord) : a = Among(votes, For(votes, type))
    BY AmongFacts
  <1>2. Len(a) >= required
    BY <1>1, AgreedTypeFacts
  <1>3. Len(a) <= Len(votes) /\ (Len(a) = Len(votes) => a = votes)
    BY <1>1, AmongShorter
  <1>4. Len(a) \in Nat /\ Len(votes) \in Nat
    OBVIOUS
  <1>. QED
    BY <1>1, <1>2, <1>3, <1>4

LEMMA UnanimousFacts ==
  ASSUME NEW votes \in Seq(ReviewRecord), votes # <<>>, NEW high, NEW verdict,
         verdict = UnanimousVerdict(votes), verdict.decision = "approve"
  PROVE  Carries(votes, "unanimous", high, verdict.type)
  <1>1. PICK type : type = AgreedType(With(votes, "approve"), Len(votes))
    OBVIOUS
  <1>2. verdict = CASE With(votes, "reject") # <<>> -> Verdict("reject", None)
                    [] With(votes, "reject") = <<>> /\ type # None -> Verdict("approve", type)
                    [] OTHER -> Undecided
    BY <1>1, Zenon DEF UnanimousVerdict
  <1>3. CASE With(votes, "reject") # <<>>
    <2>1. verdict = Verdict("reject", None)
      BY <1>2, <1>3, Zenon
    <2>. QED
      BY <2>1 DEF Verdict
  <1>4. CASE With(votes, "reject") = <<>> /\ type = None
    <2>1. verdict = Undecided
      BY <1>2, <1>4, Zenon
    <2>. QED
      BY <2>1 DEF Undecided, Verdict
  <1>5. CASE With(votes, "reject") = <<>> /\ type # None
    <2>1. verdict = Verdict("approve", type)
      BY <1>2, <1>5, Zenon
    <2>2. verdict.type = type
      BY <2>1 DEF Verdict
    <2>3. Len(votes) \in Nat /\ 2 * Len(votes) > Len(votes)
      OBVIOUS
    <2>4. 2 * Len(Among(votes, For(votes, type))) > Len(votes) /\ Among(votes, For(votes, type)) = votes
      BY <1>1, <1>5, <2>3, EnoughVotes
    <2>. QED
      BY <2>2, <2>4 DEF Carries
  <1>. QED
    BY <1>3, <1>4, <1>5

LEMMA MajorityFacts ==
  ASSUME NEW votes \in Seq(ReviewRecord), NEW high, NEW verdict,
         verdict = MajorityVerdict(votes), verdict.decision = "approve"
  PROVE  Carries(votes, "majority", high, verdict.type)
  <1>1. PICK type : type = AgreedType(With(votes, "approve"), StrictMajority(votes))
    OBVIOUS
  <1>2. verdict = CASE type # None -> Verdict("approve", type)
                    [] type = None /\ 2 * Len(With(votes, "reject")) > Len(votes) -> Verdict("reject", None)
                    [] OTHER -> Undecided
    BY <1>1, Zenon DEF MajorityVerdict
  <1>3. CASE type = None
    <2>1. verdict = Verdict("reject", None) \/ verdict = Undecided
      BY <1>2, <1>3, Zenon
    <2>. QED
      BY <2>1 DEF Undecided, Verdict
  <1>4. CASE type # None
    <2>1. verdict = Verdict("approve", type)
      BY <1>2, <1>4, Zenon
    <2>2. verdict.type = type
      BY <2>1 DEF Verdict
    <2>3. StrictMajority(votes) \in Nat /\ 2 * StrictMajority(votes) > Len(votes)
      <3>1. Len(votes) \in Nat
        OBVIOUS
      <3>. QED
        BY <3>1 DEF StrictMajority
    <2>4. 2 * Len(Among(votes, For(votes, type))) > Len(votes)
      BY <1>1, <1>4, <2>3, EnoughVotes
    <2>. QED
      BY <2>2, <2>4 DEF Carries
  <1>. QED
    BY <1>3, <1>4

LEMMA RiskTieredFacts ==
  ASSUME NEW votes \in Seq(ReviewRecord), NEW high, NEW verdict,
         verdict = RiskTieredVerdict(votes, high), verdict.decision = "approve"
  PROVE  Carries(votes, "risk_tiered", high, verdict.type)
  <1>1. PICK type : type = AgreedType(With(votes, "approve"), StrictMajority(votes))
    OBVIOUS
  <1>2. PICK S : S = {b \in ToSet(votes) : b.by \in high}
    OBVIOUS
  <1>3. PICK first \in Seq(ReviewRecord) : first = Among(votes, S)
    BY AmongFacts
  <1>4. ByModels(votes, high) = first
    BY <1>2, <1>3 DEF ByModels
  <1>5. ToSet(first) = S
    BY <1>2, <1>3, AmongFacts
  <1>6. PICK types : types = {b.type : b \in ToSet(first)}
    OBVIOUS
  <1>7. verdict = CASE With(first, "reject") # <<>> -> Verdict("reject", None)
                    [] With(first, "approve") = first /\ type # None /\ types \subseteq {type} ->
                          Verdict("approve", type)
                    [] OTHER -> Undecided
    BY <1>1, <1>4, <1>6, Zenon DEF RiskTieredVerdict
  <1>8. CASE ~(With(first, "approve") = first /\ type # None /\ types \subseteq {type})
    <2>1. verdict = Verdict("reject", None) \/ verdict = Undecided
      BY <1>7, <1>8, Zenon
    <2>. QED
      BY <2>1 DEF Undecided, Verdict
  <1>9. CASE With(first, "approve") = first /\ type # None /\ types \subseteq {type}
    <2>1. verdict = Verdict("reject", None) \/ verdict = Verdict("approve", type)
      BY <1>7, <1>9, Zenon
    <2>2. verdict.type = type
      BY <2>1 DEF Verdict
    <2>3. StrictMajority(votes) \in Nat /\ 2 * StrictMajority(votes) > Len(votes)
      <3>1. Len(votes) \in Nat
        OBVIOUS
      <3>. QED
        BY <3>1 DEF StrictMajority
    <2>4. 2 * Len(Among(votes, For(votes, type))) > Len(votes)
      BY <1>1, <1>9, <2>3, EnoughVotes
    <2>5. \A b \in ToSet(first) : b.decision = "approve"
      <3>1. PICK A : A = {b \in ToSet(first) : b.decision = "approve"}
        OBVIOUS
      <3>2. Among(first, A) = first
        BY <1>9, <3>1 DEF With
      <3>3. ToSet(Among(first, A)) = ToSet(first) \cap A
        BY AmongFacts
      <3>. QED
        BY <3>1, <3>2, <3>3
    <2>6. \A b \in ToSet(votes) : b.by \in high => b \in For(votes, type)
      BY <1>2, <1>5, <1>6, <1>9, <2>5 DEF For
    <2>. QED
      BY <2>2, <2>4, <2>6 DEF Carries
  <1>. QED
    BY <1>8, <1>9

LEMMA MaxOfOne ==
  ASSUME NEW n \in Nat
  PROVE  Max({n}) = n
  BY DEF Max

\* A verdict of approval on the ballots is backed by the votes cast.
LEMMA CarriedFacts ==
  ASSUME NEW c \in Name, NEW all \in Seq(ReviewRecord), NEW expected, NEW high,
         expected \cup high \in SUBSET Name, IsFiniteSet(expected \cup high), NEW policy,
         NEW cast, cast = ReviewsOf(all, c), NEW silent, silent = (expected \cup high) \ Models(cast),
         NEW votes, votes = Ballots(c, all, expected, high),
         NEW v, Carries(votes, policy, high, v.type), \A b \in For(votes, v.type) : b.ok,
         v.cost = Max({b.cost : b \in For(votes, v.type)})
  PROVE  Supports(cast, silent, policy, high, v)
  <1>1. PICK type : type = v.type
    OBVIOUS
  <1>2. /\ cast \in Seq(ReviewRecord) /\ votes \in Seq(ReviewRecord)
        /\ Len(votes) = Len(cast) + Cardinality(silent)
        /\ Len(cast) \in Nat /\ Cardinality(silent) \in Nat
        /\ Cardinality(silent) = 0 => silent = {} /\ votes = cast
        /\ ToSet(votes) = ToSet(cast) \cup {NeedsHuman(c, m) : m \in silent}
        /\ For(votes, type) = For(cast, type)
        /\ Among(votes, For(votes, type)) = Among(cast, For(cast, type))
    <2>1. /\ cast \in Seq(ReviewRecord) /\ votes \in Seq(ReviewRecord)
          /\ Len(votes) = Len(cast) + Cardinality(silent)
          /\ Len(cast) \in Nat /\ Cardinality(silent) \in Nat
          /\ Cardinality(silent) = 0 => silent = {} /\ votes = cast
          /\ ToSet(votes) = ToSet(cast) \cup {NeedsHuman(c, m) : m \in silent}
      BY BallotsFacts
    <2>2. For(votes, type) = For(cast, type) /\ Among(votes, For(votes, type)) = Among(cast, For(cast, type))
      BY BallotsFor
    <2>. QED
      BY <2>1, <2>2
  <1>3. PICK b \in Seq(ReviewRecord) : b = Among(cast, For(cast, type))
    BY <1>2, AmongFacts
  <1>4. /\ 2 * Len(b) > Len(votes)
        /\ policy = "unanimous" => b = votes
        /\ policy = "risk_tiered" => \A x \in ToSet(votes) : x.by \in high => x \in For(cast, type)
    BY <1>1, <1>2, <1>3 DEF Carries
  <1>5. Len(b) \in Nat /\ Len(b) <= Len(cast)
    BY <1>2, <1>3, AmongShorter
  <1>6. b # <<>>
    <2>1. Len(<<>>) = 0
      OBVIOUS
    <2>. QED
      BY <1>2, <1>4, <1>5, <2>1
  <1>7. ASSUME policy = "unanimous" PROVE b = cast /\ silent = {}
    BY <1>2, <1>4, <1>5, <1>7
  <1>8. ASSUME policy = "risk_tiered"
        PROVE  /\ high \subseteq Models(cast)
               /\ \A x \in ToSet(cast) : x.by \in high => x \in For(cast, type)
    <2>1. ASSUME NEW m \in high, m \notin Models(cast) PROVE FALSE
      <3>1. m \in silent /\ m \in Name
        BY <2>1
      <3>2. NeedsHuman(c, m) \in ToSet(votes)
        BY <1>2, <3>1
      <3>3. NeedsHuman(c, m).by = m /\ NeedsHuman(c, m).decision = "needs_human"
        BY <3>1, NeedsHumanFacts DEF NameOrNone
      <3>4. NeedsHuman(c, m) \in For(cast, type)
        BY <1>4, <1>8, <2>1, <3>2, <3>3
      <3>. QED
        BY <3>3, <3>4 DEF For
    <2>. QED
      BY <1>2, <1>4, <1>8, <2>1
  <1>9. \A x \in For(cast, type) : x.ok
    BY <1>1, <1>2
  <1>10. v.cost = Max({x.cost : x \in For(cast, type)})
    BY <1>1, <1>2
  <1>11. 2 * Len(b) > Len(cast) + Cardinality(silent)
    BY <1>2, <1>4
  <1>. QED
    BY <1>1, <1>3, <1>6, <1>7, <1>8, <1>9, <1>10, <1>11, Zenon DEF Supports

\* A lone vote: it was cast, and nobody else was asked.
LEMMA LoneVoteFacts ==
  ASSUME NEW c \in Name, NEW all \in Seq(ReviewRecord), NEW expected, NEW high,
         expected \cup high \in SUBSET Name, IsFiniteSet(expected \cup high), NEW policy,
         NEW cast, cast = ReviewsOf(all, c), NEW silent, silent = (expected \cup high) \ Models(cast),
         NEW votes, votes = Ballots(c, all, expected, high), Len(votes) = 1,
         high \subseteq Models(votes), NEW v, v = votes[1], v.decision = "approve", v.ok
  PROVE  Supports(cast, silent, policy, high, v)
  <1>1. PICK type : type = v.type
    OBVIOUS
  <1>2. /\ cast \in Seq(ReviewRecord) /\ votes \in Seq(ReviewRecord)
        /\ Len(votes) = Len(cast) + Cardinality(silent)
        /\ Len(cast) \in Nat /\ Cardinality(silent) \in Nat
        /\ Cardinality(silent) = 0 => silent = {} /\ votes = cast
        /\ ToSet(votes) = ToSet(cast) \cup {NeedsHuman(c, m) : m \in silent}
    BY BallotsFacts
  <1>3. ToSet(votes) = {v} /\ v \in ReviewRecord
    <2>1. DOMAIN votes = {1}
      BY <1>2
    <2>. QED
      BY <1>2, <2>1 DEF ToSet
  <1>4. Cardinality(silent) = 0
    <2>1. SUFFICES ASSUME Cardinality(silent) # 0 PROVE FALSE
      OBVIOUS
    <2>2. silent # {}
      BY <2>1, FS_EmptySet
    <2>3. PICK m \in silent : TRUE
      BY <2>2
    <2>4. v = NeedsHuman(c, m)
      BY <1>2, <1>3, <2>3
    <2>5. v.decision = "needs_human"
      BY <2>4 DEF NeedsHuman
    <2>. QED
      BY <2>5
  <1>5. silent = {} /\ votes = cast
    BY <1>2, <1>4
  <1>6. For(cast, type) = {v}
    BY <1>1, <1>3, <1>5 DEF For
  <1>7. Among(cast, For(cast, type)) = cast
    BY <1>2, <1>3, <1>5, <1>6, AmongShorter
  <1>8. v.cost \in Nat
    BY <1>3 DEF ReviewRecord
  <1>9. {b.cost : b \in For(cast, type)} = {v.cost}
    BY <1>6
  <1>10. v.cost = Max({b.cost : b \in For(cast, type)})
    BY <1>8, <1>9, MaxOfOne
  <1>11. cast # <<>> /\ 2 * Len(cast) > Len(cast) + Cardinality(silent)
    BY <1>2, <1>4, <1>5
  <1>12. \A b \in For(cast, type) : b.ok
    BY <1>6
  <1>13. high \subseteq Models(cast) /\ \A b \in ToSet(cast) : b.by \in high => b \in For(cast, type)
    BY <1>3, <1>5, <1>6
  <1>. QED
    BY <1>1, <1>5, <1>7, <1>10, <1>11, <1>12, <1>13, Zenon DEF Supports

\* What is approved of a candidate under a policy has the votes it asks for.
LEMMA VotesBehind ==
  ASSUME NEW c \in Name, NEW all \in Seq(ReviewRecord), NEW expected, NEW high,
         expected \cup high \in SUBSET Name, IsFiniteSet(expected \cup high),
         NEW policy \in ReviewVotingPolicy,
         NEW cast, cast = ReviewsOf(all, c), NEW silent, silent = (expected \cup high) \ Models(cast),
         NEW v, v = AggregateVotes(c, Ballots(c, all, expected, high), policy, high),
         v.decision = "approve", v.ok
  PROVE  Supports(cast, silent, policy, high, v)
  <1>1. PICK votes : votes = Ballots(c, all, expected, high)
    OBVIOUS
  <1>2. votes \in Seq(ReviewRecord)
    BY <1>1, BallotsFacts
  <1>3. PICK verdict : verdict = CASE policy = "unanimous"   -> UnanimousVerdict(votes)
                                   [] policy = "majority"    -> MajorityVerdict(votes)
                                   [] policy = "risk_tiered" -> RiskTieredVerdict(votes, high)
    OBVIOUS
  <1>4. v = CASE votes = <<>> -> NoReview
              [] Len(votes) = 1 /\ high \subseteq Models(votes) -> votes[1]
              [] OTHER -> AggregateReview(c, votes, verdict)
    BY <1>1, <1>3, Zenon DEF AggregateVotes
  <1>5. CASE votes = <<>>
    <2>1. Len(votes) # 1
      BY <1>5
    <2>2. v = NoReview
      BY <1>4, <1>5, <2>1, Zenon
    <2>3. v.decision = "needs_human"
      BY <2>2 DEF NoReview, NeedsHuman
    <2>. QED
      BY <2>3
  <1>6. CASE Len(votes) = 1 /\ high \subseteq Models(votes)
    <2>0. Len(<<>>) = 0
      OBVIOUS
    <2>1. votes # <<>>
      BY <1>6, <2>0, 1 # 0, Zenon
    <2>2. v = votes[1]
      BY <1>4, <1>6, <2>1, Zenon
    <2>. QED
      BY <1>1, <1>6, <2>2, LoneVoteFacts
  <1>7. CASE votes # <<>> /\ ~(Len(votes) = 1 /\ high \subseteq Models(votes))
    <2>1. v = AggregateReview(c, votes, verdict)
      BY <1>4, <1>7, Zenon
    <2>2. /\ verdict.decision = "approve" /\ v.type = verdict.type
          /\ \A b \in For(votes, verdict.type) : b.ok
          /\ v.cost = Max({b.cost : b \in For(votes, verdict.type)})
      BY <2>1, AggregateReviewFacts
    <2>3. Carries(votes, policy, high, verdict.type)
      <3>1. CASE policy = "unanimous"
        <4>1. policy # "majority" /\ policy # "risk_tiered"
          BY <3>1
        <4>2. verdict = UnanimousVerdict(votes)
          BY <1>3, <3>1, <4>1, Zenon
        <4>. QED
          BY <1>2, <1>7, <2>2, <3>1, <4>2, UnanimousFacts
      <3>2. CASE policy = "majority"
        <4>1. policy # "unanimous" /\ policy # "risk_tiered"
          BY <3>2
        <4>2. verdict = MajorityVerdict(votes)
          BY <1>3, <3>2, <4>1, Zenon
        <4>. QED
          BY <1>2, <2>2, <3>2, <4>2, MajorityFacts
      <3>3. CASE policy = "risk_tiered"
        <4>1. policy # "unanimous" /\ policy # "majority"
          BY <3>3
        <4>2. verdict = RiskTieredVerdict(votes, high)
          BY <1>3, <3>3, <4>1, Zenon
        <4>. QED
          BY <1>2, <2>2, <3>3, <4>2, RiskTieredFacts
      <3>. QED
        BY <3>1, <3>2, <3>3 DEF ReviewVotingPolicy
    <2>4. /\ Carries(votes, policy, high, v.type)
          /\ \A b \in For(votes, v.type) : b.ok
          /\ v.cost = Max({b.cost : b \in For(votes, v.type)})
      BY <2>2, <2>3
    <2>. QED
      BY <1>1, <2>4, CarriedFacts
  <1>. QED
    BY <1>5, <1>6, <1>7

(***************************************************************************)
(* The votes behind what is approved                                       *)
(***************************************************************************)
LEMMA FromReviewFacts ==
  ASSUME NEW c \in RelationRecord, NEW v, NEW r, r = RelationFromReview(c, v)
  PROVE  r.id = c.id /\ r.type = v.type /\ r.cost = v.cost
  <1>1. PICK type : type = v.type
    OBVIOUS
  <1>2. PICK cost : cost = v.cost
    OBVIOUS
  <1>3. r = [c EXCEPT !.type = type, !.cost = cost]
    BY <1>1, <1>2, Zenon DEF RelationFromReview
  <1>4. r.id = c.id /\ r.type = type /\ r.cost = cost
    BY <1>3 DEF RelationRecord
  <1>. QED
    BY <1>1, <1>2, <1>4

\* Relations of candidates whose review passes.
FromPassing(list, cands, reviews, floor) ==
    /\ list \in Seq(ToSet(list))
    /\ \A r \in ToSet(list) :
        \E i \in DOMAIN cands : /\ PassesReview(reviews[i], floor)
                                /\ r = RelationFromReview(cands[i], reviews[i])

LEMMA GateApproves ==
  ASSUME NEW cands \in Seq(RelationRecord), NEW reviews, NEW g, NEW props, NEW floor, NEW write,
         NEW list, list = RunGate(cands, reviews, g, props, floor, write).approved
  PROVE  FromPassing(list, cands, reviews, floor)
  <1>1. PICK S : S = ApprovedAt(cands, reviews, g, props, floor, write)
    OBVIOUS
  <1>2. S \subseteq Passing(cands, reviews, floor)
    BY <1>1, Zenon DEF ApprovedAt
  <1>3. \A i \in S : i \in DOMAIN cands /\ PassesReview(reviews[i], floor)
    BY <1>2 DEF Passing
  <1>4. PICK n \in Nat : n = Len(cands) /\ DOMAIN cands = 1..n
    OBVIOUS
  <1>5. PICK rels : rels = [i \in 1..n |-> RelationFromReview(cands[i], reviews[i])]
    OBVIOUS
  <1>6. FromReviews(cands, reviews) = rels
    BY <1>4, <1>5, Zenon DEF FromReviews
  <1>7. PICK V : V = {RelationFromReview(cands[i], reviews[i]) : i \in 1..n}
    OBVIOUS
  <1>8. rels \in Seq(V)
    BY <1>5, <1>7
  <1>9. PICK approved : approved = AtPositions(rels, S)
    OBVIOUS
  <1>10. approved \in Seq(V) /\ ToSet(approved) = {rels[i] : i \in S \cap DOMAIN rels}
    BY <1>8, <1>9, AtPositionsFacts
  <1>11. \A r \in ToSet(approved) :
            \E i \in DOMAIN cands : /\ PassesReview(reviews[i], floor)
                                    /\ r = RelationFromReview(cands[i], reviews[i])
    <2>1. SUFFICES ASSUME NEW r \in ToSet(approved)
                   PROVE  \E i \in DOMAIN cands : /\ PassesReview(reviews[i], floor)
                                                  /\ r = RelationFromReview(cands[i], reviews[i])
      OBVIOUS
    <2>2. PICK i \in S \cap DOMAIN rels : r = rels[i]
      BY <1>10
    <2>3. i \in 1..n
      BY <1>5
    <2>4. r = RelationFromReview(cands[i], reviews[i])
      BY <1>5, <2>2, <2>3
    <2>. QED
      BY <1>3, <1>4, <2>3, <2>4
  <1>12. RunGate(cands, reviews, g, props, floor, write).approved = approved
    <2>1. PICK a : a = [i \in DOMAIN cands |-> ActionOf(reviews[i], i \in S)]
      OBVIOUS
    <2>2. RunGate(cands, reviews, g, props, floor, write) = [actions |-> a, approved |-> approved]
      BY <1>1, <1>6, <1>9, <2>1, Zenon DEF RunGate
    <2>. QED
      BY <2>2
  <1>13. approved \in Seq(ToSet(approved))
    <2>1. \A i \in 1..Len(approved) : approved[i] \in ToSet(approved)
      BY <1>10 DEF ToSet
    <2>. QED
      BY <1>10, <2>1
  <1>. QED
    BY <1>11, <1>12, <1>13 DEF FromPassing

\* What is checked again and what loses its provenance is approved no more.
LEMMA ScreenedApproves ==
  ASSUME NEW V, NEW cands \in Seq(V), NEW reviews, NEW g, NEW props, NEW floor,
         NEW W, RunGate(cands, reviews, g, props, floor, TRUE).approved \in Seq(W)
  PROVE  LET approved == ProvenanceGate(ValidateCandidates(cands, reviews, g, props, floor)).approved
         IN  /\ approved \in Seq(W)
             /\ ToSet(approved) \subseteq ToSet(RunGate(cands, reviews, g, props, floor, TRUE).approved)
  <1>1. PICK result : result = RunGate(cands, reviews, g, props, floor, TRUE)
    OBVIOUS
  <1>2. PICK gated : gated = ValidateCandidates(cands, reviews, g, props, floor)
    OBVIOUS
  <1>3. gated = result \/ gated = Queued(result)
    BY <1>1, <1>2, Zenon DEF ValidateCandidates
  <1>4. PICK list : list = gated.approved
    OBVIOUS
  <1>5. list \in Seq(W) /\ ToSet(list) \subseteq ToSet(result.approved)
    <2>1. CASE gated = result
      BY <1>1, <1>4, <2>1
    <2>2. CASE gated = Queued(result)
      <3>1. list = <<>>
        BY <1>4, <2>2 DEF Queued
      <3>. QED
        BY <3>1, EmptyList
    <2>. QED
      BY <1>3, <2>1, <2>2
  <1>6. PICK S : S = {r \in ToSet(list) : r.id \notin run.unproven}
    OBVIOUS
  <1>7. ProvenanceGate(gated).approved = Among(list, S)
    BY <1>4, <1>6 DEF ProvenanceGate
  <1>8. Among(list, S) \in Seq(W) /\ ToSet(Among(list, S)) = ToSet(list) \cap S
    BY <1>5, AmongFacts
  <1>. QED
    BY <1>1, <1>2, <1>5, <1>7, <1>8

\* What the reviewers have answered are reviews.
AnswersInv == \A x \in DOMAIN answers : answers[x].reviews \in Seq(ReviewRecord)

LEMMA WithModelFacts ==
  ASSUME NEW reviews \in Seq(ReviewRecord), NEW by \in NameOrNone
  PROVE  WithModel(reviews, by) \in Seq(ReviewRecord)
  <1>. DEFINE Stamped(v) == [v EXCEPT !.by = by]
  <1>1. ASSUME NEW v \in ReviewRecord PROVE Stamped(v) \in ReviewRecord
    BY DEF ReviewRecord
  <1>. HIDE DEF Stamped
  <1>2. PICK n \in Nat : n = Len(reviews) /\ DOMAIN reviews = 1..n
    OBVIOUS
  <1>3. PICK f : f = [i \in 1..n |-> Stamped(reviews[i])]
    OBVIOUS
  <1>4. \A i \in 1..n : Stamped(reviews[i]) \in ReviewRecord
    BY <1>1, <1>2
  <1>5. f \in Seq(ReviewRecord)
    BY <1>3, <1>4
  <1>6. [i \in DOMAIN reviews |-> [reviews[i] EXCEPT !.by = by]] = f
    BY <1>2, <1>3, Zenon DEF Stamped
  <1>7. WithModel(reviews, by) = IF by = None THEN reviews ELSE f
    BY <1>6, Zenon DEF WithModel
  <1>. QED
    BY <1>5, <1>7

LEMMA NeedsHumanFromFacts ==
  ASSUME candidates \in Seq(RelationRecord), NEW by \in NameOrNone, NEW failed
  PROVE  NeedsHumanFrom(by, failed).reviews \in Seq(ReviewRecord)
  <1>1. PICK n \in Nat : n = Len(candidates) /\ DOMAIN candidates = 1..n
    OBVIOUS
  <1>a. \A i \in 1..n : candidates[i] \in RelationRecord
    BY <1>1
  <1>b. \A x \in RelationRecord : x.id \in Name
    BY DEF RelationRecord
  <1>2. \A i \in 1..n : candidates[i].id \in Name
    BY <1>a, <1>b
  <1>3. \A i \in 1..n : NeedsHuman(candidates[i].id, by) \in ReviewRecord
    BY <1>2, NeedsHumanFacts
  <1>4. PICK f : f = [i \in 1..n |-> NeedsHuman(candidates[i].id, by)]
    OBVIOUS
  <1>5. f \in Seq(ReviewRecord)
    BY <1>3, <1>4
  <1>6. NeedsHumanFrom(by, failed) = [reviews |-> f, failed |-> failed]
    BY <1>1, <1>4, Zenon DEF NeedsHumanFrom
  <1>. QED
    BY <1>5, <1>6

LEMMA ReviewerNames ==
  ASSUME run \in Setups
  PROVE  /\ run.reviewers \in Seq(NameOrNone) /\ ReviewerSet \subseteq NameOrNone
         /\ IsFiniteSet(ReviewerSet)
  <1>1. run.reviewers \in Seq(NameOrNone \ {"handoff"})
    BY SetupsAssumption DEF Setup
  <1>2. run.reviewers \in Seq(NameOrNone)
    BY <1>1
  <1>. QED
    BY <1>2, ToSetFinite DEF ReviewerSet

LEMMA AnswersInvNext ==
  ASSUME run \in Setups, BatchInv, AnswersInv, [Next]_vars
  PROVE  AnswersInv'
  <1>0. candidates \in Seq(RelationRecord)
    BY DEF BatchInv
  <1>1. ASSUME UNCHANGED answers PROVE AnswersInv'
    BY <1>1 DEF AnswersInv
  <1>2. ASSUME NEW r, NEW answer, answers' = Answered(r, answer), answer.reviews \in Seq(ReviewRecord)
        PROVE  AnswersInv'
    <2>1. \A x \in DOMAIN answers' : answers'[x] = IF x = r THEN answer ELSE answers[x]
      BY <1>2 DEF Answered
    <2>2. DOMAIN answers' = DOMAIN answers \cup {r}
      BY <1>2 DEF Answered
    <2>. QED
      BY <1>2, <2>1, <2>2 DEF AnswersInv
  <1>3. CASE \E r \in ReviewerSet : ReviewerAnswers(r)
    <2>1. PICK r \in ReviewerSet : ReviewerAnswers(r)
      BY <1>3
    <2>2. PICK reviews \in Answers :
              answers' = Answered(r, [reviews |-> WithModel(reviews, r), failed |-> FALSE])
      BY <2>1, Zenon DEF ReviewerAnswers
    <2>3. reviews \in Seq(ReviewRecord) /\ r \in NameOrNone
      BY AnswersAssumption, ReviewerNames
    <2>4. PICK list \in Seq(ReviewRecord) : list = WithModel(reviews, r)
      BY <2>3, WithModelFacts
    <2>5. PICK answer : answer = [reviews |-> list, failed |-> FALSE]
      OBVIOUS
    <2>6. answers' = Answered(r, answer) /\ answer.reviews \in Seq(ReviewRecord)
      BY <2>2, <2>4, <2>5
    <2>. QED
      BY <1>2, <2>6
  <1>4. CASE \E r \in ReviewerSet : ReviewerFails(r)
    <2>1. PICK r \in ReviewerSet : ReviewerFails(r)
      BY <1>4
    <2>2. answers' = Answered(r, NeedsHumanFrom(r, TRUE))
      BY <2>1 DEF ReviewerFails
    <2>3. NeedsHumanFrom(r, TRUE).reviews \in Seq(ReviewRecord)
      BY <1>0, ReviewerNames, NeedsHumanFromFacts
    <2>. QED
      BY <1>2, <2>2, <2>3
  <1>5. CASE ShortCircuit
    <2>1. answers' = [r \in ReviewerSet |->
                        IF r \in DOMAIN answers THEN answers[r] ELSE NeedsHumanFrom(r, FALSE)]
      BY <1>5 DEF ShortCircuit
    <2>2. \A r \in ReviewerSet : NeedsHumanFrom(r, FALSE).reviews \in Seq(ReviewRecord)
      BY <1>0, ReviewerNames, NeedsHumanFromFacts
    <2>. QED
      BY <2>1, <2>2 DEF AnswersInv
  <1>6. CASE Handoff
    <2>1. PICK reviews \in HandoffReviews :
              answers' = [r \in {"handoff"} |-> [reviews |-> reviews, failed |-> FALSE]]
      BY <1>6 DEF Handoff
    <2>2. reviews \in Seq(ReviewRecord)
      BY AnswersAssumption
    <2>3. \A x \in DOMAIN answers' : answers'[x].reviews = reviews
      BY <2>1
    <2>. QED
      BY <2>2, <2>3 DEF AnswersInv
  <1>7. CASE \/ LoadInput \/ Search \/ FetchUrls \/ BeginCrawl \/ Crawl \/ EndCrawl \/ EvidenceCheck
             \/ Extract \/ CanonicalizeStep \/ GroupingAnswers
    BY <1>1, <1>7
       DEF LoadInput, Search, FetchUrls, BeginCrawl, Crawl, EndCrawl, EvidenceCheck, Extract,
           CanonicalizeStep, GroupingAnswers
  <1>8. CASE \/ \E r \in ReviewerSet : ReviewerRaises(r)
             \/ Gate \/ Enqueue \/ Validate \/ OtherProcess \/ UNCHANGED vars
    BY <1>1, <1>8 DEF ReviewerRaises, Gate, Enqueue, Validate, OtherProcess, vars
  <1>9. CASE LateStep
    BY <1>1, <1>9, LateStepFacts
  <1>. QED
    BY <1>3, <1>4, <1>5, <1>6, <1>7, <1>8, <1>9 DEF Next, RunStep, Finished, LateStep

LEMMA AnswersInvInit == Init => AnswersInv
  <1>1. DOMAIN <<>> = {}
    OBVIOUS
  <1>. QED
    BY <1>1 DEF Init, AnswersInv

LEMMA AllReviewsFacts ==
  ASSUME run \in Setups, AnswersInv, HandedOff \/ ReviewerSet = DOMAIN answers
  PROVE  AllReviews \in Seq(ReviewRecord)
  <1>1. CASE HandedOff
    <2>1. answers["handoff"].reviews \in Seq(ReviewRecord)
      BY <1>1 DEF HandedOff, AnswersInv
    <2>. QED
      BY <1>1, <2>1 DEF AllReviews
  <1>2. CASE ~HandedOff
    <2>1. PICK n \in Nat : n = Len(run.reviewers) /\ DOMAIN run.reviewers = 1..n
      BY ReviewerNames
    <2>2. \A i \in 1..n : run.reviewers[i] \in DOMAIN answers
      BY <1>2, <2>1 DEF ReviewerSet, ToSet
    <2>3. \A i \in 1..n : answers[run.reviewers[i]].reviews \in Seq(ReviewRecord)
      BY <2>2 DEF AnswersInv
    <2>4. PICK seqs : seqs = [i \in 1..n |-> answers[run.reviewers[i]].reviews]
      OBVIOUS
    <2>5. seqs \in Seq(Seq(ReviewRecord))
      BY <2>3, <2>4
    <2>6. FlattenSeq(seqs) \in Seq(ReviewRecord)
      BY <2>5, FlattenFacts
    <2>7. AllReviews = FlattenSeq(seqs)
      BY <1>2, <2>1, <2>4, Zenon DEF AllReviews
    <2>. QED
      BY <2>6, <2>7
  <1>. QED
    BY <1>1, <1>2

(***************************************************************************)
(* Approvals have their votes                                              *)
(***************************************************************************)
\* The next report approves what the votes support.
LEMMA SupportTaken ==
  ASSUME UNCHANGED <<run, answers>>,
         \A r \in ToSet(report'.approved) :
            /\ AutoWrite => r.cost <= MinWriteConfidence
            /\ \E v : /\ r.type = v.type /\ r.cost = v.cost
                      /\ Supports(Cast(r.id), Silent(r.id), run.policy, run.high, v),
         AutoWrite /\ report'.approved # <<>> => ~CallFailed,
         \A c : Cast(c) \in Seq(ReviewRecord)
  PROVE  ApprovalSupported'
  <1>1. AutoWrite' = AutoWrite /\ CallFailed' = CallFailed
    BY DEF AutoWrite, CallFailed
  <1>2. AllReviews' = AllReviews /\ ReviewerSet' = ReviewerSet
    BY DEF AllReviews, ReviewerSet, HandedOff
  <1>3. \A c : Cast(c)' = Cast(c)
    BY <1>2 DEF Cast
  <1>4. \A c : Silent(c)' = Silent(c)
    BY <1>2, <1>3 DEF Silent
  <1>5. ASSUME NEW r \in ToSet(report'.approved)
        PROVE  LET cast == Cast(r.id)'
                   backers == Among(cast, {v \in ToSet(cast) : Backs(v, r)})
               IN  /\ backers # <<>>
                   /\ \A v \in ToSet(backers) : v.ok
                   /\ r.cost = Max({v.cost : v \in ToSet(backers)})
                   /\ AutoWrite' => r.cost <= MinWriteConfidence
                   /\ 2 * Len(backers) > Len(cast) + Cardinality(Silent(r.id)')
                   /\ run'.policy = "unanimous" => backers = cast /\ Silent(r.id)' = {}
                   /\ run'.policy = "risk_tiered" =>
                       /\ run'.high \subseteq Models(cast)
                       /\ \A v \in ToSet(cast) : v.by \in run'.high => Backs(v, r)
    <2>1. PICK v : /\ r.type = v.type /\ r.cost = v.cost
                   /\ Supports(Cast(r.id), Silent(r.id), run.policy, run.high, v)
      BY <1>5
    <2>2. PICK cast \in Seq(ReviewRecord) : cast = Cast(r.id)
      OBVIOUS
    <2>3. PICK silent : silent = Silent(r.id)
      OBVIOUS
    <2>4. PICK S : S = For(cast, v.type)
      OBVIOUS
    <2>5. {x \in ToSet(cast) : Backs(x, r)} = S
      BY <2>1, <2>4 DEF Backs, For
    <2>6. PICK backers \in Seq(ReviewRecord) : backers = Among(cast, S)
      BY AmongFacts
    <2>7. ToSet(backers) = S
      BY <2>4, <2>6, AmongFacts DEF For
    <2>8. /\ backers # <<>>
          /\ \A b \in S : b.ok
          /\ v.cost = Max({b.cost : b \in S})
          /\ 2 * Len(backers) > Len(cast) + Cardinality(silent)
          /\ run.policy = "unanimous" => backers = cast /\ silent = {}
          /\ run.policy = "risk_tiered" =>
              /\ run.high \subseteq Models(cast)
              /\ \A b \in ToSet(cast) : b.by \in run.high => b \in S
      BY <2>1, <2>2, <2>3, <2>4, <2>6, Zenon DEF Supports
    <2>9. \A b \in ToSet(cast) : b \in S => Backs(b, r)
      BY <2>5
    <2>10. AutoWrite' => r.cost <= MinWriteConfidence
      BY <1>1
    <2>11. Cast(r.id)' = cast /\ Silent(r.id)' = silent /\ run' = run
      BY <1>3, <1>4, <2>2, <2>3
    <2>12. Among(cast, {x \in ToSet(cast) : Backs(x, r)}) = backers
      BY <2>5, <2>6
    <2>13. r.cost = Max({b.cost : b \in ToSet(backers)}) /\ \A b \in ToSet(backers) : b.ok
      BY <2>1, <2>7, <2>8
    <2>14. run'.policy = "risk_tiered" =>
              /\ run'.high \subseteq Models(cast)
              /\ \A b \in ToSet(cast) : b.by \in run'.high => Backs(b, r)
      BY <2>8, <2>9, <2>11
    <2>. QED
      BY <2>8, <2>10, <2>11, <2>12, <2>13, <2>14, Zenon
  <1>. QED
    BY <1>1, <1>5, Zenon DEF ApprovalSupported

LEMMA SupportStays ==
  ASSUME ApprovalSupported, UNCHANGED <<run, answers>>, report'.approved = report.approved
  PROVE  ApprovalSupported'
  <1>1. AutoWrite' = AutoWrite /\ CallFailed' = CallFailed
    BY DEF AutoWrite, CallFailed
  <1>2. AllReviews' = AllReviews /\ ReviewerSet' = ReviewerSet
    BY DEF AllReviews, ReviewerSet, HandedOff
  <1>3. \A c : Cast(c)' = Cast(c)
    BY <1>2 DEF Cast
  <1>4. \A c : Silent(c)' = Silent(c)
    BY <1>2, <1>3 DEF Silent
  <1>. QED
    BY <1>1, <1>3, <1>4 DEF ApprovalSupported

LEMMA NothingApproved ==
  ASSUME report'.approved = <<>>
  PROVE  ApprovalSupported'
  BY EmptyList DEF ApprovalSupported

LEMMA AggregatedSupports ==
  ASSUME NEW cands \in Seq(RelationRecord), NEW all \in Seq(ReviewRecord), NEW expected, NEW high,
         expected \cup high \in SUBSET Name, IsFiniteSet(expected \cup high),
         NEW policy \in ReviewVotingPolicy, NEW i \in DOMAIN cands,
         NEW v, v = Aggregated(cands, all, policy, high, expected)[i],
         v.decision = "approve", v.ok,
         NEW c, c = cands[i].id, NEW cast, cast = ReviewsOf(all, c),
         NEW silent, silent = (expected \cup high) \ Models(cast)
  PROVE  Supports(cast, silent, policy, high, v)
  <1>1. cands[i] \in RelationRecord
    OBVIOUS
  <1>2. c \in Name
    BY <1>1 DEF RelationRecord
  <1>3. v = AggregateVotes(c, Ballots(c, all, expected, high), policy, high)
    BY DEF Aggregated
  <1>. QED
    BY <1>2, <1>3, VotesBehind

\* A validation never gets past its first step.
ModeInv == run.mode = "validate" => phase \in {"start", "done", "error"}

LEMMA ModeInvNext ==
  ASSUME ModeInv, [Next]_vars
  PROVE  ModeInv'
  <1>1. CASE UNCHANGED <<run, phase>>
    BY <1>1 DEF ModeInv
  <1>2. CASE Validate
    BY <1>2 DEF Validate, Goes, ModeInv
  <1>3. CASE LoadInput
    BY <1>3 DEF LoadInput, ModeInv
  <1>4. CASE UNCHANGED run /\ phase \notin {"start", "done", "error"}
    BY <1>4 DEF ModeInv
  <1>5. CASE \/ Search \/ FetchUrls \/ BeginCrawl \/ Crawl \/ EndCrawl \/ EvidenceCheck
             \/ Extract \/ Handoff \/ CanonicalizeStep \/ GroupingAnswers
    BY <1>4, <1>5
       DEF Search, FetchUrls, BeginCrawl, Crawl, EndCrawl, EvidenceCheck, Extract, Handoff,
           CanonicalizeStep, GroupingAnswers
  <1>6. CASE \/ \E r \in ReviewerSet : ReviewerAnswers(r) \/ ReviewerFails(r) \/ ReviewerRaises(r)
             \/ ShortCircuit
    BY <1>4, <1>6 DEF MayAnswer, ReviewerAnswers, ReviewerFails, ReviewerRaises, ShortCircuit
  <1>7. CASE Gate \/ Enqueue
    BY <1>4, <1>7 DEF Gate, Enqueue
  <1>9. CASE LateStep
    BY <1>4, <1>9, LateStepFacts DEF WritingPhase
  <1>8. CASE OtherProcess \/ UNCHANGED vars
    BY <1>1, <1>8 DEF OtherProcess, vars
  <1>. QED
    BY <1>2, <1>3, <1>5, <1>6, <1>7, <1>8, <1>9 DEF Next, RunStep, Finished, LateStep

LEMMA GateSupport ==
  ASSUME run \in Setups, BatchInv, AnswersInv, ModeInv, Gate
  PROVE  ApprovalSupported'
  <1>1. PICK expected : expected = ReviewerSet \ {None}
    OBVIOUS
  <1>2. PICK all \in Seq(ReviewRecord) : all = AllReviews
    BY AllReviewsFacts DEF Gate
  <1>3. PICK given : given = Aggregated(candidates, all, run.policy, run.high, expected)
    OBVIOUS
  <1>4. PICK reviews : reviews = GuardedReviews(given)
    OBVIOUS
  <1>5. PICK floor : floor = IF AutoWrite THEN MinWriteConfidence ELSE NoConfidence
    OBVIOUS
  <1>6. PICK result : result = RunGate(candidates, reviews, graph, RunPropositions, floor, AutoWrite)
    OBVIOUS
  <1>7. /\ report' = [actions |-> result.actions, approved |-> result.approved]
        /\ UNCHANGED <<run, answers>>
    BY <1>1, <1>2, <1>3, <1>4, <1>5, <1>6, Zenon DEF Gate
  <1>8. report'.approved = result.approved
    BY <1>7
  <1>9. /\ candidates \in Seq(RelationRecord)
        /\ run.mode # "validate"
    <2>1. phase = "review"
      BY DEF Gate
    <2>. QED
      BY <2>1 DEF BatchInv, ModeInv
  <1>10. /\ result.approved \in Seq(ToSet(result.approved))
         /\ \A r \in ToSet(result.approved) :
                \E i \in DOMAIN candidates : /\ PassesReview(reviews[i], floor)
                                             /\ r = RelationFromReview(candidates[i], reviews[i])
    <2>1. PICK list : list = result.approved
      OBVIOUS
    <2>2. PICK write : write = AutoWrite
      OBVIOUS
    <2>3. list = RunGate(candidates, reviews, graph, RunPropositions, floor, write).approved
      BY <1>6, <2>1, <2>2
    <2>4. FromPassing(list, candidates, reviews, floor)
      BY <1>9, <2>3, GateApproves
    <2>. QED
      BY <2>1, <2>4 DEF FromPassing
  <1>11. CASE AutoWrite /\ CallFailed
    <2>1. reviews = [i \in DOMAIN given |-> NeedsHuman(candidates[i].id, None)]
      BY <1>4, <1>11, Zenon DEF GuardedReviews
    <2>2. DOMAIN given = DOMAIN candidates
      BY <1>3 DEF Aggregated
    <2>3. \A i \in DOMAIN candidates : reviews[i].decision = "needs_human"
      BY <2>1, <2>2 DEF NeedsHuman
    <2>4. \A i \in DOMAIN candidates : ~PassesReview(reviews[i], floor)
      BY <2>3 DEF PassesReview
    <2>5. ToSet(result.approved) = {}
      BY <1>10, <2>4
    <2>6. result.approved = <<>>
      BY <1>10, <2>5, NoElements
    <2>. QED
      BY <1>8, <2>6, NothingApproved
  <1>12. CASE ~(AutoWrite /\ CallFailed)
    <2>1. reviews = given
      BY <1>4, <1>12, Zenon DEF GuardedReviews
    <2>2. \A c : Cast(c) = ReviewsOf(all, c)
      BY <1>2, <1>9 DEF Cast
    <2>3. \A c : Cast(c) \in Seq(ReviewRecord)
      <3>1. \A S : Among(all, S) \in Seq(ReviewRecord)
        BY AmongFacts
      <3>. QED
        BY <2>2, <3>1 DEF ReviewsOf
    <2>4. /\ run.high \in SUBSET Name /\ IsFiniteSet(run.high) /\ run.policy \in ReviewVotingPolicy
      BY SetupsAssumption DEF Setup
    <2>5. expected \in SUBSET Name /\ IsFiniteSet(expected)
      <3>1. expected \subseteq ReviewerSet /\ expected \subseteq Name
        BY <1>1, ReviewerNames DEF NameOrNone
      <3>. QED
        BY <3>1, ReviewerNames, FS_Subset
    <2>6. expected \cup run.high \in SUBSET Name /\ IsFiniteSet(expected \cup run.high)
      BY <2>4, <2>5, FS_Union
    <2>7. \A c : Silent(c) = (expected \cup run.high) \ Models(Cast(c))
      BY <1>1, <1>9 DEF Silent
    <2>8. ASSUME NEW r \in ToSet(report'.approved)
          PROVE  /\ AutoWrite => r.cost <= MinWriteConfidence
                 /\ \E v : /\ r.type = v.type /\ r.cost = v.cost
                           /\ Supports(Cast(r.id), Silent(r.id), run.policy, run.high, v)
      <3>1. PICK i \in DOMAIN candidates : /\ PassesReview(reviews[i], floor)
                                           /\ r = RelationFromReview(candidates[i], reviews[i])
        BY <1>8, <1>10, <2>8
      <3>2. PICK v : v = given[i]
        OBVIOUS
      <3>3. v.decision = "approve" /\ v.ok /\ v.cost <= floor
        BY <2>1, <3>1, <3>2 DEF PassesReview
      <3>4. candidates[i] \in RelationRecord
        BY <1>9
      <3>5. r.id = candidates[i].id /\ r.type = v.type /\ r.cost = v.cost
        BY <2>1, <3>1, <3>2, <3>4, FromReviewFacts
      <3>6. PICK cast : cast = Cast(r.id)
        OBVIOUS
      <3>7. PICK silent : silent = Silent(r.id)
        OBVIOUS
      <3>8. cast = ReviewsOf(all, r.id) /\ silent = (expected \cup run.high) \ Models(cast)
        BY <2>2, <2>7, <3>6, <3>7
      <3>9. Supports(cast, silent, run.policy, run.high, v)
        BY <1>3, <1>9, <2>4, <2>6, <3>2, <3>3, <3>5, <3>8, AggregatedSupports
      <3>10. AutoWrite => r.cost <= MinWriteConfidence
        BY <1>5, <3>3, <3>5
      <3>. QED
        BY <3>5, <3>6, <3>7, <3>9, <3>10
    <2>9. AutoWrite /\ report'.approved # <<>> => ~CallFailed
      BY <1>12
    <2>. QED
      BY <1>7, <2>3, <2>8, <2>9, SupportTaken
  <1>. QED
    BY <1>11, <1>12

LEMMA ValidateSupport ==
  ASSUME run \in Setups, BatchInv, Validate
  PROVE  ApprovalSupported'
  <1>1. CASE run.retrieval = "partial" \/ run.batch = <<>>
    <2>1. phase = "start" /\ UNCHANGED report
      BY <1>1 DEF Validate
    <2>2. report'.approved = <<>>
      BY <2>1 DEF BatchInv, EarlyPhase, NoReport
    <2>. QED
      BY <2>2, NothingApproved
  <1>2. CASE ~(run.retrieval = "partial" \/ run.batch = <<>>)
    <2>1. PICK reviews : reviews = Aggregated(run.batch, run.reviews, run.policy, run.high, {})
      OBVIOUS
    <2>2. PICK gated : gated = ValidateCandidates(run.batch, reviews, graph, run.given,
                                                  MinWriteConfidence)
      OBVIOUS
    <2>3. PICK result : result = ProvenanceGate(gated)
      OBVIOUS
    <2>4. /\ UNCHANGED <<run, answers>> /\ run.mode = "validate"
          /\ report' = result
      BY <1>2, <2>1, <2>2, <2>3, Zenon DEF Validate
    <2>5. report'.approved = result.approved
      BY <2>4
    <2>6. /\ run.batch \in Seq(RelationRecord) /\ run.reviews \in Seq(ReviewRecord)
          /\ run.high \in SUBSET Name /\ IsFiniteSet(run.high) /\ run.policy \in ReviewVotingPolicy
      <3>1. /\ run.batch \in Seq(CandidateRecord) /\ run.reviews \in Seq(ReviewRecord)
            /\ run.high \in SUBSET Name /\ IsFiniteSet(run.high) /\ run.policy \in ReviewVotingPolicy
        BY SetupsAssumption DEF Setup
      <3>2. CandidateRecord \subseteq RelationRecord
        BY DEF CandidateRecord
      <3>. QED
        BY <3>1, <3>2
    <2>7. PICK first : first = RunGate(run.batch, reviews, graph, run.given, MinWriteConfidence, TRUE).approved
      OBVIOUS
    <2>8. /\ first \in Seq(ToSet(first))
          /\ \A r \in ToSet(first) :
                \E i \in DOMAIN run.batch : /\ PassesReview(reviews[i], MinWriteConfidence)
                                            /\ r = RelationFromReview(run.batch[i], reviews[i])
      <3>1. FromPassing(first, run.batch, reviews, MinWriteConfidence)
        BY <2>6, <2>7, GateApproves
      <3>. QED
        BY <3>1 DEF FromPassing
    <2>9. ToSet(result.approved) \subseteq ToSet(first)
      BY <2>2, <2>3, <2>6, <2>7, <2>8, ScreenedApproves
    <2>10. \A c : Cast(c) = ReviewsOf(run.reviews, c)
      BY <2>4 DEF Cast
    <2>11. \A c : Cast(c) \in Seq(ReviewRecord)
      <3>1. \A S : Among(run.reviews, S) \in Seq(ReviewRecord)
        BY <2>6, AmongFacts
      <3>. QED
        BY <2>10, <3>1 DEF ReviewsOf
    <2>12. \A c : Silent(c) = ({} \cup run.high) \ Models(Cast(c))
      BY <2>4 DEF Silent
    <2>13. ASSUME NEW r \in ToSet(report'.approved)
           PROVE  \E v : /\ r.type = v.type /\ r.cost = v.cost
                         /\ Supports(Cast(r.id), Silent(r.id), run.policy, run.high, v)
      <3>1. PICK i \in DOMAIN run.batch : /\ PassesReview(reviews[i], MinWriteConfidence)
                                          /\ r = RelationFromReview(run.batch[i], reviews[i])
        BY <2>5, <2>8, <2>9, <2>13
      <3>2. PICK v : v = reviews[i]
        OBVIOUS
      <3>3. v.decision = "approve" /\ v.ok
        BY <3>1, <3>2 DEF PassesReview
      <3>4. run.batch[i] \in RelationRecord
        BY <2>6
      <3>5. r.id = run.batch[i].id /\ r.type = v.type /\ r.cost = v.cost
        BY <3>1, <3>2, <3>4, FromReviewFacts
      <3>6. PICK cast : cast = Cast(r.id)
        OBVIOUS
      <3>7. PICK silent : silent = Silent(r.id)
        OBVIOUS
      <3>8. cast = ReviewsOf(run.reviews, r.id) /\ silent = ({} \cup run.high) \ Models(cast)
        BY <2>10, <2>12, <3>6, <3>7
      <3>9. {} \cup run.high \in SUBSET Name /\ IsFiniteSet({} \cup run.high)
        BY <2>6, FS_EmptySet, FS_Union
      <3>10. Supports(cast, silent, run.policy, run.high, v)
        BY <2>1, <2>6, <3>2, <3>3, <3>5, <3>8, <3>9, AggregatedSupports
      <3>. QED
        BY <3>5, <3>6, <3>7, <3>10
    <2>14. ~AutoWrite
      BY <2>4 DEF AutoWrite
    <2>. QED
      BY <2>4, <2>11, <2>13, <2>14, SupportTaken
  <1>. QED
    BY <1>1, <1>2

LEMMA SupportNext ==
  ASSUME run \in Setups, BatchInv, AnswersInv, ModeInv, ApprovalSupported, [Next]_vars
  PROVE  ApprovalSupported'
  <1>1. CASE Gate
    BY <1>1, GateSupport
  <1>2. CASE Validate
    BY <1>2, ValidateSupport
  <1>3. CASE UNCHANGED <<run, answers>> /\ report'.approved = report.approved
    BY <1>3, SupportStays
  <1>4. CASE phase \in EarlyPhase /\ UNCHANGED report
    <2>1. report'.approved = <<>>
      BY <1>4 DEF BatchInv, NoReport
    <2>. QED
      BY <2>1, NothingApproved
  <1>5. CASE \/ LoadInput \/ Search \/ FetchUrls \/ BeginCrawl \/ Crawl \/ EndCrawl \/ EvidenceCheck
             \/ Extract \/ Handoff \/ CanonicalizeStep \/ GroupingAnswers
    BY <1>4, <1>5
       DEF LoadInput, Search, FetchUrls, BeginCrawl, Crawl, EndCrawl, EvidenceCheck, Extract,
           Handoff, CanonicalizeStep, GroupingAnswers, EarlyPhase
  <1>6. CASE \/ \E r \in ReviewerSet : ReviewerAnswers(r) \/ ReviewerFails(r) \/ ReviewerRaises(r)
             \/ ShortCircuit
    BY <1>4, <1>6
       DEF MayAnswer, ReviewerAnswers, ReviewerFails, ReviewerRaises, ShortCircuit, EarlyPhase
  <1>7. CASE LateStep
    BY <1>3, <1>7, LateStepFacts
  <1>8. CASE Enqueue \/ OtherProcess \/ UNCHANGED vars
    BY <1>3, <1>8 DEF Enqueue, OtherProcess, vars
  <1>. QED
    BY <1>1, <1>2, <1>5, <1>6, <1>7, <1>8 DEF Next, RunStep, Finished, LateStep

\* Whatever the reviewers answer, in whatever order and however many of them
\* fail, what a run approves has the votes that its policy asks for, with a
\* reviewer that was asked and gave none counted against it, and a run that
\* lost a reviewer approves nothing for writing.
THEOREM ApprovalsHaveTheirVotes == Spec => []ApprovalSupported
  <1>1. Init => AnswersInv /\ ModeInv /\ ApprovalSupported
    <2>1. Init => AnswersInv
      BY AnswersInvInit
    <2>2. Init => ModeInv
      BY DEF Init, ModeInv
    <2>3. Init => ApprovalSupported
      BY EmptyList DEF Init, NoReport, ApprovalSupported
    <2>. QED
      BY <2>1, <2>2, <2>3
  <1>2. /\ RunInv /\ GraphInv /\ BatchInv /\ AnswersInv /\ ModeInv /\ ApprovalSupported
        /\ [Next]_vars
        => (AnswersInv /\ ModeInv /\ ApprovalSupported)'
    BY AnswersInvNext, ModeInvNext, SupportNext DEF RunInv
  <1>. QED
    BY <1>1, <1>2, BatchInvariant, PTL DEF Spec

(***************************************************************************)
(* Every candidate is accounted for                                        *)
(***************************************************************************)
\* The candidates with an action, of a report.
Acted(cands, actions, action) == {cands[i].id : i \in {k \in DOMAIN cands : actions[k] = action}}

\* Candidates with one id get one action, and those to write are approved.
Consistent(cands, actions, approved) ==
    /\ \A i, k \in DOMAIN cands : cands[i].id = cands[k].id => actions[i] = actions[k]
    /\ {r.id : r \in ToSet(approved)} = Acted(cands, actions, "auto_write")

LEMMA GateConsistent ==
  ASSUME NEW cands \in Seq(RelationRecord), NEW reviews, NEW g, NEW props, NEW floor, NEW write,
         \A i, k \in DOMAIN cands : cands[i].id = cands[k].id => reviews[i] = reviews[k],
         NEW result, result = RunGate(cands, reviews, g, props, floor, write)
  PROVE  Consistent(cands, result.actions, result.approved)
  <1>1. PICK S : S = ApprovedAt(cands, reviews, g, props, floor, write)
    OBVIOUS
  <1>2. PICK passing : passing = Passing(cands, reviews, floor)
    OBVIOUS
  <1>3. PICK alike : S = {} \/ S = {i \in passing : cands[i].id \notin alike}
    <2>1. PICK alike : alike = {cands[i].id : i \in {k \in passing :
                write /\ SemanticDuplicate(FromReviews(cands, reviews)[k], g.rels, g.props \o props)}}
      OBVIOUS
    <2>2. S = {} \/ S = {i \in passing : cands[i].id \notin alike}
      BY <1>1, <1>2, <2>1, Zenon DEF ApprovedAt
    <2>. QED
      BY <2>2
  <1>4. \A i \in S : i \in DOMAIN cands /\ reviews[i].decision = "approve"
    BY <1>2, <1>3 DEF Passing, PassesReview
  <1>5. \A i, k \in DOMAIN cands : cands[i].id = cands[k].id => (i \in S <=> k \in S)
    BY <1>2, <1>3 DEF Passing
  <1>6. PICK n \in Nat : n = Len(cands) /\ DOMAIN cands = 1..n
    OBVIOUS
  <1>7. PICK a : a = [i \in 1..n |-> ActionOf(reviews[i], i \in S)]
    OBVIOUS
  <1>8. PICK rels : rels = [i \in 1..n |-> RelationFromReview(cands[i], reviews[i])]
    OBVIOUS
  <1>9. PICK approved : approved = AtPositions(rels, S)
    OBVIOUS
  <1>10. result = [actions |-> a, approved |-> approved]
    <2>1. FromReviews(cands, reviews) = rels
      BY <1>6, <1>8, Zenon DEF FromReviews
    <2>. QED
      BY <1>1, <1>6, <1>7, <1>9, <2>1, Zenon DEF RunGate
  <1>11. result.actions = a /\ result.approved = approved
    BY <1>10
  <1>12. \A i \in 1..n : a[i] = IF reviews[i].decision = "reject" THEN "reject"
                                ELSE IF i \in S THEN "auto_write" ELSE "queue"
    <2>1. SUFFICES ASSUME NEW i \in 1..n
                   PROVE  a[i] = IF reviews[i].decision = "reject" THEN "reject"
                                 ELSE IF i \in S THEN "auto_write" ELSE "queue"
      OBVIOUS
    <2>2. PICK v : v = reviews[i]
      OBVIOUS
    <2>3. a[i] = CASE v.decision = "reject"                    -> "reject"
                   [] v.decision # "reject" /\ i \in S      -> "auto_write"
                   [] v.decision # "reject" /\ ~(i \in S)   -> "queue"
      BY <1>7, <2>2, Zenon DEF ActionOf
    <2>4. a[i] = IF v.decision = "reject" THEN "reject"
                 ELSE IF i \in S THEN "auto_write" ELSE "queue"
      <3>1. CASE v.decision = "reject"
        BY <2>3, <3>1
      <3>2. CASE v.decision # "reject" /\ i \in S
        BY <2>3, <3>2
      <3>3. CASE v.decision # "reject" /\ i \notin S
        BY <2>3, <3>3
      <3>. QED
        BY <3>1, <3>2, <3>3
    <2>. QED
      BY <2>2, <2>4
  <1>13. \A i, k \in DOMAIN cands : cands[i].id = cands[k].id => a[i] = a[k]
    BY <1>5, <1>6, <1>12
  <1>14. PICK V : V = {RelationFromReview(cands[i], reviews[i]) : i \in 1..n}
    OBVIOUS
  <1>15. rels \in Seq(V)
    BY <1>8, <1>14
  <1>16. ToSet(approved) = {rels[i] : i \in S \cap DOMAIN rels}
    BY <1>9, <1>15, AtPositionsFacts
  <1>17. ToSet(approved) = {rels[i] : i \in S}
    BY <1>4, <1>6, <1>8, <1>16
  <1>18. \A i \in S : rels[i].id = cands[i].id
    <2>1. SUFFICES ASSUME NEW i \in S PROVE rels[i].id = cands[i].id
      OBVIOUS
    <2>2. i \in 1..n /\ cands[i] \in RelationRecord
      BY <1>4, <1>6
    <2>3. rels[i] = RelationFromReview(cands[i], reviews[i])
      BY <1>8, <2>2
    <2>. QED
      BY <2>2, <2>3, FromReviewFacts
  <1>19. \A i \in 1..n : a[i] = "auto_write" <=> i \in S
    BY <1>4, <1>12
  <1>20. Acted(cands, a, "auto_write") = {cands[i].id : i \in S}
    BY <1>4, <1>6, <1>12, <1>19 DEF Acted
  <1>21. {r.id : r \in ToSet(approved)} = {cands[i].id : i \in S}
    BY <1>17, <1>18
  <1>. QED
    BY <1>11, <1>13, <1>20, <1>21 DEF Consistent

\* What a run with --auto-write has decided, and what it still owes.
AccountInv ==
    /\ ~AutoWrite => queue = {} /\ phase \notin WritingPhase
    /\ AutoWrite /\ phase \in WritingPhase \cup {"done"} =>
        Consistent(candidates, report.actions, report.approved)
    /\ AutoWrite /\ phase = "done" => DOMAIN report.actions = DOMAIN candidates
    /\ AutoWrite /\ phase \in {"import", "merge", "rewrite", "enqueue", "done"} =>
        report.approved = <<>> \/ outcome # "none"
    /\ phase # "done" => queue = {}
    /\ AutoWrite /\ phase = "done" => queue = ToQueue(report.actions)

LEMMA GateAccounts ==
  ASSUME BatchInv, AccountInv, Gate
  PROVE  AccountInv'
  <1>1. PICK given : given = Aggregated(candidates, AllReviews, run.policy, run.high,
                                        ReviewerSet \ {None})
    OBVIOUS
  <1>2. PICK reviews : reviews = GuardedReviews(given)
    OBVIOUS
  <1>3. PICK floor : floor = IF AutoWrite THEN MinWriteConfidence ELSE NoConfidence
    OBVIOUS
  <1>4. PICK write : write = AutoWrite
    OBVIOUS
  <1>5. PICK result : result = RunGate(candidates, reviews, graph, RunPropositions, floor, write)
    OBVIOUS
  <1>6. /\ report' = [actions |-> result.actions, approved |-> result.approved]
        /\ phase' = CASE ~AutoWrite -> "done"
                      [] AutoWrite /\ result.approved = <<>> -> "enqueue"
                      [] OTHER -> "write"
        /\ phase = "review" /\ UNCHANGED <<run, candidates, queue>>
    BY <1>1, <1>2, <1>3, <1>4, <1>5, Zenon DEF Gate, Goes
  <1>7. report'.actions = result.actions /\ report'.approved = result.approved
    BY <1>6
  <1>8. candidates \in Seq(RelationRecord) /\ queue = {}
    BY <1>6 DEF BatchInv, EarlyPhase
  <1>9. \A i, k \in DOMAIN candidates :
            candidates[i].id = candidates[k].id => reviews[i] = reviews[k]
    <2>1. DOMAIN given = DOMAIN candidates
      BY <1>1 DEF Aggregated
    <2>2. CASE AutoWrite /\ CallFailed
      <3>1. reviews = [i \in DOMAIN given |-> NeedsHuman(candidates[i].id, None)]
        BY <1>2, <2>2, Zenon DEF GuardedReviews
      <3>. QED
        BY <2>1, <3>1
    <2>3. CASE ~(AutoWrite /\ CallFailed)
      <3>1. reviews = given
        BY <1>2, <2>3, Zenon DEF GuardedReviews
      <3>. QED
        BY <1>1, <3>1 DEF Aggregated
    <2>. QED
      BY <2>2, <2>3
  <1>10. Consistent(candidates, result.actions, result.approved)
    BY <1>5, <1>8, <1>9, GateConsistent
  <1>11. Consistent(candidates', report'.actions, report'.approved)
    BY <1>6, <1>7, <1>10
  <1>12. CASE ~AutoWrite
    <2>1. phase' = "done" /\ ~AutoWrite'
      BY <1>6, <1>12, Zenon DEF AutoWrite
    <2>. QED
      BY <1>6, <1>8, <2>1 DEF AccountInv, WritingPhase
  <1>13. CASE AutoWrite /\ result.approved = <<>>
    <2>1. phase' = "enqueue" /\ AutoWrite'
      BY <1>6, <1>13, Zenon DEF AutoWrite
    <2>2. report'.approved = <<>>
      BY <1>7, <1>13
    <2>. QED
      BY <1>6, <1>8, <1>11, <2>1, <2>2 DEF AccountInv, WritingPhase
  <1>14. CASE AutoWrite /\ result.approved # <<>>
    <2>1. phase' = "write" /\ AutoWrite'
      BY <1>6, <1>14, Zenon DEF AutoWrite
    <2>. QED
      BY <1>6, <1>8, <1>11, <2>1 DEF AccountInv, WritingPhase
  <1>. QED
    BY <1>12, <1>13, <1>14

LEMMA WriteAccounts ==
  ASSUME AccountInv, LateStep
  PROVE  AccountInv'
  <1>1. /\ UNCHANGED <<run, candidates, report, queue>> /\ phase \in WritingPhase
        /\ phase' \in WritingPhase \cup {"raised"}
    BY LateStepFacts
  <1>2. phase \notin {"done"} /\ phase' # "done" /\ (AutoWrite' <=> AutoWrite)
    BY <1>1 DEF WritingPhase, AutoWrite
  <1>3. AutoWrite /\ queue = {}
    BY <1>1, <1>2 DEF AccountInv
  <1>4. Consistent(candidates, report.actions, report.approved)
    BY <1>1, <1>3 DEF AccountInv
  <1>5. Consistent(candidates, report.actions, report.approved)'
    BY <1>1, <1>4
  <1>6. phase' \in {"import", "merge", "rewrite", "enqueue"} => report.approved = <<>> \/ outcome' # "none"
    BY <1>3, WriteEnds DEF AccountInv
  <1>. QED
    BY <1>1, <1>2, <1>3, <1>5, <1>6 DEF AccountInv

LEMMA AccountInvNext ==
  ASSUME BatchInv, AccountInv, [Next]_vars
  PROVE  AccountInv'
  <1>1. CASE Gate
    BY <1>1, GateAccounts
  <1>2. CASE LateStep
    BY <1>2, WriteAccounts
  <1>3. CASE UNCHANGED <<run, phase, candidates, report, outcome, queue>>
    BY <1>3 DEF AccountInv, AutoWrite, ToQueue
  <1>5. CASE Enqueue
    <2>1. /\ phase = "enqueue" /\ phase' \in {"done", "raised"}
          /\ UNCHANGED <<run, candidates, report, outcome>>
          /\ \/ queue' = queue \cup ToQueue(report.actions) /\ phase' = "done"
             \/ UNCHANGED queue /\ phase' = "raised"
      BY <1>5 DEF Enqueue, Goes, writeVars
    <2>2. phase \in WritingPhase /\ (AutoWrite' <=> AutoWrite) /\ phase' \notin WritingPhase
      BY <2>1 DEF WritingPhase, AutoWrite
    <2>3. AutoWrite /\ queue = {}
      BY <2>1, <2>2 DEF AccountInv
    <2>4. Consistent(candidates, report.actions, report.approved) /\ DOMAIN report.actions = DOMAIN candidates
      BY <2>2, <2>3 DEF AccountInv, BatchInv
    <2>5. /\ Consistent(candidates, report.actions, report.approved)'
          /\ DOMAIN report'.actions = DOMAIN candidates'
          /\ ToQueue(report.actions)' = ToQueue(report.actions)
      BY <2>1, <2>4 DEF ToQueue
    <2>. QED
      BY <2>1, <2>2, <2>3, <2>5 DEF AccountInv
  <1>6. CASE Validate
    <2>1. run.mode = "validate" /\ phase = "start" /\ phase' \in {"error", "done"} /\ UNCHANGED <<run, queue>>
      BY <1>6 DEF Validate, Goes
    <2>2. ~AutoWrite /\ ~AutoWrite' /\ phase' \notin WritingPhase /\ queue = {}
      BY <2>1 DEF AutoWrite, WritingPhase, AccountInv
    <2>. QED
      BY <2>1, <2>2 DEF AccountInv
  <1>7. CASE UNCHANGED <<run, queue>> /\ phase # "done" /\ phase' \notin WritingPhase \cup {"done"}
    BY <1>7 DEF AccountInv, WritingPhase
  <1>8. CASE Extract \/ Handoff \/ CanonicalizeStep \/ GroupingAnswers
    <2>1. UNCHANGED <<run, queue>> /\ phase \in {"extract", "canonicalize", "grouping"}
      BY <1>8 DEF Extract, Handoff, CanonicalizeStep, GroupingAnswers
    <2>2. phase' \in {"canonicalize", "grouping", "review", "error", "raised"}
      BY <1>8, Zenon DEF Extract, Handoff, CanonicalizeStep, GroupingAnswers, TakeCanonical,
                         AfterExtraction, Goes
    <2>3. phase # "done" /\ phase' \notin WritingPhase \cup {"done"}
      BY <2>1, <2>2 DEF WritingPhase
    <2>. QED
      BY <1>7, <2>1, <2>3
  <1>9. CASE \/ LoadInput \/ Search \/ FetchUrls \/ BeginCrawl \/ EndCrawl \/ EvidenceCheck \/ Crawl
    <2>1. UNCHANGED <<run, queue>> /\ phase \in {"start", "search", "fetch", "crawl", "gathered"}
      BY <1>9 DEF LoadInput, Search, FetchUrls, BeginCrawl, EndCrawl, EvidenceCheck, Crawl
    <2>2. phase' \in {"search", "fetch", "crawl", "gathered", "extract", "error", "raised"}
      BY <1>9, EvidencePhases
    <2>3. phase # "done" /\ phase' \notin WritingPhase \cup {"done"}
      BY <2>1, <2>2 DEF WritingPhase
    <2>. QED
      BY <1>7, <2>1, <2>3
  <1>10. CASE \E r \in ReviewerSet : ReviewerRaises(r)
    <2>1. UNCHANGED <<run, queue>> /\ phase = "review" /\ phase' = "raised"
      BY <1>10 DEF MayAnswer, ReviewerRaises, Goes
    <2>. QED
      BY <1>7, <2>1 DEF WritingPhase
  <1>11. CASE \/ \E r \in ReviewerSet : ReviewerAnswers(r) \/ ReviewerFails(r)
              \/ ShortCircuit \/ OtherProcess \/ UNCHANGED vars
    BY <1>3, <1>11 DEF ReviewerAnswers, ReviewerFails, ShortCircuit, OtherProcess, vars, writeVars
  <1>. QED
    BY <1>1, <1>2, <1>5, <1>6, <1>8, <1>9, <1>10, <1>11 DEF Next, RunStep, Finished, LateStep

\* Whatever fails on the way, and whatever others do to the store, a run with
\* --auto-write that is done has put every candidate in one place, and any
\* other run has queued nothing.
THEOREM CandidatesAccountedFor == Spec => []AllAccountedFor
  <1>1. Init => AccountInv
    BY DEF Init, AccountInv, WritingPhase
  <1>2. RunInv /\ GraphInv /\ BatchInv /\ AccountInv /\ [Next]_vars => AccountInv'
    BY AccountInvNext
  <1>3. BatchInv /\ AccountInv => AllAccountedFor
    <2>. SUFFICES ASSUME BatchInv, AccountInv PROVE AllAccountedFor
      OBVIOUS
    <2>1. phase = "error" \/ ~AutoWrite => queue = {}
      BY DEF AccountInv
    <2>2. ASSUME phase = "done", AutoWrite
          PROVE  LET approved == {r.id : r \in ToSet(report.approved)}
                 IN  /\ queue = {c.id : c \in ToSet(candidates)} \ (approved \cup ActedOn("reject"))
                     /\ approved \cap ActedOn("reject") = {}
                     /\ approved # {} => outcome # "none"
      <3>1. PICK a : a = report.actions
        OBVIOUS
      <3>2. /\ Consistent(candidates, a, report.approved) /\ DOMAIN a = DOMAIN candidates
            /\ queue = ToQueue(a) /\ (report.approved = <<>> \/ outcome # "none")
        BY <2>2, <3>1 DEF AccountInv
      <3>3. /\ \A i, k \in DOMAIN candidates : candidates[i].id = candidates[k].id => a[i] = a[k]
            /\ {r.id : r \in ToSet(report.approved)} = Acted(candidates, a, "auto_write")
        BY <3>2 DEF Consistent
      <3>4. ActedOn("reject") = Acted(candidates, a, "reject") /\ queue = Acted(candidates, a, "queue")
        BY <3>1, <3>2 DEF ActedOn, Acted, ToQueue
      <3>5. \A i \in DOMAIN candidates : a[i] \in {"auto_write", "queue", "reject"}
        <4>1. a \in Seq(GateAction)
          BY <3>1 DEF BatchInv
        <4>. QED
          BY <3>2, <4>1 DEF GateAction
      <3>6. {c.id : c \in ToSet(candidates)} = {candidates[i].id : i \in DOMAIN candidates}
        BY DEF ToSet
      <3>7. queue = {c.id : c \in ToSet(candidates)}
                        \ (Acted(candidates, a, "auto_write") \cup Acted(candidates, a, "reject"))
        <4>1. \A i, k \in DOMAIN candidates : candidates[i].id = candidates[k].id => a[i] = a[k]
          BY <3>3
        <4>2. PICK ids : ids = [i \in DOMAIN candidates |-> candidates[i].id]
          OBVIOUS
        <4>3. \A action : Acted(candidates, a, action)
                            = {ids[i] : i \in {k \in DOMAIN candidates : a[k] = action}}
          BY <4>2, Zenon DEF Acted
        <4>4. {c.id : c \in ToSet(candidates)} = {ids[i] : i \in DOMAIN candidates}
          BY <3>6, <4>2
        <4>5. \A i, k \in DOMAIN candidates : ids[i] = ids[k] => a[i] = a[k]
          BY <4>1, <4>2
        <4>6. {ids[i] : i \in {k \in DOMAIN candidates : a[k] = "queue"}}
                = {ids[i] : i \in DOMAIN candidates}
                    \ ({ids[i] : i \in {k \in DOMAIN candidates : a[k] = "auto_write"}}
                        \cup {ids[i] : i \in {k \in DOMAIN candidates : a[k] = "reject"}})
          BY <3>5, <4>5
        <4>. QED
          BY <3>4, <4>3, <4>4, <4>6
      <3>8. Acted(candidates, a, "auto_write") \cap Acted(candidates, a, "reject") = {}
        BY <3>3 DEF Acted
      <3>9. report.approved = <<>> => {r.id : r \in ToSet(report.approved)} = {}
        BY EmptyList
      <3>. QED
        BY <3>2, <3>3, <3>4, <3>7, <3>8, <3>9
    <2>. QED
      BY <2>1, <2>2 DEF AllAccountedFor
  <1>. QED
    BY <1>1, <1>2, <1>3, BatchInvariant, PTL DEF Spec

(***************************************************************************)
(* What is approved together                                               *)
(***************************************************************************)
Coherent(rels, props) ==
    FindContradictions(WithIdentities(rels, props), <<>>, props, NoFilter, FALSE, GateChecks) = {}
Untimed(rels) == \A r \in ToSet(rels) : r.from = Always /\ r.to = Forever

\* An empty list of relations coheres.
LEMMA CoherentEmpty ==
  ASSUME NEW props
  PROVE  Coherent(<<>>, props)
  <1>1. WithIdentities(<<>>, props) = <<>>
    BY DEF WithIdentities
  <1>2. {g \in ToSet(<<>>) : GroupCompatible(g, NoFilter)} = {} /\ Scopes(<<>>) = {}
    BY EmptyList DEF Scopes
  <1>3. Compatible(<<>>, NoFilter) = <<>>
    BY AmongEmpty DEF Compatible
  <1>4. NegationContradictions(<<>>, props, GateChecks) = {}
    BY <1>2, NegationsOppose
  <1>. QED
    BY <1>1, <1>2, <1>3, <1>4, SMT DEF Coherent, FindContradictions

\* Relations without times that cohere do so when some of them are left out:
\* none of the contradictions the gate looks for depends on a relation's absence.
LEMMA CoherentFewer ==
  ASSUME NEW rels \in Seq(RelationRecord), NEW few \in Seq(RelationRecord),
         ToSet(few) \subseteq ToSet(rels), Untimed(rels),
         NEW props, \A p \in ToSet(props) : p.id \in Name, Coherent(rels, props)
  PROVE  Coherent(few, props)
  <1>1. PICK all \in Seq(RelationRecord) :
            /\ all = WithIdentities(rels, props)
            /\ ToSet(all) = {WithIdentity(r, props) : r \in ToSet(rels)}
    BY WithIdentitiesFacts
  <1>2. PICK some \in Seq(RelationRecord) :
            /\ some = WithIdentities(few, props)
            /\ ToSet(some) = {WithIdentity(r, props) : r \in ToSet(few)}
    BY WithIdentitiesFacts
  <1>3. ToSet(some) \subseteq ToSet(all)
    BY <1>1, <1>2
  <1>4. Coincide(all)
    <2>1. \A r \in ToSet(rels) : r \in RelationRecord
      BY RecordsOf
    <2>2. \A x \in ToSet(all) : x.from = Always /\ x.to = Forever
      BY <1>1, <2>1, WithIdentityFacts DEF Untimed
    <2>. QED
      BY <2>2 DEF Coincide, Always, Forever
  <1>5. GateChecks \in SearchRecord /\ GateChecks.floor = NoConfidence
    BY DEF GateChecks, SearchRecord, NoConfidence
  <1>. QED
    BY <1>1, <1>2, <1>3, <1>4, <1>5, ContradictionsFewer DEF Coherent

\* A review that passes decides a relation.
Decides(v) == v.type \in RelationType /\ v.cost \in 0..NoConfidence

\* Such a review makes a relation of the candidate, with its id, times and endpoints.
LEMMA DecidedRelation ==
  ASSUME NEW c \in RelationRecord, NEW v, Decides(v)
  PROVE  /\ RelationFromReview(c, v) \in RelationRecord
         /\ RelationFromReview(c, v).id = c.id
         /\ RelationFromReview(c, v).from = c.from /\ RelationFromReview(c, v).to = c.to
         /\ RelationFromReview(c, v).sid = c.sid /\ RelationFromReview(c, v).tid = c.tid
  <1>1. PICK type \in RelationType : type = v.type
    BY DEF Decides
  <1>2. PICK cost \in 0..NoConfidence : cost = v.cost
    BY DEF Decides
  <1>3. PICK r : r = [c EXCEPT !.type = type, !.cost = cost]
    OBVIOUS
  <1>4. RelationFromReview(c, v) = r
    BY <1>1, <1>2, <1>3, Zenon DEF RelationFromReview
  <1>5. r \in RelationRecord /\ r.id = c.id /\ r.from = c.from /\ r.to = c.to
        /\ r.sid = c.sid /\ r.tid = c.tid
    BY <1>3 DEF RelationRecord
  <1>. QED
    BY <1>4, <1>5

\* What the gate approves is coherent, and so is any part of it.
LEMMA GateCoherent ==
  ASSUME NEW cands \in Seq(RelationRecord), Untimed(cands), NEW reviews, NEW g,
         NEW props, \A p \in ToSet(props) : p.id \in Name, NEW floor, NEW write,
         \A i \in DOMAIN cands : PassesReview(reviews[i], floor) => Decides(reviews[i]),
         NEW list, list = RunGate(cands, reviews, g, props, floor, write).approved
  PROVE  /\ list \in Seq(RelationRecord)
         /\ \A few \in Seq(RelationRecord) : ToSet(few) \subseteq ToSet(list) => Coherent(few, props)
  <1>1. PICK S : S = ApprovedAt(cands, reviews, g, props, floor, write)
    OBVIOUS
  <1>2. PICK passing : passing = Passing(cands, reviews, floor)
    OBVIOUS
  <1>3. PICK n \in Nat : n = Len(cands) /\ DOMAIN cands = 1..n
    OBVIOUS
  <1>4. PICK rels : rels = [i \in 1..n |-> RelationFromReview(cands[i], reviews[i])]
    OBVIOUS
  <1>5. FromReviews(cands, reviews) = rels
    BY <1>3, <1>4, Zenon DEF FromReviews
  <1>6. PICK V : V = {RelationFromReview(cands[i], reviews[i]) : i \in 1..n}
    OBVIOUS
  <1>7. rels \in Seq(V) /\ DOMAIN rels = 1..n
    BY <1>4, <1>6
  <1>8. passing \subseteq 1..n /\ \A i \in passing : PassesReview(reviews[i], floor)
    BY <1>2, <1>3 DEF Passing
  <1>9. \A i \in passing : rels[i] \in RelationRecord /\ rels[i].from = Always /\ rels[i].to = Forever
    <2>1. SUFFICES ASSUME NEW i \in passing
                   PROVE  rels[i] \in RelationRecord /\ rels[i].from = Always /\ rels[i].to = Forever
      OBVIOUS
    <2>2. PICK c \in RelationRecord : c = cands[i] /\ c.from = Always /\ c.to = Forever
      BY <1>3, <1>8 DEF Untimed, ToSet
    <2>3. PICK v : v = reviews[i] /\ Decides(v)
      BY <1>3, <1>8
    <2>4. rels[i] = RelationFromReview(c, v)
      BY <1>4, <1>8, <2>2, <2>3
    <2>. QED
      BY <2>2, <2>3, <2>4, DecidedRelation
  <1>10. PICK checked : checked = AtPositions(rels, passing)
    OBVIOUS
  <1>11. checked \in Seq(V) /\ ToSet(checked) = {rels[i] : i \in passing}
    <2>1. passing \cap DOMAIN rels = passing
      BY <1>7, <1>8
    <2>. QED
      BY <1>7, <1>10, <2>1, AtPositionsFacts
  <1>12. checked \in Seq(RelationRecord) /\ Untimed(checked)
    <2>1. ToSet(checked) \subseteq RelationRecord
      BY <1>9, <1>11
    <2>2. \A i \in 1..Len(checked) : checked[i] \in ToSet(checked)
      BY <1>11 DEF ToSet
    <2>3. checked \in Seq(RelationRecord)
      BY <1>11, <2>1, <2>2
    <2>. QED
      BY <1>9, <1>11, <2>3 DEF Untimed
  <1>13. list = AtPositions(rels, S)
    <2>1. PICK a : a = [i \in DOMAIN cands |-> ActionOf(reviews[i], i \in S)]
      OBVIOUS
    <2>2. PICK approved : approved = AtPositions(rels, S)
      OBVIOUS
    <2>3. RunGate(cands, reviews, g, props, floor, write) = [actions |-> a, approved |-> approved]
      BY <1>1, <1>5, <2>1, <2>2, Zenon DEF RunGate
    <2>. QED
      BY <2>2, <2>3
  <1>14. S \subseteq passing
    BY <1>1, <1>2, Zenon DEF ApprovedAt
  <1>15. list \in Seq(V) /\ ToSet(list) = {rels[i] : i \in S}
    <2>1. S \cap DOMAIN rels = S
      BY <1>7, <1>8, <1>14
    <2>. QED
      BY <1>7, <1>13, <2>1, AtPositionsFacts
  <1>16. ToSet(list) \subseteq ToSet(checked)
    BY <1>11, <1>14, <1>15
  <1>17. list \in Seq(RelationRecord)
    <2>1. ToSet(list) \subseteq RelationRecord
      BY <1>9, <1>14, <1>15
    <2>2. \A i \in 1..Len(list) : list[i] \in ToSet(list)
      BY <1>15 DEF ToSet
    <2>. QED
      BY <1>15, <2>1, <2>2
  <1>18. S = {} \/ ~HardContradiction(checked, props)
    BY <1>1, <1>2, <1>5, <1>10, <1>14, Zenon DEF ApprovedAt
  <1>19. ASSUME NEW few \in Seq(RelationRecord), ToSet(few) \subseteq ToSet(list)
         PROVE  Coherent(few, props)
    <2>1. CASE S = {}
      <3>1. ToSet(few) = {}
        BY <1>15, <1>19, <2>1
      <3>2. few = <<>>
        BY <3>1, NoElements
      <3>. QED
        BY <3>2, CoherentEmpty
    <2>2. CASE ~HardContradiction(checked, props)
      <3>1. Coherent(checked, props)
        BY <2>2 DEF HardContradiction, Coherent
      <3>2. ToSet(few) \subseteq ToSet(checked)
        BY <1>16, <1>19
      <3>. QED
        BY <1>12, <3>1, <3>2, CoherentFewer
    <2>. QED
      BY <1>18, <2>1, <2>2
  <1>. QED
    BY <1>17, <1>19

\* A set of costs has a greatest.
LEMMA MostOfCosts ==
  ASSUME NEW n \in Nat, NEW T \in SUBSET (0..n), T # {}
  PROVE  Max(T) \in T
  <1>1. PICK U : U = {x + 1 : x \in T}
    OBVIOUS
  <1>2. PICK m \in Nat : m = n + 1
    OBVIOUS
  <1>a. \A y \in U : y \in 1..m
    BY <1>1, <1>2
  <1>b. U \in SUBSET (1..m) /\ U # {}
    BY <1>1, <1>a
  <1>3. PICK u \in U : \A y \in U : y <= u
    BY <1>b, Greatest
  <1>4. PICK x \in T : u = x + 1
    BY <1>1
  <1>5. \A y \in T : x >= y
    BY <1>1, <1>3, <1>4
  <1>. QED
    BY <1>5 DEF Max

\* The decision that the votes on a candidate come to, when it approves.
LEMMA AggregatedDecides ==
  ASSUME NEW cands \in Seq(RelationRecord), NEW all \in Seq(ReviewRecord), NEW expected, NEW high,
         expected \cup high \in SUBSET Name, IsFiniteSet(expected \cup high),
         NEW policy \in ReviewVotingPolicy, NEW i \in DOMAIN cands,
         NEW v, v = Aggregated(cands, all, policy, high, expected)[i],
         v.decision = "approve", v.ok
  PROVE  Decides(v)
  <1>1. PICK c : c = cands[i].id
    OBVIOUS
  <1>2. PICK cast \in Seq(ReviewRecord) : cast = ReviewsOf(all, c)
    BY AmongFacts DEF ReviewsOf
  <1>3. PICK silent : silent = (expected \cup high) \ Models(cast)
    OBVIOUS
  <1>4. Supports(cast, silent, policy, high, v)
    BY <1>1, <1>2, <1>3, AggregatedSupports
  <1>5. PICK S : S = For(cast, v.type)
    OBVIOUS
  <1>6. Among(cast, S) # <<>> /\ v.cost = Max({b.cost : b \in S})
    BY <1>4, <1>5, Zenon DEF Supports
  <1>7. PICK backers \in Seq(ReviewRecord) : backers = Among(cast, S)
    BY AmongFacts
  <1>8. ToSet(backers) = S /\ ToSet(cast) \in SUBSET ReviewRecord
    BY <1>5, <1>7, AmongFacts, RecordsOf DEF For
  <1>9. PICK R \in SUBSET ReviewRecord : R = S
    BY <1>5, <1>8 DEF For
  <1>10. R # {}
    BY <1>6, <1>7, <1>8, <1>9, NoElements
  <1>11. PICK b \in R : TRUE
    BY <1>10
  <1>12. v.type \in RelationType
    <2>1. b.decision = "approve" /\ b.type = v.type
      BY <1>5, <1>9 DEF For
    <2>. QED
      BY <2>1 DEF ReviewRecord
  <1>13. PICK costs : costs = {x.cost : x \in R}
    OBVIOUS
  <1>14. costs \subseteq 0..NoConfidence /\ costs # {}
    <2>1. \A x \in R : x.cost \in 0..NoConfidence
      BY DEF ReviewRecord
    <2>. QED
      BY <1>10, <1>13, <2>1
  <1>15. Max(costs) \in costs
    <2>1. PICK n \in Nat : n = NoConfidence
      BY DEF NoConfidence
    <2>2. costs \in SUBSET (0..n)
      BY <1>14, <2>1
    <2>. QED
      BY <1>14, <2>2, MostOfCosts
  <1>. QED
    BY <1>6, <1>9, <1>12, <1>13, <1>14, <1>15 DEF Decides

\* Both endpoints of each relation are among the propositions.
EndpointsIn(rels, props) == \A r \in ToSet(rels) : {r.sid, r.tid} \subseteq Ids(props)

\* What a run approves: relations that cohere, and, of a run that writes, that
\* name propositions it has checked it could import.
OutcomeInv ==
    /\ Untimed(candidates)
    /\ phase = "start" => imports = <<>>
    /\ AutoWrite /\ phase \in {"review"} \cup WritingPhase => EndpointsIn(candidates, imports)
    /\ report.approved \in Seq(RelationRecord)
    /\ Coherent(report.approved, RunPropositions)
    /\ AutoWrite => EndpointsIn(report.approved, imports)

\* Nothing is approved at the start.
LEMMA OutcomeInvInit ==
  ASSUME Init
  PROVE  OutcomeInv
  <1>1. candidates = <<>> /\ imports = <<>> /\ report = NoReport /\ phase = "start"
    BY DEF Init
  <1>2. report.approved = <<>>
    BY <1>1 DEF NoReport
  <1>3. phase \notin {"review"} \cup WritingPhase
    BY <1>1 DEF WritingPhase
  <1>. QED
    BY <1>1, <1>2, <1>3, EmptyList, CoherentEmpty DEF OutcomeInv, Untimed, EndpointsIn

\* A step that gathers nothing and decides nothing.
LEMMA OutcomeUntouched ==
  ASSUME OutcomeInv, UNCHANGED <<run, candidates, imports>>, report'.approved = report.approved,
         phase' = "start" => phase = "start",
         phase' \in {"review"} \cup WritingPhase => phase \in {"review"} \cup WritingPhase
  PROVE  OutcomeInv'
  BY DEF OutcomeInv, AutoWrite, Untimed, EndpointsIn, Coherent, RunPropositions

\* Candidates that nothing is decided about yet.
LEMMA OutcomeOpen ==
  ASSUME report'.approved = <<>>, Untimed(candidates)', phase' # "start",
         AutoWrite' /\ phase' \in {"review"} \cup WritingPhase => EndpointsIn(candidates, imports)'
  PROVE  OutcomeInv'
  <1>1. Coherent(report.approved, RunPropositions)'
    BY CoherentEmpty
  <1>. QED
    BY <1>1, EmptyList DEF OutcomeInv, EndpointsIn

\* The candidates of the extractor have no times, and those of a run that
\* writes get their propositions first.
LEMMA ExtractOutcome ==
  ASSUME BatchInv, OutcomeInv, Extract \/ Handoff
  PROVE  OutcomeInv'
  <1>1. UNCHANGED <<run, imports, report>> /\ phase = "extract"
    BY DEF Extract, Handoff
  <1>2. report'.approved = <<>>
    BY <1>1 DEF BatchInv, EarlyPhase, NoReport
  <1>3. ASSUME candidates' \in Seq(CandidateRecord), phase' = AfterExtraction(candidates')
        PROVE  OutcomeInv'
    <2>1. Untimed(candidates)'
      <3>1. \A c \in ToSet(candidates') : c \in CandidateRecord
        BY <1>3, RecordsOf
      <3>. QED
        BY <3>1 DEF Untimed, CandidateRecord
    <2>2. phase' \in {"canonicalize", "review"}
      BY <1>3 DEF AfterExtraction
    <2>3. AutoWrite' /\ phase' = "review" => candidates' = <<>>
      BY <1>1, <1>3 DEF AfterExtraction, CanonicalizesFirst, AutoWrite
    <2>4. AutoWrite' /\ phase' \in {"review"} \cup WritingPhase => EndpointsIn(candidates, imports)'
      BY <2>2, <2>3, EmptyList DEF EndpointsIn, WritingPhase
    <2>. QED
      BY <1>2, <2>1, <2>2, <2>4, OutcomeOpen
  <1>4. CASE Extract
    <2>1. CASE \E batch \in Batches : candidates' = batch /\ Goes(AfterExtraction(batch))
      <3>1. PICK batch \in Batches : candidates' = batch /\ Goes(AfterExtraction(batch))
        BY <2>1
      <3>2. batch \in Seq(CandidateRecord)
        BY AnswersAssumption
      <3>. QED
        BY <1>3, <3>1, <3>2 DEF Goes
    <2>2. CASE UNCHANGED candidates /\ phase' \in {"error", "raised"}
      BY <1>1, <2>2, OutcomeUntouched DEF WritingPhase
    <2>. QED
      BY <1>4, <2>1, <2>2 DEF Extract, Goes
  <1>5. CASE Handoff
    BY <1>3, <1>5, HandoffTaken
  <1>. QED
    BY <1>4, <1>5

\* Canonicalization gives each candidate propositions it returns.
LEMMA CanonicalizeOutcome ==
  ASSUME BatchInv, GraphInv, run \in Setups, OutcomeInv, CanonicalizeStep \/ GroupingAnswers
  PROVE  OutcomeInv'
  <1>1. /\ CanonicalStands \/ CanonicalWaits
        /\ phase \in {"canonicalize", "grouping"} /\ UNCHANGED <<run, report>>
    BY CanonicalizeTaken
  <1>2. CASE CanonicalWaits
    BY <1>1, <1>2, OutcomeUntouched DEF CanonicalWaits, WritingPhase
  <1>3. CASE CanonicalStands
    <2>1. report'.approved = <<>>
      BY <1>1 DEF BatchInv, EarlyPhase, NoReport
    <2>2. PICK result : Canonical(result, candidates) /\ candidates' = result.cands /\ imports' = result.props
      BY <1>3 DEF CanonicalStands
    <2>3. PICK n \in Nat : n = Len(candidates) /\ DOMAIN candidates = 1..n /\ DOMAIN candidates' = 1..n
      BY <2>2 DEF BatchInv, Canonical
    <2>4. \A i \in 1..n : /\ candidates'[i].from = candidates[i].from
                          /\ candidates'[i].to = candidates[i].to
                          /\ {candidates'[i].sid, candidates'[i].tid} \subseteq Ids(imports')
      BY <2>2, <2>3 DEF Canonical
    <2>5. \A i \in 1..n : candidates[i].from = Always /\ candidates[i].to = Forever
      BY <2>3 DEF OutcomeInv, Untimed, ToSet
    <2>6. Untimed(candidates)'
      BY <2>3, <2>4, <2>5 DEF Untimed, ToSet
    <2>7. EndpointsIn(candidates, imports)'
      BY <2>3, <2>4 DEF EndpointsIn, ToSet
    <2>. QED
      BY <1>3, <2>1, <2>6, <2>7, OutcomeOpen DEF CanonicalStands
  <1>. QED
    BY <1>1, <1>2, <1>3

\* The propositions of a run have names for ids.
LEMMA RunPropositionsIds ==
  ASSUME BatchInv, run \in Setups
  PROVE  \A p \in ToSet(RunPropositions) : p.id \in Name
  <1>1. run.given \in Seq(NodeRecord) /\ imports \in Seq(NodeRecord)
    BY SetupsAssumption DEF Setup, BatchInv
  <1>2. RunPropositions \in Seq(NodeRecord)
    BY <1>1, ConcatFacts DEF RunPropositions
  <1>3. ToSet(RunPropositions) \in SUBSET NodeRecord
    BY <1>2, RecordsOf
  <1>. QED
    BY <1>3 DEF NodeRecord

\* What the gate approves keeps the endpoints of its candidates.
LEMMA GateOutcome ==
  ASSUME run \in Setups, BatchInv, AnswersInv, OutcomeInv, Gate
  PROVE  OutcomeInv'
  <1>1. PICK expected : expected = ReviewerSet \ {None}
    OBVIOUS
  <1>2. PICK all \in Seq(ReviewRecord) : all = AllReviews
    BY AllReviewsFacts DEF Gate
  <1>3. PICK given : given = Aggregated(candidates, all, run.policy, run.high, expected)
    OBVIOUS
  <1>4. PICK reviews : reviews = GuardedReviews(given)
    OBVIOUS
  <1>5. PICK floor : floor = IF AutoWrite THEN MinWriteConfidence ELSE NoConfidence
    OBVIOUS
  <1>6. PICK write : write = AutoWrite
    OBVIOUS
  <1>7. PICK result : result = RunGate(candidates, reviews, graph, RunPropositions, floor, write)
    OBVIOUS
  <1>8. /\ report' = [actions |-> result.actions, approved |-> result.approved]
        /\ phase' = CASE ~AutoWrite -> "done"
                      [] AutoWrite /\ result.approved = <<>> -> "enqueue"
                      [] OTHER -> "write"
        /\ phase = "review" /\ UNCHANGED <<run, candidates, imports>>
    BY <1>1, <1>2, <1>3, <1>4, <1>5, <1>6, <1>7, Zenon DEF Gate, Goes
  <1>9. report'.approved = result.approved
    BY <1>8
  <1>10. phase' \in {"done", "enqueue", "write"}
    <2>1. CASE ~AutoWrite
      BY <1>8, <2>1, Zenon
    <2>2. CASE AutoWrite /\ result.approved = <<>>
      BY <1>8, <2>2, Zenon
    <2>3. CASE AutoWrite /\ result.approved # <<>>
      BY <1>8, <2>3, Zenon
    <2>. QED
      BY <2>1, <2>2, <2>3
  <1>11. candidates \in Seq(RelationRecord) /\ Untimed(candidates)
    BY DEF BatchInv, OutcomeInv
  <1>12. ASSUME NEW i \in DOMAIN candidates, PassesReview(reviews[i], floor)
         PROVE  Decides(reviews[i])
    <2>1. CASE AutoWrite /\ CallFailed
      <3>1. reviews = [k \in DOMAIN given |-> NeedsHuman(candidates[k].id, None)]
        BY <1>4, <2>1, Zenon DEF GuardedReviews
      <3>2. DOMAIN given = DOMAIN candidates
        BY <1>3 DEF Aggregated
      <3>3. reviews[i].decision = "needs_human"
        BY <3>1, <3>2 DEF NeedsHuman
      <3>. QED
        BY <1>12, <3>3 DEF PassesReview
    <2>2. CASE ~(AutoWrite /\ CallFailed)
      <3>1. reviews = given
        BY <1>4, <2>2, Zenon DEF GuardedReviews
      <3>2. /\ run.high \in SUBSET Name /\ IsFiniteSet(run.high) /\ run.policy \in ReviewVotingPolicy
        BY SetupsAssumption DEF Setup
      <3>3. expected \subseteq Name /\ IsFiniteSet(expected)
        <4>1. expected \subseteq ReviewerSet /\ expected \subseteq Name
          BY <1>1, ReviewerNames DEF NameOrNone
        <4>. QED
          BY <4>1, ReviewerNames, FS_Subset
      <3>4. expected \cup run.high \in SUBSET Name /\ IsFiniteSet(expected \cup run.high)
        BY <3>2, <3>3, FS_Union
      <3>5. PICK v : v = given[i]
        OBVIOUS
      <3>6. v.decision = "approve" /\ v.ok
        BY <1>12, <3>1, <3>5, Zenon DEF PassesReview
      <3>. QED
        BY <1>3, <1>11, <3>1, <3>2, <3>4, <3>5, <3>6, AggregatedDecides
    <2>. QED
      BY <2>1, <2>2
  <1>13. PICK props : props = RunPropositions /\ \A p \in ToSet(props) : p.id \in Name
    BY RunPropositionsIds
  <1>14. PICK list : list = result.approved
    OBVIOUS
  <1>15. list = RunGate(candidates, reviews, graph, props, floor, write).approved
    BY <1>7, <1>13, <1>14
  <1>16. list \in Seq(RelationRecord) /\ Coherent(list, props)
    <2>1. /\ list \in Seq(RelationRecord)
          /\ \A few \in Seq(RelationRecord) : ToSet(few) \subseteq ToSet(list) => Coherent(few, props)
      BY <1>11, <1>12, <1>13, <1>15, GateCoherent
    <2>. QED
      BY <2>1
  <1>17. AutoWrite => EndpointsIn(list, imports)
    <2>. SUFFICES ASSUME AutoWrite, NEW r \in ToSet(list) PROVE {r.sid, r.tid} \subseteq Ids(imports)
      BY DEF EndpointsIn
    <2>1. FromPassing(list, candidates, reviews, floor)
      BY <1>11, <1>15, GateApproves
    <2>2. PICK i \in DOMAIN candidates : /\ PassesReview(reviews[i], floor)
                                         /\ r = RelationFromReview(candidates[i], reviews[i])
      BY <2>1 DEF FromPassing
    <2>3. candidates[i] \in RelationRecord /\ Decides(reviews[i])
      BY <1>11, <1>12, <2>2
    <2>4. r.sid = candidates[i].sid /\ r.tid = candidates[i].tid
      BY <2>2, <2>3, DecidedRelation
    <2>5. {candidates[i].sid, candidates[i].tid} \subseteq Ids(imports)
      BY <1>8 DEF OutcomeInv, EndpointsIn, ToSet
    <2>. QED
      BY <2>4, <2>5
  <1>18. report'.approved = list /\ RunPropositions' = props /\ imports' = imports /\ candidates' = candidates
    BY <1>8, <1>9, <1>13, <1>14 DEF RunPropositions
  <1>19. AutoWrite' => AutoWrite /\ EndpointsIn(candidates, imports)
    BY <1>8 DEF AutoWrite, OutcomeInv
  <1>. QED
    BY <1>10, <1>11, <1>16, <1>17, <1>18, <1>19 DEF OutcomeInv

\* The relations that ingest retrieval validate approves are some of the gate's.
LEMMA ValidateOutcome ==
  ASSUME run \in Setups, BatchInv, OutcomeInv, Validate
  PROVE  OutcomeInv'
  <1>1. /\ run.batch \in Seq(CandidateRecord) /\ run.reviews \in Seq(ReviewRecord)
        /\ run.high \in SUBSET Name /\ IsFiniteSet(run.high) /\ run.policy \in ReviewVotingPolicy
    BY SetupsAssumption DEF Setup
  <1>2. /\ phase = "start" /\ run.mode = "validate" /\ imports = <<>>
        /\ UNCHANGED <<run, imports>>
    BY DEF Validate, OutcomeInv
  <1>3. CASE run.retrieval = "partial" \/ run.batch = <<>>
    <2>1. phase' = "error" /\ UNCHANGED <<candidates, report>>
      BY <1>3 DEF Validate, Goes
    <2>. QED
      BY <1>2, <2>1, OutcomeUntouched DEF WritingPhase
  <1>4. CASE ~(run.retrieval = "partial" \/ run.batch = <<>>)
    <2>1. PICK reviews : reviews = Aggregated(run.batch, run.reviews, run.policy, run.high, {})
      OBVIOUS
    <2>2. PICK gated : gated = ValidateCandidates(run.batch, reviews, graph, run.given,
                                                  MinWriteConfidence)
      OBVIOUS
    <2>3. PICK result : result = ProvenanceGate(gated)
      OBVIOUS
    <2>4. /\ candidates' = run.batch /\ phase' = "done"
          /\ report' = result
      BY <1>4, <2>1, <2>2, <2>3, Zenon DEF Validate, Goes
    <2>5. report'.approved = result.approved
      BY <2>4
    <2>6. run.batch \in Seq(RelationRecord) /\ Untimed(run.batch)
      <3>1. \A c \in ToSet(run.batch) : c \in CandidateRecord
        BY <1>1, RecordsOf
      <3>. QED
        BY <1>1, <3>1 DEF Untimed, CandidateRecord
    <2>7. RunPropositions = run.given
      <3>1. run.given \in Seq(NodeRecord)
        BY SetupsAssumption DEF Setup
      <3>. QED
        BY <1>2, <3>1 DEF RunPropositions
    <2>8. PICK props : props = run.given /\ \A p \in ToSet(props) : p.id \in Name
      BY <2>7, RunPropositionsIds
    <2>9. ASSUME NEW i \in DOMAIN run.batch, PassesReview(reviews[i], MinWriteConfidence)
          PROVE  Decides(reviews[i])
      <3>1. PICK v : v = reviews[i]
        OBVIOUS
      <3>2. v.decision = "approve" /\ v.ok
        BY <2>9, <3>1, Zenon DEF PassesReview
      <3>3. {} \cup run.high \in SUBSET Name /\ IsFiniteSet({} \cup run.high)
        BY <1>1
      <3>. QED
        BY <1>1, <2>1, <2>6, <3>1, <3>2, <3>3, AggregatedDecides
    <2>10. PICK list : list = RunGate(run.batch, reviews, graph, props, MinWriteConfidence, TRUE).approved
      OBVIOUS
    <2>11. /\ list \in Seq(RelationRecord)
           /\ \A few \in Seq(RelationRecord) : ToSet(few) \subseteq ToSet(list) => Coherent(few, props)
      BY <2>6, <2>8, <2>9, <2>10, GateCoherent
    <2>12. result.approved \in Seq(RelationRecord) /\ ToSet(result.approved) \subseteq ToSet(list)
      BY <2>2, <2>3, <2>6, <2>8, <2>10, <2>11, ScreenedApproves
    <2>13. Coherent(result.approved, props)
      BY <2>11, <2>12
    <2>14. /\ RunPropositions' = props /\ candidates' = run.batch /\ phase' = "done" /\ ~AutoWrite'
      BY <1>2, <2>4, <2>7, <2>8 DEF RunPropositions, AutoWrite
    <2>. QED
      BY <2>5, <2>6, <2>12, <2>13, <2>14 DEF OutcomeInv
  <1>. QED
    BY <1>3, <1>4

\* One case per kind of step.
LEMMA OutcomeInvNext ==
  ASSUME run \in Setups, BatchInv, GraphInv, AnswersInv, OutcomeInv, [Next]_vars
  PROVE  OutcomeInv'
  <1>1. CASE Extract \/ Handoff
    BY <1>1, ExtractOutcome
  <1>2. CASE CanonicalizeStep \/ GroupingAnswers
    BY <1>2, CanonicalizeOutcome
  <1>3. CASE Gate \/ Validate
    BY <1>3, GateOutcome, ValidateOutcome
  <1>4. CASE \/ \E r \in ReviewerSet : ReviewerAnswers(r) \/ ReviewerFails(r)
             \/ ShortCircuit \/ OtherProcess \/ UNCHANGED vars
    <2>1. UNCHANGED <<run, phase, candidates, imports, report>>
      BY <1>4 DEF ReviewerAnswers, ReviewerFails, ShortCircuit, OtherProcess, vars
    <2>. QED
      BY <2>1, OutcomeUntouched
  <1>5. CASE \E r \in ReviewerSet : ReviewerRaises(r)
    <2>1. UNCHANGED <<run, candidates, imports, report>> /\ phase' = "raised"
      BY <1>5 DEF ReviewerRaises, Goes
    <2>. QED
      BY <2>1, OutcomeUntouched DEF WritingPhase
  <1>6. CASE LateStep
    <2>1. /\ UNCHANGED <<run, candidates, imports, report>> /\ phase \in WritingPhase
          /\ phase' \in WritingPhase \cup {"raised"}
      BY <1>6, LateStepFacts
    <2>. QED
      BY <2>1, OutcomeUntouched DEF WritingPhase
  <1>7. CASE Enqueue
    <2>1. UNCHANGED <<run, candidates, imports, report>> /\ phase' \in {"done", "raised"}
      BY <1>7 DEF Enqueue, Goes
    <2>. QED
      BY <2>1, OutcomeUntouched DEF WritingPhase
  <1>8. CASE LoadInput \/ Search \/ FetchUrls \/ BeginCrawl \/ Crawl \/ EndCrawl \/ EvidenceCheck
    <2>1. UNCHANGED <<run, candidates, imports, report>>
      BY <1>8 DEF LoadInput, Search, FetchUrls, BeginCrawl, Crawl, EndCrawl, EvidenceCheck
    <2>2. phase' \in {"search", "fetch", "crawl", "gathered", "extract", "error", "raised"}
      BY <1>8, EvidencePhases
    <2>. QED
      BY <2>1, <2>2, OutcomeUntouched DEF WritingPhase
  <1>. QED
    BY <1>1, <1>2, <1>3, <1>4, <1>5, <1>6, <1>7, <1>8 DEF Next, RunStep, Finished, LateStep

(***************************************************************************)
(* What is written                                                         *)
(***************************************************************************)
KeysOf(rels) == UNION {RelationKeys(r) : r \in ToSet(rels)}
Added(new, r, existing) ==
    IF RelationKeys(r) \cap KeysOf(existing \o new) = {} THEN Append(new, r) ELSE new
AddsAlong(f, prepared, existing) ==
    f[0] = <<>> /\ \A k \in 1..Len(prepared) : f[k] = Added(f[k - 1], prepared[k], existing)

\* NewRelations takes the prepared relations one at a time.
LEMMA NewRelationsSteps ==
  ASSUME NEW prepared \in Seq(RelationRecord), NEW existing
  PROVE  \E f \in [0..Len(prepared) -> Seq(RelationRecord)] :
            AddsAlong(f, prepared, existing) /\ NewRelations(prepared, existing) = f[Len(prepared)]
  <1>1. PICK n \in Nat : n = Len(prepared) /\ DOMAIN prepared = 1..n
                         /\ \A i \in 1..n : prepared[i] \in RelationRecord
    OBVIOUS
  <1>. DEFINE Y == Seq(RelationRecord)
              step == [i \in 1..n |-> [y \in Y |-> Added(y, prepared[i], existing)]]
              Rec(it) == [S \in SUBSET (DOMAIN prepared) |-> IF S = {} THEN <<>>
                            ELSE Added(it[S \ {Max(S)}], prepared[Max(S)], existing)]
              F == CHOOSE it : it = Rec(it)
  <1>2. \A i \in 1..n, y \in Y : step[i][y] = Added(y, prepared[i], existing)
    OBVIOUS
  <1>3. \A i \in 1..n, y \in Y : Added(y, prepared[i], existing) \in Y
    BY <1>1 DEF Added
  <1>4. NewRelations(prepared, existing) = F[DOMAIN prepared]
    BY Zenon DEF NewRelations, FoldLeft, MapThenFoldSet, F, Added, KeysOf
  <1>a. PICK base \in Y : base = <<>>
    BY EmptyList
  <1>. HIDE DEF step, F, Y
  <1>5. Preserves(step, 1..n, Y)
    BY <1>2, <1>3 DEF Preserves
  <1>6. PICK it \in [SUBSET (1..n) -> Y] : IsListFold(it, n, base, step)
    BY <1>5, <1>a, ListFoldExists
  <1>7. it = Rec(it)
    <2>1. ASSUME NEW S \in SUBSET (1..n), S # {}
          PROVE  it[S] = Added(it[S \ {Max(S)}], prepared[Max(S)], existing)
      <3>1. Max(S) \in 1..n
        BY <2>1, MaxIsMember
      <3>2. it[S \ {Max(S)}] \in Y
        BY <1>1, <3>1
      <3>3. it[S] = step[Max(S)][it[S \ {Max(S)}]]
        BY <1>6, <2>1 DEF IsListFold
      <3>. QED
        BY <1>2, <3>1, <3>2, <3>3
    <2>2. it[{}] = <<>>
      BY <1>6, <1>a DEF IsListFold
    <2>3. \A S \in SUBSET (1..n) : it[S] = IF S = {} THEN <<>>
                            ELSE Added(it[S \ {Max(S)}], prepared[Max(S)], existing)
      BY <2>1, <2>2
    <2>4. it = [S \in SUBSET (1..n) |-> IF S = {} THEN <<>>
                            ELSE Added(it[S \ {Max(S)}], prepared[Max(S)], existing)]
      BY <2>3
    <2>. QED
      BY <1>1, <2>4
  <1>8. F = Rec(F)
    <2>. HIDE DEF Rec
    <2>. QED
      BY <1>7 DEF F
  <1>9. FoldsWithin(F, n, base, step, Y)
    <2>1. F[{}] = base
      BY <1>8, <1>a
    <2>2. ASSUME NEW S \in SUBSET (1..n), S # {}, F[S \ {Max(S)}] \in Y
          PROVE  F[S] = step[Max(S)][F[S \ {Max(S)}]]
      <3>1. Max(S) \in 1..n
        BY <2>2, MaxIsMember
      <3>2. F[S] = Added(F[S \ {Max(S)}], prepared[Max(S)], existing)
        BY <1>1, <1>8, <2>2
      <3>. QED
        BY <1>1, <1>2, <2>2, <3>1, <3>2
    <2>. QED
      BY <2>1, <2>2 DEF FoldsWithin
  <1>10. PICK f \in [0..n -> Y] : IsRecursion(f, n, base, step) /\ F[1..n] = f[n]
    BY <1>5, <1>9, <1>a, FoldIsRecursion, SMTT(30)
  <1>11. AddsAlong(f, prepared, existing)
    <2>1. ASSUME NEW k \in 1..n PROVE f[k] = Added(f[k - 1], prepared[k], existing)
      <3>1. f[k] = step[k][f[k - 1]] /\ k - 1 \in 0..n
        BY <1>10 DEF IsRecursion
      <3>. QED
        BY <1>2, <3>1
    <2>. QED
      BY <1>1, <1>10, <1>a, <2>1 DEF AddsAlong, IsRecursion
  <1>. QED
    BY <1>1, <1>4, <1>10, <1>11 DEF Y

\* The keys of two lists together.
LEMMA KeysJoined ==
  ASSUME NEW s \in Seq(RelationRecord), NEW t \in Seq(RelationRecord)
  PROVE  KeysOf(s \o t) = KeysOf(s) \cup KeysOf(t)
  <1>1. ToSet(s \o t) = ToSet(s) \cup ToSet(t)
    BY ConcatFacts
  <1>. QED
    BY <1>1 DEF KeysOf

\* The keys of a longer list.
LEMMA KeysFacts ==
  ASSUME NEW s \in Seq(RelationRecord), NEW t \in Seq(RelationRecord), NEW r \in RelationRecord
  PROVE  /\ KeysOf(s \o t) = KeysOf(s) \cup KeysOf(t)
         /\ KeysOf(Append(s, r)) = KeysOf(s) \cup RelationKeys(r)
         /\ RelationKeys(r) # {}
  <1>1. ToSet(Append(s, r)) = ToSet(s) \cup {r}
    BY AppendFacts
  <1>2. RelationKeys(r) # {}
    BY DEF RelationKeys
  <1>. QED
    BY <1>1, <1>2, KeysJoined DEF KeysOf

\* No element of new has a key of existing, or one of an element before it.
Fresh(new, existing) ==
    \A k \in 1..Len(new) :
        /\ RelationKeys(new[k]) \cap KeysOf(existing) = {}
        /\ \A i \in 1..(k - 1) : RelationKeys(new[i]) \cap RelationKeys(new[k]) = {}

\* A relation that meets no key of either list can follow.
LEMMA FreshAppended ==
  ASSUME NEW new \in Seq(RelationRecord), NEW existing \in Seq(RelationRecord),
         NEW r \in RelationRecord, Fresh(new, existing),
         RelationKeys(r) \cap KeysOf(existing \o new) = {}
  PROVE  Fresh(Append(new, r), existing)
  <1>1. PICK n \in Nat : n = Len(new) /\ DOMAIN new = 1..n
    OBVIOUS
  <1>2. PICK more \in Seq(RelationRecord) : more = Append(new, r)
    BY AppendFacts
  <1>3. Len(more) = n + 1 /\ more[n + 1] = r /\ \A i \in 1..n : more[i] = new[i]
    BY <1>1, <1>2
  <1>4. RelationKeys(r) \cap KeysOf(existing) = {} /\ RelationKeys(r) \cap KeysOf(new) = {}
    BY KeysFacts
  <1>5. \A i \in 1..n : RelationKeys(new[i]) \cap RelationKeys(r) = {}
    BY <1>1, <1>4 DEF KeysOf, ToSet
  <1>6. ASSUME NEW k \in 1..(n + 1)
        PROVE  /\ RelationKeys(more[k]) \cap KeysOf(existing) = {}
               /\ \A i \in 1..(k - 1) : RelationKeys(more[i]) \cap RelationKeys(more[k]) = {}
    <2>1. CASE k = n + 1
      BY <1>3, <1>4, <1>5, <2>1
    <2>2. CASE k \in 1..n
      <3>1. \A i \in 1..(k - 1) : i \in 1..n
        BY <2>2
      <3>. QED
        BY <1>1, <1>3, <2>2, <3>1 DEF Fresh
    <2>. QED
      BY <2>1, <2>2
  <1>. QED
    BY <1>2, <1>3, <1>6 DEF Fresh

\* The relations kept are new, and each of the others meets a key that is there.
LEMMA NewRelationsFacts ==
  ASSUME NEW prepared \in Seq(RelationRecord), NEW existing \in Seq(RelationRecord)
  PROVE  LET new == NewRelations(prepared, existing)
         IN  /\ new \in Seq(RelationRecord) /\ ToSet(new) \subseteq ToSet(prepared)
             /\ Fresh(new, existing)
             /\ \A r \in ToSet(prepared) : RelationKeys(r) \cap KeysOf(existing \o new) # {}
  <1>1. PICK n \in Nat : n = Len(prepared) /\ DOMAIN prepared = 1..n
                         /\ \A i \in 1..n : prepared[i] \in RelationRecord
    OBVIOUS
  <1>2. PICK f \in [0..n -> Seq(RelationRecord)] :
            AddsAlong(f, prepared, existing) /\ NewRelations(prepared, existing) = f[n]
    BY <1>1, NewRelationsSteps
  <1>. DEFINE Holds(k) ==
                /\ ToSet(f[k]) \subseteq Firsts(prepared, k)
                /\ Fresh(f[k], existing)
                /\ \A r \in Firsts(prepared, k) : RelationKeys(r) \cap KeysOf(existing \o f[k]) # {}
              G == {k \in Nat : k <= n => Holds(k)}
  <1>3. 0 \in G
    <2>1. f[0] = <<>> /\ Firsts(prepared, 0) = {}
      BY <1>2, FirstsFacts DEF AddsAlong
    <2>2. Fresh(f[0], existing)
      BY <2>1 DEF Fresh
    <2>. QED
      BY <2>1, <2>2, EmptyList
  <1>4. ASSUME NEW k \in Nat, k \in G PROVE k + 1 \in G
    <2>. SUFFICES ASSUME k + 1 <= n PROVE Holds(k + 1)
      OBVIOUS
    <2>1. k + 1 \in 1..n /\ k \in 0..n /\ (k + 1) - 1 = k
      OBVIOUS
    <2>2. PICK y \in Seq(RelationRecord), r \in RelationRecord : y = f[k] /\ r = prepared[k + 1]
      BY <1>1, <2>1
    <2>3. f[k + 1] = Added(y, r, existing)
      BY <1>1, <1>2, <2>1, <2>2 DEF AddsAlong
    <2>4. Firsts(prepared, k + 1) = Firsts(prepared, k) \cup {r}
      BY <1>1, <2>1, <2>2, FirstsFacts
    <2>5. /\ ToSet(y) \subseteq Firsts(prepared, k) /\ Fresh(y, existing)
          /\ \A x \in Firsts(prepared, k) : RelationKeys(x) \cap KeysOf(existing \o y) # {}
      BY <1>4, <2>1, <2>2
    <2>6. CASE RelationKeys(r) \cap KeysOf(existing \o y) = {}
      <3>1. PICK more \in Seq(RelationRecord) : more = Append(y, r)
        BY AppendFacts
      <3>2. f[k + 1] = more
        BY <2>3, <2>6, <3>1 DEF Added
      <3>3. ToSet(more) = ToSet(y) \cup {r}
        BY <3>1, AppendFacts
      <3>4. Fresh(more, existing)
        BY <2>5, <2>6, <3>1, FreshAppended
      <3>5. /\ KeysOf(existing \o more) = KeysOf(existing) \cup KeysOf(more)
            /\ KeysOf(existing \o y) = KeysOf(existing) \cup KeysOf(y)
            /\ KeysOf(more) = KeysOf(y) \cup RelationKeys(r) /\ RelationKeys(r) # {}
        BY <3>1, KeysFacts
      <3>6. \A x \in Firsts(prepared, k + 1) : RelationKeys(x) \cap KeysOf(existing \o more) # {}
        BY <2>4, <2>5, <3>5
      <3>. QED
        BY <2>4, <2>5, <3>2, <3>3, <3>4, <3>6
    <2>7. CASE RelationKeys(r) \cap KeysOf(existing \o y) # {}
      <3>1. f[k + 1] = y
        BY <2>3, <2>7 DEF Added
      <3>. QED
        BY <2>4, <2>5, <2>7, <3>1
    <2>. QED
      BY <2>6, <2>7
  <1>. HIDE DEF G
  <1>5. n \in G
    BY <1>3, <1>4, InductionOnNat
  <1>6. Holds(n)
    BY <1>5 DEF G
  <1>7. Firsts(prepared, n) = ToSet(prepared)
    BY <1>1 DEF Firsts, ToSet
  <1>. QED
    BY <1>2, <1>6, <1>7

(***************************************************************************)
(* What is in the store                                                    *)
(***************************************************************************)
\* The relations of ours share no key with one before them that was looked at.
Novel(rels, ours, looked) ==
    \A k \in DOMAIN rels : rels[k].id \in ours =>
        \A i \in 1..(k - 1) : rels[i].id \in looked =>
            RelationKeys(rels[i]) \cap RelationKeys(rels[k]) = {}
Looked == writing.seen \cup WrittenHere

\* The store holds nothing of the run until it appends; after a write it holds
\* what was approved, and after the import the propositions too.
StoredInv ==
    /\ graph.rels \in Seq(RelationRecord)
    /\ outcome # "none" =>
        AutoWrite /\ phase \in {"import", "merge", "rewrite", "enqueue", "done", "raised"}
    /\ phase \in {"import", "merge", "rewrite"} => outcome = "written"
    /\ outcome \notin {"written", "failed"} => WrittenHere = {}
    /\ outcome # "written" => ImportedHere = {}
    /\ WrittenHere \subseteq {r.id : r \in ToSet(report.approved)}
    /\ Novel(graph.rels, WrittenHere, Looked)
    /\ outcome = "written" => \A r \in ToSet(report.approved) : InGraph(r)
    /\ outcome = "written" /\ phase \in {"enqueue", "done"} => Ids(imports) \subseteq Ids(graph.props)

\* The relations to write are approved ones, without those that were stored
\* when duplicates were looked for.  What others have stored since is not seen.
ToWrite ==
    /\ writing.rels \in Seq(RelationRecord) /\ ToSet(writing.rels) \subseteq ToSet(report.approved)
    /\ Fresh(writing.rels, <<>>)
    /\ writing.seen \subseteq Ids(graph.rels)
    /\ \A x \in ToSet(graph.rels) :
        x.id \in writing.seen => RelationKeys(x) \cap KeysOf(writing.rels) = {}
    /\ \A r \in ToSet(report.approved) : RelationKeys(r) \cap KeysOf(graph.rels \o writing.rels) # {}

\* The relations that an import rewrites the store with have what was approved.
ToRewrite ==
    /\ writing.rels \in Seq(RelationRecord) /\ Ids(writing.rels) \subseteq Ids(graph.rels)
    /\ Novel(writing.rels, WrittenHere, Looked)
    /\ \A r \in ToSet(report.approved) : RelationKeys(r) \cap KeysOf(writing.rels) # {}

StoreInv ==
    /\ StoredInv
    /\ phase = "dedupe" => /\ writing.rels \in Seq(RelationRecord)
                           /\ ToSet(writing.rels) = ToSet(report.approved)
    /\ phase \in {"assert", "check", "append"} => ToWrite
    /\ phase \in {"merge", "rewrite"} => Ids(imports) \subseteq Ids(writing.props)
    /\ phase = "rewrite" => ToRewrite

\* What depends on the store alone.
LEMMA SameStore ==
  ASSUME UNCHANGED graph
  PROVE  /\ WrittenHere' = WrittenHere /\ ImportedHere' = ImportedHere
         /\ \A r : InGraph(r)' <=> InGraph(r)
  BY DEF WrittenHere, ImportedHere, InGraph

\* A run that has not written, and does not write now.
LEMMA StoredBefore ==
  ASSUME StoredInv, outcome = "none", UNCHANGED graph, outcome' \in {"none", "refused", "failed"},
         outcome' # "none" => AutoWrite' /\ phase' = "enqueue",
         phase' \notin {"import", "merge", "rewrite"}
  PROVE  StoredInv'
  <1>1. WrittenHere = {} /\ ImportedHere = {} /\ graph.rels \in Seq(RelationRecord)
    BY DEF StoredInv
  <1>2. WrittenHere' = {} /\ ImportedHere' = {} /\ graph'.rels \in Seq(RelationRecord)
    BY <1>1, SameStore
  <1>3. Novel(graph.rels, WrittenHere, Looked)'
    BY <1>2 DEF Novel
  <1>. QED
    BY <1>2, <1>3 DEF StoredInv

\* The same, of a step outside the write.
LEMMA StoreIdle ==
  ASSUME StoreInv, outcome = "none", UNCHANGED <<graph, outcome>>, phase' \notin MidPhase
  PROVE  StoreInv'
  BY StoredBefore DEF StoreInv, MidPhase

\* A step that leaves the store and the report alone.
LEMMA StoreUntouched ==
  ASSUME StoreInv, UNCHANGED <<run, imports, report, outcome, writing, graph>>,
         UNCHANGED phase \/ phase' = "raised" \/ (phase = "enqueue" /\ phase' = "done")
  PROVE  StoreInv'
  <1>1. /\ WrittenHere' = WrittenHere /\ ImportedHere' = ImportedHere
        /\ \A r : InGraph(r)' <=> InGraph(r)
    BY SameStore
  <1>2. Looked' = Looked
    BY <1>1 DEF Looked
  <1>3. StoredInv'
    BY <1>1, <1>2 DEF StoreInv, StoredInv, Novel, AutoWrite
  <1>. QED
    BY <1>1, <1>2, <1>3 DEF StoreInv, ToWrite, ToRewrite, Novel

\* The store of the start has nothing of the run.
LEMMA StoreInvInit ==
  ASSUME Init
  PROVE  StoreInv
  <1>1. graph = InitialGraph /\ report = NoReport /\ phase = "start" /\ outcome = "none"
    BY DEF Init
  <1>3. graph.rels \in Seq(RelationRecord)
    BY <1>1, StoreAssumption
  <1>4. WrittenHere = {} /\ ImportedHere = {}
    BY <1>1 DEF WrittenHere, ImportedHere
  <1>. QED
    BY <1>1, <1>3, <1>4 DEF StoreInv, StoredInv, Novel

\* The ids of a list are those of its elements.
LEMMA IdsOf ==
  ASSUME NEW V, NEW s \in Seq(V)
  PROVE  Ids(s) = {x.id : x \in ToSet(s)}
  BY DEF Ids, ToSet

\* What a run that is about to write has, whatever the step.
LEMMA WritePhases ==
  ASSUME AccountInv, StoreInv, phase \in {"write", "dedupe", "assert", "check", "append"}
  PROVE  AutoWrite /\ outcome = "none" /\ WrittenHere = {} /\ ImportedHere = {}
  BY DEF AccountInv, WritingPhase, StoreInv, StoredInv

\* The endpoints of what is approved are named, so the store's own identities
\* change nothing of it.
LEMMA PreparationStores ==
  ASSUME BatchInv, GraphInv, WriteInv, OutcomeInv, AccountInv, StoreInv, PrepareRelations
  PROVE  StoreInv'
  <1>1. PICK prepared : prepared = WithIdentities(report.approved, graph.props)
    OBVIOUS
  <1>2. /\ phase = "write" /\ UNCHANGED <<run, imports, report, outcome, graph>>
        /\ \/ writing' = [writing EXCEPT !.rels = prepared] /\ phase' = "dedupe"
           \/ phase' = "raised" /\ UNCHANGED writing
    BY <1>1, Zenon DEF PrepareRelations, Goes
  <1>3. AutoWrite /\ outcome = "none"
    BY <1>2, WritePhases
  <1>4. StoredInv'
    BY <1>2, <1>3, StoredBefore DEF StoreInv
  <1>5. /\ report.approved \in Seq(RelationRecord) /\ EndpointsIn(report.approved, imports)
        /\ imports \in Seq(NodeRecord) /\ graph.props \in Seq(NodeRecord)
    BY <1>3 DEF OutcomeInv, BatchInv, GraphInv
  <1>6. \A p \in ToSet(graph.props) : p.id \in Name
    <2>1. ToSet(graph.props) \in SUBSET NodeRecord
      BY <1>5, RecordsOf
    <2>. QED
      BY <2>1 DEF NodeRecord
  <1>7. None \notin Ids(imports)
    BY <1>5, IdsAreNames
  <1>8. prepared \in Seq(RelationRecord) /\ ToSet(prepared) = ToSet(report.approved)
    <2>1. /\ prepared \in Seq(RelationRecord)
          /\ ToSet(prepared) = {WithIdentity(r, graph.props) : r \in ToSet(report.approved)}
      BY <1>1, <1>5, <1>6, WithIdentitiesFacts
    <2>2. ASSUME NEW r \in ToSet(report.approved) PROVE WithIdentity(r, graph.props) = r
      <3>1. r \in RelationRecord
        BY <1>5, RecordsOf
      <3>2. None \notin {r.sid, r.tid}
        BY <1>5, <1>7 DEF EndpointsIn
      <3>. QED
        BY <1>6, <3>1, <3>2, WithIdentityFacts
    <2>. QED
      BY <2>1, <2>2
  <1>9. phase' = "dedupe" => writing'.rels = prepared
    BY <1>2 DEF WriteInv
  <1>. QED
    BY <1>2, <1>4, <1>8, <1>9 DEF StoreInv

\* What is left to write is new, and what is not left is there.
LEMMA DedupeStores ==
  ASSUME BatchInv, GraphInv, WriteInv, AccountInv, StoreInv, Dedupe
  PROVE  StoreInv'
  <1>1. PICK new : new = NewRelations(writing.rels, graph.rels)
    OBVIOUS
  <1>2. PICK seen : seen = Ids(graph.rels)
    OBVIOUS
  <1>3. /\ phase = "dedupe" /\ UNCHANGED <<run, imports, report, graph>>
        /\ \/ /\ writing' = [writing EXCEPT !.rels = new, !.seen = seen]
              /\ \/ /\ new = <<>> /\ outcome' = "written"
                    /\ phase' = IF imports = <<>> THEN "enqueue" ELSE "import"
                 \/ new # <<>> /\ phase' = "assert" /\ UNCHANGED outcome
           \/ phase' = "raised" /\ UNCHANGED <<outcome, writing>>
    BY <1>1, <1>2, Zenon DEF Dedupe, Written, Goes
  <1>4. AutoWrite /\ AutoWrite' /\ outcome = "none" /\ WrittenHere = {} /\ ImportedHere = {}
    BY <1>3, WritePhases DEF AutoWrite
  <1>5. /\ writing.rels \in Seq(RelationRecord) /\ graph.rels \in Seq(RelationRecord)
        /\ ToSet(writing.rels) = ToSet(report.approved)
    BY <1>3 DEF StoreInv, StoredInv
  <1>6. /\ new \in Seq(RelationRecord) /\ ToSet(new) \subseteq ToSet(report.approved)
        /\ Fresh(new, graph.rels)
        /\ \A r \in ToSet(report.approved) : RelationKeys(r) \cap KeysOf(graph.rels \o new) # {}
    BY <1>1, <1>5, NewRelationsFacts
  <1>7. CASE phase' = "raised" /\ UNCHANGED <<outcome, writing>>
    BY <1>3, <1>4, <1>7, StoreIdle DEF MidPhase
  <1>8. CASE /\ writing' = [writing EXCEPT !.rels = new, !.seen = seen]
             /\ new # <<>> /\ phase' = "assert" /\ UNCHANGED outcome
    <2>1. writing'.rels = new /\ writing'.seen = seen
      BY <1>8 DEF WriteInv
    <2>2. StoredInv'
      BY <1>3, <1>4, <1>8, StoredBefore DEF StoreInv
    <2>3. /\ Fresh(new, <<>>)
          /\ \A x \in ToSet(graph.rels) : RelationKeys(x) \cap KeysOf(new) = {}
      <3>1. KeysOf(<<>>) = {}
        BY EmptyList DEF KeysOf
      <3>2. \A k \in 1..Len(new) : RelationKeys(new[k]) \cap KeysOf(graph.rels) = {}
        BY <1>6 DEF Fresh
      <3>3. KeysOf(new) \cap KeysOf(graph.rels) = {}
        <4>1. \A r \in ToSet(new) : RelationKeys(r) \cap KeysOf(graph.rels) = {}
          BY <1>6, <3>2 DEF ToSet
        <4>2. PICK K : K = KeysOf(graph.rels)
          OBVIOUS
        <4>3. \A r \in ToSet(new) : RelationKeys(r) \cap K = {}
          BY <4>1, <4>2
        <4>. QED
          BY <4>2, <4>3 DEF KeysOf
      <3>4. \A x \in ToSet(graph.rels) : RelationKeys(x) \subseteq KeysOf(graph.rels)
        BY DEF KeysOf
      <3>. QED
        BY <1>6, <3>1, <3>3, <3>4 DEF Fresh
    <2>4. ToWrite'
      BY <1>2, <1>3, <1>6, <2>1, <2>3 DEF ToWrite
    <2>. QED
      BY <1>8, <2>2, <2>4 DEF StoreInv
  <1>9. CASE /\ new = <<>> /\ outcome' = "written"
             /\ phase' = IF imports = <<>> THEN "enqueue" ELSE "import"
    <2>1. WrittenHere' = {} /\ graph'.rels \in Seq(RelationRecord)
      BY <1>3, <1>4, <1>5, SameStore
    <2>2. Novel(graph.rels, WrittenHere, Looked)'
      BY <2>1 DEF Novel
    <2>3. \A r \in ToSet(report'.approved) : InGraph(r)'
      <3>1. graph.rels \o new = graph.rels
        BY <1>5, <1>9
      <3>2. \A r \in ToSet(report.approved) : RelationKeys(r) \cap KeysOf(graph.rels) # {}
        BY <1>6, <3>1
      <3>. QED
        BY <1>3, <3>2 DEF InGraph, KeysOf
    <2>4. phase' = "enqueue" => Ids(imports') = {}
      <3>1. phase' = "enqueue" => imports = <<>>
        BY <1>9
      <3>. QED
        BY <1>3, <3>1 DEF Ids
    <2>5. phase' \in {"import", "enqueue"}
      BY <1>9
    <2>6. StoredInv'
      BY <1>4, <1>9, <2>1, <2>2, <2>3, <2>4, <2>5 DEF StoredInv
    <2>. QED
      BY <2>5, <2>6 DEF StoreInv
  <1>. QED
    BY <1>3, <1>7, <1>8, <1>9

\* The check reads, and may stop the write.
LEMMA CheckStores ==
  ASSUME WriteInv, AccountInv, StoreInv, ReadToCheck \/ CheckWrite
  PROVE  StoreInv'
  <1>1. /\ phase \in {"assert", "check"} /\ UNCHANGED <<run, imports, report, graph>>
        /\ \/ UNCHANGED outcome /\ phase' \in {"check", "append"}
           \/ outcome' \in {"refused", "failed"} /\ phase' = "enqueue"
    BY DEF ReadToCheck, CheckWrite, WriteStopped, Goes
  <1>2. AutoWrite /\ AutoWrite' /\ outcome = "none"
    BY <1>1, WritePhases DEF AutoWrite
  <1>3. StoredInv'
    BY <1>1, <1>2, StoredBefore DEF StoreInv
  <1>4. writing'.rels = writing.rels /\ writing'.seen = writing.seen
    <2>1. CASE UNCHANGED writing
      BY <2>1
    <2>2. CASE writing' = [writing EXCEPT !.props = graph.props]
      BY <2>2 DEF WriteInv
    <2>. QED
      BY <2>1, <2>2 DEF ReadToCheck, CheckWrite
  <1>5. ToWrite'
    BY <1>1, <1>4 DEF StoreInv, ToWrite
  <1>. QED
    BY <1>1, <1>3, <1>5 DEF StoreInv

\* What is appended follows what others have stored since duplicates were
\* looked for, and meets only that.
LEMMA AppendStores ==
  ASSUME BatchInv, GraphInv, WriteInv, AccountInv, StoreInv, AppendRelations
  PROVE  StoreInv'
  <1>1. PICK new : new = writing.rels
    OBVIOUS
  <1>2. /\ phase = "append" /\ UNCHANGED <<run, imports, report, writing>>
        /\ \/ /\ graph' = [graph EXCEPT !.rels = @ \o new]
              /\ \/ /\ outcome' = "written"
                    /\ phase' = IF imports = <<>> THEN "enqueue" ELSE "import"
                 \/ outcome' = "failed" /\ phase' = "enqueue"
           \/ UNCHANGED graph /\ outcome' = "failed" /\ phase' = "enqueue"
    BY <1>1, Zenon DEF AppendRelations, Written, WriteStopped, Goes
  <1>3. AutoWrite /\ AutoWrite' /\ outcome = "none" /\ WrittenHere = {} /\ ImportedHere = {}
    BY <1>2, WritePhases DEF AutoWrite
  <1>4. ToWrite /\ graph.rels \in Seq(RelationRecord)
    BY <1>2 DEF StoreInv, StoredInv
  <1>5. CASE UNCHANGED graph /\ outcome' = "failed" /\ phase' = "enqueue"
    <2>1. StoredInv'
      BY <1>3, <1>5, StoredBefore DEF StoreInv
    <2>. QED
      BY <1>5, <2>1 DEF StoreInv
  <1>6. CASE /\ graph' = [graph EXCEPT !.rels = @ \o new]
             /\ \/ /\ outcome' = "written"
                   /\ phase' = IF imports = <<>> THEN "enqueue" ELSE "import"
                \/ outcome' = "failed" /\ phase' = "enqueue"
    <2>1. /\ new \in Seq(RelationRecord) /\ ToSet(new) \subseteq ToSet(report.approved)
          /\ Fresh(new, <<>>)
          /\ \A x \in ToSet(graph.rels) : x.id \in writing.seen => RelationKeys(x) \cap KeysOf(new) = {}
          /\ \A r \in ToSet(report.approved) : RelationKeys(r) \cap KeysOf(graph.rels \o new) # {}
      BY <1>1, <1>4 DEF ToWrite
    <2>2. PICK rels \in Seq(RelationRecord) : rels = graph.rels \o new
      BY <1>4, <2>1, ConcatFacts
    <2>3. graph'.rels = rels /\ graph'.props = graph.props
      <3>1. graph' = [graph EXCEPT !.rels = rels]
        BY <1>6, <2>2
      <3>. QED
        BY <3>1 DEF GraphInv
    <2>4. WrittenHere' \subseteq Ids(new) /\ WrittenHere' \cap Ids(graph.rels) = {}
      <3>1. Ids(rels) = Ids(graph.rels) \cup Ids(new)
        <4>1. ToSet(rels) = ToSet(graph.rels) \cup ToSet(new)
          BY <1>4, <2>1, <2>2, ConcatFacts
        <4>. QED
          BY <1>4, <2>1, <4>1, IdsOf
      <3>. QED
        BY <1>3, <2>3, <3>1 DEF WrittenHere
    <2>5. ImportedHere' = {}
      BY <1>3, <2>3 DEF ImportedHere
    <2>6. WrittenHere' \subseteq {r.id : r \in ToSet(report'.approved)}
      BY <1>2, <2>1, <2>4, IdsOf
    <2>7. Novel(graph.rels, WrittenHere, Looked)'
      <3>1. PICK n \in Nat, m \in Nat : /\ n = Len(graph.rels) /\ DOMAIN graph.rels = 1..n
                                        /\ m = Len(new) /\ DOMAIN new = 1..m
        BY <1>4, <2>1
      <3>2. /\ DOMAIN rels = 1..(n + m) /\ \A i \in 1..n : rels[i] = graph.rels[i]
            /\ \A i \in 1..m : rels[n + i] = new[i]
        BY <1>4, <2>1, <2>2, <3>1, ConcatFacts
      <3>3. Looked' = writing.seen \cup WrittenHere'
        BY <1>2 DEF Looked
      <3>4. SUFFICES ASSUME NEW k \in 1..(n + m), rels[k].id \in WrittenHere', NEW i \in 1..(k - 1),
                            rels[i].id \in writing.seen \cup WrittenHere'
                     PROVE  RelationKeys(rels[i]) \cap RelationKeys(rels[k]) = {}
        BY <2>3, <3>2, <3>3 DEF Novel
      <3>5. \A l \in 1..n : rels[l].id \in Ids(graph.rels)
        BY <3>1, <3>2 DEF Ids
      <3>6. k \notin 1..n
        BY <2>4, <3>4, <3>5
      <3>7. PICK j \in 1..m : k = n + j
        <4>1. k - n \in 1..m /\ k = n + (k - n)
          BY <3>6
        <4>. QED
          BY <4>1
      <3>8. CASE i \in 1..n
        <4>1. rels[i].id \in writing.seen /\ rels[i] \in ToSet(graph.rels)
          BY <2>4, <3>1, <3>2, <3>4, <3>5, <3>8 DEF ToSet
        <4>2. RelationKeys(new[j]) \subseteq KeysOf(new)
          BY <3>1 DEF KeysOf, ToSet
        <4>. QED
          BY <2>1, <3>2, <3>7, <4>1, <4>2
      <3>9. CASE i \notin 1..n
        <4>1. PICK l \in 1..(j - 1) : i = n + l
          <5>1. i - n \in 1..(j - 1) /\ i = n + (i - n)
            BY <3>7, <3>9
          <5>. QED
            BY <5>1
        <4>2. l \in 1..m
          BY <4>1
        <4>3. RelationKeys(new[l]) \cap RelationKeys(new[j]) = {}
          BY <2>1, <3>1, <4>1 DEF Fresh
        <4>. QED
          BY <3>2, <3>7, <4>1, <4>2, <4>3
      <3>. QED
        BY <3>8, <3>9
    <2>8. \A r \in ToSet(report'.approved) : InGraph(r)'
      BY <1>2, <2>1, <2>2, <2>3 DEF InGraph, KeysOf
    <2>9. outcome' = "written" /\ phase' = "enqueue" => Ids(imports') = {}
      <3>1. outcome' = "written" /\ phase' = "enqueue" => imports = <<>>
        BY <1>6
      <3>. QED
        BY <1>2, <3>1 DEF Ids
    <2>10. phase' \in {"import", "enqueue"} /\ (phase' = "import" => outcome' = "written")
           /\ outcome' \in {"written", "failed"}
      BY <1>6
    <2>11. StoredInv'
      BY <1>3, <2>2, <2>3, <2>5, <2>6, <2>7, <2>8, <2>9, <2>10 DEF StoredInv
    <2>. QED
      BY <2>10, <2>11 DEF StoreInv
  <1>. QED
    BY <1>2, <1>5, <1>6

\* Merging keeps every id and adds those of the new propositions.
LEMMA MergedIds ==
  ASSUME NEW s \in Seq(NodeRecord), NEW new \in Seq(NodeRecord)
  PROVE  Ids(MergePropositions(s, new)) = Ids(s) \cup Ids(new)
  <1>1. PICK f \in [0..Len(new) -> Seq(NodeRecord)] :
            PutsAlong(f, IdOfNode, s, new) /\ PutAll(IdOf, s, new) = f[Len(new)]
    BY NodesPut
  <1>2. PICK t : t = MergePropositions(s, new)
    OBVIOUS
  <1>3. t = f[Len(new)]
    BY <1>1, <1>2, Zenon DEF MergePropositions
  <1>4. t \in Seq(NodeRecord) /\ KeySet(t, IdOfNode) = KeySet(s, IdOfNode) \cup KeySet(new, IdOfNode)
    BY <1>1, <1>3, PutsFacts
  <1>5. ASSUME NEW list \in Seq(NodeRecord) PROVE Ids(list) = KeySet(list, IdOfNode)
    <2>1. \A p \in ToSet(list) : p \in NodeRecord
      BY RecordsOf
    <2>2. \A p \in ToSet(list) : IdOfNode[p] = p.id
      BY <2>1 DEF IdOfNode
    <2>3. Ids(list) = {p.id : p \in ToSet(list)}
      BY IdsOf
    <2>. QED
      BY <2>2, <2>3 DEF KeySet
  <1>. QED
    BY <1>2, <1>4, <1>5

\* A step of the import that has not rewritten the store yet.
LEMMA StoredImport ==
  ASSUME StoredInv, phase \in {"import", "merge", "rewrite"}, UNCHANGED <<run, report, outcome, graph>>,
         phase' \in {"merge", "rewrite", "raised"}, writing'.seen = writing.seen
  PROVE  StoredInv' /\ WrittenHere' = WrittenHere /\ Looked' = Looked
  <1>1. /\ WrittenHere' = WrittenHere /\ ImportedHere' = ImportedHere
        /\ \A r : InGraph(r)' <=> InGraph(r)
    BY SameStore
  <1>2. Looked' = Looked
    BY <1>1 DEF Looked
  <1>3. outcome = "written" /\ AutoWrite /\ AutoWrite'
    BY DEF StoredInv, AutoWrite
  <1>. QED
    BY <1>1, <1>2, <1>3 DEF StoredInv, Novel

\* The import reads the propositions, and then the relations.
LEMMA MergeStores ==
  ASSUME BatchInv, GraphInv, WriteInv, StoreInv, MergeImports \/ ReadRelations
  PROVE  StoreInv'
  <1>1. /\ UNCHANGED <<run, imports, report, outcome, graph>> /\ phase \in {"import", "merge"}
        /\ phase' \in {"merge", "rewrite", "raised"}
    BY DEF MergeImports, ReadRelations, Goes
  <1>2. CASE UNCHANGED writing /\ phase' = "raised"
    BY <1>1, <1>2, StoreUntouched
  <1>3. CASE writing' = [writing EXCEPT !.props = MergePropositions(graph.props, imports)] /\ phase' = "merge"
    <2>1. PICK props : props = MergePropositions(graph.props, imports)
      OBVIOUS
    <2>2. writing'.props = props /\ writing'.seen = writing.seen
      BY <1>3, <2>1 DEF WriteInv
    <2>3. Ids(imports) \subseteq Ids(props)
      BY <2>1, MergedIds DEF GraphInv, BatchInv
    <2>. QED
      BY <1>1, <1>3, <2>2, <2>3, StoredImport DEF StoreInv
  <1>4. CASE writing' = [writing EXCEPT !.rels = graph.rels] /\ phase = "merge" /\ phase' = "rewrite"
    <2>1. /\ writing'.rels = graph.rels /\ writing'.props = writing.props
          /\ writing'.seen = writing.seen
      BY <1>4 DEF WriteInv
    <2>2. StoredInv' /\ WrittenHere' = WrittenHere /\ Looked' = Looked
      BY <1>1, <2>1, StoredImport DEF StoreInv
    <2>3. \A r \in ToSet(report.approved) : RelationKeys(r) \cap KeysOf(graph.rels) # {}
      BY <1>4 DEF StoreInv, StoredInv, InGraph, KeysOf
    <2>4. ToRewrite'
      BY <1>1, <2>1, <2>2, <2>3 DEF ToRewrite, StoreInv, StoredInv, Novel
    <2>. QED
      BY <1>1, <1>4, <2>1, <2>2, <2>4 DEF StoreInv
  <1>. QED
    BY <1>2, <1>3, <1>4, Zenon DEF MergeImports, ReadRelations, Goes

\* An import names the endpoints of what was written, and loses nothing of it.
LEMMA RewriteStores ==
  ASSUME BatchInv, GraphInv, StoreInv, RewriteStore
  PROVE  StoreInv'
  <1>1. phase = "rewrite" /\ UNCHANGED <<run, imports, report, outcome, writing>>
    BY DEF RewriteStore, writeVars
  <1>2. CASE phase' = "raised" /\ UNCHANGED graph
    BY <1>1, <1>2, StoreUntouched
  <1>3. CASE graph' = [graph EXCEPT !.rels = writing.rels, !.props = writing.props] /\ phase' = "enqueue"
    <2>1. PICK rels, props : rels = writing.rels /\ props = writing.props
      OBVIOUS
    <2>2. /\ rels \in Seq(RelationRecord) /\ Ids(rels) \subseteq Ids(graph.rels)
          /\ Novel(rels, WrittenHere, Looked) /\ Ids(imports) \subseteq Ids(props)
          /\ \A r \in ToSet(report.approved) : RelationKeys(r) \cap KeysOf(rels) # {}
      BY <1>1, <2>1 DEF StoreInv, ToRewrite
    <2>3. graph'.rels = rels /\ graph'.props = props
      <3>1. graph' = [graph EXCEPT !.rels = rels, !.props = props]
        BY <1>3, <2>1, Zenon
      <3>. QED
        BY <3>1 DEF GraphInv
    <2>4. WrittenHere' \subseteq WrittenHere
      BY <2>2, <2>3 DEF WrittenHere
    <2>5. Looked' \subseteq Looked
      BY <1>1, <2>4 DEF Looked
    <2>6. Novel(graph.rels, WrittenHere, Looked)'
      BY <2>2, <2>3, <2>4, <2>5 DEF Novel
    <2>7. outcome = "written" /\ AutoWrite /\ AutoWrite'
      BY <1>1 DEF StoreInv, StoredInv, AutoWrite
    <2>8. \A r \in ToSet(report'.approved) : InGraph(r)'
      BY <1>1, <2>2, <2>3 DEF InGraph, KeysOf
    <2>9. WrittenHere' \subseteq {r.id : r \in ToSet(report'.approved)}
      BY <1>1, <2>4 DEF StoreInv, StoredInv
    <2>10. StoredInv'
      BY <1>1, <1>3, <2>2, <2>3, <2>6, <2>7, <2>8, <2>9 DEF StoredInv
    <2>. QED
      BY <1>3, <2>10 DEF StoreInv
  <1>. QED
    BY <1>2, <1>3, Zenon DEF RewriteStore, Goes

\* Other processes add relations and propositions of their own, and take none away.
LEMMA OtherStores ==
  ASSUME BatchInv, GraphInv, StoreInv, OtherProcess
  PROVE  StoreInv'
  <1>1. UNCHANGED <<run, phase, imports, report, outcome, writing>>
    BY DEF OtherProcess, writeVars
  <1>2. /\ graph.rels \in Seq(RelationRecord) /\ graph.props \in Seq(NodeRecord)
        /\ Novel(graph.rels, WrittenHere, Looked)
    BY DEF StoreInv, StoredInv, GraphInv
  <1>3. ASSUME graph'.rels \in Seq(RelationRecord), Novel(graph'.rels, WrittenHere, Looked),
               WrittenHere' = WrittenHere, ImportedHere' = ImportedHere,
               ToSet(graph.rels) \subseteq ToSet(graph'.rels),
               \A x \in ToSet(graph'.rels) : x \in ToSet(graph.rels) \/ x.id \notin Ids(graph.rels),
               Ids(graph.props) \subseteq Ids(graph'.props)
        PROVE  StoreInv'
    <2>1. \A r : InGraph(r) => InGraph(r)'
      BY <1>3 DEF InGraph
    <2>2. outcome = "written" => \A r \in ToSet(report'.approved) : InGraph(r)'
      BY <1>1, <2>1 DEF StoreInv, StoredInv
    <2>3. Looked' = Looked
      BY <1>1, <1>3 DEF Looked
    <2>4. Novel(graph.rels, WrittenHere, Looked)'
      BY <1>3, <2>3 DEF Novel
    <2>5. StoredInv'
      BY <1>1, <1>3, <2>2, <2>4 DEF StoreInv, StoredInv, AutoWrite
    <2>6. Ids(graph.rels) \subseteq Ids(graph'.rels)
      BY <1>2, <1>3, IdsOf
    <2>7. ToWrite => ToWrite'
      <3>. SUFFICES ASSUME ToWrite PROVE ToWrite'
        OBVIOUS
      <3>1. PICK new \in Seq(RelationRecord) : new = writing.rels
        BY DEF ToWrite
      <3>2. \A x \in ToSet(graph'.rels) :
                x.id \in writing.seen => RelationKeys(x) \cap KeysOf(new) = {}
        BY <1>3, <3>1 DEF ToWrite
      <3>3. \A r \in ToSet(report.approved) : RelationKeys(r) \cap KeysOf(graph'.rels \o new) # {}
        <4>1. /\ KeysOf(graph'.rels \o new) = KeysOf(graph'.rels) \cup KeysOf(new)
              /\ KeysOf(graph.rels \o new) = KeysOf(graph.rels) \cup KeysOf(new)
          BY <1>2, <1>3, <3>1, KeysJoined
        <4>2. KeysOf(graph.rels) \subseteq KeysOf(graph'.rels)
          BY <1>3 DEF KeysOf
        <4>3. \A r \in ToSet(report.approved) : RelationKeys(r) \cap KeysOf(graph.rels \o new) # {}
          BY <3>1 DEF ToWrite
        <4>. QED
          BY <4>1, <4>2, <4>3
      <3>. QED
        BY <1>1, <2>6, <3>1, <3>2, <3>3 DEF ToWrite
    <2>8. ToRewrite => ToRewrite'
      BY <1>1, <1>3, <2>3, <2>6 DEF ToRewrite, Novel
    <2>. QED
      BY <1>1, <2>5, <2>7, <2>8 DEF StoreInv
  <1>4. CASE \E r \in OtherRelations :
               /\ r.id \notin Ids(graph.rels)
               /\ graph' = [graph EXCEPT !.rels = Append(@, WithIdentity(r, graph.props))]
    <2>1. PICK r \in OtherRelations :
               /\ r.id \notin Ids(graph.rels)
               /\ graph' = [graph EXCEPT !.rels = Append(@, WithIdentity(r, graph.props))]
      BY <1>4
    <2>2. \A p \in ToSet(graph.props) : p.id \in Name
      <3>1. ToSet(graph.props) \in SUBSET NodeRecord
        BY <1>2, RecordsOf
      <3>. QED
        BY <3>1 DEF NodeRecord
    <2>3. PICK x \in RelationRecord : x = WithIdentity(r, graph.props) /\ x.id = r.id
      <3>1. r \in RelationRecord
        BY StoreAssumption
      <3>. QED
        BY <2>2, <3>1, WithIdentityFacts
    <2>4. PICK rels \in Seq(RelationRecord) : rels = Append(graph.rels, x)
      BY <1>2, AppendFacts
    <2>5. graph'.rels = rels /\ graph'.props = graph.props
      <3>1. graph' = [graph EXCEPT !.rels = rels]
        BY <2>1, <2>3, <2>4
      <3>. QED
        BY <3>1 DEF GraphInv
    <2>6. ToSet(rels) = ToSet(graph.rels) \cup {x}
      BY <1>2, <2>4, AppendFacts
    <2>7. Ids(rels) = Ids(graph.rels) \cup {r.id}
      BY <1>2, <2>3, <2>6, IdsOf
    <2>8. WrittenHere' = WrittenHere /\ r.id \notin WrittenHere
      BY <2>1, <2>5, <2>7 DEF WrittenHere
    <2>9. ImportedHere' = ImportedHere
      BY <2>5 DEF ImportedHere
    <2>10. Novel(rels, WrittenHere, Looked)
      <3>1. PICK n \in Nat : /\ n = Len(graph.rels) /\ DOMAIN graph.rels = 1..n
                             /\ DOMAIN rels = 1..(n + 1) /\ rels[n + 1] = x
                             /\ \A i \in 1..n : rels[i] = graph.rels[i]
        BY <1>2, <2>4, AppendFacts
      <3>2. SUFFICES ASSUME NEW k \in 1..(n + 1), rels[k].id \in WrittenHere, NEW i \in 1..(k - 1),
                            rels[i].id \in Looked
                     PROVE  RelationKeys(rels[i]) \cap RelationKeys(rels[k]) = {}
        BY <3>1 DEF Novel
      <3>3. k # n + 1
        BY <2>3, <2>8, <3>1, <3>2
      <3>4. k \in 1..n /\ i \in 1..n
        BY <3>3
      <3>. QED
        BY <1>2, <3>1, <3>2, <3>4 DEF Novel
    <2>11. x.id \notin Ids(graph.rels)
      BY <2>1, <2>3
    <2>. QED
      BY <1>3, <2>4, <2>5, <2>6, <2>8, <2>9, <2>10, <2>11
  <1>5. CASE \E p \in OtherPropositions : graph' = [graph EXCEPT !.props = Append(@, p)]
    <2>1. PICK p \in OtherPropositions : graph' = [graph EXCEPT !.props = Append(@, p)]
      BY <1>5
    <2>2. p \in NodeRecord
      BY StoreAssumption
    <2>3. PICK props \in Seq(NodeRecord) : props = Append(graph.props, p)
      BY <1>2, <2>2, AppendFacts
    <2>4. graph'.rels = graph.rels /\ graph'.props = props
      <3>1. graph' = [graph EXCEPT !.props = props]
        BY <2>1, <2>3
      <3>. QED
        BY <3>1 DEF GraphInv
    <2>5. Ids(props) = Ids(graph.props) \cup {p.id}
      <3>1. ToSet(props) = ToSet(graph.props) \cup {p}
        BY <1>2, <2>2, <2>3, AppendFacts
      <3>. QED
        BY <1>2, <3>1, IdsOf
    <2>6. WrittenHere' = WrittenHere /\ ImportedHere' = ImportedHere
      BY <2>1, <2>4, <2>5 DEF WrittenHere, ImportedHere
    <2>. QED
      BY <1>2, <1>3, <2>4, <2>5, <2>6
  <1>. QED
    BY <1>4, <1>5, Zenon DEF OtherProcess

\* A decision is no write.
LEMMA DecisionStores ==
  ASSUME BatchInv, StoreInv, Gate \/ Validate
  PROVE  StoreInv'
  <1>1. phase \in {"start", "review"} /\ UNCHANGED <<graph, outcome>>
    BY DEF Gate, Validate, writeVars
  <1>2. outcome = "none"
    BY <1>1 DEF StoreInv, StoredInv
  <1>3. phase' \in {"done", "enqueue", "write", "error"}
    <2>1. CASE Gate
      <3>1. PICK none : phase' = CASE ~AutoWrite -> "done"
                                   [] AutoWrite /\ none -> "enqueue"
                                   [] OTHER -> "write"
        BY <2>1, Zenon DEF Gate, Goes
      <3>. QED
        BY <3>1, Zenon
    <2>2. CASE Validate
      BY <2>2 DEF Validate, Goes
    <2>. QED
      BY <2>1, <2>2
  <1>. QED
    BY <1>1, <1>2, <1>3, StoreIdle DEF MidPhase

\* One case per kind of step.
LEMMA StoreInvNext ==
  ASSUME BatchInv, GraphInv, WriteInv, OutcomeInv, AccountInv, StoreInv, [Next]_vars
  PROVE  StoreInv'
  <1>1. CASE Gate \/ Validate
    BY <1>1, DecisionStores
  <1>2. CASE WriteStep
    BY <1>2, PreparationStores, DedupeStores, CheckStores, AppendStores DEF WriteStep
  <1>3. CASE ImportStep
    BY <1>3, MergeStores, RewriteStores DEF ImportStep
  <1>4. CASE OtherProcess
    BY <1>4, OtherStores
  <1>5. CASE Enqueue \/ UNCHANGED vars
    <2>1. /\ UNCHANGED <<run, imports, report, outcome, writing, graph>>
          /\ UNCHANGED phase \/ phase' = "raised" \/ (phase = "enqueue" /\ phase' = "done")
      BY <1>5 DEF Enqueue, Goes, vars, writeVars
    <2>. QED
      BY <2>1, StoreUntouched
  <1>6. ASSUME phase \in EarlyPhase, UNCHANGED <<graph, outcome>>, phase' \notin MidPhase
        PROVE  StoreInv'
    BY <1>6, StoreIdle DEF StoreInv, StoredInv, EarlyPhase
  <1>7. CASE \/ LoadInput \/ Search \/ FetchUrls \/ BeginCrawl \/ Crawl \/ EndCrawl \/ EvidenceCheck
    <2>1. phase \in EarlyPhase /\ UNCHANGED <<graph, outcome>>
      BY <1>7
         DEF LoadInput, Search, FetchUrls, BeginCrawl, Crawl, EndCrawl, EvidenceCheck, EarlyPhase,
             writeVars
    <2>2. phase' \notin MidPhase
      BY <1>7, EvidencePhases DEF MidPhase
    <2>. QED
      BY <1>6, <2>1, <2>2
  <1>8. CASE Extract \/ Handoff \/ CanonicalizeStep \/ GroupingAnswers
    <2>1. phase \in EarlyPhase /\ UNCHANGED <<graph, outcome>>
      BY <1>8 DEF Extract, Handoff, CanonicalizeStep, GroupingAnswers, EarlyPhase, writeVars
    <2>2. phase' \in {"canonicalize", "grouping", "review", "error", "raised"}
      BY <1>8, Zenon DEF Extract, Handoff, CanonicalizeStep, GroupingAnswers, TakeCanonical,
                         AfterExtraction, Goes
    <2>. QED
      BY <1>6, <2>1, <2>2 DEF MidPhase
  <1>9. CASE \/ \E r \in ReviewerSet : ReviewerAnswers(r) \/ ReviewerFails(r) \/ ReviewerRaises(r)
             \/ ShortCircuit
    <2>1. phase = "review" /\ phase' \in {"review", "raised"} /\ UNCHANGED <<graph, outcome>>
      BY <1>9
         DEF ReviewerAnswers, ReviewerFails, ReviewerRaises, ShortCircuit, MayAnswer, Goes, writeVars
    <2>. QED
      BY <1>6, <2>1 DEF EarlyPhase, MidPhase
  <1>. QED
    BY <1>1, <1>2, <1>3, <1>4, <1>5, <1>7, <1>8, <1>9 DEF Next, RunStep, Finished

\* Whatever the models answer, and whatever others add to the store between any
\* two of its calls, what is approved together does not contradict itself.  A
\* run with --auto-write that is done and has written has all of it in the
\* store, under propositions the store knows.  Nothing that was not approved is
\* ever stored for it, and nothing that the store had when duplicates were
\* looked for; of what others stored since then the theorem says nothing.
THEOREM StoreAgreesWithReport == Spec => []StoreMatchesReport
  <1>1. Init => AnswersInv /\ OutcomeInv /\ AccountInv /\ StoreInv
    <2>1. Init => AccountInv
      BY DEF Init, AccountInv, WritingPhase
    <2>. QED
      BY <2>1, AnswersInvInit, OutcomeInvInit, StoreInvInit
  <1>2. /\ RunInv /\ GraphInv /\ BatchInv /\ WriteInv
        /\ AnswersInv /\ OutcomeInv /\ AccountInv /\ StoreInv /\ [Next]_vars
        => (AnswersInv /\ OutcomeInv /\ AccountInv /\ StoreInv)'
    <2>1. RunInv => run \in Setups
      BY DEF RunInv
    <2>. QED
      BY <2>1, AnswersInvNext, OutcomeInvNext, AccountInvNext, StoreInvNext
  <1>3. AllAccountedFor /\ RunInv /\ BatchInv /\ OutcomeInv /\ StoreInv => StoreMatchesReport
    <2>. SUFFICES ASSUME AllAccountedFor, BatchInv, OutcomeInv, StoreInv PROVE StoreMatchesReport
      OBVIOUS
    <2>1. FindContradictions(WithIdentities(report.approved, RunPropositions), <<>>, RunPropositions,
                             NoFilter, FALSE, GateChecks) = {}
      BY Zenon DEF OutcomeInv, Coherent
    <2>2. ASSUME phase = "done", AutoWrite, outcome = "written", NEW r \in ToSet(report.approved)
          PROVE  InGraph(r) /\ {r.sid, r.tid} \subseteq Ids(graph.props)
      <3>1. InGraph(r) /\ Ids(imports) \subseteq Ids(graph.props)
        BY <2>2 DEF StoreInv, StoredInv
      <3>2. {r.sid, r.tid} \subseteq Ids(imports)
        BY <2>2 DEF OutcomeInv, EndpointsIn
      <3>. QED
        BY <3>1, <3>2
    <2>3. phase = "error" \/ ~AutoWrite \/ outcome \notin {"written", "failed"} => WrittenHere = {}
      BY DEF StoreInv, StoredInv
    <2>4. phase = "error" \/ ~AutoWrite \/ outcome # "written" => ImportedHere = {}
      BY DEF StoreInv, StoredInv
    <2>5. /\ WrittenHere \subseteq {r.id : r \in ToSet(report.approved)}
          /\ Novel(graph.rels, WrittenHere, Looked)
      BY DEF StoreInv, StoredInv
    <2>. QED
      BY <2>1, <2>2, <2>3, <2>4, <2>5, Zenon DEF StoreMatchesReport, Novel, Looked
  <1>. QED
    BY <1>1, <1>2, <1>3, BatchInvariant, CandidatesAccountedFor, PTL DEF Spec

(***************************************************************************)
(* What canonicalized candidates say                                       *)
(***************************************************************************)
\* Propositions to import come of canonicalization only, and of the candidates
\* as they were extracted.
TextsInv ==
    /\ phase \in EarlyPhase \ {"review"} => imports = <<>>
    /\ phase \in {"canonicalize", "grouping"} => candidates \in Extracted
    /\ TextsKept

\* A step that leaves the candidates and the propositions alone.
LEMMA TextsUntouched ==
  ASSUME TextsInv, UNCHANGED <<candidates, imports>>,
         phase' \in EarlyPhase \ {"review"} => phase \in EarlyPhase \ {"review"},
         phase' \in {"canonicalize", "grouping"} => phase \in {"canonicalize", "grouping"}
  PROVE  TextsInv'
  BY DEF TextsInv, TextsKept, Extracted

\* Nothing was canonicalized yet.
LEMMA TextsTaken ==
  ASSUME imports' = <<>>, phase' \in {"canonicalize", "grouping"} => candidates' \in Extracted'
  PROVE  TextsInv'
  BY DEF TextsInv, TextsKept

\* Extracted candidates are canonicalized as they are.
LEMMA ExtractTexts ==
  ASSUME TextsInv, Extract \/ Handoff
  PROVE  TextsInv'
  <1>1. imports = <<>> /\ imports' = imports /\ phase = "extract"
    BY DEF Extract, Handoff, TextsInv, EarlyPhase
  <1>2. CASE \E batch \in Batches : candidates' = batch
    BY <1>1, <1>2, TextsTaken DEF Extracted
  <1>3. CASE phase' \in {"error", "raised"}
    BY <1>1, <1>3, TextsTaken
  <1>4. CASE Handoff
    BY <1>1, <1>4, HandoffTaken, TextsTaken
  <1>. QED
    BY <1>2, <1>3, <1>4 DEF Extract, Goes

\* A canonicalization that stands keeps the texts of the candidates it was given.
LEMMA CanonicalizeTexts ==
  ASSUME BatchInv, GraphInv, run \in Setups, TextsInv, CanonicalizeStep \/ GroupingAnswers
  PROVE  TextsInv'
  <1>1. (CanonicalStands \/ CanonicalWaits) /\ phase \in {"canonicalize", "grouping"}
    BY CanonicalizeTaken
  <1>2. CASE CanonicalWaits
    BY <1>1, <1>2, TextsUntouched DEF CanonicalWaits, EarlyPhase
  <1>3. CASE CanonicalStands
    <2>1. PICK result : Canonical(result, candidates) /\ candidates' = result.cands /\ imports' = result.props
      BY <1>3 DEF CanonicalStands
    <2>2. PICK n \in Nat : n = Len(candidates) /\ DOMAIN candidates = 1..n /\ DOMAIN candidates' = 1..n
      BY <2>1 DEF BatchInv, Canonical
    <2>3. \A i \in 1..n :
            /\ candidates'[i].id = candidates[i].id /\ candidates'[i].type = candidates[i].type
            /\ {candidates'[i].sid, candidates'[i].tid} \subseteq Ids(imports')
            /\ OwnId(candidates, i) => SaidBy(candidates[i], candidates'[i], imports')
      BY <2>1, <2>2 DEF Canonical
    <2>4. candidates \in Extracted'
      <3>1. candidates \in Extracted
        BY <1>1 DEF TextsInv
      <3>2. [i \in DOMAIN candidates |-> Placeholder(candidates[i].id)]
                = [i \in DOMAIN candidates' |-> Placeholder(candidates'[i].id)]
        <4>1. \A i \in 1..n : Placeholder(candidates[i].id) = Placeholder(candidates'[i].id)
          BY <2>3
        <4>. QED
          BY <2>2, <4>1, Zenon
      <3>. QED
        BY <3>1, <3>2, Zenon DEF Extracted
    <2>5. Len(candidates) = Len(candidates')
      BY <2>1 DEF Canonical
    <2>6. TextsKept'
      BY <2>2, <2>3, <2>4, <2>5 DEF TextsKept
    <2>7. phase' = "review"
      BY <1>3 DEF CanonicalStands
    <2>. QED
      BY <2>6, <2>7 DEF TextsInv
  <1>. QED
    BY <1>1, <1>2, <1>3

\* One case per kind of step.
LEMMA TextsInvNext ==
  ASSUME run \in Setups, BatchInv, GraphInv, TextsInv, [Next]_vars
  PROVE  TextsInv'
  <1>1. CASE Extract \/ Handoff
    BY <1>1, ExtractTexts
  <1>2. CASE CanonicalizeStep \/ GroupingAnswers
    BY <1>2, CanonicalizeTexts
  <1>3. CASE Validate
    <2>1. imports = <<>> /\ imports' = imports /\ phase' \in {"error", "done"}
      BY <1>3 DEF Validate, TextsInv, EarlyPhase, Goes
    <2>. QED
      BY <2>1, TextsTaken
  <1>4. ASSUME UNCHANGED <<candidates, imports>>, UNCHANGED phase \/ phase' \notin EarlyPhase
        PROVE  TextsInv'
    BY <1>4, TextsUntouched DEF EarlyPhase
  <1>5. CASE Gate
    <2>1. UNCHANGED <<candidates, imports>>
      BY <1>5 DEF Gate
    <2>2. PICK none : phase' = CASE ~AutoWrite -> "done"
                                 [] AutoWrite /\ none -> "enqueue"
                                 [] OTHER -> "write"
      BY <1>5, Zenon DEF Gate, Goes
    <2>3. phase' \in {"done", "enqueue", "write"}
      BY <2>2, Zenon
    <2>. QED
      BY <1>4, <2>1, <2>3 DEF EarlyPhase
  <1>6. CASE LateStep
    <2>1. UNCHANGED <<candidates, imports>> /\ phase' \in WritingPhase \cup {"raised"}
      BY <1>6, LateStepFacts
    <2>. QED
      BY <1>4, <2>1 DEF EarlyPhase, WritingPhase
  <1>9. CASE Enqueue
    <2>1. UNCHANGED <<candidates, imports>> /\ phase' \in {"done", "raised"}
      BY <1>9 DEF Enqueue, Goes
    <2>. QED
      BY <1>4, <2>1 DEF EarlyPhase
  <1>7. CASE \/ \E r \in ReviewerSet : ReviewerAnswers(r) \/ ReviewerFails(r) \/ ReviewerRaises(r)
             \/ ShortCircuit \/ OtherProcess \/ UNCHANGED vars
    <2>1. UNCHANGED <<candidates, imports>> /\ (UNCHANGED phase \/ phase' = "raised")
      BY <1>7 DEF ReviewerAnswers, ReviewerFails, ReviewerRaises, ShortCircuit, OtherProcess, vars, Goes
    <2>. QED
      BY <1>4, <2>1 DEF EarlyPhase
  <1>8. CASE LoadInput \/ Search \/ FetchUrls \/ BeginCrawl \/ Crawl \/ EndCrawl \/ EvidenceCheck
    <2>1. imports' = imports /\ phase \in EarlyPhase \ {"review"}
      BY <1>8 DEF LoadInput, Search, FetchUrls, BeginCrawl, Crawl, EndCrawl, EvidenceCheck, EarlyPhase
    <2>2. phase' \in {"search", "fetch", "crawl", "gathered", "extract", "error", "raised"}
      BY <1>8, EvidencePhases
    <2>3. imports' = <<>>
      BY <2>1 DEF TextsInv
    <2>. QED
      BY <2>2, <2>3, TextsTaken
  <1>. QED
    BY <1>1, <1>2, <1>3, <1>5, <1>6, <1>7, <1>8, <1>9 DEF Next, RunStep, Finished, LateStep

\* However the models group texts, canonicalization changes no candidate's id
\* or type, and both endpoints are propositions to import that keep the
\* extractor's texts among their terms.
THEOREM CandidatesKeepTheirTexts == Spec => []TextsKept
  <1>1. Init => TextsInv
    BY DEF Init, TextsInv, TextsKept
  <1>2. RunInv /\ GraphInv /\ BatchInv /\ TextsInv /\ [Next]_vars => TextsInv'
    BY TextsInvNext DEF RunInv
  <1>3. TextsInv => TextsKept
    BY DEF TextsInv
  <1>. QED
    BY <1>1, <1>2, <1>3, BatchInvariant, PTL DEF Spec
=============================================================================
