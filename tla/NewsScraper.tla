---------------------------- MODULE NewsScraper ----------------------------
(***************************************************************************)
(* The job STOCK_NEWS_SCRAPER (strategy/stock_news_scraper_strategy.go):   *)
(* one goroutine per query reads a feed of Google News, drops the items it *)
(* has seen, and decodes, fetches, analyses and stores the others, best    *)
(* source first, until it has max_news of them.  A channel of              *)
(* max_concurrent slots limits the goroutines at work, a WaitGroup makes   *)
(* the task wait for all of them.                                          *)
(***************************************************************************)
EXTENDS NewsStore

CONSTANTS Query,          \* the queries of a task
          Feed,           \* the items of each query's feed
          Nature,         \* what is special about an item
          Rank,           \* its place by source priority and age
          MaxNews,        \* max_news
          MaxConcurrent,  \* max_concurrent
          MaxScrapes,     \* bound: tasks started in a behaviour
          MaxMishaps      \* bound: failures, timeouts and crashes in a behaviour

\* An item without pubDate, one without source, one older than
\* max_news_age_in_days, one from a blacklisted domain
Natures == {"fine", "undated", "sourceless", "old", "barred"}

ASSUME ScraperAssumption ==
  /\ Feed \in [Query -> SUBSET Item]
  /\ Nature \in [Item -> Natures] /\ Rank \in [Item -> Nat]
  /\ MaxNews \in Nat /\ MaxConcurrent \in Nat
  /\ MaxScrapes \in Nat /\ MaxMishaps \in Nat

VARIABLES todo,      \* queries without a goroutine yet
          slots,     \* slots of the semaphore that are taken
          place,     \* each goroutine's place
          items,     \* the items it has still to process
          item,      \* the item it is about to store
          success,    \* countSuccess
          late,      \* the task's context has ended
          results,   \* number of results noted for a query
          unfiltered, \* history variable: queries whose filter failed
          scrapes,   \* number of tasks started
          mishaps    \* number of mishaps so far

scrapeVars == <<todo, slots, place, items, item, success, late, results, unfiltered, scrapes>>

\* A goroutine waits for a slot; reads the feed; filters it; takes the next
\* item; stores it.  It has noted its result and ended, ended without a result
\* because of the context or of a panic, or was never started.
GoStep == {"acquire", "fetch", "filter", "pick", "store", "done", "none"}

Holds(q) == place[q] \in {"fetch", "filter", "pick", "store"}

ScraperTypeOK ==
  /\ todo \subseteq Query /\ slots \in Nat
  /\ place \in [Query -> GoStep]
  /\ items \in [Query -> SUBSET Item] /\ item \in [Query -> SUBSET Item]
  /\ \A q \in Query : place[q] = "store" => Cardinality(item[q]) = 1
  /\ success \in [Query -> 0..MaxNews]
  /\ late \in BOOLEAN /\ results \in [Query -> Nat]
  /\ unfiltered \subseteq Query
  /\ scrapes \in 0..MaxScrapes /\ mishaps \in 0..MaxMishaps

NothingFor == [q \in Query |-> {}]

ScraperInit ==
  /\ todo = {} /\ slots = 0
  /\ place = [q \in Query |-> "none"]
  /\ items = NothingFor /\ item = NothingFor
  /\ success = [q \in Query |-> 0]
  /\ late = FALSE /\ results = [q \in Query |-> 0] /\ unfiltered = {}
  /\ scrapes = 0 /\ mishaps = 0

\* Something goes wrong.
Mishap == mishaps < MaxMishaps /\ mishaps' = mishaps + 1

Goto(q, s) == place' = [place EXCEPT ![q] = s]

\* The goroutine ends: the deferred functions give the slot back and count it
\* as done, with or without n results noted.
Leave(q, n) ==
  /\ Goto(q, "done")
  /\ slots' = slots - 1
  /\ items' = [items EXCEPT ![q] = {}]
  /\ item' = [item EXCEPT ![q] = {}]
  /\ success' = [success EXCEPT ![q] = 0]
  /\ results' = [results EXCEPT ![q] = @ + n]

\* wg.Wait returns when every goroutine that was started is done.
Scraping == todo # {} \/ \E q \in Query : place[q] = "acquire" \/ Holds(q)

-----------------------------------------------------------------------------

\* The queries of the payload, the stocks and the positions
Scrape ==
  /\ ~Scraping /\ scrapes < MaxScrapes
  /\ scrapes' = scrapes + 1
  /\ todo' = Query
  /\ place' = [q \in Query |-> "none"]
  /\ late' = FALSE /\ results' = [q \in Query |-> 0] /\ unfiltered' = {}
  /\ UNCHANGED <<storeVars, slots, items, item, success, mishaps>>

\* One goroutine per query, until the context ends
Start ==
  /\ IF late
       THEN todo # {} /\ todo' = {} /\ UNCHANGED place
       ELSE \E q \in todo : todo' = todo \ {q} /\ Goto(q, "acquire")
  /\ UNCHANGED <<storeVars, slots, items, item, success, late, results, unfiltered, scrapes, mishaps>>

\* semaphore <- struct{}{}
Acquire(q) ==
  /\ place[q] = "acquire" /\ slots < MaxConcurrent
  /\ slots' = slots + 1
  /\ Goto(q, "fetch")
  /\ UNCHANGED <<storeVars, todo, items, item, success, late, results, unfiltered, scrapes, mishaps>>

\* parseRSSFeed
Fetch(q) ==
  /\ place[q] = "fetch" /\ ~late
  /\ Goto(q, "filter")
  /\ UNCHANGED <<storeVars, todo, slots, items, item, success, late, results, unfiltered, scrapes, mishaps>>

\* Mutant of FetchFails: it is only logged
FetchFailsSilently(q) ==
  /\ place[q] = "fetch"
  /\ IF late THEN UNCHANGED mishaps ELSE Mishap
  /\ Leave(q, 0)
  /\ UNCHANGED <<storeVars, todo, late, unfiltered, scrapes>>

FetchFails(q) ==
  /\ place[q] = "fetch"
  /\ IF late THEN UNCHANGED mishaps ELSE Mishap
  /\ Leave(q, 1)
  /\ UNCHANGED <<storeVars, todo, late, unfiltered, scrapes>>

\* filterExistingNewsItems: a feed with an undated item makes it panic.
Filter(q) ==
  /\ place[q] = "filter" /\ (late => Feed[q] = {})
  /\ \A i \in Feed[q] : Nature[i] # "undated"
  /\ items' = [items EXCEPT ![q] =
                 {i \in Feed[q] : FilterHash(i) \notin news /\ Nature[i] # "old"}]
  /\ Goto(q, "pick")
  /\ UNCHANGED <<storeVars, todo, slots, item, success, late, results, unfiltered, scrapes, mishaps>>

\* The failure is noted as a result; without a return the goroutine goes on
\* with no items and notes another one.
FilterFails(q) ==
  /\ place[q] = "filter"
  /\ Feed[q] # {} /\ \A i \in Feed[q] : Nature[i] # "undated"
  /\ IF late THEN UNCHANGED mishaps ELSE Mishap
  /\ unfiltered' = unfiltered \cup {q}
  /\ results' = [results EXCEPT ![q] = @ + 1]
  /\ Goto(q, "pick")
  /\ UNCHANGED <<storeVars, todo, slots, items, item, success, late, scrapes>>

\* sortItems: by priority of the source, the newest first
IsNext(q, i) == i \in items[q] /\ \A j \in items[q] : Rank[i] <= Rank[j]

\* Mutant of GoesOn: max_news is looked at after the item
GoesOnAtMax(q) == place[q] = "pick" /\ ~late /\ items[q] # {} /\ success[q] <= MaxNews

\* The loop goes on: the context has not ended, max_news is not reached.
GoesOn(q) == place[q] = "pick" /\ ~late /\ items[q] # {} /\ success[q] < MaxNews

\* Mutant of Panic: the slot is not given back by a deferred function
PanicKeepsSlot(q) ==
  /\ \/ place[q] = "filter" /\ \E i \in Feed[q] : Nature[i] = "undated"
     \/ GoesOn(q) /\ \E i \in Item : IsNext(q, i) /\ Nature[i] = "sourceless"
  /\ Goto(q, "done")
  /\ UNCHANGED <<storeVars, todo, slots, items, item, success, late, results, unfiltered, scrapes, mishaps>>

\* A nil pointer: PubDate in the filter, Source in processNewsItem.  GoSafe
\* recovers it, after the deferred functions ran.
Panic(q) ==
  /\ \/ place[q] = "filter" /\ \E i \in Feed[q] : Nature[i] = "undated"
     \/ GoesOn(q) /\ \E i \in Item : IsNext(q, i) /\ Nature[i] = "sourceless"
  /\ Leave(q, 0)
  /\ UNCHANGED <<storeVars, todo, late, unfiltered, scrapes, mishaps>>

\* Decoded, fetched and analysed
Process(q) ==
  /\ GoesOn(q)
  /\ \E i \in Item :
       /\ IsNext(q, i) /\ Nature[i] \notin {"sourceless", "barred"}
       /\ item' = [item EXCEPT ![q] = {i}]
       /\ items' = [items EXCEPT ![q] = @ \ {i}]
  /\ Goto(q, "store")
  /\ UNCHANGED <<storeVars, todo, slots, success, late, results, unfiltered, scrapes, mishaps>>

\* An item of a blacklisted domain counts as well.
SkipItem(q) ==
  /\ GoesOn(q)
  /\ \E i \in Item :
       /\ IsNext(q, i) /\ Nature[i] = "barred"
       /\ items' = [items EXCEPT ![q] = @ \ {i}]
  /\ success' = [success EXCEPT ![q] = @ + 1]
  /\ UNCHANGED <<storeVars, todo, slots, place, item, late, results, unfiltered, scrapes, mishaps>>

\* One of the calls fails; the item becomes a failed link.
ProcessFails(q) ==
  /\ GoesOn(q) /\ Mishap
  /\ \E i \in Item : IsNext(q, i) /\ items' = [items EXCEPT ![q] = @ \ {i}]
  /\ UNCHANGED <<storeVars, todo, slots, place, item, success, late, results, unfiltered, scrapes>>

Store(q) ==
  /\ place[q] = "store" /\ ~late
  /\ \E i \in item[q] : CreateIgnoreConflict(i)
  /\ item' = [item EXCEPT ![q] = {}]
  /\ success' = [success EXCEPT ![q] = @ + 1]
  /\ Goto(q, "pick")
  /\ UNCHANGED <<todo, slots, items, late, results, unfiltered, scrapes, mishaps>>

StoreFails(q) ==
  /\ place[q] = "store"
  /\ IF late THEN UNCHANGED mishaps ELSE Mishap
  /\ item' = [item EXCEPT ![q] = {}]
  /\ Goto(q, "pick")
  /\ UNCHANGED <<storeVars, todo, slots, items, success, late, results, unfiltered, scrapes>>

\* The loop is over: the result is noted, unless the context has ended and
\* there are items left.
Finish(q) ==
  /\ place[q] = "pick" /\ ~GoesOn(q)
  /\ Leave(q, IF late /\ items[q] # {} THEN 0 ELSE 1)
  /\ UNCHANGED <<storeVars, todo, late, unfiltered, scrapes, mishaps>>

\* The task's deadline passes.
ScrapeExpires ==
  /\ Scraping /\ ~late /\ Mishap
  /\ late' = TRUE
  /\ UNCHANGED <<storeVars, todo, slots, place, items, item, success, results, unfiltered, scrapes>>

Work(q) ==
  \/ Acquire(q) \/ Fetch(q) \/ FetchFails(q) \/ Filter(q) \/ FilterFails(q)
  \/ Panic(q) \/ Process(q) \/ SkipItem(q) \/ ProcessFails(q)
  \/ Store(q) \/ StoreFails(q) \/ Finish(q)

ScraperNext == Scrape \/ Start \/ ScrapeExpires \/ \E q \in Query : Work(q)

-----------------------------------------------------------------------------
(* Properties.                                                             *)

\* The semaphore counts the goroutines at work and never more than
\* max_concurrent of them, however they end.
SemaphoreExact ==
  /\ slots = Cardinality({q \in Query : Holds(q)})
  /\ slots <= MaxConcurrent

\* The goroutines of a scrape, and those of later scrapes and processes, that
\* store the same item leave one row with its mentions inserted once.  (Only
\* one scrape runs at a time here.)
MentionsOnce == \A i \in Item : mentions[i] = IF i \in Stored THEN 1 ELSE 0

\* A goroutine that is done has noted one result, and another one only when
\* its filter failed; none only because the context ended or an item of its
\* feed lacks its date or source.
QueriesAnswered ==
  \A q \in Query : place[q] = "done" =>
    /\ results[q] <= 1 + IF q \in unfiltered THEN 1 ELSE 0
    /\ results[q] = 0 => late \/ \E i \in Feed[q] : Nature[i] \in {"undated", "sourceless"}

\* The task ends: with max_concurrent > 0 no goroutine waits for a slot for
\* ever, panics included.
ScrapeEnds == Scraping ~> ~Scraping

\* "filterExistingNewsItems filters out feed items that already exist in the
\* database based on their hash identifiers"
FilteredAreNew == [][\A q \in Query : Filter(q) => items'[q] \cap Stored = {}]_<<storeVars, scrapeVars>>
=============================================================================
