--------------------------- MODULE NewsJobs_proofs ---------------------------
(***************************************************************************)
(* Proofs about NewsJobs, for any feeds, slots, limits and tasks.          *)
(***************************************************************************)
EXTENDS NewsJobs, FiniteSetTheorems, TLAPS

Busy == {q \in Query : Holds(q)}

\* The semaphore counts the goroutines at work, and max_news is not reached
\* while an item is stored.
SlotInv ==
  /\ IsFiniteSet(Busy) /\ SemaphoreExact
  /\ \A q \in Query : place[q] = "store" => success[q] < MaxNews

\* What a goroutine has noted by the time it is at a place.
NoteInv ==
  /\ \A q \in Query : items[q] \subseteq Feed[q]
  /\ \A q \in todo : place[q] = "none"
  /\ \A q \in Query :
       place[q] \in {"none", "acquire", "fetch", "filter"} => results[q] = 0 /\ q \notin unfiltered
  /\ \A q \in Query :
       place[q] \in {"pick", "store"} => results[q] <= IF q \in unfiltered THEN 1 ELSE 0
  /\ QueriesAnswered

ScrapeInv == ScraperTypeOK /\ SlotInv /\ NoteInv

TypeInv == StoreTypeOK /\ SummaryTypeOK /\ ScrapeInv /\ MentionsOnce

-----------------------------------------------------------------------------
(* The semaphore.                                                          *)

LEMMA Places == GoStep = {"acquire", "fetch", "filter", "pick", "store", "done", "none"}
BY DEF GoStep

\* A goroutine that moves from one item to another keeps its slot.
LEMMA SlotKept ==
  ASSUME ScraperTypeOK, SlotInv, NEW q \in Query, Holds(q),
         NEW s \in {"fetch", "filter", "pick", "store"}, Goto(q, s), slots' = slots
  PROVE  /\ place' \in [Query -> GoStep] /\ place' = [place EXCEPT ![q] = s]
         /\ IsFiniteSet(Busy') /\ SemaphoreExact'
<1>1. place' = [place EXCEPT ![q] = s] /\ place' \in [Query -> GoStep]
  BY Places DEF Goto, ScraperTypeOK
<1>2. Busy' = Busy
  BY <1>1 DEF Busy, Holds, ScraperTypeOK
<1>3. QED
  BY <1>1, <1>2 DEF SlotInv, SemaphoreExact, Busy

\* A goroutine that ends gives its slot back.
LEMMA SlotReturned ==
  ASSUME ScraperTypeOK, SlotInv, NEW q \in Query, Holds(q), NEW n \in {0, 1}, Leave(q, n)
  PROVE  /\ place' \in [Query -> GoStep] /\ place' = [place EXCEPT ![q] = "done"]
         /\ slots' \in Nat /\ IsFiniteSet(Busy') /\ SemaphoreExact'
         /\ items' = [items EXCEPT ![q] = {}] /\ items' \in [Query -> SUBSET Item]
         /\ item' = [item EXCEPT ![q] = {}] /\ item' \in [Query -> SUBSET Item]
         /\ success' = [success EXCEPT ![q] = 0] /\ success' \in [Query -> 0..MaxNews]
         /\ results' = [results EXCEPT ![q] = @ + n] /\ results' \in [Query -> Nat]
<1>1. place' = [place EXCEPT ![q] = "done"] /\ place' \in [Query -> GoStep]
  BY Places DEF Leave, Goto, ScraperTypeOK
<1>2. Busy' = Busy \ {q} /\ q \in Busy
  BY <1>1 DEF Busy, Holds, ScraperTypeOK
<1>3. IsFiniteSet(Busy) /\ slots = Cardinality(Busy) /\ slots \in Nat /\ slots <= MaxConcurrent
  BY DEF SlotInv, SemaphoreExact, Busy, ScraperTypeOK
<1>4. IsFiniteSet(Busy') /\ Cardinality(Busy') = slots - 1
  BY <1>2, <1>3, FS_RemoveElement
<1>5. Cardinality(Busy') \in Nat
  BY <1>4, FS_CardinalityType
<1>6. slots' \in Nat /\ slots' = Cardinality(Busy') /\ slots' <= MaxConcurrent
  BY <1>3, <1>4, <1>5, ScraperAssumption DEF Leave
<1>7. SemaphoreExact'
  BY <1>6 DEF SemaphoreExact, Busy
<1>8. /\ items' = [items EXCEPT ![q] = {}] /\ items' \in [Query -> SUBSET Item]
      /\ item' = [item EXCEPT ![q] = {}] /\ item' \in [Query -> SUBSET Item]
  BY DEF Leave, ScraperTypeOK
<1>9. /\ success' = [success EXCEPT ![q] = 0] /\ success' \in [Query -> 0..MaxNews]
      /\ results' = [results EXCEPT ![q] = @ + n] /\ results' \in [Query -> Nat]
  BY ScraperAssumption DEF Leave, ScraperTypeOK
<1>10. QED
  BY <1>1, <1>4, <1>6, <1>7, <1>8, <1>9

\* What ends without a slot, or never had one, leaves the semaphore alone.
LEMMA SlotFrame ==
  ASSUME SlotInv, UNCHANGED <<slots, place, success>>
  PROVE  SlotInv'
BY DEF SlotInv, SemaphoreExact, Busy, Holds

\* A goroutine that returns has noted what it must.
LEMMA NoteAtEnd ==
  ASSUME ScrapeInv, NEW q \in Query, Holds(q), NEW n \in {0, 1}, Leave(q, n),
         UNCHANGED <<todo, late, unfiltered>>,
         n = 0 => \/ late
                  \/ \E i \in Feed[q] : Nature[i] \in {"undated", "sourceless"}
  PROVE  NoteInv'
<1>1. /\ place' = [place EXCEPT ![q] = "done"]
      /\ items' = [items EXCEPT ![q] = {}]
      /\ results' = [results EXCEPT ![q] = @ + n]
  BY SlotReturned DEF ScrapeInv
<1>2. /\ place \in [Query -> GoStep] /\ items \in [Query -> SUBSET Item]
      /\ results \in [Query -> Nat] /\ todo \subseteq Query
  BY DEF ScrapeInv, ScraperTypeOK
<1>3. results[q] <= IF q \in unfiltered THEN 1 ELSE 0
  BY <1>2 DEF ScrapeInv, NoteInv, Holds
<1>4. /\ results'[q] <= 1 + IF q \in unfiltered' THEN 1 ELSE 0
      /\ results'[q] = 0 => n = 0
  BY <1>1, <1>2, <1>3
<1>5. QueriesAnswered'
  <2> SUFFICES ASSUME NEW r \in Query, place'[r] = "done"
               PROVE  /\ results'[r] <= 1 + IF r \in unfiltered' THEN 1 ELSE 0
                      /\ results'[r] = 0 =>
                           late' \/ \E i \in Feed[r] : Nature[i] \in {"undated", "sourceless"}
    BY DEF QueriesAnswered
  <2>1. CASE r = q
    BY <2>1, <1>4
  <2>2. CASE r # q
    BY <2>2, <1>1, <1>2 DEF ScrapeInv, NoteInv, QueriesAnswered
  <2>3. QED
    BY <2>1, <2>2
<1>6. QED
  BY <1>1, <1>2, <1>5 DEF ScrapeInv, NoteInv, Holds

-----------------------------------------------------------------------------
(* Initial states and restarts.                                            *)

LEMMA NoListTyped == NoList \in List
<1>1. NoList \in [1..0 -> Item]
  BY DEF NoList
<1>2. 0 \in 0..MaxEach
  BY NewsAssumption
<1>3. IsInjective(NoList)
  BY DEF NoList, IsInjective
<1>4. QED
  BY <1>1, <1>2, <1>3 DEF List

\* No goroutine is there.
Idle ==
  /\ todo = {} /\ slots = 0
  /\ place = [q \in Query |-> "none"]
  /\ items = NothingFor /\ item = NothingFor
  /\ success = [q \in Query |-> 0]
  /\ late = FALSE /\ results = [q \in Query |-> 0] /\ unfiltered = {}

LEMMA IdleInv ==
  ASSUME Idle, scrapes \in 0..MaxScrapes, mishaps \in 0..MaxMishaps
  PROVE  ScrapeInv
<1>0. \A q \in Query : place[q] = "none"
  BY DEF Idle
<1>1. Busy = {} /\ slots = 0
  BY <1>0 DEF Busy, Holds, Idle
<1>2. SlotInv
  <2>1. IsFiniteSet(Busy) /\ Cardinality(Busy) = 0
    BY <1>1, FS_EmptySet
  <2>2. SemaphoreExact
    BY <1>1, <2>1, ScraperAssumption DEF SemaphoreExact, Busy
  <2>3. QED
    BY <1>0, <2>1, <2>2 DEF SlotInv
<1>3. ScraperTypeOK
  <2>1. todo \subseteq Query /\ slots \in Nat /\ late \in BOOLEAN /\ unfiltered \subseteq Query
    BY DEF Idle
  <2>2. place \in [Query -> GoStep]
    BY Places DEF Idle
  <2>3. items \in [Query -> SUBSET Item] /\ item \in [Query -> SUBSET Item]
    BY DEF Idle, NothingFor
  <2>4. success \in [Query -> 0..MaxNews] /\ results \in [Query -> Nat]
    BY ScraperAssumption DEF Idle
  <2>5. QED
    BY <1>0, <2>1, <2>2, <2>3, <2>4 DEF ScraperTypeOK
<1>4. NoteInv
  BY DEF NoteInv, QueriesAnswered, Idle, NothingFor
<1>5. QED
  BY <1>2, <1>3, <1>4 DEF ScrapeInv

LEMMA SumSteps == SumStep = {"rank", "get", "call", "create", "none"}
BY DEF SumStep

LEMMA InitInv == Init => TypeInv
<1> SUFFICES ASSUME Init PROVE TypeInv
  OBVIOUS
<1>1. StoreTypeOK /\ MentionsOnce
  BY DEF Init, StoreInit, StoreTypeOK, MentionsOnce, Stored
<1>2. SummaryTypeOK
  BY NoListTyped, SumSteps, SummaryAssumption DEF Init, SummaryInit, SummaryTypeOK
<1>3. Idle /\ scrapes \in 0..MaxScrapes /\ mishaps \in 0..MaxMishaps
  BY ScraperAssumption DEF Init, ScraperInit, Idle
<1>4. ScrapeInv
  BY <1>3, IdleInv
<1>5. QED
  BY <1>1, <1>2, <1>4 DEF TypeInv

-----------------------------------------------------------------------------
(* The scraper's steps.                                                    *)

LEMMA ScrapeStep ==
  ASSUME TypeInv, ScraperNext
  PROVE  ScrapeInv' /\ StoreTypeOK' /\ MentionsOnce'
<1> USE ScraperAssumption, Places
<1>1. ScrapeInv /\ ScraperTypeOK /\ SlotInv /\ NoteInv /\ StoreTypeOK /\ MentionsOnce
  BY DEF TypeInv, ScrapeInv
<1>2. UNCHANGED storeVars => StoreTypeOK' /\ MentionsOnce'
  BY <1>1 DEF storeVars, StoreTypeOK, MentionsOnce, Stored
<1>3. CASE Scrape
  <2>1. Busy = {} /\ \A q \in Query : ~Holds(q)
    BY <1>3 DEF Scrape, Scraping, Busy
  <2>2. Busy' = {}
    BY <1>3 DEF Scrape, Busy, Holds
  <2>3. SlotInv'
    BY <1>1, <1>3, <2>1, <2>2, FS_EmptySet DEF Scrape, SlotInv, SemaphoreExact, Busy
  <2>4. ScraperTypeOK'
    <3>1. scrapes' \in 0..MaxScrapes /\ results' \in [Query -> Nat]
      BY <1>1, <1>3 DEF Scrape, ScraperTypeOK
    <3>2. place' \in [Query -> GoStep] /\ \A q \in Query : place'[q] # "store"
      BY <1>3 DEF Scrape
    <3>3. QED
      BY <1>1, <1>3, <3>1, <3>2 DEF Scrape, ScraperTypeOK
  <2>5. NoteInv'
    BY <1>1, <1>3 DEF Scrape, NoteInv, QueriesAnswered
  <2>6. QED
    BY <1>2, <1>3, <2>3, <2>4, <2>5 DEF Scrape, ScrapeInv
<1>4. CASE Start
  <2>1. CASE todo' = {} /\ UNCHANGED place
    <3>1. SlotInv'
      BY <1>1, <1>4, <2>1, SlotFrame DEF Start
    <3>2. ScraperTypeOK' /\ NoteInv'
      BY <1>1, <1>4, <2>1 DEF Start, ScraperTypeOK, NoteInv, QueriesAnswered
    <3>3. QED
      BY <1>2, <1>4, <3>1, <3>2 DEF Start, ScrapeInv
  <2>2. ASSUME NEW q \in todo, todo' = todo \ {q}, Goto(q, "acquire") PROVE ScrapeInv'
    <3>1. q \in Query /\ place[q] = "none"
      BY <1>1 DEF NoteInv, ScraperTypeOK
    <3>2. place' = [place EXCEPT ![q] = "acquire"]
      BY <2>2 DEF Goto
    <3>3. Busy' = Busy
      BY <1>1, <3>1, <3>2 DEF Busy, Holds, ScraperTypeOK
    <3>4. SlotInv'
      BY <1>1, <1>4, <3>1, <3>2, <3>3 DEF Start, SlotInv, SemaphoreExact, Busy, ScraperTypeOK
    <3>5. ScraperTypeOK'
      BY <1>1, <1>4, <2>2, <3>1, <3>2 DEF Start, ScraperTypeOK
    <3>6. NoteInv'
      BY <1>1, <1>4, <2>2, <3>1, <3>2 DEF Start, ScraperTypeOK, NoteInv, QueriesAnswered
    <3>7. QED
      BY <3>4, <3>5, <3>6 DEF ScrapeInv
  <2>3. QED
    BY <1>2, <1>4, <2>1, <2>2 DEF Start
<1>5. CASE ScrapeExpires
  <2>1. SlotInv'
    BY <1>1, <1>5, SlotFrame DEF ScrapeExpires
  <2>2. ScraperTypeOK' /\ NoteInv'
    BY <1>1, <1>5 DEF ScrapeExpires, Mishap, ScraperTypeOK, NoteInv, QueriesAnswered
  <2>3. QED
    BY <1>2, <1>5, <2>1, <2>2 DEF ScrapeExpires, ScrapeInv
<1>6. ASSUME NEW q \in Query, Acquire(q) PROVE ScrapeInv' /\ UNCHANGED storeVars
  <2>1. /\ place[q] = "acquire" /\ place' = [place EXCEPT ![q] = "fetch"]
        /\ slots < MaxConcurrent /\ slots' = slots + 1
    BY <1>6 DEF Acquire, Goto
  <2>2. Busy' = Busy \cup {q} /\ q \notin Busy
    BY <1>1, <2>1 DEF Busy, Holds, ScraperTypeOK
  <2>3. IsFiniteSet(Busy) /\ slots = Cardinality(Busy)
    BY <1>1 DEF SlotInv, SemaphoreExact, Busy
  <2>4. IsFiniteSet(Busy') /\ Cardinality(Busy') = slots + 1
    BY <2>2, <2>3, FS_AddElement
  <2>5. SemaphoreExact'
    BY <1>1, <2>1, <2>4 DEF SemaphoreExact, Busy, ScraperTypeOK
  <2>6. SlotInv'
    BY <1>1, <1>6, <2>1, <2>4, <2>5 DEF Acquire, SlotInv, ScraperTypeOK
  <2>7. ScraperTypeOK' /\ NoteInv'
    BY <1>1, <1>6, <2>1 DEF Acquire, ScraperTypeOK, NoteInv, QueriesAnswered
  <2>8. QED
    BY <1>6, <2>6, <2>7 DEF Acquire, ScrapeInv
<1>7. ASSUME NEW q \in Query, Fetch(q) PROVE ScrapeInv' /\ UNCHANGED storeVars
  <2>1. Holds(q) /\ slots' = slots /\ place[q] = "fetch" /\ Goto(q, "filter")
    BY <1>7 DEF Fetch, Holds
  <2>2. /\ place' \in [Query -> GoStep] /\ place' = [place EXCEPT ![q] = "filter"]
        /\ IsFiniteSet(Busy') /\ SemaphoreExact'
    BY <1>1, <2>1, SlotKept
  <2>3. SlotInv'
    BY <1>1, <1>7, <2>2 DEF Fetch, SlotInv, ScraperTypeOK
  <2>4. ScraperTypeOK' /\ NoteInv'
    BY <1>1, <1>7, <2>1, <2>2 DEF Fetch, ScraperTypeOK, NoteInv, QueriesAnswered
  <2>5. QED
    BY <1>7, <2>3, <2>4 DEF Fetch, ScrapeInv
<1>8. ASSUME NEW q \in Query, NEW n \in {0, 1}, Holds(q), Leave(q, n),
             UNCHANGED <<todo, late, unfiltered, scrapes>>, mishaps' \in 0..MaxMishaps,
             n = 0 => late \/ \E i \in Feed[q] : Nature[i] \in {"undated", "sourceless"}
      PROVE  ScrapeInv'
  <2>1. NoteInv'
    BY <1>1, <1>8, NoteAtEnd
  <2>2. /\ place' \in [Query -> GoStep] /\ place' = [place EXCEPT ![q] = "done"]
        /\ slots' \in Nat /\ IsFiniteSet(Busy') /\ SemaphoreExact'
        /\ items' \in [Query -> SUBSET Item]
        /\ item' = [item EXCEPT ![q] = {}] /\ item' \in [Query -> SUBSET Item]
        /\ success' = [success EXCEPT ![q] = 0] /\ success' \in [Query -> 0..MaxNews]
        /\ results' \in [Query -> Nat]
    BY <1>1, <1>8, SlotReturned
  <2>3. SlotInv'
    BY <1>1, <2>2 DEF SlotInv, ScraperTypeOK
  <2>4. ScraperTypeOK'
    BY <1>1, <1>8, <2>2 DEF ScraperTypeOK
  <2>5. QED
    BY <2>1, <2>3, <2>4 DEF ScrapeInv
<1>9. ASSUME NEW q \in Query, FetchFails(q) PROVE ScrapeInv' /\ UNCHANGED storeVars
  <2>1. Holds(q) /\ Leave(q, 1) /\ UNCHANGED <<todo, late, unfiltered, scrapes>> /\ UNCHANGED storeVars
    BY <1>9 DEF FetchFails, Holds
  <2>2. mishaps' \in 0..MaxMishaps
    BY <1>1, <1>9 DEF FetchFails, Mishap, ScraperTypeOK
  <2>3. QED
    BY <1>8, <2>1, <2>2
<1>10. ASSUME NEW q \in Query, Filter(q) PROVE ScrapeInv' /\ UNCHANGED storeVars
  <2>1. Holds(q) /\ slots' = slots /\ place[q] = "filter" /\ Goto(q, "pick")
    BY <1>10 DEF Filter, Holds
  <2>2. /\ place' \in [Query -> GoStep] /\ place' = [place EXCEPT ![q] = "pick"]
        /\ IsFiniteSet(Busy') /\ SemaphoreExact'
    BY <1>1, <2>1, SlotKept
  <2>3. SlotInv'
    BY <1>1, <1>10, <2>2 DEF Filter, SlotInv, ScraperTypeOK
  <2>4. PICK S \in SUBSET Feed[q] : items' = [items EXCEPT ![q] = S]
    BY <1>10 DEF Filter
  <2>5. S \in SUBSET Item
    OBVIOUS
  <2>6. ScraperTypeOK'
    BY <1>1, <1>10, <2>2, <2>4, <2>5 DEF Filter, ScraperTypeOK
  <2>7. NoteInv'
    BY <1>1, <1>10, <2>1, <2>2, <2>4 DEF Filter, ScraperTypeOK, NoteInv, QueriesAnswered
  <2>8. QED
    BY <1>10, <2>3, <2>6, <2>7 DEF Filter, ScrapeInv
<1>11. ASSUME NEW q \in Query, FilterFails(q) PROVE ScrapeInv' /\ UNCHANGED storeVars
  <2>1. Holds(q) /\ slots' = slots /\ place[q] = "filter" /\ Goto(q, "pick")
    BY <1>11 DEF FilterFails, Holds
  <2>2. /\ place' \in [Query -> GoStep] /\ place' = [place EXCEPT ![q] = "pick"]
        /\ IsFiniteSet(Busy') /\ SemaphoreExact'
    BY <1>1, <2>1, SlotKept
  <2>3. SlotInv'
    BY <1>1, <1>11, <2>2 DEF FilterFails, SlotInv, ScraperTypeOK
  <2>4. ScraperTypeOK'
    BY <1>1, <1>11, <2>2 DEF FilterFails, Mishap, ScraperTypeOK
  <2>5. NoteInv'
    BY <1>1, <1>11, <2>1, <2>2 DEF FilterFails, ScraperTypeOK, NoteInv, QueriesAnswered
  <2>6. QED
    BY <1>11, <2>3, <2>4, <2>5 DEF FilterFails, ScrapeInv
<1>12. ASSUME NEW q \in Query, Panic(q) PROVE ScrapeInv' /\ UNCHANGED storeVars
  <2>1. Holds(q) /\ Leave(q, 0) /\ UNCHANGED <<todo, late, unfiltered, scrapes>> /\ UNCHANGED storeVars
    BY <1>12 DEF Panic, GoesOn, Holds
  <2>2. mishaps' \in 0..MaxMishaps
    BY <1>1, <1>12 DEF Panic, ScraperTypeOK
  <2>3. \E i \in Feed[q] : Nature[i] \in {"undated", "sourceless"}
    BY <1>1, <1>12 DEF Panic, IsNext, NoteInv
  <2>4. QED
    BY <1>8, <2>1, <2>2, <2>3
<1>13. ASSUME NEW q \in Query, Process(q) PROVE ScrapeInv' /\ UNCHANGED storeVars
  <2>1. Holds(q) /\ slots' = slots /\ place[q] = "pick" /\ Goto(q, "store") /\ success[q] < MaxNews
    BY <1>13 DEF Process, GoesOn, Holds
  <2>2. /\ place' \in [Query -> GoStep] /\ place' = [place EXCEPT ![q] = "store"]
        /\ IsFiniteSet(Busy') /\ SemaphoreExact'
    BY <1>1, <2>1, SlotKept
  <2>3. SlotInv'
    BY <1>1, <1>13, <2>1, <2>2 DEF Process, SlotInv, ScraperTypeOK
  <2>4. PICK i \in Item : /\ item' = [item EXCEPT ![q] = {i}]
                          /\ items' = [items EXCEPT ![q] = @ \ {i}]
    BY <1>13 DEF Process
  <2>5. \A r \in Query : place'[r] = "store" => Cardinality(item'[r]) = 1
    <3>1. Cardinality({i}) = 1
      BY FS_Singleton
    <3>2. QED
      BY <1>1, <2>2, <2>4, <3>1 DEF ScraperTypeOK
  <2>6. ScraperTypeOK'
    <3>1. items' \in [Query -> SUBSET Item] /\ item' \in [Query -> SUBSET Item]
      BY <1>1, <2>4 DEF ScraperTypeOK
    <3>2. QED
      BY <1>1, <1>13, <2>2, <2>5, <3>1 DEF Process, ScraperTypeOK
  <2>7. NoteInv'
    BY <1>1, <1>13, <2>1, <2>2, <2>4 DEF Process, ScraperTypeOK, NoteInv, QueriesAnswered
  <2>8. QED
    BY <1>13, <2>3, <2>6, <2>7 DEF Process, ScrapeInv
<1>14. ASSUME NEW q \in Query, SkipItem(q) \/ ProcessFails(q) PROVE ScrapeInv' /\ UNCHANGED storeVars
  <2>1. /\ place[q] = "pick" /\ success[q] < MaxNews
        /\ UNCHANGED <<storeVars, todo, slots, place, item, late, results, unfiltered, scrapes>>
        /\ \/ success' = [success EXCEPT ![q] = @ + 1] /\ UNCHANGED mishaps
           \/ UNCHANGED success /\ Mishap
    BY <1>14 DEF SkipItem, ProcessFails, GoesOn
  <2>2. PICK i \in Item : items' = [items EXCEPT ![q] = @ \ {i}]
    BY <1>14 DEF SkipItem, ProcessFails
  <2>3. success' \in [Query -> 0..MaxNews]
    BY <1>1, <2>1 DEF ScraperTypeOK
  <2>4. mishaps' \in 0..MaxMishaps
    BY <1>1, <2>1 DEF ScraperTypeOK, Mishap
  <2>5. ScraperTypeOK'
    BY <1>1, <2>1, <2>2, <2>3, <2>4 DEF ScraperTypeOK
  <2>6. SlotInv'
    BY <1>1, <2>1 DEF SlotInv, SemaphoreExact, Busy, Holds, ScraperTypeOK
  <2>7. NoteInv'
    BY <1>1, <2>1, <2>2 DEF ScraperTypeOK, NoteInv, QueriesAnswered
  <2>8. QED
    BY <2>1, <2>5, <2>6, <2>7 DEF ScrapeInv
<1>15. ASSUME NEW q \in Query, Store(q) \/ StoreFails(q) PROVE ScrapeInv'
  <2>1. /\ Holds(q) /\ slots' = slots /\ place[q] = "store" /\ Goto(q, "pick")
        /\ item' = [item EXCEPT ![q] = {}]
        /\ UNCHANGED <<todo, items, late, results, unfiltered, scrapes>>
        /\ \/ success' = [success EXCEPT ![q] = @ + 1] \/ UNCHANGED success
        /\ UNCHANGED mishaps \/ Mishap
    BY <1>15 DEF Store, StoreFails, Holds
  <2>2. /\ place' \in [Query -> GoStep] /\ place' = [place EXCEPT ![q] = "pick"]
        /\ IsFiniteSet(Busy') /\ SemaphoreExact'
    BY <1>1, <2>1, SlotKept
  <2>3. success[q] < MaxNews
    BY <1>1, <2>1 DEF SlotInv
  <2>4. success' \in [Query -> 0..MaxNews]
    BY <1>1, <2>1, <2>3 DEF ScraperTypeOK
  <2>5. SlotInv'
    BY <1>1, <2>1, <2>2 DEF SlotInv, ScraperTypeOK
  <2>6. ScraperTypeOK'
    <3>1. \A r \in Query : place'[r] = "store" => Cardinality(item'[r]) = 1
      BY <1>1, <2>1, <2>2 DEF ScraperTypeOK
    <3>2. mishaps' \in 0..MaxMishaps
      BY <1>1, <2>1 DEF ScraperTypeOK, Mishap
    <3>3. QED
      BY <1>1, <1>15, <2>1, <2>2, <2>4, <3>1, <3>2 DEF ScraperTypeOK, Store, StoreFails
  <2>7. NoteInv'
    BY <1>1, <2>1, <2>2 DEF ScraperTypeOK, NoteInv, QueriesAnswered
  <2>8. QED
    BY <2>5, <2>6, <2>7 DEF ScrapeInv
<1>16. ASSUME NEW q \in Query, Store(q) PROVE StoreTypeOK' /\ MentionsOnce'
  <2>1. PICK i \in item[q] : CreateIgnoreConflict(i)
    BY <1>16 DEF Store
  <2>2. i \in Item
    BY <1>1 DEF ScraperTypeOK
  <2>3. StoredHash(i) \in Hash
    BY <2>2 DEF StoredHash, Hash, Layout
  <2>4. StoreTypeOK'
    BY <1>1, <2>1, <2>2, <2>3 DEF CreateIgnoreConflict, StoreTypeOK
  <2>5. \A j \in Item : StoredHash(j) = StoredHash(i) <=> j = i
    BY DEF StoredHash
  <2>6. MentionsOnce'
    BY <1>1, <2>1, <2>2, <2>5 DEF CreateIgnoreConflict, StoreTypeOK, MentionsOnce, Stored
  <2>7. QED
    BY <2>4, <2>6
<1>17. ASSUME NEW q \in Query, Finish(q) PROVE ScrapeInv' /\ UNCHANGED storeVars
  <2>1. PICK n \in {0, 1} : Leave(q, n) /\ (n = 0 => late)
    <3>1. CASE late /\ items[q] # {}
      BY <1>17, <3>1 DEF Finish
    <3>2. CASE ~(late /\ items[q] # {})
      BY <1>17, <3>2 DEF Finish
    <3>3. QED
      BY <3>1, <3>2
  <2>2. Holds(q) /\ UNCHANGED <<todo, late, unfiltered, scrapes, mishaps>> /\ UNCHANGED storeVars
    BY <1>17 DEF Finish, Holds
  <2>3. mishaps' \in 0..MaxMishaps
    BY <1>1, <2>2 DEF ScraperTypeOK
  <2>4. QED
    BY <1>8, <2>1, <2>2, <2>3
<1>18. ASSUME NEW q \in Query, StoreFails(q) PROVE UNCHANGED storeVars
  BY <1>18 DEF StoreFails
<1>19. QED
  BY <1>2, <1>3, <1>4, <1>5, <1>6, <1>7, <1>9, <1>10, <1>11, <1>12, <1>13, <1>14, <1>15, <1>16,
     <1>17, <1>18 DEF ScraperNext, Work

-----------------------------------------------------------------------------
(* The steps of the summaries, and all of them together.                   *)

LEMMA ScrapeFrame == ASSUME ScrapeInv, UNCHANGED <<scrapeVars, mishaps>> PROVE ScrapeInv'
BY DEF scrapeVars, ScrapeInv, ScraperTypeOK, SlotInv, SemaphoreExact, Busy, Holds, NoteInv,
       QueriesAnswered

LEMMA HashedTyped == ASSUME SummaryTypeOK, NEW t \in Task, NEW s \in Stock PROVE Hashed(t, s) \in Digest
BY DEF SummaryTypeOK, Hashed, Digest

\* A goroutine of a summary moves on, or ends.
LEMMA GotoTyped ==
  ASSUME SummaryTypeOK, NEW t \in Task, NEW s \in Stock, NEW n \in SumStep, GotoSum(t, s, n)
  PROVE  /\ step' \in [Task -> [Stock -> SumStep]]
         /\ step' = [step EXCEPT ![t] = [step[t] EXCEPT ![s] = n]]
BY DEF SummaryTypeOK, GotoSum

LEMMA ListTyped ==
  ASSUME SummaryTypeOK, NEW t \in Task, NEW s \in Stock, NEW l \in List, list' = [list EXCEPT ![t][s] = l]
  PROVE  /\ list' \in [Task -> [Stock -> List]]
         /\ list' = [list EXCEPT ![t] = [list[t] EXCEPT ![s] = l]]
BY DEF SummaryTypeOK

\* A count goes up, or not.
LEMMA Counted ==
  ASSUME NEW f \in [Digest -> Nat], NEW h \in Digest, NEW n \in Nat
  PROVE  [f EXCEPT ![h] = @ + n] \in [Digest -> Nat]
OBVIOUS

LEMMA MishapTyped == ASSUME ScraperTypeOK, Mishap PROVE mishaps' \in 0..MaxMishaps
BY ScraperAssumption DEF ScraperTypeOK, Mishap

LEMMA SummaryStep ==
  ASSUME StoreTypeOK, SummaryTypeOK, NEW t \in Task,
         Summarise(t) \/ \E s \in Stock : Summary(t, s) \/ SummaryFails(t, s)
  PROVE  SummaryTypeOK' /\ StoreTypeOK' /\ UNCHANGED <<news, mentions>>
<1> USE SumSteps
<1>1. CASE Summarise(t)
  <2>1. started' \in 0..MaxSummaries
    BY <1>1, SummaryAssumption DEF Summarise, SummaryTypeOK
  <2>2. PICK S \in SUBSET StocksToSummarize :
          step' = [step EXCEPT ![t] = [s \in Stock |-> IF s \in S THEN "rank" ELSE "none"]]
    BY <1>1 DEF Summarise
  <2>3. step' \in [Task -> [Stock -> SumStep]]
    BY <2>2 DEF SummaryTypeOK
  <2>4. QED
    BY <1>1, <2>1, <2>3 DEF Summarise, SummaryTypeOK, StoreTypeOK, storeVars
<1>2. ASSUME NEW s \in Stock, RankNews(t, s) PROVE SummaryTypeOK' /\ UNCHANGED storeVars
  <2>1. PICK l \in RankedNews(s) :
          /\ list' = [list EXCEPT ![t][s] = l]
          /\ GotoSum(t, s, IF l = NoList THEN "none" ELSE "get")
    BY <1>2 DEF RankNews
  <2>2. l \in List
    BY DEF RankedNews
  <2>3. list' \in [Task -> [Stock -> List]]
    BY <2>1, <2>2, ListTyped
  <2>4. step' \in [Task -> [Stock -> SumStep]]
    BY <2>1, GotoTyped
  <2>5. QED
    BY <1>2, <2>3, <2>4 DEF RankNews, SummaryTypeOK
<1>3. ASSUME NEW s \in Stock, LeaveSum(t, s) PROVE /\ step' \in [Task -> [Stock -> SumStep]]
                                                   /\ list' \in [Task -> [Stock -> List]]
  <2>1. GotoSum(t, s, "none") /\ list' = [list EXCEPT ![t][s] = NoList]
    BY <1>3 DEF LeaveSum
  <2>2. QED
    BY <2>1, GotoTyped, ListTyped, NoListTyped
<1>4. ASSUME NEW s \in Stock, GetSummary(t, s) PROVE SummaryTypeOK' /\ UNCHANGED storeVars
  <2>1. CASE LeaveSum(t, s) /\ UNCHANGED excused
    BY <1>3, <1>4, <2>1 DEF GetSummary, SummaryTypeOK
  <2>2. CASE /\ GotoSum(t, s, "call") /\ UNCHANGED list
             /\ excused' = [excused EXCEPT ![Hashed(t, s)] = @ + IF Doubled(t, s) THEN 1 ELSE 0]
    <3>1. step' \in [Task -> [Stock -> SumStep]]
      BY <2>2, GotoTyped
    <3>2. excused' \in [Digest -> Nat]
      <4>1. excused \in [Digest -> Nat] /\ (IF Doubled(t, s) THEN 1 ELSE 0) \in Nat
        BY DEF SummaryTypeOK
      <4>2. QED
        BY <2>2, <4>1, Counted, HashedTyped
    <3>3. QED
      BY <1>4, <2>2, <3>1, <3>2 DEF GetSummary, SummaryTypeOK
  <2>3. QED
    BY <1>4, <2>1, <2>2 DEF GetSummary
<1>5. ASSUME NEW s \in Stock, CallModel(t, s) PROVE SummaryTypeOK' /\ UNCHANGED storeVars
  <2>1. step' \in [Task -> [Stock -> SumStep]]
    BY <1>5, GotoTyped DEF CallModel
  <2>2. calls' \in [Digest -> Nat]
    BY <1>5, Counted, HashedTyped DEF CallModel, SummaryTypeOK
  <2>3. QED
    BY <1>5, <2>1, <2>2 DEF CallModel, SummaryTypeOK
<1>6. ASSUME NEW s \in Stock, StoreSummary(t, s)
      PROVE  SummaryTypeOK' /\ StoreTypeOK' /\ UNCHANGED <<news, mentions>>
  <2>1. summaries' \in [Digest -> Nat]
    BY <1>6 DEF StoreSummary, CreateSummary, StoreTypeOK
  <2>2. QED
    BY <1>3, <1>6, <2>1 DEF StoreSummary, SummaryTypeOK, StoreTypeOK
<1>7. ASSUME NEW s \in Stock, SummaryFails(t, s) PROVE SummaryTypeOK' /\ UNCHANGED storeVars
  <2>1. excused' \in [Digest -> Nat]
    <3>1. excused \in [Digest -> Nat] /\ (IF step[t][s] = "create" THEN 1 ELSE 0) \in Nat
      BY DEF SummaryTypeOK
    <3>2. QED
      BY <1>7, <3>1, Counted, HashedTyped DEF SummaryFails
  <2>2. QED
    BY <1>3, <1>7, <2>1 DEF SummaryFails, SummaryTypeOK
<1>8. UNCHANGED storeVars => StoreTypeOK' /\ UNCHANGED <<news, mentions>>
  BY DEF storeVars, StoreTypeOK
<1>9. QED
  BY <1>1, <1>2, <1>4, <1>5, <1>6, <1>7, <1>8 DEF Summary

\* The goroutines a restart ends before their summary is stored are finitely
\* many.
AtCreate == [h \in Digest |-> {g \in Task \X Stock : step[g[1]][g[2]] = "create" /\ Hashed(g[1], g[2]) = h}]

LEMMA AtCreateFinite == \A h \in Digest : IsFiniteSet(AtCreate[h]) /\ Cardinality(AtCreate[h]) \in Nat
<1>1. IsFiniteSet(Task \X Stock)
  BY SummaryAssumption, FS_Product
<1>2. \A h \in Digest : AtCreate[h] \in SUBSET (Task \X Stock)
  BY DEF AtCreate
<1>3. \A h \in Digest : IsFiniteSet(AtCreate[h])
  BY <1>1, <1>2, FS_Subset
<1>4. QED
  BY <1>3, FS_CardinalityType

LEMMA RestartStep ==
  ASSUME TypeInv, Restart, mishaps' \in 0..MaxMishaps
  PROVE  ScrapeInv' /\ SummaryTypeOK' /\ UNCHANGED storeVars
<1>1. Idle' /\ scrapes' \in 0..MaxScrapes
  BY DEF Restart, Idle, NothingFor, TypeInv, ScrapeInv, ScraperTypeOK
<1>2. ScrapeInv'
  <2>1. Busy' = {} /\ slots' = 0 /\ \A q \in Query : place'[q] = "none"
    BY <1>1 DEF Idle, Busy, Holds
  <2>2. IsFiniteSet(Busy') /\ Cardinality(Busy') = 0
    BY <2>1, FS_EmptySet
  <2>3. SlotInv'
    BY <2>1, <2>2, ScraperAssumption DEF SlotInv, SemaphoreExact, Busy
  <2>4. /\ todo' = {} /\ unfiltered' = {} /\ late' = FALSE
        /\ place' \in [Query -> GoStep]
        /\ items' \in [Query -> SUBSET Item] /\ item' \in [Query -> SUBSET Item]
    BY <1>1, Places DEF Idle, NothingFor
  <2>5. success' \in [Query -> 0..MaxNews] /\ results' \in [Query -> Nat]
    BY <1>1, ScraperAssumption DEF Idle
  <2>6. ScraperTypeOK'
    BY <1>1, <2>1, <2>4, <2>5 DEF ScraperTypeOK
  <2>7. NoteInv'
    BY <1>1, <2>1 DEF NoteInv, QueriesAnswered, Idle, NothingFor
  <2>8. QED
    BY <2>3, <2>6, <2>7 DEF ScrapeInv
<1>3. excused' \in [Digest -> Nat]
  <2>1. excused' = [h \in Digest |-> excused[h] + Cardinality(AtCreate[h])]
    BY DEF Restart, AtCreate
  <2>2. QED
    BY <2>1, AtCreateFinite DEF TypeInv, SummaryTypeOK
<1>4. /\ step' \in [Task -> [Stock -> SumStep]] /\ list' \in [Task -> [Stock -> List]]
  BY NoListTyped, SumSteps DEF Restart
<1>5. QED
  BY <1>2, <1>3, <1>4 DEF Restart, TypeInv, SummaryTypeOK

LEMMA MentionsFrame ==
  ASSUME MentionsOnce, UNCHANGED <<news, mentions>> PROVE MentionsOnce'
BY DEF MentionsOnce, Stored

LEMMA TypeStep == TypeInv /\ [Next]_vars => TypeInv'
<1> SUFFICES ASSUME TypeInv, [Next]_vars PROVE TypeInv'
  OBVIOUS
<1>1. CASE ScraperNext /\ UNCHANGED summaryVars
  BY <1>1, ScrapeStep DEF TypeInv, summaryVars, SummaryTypeOK
<1>2. ASSUME NEW t \in Task, UNCHANGED <<scrapeVars, mishaps>>,
             Summarise(t) \/ \E s \in Stock : Summary(t, s) \/ SummaryFails(t, s)
      PROVE  TypeInv'
  <2>1. SummaryTypeOK' /\ StoreTypeOK' /\ UNCHANGED <<news, mentions>>
    BY <1>2, SummaryStep DEF TypeInv
  <2>2. QED
    BY <1>2, <2>1, ScrapeFrame, MentionsFrame DEF TypeInv
<1>3. ASSUME NEW t \in Task, NEW s \in Stock, Fails(t, s) PROVE TypeInv'
  <2>1. SummaryTypeOK' /\ StoreTypeOK' /\ UNCHANGED <<news, mentions>>
    BY <1>3, SummaryStep DEF Fails, TypeInv
  <2>2. mishaps' \in 0..MaxMishaps
    BY <1>3, MishapTyped DEF Fails, TypeInv, ScrapeInv
  <2>3. ScrapeInv'
    BY <1>3, <2>2 DEF Fails, TypeInv, scrapeVars, ScrapeInv, ScraperTypeOK, SlotInv, SemaphoreExact,
                      Busy, Holds, NoteInv, QueriesAnswered
  <2>4. QED
    BY <2>1, <2>3, MentionsFrame DEF TypeInv
<1>4. ASSUME NEW t \in Task, NEW s \in Stock, Fatal(t, s) PROVE TypeInv'
  <2>1. mishaps' \in 0..MaxMishaps
    BY <1>4, MishapTyped DEF Fatal, TypeInv, ScrapeInv
  <2>2. ScrapeInv' /\ SummaryTypeOK' /\ UNCHANGED storeVars
    BY <1>4, <2>1, RestartStep DEF Fatal
  <2>3. QED
    BY <2>2, MentionsFrame DEF TypeInv, storeVars, StoreTypeOK
<1>5. CASE UNCHANGED vars
  <2>1. UNCHANGED <<scrapeVars, mishaps>> /\ UNCHANGED storeVars /\ UNCHANGED summaryVars
    BY <1>5 DEF vars
  <2>2. StoreTypeOK' /\ SummaryTypeOK' /\ MentionsOnce'
    BY <2>1, MentionsFrame DEF TypeInv, storeVars, summaryVars, StoreTypeOK, SummaryTypeOK
  <2>3. QED
    BY <2>1, <2>2, ScrapeFrame DEF TypeInv
<1>6. QED
  BY <1>1, <1>2, <1>3, <1>4, <1>5 DEF Next

\* The variables of both jobs and the tables keep their types.
THEOREM TypeCorrect == Spec => []TypeOK
<1>1. TypeInv => TypeOK
  BY DEF TypeInv, TypeOK, ScrapeInv
<1>2. QED
  BY <1>1, InitInv, TypeStep, PTL DEF Spec

\* Whatever ends a goroutine, a panic or a restart included, the semaphore
\* holds one slot for each one at work, and no more than max_concurrent.
THEOREM SemaphoreIsExact == Spec => []SemaphoreExact
<1>1. TypeInv => SemaphoreExact
  BY DEF TypeInv, ScrapeInv, SlotInv
<1>2. QED
  BY <1>1, InitInv, TypeStep, PTL DEF Spec

\* The hash's uniqueness and the transaction leave the mentions of an item
\* inserted once, whoever stores it again.
THEOREM MentionsAreInsertedOnce == Spec => []MentionsOnce
<1>1. TypeInv => MentionsOnce
  BY DEF TypeInv
<1>2. QED
  BY <1>1, InitInv, TypeStep, PTL DEF Spec

\* Every query that a task finished has its result.
THEOREM QueriesAreAnswered == Spec => []QueriesAnswered
<1>1. TypeInv => QueriesAnswered
  BY DEF TypeInv, ScrapeInv, NoteInv
<1>2. QED
  BY <1>1, InitInv, TypeStep, PTL DEF Spec

-----------------------------------------------------------------------------
(* One summary of a list.                                                  *)

AtCall == [h \in Digest |-> {g \in Task \X Stock : step[g[1]][g[2]] = "call" /\ Hashed(g[1], g[2]) = h}]

\* Somebody is at a list, or was and stored its summary.
Taken == {h \in Digest : summaries[h] > 0 \/ AtCall[h] # {} \/ AtCreate[h] # {}}

\* A call that was made or will be is the first one, or excused.
CallsInv ==
  \A h \in Digest :
    /\ summaries[h] <= 1
    /\ calls[h] + Cardinality(AtCall[h]) <= excused[h] + IF h \in Taken THEN 1 ELSE 0

LEMMA AtCallFinite == \A h \in Digest : IsFiniteSet(AtCall[h]) /\ Cardinality(AtCall[h]) \in Nat
<1>1. IsFiniteSet(Task \X Stock)
  BY SummaryAssumption, FS_Product
<1>2. \A h \in Digest : AtCall[h] \in SUBSET (Task \X Stock)
  BY DEF AtCall
<1>3. \A h \in Digest : IsFiniteSet(AtCall[h])
  BY <1>1, <1>2, FS_Subset
<1>4. QED
  BY <1>3, FS_CardinalityType

LEMMA CallsInit == Init => CallsInv
<1> SUFFICES ASSUME Init PROVE CallsInv
  OBVIOUS
<1>1. \A h \in Digest : AtCall[h] = {}
  BY DEF Init, SummaryInit, AtCall
<1>2. \A h \in Digest : Cardinality(AtCall[h]) = 0
  BY <1>1, FS_EmptySet
<1>3. \A h \in Digest : calls[h] = 0 /\ excused[h] = 0 /\ summaries[h] = 0
  BY DEF Init, SummaryInit, StoreInit
<1>4. QED
  BY <1>2, <1>3 DEF CallsInv

\* Nobody comes to a call or leaves it, nor a summary about to be stored.
LEMMA CallsFrame ==
  ASSUME CallsInv, UNCHANGED <<summaries, calls, excused>>,
         \A h \in Digest : AtCall'[h] = AtCall[h] /\ AtCreate'[h] = AtCreate[h]
  PROVE  CallsInv'
BY DEF CallsInv, Taken

\* Nothing changes for other lists than the one at hand.
LEMMA CallsElsewhere ==
  ASSUME CallsInv, NEW d \in Digest,
         \A h \in Digest \ {d} :
           /\ AtCall'[h] = AtCall[h] /\ AtCreate'[h] = AtCreate[h]
           /\ UNCHANGED <<summaries[h], calls[h], excused[h]>>,
         /\ summaries'[d] <= 1
         /\ calls'[d] + Cardinality(AtCall'[d]) <= excused'[d] + IF d \in Taken' THEN 1 ELSE 0
  PROVE  CallsInv'
<1> SUFFICES ASSUME NEW h \in Digest
             PROVE  /\ summaries'[h] <= 1
                    /\ calls'[h] + Cardinality(AtCall'[h]) <= excused'[h] + IF h \in Taken' THEN 1 ELSE 0
  BY DEF CallsInv
<1>1. CASE h = d
  BY <1>1
<1>2. CASE h # d
  BY <1>2 DEF CallsInv, Taken
<1>3. QED
  BY <1>1, <1>2

\* A goroutine with another list, or none, is at no call and at no summary.
LEMMA Leaves ==
  ASSUME SummaryTypeOK, NEW t \in Task, NEW s \in Stock, NEW n \in SumStep \ {"call", "create"},
         GotoSum(t, s, n), NEW l \in List, list' = [list EXCEPT ![t][s] = l]
  PROVE  \A h \in Digest : /\ AtCall'[h] = AtCall[h] \ {<<t, s>>}
                           /\ AtCreate'[h] = AtCreate[h] \ {<<t, s>>}
<1>1. /\ step' = [step EXCEPT ![t] = [step[t] EXCEPT ![s] = n]]
      /\ list' = [list EXCEPT ![t] = [list[t] EXCEPT ![s] = l]]
  BY GotoTyped, ListTyped
<1>2. /\ \A g \in Task \X Stock : g # <<t, s>> =>
            /\ step'[g[1]][g[2]] = step[g[1]][g[2]]
            /\ list'[g[1]][g[2]] = list[g[1]][g[2]]
      /\ step'[t][s] = n
  BY <1>1 DEF SummaryTypeOK
<1>3. \A g \in Task \X Stock : g # <<t, s>> => Hashed(g[1], g[2])' = Hashed(g[1], g[2])
  BY <1>2 DEF Hashed
<1>4. QED
  BY <1>2, <1>3 DEF AtCall, AtCreate

\* One that keeps its list is where it goes.
LEMMA StaysOn ==
  ASSUME SummaryTypeOK, NEW t \in Task, NEW s \in Stock, NEW n \in {"call", "create"},
         GotoSum(t, s, n), UNCHANGED list
  PROVE  /\ \A g \in Task \X Stock : step'[g[1]][g[2]] = IF g = <<t, s>> THEN n ELSE step[g[1]][g[2]]
         /\ \A g \in Task \X Stock : Hashed(g[1], g[2])' = Hashed(g[1], g[2])
<1>1. step' = [step EXCEPT ![t] = [step[t] EXCEPT ![s] = n]]
  BY GotoTyped, SumSteps
<1>2. \A g \in Task \X Stock : step'[g[1]][g[2]] = IF g = <<t, s>> THEN n ELSE step[g[1]][g[2]]
  BY <1>1 DEF SummaryTypeOK
<1>3. \A g \in Task \X Stock : Hashed(g[1], g[2])' = Hashed(g[1], g[2])
  BY DEF Hashed
<1>4. QED
  BY <1>2, <1>3

LEMMA GoesToCall ==
  ASSUME SummaryTypeOK, NEW t \in Task, NEW s \in Stock, GotoSum(t, s, "call"), UNCHANGED list,
         NEW d \in Digest, d = Hashed(t, s)
  PROVE  /\ AtCall'[d] = AtCall[d] \cup {<<t, s>>}
         /\ \A h \in Digest \ {d} : AtCall'[h] = AtCall[h] \ {<<t, s>>}
         /\ \A h \in Digest : AtCreate'[h] = AtCreate[h] \ {<<t, s>>}
BY StaysOn DEF AtCall, AtCreate

LEMMA GoesToStore ==
  ASSUME SummaryTypeOK, NEW t \in Task, NEW s \in Stock, GotoSum(t, s, "create"), UNCHANGED list,
         NEW d \in Digest, d = Hashed(t, s)
  PROVE  /\ AtCreate'[d] = AtCreate[d] \cup {<<t, s>>}
         /\ \A h \in Digest \ {d} : AtCreate'[h] = AtCreate[h] \ {<<t, s>>}
         /\ \A h \in Digest : AtCall'[h] = AtCall[h] \ {<<t, s>>}
BY StaysOn DEF AtCall, AtCreate

\* Where a goroutine is not, and where it is.
LEMMA Elsewhere ==
  ASSUME NEW t \in Task, NEW s \in Stock, NEW h \in Digest
  PROVE  /\ <<t, s>> \in AtCall[h] <=> step[t][s] = "call" /\ Hashed(t, s) = h
         /\ <<t, s>> \in AtCreate[h] <=> step[t][s] = "create" /\ Hashed(t, s) = h
         /\ ~(step[t][s] = "call" /\ Hashed(t, s) = h) => AtCall[h] \ {<<t, s>>} = AtCall[h]
         /\ ~(step[t][s] = "create" /\ Hashed(t, s) = h) => AtCreate[h] \ {<<t, s>>} = AtCreate[h]
BY DEF AtCall, AtCreate

LEMMA CallsStep == TypeInv /\ CallsInv /\ [Next]_vars => CallsInv'
<1> SUFFICES ASSUME TypeInv, CallsInv, [Next]_vars PROVE CallsInv'
  OBVIOUS
<1>1. /\ SummaryTypeOK /\ StoreTypeOK
      /\ \A h \in Digest : summaries[h] \in Nat /\ calls[h] \in Nat /\ excused[h] \in Nat
  BY DEF TypeInv, SummaryTypeOK, StoreTypeOK
<1>2. ASSUME UNCHANGED <<summaries, step, list, calls, excused>> PROVE CallsInv'
  BY <1>2, CallsFrame DEF AtCall, AtCreate, Hashed
<1>3. CASE ScraperNext /\ UNCHANGED summaryVars
  <2>1. UNCHANGED summaries
    BY <1>3 DEF ScraperNext, Work, Scrape, Start, ScrapeExpires, Acquire, Fetch, FetchFails, Filter,
                FilterFails, Panic, Process, SkipItem, ProcessFails, Store, StoreFails, Finish,
                CreateIgnoreConflict, storeVars
  <2>2. QED
    BY <1>2, <1>3, <2>1 DEF summaryVars
<1>4. ASSUME NEW t \in Task, Summarise(t) PROVE CallsInv'
  <2>1. PICK S \in SUBSET StocksToSummarize :
          step' = [step EXCEPT ![t] = [s \in Stock |-> IF s \in S THEN "rank" ELSE "none"]]
    BY <1>4 DEF Summarise
  <2>2. \A s \in Stock : step[t][s] = "none"
    BY <1>4 DEF Summarise, Summarising
  <2>3. \A g \in Task \X Stock : \A p \in {"call", "create"} :
          step'[g[1]][g[2]] = p <=> step[g[1]][g[2]] = p
    BY <1>1, <2>1, <2>2 DEF SummaryTypeOK
  <2>4. UNCHANGED list
    BY <1>4 DEF Summarise
  <2>5. \A h \in Digest : AtCall'[h] = AtCall[h] /\ AtCreate'[h] = AtCreate[h]
    BY <2>3, <2>4 DEF AtCall, AtCreate, Hashed
  <2>6. QED
    BY <1>4, <2>5, CallsFrame DEF Summarise, storeVars
<1>5. ASSUME NEW t \in Task, NEW s \in Stock, step[t][s] \notin {"call", "create"}
      PROVE  \A h \in Digest : /\ <<t, s>> \notin AtCall[h] /\ AtCall[h] \ {<<t, s>>} = AtCall[h]
                               /\ <<t, s>> \notin AtCreate[h] /\ AtCreate[h] \ {<<t, s>>} = AtCreate[h]
  BY <1>5, Elsewhere
<1>6. ASSUME NEW t \in Task, NEW s \in Stock, LeaveSum(t, s)
      PROVE  \A h \in Digest : /\ AtCall'[h] = AtCall[h] \ {<<t, s>>}
                               /\ AtCreate'[h] = AtCreate[h] \ {<<t, s>>}
  <2>1. GotoSum(t, s, "none") /\ list' = [list EXCEPT ![t][s] = NoList]
    BY <1>6 DEF LeaveSum
  <2>2. "none" \in SumStep \ {"call", "create"}
    BY SumSteps
  <2>3. QED
    BY <1>1, <2>1, <2>2, Leaves, NoListTyped
<1>7. ASSUME NEW t \in Task, NEW s \in Stock, RankNews(t, s) PROVE CallsInv'
  <2>1. PICK l \in RankedNews(s) :
          /\ list' = [list EXCEPT ![t][s] = l]
          /\ GotoSum(t, s, IF l = NoList THEN "none" ELSE "get")
    BY <1>7 DEF RankNews
  <2>2. PICK n \in SumStep \ {"call", "create"} : GotoSum(t, s, n)
    BY <2>1, SumSteps
  <2>3. l \in List
    BY DEF RankedNews
  <2>4. \A h \in Digest : /\ AtCall'[h] = AtCall[h] \ {<<t, s>>}
                          /\ AtCreate'[h] = AtCreate[h] \ {<<t, s>>}
    BY <1>1, <2>1, <2>2, <2>3, Leaves
  <2>5. \A h \in Digest : AtCall'[h] = AtCall[h] /\ AtCreate'[h] = AtCreate[h]
    BY <1>5, <1>7, <2>4 DEF RankNews
  <2>6. QED
    BY <1>7, <2>5, CallsFrame DEF RankNews, storeVars
<1>8. ASSUME NEW t \in Task, NEW s \in Stock, GetSummary(t, s) PROVE CallsInv'
  <2>0. step[t][s] = "get" /\ UNCHANGED <<summaries, calls>>
    BY <1>8 DEF GetSummary, storeVars
  <2>1. CASE LeaveSum(t, s) /\ UNCHANGED excused
    <3>1. \A h \in Digest : AtCall'[h] = AtCall[h] /\ AtCreate'[h] = AtCreate[h]
      <4>1. \A h \in Digest : /\ AtCall'[h] = AtCall[h] \ {<<t, s>>}
                              /\ AtCreate'[h] = AtCreate[h] \ {<<t, s>>}
        BY <1>6, <2>1
      <4>2. \A h \in Digest : /\ AtCall[h] \ {<<t, s>>} = AtCall[h]
                              /\ AtCreate[h] \ {<<t, s>>} = AtCreate[h]
        BY <1>5, <2>0
      <4>3. QED
        BY <4>1, <4>2
    <3>2. QED
      BY <2>0, <2>1, <3>1, CallsFrame
  <2>2. CASE /\ summaries[Hashed(t, s)] <= 0 /\ GotoSum(t, s, "call") /\ UNCHANGED list
             /\ excused' = [excused EXCEPT ![Hashed(t, s)] = @ + IF Doubled(t, s) THEN 1 ELSE 0]
    <3> DEFINE d == Hashed(t, s)
    <3>1. d \in Digest
      BY <1>1, HashedTyped
    <3>2. /\ AtCall'[d] = AtCall[d] \cup {<<t, s>>}
          /\ \A h \in Digest \ {d} : AtCall'[h] = AtCall[h] \ {<<t, s>>}
          /\ \A h \in Digest : AtCreate'[h] = AtCreate[h] \ {<<t, s>>}
      BY <1>1, <2>2, <3>1, GoesToCall
    <3>3. /\ \A h \in Digest \ {d} : AtCall'[h] = AtCall[h] /\ AtCreate'[h] = AtCreate[h]
          /\ AtCall'[d] = AtCall[d] \cup {<<t, s>>} /\ <<t, s>> \notin AtCall[d]
      BY <1>5, <2>0, <3>1, <3>2
    <3>4. Cardinality(AtCall'[d]) = Cardinality(AtCall[d]) + 1
      BY <3>1, <3>3, AtCallFinite, FS_AddElement
    <3>5. Doubled(t, s) \/ d \notin Taken
      <4>1. SUFFICES ASSUME d \in Taken PROVE Doubled(t, s)
        OBVIOUS
      <4>2. PICK g \in AtCall[d] \cup AtCreate[d] : TRUE
        BY <1>1, <2>2, <3>1, <4>1 DEF Taken
      <4>3. PICK u \in Task, r \in Stock : g = <<u, r>>
        BY <3>1, <4>2 DEF AtCall, AtCreate
      <4>4. step[u][r] \in {"call", "create"} /\ Hashed(u, r) = d
        BY <3>1, <4>2, <4>3 DEF AtCall, AtCreate
      <4>5. r = s
        BY <4>4 DEF Hashed
      <4>6. u # t
        BY <2>0, <4>4, <4>5
      <4>7. QED
        BY <4>4, <4>5, <4>6 DEF Doubled
    <3>6. excused'[d] = excused[d] + IF Doubled(t, s) THEN 1 ELSE 0
      BY <1>1, <2>2, <3>1 DEF SummaryTypeOK
    <3>7. d \in Taken'
      BY <3>1, <3>3 DEF Taken
    <3>8. Cardinality(AtCall[d]) \in Nat
      BY <3>1, AtCallFinite
    <3>9. calls[d] + Cardinality(AtCall[d]) <= excused[d] + IF d \in Taken THEN 1 ELSE 0
      BY <3>1 DEF CallsInv
    <3>10. calls'[d] + Cardinality(AtCall'[d]) <= excused'[d] + IF d \in Taken' THEN 1 ELSE 0
      <4>1. CASE Doubled(t, s)
        BY <1>1, <2>0, <3>1, <3>4, <3>6, <3>7, <3>8, <3>9, <4>1
      <4>2. CASE ~Doubled(t, s)
        BY <1>1, <2>0, <3>1, <3>4, <3>5, <3>6, <3>7, <3>8, <3>9, <4>2
      <4>3. QED
        BY <4>1, <4>2
    <3>11. \A h \in Digest \ {d} : excused'[h] = excused[h]
      BY <1>1, <2>2, <3>1 DEF SummaryTypeOK
    <3>12. summaries'[d] <= 1
      BY <2>0, <3>1 DEF CallsInv
    <3>13. QED
      BY <2>0, <3>1, <3>3, <3>10, <3>11, <3>12, CallsElsewhere
  <2>3. QED
    BY <1>1, <1>8, <2>1, <2>2, HashedTyped DEF GetSummary
<1>9. ASSUME NEW t \in Task, NEW s \in Stock, step[t][s] = "call"
      PROVE  /\ <<t, s>> \in AtCall[Hashed(t, s)]
             /\ \A h \in Digest : AtCreate[h] \ {<<t, s>>} = AtCreate[h]
  BY <1>1, <1>9, Elsewhere, HashedTyped
<1>10. ASSUME NEW t \in Task, NEW s \in Stock, step[t][s] = "create"
       PROVE  /\ <<t, s>> \in AtCreate[Hashed(t, s)]
              /\ \A h \in Digest : AtCall[h] \ {<<t, s>>} = AtCall[h]
  BY <1>1, <1>10, Elsewhere, HashedTyped
<1>11. ASSUME NEW t \in Task, NEW s \in Stock, NEW h \in Digest \ {Hashed(t, s)}
       PROVE  AtCall[h] \ {<<t, s>>} = AtCall[h] /\ AtCreate[h] \ {<<t, s>>} = AtCreate[h]
  BY Elsewhere
<1>12. ASSUME NEW t \in Task, NEW s \in Stock, CallModel(t, s) PROVE CallsInv'
  <2> DEFINE d == Hashed(t, s)
  <2>1. d \in Digest
    BY <1>1, HashedTyped
  <2>2. /\ step[t][s] = "call" /\ GotoSum(t, s, "create") /\ UNCHANGED <<list, summaries, excused>>
        /\ calls' = [calls EXCEPT ![d] = @ + 1]
    BY <1>12 DEF CallModel, storeVars
  <2>3. /\ AtCreate'[d] = AtCreate[d] \cup {<<t, s>>}
        /\ \A h \in Digest \ {d} : AtCreate'[h] = AtCreate[h] \ {<<t, s>>}
        /\ \A h \in Digest : AtCall'[h] = AtCall[h] \ {<<t, s>>}
    BY <1>1, <2>1, <2>2, GoesToStore
  <2>4. \A h \in Digest \ {d} : AtCall'[h] = AtCall[h] /\ AtCreate'[h] = AtCreate[h]
    <3> TAKE h \in Digest \ {d}
    <3>1. AtCall[h] \ {<<t, s>>} = AtCall[h] /\ AtCreate[h] \ {<<t, s>>} = AtCreate[h]
      BY <1>11
    <3>2. AtCall'[h] = AtCall[h] \ {<<t, s>>} /\ AtCreate'[h] = AtCreate[h] \ {<<t, s>>}
      BY <2>3
    <3>3. QED
      BY <3>1, <3>2
  <2>5. Cardinality(AtCall'[d]) = Cardinality(AtCall[d]) - 1
    BY <1>9, <2>1, <2>2, <2>3, AtCallFinite, FS_RemoveElement
  <2>6. d \in Taken /\ d \in Taken'
    BY <1>9, <2>1, <2>2, <2>3 DEF Taken
  <2>7. calls'[d] = calls[d] + 1 /\ \A h \in Digest \ {d} : calls'[h] = calls[h]
    BY <1>1, <2>1, <2>2 DEF SummaryTypeOK
  <2>8. calls[d] + Cardinality(AtCall[d]) <= excused[d] + 1 /\ Cardinality(AtCall[d]) \in Nat
    BY <2>1, <2>6, AtCallFinite DEF CallsInv
  <2>9. calls'[d] + Cardinality(AtCall'[d]) <= excused'[d] + IF d \in Taken' THEN 1 ELSE 0
    BY <1>1, <2>1, <2>2, <2>5, <2>6, <2>7, <2>8
  <2>10. summaries'[d] <= 1
    BY <2>1, <2>2 DEF CallsInv
  <2>11. QED
    BY <2>1, <2>2, <2>4, <2>7, <2>9, <2>10, CallsElsewhere
<1>13. ASSUME NEW t \in Task, NEW s \in Stock, StoreSummary(t, s) PROVE CallsInv'
  <2> DEFINE d == Hashed(t, s)
  <2>1. d \in Digest
    BY <1>1, HashedTyped
  <2>2. /\ step[t][s] = "create" /\ LeaveSum(t, s) /\ UNCHANGED <<calls, excused>>
        /\ \/ summaries[d] = 0 /\ summaries' = [summaries EXCEPT ![d] = 1]
           \/ summaries[d] > 0 /\ UNCHANGED summaries
    BY <1>13 DEF StoreSummary, CreateSummary
  <2>3. \A h \in Digest : /\ AtCall'[h] = AtCall[h]
                          /\ AtCreate'[h] = AtCreate[h] \ {<<t, s>>}
    <3>1. \A h \in Digest : /\ AtCall'[h] = AtCall[h] \ {<<t, s>>}
                            /\ AtCreate'[h] = AtCreate[h] \ {<<t, s>>}
      BY <1>6, <2>2
    <3>2. \A h \in Digest : AtCall[h] \ {<<t, s>>} = AtCall[h]
      BY <1>10, <2>2
    <3>3. QED
      BY <3>1, <3>2
  <2>4. \A h \in Digest \ {d} : AtCall'[h] = AtCall[h] /\ AtCreate'[h] = AtCreate[h]
    <3> TAKE h \in Digest \ {d}
    <3>1. AtCall[h] \ {<<t, s>>} = AtCall[h] /\ AtCreate[h] \ {<<t, s>>} = AtCreate[h]
      BY <1>11
    <3>2. AtCall'[h] = AtCall[h] /\ AtCreate'[h] = AtCreate[h] \ {<<t, s>>}
      BY <2>3
    <3>3. QED
      BY <3>1, <3>2
  <2>5. /\ summaries'[d] > 0 /\ summaries'[d] <= 1
        /\ \A h \in Digest \ {d} : summaries'[h] = summaries[h]
    BY <1>1, <2>1, <2>2 DEF CallsInv, StoreTypeOK
  <2>6. d \in Taken /\ d \in Taken'
    BY <1>10, <2>1, <2>2, <2>5 DEF Taken
  <2>7. calls'[d] + Cardinality(AtCall'[d]) <= excused'[d] + IF d \in Taken' THEN 1 ELSE 0
    BY <2>1, <2>2, <2>3, <2>6 DEF CallsInv
  <2>8. QED
    BY <2>1, <2>2, <2>4, <2>5, <2>7, CallsElsewhere
<1>14. ASSUME NEW t \in Task, NEW s \in Stock, SummaryFails(t, s) PROVE CallsInv'
  <2> DEFINE d == Hashed(t, s)
  <2>1. d \in Digest
    BY <1>1, HashedTyped
  <2>2. /\ step[t][s] \in {"get", "call", "create"} /\ LeaveSum(t, s) /\ UNCHANGED <<calls, summaries>>
        /\ excused' = [excused EXCEPT ![d] = @ + IF step[t][s] = "create" THEN 1 ELSE 0]
    BY <1>14 DEF SummaryFails, storeVars
  <2>3. \A h \in Digest : /\ AtCall'[h] = AtCall[h] \ {<<t, s>>}
                          /\ AtCreate'[h] = AtCreate[h] \ {<<t, s>>}
    BY <1>6, <2>2
  <2>4. \A h \in Digest \ {d} : AtCall'[h] = AtCall[h] /\ AtCreate'[h] = AtCreate[h]
    <3> TAKE h \in Digest \ {d}
    <3>1. AtCall[h] \ {<<t, s>>} = AtCall[h] /\ AtCreate[h] \ {<<t, s>>} = AtCreate[h]
      BY <1>11
    <3>2. AtCall'[h] = AtCall[h] \ {<<t, s>>} /\ AtCreate'[h] = AtCreate[h] \ {<<t, s>>}
      BY <2>3
    <3>3. QED
      BY <3>1, <3>2
  <2>5. /\ excused'[d] = excused[d] + IF step[t][s] = "create" THEN 1 ELSE 0
        /\ \A h \in Digest \ {d} : excused'[h] = excused[h]
    BY <1>1, <2>1, <2>2 DEF SummaryTypeOK
  <2>6. summaries'[d] <= 1
    BY <2>1, <2>2 DEF CallsInv
  <2>7. /\ calls[d] + Cardinality(AtCall[d]) <= excused[d] + IF d \in Taken THEN 1 ELSE 0
        /\ Cardinality(AtCall[d]) \in Nat
    BY <2>1, AtCallFinite DEF CallsInv
  <2>8. calls'[d] + Cardinality(AtCall'[d]) <= excused'[d] + IF d \in Taken' THEN 1 ELSE 0
    <3>1. CASE step[t][s] = "get"
      <4>1. AtCall'[d] = AtCall[d] /\ AtCreate'[d] = AtCreate[d] /\ excused'[d] = excused[d]
        <5>1. AtCall[d] \ {<<t, s>>} = AtCall[d] /\ AtCreate[d] \ {<<t, s>>} = AtCreate[d]
          BY <1>5, <2>1, <3>1
        <5>2. AtCall'[d] = AtCall[d] \ {<<t, s>>} /\ AtCreate'[d] = AtCreate[d] \ {<<t, s>>}
          BY <2>1, <2>3
        <5>3. excused'[d] = excused[d]
          BY <1>1, <2>1, <2>5, <3>1
        <5>4. QED
          BY <5>1, <5>2, <5>3
      <4>2. QED
        BY <2>1, <2>2, <2>7, <4>1 DEF Taken
    <3>2. CASE step[t][s] = "call"
      <4>1. Cardinality(AtCall'[d]) = Cardinality(AtCall[d]) - 1
        BY <1>9, <2>1, <2>3, <3>2, AtCallFinite, FS_RemoveElement
      <4>2. d \in Taken /\ excused'[d] = excused[d]
        <5>1. <<t, s>> \in AtCall[d] /\ step[t][s] # "create"
          BY <1>9, <3>2
        <5>2. QED
          BY <1>1, <2>1, <2>5, <5>1 DEF Taken
      <4>3. calls[d] + Cardinality(AtCall'[d]) <= excused[d]
        BY <1>1, <2>1, <2>7, <4>1, <4>2
      <4>4. Cardinality(AtCall'[d]) \in Int
        BY <2>7, <4>1
      <4>5. QED
        BY <1>1, <2>1, <2>2, <4>2, <4>3, <4>4
    <3>3. CASE step[t][s] = "create"
      <4>1. AtCall'[d] = AtCall[d] /\ excused'[d] = excused[d] + 1
        <5>1. AtCall[d] \ {<<t, s>>} = AtCall[d]
          BY <1>10, <2>1, <3>3
        <5>2. QED
          BY <1>1, <2>1, <2>3, <2>5, <3>3, <5>1
      <4>2. calls[d] + Cardinality(AtCall[d]) <= excused[d] + 1
        BY <1>1, <2>1, <2>7
      <4>3. QED
        BY <1>1, <2>1, <2>2, <2>7, <4>1, <4>2
    <3>4. QED
      BY <2>2, <3>1, <3>2, <3>3
  <2>9. QED
    BY <2>1, <2>2, <2>4, <2>5, <2>6, <2>8, CallsElsewhere
<1>15. ASSUME Restart PROVE CallsInv'
  <2>1. /\ \A h \in Digest : excused'[h] = excused[h] + Cardinality(AtCreate[h])
        /\ UNCHANGED <<summaries, calls>> /\ step' = [t \in Task |-> [s \in Stock |-> "none"]]
    BY <1>15 DEF Restart, AtCreate, storeVars
  <2>2. \A h \in Digest : AtCall'[h] = {}
    BY <2>1 DEF AtCall
  <2> SUFFICES ASSUME NEW h \in Digest
               PROVE  /\ summaries'[h] <= 1
                      /\ calls'[h] + Cardinality(AtCall'[h]) <= excused'[h] + IF h \in Taken' THEN 1 ELSE 0
    BY DEF CallsInv
  <2>3. /\ summaries[h] <= 1
        /\ calls[h] + Cardinality(AtCall[h]) <= excused[h] + IF h \in Taken THEN 1 ELSE 0
    BY DEF CallsInv
  <2>4. Cardinality(AtCall'[h]) = 0
    BY <2>2, FS_EmptySet
  <2>5. Cardinality(AtCall[h]) \in Nat /\ Cardinality(AtCreate[h]) \in Nat
    BY AtCallFinite, AtCreateFinite
  <2>6. /\ AtCall[h] # {} => Cardinality(AtCall[h]) # 0
        /\ AtCreate[h] # {} => Cardinality(AtCreate[h]) # 0
    BY AtCallFinite, AtCreateFinite, FS_EmptySet
  <2>7. calls[h] <= excused[h] + Cardinality(AtCreate[h]) + IF h \in Taken' THEN 1 ELSE 0
    <3>1. CASE summaries[h] > 0
      <4>1. h \in Taken'
        BY <2>1, <3>1 DEF Taken
      <4>2. QED
        BY <1>1, <2>3, <2>5, <4>1
    <3>2. CASE AtCall[h] # {} \/ AtCreate[h] # {}
      BY <1>1, <2>3, <2>5, <2>6, <3>2
    <3>3. CASE h \notin Taken
      BY <1>1, <2>3, <2>5, <3>3
    <3>4. QED
      BY <3>1, <3>2, <3>3 DEF Taken
  <2>8. QED
    BY <1>1, <2>1, <2>3, <2>4, <2>5, <2>7
<1>16. CASE UNCHANGED vars
  BY <1>2, <1>16 DEF vars, storeVars, summaryVars
<1>17. QED
  BY <1>3, <1>4, <1>7, <1>8, <1>12, <1>13, <1>14, <1>15, <1>16 DEF Next, Summary, Fails, Fatal

\* No list of news has two summaries, and the model is asked again for a list
\* only when two tasks were at it together or its summary was not stored.
THEOREM ListsAreSummarisedOnce == Spec => []SummarisedOnce
<1>1. TypeInv /\ CallsInv => SummarisedOnce
  <2> SUFFICES ASSUME TypeInv, CallsInv, NEW h \in Digest
               PROVE  summaries[h] <= 1 /\ calls[h] <= 1 + excused[h]
    BY DEF SummarisedOnce
  <2>1. calls[h] \in Nat /\ excused[h] \in Nat /\ Cardinality(AtCall[h]) \in Nat
    BY AtCallFinite DEF TypeInv, SummaryTypeOK
  <2>2. /\ summaries[h] <= 1
        /\ calls[h] + Cardinality(AtCall[h]) <= excused[h] + IF h \in Taken THEN 1 ELSE 0
    BY DEF CallsInv
  <2>3. QED
    BY <2>1, <2>2
<1>2. QED
  BY <1>1, InitInv, TypeStep, CallsInit, CallsStep, PTL DEF Spec
=============================================================================
