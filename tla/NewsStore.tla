------------------------------ MODULE NewsStore ------------------------------
(***************************************************************************)
(* Tables stock_news, stock_mentions and stock_news_summary                *)
(* (migrations/000002, 000003, 000009) and the queries of                  *)
(* stock_news_repository.go and stock_news_summary_repository.go.          *)
(*                                                                         *)
(* A news item is identified by what its hash is made of, the link and the *)
(* time of publication; hashes do not collide.                             *)
(***************************************************************************)
EXTENDS Integers, FiniteSets, Functions

CONSTANTS Item,       \* feed items
          Stock,      \* stock codes
          Mentioned,  \* stocks the model finds mentioned in an item
          MinNews,    \* min_to_summarize_news
          MaxEach     \* max_news_each_stock

ASSUME NewsAssumption ==
  /\ Mentioned \in [Item -> SUBSET Stock]
  /\ MinNews \in Nat /\ MaxEach \in Nat

VARIABLES news,       \* hashes in stock_news
          mentions,   \* how often the mentions of an item were inserted
          summaries   \* rows of stock_news_summary with a hash

storeVars == <<news, mentions, summaries>>

\* time.Time.Format of the time of publication in the hash
Layout == {"RFC3339", "RFC1123"}
Hash == Item \X Layout

\* The news a summary is made of, in order, which its hash covers as well as
\* their stock
List == {l \in UNION {[1..n -> Item] : n \in 0..MaxEach} : IsInjective(l)}
Digest == Stock \X List

StoreTypeOK ==
  /\ news \subseteq Hash
  /\ mentions \in [Item -> Nat]
  /\ summaries \in [Digest -> Nat]

StoreInit ==
  /\ news = {}
  /\ mentions = [i \in Item |-> 0]
  /\ summaries = [h \in Digest |-> 0]

\* The hash processNewsItem stores
StoredHash(i) == <<i, "RFC3339">>

\* The hash filterExistingNewsItems looks for
FilterHash(i) == <<i, "RFC1123">>

Stored == {i \in Item : StoredHash(i) \in news}

\* Mutant of CreateIgnoreConflict: mentions are inserted in any case
CreateAnyway(i) ==
  /\ news' = news \cup {StoredHash(i)}
  /\ mentions' = [mentions EXCEPT ![i] = @ + 1]
  /\ UNCHANGED summaries

\* One transaction: ON CONFLICT DO NOTHING, and the mentions only with the row
CreateIgnoreConflict(i) ==
  /\ news' = news \cup {StoredHash(i)}
  /\ mentions' = [mentions EXCEPT ![i] = IF StoredHash(i) \in news THEN @ ELSE @ + 1]
  /\ UNCHANGED summaries

NewsOf(s) == {i \in Item : mentions[i] > 0 /\ s \in Mentioned[i]}

\* GetStocksToSummarize selects among these, by the age and the scores of the
\* news.
StocksToSummarize == {s \in Stock : Cardinality(NewsOf(s)) >= MinNews /\ NewsOf(s) # {}}

\* FindRankedNews: up to MaxEach of the news that are not too old by then, in
\* the order of their scores, which change with their age
RankedNews(s) == {l \in List : \A i \in DOMAIN l : l[i] \in NewsOf(s)}

\* The hash is UNIQUE.
CreateSummary(h) ==
  /\ summaries[h] = 0
  /\ summaries' = [summaries EXCEPT ![h] = 1]
=============================================================================
