----------------------------- MODULE FeedFetcher -----------------------------
(***************************************************************************)
(* The RSS worker of the monolith (internal/worker): every minute it reads *)
(* the feeds that were fetched longest ago, works on them concurrently and *)
(* waits for all of them.  A feed whose download, saving or marking fails  *)
(* keeps its old last_fetched_at.                                          *)
(***************************************************************************)
EXTENDS Integers, Sequences, FiniteSets, SequencesExt

CONSTANTS
    Feeds,
    Broken,       \* feeds whose download never succeeds
    Urls,         \* links of feed items
    Invalid,      \* an item without title, link or readable date
    Documents,    \* what a download can return: sequences of items
    Concurrency   \* feeds of one batch

ASSUME BrokenAssumption == Broken \subseteq Feeds
ASSUME InvalidAssumption == Invalid \notin Urls
ASSUME DocumentsAssumption == Documents \subseteq Seq(Urls \union {Invalid})
ASSUME ConcurrencyAssumption == Concurrency \in Nat \ {0}

VARIABLES
    queue,     \* the feeds table in the order last_fetched_at NULLS FIRST, id
    fetched,   \* feeds whose last_fetched_at is set
    batch,     \* feeds the last GetNextFeedsToFetch returned
    job,       \* per feed: what the goroutine of the batch is about to do
    marked,    \* feeds of the batch that have been marked as fetched
    posts,     \* urls of the posts table
    passed     \* history: <<f, g>>, f was marked after g was last in a batch

vars == <<queue, fetched, batch, job, marked, posts, passed>>

NoJob == [phase |-> "none"]
Downloading == [phase |-> "download"]
Jobs == {NoJob, Downloading} \union
        [phase : {"items"}, doc : Documents, next : Nat \ {0}]

Known == Range(queue)
Busy == {f \in Feeds : job[f] # NoJob}

Init ==
    /\ queue = <<>>
    /\ fetched = {}
    /\ batch = {}
    /\ job = [f \in Feeds |-> NoJob]
    /\ marked = {}
    /\ posts = {}
    /\ passed = {}

-----------------------------------------------------------------------------

\* A new feed has no last_fetched_at and a random id: it comes somewhere among
\* the feeds that were never fetched.
AddFeed(f) ==
    /\ f \notin Known
    /\ \E i \in 1..(Len(queue) + 1) :
          /\ \A k \in 1..(i - 1) : queue[k] \notin fetched
          /\ queue' = InsertAt(queue, i, f)
    /\ UNCHANGED <<fetched, batch, job, marked, posts, passed>>

FirstOf(s) == {s[i] : i \in {k \in DOMAIN s : k <= Concurrency}}

\* Mutant: PostgreSQL's default, NULLS LAST.
NullsLast == FirstOf(SelectSeq(queue, LAMBDA f : f \in fetched)
                     \o SelectSeq(queue, LAMBDA f : f \notin fetched))

NextFeeds == FirstOf(queue)

\* Mutant: the next batch does not wait for the goroutines of the last one.
StartUnawaited ==
    /\ Known # {}
    /\ batch' = NextFeeds
    /\ job' = [f \in Feeds |-> IF f \in NextFeeds THEN Downloading ELSE job[f]]
    /\ marked' = {}
    /\ passed' = {p \in passed : p[2] \notin NextFeeds}
    /\ UNCHANGED <<queue, fetched, posts>>

\* The ticker fires, the query succeeds, one goroutine starts per feed.
StartBatch ==
    /\ Busy = {}                             \* wg.Wait
    /\ Known # {}
    /\ batch' = NextFeeds
    /\ job' = [f \in Feeds |-> IF f \in NextFeeds THEN Downloading ELSE job[f]]
    /\ marked' = {}
    /\ passed' = {p \in passed : p[2] \notin NextFeeds}
    /\ UNCHANGED <<queue, fetched, posts>>

Download(f) ==
    /\ f \notin Broken
    /\ job[f] = Downloading
    /\ \E d \in Documents :
          job' = [job EXCEPT ![f] = [phase |-> "items", doc |-> d, next |-> 1]]
    /\ UNCHANGED <<queue, fetched, batch, marked, posts, passed>>

Item(f) == job[f].doc[job[f].next]
HasItem(f) == job[f].phase = "items" /\ job[f].next <= Len(job[f].doc)

\* SavePost inserts the post or finds its url stored.
SaveItem(f) ==
    /\ HasItem(f)
    /\ Item(f) # Invalid
    /\ posts' = posts \union {Item(f)}
    /\ job' = [job EXCEPT ![f].next = @ + 1]
    /\ UNCHANGED <<queue, fetched, batch, marked, passed>>

\* Mutant: one item that cannot be used spoils the whole feed.
AbortOnInvalid(f) ==
    /\ HasItem(f)
    /\ Item(f) = Invalid
    /\ job' = [job EXCEPT ![f] = NoJob]
    /\ UNCHANGED <<queue, fetched, batch, marked, posts, passed>>

SkipItem(f) ==
    /\ HasItem(f)
    /\ Item(f) = Invalid
    /\ job' = [job EXCEPT ![f].next = @ + 1]
    /\ UNCHANGED <<queue, fetched, batch, marked, posts, passed>>

\* MarkFeedFetched, the last step.  Goroutines read the clock before their
\* UPDATE: the feeds marked in one batch can end up in either order.
Mark(f) ==
    /\ job[f].phase = "items"
    /\ ~HasItem(f)
    /\ \E p \in DOMAIN queue :
          /\ queue[p] = f
          /\ LET others == RemoveAt(queue, p)
             IN \E i \in 1..(Len(others) + 1) :
                   /\ \A k \in i..Len(others) : others[k] \in marked
                   /\ queue' = InsertAt(others, i, f)
    /\ fetched' = fetched \union {f}
    /\ marked' = marked \union {f}
    /\ passed' = passed \union {<<f, g>> : g \in Known \ batch}
    /\ job' = [job EXCEPT ![f] = NoJob]
    /\ UNCHANGED <<batch, posts>>

\* Mutant: an item that could not be saved is logged and passed over.
PassOver(f) ==
    \/ /\ HasItem(f)
       /\ job' = [job EXCEPT ![f].next = @ + 1]
       /\ UNCHANGED <<queue, fetched, batch, marked, posts, passed>>
    \/ /\ job[f] = Downloading
       /\ job' = [job EXCEPT ![f] = NoJob]
       /\ UNCHANGED <<queue, fetched, batch, marked, posts, passed>>

\* The download, the reading of the document, SavePost or MarkFeedFetched
\* fails: scrapeFeed returns the error at once.
GiveUp(f) ==
    /\ job[f] # NoJob
    /\ job' = [job EXCEPT ![f] = NoJob]
    /\ UNCHANGED <<queue, fetched, batch, marked, posts, passed>>

\* The process stops; it starts again with a new batch.
Stop ==
    /\ Busy # {}
    /\ job' = [f \in Feeds |-> NoJob]
    /\ UNCHANGED <<queue, fetched, batch, marked, posts, passed>>

-----------------------------------------------------------------------------

ScrapeFeed(f) ==
    Download(f) \/ SaveItem(f) \/ SkipItem(f) \/ Mark(f) \/ GiveUp(f)

Next ==
    \/ \E f \in Feeds : AddFeed(f) \/ ScrapeFeed(f)
    \/ StartBatch
    \/ Stop

Spec == Init /\ [][Next]_vars

(***************************************************************************)
(* The ticker fires for ever and every step of a goroutine ends: requests  *)
(* have a timeout.  A feed that is not broken is downloaded, saved and     *)
(* marked when this is tried again and again.                              *)
(***************************************************************************)
Fairness ==
    /\ WF_vars(StartBatch)
    /\ \A f \in Feeds : WF_vars(ScrapeFeed(f))
    /\ \A f \in Feeds \ Broken :
          /\ SF_vars(Download(f))
          /\ \A url \in Urls : SF_vars(HasItem(f) /\ Item(f) = url /\ SaveItem(f))
          /\ SF_vars(SkipItem(f))
          /\ SF_vars(Mark(f))

FairSpec == Spec /\ Fairness

-----------------------------------------------------------------------------
(* Properties.                                                             *)

\* The table is one row per feed, those never fetched first; goroutines work
\* on feeds of the batch only, at most Concurrency of them.
TypeOK ==
    /\ queue \in Seq(Feeds)
    /\ \A i, k \in DOMAIN queue : i < k =>
          /\ queue[i] # queue[k]
          /\ queue[i] \in fetched => queue[k] \in fetched
    /\ fetched \subseteq Known
    /\ batch \subseteq Known
    /\ Cardinality(batch) <= Concurrency
    /\ job \in [Feeds -> Jobs]
    /\ Busy \subseteq batch \ marked
    /\ marked \subseteq batch \intersect fetched
    /\ posts \subseteq Urls
    /\ passed \subseteq Feeds \X Feeds

\* No feed is fetched twice while another one waits for its turn, whatever
\* fails or stops in between: last_fetched_at makes the batches take turns.
OvertakenOnce ==
    [][\A f \in marked' \ marked : \A g \in Feeds : <<f, g>> \notin passed]_vars

\* A feed gets its last_fetched_at only when every usable item of the document
\* is stored; a document saved in part is fetched again.
FetchedMeansSaved ==
    [][\A f \in marked' \ marked :
          \A i \in DOMAIN job[f].doc : job[f].doc[i] \in posts \union {Invalid}]_vars

\* Every feed that can be downloaded is fetched again and again (README: the
\* service collects the posts of the feeds automatically).
HealthyFeedsServed ==
    \A f \in Feeds \ Broken : f \in Known ~> f \in marked

=============================================================================
