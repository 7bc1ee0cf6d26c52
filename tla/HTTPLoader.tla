----------------------------- MODULE HTTPLoader -----------------------------
(***************************************************************************)
(* The polling HTTP loader: Loader.Run with its pagination, and            *)
(* SendSnapshot, which cuts the fetched list into chunks and sends them    *)
(* one by one over the discovery channel.                                  *)
(***************************************************************************)
EXTENDS DiscoveryChannel, SequencesExt

CONSTANTS
  URLs,            \* page addresses of the endpoint
  FirstURL,        \* spec.http.url
  NoNext,          \* a page that names no successor
  BadNext,         \* a page whose successor cannot be extracted or built
  Sources,         \* contents the endpoint may have: [URLs -> Page]
  ChunkSize,       \* --discovery-chunk-size
  MaxFetchErrors   \* bound on failing page requests while not cancelled

ASSUME ChunkAssumption == ChunkSize \in Nat \ {0} /\ MaxFetchErrors \in Nat
ASSUME FirstURLAssumption == FirstURL \in URLs
ASSUME SourcesAssumption ==
  Sources \subseteq [URLs -> [items : Seq(DiscoveredTarget),
                              next : URLs \cup {NoNext, BadNext}]]

VARIABLES
  source,          \* the endpoint: what each page currently answers
  loaderPC,        \* where Run is
  currentURL,      \* page to request next
  seen,            \* pages requested by this fetch
  allTargets,      \* targets collected by this fetch
  pending,         \* chunks of the snapshot being sent
  fetched,         \* history: the list each snapshot identifier stands for
  fetchErrors      \* failing requests so far

loaderVars == <<source, loaderPC, currentURL, seen, allTargets, pending,
                fetched, fetchErrors>>

LoaderPCs == {"start", "fetch", "send", "wait", "exited"}

LoaderTypeOK ==
  /\ source \in Sources
  /\ loaderPC \in LoaderPCs
  /\ currentURL \in URLs
  /\ seen \subseteq URLs
  /\ allTargets \in Seq(DiscoveredTarget)
  /\ pending \in Seq(DiscoverySnapshot)
  /\ fetched \in [IDs -> Seq(DiscoveredTarget)]
  /\ fetchErrors \in 0..MaxFetchErrors

LoaderInit ==
  /\ source \in Sources
  /\ loaderPC = "start"
  /\ currentURL = FirstURL
  /\ seen = {}
  /\ allTargets = <<>>
  /\ pending = <<>>
  /\ fetched = [id \in IDs |-> <<>>]
  /\ fetchErrors = 0

(***************************************************************************)
(* Chunking.                                                               *)
(***************************************************************************)
totalChunks(n) == (n + ChunkSize - 1) \div ChunkSize

\* Faulty variant of chunkOf: the slice ends one element early.
chunkOfShort(targets, k) ==
  LET first == k * ChunkSize + 1
      end == (k + 1) * ChunkSize - 1
  IN  SubSeq(targets, first, IF end > Len(targets) THEN Len(targets) ELSE end)

\* targets[i:end] of chunk number k, counted from 0
chunkOf(targets, k) ==
  LET first == k * ChunkSize + 1
      end == (k + 1) * ChunkSize
  IN  SubSeq(targets, first, IF end > Len(targets) THEN Len(targets) ELSE end)

createDiscoverySnapshots(targets, id) ==
  [k \in 1..totalChunks(Len(targets)) |->
     [type |-> "snapshot", id |-> id, index |-> k - 1,
      total |-> totalChunks(Len(targets)), targets |-> chunkOf(targets, k - 1)]]

\* The targets extracted from a page. The items of a page are what the
\* mapping rules make of the answer: an item that cannot be mapped is logged
\* and left out, as if the source did not list it.
extractTargetsFromResponse(page) == page.items

(***************************************************************************)
(* Actions.                                                                *)
(***************************************************************************)
\* currentURL, seen and allTargets are locals of one fetch: outside of a
\* fetch they hold the values the next one starts from.
FetchLocalsReset ==
  /\ currentURL' = FirstURL
  /\ seen' = {}
  /\ allTargets' = <<>>

\* Faulty variant of visited: requested pages are not remembered.
visitedForgotten(url) == seen

\* The pages not to be requested again once url was.
visited(url) == seen \cup {url}

\* The end of fetchTargetsFromHTTPEndpoint and the head of SendSnapshot: an
\* empty list is an error and nothing is sent; otherwise the list gets a new
\* identifier that no chunk in flight carries.
SendSnapshot(targets, id) ==
  /\ FetchLocalsReset
  /\ \/ /\ targets = <<>>
        /\ loaderPC' = "wait"
        /\ UNCHANGED <<pending, fetched>>
     \/ /\ targets # <<>>
        /\ loaderPC' = "send"
        /\ pending' = createDiscoverySnapshots(targets, id)
        /\ fetched' = [fetched EXCEPT ![id] = targets]

\* Run: a client that cannot be built or a missing interval ends the loader.
LoaderStartFails ==
  /\ loaderPC = "start"
  /\ loaderPC' = "exited"
  /\ UNCHANGED <<source, currentURL, seen, allTargets, pending, fetched,
                 fetchErrors, channel, ctxDone>>

LoaderStarts ==
  /\ loaderPC = "start"
  /\ loaderPC' = "fetch"
  /\ UNCHANGED <<source, currentURL, seen, allTargets, pending, fetched,
                 fetchErrors, channel, ctxDone>>

\* One page: request, extraction, next URL. Both ways the successor can fail
\* (extractNextPageInfo, buildNextURL) stop the loop without an error.
FetchPage(id) ==
  /\ loaderPC = "fetch"
  /\ currentURL \notin seen
  /\ ~ctxDone
  /\ LET page == source[currentURL]
         targets == allTargets \o extractTargetsFromResponse(page)
     IN  \/ /\ page.next \in URLs
            /\ currentURL' = page.next
            /\ seen' = visited(currentURL)
            /\ allTargets' = targets
            /\ UNCHANGED <<loaderPC, pending, fetched>>
         \/ /\ page.next \in {NoNext, BadNext}
            /\ SendSnapshot(targets, id)
  /\ UNCHANGED <<source, fetchErrors, channel, ctxDone>>

\* The page was requested before: the loop is cut and the list is sent.
PaginationLoop(id) ==
  /\ loaderPC = "fetch"
  /\ currentURL \in seen
  /\ SendSnapshot(allTargets, id)
  /\ UNCHANGED <<source, fetchErrors, channel, ctxDone>>

\* A failing request or an unusable answer drops the whole fetch. A request
\* under a cancelled context always fails.
FetchFails ==
  /\ loaderPC = "fetch"
  /\ currentURL \notin seen
  /\ \/ ctxDone /\ UNCHANGED fetchErrors
     \/ /\ ~ctxDone
        /\ fetchErrors < MaxFetchErrors
        /\ fetchErrors' = fetchErrors + 1
  /\ loaderPC' = "wait"
  /\ FetchLocalsReset
  /\ UNCHANGED <<source, pending, fetched, channel, ctxDone>>

SendChunk ==
  /\ loaderPC = "send"
  /\ sendMessages(<<Head(pending)>>)
  /\ pending' = Tail(pending)
  /\ loaderPC' = IF Len(pending) = 1 THEN "wait" ELSE "send"
  /\ UNCHANGED <<source, currentURL, seen, allTargets, fetched, fetchErrors,
                 ctxDone>>

\* Faulty variant of SendAborted: the context is looked at only when the
\* channel has room, after a plain blocking send.
SendAbortedLate ==
  /\ loaderPC = "send"
  /\ ctxDone
  /\ Len(channel) < BufferSize
  /\ pending' = <<>>
  /\ loaderPC' = "wait"
  /\ UNCHANGED <<source, currentURL, seen, allTargets, fetched, fetchErrors,
                 channel, ctxDone>>

\* The other case of the select in sendMessages: the rest is not sent.
SendAborted ==
  /\ loaderPC = "send"
  /\ ctxDone
  /\ pending' = <<>>
  /\ loaderPC' = "wait"
  /\ UNCHANGED <<source, currentURL, seen, allTargets, fetched, fetchErrors,
                 channel, ctxDone>>

Tick ==
  /\ loaderPC = "wait"
  /\ loaderPC' = "fetch"
  /\ UNCHANGED <<source, currentURL, seen, allTargets, pending, fetched,
                 fetchErrors, channel, ctxDone>>

LoaderStops ==
  /\ loaderPC = "wait"
  /\ ctxDone
  /\ loaderPC' = "exited"
  /\ UNCHANGED <<source, currentURL, seen, allTargets, pending, fetched,
                 fetchErrors, channel, ctxDone>>

\* External: the inventory behind the endpoint changes at any time, also
\* between two pages of one fetch.
SourceChanges ==
  /\ \E s \in Sources \ {source} : source' = s
  /\ UNCHANGED <<loaderPC, currentURL, seen, allTargets, pending, fetched,
                 fetchErrors, channel, ctxDone>>

\* Steps that do not draw an identifier, and the two that may.
LoaderStep ==
  \/ LoaderStartFails \/ LoaderStarts \/ FetchFails
  \/ SendChunk \/ SendAborted \/ Tick \/ LoaderStops

LoaderPage(id) == FetchPage(id) \/ PaginationLoop(id)

(***************************************************************************)
(* The loader on its own: somebody reads the channel, or does not, and the *)
(* context may be cancelled.                                               *)
(***************************************************************************)
loaderAloneVars == <<loaderVars, channel, ctxDone>>

ConsumerReceives ==
  /\ channel # <<>>
  /\ channel' = Tail(channel)
  /\ UNCHANGED <<loaderVars, ctxDone>>

ContextCancelled ==
  /\ ~ctxDone
  /\ ctxDone' = TRUE
  /\ UNCHANGED <<loaderVars, channel>>

LoaderGoroutine == LoaderStep \/ \E id \in IDs : LoaderPage(id)

LoaderAloneInit == channel = <<>> /\ ctxDone = FALSE /\ LoaderInit

LoaderAloneNext ==
  LoaderGoroutine \/ SourceChanges \/ ConsumerReceives \/ ContextCancelled

\* The goroutine keeps running and select does not pass over a done context
\* for ever; nothing is assumed of the consumer or of the source.
LoaderAloneSpec ==
  /\ LoaderAloneInit
  /\ [][LoaderAloneNext]_loaderAloneVars
  /\ WF_loaderAloneVars(LoaderGoroutine)
  /\ SF_loaderAloneVars(LoaderStops)

LoaderAloneTypeOK == ChannelTypeOK /\ LoaderTypeOK

\* What a receiver can rely on: from the first chunk not yet sent to the last
\* the indices are consecutive up to the announced total, no chunk is empty
\* or larger than the chunk size, and the targets of the chunks, put one
\* after the other, are the tail of the fetched list that the chunks already
\* sent have left: nothing is lost, repeated or reordered by the chunking.
ChunksReassemble ==
  loaderPC = "send" =>
    LET list == fetched[pending[1].id]
        rest == FlattenSeq([i \in 1..Len(pending) |-> pending[i].targets])
    IN  /\ \A i \in 1..Len(pending) :
             /\ pending[i].index = pending[1].index + i - 1
             /\ pending[i].total = pending[1].index + Len(pending)
             /\ Len(pending[i].targets) \in 1..ChunkSize
        /\ IsSuffix(rest, list)
        /\ Len(list) = Len(rest) + pending[1].index * ChunkSize

\* The chunks still to be sent are the last ones of a fetched list, in order.
Remaining ==
  \E id \in IDs :
    LET chunks == createDiscoverySnapshots(fetched[id], id)
    IN  \E m \in 0..(Len(chunks) - 1) :
          /\ Len(pending) = Len(chunks) - m
          /\ \A i \in 1..Len(pending) : pending[i] = chunks[m + i]

\* The inductive invariant behind ChunksReassemble: there are chunks to send
\* exactly while the loader is sending, and they are the remaining ones.
ChunksInv ==
  /\ LoaderAloneTypeOK
  /\ loaderPC = "send" <=> pending # <<>>
  /\ loaderPC = "send" => Remaining

\* A fetch ends although pages may point back at each other and the source
\* may change its links between two requests: no page is requested twice.
PaginationTerminates == loaderPC = "fetch" ~> loaderPC # "fetch"

\* "The loader must stop cleanly when ctx is canceled", also when it is
\* blocked on a full channel that nobody reads any more.
LoaderStopsOnCancel == ctxDone ~> loaderPC = "exited"

=============================================================================
