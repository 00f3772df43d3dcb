------------------------- MODULE EmailSync_proofs --------------------------
(***************************************************************************)
(* The inductive invariant of EmailSync and the theorems it gives: the     *)
(* cursor is never ahead of the mail, and a checkpoint is the current      *)
(* backfill's, for any mailbox, either list order, any number of workers,  *)
(* and any arrivals, deletions, expiries and crashes.                      *)
(***************************************************************************)
EXTENDS EmailSync, TLAPS

\* A worker that answers a push works for one that is stored.
TasksAreStored ==
    \A w \in Workers :
        /\ task[w] \in Pushes => task[w] \in inbox
        /\ pc[w] \in Pulling \cup {"stamping"} => task[w] \in Pushes

\* The provider has answered nothing from the future.
PagesAreBounded ==
    \A w \in Workers :
        /\ page[w].ids \subseteq 1..head /\ page[w].upTo <= head
        /\ pc[w] \in {"pulling", "applying"} => from[w] \in Nat

Typed == TypeOK /\ TasksAreStored /\ PagesAreBounded

\* TypeOK, of the rows and of the workers.
RowTypes ==
    /\ head \in 0..MaxHead /\ oldest \in 0..head /\ deleted \subseteq 1..MaxHead
    /\ status \in SyncStatus /\ linked \in BOOLEAN
    /\ cursor \in 0..head \cup {NoCursor}
    /\ checkpoint \in Nat \cup {NoToken}
    /\ stored \subseteq 1..head /\ inbox \subseteq 1..head /\ processed \subseteq inbox
    /\ events \in 0..MaxEvents
    /\ late \subseteq 1..head /\ overlapped \in BOOLEAN /\ dropped \subseteq inbox
    /\ skipped \subseteq 1..head
PlaceTypes ==
    /\ pc \in [Workers -> PCs]
    /\ task \in [Workers -> Pushes \cup {Callback, Recovery}]
HandTypes ==
    /\ from \in [Workers -> Nat \cup {NoCursor, NoToken}]
    /\ page \in [Workers -> Pages]

\* One backfill at a time, unless history says otherwise; the mailbox waits for it.
OneWalk ==
    ~ overlapped =>
        /\ \A v, w \in Workers : pc[v] \in Walking /\ pc[w] \in Walking => v = w
        /\ \A w \in Workers : pc[w] \in Walking => status \in {"BACKFILLING", "RESYNC"}

WalkInv == OneWalk /\ CheckpointIsOfThisBackfill

\* What the checkpoint has left behind is covered, and the walk goes on from there.
CheckpointCovers ==
    (~ overlapped /\ checkpoint # NoToken) =>
        \A m \in Live : ~ Before(checkpoint, m) => m \in stored \cup late
Resumes ==
    ~ overlapped =>
        \A w \in Workers : pc[w] \in {"listing", "profiling", "committing"} => from[w] = checkpoint

\* With the page that was listed, so is all that its successor leaves behind ...
ListedCovers ==
    ~ overlapped =>
        \A w \in Workers :
            (pc[w] = "profiling" \/ (pc[w] = "committing" /\ page[w].next # NoToken)) =>
                \A m \in Live :
                    (page[w].next = NoToken \/ ~ Before(page[w].next, m)) =>
                        m \in stored \cup late \cup page[w].ids

\* ... and with the last page, all up to the history id read after it.
LastCovers ==
    ~ overlapped =>
        \A w \in Workers :
            (pc[w] = "committing" /\ page[w].next = NoToken) =>
                (1..page[w].upTo) \ deleted \subseteq stored \cup late \cup page[w].ids

\* What a pull has read of the cursor is covered, and its page begins there.
PullCovers ==
    \A w \in Workers :
        /\ ~ overlapped /\ pc[w] \in {"pulling", "applying"} =>
              (1..from[w]) \ deleted \subseteq stored \cup late \cup skipped
        /\ pc[w] = "applying" /\ (~ Gmail \/ ~ page[w].more) =>
              (from[w] + 1..page[w].upTo) \ deleted \subseteq page[w].ids

\* A push that is answered for: its message is stored or excepted.
Answered(n) == n \in dropped \cup stored \cup deleted \cup late \cup skipped

\* The last page a push asks for reaches it, and it is stamped with that page applied.
PushIsReached ==
    \A w \in Workers :
        task[w] \in Pushes =>
            /\ pc[w] = "applying" /\ ~ page[w].more => task[w] <= page[w].upTo
            /\ pc[w] = "committing" => task[w] <= page[w].upTo
StampsAreAnswered ==
    ~ overlapped => \A w \in Workers : pc[w] = "stamping" => Answered(task[w])

PushInv == PushIsReached /\ StampsAreAnswered /\ StampedPushIsStored
CoverInv == CheckpointCovers /\ Resumes /\ ListedCovers /\ LastCovers /\ PullCovers /\ CursorCovers

IInv == Typed /\ WalkInv /\ CoverInv /\ PushInv

-----------------------------------------------------------------------------
(* Constants and vocabulary *)

LEMMA Kinds ==
    /\ NoCursor \notin Nat /\ NoToken \notin Nat
    /\ MaxHead \in Nat /\ MaxHead # 0 /\ MaxEvents \in Nat
    /\ Callback \notin Pushes /\ Recovery \notin Pushes
    /\ NoPage \in Pages
BY SyncAssumption DEF Callback, Recovery, Pushes, NoPage, Pages

\* Only two statuses lead to LIVE from a backfill, and only LIVE leads to RESYNC.
LEMMA Transitions ==
    ASSUME NEW f \in SyncStatus
    PROVE  /\ IsLegalTransition(f, "AUTHORIZING") => f \notin {"BACKFILLING", "RESYNC"}
           /\ IsLegalTransition(f, "RESYNC") => f = "LIVE"
BY DEF IsLegalTransition, Allowed, SyncStatus

-----------------------------------------------------------------------------
(* Steps *)

LEMMA Split == TypeOK <=> RowTypes /\ PlaceTypes /\ HandTypes
BY DEF TypeOK, RowTypes, PlaceTypes, HandTypes

\* The page a worker holds.
LEMMA Held ==
    ASSUME RowTypes, HandTypes, PagesAreBounded, NEW w \in Workers
    PROVE  /\ page[w] \in Pages
           /\ page[w].ids \subseteq 1..head /\ page[w].upTo \in 0..head
           /\ page[w].next \in Nat \cup {NoToken}
BY DEF HandTypes, PagesAreBounded, Pages, RowTypes

\* A page of messages.list leaves nothing out before its token.
LEMMA ListedPage ==
    ASSUME RowTypes, HandTypes, NEW w \in Workers, ListMessages(w)
    PROVE  \E p \in Pages :
              /\ page' = [page EXCEPT ![w] = p]
              /\ p.upTo = 0 /\ p.ids \subseteq Live
              /\ \A m \in Listable(from[w]) :
                    (p.next = NoToken \/ ~ Before(p.next, m)) => m \in p.ids
<1> DEFINE rest == Listable(from[w])
<1>1. Live \subseteq 1..MaxHead /\ rest \subseteq Live
  BY Kinds DEF Live, Listable, RowTypes
<1>2. CASE rest = {} /\ page' = [page EXCEPT ![w] = NoPage]
  BY <1>1, <1>2, Kinds DEF NoPage
<1>3. CASE \E last \in rest :
              LET ids == {m \in rest : m = last \/ Before(m, last)}
              IN page' = [page EXCEPT ![w] =
                    [ids |-> ids, next |-> IF ids = rest THEN NoToken ELSE last,
                     upTo |-> 0, more |-> FALSE]]
  <2> HIDE DEF rest
  <2> DEFINE ids(last) == {m \in rest : m = last \/ Before(m, last)}
             next(last) == IF ids(last) = rest THEN NoToken ELSE last
             p(last) == [ids |-> ids(last), next |-> next(last), upTo |-> 0, more |-> FALSE]
  <2>1. PICK last \in rest : page' = [page EXCEPT ![w] = p(last)]
    BY <1>3
  <2>2. last \in Nat /\ ids(last) \subseteq 1..MaxHead /\ ids(last) \subseteq Live
    <3>1. ids(last) \subseteq rest
      OBVIOUS
    <3>2. last \in 1..MaxHead
      BY <2>1, <1>1
    <3>3. last \in Nat
      BY <3>2, Kinds
    <3> HIDE DEF ids
    <3> QED
      BY <3>1, <3>3, <1>1
  <2>3. next(last) \in Nat \cup {NoToken}
    BY <2>2
  <2>4. \A m \in rest : (next(last) = NoToken \/ ~ Before(next(last), m)) => m \in ids(last)
    BY <1>1, <2>2, Kinds DEF Before
  <2> HIDE DEF ids, next
  <2>5. p(last) \in Pages
    BY <2>2, <2>3 DEF Pages
  <2>6. p(last).upTo = 0 /\ p(last).next = next(last) /\ p(last).ids = ids(last)
    OBVIOUS
  <2> HIDE DEF p
  <2> QED
    BY <2>1, <2>2, <2>4, <2>5, <2>6 DEF rest
<1> QED
  BY <1>2, <1>3 DEF ListMessages

\* A page of history.list holds all that was added from the cursor to its end, but for what is
\* gone; its history id is at its end, unless it has a successor and the provider is Gmail.
LEMMA HistoryPage ==
    ASSUME RowTypes, PagesAreBounded, HandTypes, NEW w \in Workers, ListHistory(w)
    PROVE  \/ page' = page /\ pc' = [pc EXCEPT ![w] = "expiring"]
           \/ /\ pc' = [pc EXCEPT ![w] = "applying"]
              /\ \E p \in Pages :
                    /\ page' = [page EXCEPT ![w] = p]
                    /\ p.upTo \in 0..head /\ p.ids \subseteq 1..head
                    /\ (~ Gmail \/ ~ p.more) => p.ids = (from[w] + 1..p.upTo) \ deleted
                    /\ ~ p.more => p.upTo = head
<1> DEFINE upTo(last) == IF Gmail THEN head ELSE last
           p(last) == [ids |-> (from[w] + 1..last) \ deleted, next |-> NoToken,
                       upTo |-> upTo(last), more |-> last < head]
<1>1. CASE from[w] < oldest /\ Goto(w, "expiring")
  BY <1>1 DEF Goto
<1>2. CASE /\ \E last \in from[w]..head : page' = [page EXCEPT ![w] = p(last)]
           /\ pc' = [pc EXCEPT ![w] = "applying"]
  <2>1. from[w] \in Nat /\ head \in 0..MaxHead
    BY DEF ListHistory, PagesAreBounded, RowTypes
  <2>2. PICK last \in from[w]..head : page' = [page EXCEPT ![w] = p(last)]
    BY <1>2
  <2>3. last \in 0..head /\ (from[w] + 1..last) \ deleted \subseteq 1..head
    BY <2>1, <2>2, Kinds
  <2>4. (from[w] + 1..last) \ deleted \subseteq 1..MaxHead /\ last \in Nat
    BY <2>1, <2>3, Kinds
  <2>5. upTo(last) \in 0..head /\ upTo(last) \in Nat /\ (~ Gmail => upTo(last) = last)
    BY <2>1, <2>3, <2>4
  <2>6. ~ (last < head) => last = head /\ upTo(last) = head
    BY <2>1, <2>3, <2>4
  <2> HIDE DEF upTo
  <2>7. p(last) \in Pages
    BY <2>4, <2>5, Kinds DEF Pages
  <2>8. /\ p(last).upTo = upTo(last) /\ p(last).ids = (from[w] + 1..last) \ deleted
        /\ p(last).more = (last < head)
    OBVIOUS
  <2> HIDE DEF p
  <2>9. ~ p(last).more => last = head /\ p(last).upTo = head
    BY <2>6, <2>8
  <2>10. (~ Gmail \/ ~ p(last).more) => p(last).ids = (from[w] + 1..p(last).upTo) \ deleted
    BY <2>5, <2>8, <2>9
  <2>11. p(last).upTo \in 0..head /\ p(last).ids \subseteq 1..head
    BY <2>3, <2>5, <2>8
  <2> QED
    BY <1>2, <2>2, <2>7, <2>9, <2>10, <2>11
<1> QED
  BY <1>1, <1>2 DEF ListHistory

\* What a page leaves behind has arrived; a page of the contract leaves nothing.
LEMMA Behind ==
    ASSUME RowTypes, HandTypes, PagesAreBounded, NEW w \in Workers, pc[w] = "applying"
    PROVE  LeftBehind(w) \subseteq 1..head
<1>1. page[w].upTo \in 0..head /\ from[w] \in Nat /\ head \in Nat
  BY Held, Kinds DEF PagesAreBounded, RowTypes
<1> QED
  BY <1>1 DEF LeftBehind

\* Types; what workers hold is of the past.
LEMMA TypedStep ==
    ASSUME RowTypes, PlaceTypes, HandTypes, TasksAreStored, PagesAreBounded, [Next]_vars
    PROVE  (RowTypes /\ PlaceTypes /\ HandTypes /\ TasksAreStored /\ PagesAreBounded)'
<1> USE DEF mailbox, account, rows, worker, history
<1>1. ASSUME Arrive PROVE (RowTypes /\ PlaceTypes /\ HandTypes /\ TasksAreStored /\ PagesAreBounded)'
  <2>1. RowTypes'
    BY Kinds, <1>1 DEF Arrive, RowTypes, PagesAreBounded, TasksAreStored, HandTypes, PlaceTypes, SyncStatus, Pulling, Pages, NoPage
  <2>2. PlaceTypes'
    BY Kinds, <1>1 DEF Arrive, PlaceTypes, PCs, Walking, Pulling
  <2>3. HandTypes'
    BY Kinds, <1>1 DEF Arrive, HandTypes, RowTypes, PagesAreBounded, Pages, NoPage, Live, Listable
  <2>4. TasksAreStored'
    BY Kinds, <1>1 DEF Arrive, TasksAreStored, PlaceTypes, Pulling, Walking, PCs
  <2>5. PagesAreBounded'
    BY Kinds, <1>1 DEF Arrive, PagesAreBounded, HandTypes, PlaceTypes, RowTypes, Pages, NoPage, Live, Listable
  <2> QED
    BY <2>1, <2>2, <2>3, <2>4, <2>5
<1>2. ASSUME ExpireHistory PROVE (RowTypes /\ PlaceTypes /\ HandTypes /\ TasksAreStored /\ PagesAreBounded)'
  <2>1. RowTypes'
    BY Kinds, <1>2 DEF ExpireHistory, Happens, RowTypes, PagesAreBounded, TasksAreStored, HandTypes, PlaceTypes, SyncStatus, Pulling, Pages, NoPage
  <2>2. PlaceTypes'
    BY Kinds, <1>2 DEF ExpireHistory, Happens, PlaceTypes, PCs, Walking, Pulling
  <2>3. HandTypes'
    BY Kinds, <1>2 DEF ExpireHistory, Happens, HandTypes, RowTypes, PagesAreBounded, Pages, NoPage, Live, Listable
  <2>4. TasksAreStored'
    BY Kinds, <1>2 DEF ExpireHistory, Happens, TasksAreStored, PlaceTypes, Pulling, Walking, PCs
  <2>5. PagesAreBounded'
    BY Kinds, <1>2 DEF ExpireHistory, Happens, PagesAreBounded, HandTypes, PlaceTypes, RowTypes, Pages, NoPage, Live, Listable
  <2> QED
    BY <2>1, <2>2, <2>3, <2>4, <2>5
<1>3. ASSUME StartLinking PROVE (RowTypes /\ PlaceTypes /\ HandTypes /\ TasksAreStored /\ PagesAreBounded)'
  <2>1. RowTypes'
    BY Kinds, <1>3 DEF StartLinking, RowTypes, PagesAreBounded, TasksAreStored, HandTypes, PlaceTypes, SyncStatus, Pulling, Pages, NoPage
  <2>2. PlaceTypes'
    BY Kinds, <1>3 DEF StartLinking, PlaceTypes, PCs, Walking, Pulling
  <2>3. HandTypes'
    BY Kinds, <1>3 DEF StartLinking, HandTypes, RowTypes, PagesAreBounded, Pages, NoPage, Live, Listable
  <2>4. TasksAreStored'
    BY Kinds, <1>3 DEF StartLinking, TasksAreStored, PlaceTypes, Pulling, Walking, PCs
  <2>5. PagesAreBounded'
    BY Kinds, <1>3 DEF StartLinking, PagesAreBounded, HandTypes, PlaceTypes, RowTypes, Pages, NoPage, Live, Listable
  <2> QED
    BY <2>1, <2>2, <2>3, <2>4, <2>5
<1>4. ASSUME NEW m \in 1..MaxHead, DeleteMessage(m) PROVE (RowTypes /\ PlaceTypes /\ HandTypes /\ TasksAreStored /\ PagesAreBounded)'
  <2>1. RowTypes'
    BY Kinds, <1>4 DEF DeleteMessage, Happens, RowTypes, PagesAreBounded, TasksAreStored, HandTypes, PlaceTypes, SyncStatus, Pulling, Pages, NoPage
  <2>2. PlaceTypes'
    BY Kinds, <1>4 DEF DeleteMessage, Happens, PlaceTypes, PCs, Walking, Pulling
  <2>3. HandTypes'
    BY Kinds, <1>4 DEF DeleteMessage, Happens, HandTypes, RowTypes, PagesAreBounded, Pages, NoPage, Live, Listable
  <2>4. TasksAreStored'
    BY Kinds, <1>4 DEF DeleteMessage, Happens, TasksAreStored, PlaceTypes, Pulling, Walking, PCs
  <2>5. PagesAreBounded'
    BY Kinds, <1>4 DEF DeleteMessage, Happens, PagesAreBounded, HandTypes, PlaceTypes, RowTypes, Pages, NoPage, Live, Listable
  <2> QED
    BY <2>1, <2>2, <2>3, <2>4, <2>5
<1>5. ASSUME NEW m \in 1..MaxHead, PersistGmailPush(m) PROVE (RowTypes /\ PlaceTypes /\ HandTypes /\ TasksAreStored /\ PagesAreBounded)'
  <2>1. RowTypes'
    BY Kinds, <1>5 DEF PersistGmailPush, RowTypes, PagesAreBounded, TasksAreStored, HandTypes, PlaceTypes, SyncStatus, Pulling, Pages, NoPage
  <2>2. PlaceTypes'
    BY Kinds, <1>5 DEF PersistGmailPush, PlaceTypes, PCs, Walking, Pulling
  <2>3. HandTypes'
    BY Kinds, <1>5 DEF PersistGmailPush, HandTypes, RowTypes, PagesAreBounded, Pages, NoPage, Live, Listable
  <2>4. TasksAreStored'
    BY Kinds, <1>5 DEF PersistGmailPush, TasksAreStored, PlaceTypes, Pulling, Walking, PCs
  <2>5. PagesAreBounded'
    BY Kinds, <1>5 DEF PersistGmailPush, PagesAreBounded, HandTypes, PlaceTypes, RowTypes, Pages, NoPage, Live, Listable
  <2> QED
    BY <2>1, <2>2, <2>3, <2>4, <2>5
<1>6. ASSUME NEW w \in Workers, CompleteLinking(w) PROVE (RowTypes /\ PlaceTypes /\ HandTypes /\ TasksAreStored /\ PagesAreBounded)'
  <2>1. RowTypes'
    BY Kinds, <1>6 DEF CompleteLinking, EnterBackfill, RowTypes, PagesAreBounded, TasksAreStored, HandTypes, PlaceTypes, SyncStatus, Pulling, Pages, NoPage
  <2>2. PlaceTypes'
    BY Kinds, <1>6 DEF CompleteLinking, EnterBackfill, PlaceTypes, PCs, Walking, Pulling
  <2>3. HandTypes'
    BY Kinds, <1>6 DEF CompleteLinking, EnterBackfill, HandTypes, RowTypes
  <2>4. TasksAreStored'
    BY Kinds, <1>6 DEF CompleteLinking, EnterBackfill, TasksAreStored, PlaceTypes, Pulling, Walking, PCs
  <2>5. PagesAreBounded'
    BY Kinds, <1>6 DEF CompleteLinking, EnterBackfill, PagesAreBounded, HandTypes, PlaceTypes, RowTypes, Pages, NoPage, Live, Listable
  <2> QED
    BY <2>1, <2>2, <2>3, <2>4, <2>5
<1>7. ASSUME NEW w \in Workers, LoadCheckpoint(w) PROVE (RowTypes /\ PlaceTypes /\ HandTypes /\ TasksAreStored /\ PagesAreBounded)'
  <2>1. RowTypes'
    BY Kinds, <1>7 DEF LoadCheckpoint, RowTypes, PagesAreBounded, TasksAreStored, HandTypes, PlaceTypes, SyncStatus, Pulling, Pages, NoPage
  <2>2. PlaceTypes'
    BY Kinds, <1>7 DEF LoadCheckpoint, PlaceTypes, PCs, Walking, Pulling
  <2>3. HandTypes'
    BY Kinds, <1>7 DEF LoadCheckpoint, HandTypes, RowTypes, PagesAreBounded, Pages, NoPage, Live, Listable
  <2>4. TasksAreStored'
    BY Kinds, <1>7 DEF LoadCheckpoint, TasksAreStored, PlaceTypes, Pulling, Walking, PCs
  <2>5. PagesAreBounded'
    BY Kinds, <1>7 DEF LoadCheckpoint, PagesAreBounded, HandTypes, PlaceTypes, RowTypes, Pages, NoPage, Live, Listable
  <2> QED
    BY <2>1, <2>2, <2>3, <2>4, <2>5
<1>8. ASSUME NEW w \in Workers, ListMessages(w) PROVE (RowTypes /\ PlaceTypes /\ HandTypes /\ TasksAreStored /\ PagesAreBounded)'
  <2>1. RowTypes'
    BY Kinds, <1>8 DEF ListMessages, RowTypes, PagesAreBounded, TasksAreStored, HandTypes, PlaceTypes, SyncStatus, Pulling, Pages, NoPage
  <2>2. PlaceTypes'
    BY Kinds, <1>8 DEF ListMessages, PlaceTypes, PCs, Walking, Pulling
  <2>3. HandTypes'
    BY Kinds, ListedPage, <1>8 DEF ListMessages, HandTypes
  <2>4. TasksAreStored'
    BY Kinds, <1>8 DEF ListMessages, TasksAreStored, PlaceTypes, Pulling, Walking, PCs
  <2>5. PagesAreBounded'
    <3>1. PICK p \in Pages : page' = [page EXCEPT ![w] = p] /\ p.upTo = 0 /\ p.ids \subseteq Live
      BY <1>8, ListedPage
    <3>2. p.ids \subseteq 1..head /\ p.upTo <= head
      BY <3>1, Kinds DEF Live, RowTypes
    <3> QED
      BY <1>8, <3>1, <3>2 DEF ListMessages, PagesAreBounded, HandTypes
  <2> QED
    BY <2>1, <2>2, <2>3, <2>4, <2>5
<1>9. ASSUME NEW w \in Workers, ReadProfile(w) PROVE (RowTypes /\ PlaceTypes /\ HandTypes /\ TasksAreStored /\ PagesAreBounded)'
  <2>1. RowTypes'
    BY Kinds, <1>9 DEF ReadProfile, RowTypes, PagesAreBounded, TasksAreStored, HandTypes, PlaceTypes, SyncStatus, Pulling, Pages, NoPage
  <2>2. PlaceTypes'
    BY Kinds, <1>9 DEF ReadProfile, PlaceTypes, PCs, Walking, Pulling
  <2>3. HandTypes'
    BY Kinds, <1>9 DEF ReadProfile, HandTypes, RowTypes, PagesAreBounded, Pages, NoPage, Live, Listable
  <2>4. TasksAreStored'
    BY Kinds, <1>9 DEF ReadProfile, TasksAreStored, PlaceTypes, Pulling, Walking, PCs
  <2>5. PagesAreBounded'
    BY Kinds, <1>9 DEF ReadProfile, PagesAreBounded, HandTypes, PlaceTypes, RowTypes, Pages, NoPage, Live, Listable
  <2> QED
    BY <2>1, <2>2, <2>3, <2>4, <2>5
<1>10. ASSUME NEW w \in Workers, FetchFails(w) PROVE (RowTypes /\ PlaceTypes /\ HandTypes /\ TasksAreStored /\ PagesAreBounded)'
  <2>1. RowTypes'
    BY Kinds, <1>10 DEF FetchFails, Stop, RowTypes, PagesAreBounded, TasksAreStored, HandTypes, PlaceTypes, SyncStatus, Pulling, Pages, NoPage
  <2>2. PlaceTypes'
    BY Kinds, <1>10 DEF FetchFails, Stop, PlaceTypes, PCs, Walking, Pulling
  <2>3. HandTypes'
    BY Kinds, <1>10 DEF FetchFails, Stop, HandTypes, RowTypes
  <2>4. TasksAreStored'
    BY Kinds, <1>10 DEF FetchFails, Stop, TasksAreStored, PlaceTypes, Pulling, Walking, PCs
  <2>5. PagesAreBounded'
    BY Kinds, <1>10 DEF FetchFails, Stop, PagesAreBounded, HandTypes, PlaceTypes, RowTypes, Pages, NoPage, Live, Listable
  <2> QED
    BY <2>1, <2>2, <2>3, <2>4, <2>5
<1>11. ASSUME NEW w \in Workers, CommitPage(w) PROVE (RowTypes /\ PlaceTypes /\ HandTypes /\ TasksAreStored /\ PagesAreBounded)'
  <2>1. RowTypes'
    BY Kinds, <1>11 DEF CommitPage, RowTypes, PagesAreBounded, TasksAreStored, HandTypes, PlaceTypes, SyncStatus, Pulling, Pages, NoPage
  <2>2. PlaceTypes'
    BY Kinds, <1>11 DEF CommitPage, PlaceTypes, PCs, Walking, Pulling
  <2>3. HandTypes'
    BY Kinds, <1>11 DEF CommitPage, HandTypes, RowTypes, PagesAreBounded, Pages, NoPage, Live, Listable
  <2>4. TasksAreStored'
    BY Kinds, <1>11 DEF CommitPage, TasksAreStored, PlaceTypes, Pulling, Walking, PCs
  <2>5. PagesAreBounded'
    BY Kinds, <1>11 DEF CommitPage, PagesAreBounded, HandTypes, PlaceTypes, RowTypes, Pages, NoPage, Live, Listable
  <2> QED
    BY <2>1, <2>2, <2>3, <2>4, <2>5
<1>12. ASSUME NEW w \in Workers, CommitLastPage(w) PROVE (RowTypes /\ PlaceTypes /\ HandTypes /\ TasksAreStored /\ PagesAreBounded)'
  <2>1. RowTypes'
    BY Kinds, Held, <1>12 DEF CommitLastPage, Stop, Goto, RowTypes, SyncStatus
  <2>2. PlaceTypes'
    BY Kinds, <1>12 DEF CommitLastPage, Stop, Goto, PlaceTypes, PCs, Walking, Pulling
  <2>3. HandTypes'
    BY Kinds, <1>12 DEF CommitLastPage, Stop, Goto, HandTypes, RowTypes
  <2>4. TasksAreStored'
    BY Kinds, <1>12 DEF CommitLastPage, Stop, Goto, TasksAreStored, PlaceTypes, Pulling, Walking, PCs
  <2>5. PagesAreBounded'
    BY Kinds, <1>12 DEF CommitLastPage, Stop, Goto, PagesAreBounded, HandTypes, PlaceTypes, RowTypes, Pages, NoPage, Live, Listable
  <2> QED
    BY <2>1, <2>2, <2>3, <2>4, <2>5
<1>13. ASSUME NEW w \in Workers, RecoverResync(w) PROVE (RowTypes /\ PlaceTypes /\ HandTypes /\ TasksAreStored /\ PagesAreBounded)'
  <2>1. RowTypes'
    BY Kinds, <1>13 DEF RecoverResync, EnterBackfill, RowTypes, PagesAreBounded, TasksAreStored, HandTypes, PlaceTypes, SyncStatus, Pulling, Pages, NoPage
  <2>2. PlaceTypes'
    BY Kinds, <1>13 DEF RecoverResync, EnterBackfill, PlaceTypes, PCs, Walking, Pulling
  <2>3. HandTypes'
    BY Kinds, <1>13 DEF RecoverResync, EnterBackfill, HandTypes, RowTypes
  <2>4. TasksAreStored'
    BY Kinds, <1>13 DEF RecoverResync, EnterBackfill, TasksAreStored, PlaceTypes, Pulling, Walking, PCs
  <2>5. PagesAreBounded'
    BY Kinds, <1>13 DEF RecoverResync, EnterBackfill, PagesAreBounded, HandTypes, PlaceTypes, RowTypes, Pages, NoPage, Live, Listable
  <2> QED
    BY <2>1, <2>2, <2>3, <2>4, <2>5
<1>14. ASSUME NEW w \in Workers, LoadCursor(w) PROVE (RowTypes /\ PlaceTypes /\ HandTypes /\ TasksAreStored /\ PagesAreBounded)'
  <2>1. RowTypes'
    BY Kinds, <1>14 DEF LoadCursor, Stop, RowTypes, PagesAreBounded, TasksAreStored, HandTypes, PlaceTypes, SyncStatus, Pulling, Pages, NoPage
  <2>2. PlaceTypes'
    BY Kinds, <1>14 DEF LoadCursor, Stop, PlaceTypes, PCs, Walking, Pulling
  <2>3. HandTypes'
    BY Kinds, <1>14 DEF LoadCursor, Stop, HandTypes, RowTypes
  <2>4. TasksAreStored'
    BY Kinds, <1>14 DEF LoadCursor, Stop, TasksAreStored, PlaceTypes, Pulling, Walking, PCs
  <2>5. PagesAreBounded'
    BY Kinds, <1>14 DEF LoadCursor, Stop, PagesAreBounded, HandTypes, PlaceTypes, RowTypes, Pages, NoPage, Live, Listable
  <2> QED
    BY <2>1, <2>2, <2>3, <2>4, <2>5
<1>15. ASSUME NEW w \in Workers, ListHistory(w) PROVE (RowTypes /\ PlaceTypes /\ HandTypes /\ TasksAreStored /\ PagesAreBounded)'
  <2>1. RowTypes'
    BY Kinds, <1>15 DEF ListHistory, Goto, RowTypes, PagesAreBounded, TasksAreStored, HandTypes, PlaceTypes, SyncStatus, Pulling, Pages, NoPage
  <2>2. PlaceTypes'
    BY Kinds, <1>15 DEF ListHistory, Goto, PlaceTypes, PCs, Walking, Pulling
  <2>3. HandTypes'
    BY Kinds, HistoryPage, <1>15 DEF ListHistory, Goto, HandTypes, Goto
  <2>4. TasksAreStored'
    BY Kinds, <1>15 DEF ListHistory, Goto, TasksAreStored, PlaceTypes, Pulling, Walking, PCs
  <2>5. PagesAreBounded'
    <3>1. PICK p \in Pages :
              page' \in {page, [page EXCEPT ![w] = p]} /\ p.upTo \in 0..head /\ p.ids \subseteq 1..head
      BY <1>15, HistoryPage, Held
    <3>2. from' = from /\ head' = head /\ pc[w] = "pulling"
      BY <1>15 DEF ListHistory, Goto
    <3>3. \A v \in Workers : page'[v] = page[v] \/ page'[v] = p
      BY <3>1 DEF HandTypes
    <3>4. \A v \in Workers : page'[v].ids \subseteq 1..head /\ page'[v].upTo <= head
      BY <3>1, <3>3, Held DEF RowTypes
    <3>5. \A v \in Workers : pc'[v] \in {"pulling", "applying"} => pc[v] \in {"pulling", "applying"}
      BY <1>15, <3>2 DEF ListHistory, Goto, PlaceTypes
    <3> QED
      BY <3>2, <3>4, <3>5 DEF PagesAreBounded
  <2> QED
    BY <2>1, <2>2, <2>3, <2>4, <2>5
<1>16. ASSUME NEW w \in Workers, ApplyPage(w) PROVE (RowTypes /\ PlaceTypes /\ HandTypes /\ TasksAreStored /\ PagesAreBounded)'
  <2>1. RowTypes'
    BY Kinds, Held, Behind, <1>16 DEF ApplyPage, RowTypes, SyncStatus
  <2>2. PlaceTypes'
    BY Kinds, <1>16 DEF ApplyPage, PlaceTypes, PCs, Walking, Pulling
  <2>3. HandTypes'
    BY Kinds, <1>16 DEF ApplyPage, HandTypes, RowTypes, PagesAreBounded, Pages, NoPage, Live, Listable
  <2>4. TasksAreStored'
    BY Kinds, <1>16 DEF ApplyPage, TasksAreStored, PlaceTypes, Pulling, Walking, PCs
  <2>5. PagesAreBounded'
    BY Kinds, <1>16 DEF ApplyPage, PagesAreBounded, HandTypes, PlaceTypes, RowTypes, Pages, NoPage, Live, Listable
  <2> QED
    BY <2>1, <2>2, <2>3, <2>4, <2>5
<1>17. ASSUME NEW w \in Workers, StartResync(w) PROVE (RowTypes /\ PlaceTypes /\ HandTypes /\ TasksAreStored /\ PagesAreBounded)'
  <2>1. RowTypes'
    BY Kinds, <1>17 DEF StartResync, EnterBackfill, Stop, RowTypes, PagesAreBounded, TasksAreStored, HandTypes, PlaceTypes, SyncStatus, Pulling, Pages, NoPage
  <2>2. PlaceTypes'
    BY Kinds, <1>17 DEF StartResync, EnterBackfill, Stop, PlaceTypes, PCs, Walking, Pulling
  <2>3. HandTypes'
    BY Kinds, <1>17 DEF StartResync, EnterBackfill, Stop, HandTypes, RowTypes
  <2>4. TasksAreStored'
    BY Kinds, <1>17 DEF StartResync, EnterBackfill, Stop, TasksAreStored, PlaceTypes, Pulling, Walking, PCs
  <2>5. PagesAreBounded'
    BY Kinds, <1>17 DEF StartResync, EnterBackfill, Stop, PagesAreBounded, HandTypes, PlaceTypes, RowTypes, Pages, NoPage, Live, Listable
  <2> QED
    BY <2>1, <2>2, <2>3, <2>4, <2>5
<1>18. ASSUME NEW w \in Workers, Stamp(w) PROVE (RowTypes /\ PlaceTypes /\ HandTypes /\ TasksAreStored /\ PagesAreBounded)'
  <2>1. RowTypes'
    BY Kinds, <1>18 DEF Stamp, Stop, RowTypes, PagesAreBounded, TasksAreStored, HandTypes, PlaceTypes, SyncStatus, Pulling, Pages, NoPage
  <2>2. PlaceTypes'
    BY Kinds, <1>18 DEF Stamp, Stop, PlaceTypes, PCs, Walking, Pulling
  <2>3. HandTypes'
    BY Kinds, <1>18 DEF Stamp, Stop, HandTypes, RowTypes
  <2>4. TasksAreStored'
    BY Kinds, <1>18 DEF Stamp, Stop, TasksAreStored, PlaceTypes, Pulling, Walking, PCs
  <2>5. PagesAreBounded'
    BY Kinds, <1>18 DEF Stamp, Stop, PagesAreBounded, HandTypes, PlaceTypes, RowTypes, Pages, NoPage, Live, Listable
  <2> QED
    BY <2>1, <2>2, <2>3, <2>4, <2>5
<1>19. ASSUME NEW w \in Workers, Crash(w) PROVE (RowTypes /\ PlaceTypes /\ HandTypes /\ TasksAreStored /\ PagesAreBounded)'
  <2>1. RowTypes'
    BY Kinds, <1>19 DEF Crash, Stop, Happens, RowTypes, PagesAreBounded, TasksAreStored, HandTypes, PlaceTypes, SyncStatus, Pulling, Pages, NoPage
  <2>2. PlaceTypes'
    BY Kinds, <1>19 DEF Crash, Stop, Happens, PlaceTypes, PCs, Walking, Pulling
  <2>3. HandTypes'
    BY Kinds, <1>19 DEF Crash, Stop, Happens, HandTypes, RowTypes
  <2>4. TasksAreStored'
    BY Kinds, <1>19 DEF Crash, Stop, Happens, TasksAreStored, PlaceTypes, Pulling, Walking, PCs
  <2>5. PagesAreBounded'
    BY Kinds, <1>19 DEF Crash, Stop, Happens, PagesAreBounded, HandTypes, PlaceTypes, RowTypes, Pages, NoPage, Live, Listable
  <2> QED
    BY <2>1, <2>2, <2>3, <2>4, <2>5
<1>20. ASSUME NEW w \in Workers, NEW n \in Pushes, TakePush(w, n) PROVE (RowTypes /\ PlaceTypes /\ HandTypes /\ TasksAreStored /\ PagesAreBounded)'
  <2>1. RowTypes'
    BY Kinds, <1>20 DEF TakePush, RowTypes, PagesAreBounded, TasksAreStored, HandTypes, PlaceTypes, SyncStatus, Pulling, Pages, NoPage
  <2>2. PlaceTypes'
    BY Kinds, <1>20 DEF TakePush, PlaceTypes, PCs, Walking, Pulling
  <2>3. HandTypes'
    BY Kinds, <1>20 DEF TakePush, HandTypes
  <2>4. TasksAreStored'
    BY Kinds, <1>20 DEF TakePush, TasksAreStored, PlaceTypes, Pulling, Walking, PCs
  <2>5. PagesAreBounded'
    BY Kinds, <1>20 DEF TakePush, PagesAreBounded, HandTypes, PlaceTypes, RowTypes, Pages, NoPage, Live, Listable
  <2> QED
    BY <2>1, <2>2, <2>3, <2>4, <2>5
<1>21. CASE UNCHANGED vars
  BY <1>21 DEF vars, RowTypes, PlaceTypes, HandTypes, TasksAreStored, PagesAreBounded
<1> QED
  BY <1>1, <1>2, <1>3, <1>4, <1>5, <1>6, <1>7, <1>8, <1>9, <1>10, <1>11, <1>12, <1>13, <1>14, <1>15, <1>16, <1>17, <1>18, <1>19, <1>20, <1>21 DEF Next, Environment, Backfill, Pull

\* A second backfill is noticed; LIVE takes the checkpoint away.
LEMMA WalkStep ==
    ASSUME Typed, WalkInv, [Next]_vars
    PROVE  WalkInv'
<1> USE DEF WalkInv, OneWalk, CheckpointIsOfThisBackfill, Typed, TypeOK, Walking, Pulling, mailbox, account, rows, worker, history
<1>1. ASSUME Arrive PROVE WalkInv'
  BY Transitions, <1>1 DEF Arrive
<1>2. ASSUME ExpireHistory PROVE WalkInv'
  BY Transitions, <1>2 DEF ExpireHistory, Happens
<1>3. ASSUME StartLinking PROVE WalkInv'
  BY Transitions, <1>3 DEF StartLinking
<1>4. ASSUME NEW m \in 1..MaxHead, DeleteMessage(m) PROVE WalkInv'
  BY Transitions, <1>4 DEF DeleteMessage, Happens
<1>5. ASSUME NEW m \in 1..MaxHead, PersistGmailPush(m) PROVE WalkInv'
  BY Transitions, <1>5 DEF PersistGmailPush
<1>6. ASSUME NEW w \in Workers, CompleteLinking(w) PROVE WalkInv'
  BY Transitions, <1>6 DEF CompleteLinking, EnterBackfill
<1>7. ASSUME NEW w \in Workers, LoadCheckpoint(w) PROVE WalkInv'
  BY Transitions, <1>7 DEF LoadCheckpoint
<1>8. ASSUME NEW w \in Workers, ListMessages(w) PROVE WalkInv'
  BY Transitions, <1>8 DEF ListMessages
<1>9. ASSUME NEW w \in Workers, ReadProfile(w) PROVE WalkInv'
  BY Transitions, <1>9 DEF ReadProfile
<1>10. ASSUME NEW w \in Workers, FetchFails(w) PROVE WalkInv'
  BY Transitions, <1>10 DEF FetchFails, Stop
<1>11. ASSUME NEW w \in Workers, CommitPage(w) PROVE WalkInv'
  BY Transitions, <1>11 DEF CommitPage
<1>12. ASSUME NEW w \in Workers, CommitLastPage(w) PROVE WalkInv'
  BY Transitions, <1>12 DEF CommitLastPage, Stop, Goto
<1>13. ASSUME NEW w \in Workers, RecoverResync(w) PROVE WalkInv'
  BY Transitions, <1>13 DEF RecoverResync, EnterBackfill
<1>14. ASSUME NEW w \in Workers, LoadCursor(w) PROVE WalkInv'
  BY Transitions, <1>14 DEF LoadCursor, Stop
<1>15. ASSUME NEW w \in Workers, ListHistory(w) PROVE WalkInv'
  BY Transitions, <1>15 DEF ListHistory, Goto
<1>16. ASSUME NEW w \in Workers, ApplyPage(w) PROVE WalkInv'
  BY Transitions, <1>16 DEF ApplyPage
<1>17. ASSUME NEW w \in Workers, StartResync(w) PROVE WalkInv'
  BY Transitions, <1>17 DEF StartResync, EnterBackfill, Stop
<1>18. ASSUME NEW w \in Workers, Stamp(w) PROVE WalkInv'
  BY Transitions, <1>18 DEF Stamp, Stop
<1>19. ASSUME NEW w \in Workers, Crash(w) PROVE WalkInv'
  BY Transitions, <1>19 DEF Crash, Stop, Happens
<1>20. ASSUME NEW w \in Workers, NEW n \in Pushes, TakePush(w, n) PROVE WalkInv'
  BY Transitions, <1>20 DEF TakePush
<1>21. CASE UNCHANGED vars
  BY <1>21 DEF vars
<1> QED
  BY <1>1, <1>2, <1>3, <1>4, <1>5, <1>6, <1>7, <1>8, <1>9, <1>10, <1>11, <1>12, <1>13, <1>14, <1>15, <1>16, <1>17, <1>18, <1>19, <1>20, <1>21 DEF Next, Environment, Backfill, Pull

\* Every commit leaves the cursor and the checkpoint behind the mail.
LEMMA CoverStep ==
    ASSUME Typed, WalkInv, CoverInv, [Next]_vars
    PROVE  CoverInv'
<1> USE DEF CoverInv, mailbox, account, rows, worker, history
<1>1. ASSUME Arrive PROVE CoverInv'
  <2>1. CheckpointCovers'
    BY Kinds, <1>1 DEF Arrive, Typed, TypeOK, PagesAreBounded, CheckpointCovers, Live, Before, WalkOpen
  <2>2. Resumes'
    BY Kinds, <1>1 DEF Arrive, Typed, TypeOK, PagesAreBounded, Resumes
  <2>3. ListedCovers'
    BY Kinds, <1>1 DEF Arrive, Typed, TypeOK, PagesAreBounded, ListedCovers, Live, Before, WalkOpen
  <2>4. LastCovers'
    BY Kinds, <1>1 DEF Arrive, Typed, TypeOK, PagesAreBounded, LastCovers, Live
  <2>5. PullCovers'
    BY Kinds, <1>1 DEF Arrive, Typed, TypeOK, PagesAreBounded, PullCovers
  <2>6. CursorCovers'
    BY Kinds, <1>1 DEF Arrive, Typed, TypeOK, PagesAreBounded, CursorCovers
  <2> QED
    BY <2>1, <2>2, <2>3, <2>4, <2>5, <2>6
<1>2. ASSUME ExpireHistory PROVE CoverInv'
  <2>1. CheckpointCovers'
    BY Kinds, <1>2 DEF ExpireHistory, Happens, Typed, TypeOK, PagesAreBounded, CheckpointCovers, Live, Before
  <2>2. Resumes'
    BY Kinds, <1>2 DEF ExpireHistory, Happens, Typed, TypeOK, PagesAreBounded, Resumes
  <2>3. ListedCovers'
    BY Kinds, <1>2 DEF ExpireHistory, Happens, Typed, TypeOK, PagesAreBounded, ListedCovers, Live, Before
  <2>4. LastCovers'
    BY Kinds, <1>2 DEF ExpireHistory, Happens, Typed, TypeOK, PagesAreBounded, LastCovers, Live
  <2>5. PullCovers'
    BY Kinds, <1>2 DEF ExpireHistory, Happens, Typed, TypeOK, PagesAreBounded, PullCovers
  <2>6. CursorCovers'
    BY Kinds, <1>2 DEF ExpireHistory, Happens, Typed, TypeOK, PagesAreBounded, CursorCovers
  <2> QED
    BY <2>1, <2>2, <2>3, <2>4, <2>5, <2>6
<1>3. ASSUME StartLinking PROVE CoverInv'
  <2>1. CheckpointCovers'
    BY Kinds, <1>3 DEF StartLinking, Typed, TypeOK, PagesAreBounded, CheckpointCovers, Live, Before
  <2>2. Resumes'
    BY Kinds, <1>3 DEF StartLinking, Typed, TypeOK, PagesAreBounded, Resumes
  <2>3. ListedCovers'
    BY Kinds, <1>3 DEF StartLinking, Typed, TypeOK, PagesAreBounded, ListedCovers, Live, Before
  <2>4. LastCovers'
    BY Kinds, <1>3 DEF StartLinking, Typed, TypeOK, PagesAreBounded, LastCovers, Live
  <2>5. PullCovers'
    BY Kinds, <1>3 DEF StartLinking, Typed, TypeOK, PagesAreBounded, PullCovers
  <2>6. CursorCovers'
    BY Kinds, <1>3 DEF StartLinking, Typed, TypeOK, PagesAreBounded, CursorCovers
  <2> QED
    BY <2>1, <2>2, <2>3, <2>4, <2>5, <2>6
<1>4. ASSUME NEW m \in 1..MaxHead, DeleteMessage(m) PROVE CoverInv'
  <2>1. CheckpointCovers'
    BY Kinds, <1>4 DEF DeleteMessage, Happens, Typed, TypeOK, PagesAreBounded, CheckpointCovers, Live, Before
  <2>2. Resumes'
    BY Kinds, <1>4 DEF DeleteMessage, Happens, Typed, TypeOK, PagesAreBounded, Resumes
  <2>3. ListedCovers'
    BY Kinds, <1>4 DEF DeleteMessage, Happens, Typed, TypeOK, PagesAreBounded, ListedCovers, Live, Before
  <2>4. LastCovers'
    BY Kinds, <1>4 DEF DeleteMessage, Happens, Typed, TypeOK, PagesAreBounded, LastCovers, Live
  <2>5. PullCovers'
    BY Kinds, <1>4 DEF DeleteMessage, Happens, Typed, TypeOK, PagesAreBounded, PullCovers
  <2>6. CursorCovers'
    BY Kinds, <1>4 DEF DeleteMessage, Happens, Typed, TypeOK, PagesAreBounded, CursorCovers
  <2> QED
    BY <2>1, <2>2, <2>3, <2>4, <2>5, <2>6
<1>5. ASSUME NEW m \in 1..MaxHead, PersistGmailPush(m) PROVE CoverInv'
  <2>1. CheckpointCovers'
    BY Kinds, <1>5 DEF PersistGmailPush, Typed, TypeOK, PagesAreBounded, CheckpointCovers, Live, Before
  <2>2. Resumes'
    BY Kinds, <1>5 DEF PersistGmailPush, Typed, TypeOK, PagesAreBounded, Resumes
  <2>3. ListedCovers'
    BY Kinds, <1>5 DEF PersistGmailPush, Typed, TypeOK, PagesAreBounded, ListedCovers, Live, Before
  <2>4. LastCovers'
    BY Kinds, <1>5 DEF PersistGmailPush, Typed, TypeOK, PagesAreBounded, LastCovers, Live
  <2>5. PullCovers'
    BY Kinds, <1>5 DEF PersistGmailPush, Typed, TypeOK, PagesAreBounded, PullCovers
  <2>6. CursorCovers'
    BY Kinds, <1>5 DEF PersistGmailPush, Typed, TypeOK, PagesAreBounded, CursorCovers
  <2> QED
    BY <2>1, <2>2, <2>3, <2>4, <2>5, <2>6
<1>6. ASSUME NEW w \in Workers, CompleteLinking(w) PROVE CoverInv'
  <2>1. CheckpointCovers'
    BY Kinds, <1>6 DEF CompleteLinking, EnterBackfill, Typed, TypeOK, PagesAreBounded, CheckpointCovers, Live, Before
  <2>2. Resumes'
    BY Kinds, <1>6 DEF CompleteLinking, EnterBackfill, Typed, TypeOK, PagesAreBounded, Resumes
  <2>3. ListedCovers'
    BY Kinds, <1>6 DEF CompleteLinking, EnterBackfill, Typed, TypeOK, PagesAreBounded, ListedCovers, Live, Before
  <2>4. LastCovers'
    BY Kinds, <1>6 DEF CompleteLinking, EnterBackfill, Typed, TypeOK, PagesAreBounded, LastCovers, Live
  <2>5. PullCovers'
    BY Kinds, <1>6 DEF CompleteLinking, EnterBackfill, Typed, TypeOK, PagesAreBounded, PullCovers
  <2>6. CursorCovers'
    BY Kinds, <1>6 DEF CompleteLinking, EnterBackfill, Typed, TypeOK, PagesAreBounded, CursorCovers
  <2> QED
    BY <2>1, <2>2, <2>3, <2>4, <2>5, <2>6
<1>7. ASSUME NEW w \in Workers, LoadCheckpoint(w) PROVE CoverInv'
  <2>1. CheckpointCovers'
    BY Kinds, <1>7 DEF LoadCheckpoint, Typed, TypeOK, PagesAreBounded, CheckpointCovers, Live, Before
  <2>2. Resumes'
    BY Kinds, <1>7 DEF LoadCheckpoint, Typed, TypeOK, PagesAreBounded, Resumes
  <2>3. ListedCovers'
    BY Kinds, <1>7 DEF LoadCheckpoint, Typed, TypeOK, PagesAreBounded, ListedCovers, Live, Before
  <2>4. LastCovers'
    BY Kinds, <1>7 DEF LoadCheckpoint, Typed, TypeOK, PagesAreBounded, LastCovers, Live
  <2>5. PullCovers'
    BY Kinds, <1>7 DEF LoadCheckpoint, Typed, TypeOK, PagesAreBounded, PullCovers
  <2>6. CursorCovers'
    BY Kinds, <1>7 DEF LoadCheckpoint, Typed, TypeOK, PagesAreBounded, CursorCovers
  <2> QED
    BY <2>1, <2>2, <2>3, <2>4, <2>5, <2>6
<1>8. ASSUME NEW w \in Workers, ListMessages(w) PROVE CoverInv'
  <2>1. CheckpointCovers'
    BY Kinds, <1>8 DEF ListMessages, Typed, TypeOK, PagesAreBounded, CheckpointCovers, Live, Before
  <2>2. Resumes'
    BY Kinds, <1>8 DEF ListMessages, Typed, TypeOK, PagesAreBounded, Resumes
  <2>3. ListedCovers'
    <3>1. PICK p \in Pages :
              /\ page' = [page EXCEPT ![w] = p]
              /\ \A m \in Listable(from[w]) :
                    (p.next = NoToken \/ ~ Before(p.next, m)) => m \in p.ids
      BY <1>8, ListedPage, Split DEF Typed
    <3>2. ASSUME ~ overlapped, NEW m \in Live, p.next = NoToken \/ ~ Before(p.next, m)
          PROVE  m \in stored \cup late \cup p.ids
      <4>1. CASE m \in Listable(from[w])
        BY <4>1, <3>1, <3>2
      <4>2. CASE m \notin Listable(from[w])
        BY <4>2, <3>2, <1>8 DEF ListMessages, Listable, Resumes, CheckpointCovers
      <4> QED
        BY <4>1, <4>2
    <3>3. /\ overlapped' = overlapped /\ stored' = stored /\ late' = late /\ Live' = Live
          /\ \A token, m : Before(token, m)' = Before(token, m)
      BY <1>8 DEF ListMessages, Live, Before
    <3>4. page'[w] = p /\ \A v \in Workers \ {w} : page'[v] = page[v] /\ pc'[v] = pc[v]
      BY <1>8, <3>1 DEF ListMessages, Typed, TypeOK
    <3> QED
      BY <3>2, <3>3, <3>4 DEF ListedCovers, Before
  <2>4. LastCovers'
    BY Kinds, <1>8 DEF ListMessages, Typed, TypeOK, PagesAreBounded, LastCovers, Live
  <2>5. PullCovers'
    BY Kinds, <1>8 DEF ListMessages, Typed, TypeOK, PagesAreBounded, PullCovers
  <2>6. CursorCovers'
    BY Kinds, <1>8 DEF ListMessages, Typed, TypeOK, PagesAreBounded, CursorCovers
  <2> QED
    BY <2>1, <2>2, <2>3, <2>4, <2>5, <2>6
<1>9. ASSUME NEW w \in Workers, ReadProfile(w) PROVE CoverInv'
  <2>1. CheckpointCovers'
    BY Kinds, <1>9 DEF ReadProfile, Typed, TypeOK, PagesAreBounded, CheckpointCovers, Live, Before
  <2>2. Resumes'
    BY Kinds, <1>9 DEF ReadProfile, Typed, TypeOK, PagesAreBounded, Resumes
  <2>3. ListedCovers'
    BY Kinds, <1>9 DEF ReadProfile, Typed, TypeOK, PagesAreBounded, ListedCovers, Live, Before
  <2>4. LastCovers'
    BY Kinds, <1>9 DEF ReadProfile, Typed, TypeOK, PagesAreBounded, LastCovers, Live, ListedCovers
  <2>5. PullCovers'
    BY Kinds, <1>9 DEF ReadProfile, Typed, TypeOK, PagesAreBounded, PullCovers
  <2>6. CursorCovers'
    BY Kinds, <1>9 DEF ReadProfile, Typed, TypeOK, PagesAreBounded, CursorCovers
  <2> QED
    BY <2>1, <2>2, <2>3, <2>4, <2>5, <2>6
<1>10. ASSUME NEW w \in Workers, FetchFails(w) PROVE CoverInv'
  <2>1. CheckpointCovers'
    BY Kinds, <1>10 DEF FetchFails, Stop, Typed, TypeOK, PagesAreBounded, CheckpointCovers, Live, Before
  <2>2. Resumes'
    BY Kinds, <1>10 DEF FetchFails, Stop, Typed, TypeOK, PagesAreBounded, Resumes
  <2>3. ListedCovers'
    BY Kinds, <1>10 DEF FetchFails, Stop, Typed, TypeOK, PagesAreBounded, ListedCovers, Live, Before
  <2>4. LastCovers'
    BY Kinds, <1>10 DEF FetchFails, Stop, Typed, TypeOK, PagesAreBounded, LastCovers, Live
  <2>5. PullCovers'
    BY Kinds, <1>10 DEF FetchFails, Stop, Typed, TypeOK, PagesAreBounded, PullCovers
  <2>6. CursorCovers'
    BY Kinds, <1>10 DEF FetchFails, Stop, Typed, TypeOK, PagesAreBounded, CursorCovers
  <2> QED
    BY <2>1, <2>2, <2>3, <2>4, <2>5, <2>6
<1>11. ASSUME NEW w \in Workers, CommitPage(w) PROVE CoverInv'
  <2>1. CheckpointCovers'
    BY Kinds, <1>11 DEF CommitPage, Typed, TypeOK, PagesAreBounded, CheckpointCovers, Live, Before, ListedCovers
  <2>2. Resumes'
    BY Kinds, <1>11 DEF CommitPage, Typed, TypeOK, PagesAreBounded, Resumes, WalkInv, OneWalk, Walking
  <2>3. ListedCovers'
    BY Kinds, <1>11 DEF CommitPage, Typed, TypeOK, PagesAreBounded, ListedCovers, Live, Before
  <2>4. LastCovers'
    BY Kinds, <1>11 DEF CommitPage, Typed, TypeOK, PagesAreBounded, LastCovers, Live
  <2>5. PullCovers'
    BY Kinds, <1>11 DEF CommitPage, Typed, TypeOK, PagesAreBounded, PullCovers
  <2>6. CursorCovers'
    BY Kinds, <1>11 DEF CommitPage, Typed, TypeOK, PagesAreBounded, CursorCovers
  <2> QED
    BY <2>1, <2>2, <2>3, <2>4, <2>5, <2>6
<1>12. ASSUME NEW w \in Workers, CommitLastPage(w) PROVE CoverInv'
  <2>1. CheckpointCovers'
    BY Kinds, <1>12 DEF CommitLastPage, Stop, Goto, Typed, TypeOK, PagesAreBounded, CheckpointCovers, Live, Before
  <2>2. Resumes'
    BY Kinds, <1>12 DEF CommitLastPage, Stop, Goto, Typed, TypeOK, PagesAreBounded, Resumes, WalkInv, OneWalk, Walking
  <2>3. ListedCovers'
    BY Kinds, <1>12 DEF CommitLastPage, Stop, Goto, Typed, TypeOK, PagesAreBounded, ListedCovers, Live, Before
  <2>4. LastCovers'
    BY Kinds, <1>12 DEF CommitLastPage, Stop, Goto, Typed, TypeOK, PagesAreBounded, LastCovers, Live
  <2>5. PullCovers'
    BY Kinds, <1>12 DEF CommitLastPage, Stop, Goto, Typed, TypeOK, PagesAreBounded, PullCovers
  <2>6. CursorCovers'
    BY Kinds, <1>12 DEF CommitLastPage, Stop, Goto, Typed, TypeOK, PagesAreBounded, CursorCovers, LastCovers
  <2> QED
    BY <2>1, <2>2, <2>3, <2>4, <2>5, <2>6
<1>13. ASSUME NEW w \in Workers, RecoverResync(w) PROVE CoverInv'
  <2>1. CheckpointCovers'
    BY Kinds, <1>13 DEF RecoverResync, EnterBackfill, Typed, TypeOK, PagesAreBounded, CheckpointCovers, Live, Before
  <2>2. Resumes'
    BY Kinds, <1>13 DEF RecoverResync, EnterBackfill, Typed, TypeOK, PagesAreBounded, Resumes
  <2>3. ListedCovers'
    BY Kinds, <1>13 DEF RecoverResync, EnterBackfill, Typed, TypeOK, PagesAreBounded, ListedCovers, Live, Before
  <2>4. LastCovers'
    BY Kinds, <1>13 DEF RecoverResync, EnterBackfill, Typed, TypeOK, PagesAreBounded, LastCovers, Live
  <2>5. PullCovers'
    BY Kinds, <1>13 DEF RecoverResync, EnterBackfill, Typed, TypeOK, PagesAreBounded, PullCovers
  <2>6. CursorCovers'
    BY Kinds, <1>13 DEF RecoverResync, EnterBackfill, Typed, TypeOK, PagesAreBounded, CursorCovers
  <2> QED
    BY <2>1, <2>2, <2>3, <2>4, <2>5, <2>6
<1>14. ASSUME NEW w \in Workers, LoadCursor(w) PROVE CoverInv'
  <2>1. CheckpointCovers'
    BY Kinds, <1>14 DEF LoadCursor, Stop, Typed, TypeOK, PagesAreBounded, CheckpointCovers, Live, Before
  <2>2. Resumes'
    BY Kinds, <1>14 DEF LoadCursor, Stop, Typed, TypeOK, PagesAreBounded, Resumes
  <2>3. ListedCovers'
    BY Kinds, <1>14 DEF LoadCursor, Stop, Typed, TypeOK, PagesAreBounded, ListedCovers, Live, Before
  <2>4. LastCovers'
    BY Kinds, <1>14 DEF LoadCursor, Stop, Typed, TypeOK, PagesAreBounded, LastCovers, Live
  <2>5. PullCovers'
    BY Kinds, <1>14 DEF LoadCursor, Stop, Typed, TypeOK, PagesAreBounded, PullCovers, CursorCovers
  <2>6. CursorCovers'
    BY Kinds, <1>14 DEF LoadCursor, Stop, Typed, TypeOK, PagesAreBounded, CursorCovers
  <2> QED
    BY <2>1, <2>2, <2>3, <2>4, <2>5, <2>6
<1>15. ASSUME NEW w \in Workers, ListHistory(w) PROVE CoverInv'
  <2>1. CheckpointCovers'
    BY Kinds, <1>15 DEF ListHistory, Goto, Typed, TypeOK, PagesAreBounded, CheckpointCovers, Live, Before
  <2>2. Resumes'
    BY Kinds, <1>15 DEF ListHistory, Goto, Typed, TypeOK, PagesAreBounded, Resumes
  <2>3. ListedCovers'
    BY Kinds, <1>15 DEF ListHistory, Goto, Typed, TypeOK, PagesAreBounded, ListedCovers, Live, Before
  <2>4. LastCovers'
    BY Kinds, <1>15 DEF ListHistory, Goto, Typed, TypeOK, PagesAreBounded, LastCovers, Live
  <2>5. PullCovers'
    BY Kinds, HistoryPage, Split, <1>15 DEF ListHistory, Goto, Typed, TypeOK, PullCovers
  <2>6. CursorCovers'
    BY Kinds, <1>15 DEF ListHistory, Goto, Typed, TypeOK, PagesAreBounded, CursorCovers
  <2> QED
    BY <2>1, <2>2, <2>3, <2>4, <2>5, <2>6
<1>16. ASSUME NEW w \in Workers, ApplyPage(w) PROVE CoverInv'
  <2>1. CheckpointCovers'
    BY Kinds, <1>16 DEF ApplyPage, Typed, TypeOK, PagesAreBounded, CheckpointCovers, Live, Before
  <2>2. Resumes'
    BY Kinds, <1>16 DEF ApplyPage, Typed, TypeOK, PagesAreBounded, Resumes
  <2>3. ListedCovers'
    BY Kinds, <1>16 DEF ApplyPage, Typed, TypeOK, PagesAreBounded, ListedCovers, Live, Before
  <2>4. LastCovers'
    BY Kinds, <1>16 DEF ApplyPage, Typed, TypeOK, PagesAreBounded, LastCovers, Live
  <2>7. ~ overlapped => (1..page[w].upTo) \ deleted \subseteq stored' \cup late \cup skipped'
    <3> SUFFICES ASSUME ~ overlapped, NEW m \in (1..page[w].upTo) \ deleted
                 PROVE  m \in stored' \cup late \cup skipped'
      OBVIOUS
    <3>1. pc[w] = "applying" /\ from[w] \in Nat /\ page[w].upTo \in Nat /\ m \in Nat
      BY <1>16, Split, Held, Kinds DEF ApplyPage, Typed, PagesAreBounded, RowTypes
    <3>2. stored' = stored \cup (page[w].ids \ deleted) /\ skipped' = skipped \cup LeftBehind(w)
      BY <1>16 DEF ApplyPage
    <3>3. CASE m <= from[w]
      BY <3>1, <3>2, <3>3 DEF PullCovers
    <3>4. CASE m > from[w]
      <4>1. m \in (from[w] + 1..page[w].upTo) \ deleted
        BY <3>1, <3>4
      <4>2. CASE m \in page[w].ids
        BY <3>2, <4>2
      <4>3. CASE m \notin page[w].ids
        BY <3>1, <3>2, <4>1, <4>3 DEF PullCovers, LeftBehind
      <4> QED
        BY <4>2, <4>3
    <3> QED
      BY <3>1, <3>3, <3>4
  <2>5. PullCovers'
    <3>1. late' = late /\ deleted' = deleted /\ overlapped' = overlapped /\ page' = page
      BY <1>16 DEF ApplyPage
    <3>2. from'[w] = page[w].upTo /\ pc'[w] # "applying"
      BY <1>16 DEF ApplyPage, Typed, TypeOK
    <3>3. \A v \in Workers \ {w} : from'[v] = from[v] /\ pc'[v] = pc[v]
      BY <1>16 DEF ApplyPage, Typed, TypeOK
    <3>4. stored \subseteq stored' /\ skipped \subseteq skipped'
      BY <1>16 DEF ApplyPage
    <3> QED
      BY <2>7, <3>1, <3>2, <3>3, <3>4 DEF PullCovers
  <2>6. CursorCovers'
    BY <1>16, <2>7 DEF ApplyPage, CursorCovers
  <2> QED
    BY <2>1, <2>2, <2>3, <2>4, <2>5, <2>6
<1>17. ASSUME NEW w \in Workers, StartResync(w) PROVE CoverInv'
  <2>1. CheckpointCovers'
    BY Kinds, <1>17 DEF StartResync, EnterBackfill, Stop, Typed, TypeOK, PagesAreBounded, CheckpointCovers, Live, Before
  <2>2. Resumes'
    BY Kinds, <1>17 DEF StartResync, EnterBackfill, Stop, Typed, TypeOK, PagesAreBounded, Resumes
  <2>3. ListedCovers'
    BY Kinds, <1>17 DEF StartResync, EnterBackfill, Stop, Typed, TypeOK, PagesAreBounded, ListedCovers, Live, Before
  <2>4. LastCovers'
    BY Kinds, <1>17 DEF StartResync, EnterBackfill, Stop, Typed, TypeOK, PagesAreBounded, LastCovers, Live
  <2>5. PullCovers'
    BY Kinds, <1>17 DEF StartResync, EnterBackfill, Stop, Typed, TypeOK, PagesAreBounded, PullCovers
  <2>6. CursorCovers'
    BY Kinds, <1>17 DEF StartResync, EnterBackfill, Stop, Typed, TypeOK, PagesAreBounded, CursorCovers
  <2> QED
    BY <2>1, <2>2, <2>3, <2>4, <2>5, <2>6
<1>18. ASSUME NEW w \in Workers, Stamp(w) PROVE CoverInv'
  <2>1. CheckpointCovers'
    BY Kinds, <1>18 DEF Stamp, Stop, Typed, TypeOK, PagesAreBounded, CheckpointCovers, Live, Before
  <2>2. Resumes'
    BY Kinds, <1>18 DEF Stamp, Stop, Typed, TypeOK, PagesAreBounded, Resumes
  <2>3. ListedCovers'
    BY Kinds, <1>18 DEF Stamp, Stop, Typed, TypeOK, PagesAreBounded, ListedCovers, Live, Before
  <2>4. LastCovers'
    BY Kinds, <1>18 DEF Stamp, Stop, Typed, TypeOK, PagesAreBounded, LastCovers, Live
  <2>5. PullCovers'
    BY Kinds, <1>18 DEF Stamp, Stop, Typed, TypeOK, PagesAreBounded, PullCovers
  <2>6. CursorCovers'
    BY Kinds, <1>18 DEF Stamp, Stop, Typed, TypeOK, PagesAreBounded, CursorCovers
  <2> QED
    BY <2>1, <2>2, <2>3, <2>4, <2>5, <2>6
<1>19. ASSUME NEW w \in Workers, Crash(w) PROVE CoverInv'
  <2>1. CheckpointCovers'
    BY Kinds, <1>19 DEF Crash, Stop, Happens, Typed, TypeOK, PagesAreBounded, CheckpointCovers, Live, Before
  <2>2. Resumes'
    BY Kinds, <1>19 DEF Crash, Stop, Happens, Typed, TypeOK, PagesAreBounded, Resumes
  <2>3. ListedCovers'
    BY Kinds, <1>19 DEF Crash, Stop, Happens, Typed, TypeOK, PagesAreBounded, ListedCovers, Live, Before
  <2>4. LastCovers'
    BY Kinds, <1>19 DEF Crash, Stop, Happens, Typed, TypeOK, PagesAreBounded, LastCovers, Live
  <2>5. PullCovers'
    BY Kinds, <1>19 DEF Crash, Stop, Happens, Typed, TypeOK, PagesAreBounded, PullCovers
  <2>6. CursorCovers'
    BY Kinds, <1>19 DEF Crash, Stop, Happens, Typed, TypeOK, PagesAreBounded, CursorCovers
  <2> QED
    BY <2>1, <2>2, <2>3, <2>4, <2>5, <2>6
<1>20. ASSUME NEW w \in Workers, NEW n \in Pushes, TakePush(w, n) PROVE CoverInv'
  <2>1. CheckpointCovers'
    BY Kinds, <1>20 DEF TakePush, Typed, TypeOK, PagesAreBounded, CheckpointCovers, Live, Before
  <2>2. Resumes'
    BY Kinds, <1>20 DEF TakePush, Typed, TypeOK, PagesAreBounded, Resumes
  <2>3. ListedCovers'
    BY Kinds, <1>20 DEF TakePush, Typed, TypeOK, PagesAreBounded, ListedCovers, Live, Before
  <2>4. LastCovers'
    BY Kinds, <1>20 DEF TakePush, Typed, TypeOK, PagesAreBounded, LastCovers, Live
  <2>5. PullCovers'
    BY Kinds, <1>20 DEF TakePush, Typed, TypeOK, PagesAreBounded, PullCovers
  <2>6. CursorCovers'
    BY Kinds, <1>20 DEF TakePush, Typed, TypeOK, PagesAreBounded, CursorCovers
  <2> QED
    BY <2>1, <2>2, <2>3, <2>4, <2>5, <2>6
<1>21. CASE UNCHANGED vars
  BY <1>21 DEF vars, Live, Before, CheckpointCovers, Resumes, ListedCovers, LastCovers, PullCovers, CursorCovers
<1> QED
  BY <1>1, <1>2, <1>3, <1>4, <1>5, <1>6, <1>7, <1>8, <1>9, <1>10, <1>11, <1>12, <1>13, <1>14, <1>15, <1>16, <1>17, <1>18, <1>19, <1>20, <1>21 DEF Next, Environment, Backfill, Pull

-----------------------------------------------------------------------------
(* Pushes *)

\* A step keeps the promise to the pushes: pages reach them, what is stored stays stored.
LEMMA PushStep ==
    ASSUME Typed, CoverInv, CoverInv', PushInv, [Next]_vars
    PROVE  PushInv'
<1> USE DEF PushInv, mailbox, account, rows, worker, history
<1>1. ASSUME Arrive PROVE PushInv'
  <2>1. PushIsReached'
    BY Kinds, <1>1 DEF Arrive, PushIsReached, Typed, TypeOK, TasksAreStored
  <2>2. StampsAreAnswered'
    BY Kinds, <1>1 DEF Arrive, StampsAreAnswered, Answered, Typed, TypeOK
  <2>3. StampedPushIsStored'
    BY Kinds, <1>1 DEF Arrive, StampedPushIsStored, Typed, TypeOK
  <2> QED
    BY <2>1, <2>2, <2>3
<1>2. ASSUME ExpireHistory PROVE PushInv'
  <2>1. PushIsReached'
    BY Kinds, <1>2 DEF ExpireHistory, Happens, PushIsReached, Typed, TypeOK, TasksAreStored
  <2>2. StampsAreAnswered'
    BY Kinds, <1>2 DEF ExpireHistory, Happens, StampsAreAnswered, Answered, Typed, TypeOK
  <2>3. StampedPushIsStored'
    BY Kinds, <1>2 DEF ExpireHistory, Happens, StampedPushIsStored, Typed, TypeOK
  <2> QED
    BY <2>1, <2>2, <2>3
<1>3. ASSUME StartLinking PROVE PushInv'
  <2>1. PushIsReached'
    BY Kinds, <1>3 DEF StartLinking, PushIsReached, Typed, TypeOK, TasksAreStored
  <2>2. StampsAreAnswered'
    BY Kinds, <1>3 DEF StartLinking, StampsAreAnswered, Answered, Typed, TypeOK
  <2>3. StampedPushIsStored'
    BY Kinds, <1>3 DEF StartLinking, StampedPushIsStored, Typed, TypeOK
  <2> QED
    BY <2>1, <2>2, <2>3
<1>4. ASSUME NEW m \in 1..MaxHead, DeleteMessage(m) PROVE PushInv'
  <2>1. PushIsReached'
    BY Kinds, <1>4 DEF DeleteMessage, Happens, PushIsReached, Typed, TypeOK, TasksAreStored
  <2>2. StampsAreAnswered'
    BY Kinds, <1>4 DEF DeleteMessage, Happens, StampsAreAnswered, Answered, Typed, TypeOK
  <2>3. StampedPushIsStored'
    BY Kinds, <1>4 DEF DeleteMessage, Happens, StampedPushIsStored, Typed, TypeOK
  <2> QED
    BY <2>1, <2>2, <2>3
<1>5. ASSUME NEW m \in 1..MaxHead, PersistGmailPush(m) PROVE PushInv'
  <2>1. PushIsReached'
    BY Kinds, <1>5 DEF PersistGmailPush, PushIsReached, Typed, TypeOK, TasksAreStored
  <2>2. StampsAreAnswered'
    BY Kinds, <1>5 DEF PersistGmailPush, StampsAreAnswered, Answered, Typed, TypeOK
  <2>3. StampedPushIsStored'
    BY Kinds, <1>5 DEF PersistGmailPush, StampedPushIsStored, Typed, TypeOK
  <2> QED
    BY <2>1, <2>2, <2>3
<1>6. ASSUME NEW w \in Workers, CompleteLinking(w) PROVE PushInv'
  <2>1. PushIsReached'
    BY Kinds, <1>6 DEF CompleteLinking, EnterBackfill, PushIsReached, Typed, TypeOK, TasksAreStored
  <2>2. StampsAreAnswered'
    BY Kinds, <1>6 DEF CompleteLinking, EnterBackfill, StampsAreAnswered, Answered, Typed, TypeOK
  <2>3. StampedPushIsStored'
    BY Kinds, <1>6 DEF CompleteLinking, EnterBackfill, StampedPushIsStored, Typed, TypeOK
  <2> QED
    BY <2>1, <2>2, <2>3
<1>7. ASSUME NEW w \in Workers, LoadCheckpoint(w) PROVE PushInv'
  <2>1. PushIsReached'
    BY Kinds, <1>7 DEF LoadCheckpoint, PushIsReached, Typed, TypeOK, TasksAreStored
  <2>2. StampsAreAnswered'
    BY Kinds, <1>7 DEF LoadCheckpoint, StampsAreAnswered, Answered, Typed, TypeOK
  <2>3. StampedPushIsStored'
    BY Kinds, <1>7 DEF LoadCheckpoint, StampedPushIsStored, Typed, TypeOK
  <2> QED
    BY <2>1, <2>2, <2>3
<1>8. ASSUME NEW w \in Workers, ListMessages(w) PROVE PushInv'
  <2>1. PushIsReached'
    BY Kinds, <1>8 DEF ListMessages, PushIsReached, Typed, TypeOK, TasksAreStored
  <2>2. StampsAreAnswered'
    BY Kinds, <1>8 DEF ListMessages, StampsAreAnswered, Answered, Typed, TypeOK
  <2>3. StampedPushIsStored'
    BY Kinds, <1>8 DEF ListMessages, StampedPushIsStored, Typed, TypeOK
  <2> QED
    BY <2>1, <2>2, <2>3
<1>9. ASSUME NEW w \in Workers, ReadProfile(w) PROVE PushInv'
  <2>1. PushIsReached'
    BY Kinds, <1>9 DEF ReadProfile, PushIsReached, Typed, TypeOK, TasksAreStored
  <2>2. StampsAreAnswered'
    BY Kinds, <1>9 DEF ReadProfile, StampsAreAnswered, Answered, Typed, TypeOK
  <2>3. StampedPushIsStored'
    BY Kinds, <1>9 DEF ReadProfile, StampedPushIsStored, Typed, TypeOK
  <2> QED
    BY <2>1, <2>2, <2>3
<1>10. ASSUME NEW w \in Workers, FetchFails(w) PROVE PushInv'
  <2>1. PushIsReached'
    BY Kinds, <1>10 DEF FetchFails, Stop, PushIsReached, Typed, TypeOK, TasksAreStored
  <2>2. StampsAreAnswered'
    BY Kinds, <1>10 DEF FetchFails, Stop, StampsAreAnswered, Answered, Typed, TypeOK
  <2>3. StampedPushIsStored'
    BY Kinds, <1>10 DEF FetchFails, Stop, StampedPushIsStored, Typed, TypeOK
  <2> QED
    BY <2>1, <2>2, <2>3
<1>11. ASSUME NEW w \in Workers, CommitPage(w) PROVE PushInv'
  <2>1. PushIsReached'
    BY Kinds, <1>11 DEF CommitPage, PushIsReached, Typed, TypeOK, TasksAreStored
  <2>2. StampsAreAnswered'
    BY Kinds, <1>11 DEF CommitPage, StampsAreAnswered, Answered, Typed, TypeOK
  <2>3. StampedPushIsStored'
    BY Kinds, <1>11 DEF CommitPage, StampedPushIsStored, Typed, TypeOK
  <2> QED
    BY <2>1, <2>2, <2>3
<1>12. ASSUME NEW w \in Workers, CommitLastPage(w) PROVE PushInv'
  <2>1. PushIsReached'
    BY Kinds, <1>12 DEF CommitLastPage, Stop, Goto, PushIsReached, Typed, TypeOK, TasksAreStored
  <2>2. StampsAreAnswered'
    <3>1. CASE task[w] \in Pushes /\ IsLegalTransition(status, "LIVE")
      <4>1. cursor' = page[w].upTo /\ task[w] <= page[w].upTo /\ task[w] \in 1..page[w].upTo
        BY <1>12, <3>1, Split, Held, Kinds DEF CommitLastPage, PushIsReached, Pushes, Typed, RowTypes
      <4>2. cursor' # NoCursor
        BY <4>1, Split, Held, Kinds DEF Typed
      <4>3. /\ overlapped' = overlapped /\ deleted' = deleted /\ dropped' = dropped /\ late' = late
            /\ skipped' = skipped /\ stored \subseteq stored' /\ task' = task
        BY <1>12, <3>1 DEF CommitLastPage, Goto
      <4>4. ~ overlapped => Answered(task[w])'
        BY <4>1, <4>2, <4>3 DEF CursorCovers, CoverInv, Answered
      <4>5. \A v \in Workers \ {w} : pc'[v] = pc[v]
        BY <1>12, <3>1 DEF CommitLastPage, Goto, Typed, TypeOK
      <4> QED
        BY <4>3, <4>4, <4>5 DEF StampsAreAnswered, Answered
    <3>2. CASE ~ (task[w] \in Pushes /\ IsLegalTransition(status, "LIVE"))
      BY <1>12, <3>2 DEF CommitLastPage, Stop, StampsAreAnswered, Answered, Typed, TypeOK
    <3> QED
      BY <3>1, <3>2
  <2>3. StampedPushIsStored'
    BY Kinds, <1>12 DEF CommitLastPage, Stop, Goto, StampedPushIsStored, Typed, TypeOK
  <2> QED
    BY <2>1, <2>2, <2>3
<1>13. ASSUME NEW w \in Workers, RecoverResync(w) PROVE PushInv'
  <2>1. PushIsReached'
    BY Kinds, <1>13 DEF RecoverResync, EnterBackfill, PushIsReached, Typed, TypeOK, TasksAreStored
  <2>2. StampsAreAnswered'
    BY Kinds, <1>13 DEF RecoverResync, EnterBackfill, StampsAreAnswered, Answered, Typed, TypeOK
  <2>3. StampedPushIsStored'
    BY Kinds, <1>13 DEF RecoverResync, EnterBackfill, StampedPushIsStored, Typed, TypeOK
  <2> QED
    BY <2>1, <2>2, <2>3
<1>14. ASSUME NEW w \in Workers, LoadCursor(w) PROVE PushInv'
  <2>1. PushIsReached'
    BY Kinds, <1>14 DEF LoadCursor, Stop, PushIsReached, Typed, TypeOK, TasksAreStored
  <2>2. StampsAreAnswered'
    BY Kinds, <1>14 DEF LoadCursor, Stop, StampsAreAnswered, Answered, Typed, TypeOK
  <2>3. StampedPushIsStored'
    BY Kinds, <1>14 DEF LoadCursor, Stop, StampedPushIsStored, Typed, TypeOK
  <2> QED
    BY <2>1, <2>2, <2>3
<1>15. ASSUME NEW w \in Workers, ListHistory(w) PROVE PushInv'
  <2>1. PushIsReached'
    <3>1. CASE page' = page /\ pc' = [pc EXCEPT ![w] = "expiring"]
      BY <1>15, <3>1 DEF ListHistory, Goto, PushIsReached, Typed, TypeOK
    <3>2. CASE /\ pc' = [pc EXCEPT ![w] = "applying"]
               /\ \E p \in Pages : page' = [page EXCEPT ![w] = p] /\ (~ p.more => p.upTo = head)
      <4>1. PICK p \in Pages : page' = [page EXCEPT ![w] = p] /\ (~ p.more => p.upTo = head)
        BY <3>2
      <4>2. page'[w] = p /\ pc'[w] = "applying" /\ task' = task
        BY <1>15, <3>2, <4>1 DEF ListHistory, Goto, Typed, TypeOK
      <4>3. \A v \in Workers \ {w} : page'[v] = page[v] /\ pc'[v] = pc[v]
        BY <3>2, <4>1 DEF Typed, TypeOK
      <4>4. task[w] \in Pushes => task[w] <= head
        <5>1. task[w] \in Pushes => task[w] \in 1..head
          BY Split DEF Typed, RowTypes, TasksAreStored
        <5>2. head \in Nat
          BY Split, Kinds DEF Typed, RowTypes
        <5> QED
          BY <5>1, <5>2
      <4> QED
        BY <4>1, <4>2, <4>3, <4>4 DEF PushIsReached
    <3> QED
      BY <1>15, <3>1, <3>2, HistoryPage, Split DEF Typed
  <2>2. StampsAreAnswered'
    BY Kinds, <1>15 DEF ListHistory, Goto, StampsAreAnswered, Answered, Typed, TypeOK
  <2>3. StampedPushIsStored'
    BY Kinds, <1>15 DEF ListHistory, Goto, StampedPushIsStored, Typed, TypeOK
  <2> QED
    BY <2>1, <2>2, <2>3
<1>16. ASSUME NEW w \in Workers, ApplyPage(w) PROVE PushInv'
  <2>1. PushIsReached'
    BY Kinds, <1>16 DEF ApplyPage, PushIsReached, Typed, TypeOK, TasksAreStored
  <2>2. StampsAreAnswered'
    <3>1. /\ cursor' = page[w].upTo /\ task[w] \in Pushes /\ pc[w] = "applying"
          /\ page[w].upTo \in Nat /\ task' = task
      BY <1>16, Split, Held, Kinds DEF ApplyPage, Typed, TasksAreStored, Pulling, RowTypes
    <3>2. /\ overlapped' = overlapped /\ deleted' = deleted /\ dropped' = dropped /\ late' = late
          /\ skipped \subseteq skipped' /\ stored \subseteq stored'
      BY <1>16 DEF ApplyPage
    <3>3. ~ overlapped /\ pc'[w] = "stamping" => Answered(task[w])'
      <4> SUFFICES ASSUME ~ overlapped, pc'[w] = "stamping" PROVE Answered(task[w])'
        OBVIOUS
      <4>1. ~ page[w].more
        BY <1>16 DEF ApplyPage, Typed, TypeOK
      <4>2. task[w] \in 1..page[w].upTo
        <5>1. task[w] <= page[w].upTo
          BY <3>1, <4>1 DEF PushIsReached
        <5> QED
          BY <3>1, <5>1, Kinds DEF Pushes
      <4>3. cursor' # NoCursor
        BY <3>1, Kinds
      <4> QED
        BY <3>1, <3>2, <4>2, <4>3 DEF CursorCovers, CoverInv, Answered
    <3>4. \A v \in Workers \ {w} : pc'[v] = pc[v]
      BY <1>16 DEF ApplyPage, Typed, TypeOK
    <3> QED
      BY <3>1, <3>2, <3>3, <3>4 DEF StampsAreAnswered, Answered
  <2>3. StampedPushIsStored'
    BY Kinds, <1>16 DEF ApplyPage, StampedPushIsStored, Typed, TypeOK
  <2> QED
    BY <2>1, <2>2, <2>3
<1>17. ASSUME NEW w \in Workers, StartResync(w) PROVE PushInv'
  <2>1. PushIsReached'
    BY Kinds, <1>17 DEF StartResync, EnterBackfill, Stop, PushIsReached, Typed, TypeOK, TasksAreStored
  <2>2. StampsAreAnswered'
    BY Kinds, <1>17 DEF StartResync, EnterBackfill, Stop, StampsAreAnswered, Answered, Typed, TypeOK
  <2>3. StampedPushIsStored'
    BY Kinds, <1>17 DEF StartResync, EnterBackfill, Stop, StampedPushIsStored, Typed, TypeOK
  <2> QED
    BY <2>1, <2>2, <2>3
<1>18. ASSUME NEW w \in Workers, Stamp(w) PROVE PushInv'
  <2>1. PushIsReached'
    BY Kinds, <1>18 DEF Stamp, Stop, PushIsReached, Typed, TypeOK, TasksAreStored
  <2>2. StampsAreAnswered'
    BY Kinds, <1>18 DEF Stamp, Stop, StampsAreAnswered, Answered, Typed, TypeOK
  <2>3. StampedPushIsStored'
    BY <1>18 DEF Stamp, Stop, StampedPushIsStored, StampsAreAnswered, Answered
  <2> QED
    BY <2>1, <2>2, <2>3
<1>19. ASSUME NEW w \in Workers, Crash(w) PROVE PushInv'
  <2>1. PushIsReached'
    BY Kinds, <1>19 DEF Crash, Stop, Happens, PushIsReached, Typed, TypeOK, TasksAreStored
  <2>2. StampsAreAnswered'
    BY Kinds, <1>19 DEF Crash, Stop, Happens, StampsAreAnswered, Answered, Typed, TypeOK
  <2>3. StampedPushIsStored'
    BY Kinds, <1>19 DEF Crash, Stop, Happens, StampedPushIsStored, Typed, TypeOK
  <2> QED
    BY <2>1, <2>2, <2>3
<1>20. ASSUME NEW w \in Workers, NEW n \in Pushes, TakePush(w, n) PROVE PushInv'
  <2>1. PushIsReached'
    BY Kinds, <1>20 DEF TakePush, PushIsReached, Typed, TypeOK, TasksAreStored
  <2>2. StampsAreAnswered'
    BY Kinds, <1>20 DEF TakePush, StampsAreAnswered, Answered, Typed, TypeOK
  <2>3. StampedPushIsStored'
    BY Kinds, <1>20 DEF TakePush, StampedPushIsStored, Typed, TypeOK
  <2> QED
    BY <2>1, <2>2, <2>3
<1>21. CASE UNCHANGED vars
  BY <1>21 DEF vars, PushIsReached, StampsAreAnswered, Answered, StampedPushIsStored
<1> QED
  BY <1>1, <1>2, <1>3, <1>4, <1>5, <1>6, <1>7, <1>8, <1>9, <1>10, <1>11, <1>12, <1>13, <1>14, <1>15, <1>16, <1>17, <1>18, <1>19, <1>20, <1>21 DEF Next, Environment, Backfill, Pull

-----------------------------------------------------------------------------
(* The invariant *)

LEMMA InitInv == Init => IInv
<1> SUFFICES ASSUME Init PROVE IInv
  OBVIOUS
<1> USE Kinds DEF Init
<1>1. RowTypes
  <2>1. 1 \in 0..MaxHead /\ 0 \in 0..MaxEvents
    BY Kinds
  <2>2. head \in 0..MaxHead /\ oldest \in 0..head /\ deleted \subseteq 1..MaxHead
    BY <2>1
  <2>3. status \in SyncStatus /\ linked \in BOOLEAN /\ cursor \in 0..head \cup {NoCursor}
    BY DEF SyncStatus
  <2>4. checkpoint \in Nat \cup {NoToken} /\ events \in 0..MaxEvents
    BY <2>1
  <2>5. /\ stored \subseteq 1..head /\ inbox \subseteq 1..head /\ processed \subseteq inbox
        /\ late \subseteq 1..head /\ overlapped \in BOOLEAN /\ dropped \subseteq inbox
        /\ skipped \subseteq 1..head
    OBVIOUS
  <2> QED
    BY <2>2, <2>3, <2>4, <2>5 DEF RowTypes
<1>2. PlaceTypes /\ HandTypes /\ TasksAreStored
  BY DEF PlaceTypes, HandTypes, TasksAreStored, PCs, Pulling
<1>3. PagesAreBounded
  BY DEF PagesAreBounded, NoPage
<1>4. Typed
  BY <1>1, <1>2, <1>3, Split DEF Typed
<1>5. WalkInv
  BY DEF WalkInv, OneWalk, CheckpointIsOfThisBackfill, Walking
<1>6. CoverInv
  BY DEF CoverInv, CheckpointCovers, Resumes, ListedCovers, LastCovers, PullCovers, CursorCovers
<1>7. PushInv
  BY DEF PushInv, PushIsReached, StampsAreAnswered, StampedPushIsStored
<1> QED
  BY <1>4, <1>5, <1>6, <1>7 DEF IInv

\* The invariant is inductive.
THEOREM EmailSyncInvariant == Spec => []IInv
<1>1. IInv /\ [Next]_vars => IInv'
  BY Split, TypedStep, WalkStep, CoverStep, PushStep DEF IInv, Typed, TypeOK, RowTypes, PlaceTypes, HandTypes
<1> QED
  BY InitInv, <1>1, PTL DEF Spec

\* Every row, and what each worker holds, keeps its type.
THEOREM EmailSyncTypes == Spec => []TypeOK
<1>1. IInv => TypeOK
  BY DEF IInv, Typed
<1> QED
  BY EmailSyncInvariant, <1>1, PTL

\* No message that is still there is skipped by the cursor.
THEOREM CursorIsCovered == Spec => []CursorCovers
<1>1. IInv => CursorCovers
  BY DEF IInv, CoverInv
<1> QED
  BY EmailSyncInvariant, <1>1, PTL

\* No checkpoint survives the backfill it belongs to.
THEOREM CheckpointIsCurrent == Spec => []CheckpointIsOfThisBackfill
<1>1. IInv => CheckpointIsOfThisBackfill
  BY DEF IInv, WalkInv
<1> QED
  BY EmailSyncInvariant, <1>1, PTL

\* No push is stamped whose message was lost on the way.
THEOREM PushesAreStored == Spec => []StampedPushIsStored
<1>1. IInv => StampedPushIsStored
  BY DEF IInv, PushInv
<1> QED
  BY EmailSyncInvariant, <1>1, PTL
\* What the contract of listHistory promises: with a provider whose pages carry the history id
\* of their last message, no message is put behind the cursor by a page that has a successor.
THEOREM ContractSkipsNothing == Spec => [](~ Gmail => skipped = {})
<1> DEFINE Nothing == ~ Gmail => skipped = {}
<1>1. Init => Nothing
  BY DEF Init
<1>2. ASSUME IInv, Nothing, [Next]_vars PROVE Nothing'
  <2> USE DEF history
  <2>1. CASE \E w \in Workers : ApplyPage(w)
    <3>1. PICK w \in Workers : ApplyPage(w)
      BY <2>1
    <3>2. ASSUME ~ Gmail PROVE LeftBehind(w) = {}
      BY <1>2, <3>1, <3>2 DEF IInv, CoverInv, PullCovers, ApplyPage, LeftBehind
    <3> QED
      BY <1>2, <3>1, <3>2 DEF ApplyPage
  <2>2. CASE ~ \E w \in Workers : ApplyPage(w)
    <3>1. skipped' = skipped
      BY <1>2, <2>2 DEF Next, Environment, Backfill, Pull, vars, Arrive, DeleteMessage, ExpireHistory,
         PersistGmailPush, StartLinking, CompleteLinking, LoadCheckpoint, ListMessages, ReadProfile,
         FetchFails, CommitPage, CommitLastPage, RecoverResync, TakePush, LoadCursor, ListHistory,
         StartResync, Stamp, Crash, EnterBackfill
    <3> QED
      BY <1>2, <3>1
  <2> QED
    BY <2>1, <2>2
<1> QED
  BY EmailSyncInvariant, <1>1, <1>2, PTL DEF Spec
=============================================================================
