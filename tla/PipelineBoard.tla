--------------------------- MODULE PipelineBoard ---------------------------
(***************************************************************************)
(* The pipeline board of the web client (features/pipeline) over the       *)
(* server's opportunities (services/opportunities).  A board keeps every   *)
(* deal in one query cache: a move writes the cache at once, PATCHes the   *)
(* deal, and puts the server's row, or on a failure the whole cache as it  *)
(* was before the move, into the cache when the answer comes.              *)
(*                                                                         *)
(* A deal is the stage it is in; its status follows from it.  Deals are    *)
(* numbered in the order of the keyset, and a page of any size is its      *)
(* deals read one after the other with nothing in between.                 *)
(***************************************************************************)
EXTENDS Naturals, Sequences

CONSTANTS
    Boards,       \* one per browser
    DealCount,
    Stages,
    Requests,     \* the moves that are made
    None,
    MaxFetches,   \* bound on fetches, of all boards together
    MaxFailures   \* bound on fetches and connections that fail

Deals == 1 .. DealCount

ASSUME BoardAssumption ==
    /\ DealCount \in Nat
    /\ None \notin Stages
    /\ MaxFetches \in Nat /\ MaxFailures \in Nat

VARIABLES
    stage,      \* opportunities.stage_id
    trail,      \* the opportunity_stage_changed entries of each deal: from and to
    gone,       \* deals whose lead is soft-deleted
    seen,       \* each board's cache; None before it is loaded
    fetching,   \* boards whose query is under way
    got, upTo,  \* the deals its fetch has read so far, and the last of them
    pc,         \* each request on the server: new, sent, locked, applied, refused, lost
    client,     \* and on its board: none, waiting, failed, over
    board, deal, to,  \* who asked for what
    prev,       \* the cache before the move
    from,       \* the stage of the row it locked
    fetches, failures,
    foreign,    \* history: deals written since the board read them by others, or by a move
                \* of its own that it had given up
    fresh,      \* history: deals a fetch has read that nobody has written since
    upset,      \* history: deals not read yet, whose moves or fetches crossed, or were undone
    dirty       \* history: deals that were being moved when the fetch began

rows    == <<stage, trail, gone>>
query   == <<fetching, got, upTo>>
asked   == <<board, deal, to, prev>>
request == <<asked, from>>
bounds  == <<fetches, failures>>
history == <<foreign, fresh, upset, dirty>>
vars    == <<rows, seen, query, pc, client, request, bounds, history>>

-----------------------------------------------------------------------------
(* Vocabulary *)

Unread == [d \in Deals |-> None]

\* The moves of b that are not over, and those of one deal.
InFlight(b) == {r \in Requests : board[r] = b /\ client[r] \in {"waiting", "failed"}}
MovesOf(b, d) == {r \in InFlight(b) : deal[r] = d}

Goto(r, p) == pc' = [pc EXCEPT ![r] = p]
Settle(r, c) == client' = [client EXCEPT ![r] = c]

Lose == failures < MaxFailures /\ failures' = failures + 1

-----------------------------------------------------------------------------
(* useQuery: fetchAllOpportunities drains the cursor. *)

\* Mounting a board whose data is stale, or Retry; a fetch that runs is not started twice.
StartFetch(b) ==
    /\ b \notin fetching
    /\ fetches < MaxFetches
    /\ fetches' = fetches + 1
    /\ fetching' = fetching \cup {b}
    /\ got' = [got EXCEPT ![b] = Unread]
    /\ upTo' = [upTo EXCEPT ![b] = 0]
    /\ fresh' = [fresh EXCEPT ![b] = {}]
    /\ dirty' = [dirty EXCEPT ![b] = {d \in Deals : MovesOf(b, d) # {}}]
    /\ UNCHANGED <<rows, seen, pc, client, request, failures, foreign, upset>>

\* listOpportunities
ReadDeal(b) ==
    /\ b \in fetching
    /\ upTo[b] < DealCount
    /\ LET d == upTo[b] + 1 IN
         /\ upTo' = [upTo EXCEPT ![b] = d]
         /\ got' = [got EXCEPT ![b][d] = stage[d]]
         /\ fresh' = [fresh EXCEPT ![b] = @ \cup {d}]
    /\ UNCHANGED <<rows, seen, fetching, pc, client, request, bounds, foreign, upset, dirty>>

FinishFetch(b) ==
    /\ b \in fetching
    /\ upTo[b] = DealCount
    /\ fetching' = fetching \ {b}
    /\ seen' = [seen EXCEPT ![b] = got[b]]
    /\ foreign' = [foreign EXCEPT ![b] = Deals \ fresh[b]]
    /\ upset' = [upset EXCEPT ![b] = dirty[b]]
    /\ UNCHANGED <<rows, got, upTo, pc, client, request, bounds, fresh, dirty>>

\* The retries of a query are part of it.  The data stay, and with them the moves of the
\* command palette, though the board shows an error.
FetchFails(b) ==
    /\ b \in fetching
    /\ Lose
    /\ fetching' = fetching \ {b}
    /\ UNCHANGED <<rows, seen, got, upTo, pc, client, request, fetches, history>>

-----------------------------------------------------------------------------
(* useMutation *)

\* Mutant: the fetch that is under way is not cancelled.
MoveBeside(b, r, d, s) ==
    /\ pc[r] = "new"
    /\ seen[b] # Unread /\ seen[b][d] # s
    /\ seen' = [seen EXCEPT ![b][d] = s]
    /\ Goto(r, "sent") /\ Settle(r, "waiting")
    /\ board' = [board EXCEPT ![r] = b] /\ deal' = [deal EXCEPT ![r] = d]
    /\ to' = [to EXCEPT ![r] = s] /\ prev' = [prev EXCEPT ![r] = seen[b]]
    /\ upset' = IF MovesOf(b, d) = {} THEN upset ELSE [upset EXCEPT ![b] = @ \cup {d}]
    /\ UNCHANGED <<rows, query, from, bounds, foreign, fresh, dirty>>

\* doMove and onMutate: cancelQueries, the snapshot, the optimistic write; then the PATCH.
Move(b, r, d, s) ==
    /\ pc[r] = "new"
    /\ seen[b] # Unread /\ seen[b][d] # s
    /\ fetching' = fetching \ {b}
    /\ seen' = [seen EXCEPT ![b][d] = s]
    /\ Goto(r, "sent") /\ Settle(r, "waiting")
    /\ board' = [board EXCEPT ![r] = b]
    /\ deal' = [deal EXCEPT ![r] = d]
    /\ to' = [to EXCEPT ![r] = s]
    /\ prev' = [prev EXCEPT ![r] = seen[b]]
    /\ upset' = IF MovesOf(b, d) = {} THEN upset ELSE [upset EXCEPT ![b] = @ \cup {d}]
    /\ UNCHANGED <<rows, got, upTo, from, bounds, foreign, fresh, dirty>>

\* onSuccess: the confirmed row, and nothing else.
Confirm(r) ==
    /\ client[r] = "waiting" /\ pc[r] = "applied"
    /\ Settle(r, "over")
    /\ seen' = [seen EXCEPT ![board[r]][deal[r]] = to[r]]
    /\ UNCHANGED <<rows, query, pc, request, bounds, history>>

\* The fetch of the PATCH rejects.  Nothing tells the server: what it has of the request, and
\* whether it will commit, it does as if the board still waited.
LoseConnection(r) ==
    /\ client[r] = "waiting"
    /\ Lose
    /\ Settle(r, "failed")
    /\ foreign' = IF pc[r] = "applied" THEN [foreign EXCEPT ![board[r]] = @ \cup {deal[r]}]
                                       ELSE foreign
    /\ UNCHANGED <<rows, seen, query, pc, request, fetches, fresh, upset, dirty>>

\* onError, after an error or without an answer: the cache as it was, with all its deals.
RollBack(r) ==
    /\ client[r] = "failed" \/ (client[r] = "waiting" /\ pc[r] = "refused")
    /\ Settle(r, "over")
    /\ seen' = [seen EXCEPT ![board[r]] = prev[r]]
    /\ upset' = [upset EXCEPT ![board[r]] = @ \cup
                    {d \in Deals \ {deal[r]} : seen[board[r]][d] # prev[r][d]}]
    /\ UNCHANGED <<rows, query, pc, request, bounds, foreign, fresh, dirty>>

-----------------------------------------------------------------------------
(* patchOpportunity, and the network before it *)

\* Mutant: SELECT without FOR UPDATE.
ReadRow(r) ==
    /\ pc[r] = "sent"
    /\ Goto(r, "locked")
    /\ from' = [from EXCEPT ![r] = stage[deal[r]]]
    /\ UNCHANGED <<rows, seen, query, client, asked, bounds, history>>

\* SELECT ... FOR UPDATE
LockRow(r) ==
    /\ pc[r] = "sent"
    /\ \A q \in Requests : pc[q] = "locked" => deal[q] # deal[r]
    /\ Goto(r, "locked")
    /\ from' = [from EXCEPT ![r] = stage[deal[r]]]
    /\ UNCHANGED <<rows, seen, query, client, asked, bounds, history>>

\* UPDATE, the entry if the stage is another one, COMMIT.
Apply(r) ==
    LET d == deal[r] IN
    /\ pc[r] = "locked"
    /\ from[r] # to[r] => d \notin gone
    /\ stage' = [stage EXCEPT ![d] = to[r]]
    /\ trail' = IF from[r] = to[r] THEN trail
                ELSE [trail EXCEPT ![d] = Append(@, <<from[r], to[r]>>)]
    /\ Goto(r, "applied")
    /\ foreign' = [b \in Boards |-> IF b = board[r] /\ client[r] = "waiting"
                                   THEN foreign[b] \ {d} ELSE foreign[b] \cup {d}]
    /\ fresh' = [b \in Boards |-> fresh[b] \ {d}]
    /\ UNCHANGED <<gone, seen, query, client, request, bounds, upset, dirty>>

\* recordActivity throws for a soft-deleted lead, and the UPDATE rolls back.
Refuse(r) ==
    /\ pc[r] = "locked"
    /\ from[r] # to[r] /\ deal[r] \in gone
    /\ Goto(r, "refused")
    /\ UNCHANGED <<rows, seen, query, client, request, bounds, history>>

\* What broke the connection kept the request from the server, or the server fell and its
\* transaction with it.
Vanish(r) ==
    /\ pc[r] \in {"sent", "locked"} /\ client[r] # "waiting"
    /\ Goto(r, "lost")
    /\ UNCHANGED <<rows, seen, query, client, request, bounds, history>>

DeleteLead(d) ==
    /\ d \notin gone
    /\ gone' = gone \cup {d}
    /\ UNCHANGED <<stage, trail, seen, query, pc, client, request, bounds, history>>

-----------------------------------------------------------------------------

Init ==
    /\ stage \in [Deals -> Stages]
    /\ trail = [d \in Deals |-> <<>>]
    /\ gone = {}
    /\ seen = [b \in Boards |-> Unread]
    /\ fetching = {}
    /\ got = [b \in Boards |-> Unread]
    /\ upTo = [b \in Boards |-> 0]
    /\ pc = [r \in Requests |-> "new"] /\ client = [r \in Requests |-> "none"]
    /\ board = [r \in Requests |-> None]
    /\ deal = [r \in Requests |-> 0]
    /\ to = [r \in Requests |-> None]
    /\ prev = [r \in Requests |-> Unread]
    /\ from = [r \in Requests |-> None]
    /\ fetches = 0 /\ failures = 0
    /\ foreign = [b \in Boards |-> {}] /\ fresh = [b \in Boards |-> {}]
    /\ upset = [b \in Boards |-> Deals] /\ dirty = [b \in Boards |-> {}]

Fetch(b) == StartFetch(b) \/ ReadDeal(b) \/ FinishFetch(b) \/ FetchFails(b)

Serve(r) == LockRow(r) \/ Apply(r) \/ Refuse(r) \/ Vanish(r)

Answer(r) == Confirm(r) \/ LoseConnection(r) \/ RollBack(r)

Next ==
    \/ \E b \in Boards : Fetch(b)
    \/ \E b \in Boards, r \in Requests, d \in Deals, s \in Stages : Move(b, r, d, s)
    \/ \E r \in Requests : Serve(r) \/ Answer(r)
    \/ \E d \in Deals : DeleteLead(d)

Spec == Init /\ [][Next]_vars

-----------------------------------------------------------------------------
(* Properties *)

TypeOK ==
    /\ stage \in [Deals -> Stages] /\ trail \in [Deals -> Seq(Stages \X Stages)]
    /\ gone \subseteq Deals
    /\ seen \in [Boards -> [Deals -> Stages \cup {None}]]
    /\ fetching \subseteq Boards
    /\ got \in [Boards -> [Deals -> Stages \cup {None}]]
    /\ upTo \in [Boards -> 0 .. DealCount]
    /\ pc \in [Requests -> {"new", "sent", "locked", "applied", "refused", "lost"}]
    /\ client \in [Requests -> {"none", "waiting", "failed", "over"}]
    /\ \A r \in Requests : client[r] = "none" <=> pc[r] = "new"
    /\ \A r \in Requests : pc[r] # "new" =>
          board[r] \in Boards /\ deal[r] \in Deals /\ to[r] \in Stages
    /\ board \in [Requests -> Boards \cup {None}] /\ deal \in [Requests -> Deals \cup {0}]
    /\ to \in [Requests -> Stages \cup {None}]
    /\ prev \in [Requests -> [Deals -> Stages \cup {None}]]
    /\ from \in [Requests -> Stages \cup {None}]
    /\ fetches \in 0 .. MaxFetches /\ failures \in 0 .. MaxFailures
    /\ foreign \in [Boards -> SUBSET Deals] /\ fresh \in [Boards -> SUBSET Deals]
    /\ upset \in [Boards -> SUBSET Deals] /\ dirty \in [Boards -> SUBSET Deals]

(* "Lock the row so a concurrent PATCH cannot lose the from->to event basis": *)
(* a deal's entries form a chain, each from where the one before it led, that *)
(* ends in the stage the deal is in - what the funnel report counts on.       *)
TrailLeadsToStage ==
    \A d \in Deals : LET t == trail[d] IN
        /\ \A n \in 2 .. Len(t) : t[n][1] = t[n - 1][2]
        /\ t # <<>> => stage[d] = t[Len(t)][2]

(* A loaded board whose moves of a deal are over shows the stage the server  *)
(* has, though it never fetched again: if nobody else has moved the deal     *)
(* since, nor the server for a move the board had given up - and unless two  *)
(* of its moves of the deal overlapped, a fetch was started while the deal   *)
(* was being moved, or the rollback of another deal's move took it along.    *)
(* A move that fails while the server can still commit it is no exception    *)
(* until it does: the board is right to have rolled back.                    *)
SettledBoardIsTrue ==
    \A b \in Boards : \A d \in Deals \ (foreign[b] \cup upset[b]) :
        MovesOf(b, d) = {} => seen[b][d] = stage[d]

=============================================================================
