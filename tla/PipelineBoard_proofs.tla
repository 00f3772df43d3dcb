----------------------- MODULE PipelineBoard_proofs -----------------------
(***************************************************************************)
(* The inductive invariant of PipelineBoard and the theorems it gives: the *)
(* stage changes of a deal form a chain, and a settled board shows the     *)
(* server's stage, for any number of boards, deals, stages and requests.   *)
(***************************************************************************)
EXTENDS PipelineBoard, TLAPS

\* The row lock: a deal has one holder, who knows its stage.
LockInv ==
    /\ \A q, r \in Requests :
          (pc[q] = "locked" /\ pc[r] = "locked" /\ deal[q] = deal[r]) => q = r
    /\ \A r \in Requests : pc[r] = "locked" => from[r] = stage[deal[r]]

TrailInv == LockInv /\ TrailLeadsToStage

\* r is a move of b with deal d that is not over.
Moving(r, b, d) == board[r] = b /\ deal[r] = d /\ client[r] \in {"waiting", "failed"}

\* A deal whose moves have not crossed has at most one of them.
OneMove ==
    \A b \in Boards : \A d \in Deals \ upset[b] : \A q, r \in Requests :
        Moving(q, b, d) /\ Moving(r, b, d) => q = r

\* The server has what a rollback restores, or what a confirmation writes; a move it has
\* applied after its board gave it up counts as foreign.
Restores ==
    \A b \in Boards : \A d \in Deals \ (foreign[b] \cup upset[b]) : \A r \in Requests :
        Moving(r, b, d) =>
            IF pc[r] = "applied" THEN client[r] = "waiting" /\ stage[d] = to[r]
                                 ELSE prev[r][d] = stage[d]

\* With no move of a deal under way, the board shows it as it is.
Settled ==
    \A b \in Boards : \A d \in Deals \ (foreign[b] \cup upset[b]) :
        (\A r \in Requests : ~ Moving(r, b, d)) => seen[b][d] = stage[d]

\* What a fetch has read of deals that nobody has written since is still so, and a move
\* cancels the fetch it would cross.
Reads ==
    /\ \A b \in Boards : \A d \in fresh[b] : got[b][d] = stage[d]
    /\ \A b \in fetching : \A d \in Deals \ dirty[b] : \A r \in Requests : ~ Moving(r, b, d)

BoardInv == OneMove /\ Restores /\ Settled /\ Reads

IInv == TypeOK /\ TrailInv /\ BoardInv

-----------------------------------------------------------------------------
(* Types *)

LEMMA DealFacts == /\ DealCount \in Nat /\ Deals \subseteq Nat /\ 0 \notin Deals
                   /\ MaxFetches \in Nat /\ MaxFailures \in Nat /\ None \notin Stages
<1>1. DealCount \in Nat /\ MaxFetches \in Nat /\ MaxFailures \in Nat /\ None \notin Stages
  BY BoardAssumption
<1>2. Deals \subseteq Nat /\ 0 \notin Deals
  BY <1>1 DEF Deals
<1> QED BY <1>1, <1>2

LEMMA TypeInit == Init => TypeOK
BY DealFacts DEF Init, TypeOK, Unread, Deals

LEMMA TypeFetch == ASSUME NEW b \in Boards, Fetch(b), TypeOK PROVE TypeOK'
<1>1. CASE StartFetch(b)
  BY <1>1, DealFacts DEF StartFetch, TypeOK, Unread, rows, request, asked, Deals
<1>2. CASE ReadDeal(b)
  <2>1. upTo[b] + 1 \in Deals
    BY <1>2, DealFacts DEF ReadDeal, TypeOK, Deals
  <2> QED BY <1>2, <2>1, DealFacts DEF ReadDeal, TypeOK, rows, request, asked, bounds, Deals
<1>3. CASE FinishFetch(b)
  BY <1>3 DEF FinishFetch, TypeOK, rows, request, asked, bounds
<1>4. CASE FetchFails(b)
  BY <1>4, DealFacts DEF FetchFails, Lose, TypeOK, rows, request, asked, history
<1> QED BY <1>1, <1>2, <1>3, <1>4 DEF Fetch

LEMMA TypeMove ==
    ASSUME NEW b \in Boards, NEW r \in Requests, NEW d \in Deals, NEW s \in Stages,
           Move(b, r, d, s), TypeOK
    PROVE  TypeOK'
BY DEF Move, Goto, Settle, TypeOK, rows, bounds

LEMMA TypeAnswer == ASSUME NEW r \in Requests, Answer(r), TypeOK PROVE TypeOK'
<1>1. CASE Confirm(r)
  BY <1>1 DEF Confirm, Settle, TypeOK, rows, query, request, asked, bounds, history
<1>2. CASE LoseConnection(r)
  BY <1>2, DealFacts
     DEF LoseConnection, Lose, Settle, TypeOK, rows, query, request, asked
<1>3. CASE RollBack(r)
  <2>1. pc[r] # "new"
    BY <1>3 DEF RollBack, TypeOK
  <2> QED BY <1>3, <2>1 DEF RollBack, Settle, TypeOK, rows, query, request, asked, bounds
<1> QED BY <1>1, <1>2, <1>3 DEF Answer

LEMMA TypeServe == ASSUME NEW r \in Requests, Serve(r), TypeOK, LockInv PROVE TypeOK'
<1>1. CASE LockRow(r)
  BY <1>1 DEF LockRow, Goto, TypeOK, rows, query, asked, bounds, history
<1>2. CASE Apply(r)
  <2>1. /\ deal[r] \in Deals /\ to[r] \in Stages
        /\ pc' \in [Requests -> {"new", "sent", "locked", "applied", "refused", "lost"}]
    BY <1>2 DEF Apply, Goto, TypeOK
  <2>2. from[r] \in Stages
    BY <1>2, <2>1 DEF Apply, LockInv, TypeOK
  <2>3. trail' \in [Deals -> Seq(Stages \X Stages)]
    BY <1>2, <2>1, <2>2 DEF Apply, TypeOK
  <2> QED BY <1>2, <2>1, <2>3 DEF Apply, Goto, TypeOK, query, request, asked, bounds
<1>3. CASE Refuse(r) \/ Vanish(r)
  BY <1>3 DEF Refuse, Vanish, Goto, TypeOK, rows, query, request, asked, bounds, history
<1> QED BY <1>1, <1>2, <1>3 DEF Serve

-----------------------------------------------------------------------------
(* The trail *)

\* Steps that neither write a deal nor take or change a lock.
LEMMA TrailKept ==
    ASSUME TrailInv, UNCHANGED <<stage, trail>>,
           \A r \in Requests : pc'[r] = "locked" =>
               pc[r] = "locked" /\ deal'[r] = deal[r] /\ from'[r] = from[r]
    PROVE  TrailInv'
BY DEF TrailInv, LockInv, TrailLeadsToStage

LEMMA TrailFetch == ASSUME NEW b \in Boards, Fetch(b), TrailInv PROVE TrailInv'
<1>1. UNCHANGED <<stage, trail, pc, deal, from>>
  BY DEF Fetch, StartFetch, ReadDeal, FinishFetch, FetchFails, rows, request, asked
<1> QED BY <1>1, TrailKept

LEMMA TrailMove ==
    ASSUME NEW b \in Boards, NEW r \in Requests, NEW d \in Deals, NEW s \in Stages,
           Move(b, r, d, s), TypeOK, TrailInv
    PROVE  TrailInv'
<1>1. UNCHANGED <<stage, trail, from>>
  BY DEF Move, rows
<1>2. ASSUME NEW q \in Requests, pc'[q] = "locked"
      PROVE  pc[q] = "locked" /\ deal'[q] = deal[q]
  BY <1>2 DEF Move, Goto, TypeOK
<1> QED BY <1>1, <1>2, TrailKept

LEMMA TrailAnswer == ASSUME NEW r \in Requests, Answer(r), TrailInv PROVE TrailInv'
<1>1. UNCHANGED <<stage, trail, pc, deal, from>>
  BY DEF Answer, Confirm, LoseConnection, RollBack, rows, request, asked
<1> QED BY <1>1, TrailKept

\* The entry continues the chain, because nobody wrote the row since it was locked.
LEMMA TrailApply ==
    ASSUME NEW r \in Requests, Apply(r), TypeOK, TrailInv PROVE TrailInv'
<1> DEFINE d == deal[r]
           t == trail[d]
<1>1. /\ pc[r] = "locked" /\ from[r] = stage[d] /\ d \in Deals /\ to[r] \in Stages
      /\ t \in Seq(Stages \X Stages) /\ stage[d] \in Stages
  BY DEF Apply, TrailInv, LockInv, TypeOK
<1>2. LockInv'
  <2>1. ASSUME NEW q \in Requests, pc'[q] = "locked"
        PROVE  q # r /\ pc[q] = "locked" /\ deal[q] # d
    BY <2>1, <1>1 DEF Apply, Goto, TypeOK, TrailInv, LockInv
  <2>2. UNCHANGED <<deal, from>>
    BY DEF Apply, request, asked
  <2>3. \A e \in Deals \ {d} : stage'[e] = stage[e]
    BY <1>1 DEF Apply, TypeOK
  <2>4. \A q \in Requests : pc[q] = "locked" => deal[q] \in Deals
    BY DEF TypeOK
  <2> QED BY <2>1, <2>2, <2>3, <2>4 DEF TrailInv, LockInv
<1>3. TrailLeadsToStage'
  <2> SUFFICES ASSUME NEW e \in Deals
               PROVE  /\ \A n \in 2 .. Len(trail'[e]) : trail'[e][n][1] = trail'[e][n - 1][2]
                      /\ trail'[e] # <<>> => stage'[e] = trail'[e][Len(trail'[e])][2]
    BY DEF TrailLeadsToStage
  <2>0. /\ \A n \in 2 .. Len(trail[e]) : trail[e][n][1] = trail[e][n - 1][2]
        /\ trail[e] # <<>> => stage[e] = trail[e][Len(trail[e])][2]
    BY DEF TrailInv, TrailLeadsToStage
  <2>1. CASE e # d
    BY <2>0, <2>1, <1>1 DEF Apply, TypeOK
  <2>2. CASE e = d /\ from[r] = to[r]
    BY <2>0, <2>2, <1>1 DEF Apply, TypeOK
  <2>3. CASE e = d /\ from[r] # to[r]
    <3> DEFINE u == Append(t, <<stage[d], to[r]>>)
    <3>1. trail'[e] = u /\ stage'[e] = to[r]
      BY <2>3, <1>1 DEF Apply, TypeOK
    <3>2. /\ Len(u) = Len(t) + 1 /\ u[Len(u)] = <<stage[d], to[r]>>
          /\ \A n \in 1 .. Len(t) : u[n] = t[n]
      BY <1>1
    <3>3. Len(t) \in Nat /\ (t = <<>> <=> Len(t) = 0)
      BY <1>1
    <3>4. ASSUME NEW n \in 2 .. Len(u) PROVE u[n][1] = u[n - 1][2]
      <4>1. CASE n = Len(u)
        <5>1. n - 1 = Len(t) /\ t # <<>> /\ u[n - 1] = t[Len(t)]
          BY <4>1, <3>2, <3>3
        <5>2. stage[d] = t[Len(t)][2]
          BY <5>1, <2>0, <2>3
        <5> QED BY <4>1, <5>1, <5>2, <3>2
      <4>2. CASE n # Len(u)
        <5>1. n \in 2 .. Len(t) /\ n - 1 \in 1 .. Len(t)
          BY <4>2, <3>2, <3>3
        <5> QED BY <5>1, <3>2, <2>0, <2>3
      <4> QED BY <4>1, <4>2
    <3>5. u[Len(u)][2] = to[r]
      BY <3>2
    <3> HIDE DEF u
    <3> QED BY <3>1, <3>4, <3>5
  <2> QED BY <2>1, <2>2, <2>3
<1> QED BY <1>2, <1>3 DEF TrailInv

LEMMA TrailServe == ASSUME NEW r \in Requests, Serve(r), TypeOK, TrailInv PROVE TrailInv'
<1>1. CASE LockRow(r)
  <2>1. UNCHANGED <<stage, trail, deal>>
    BY <1>1 DEF LockRow, rows, asked
  <2>2. ASSUME NEW q \in Requests, pc'[q] = "locked"
        PROVE  /\ q # r => pc[q] = "locked" /\ deal[q] # deal[r] /\ from'[q] = from[q]
               /\ q = r => from'[q] = stage[deal[q]]
    BY <1>1, <2>2 DEF LockRow, Goto, TypeOK
  <2> QED BY <2>1, <2>2 DEF TrailInv, LockInv, TrailLeadsToStage
<1>2. CASE Apply(r)
  BY <1>2, TrailApply
<1>3. CASE Refuse(r) \/ Vanish(r)
  <2>1. UNCHANGED <<stage, trail, deal, from>>
    BY <1>3 DEF Refuse, Vanish, rows, request, asked
  <2>2. ASSUME NEW q \in Requests, pc'[q] = "locked" PROVE pc[q] = "locked"
    BY <1>3, <2>2 DEF Refuse, Vanish, Goto, TypeOK
  <2> QED BY <2>1, <2>2, TrailKept
<1> QED BY <1>1, <1>2, <1>3 DEF Serve

-----------------------------------------------------------------------------
(* The boards *)

LEMMA BoardFetch ==
    ASSUME NEW b \in Boards, Fetch(b), TypeOK, BoardInv PROVE BoardInv'
<1>1. UNCHANGED <<stage, pc, client, board, deal, to, prev>>
  BY DEF Fetch, StartFetch, ReadDeal, FinishFetch, FetchFails, rows, request, asked
<1>2. CASE StartFetch(b)
  <2>1. UNCHANGED <<seen, foreign, upset>> /\ fetching' = fetching \cup {b}
    BY <1>2 DEF StartFetch
  <2>2. OneMove' /\ Restores' /\ Settled'
    BY <1>1, <2>1 DEF BoardInv, OneMove, Restores, Settled, Moving
  <2>3. \A c \in Boards : \A d \in fresh'[c] : c # b /\ d \in fresh[c] /\ got'[c][d] = got[c][d]
    BY <1>2 DEF StartFetch, TypeOK
  <2>4. ASSUME NEW d \in Deals \ dirty'[b], NEW r \in Requests PROVE ~ Moving(r, b, d)
    BY <1>2, <2>4 DEF StartFetch, TypeOK, MovesOf, InFlight, Moving
  <2>5. \A c \in Boards \ {b} : dirty'[c] = dirty[c]
    BY <1>2 DEF StartFetch, TypeOK
  <2>6. Reads'
    BY <1>1, <2>1, <2>3, <2>4, <2>5 DEF BoardInv, Reads, Moving, TypeOK
  <2> QED BY <2>2, <2>6 DEF BoardInv
<1>3. CASE ReadDeal(b)
  <2>1. UNCHANGED <<seen, foreign, upset, fetching, dirty>>
    BY <1>3 DEF ReadDeal
  <2>2. OneMove' /\ Restores' /\ Settled'
    BY <1>1, <2>1 DEF BoardInv, OneMove, Restores, Settled, Moving
  <2>3. upTo[b] + 1 \in Deals
    BY <1>3, DealFacts DEF ReadDeal, TypeOK, Deals
  <2>4. ASSUME NEW c \in Boards, NEW d \in fresh'[c] PROVE got'[c][d] = stage[d]
    <3>1. CASE c = b /\ d = upTo[b] + 1
      BY <1>3, <2>3, <3>1 DEF ReadDeal, TypeOK
    <3>2. CASE ~ (c = b /\ d = upTo[b] + 1)
      <4>1. d \in fresh[c] /\ d \in Deals
        BY <1>3, <2>4, <2>3, <3>2 DEF ReadDeal, TypeOK
      <4>2. got'[c][d] = got[c][d]
        BY <1>3, <2>3, <3>2, <4>1 DEF ReadDeal, TypeOK
      <4> QED BY <4>1, <4>2 DEF BoardInv, Reads
    <3> QED BY <3>1, <3>2
  <2>5. Reads'
    BY <1>1, <2>1, <2>4 DEF BoardInv, Reads, Moving
  <2> QED BY <2>2, <2>5 DEF BoardInv
<1>4. CASE FinishFetch(b)
  <2>1. UNCHANGED <<got, fresh, dirty>> /\ fetching' = fetching \ {b} /\ b \in fetching
    BY <1>4 DEF FinishFetch
  <2>2. Reads'
    BY <1>1, <2>1 DEF BoardInv, Reads, Moving
  <2>3. \A c \in Boards \ {b} : seen'[c] = seen[c] /\ foreign'[c] = foreign[c] /\ upset'[c] = upset[c]
    BY <1>4 DEF FinishFetch, TypeOK
  <2>4. seen'[b] = got[b] /\ foreign'[b] = Deals \ fresh[b] /\ upset'[b] = dirty[b]
    BY <1>4 DEF FinishFetch, TypeOK
  <2>5. \A d \in Deals \ upset'[b] : \A r \in Requests : ~ Moving(r, b, d)
    BY <2>1, <2>4 DEF BoardInv, Reads
  <2>6. \A d \in Deals \ (foreign'[b] \cup upset'[b]) : seen'[b][d] = stage[d]
    BY <2>4 DEF BoardInv, Reads
  <2>7. OneMove'
    BY <1>1, <2>3, <2>5 DEF BoardInv, OneMove, Moving
  <2>8. Restores'
    BY <1>1, <2>3, <2>5 DEF BoardInv, Restores, Moving
  <2>9. Settled'
    BY <1>1, <2>3, <2>6 DEF BoardInv, Settled, Moving
  <2> QED BY <2>2, <2>7, <2>8, <2>9 DEF BoardInv
<1>5. CASE FetchFails(b)
  <2>1. UNCHANGED <<seen, foreign, upset, got, fresh, dirty>> /\ fetching' = fetching \ {b}
    BY <1>5 DEF FetchFails, history
  <2> QED BY <1>1, <2>1 DEF BoardInv, OneMove, Restores, Settled, Reads, Moving
<1> QED BY <1>2, <1>3, <1>4, <1>5 DEF Fetch

\* The first move of a deal takes a snapshot that shows it as it is.
LEMMA BoardMove ==
    ASSUME NEW b \in Boards, NEW r \in Requests, NEW d \in Deals, NEW s \in Stages,
           Move(b, r, d, s), TypeOK, BoardInv
    PROVE  BoardInv'
<1>1. /\ UNCHANGED <<stage, got, foreign, fresh, dirty>>
      /\ fetching' = fetching \ {b} /\ client[r] = "none"
  BY DEF Move, rows, TypeOK
<1>2. /\ pc'[r] = "sent" /\ client'[r] = "waiting" /\ board'[r] = b /\ deal'[r] = d /\ prev'[r] = seen[b]
      /\ \A q \in Requests \ {r} : /\ pc'[q] = pc[q] /\ client'[q] = client[q]
                                   /\ board'[q] = board[q] /\ to'[q] = to[q]
                                   /\ deal'[q] = deal[q] /\ prev'[q] = prev[q]
  BY DEF Move, Goto, Settle, TypeOK
<1>3. \A c \in Boards : \A e \in Deals : ~ (c = b /\ e = d) => seen'[c][e] = seen[c][e]
  BY DEF Move, TypeOK
<1>4. \A c \in Boards : upset[c] \subseteq upset'[c]
  BY DEF Move, TypeOK
<1>5. d \notin upset'[b] => \A q \in Requests : ~ Moving(q, b, d)
  <2>1. MovesOf(b, d) # {} => d \in upset'[b]
    BY DEF Move, TypeOK
  <2> QED BY <2>1 DEF MovesOf, InFlight, Moving
<1>6. \A c \in Boards : \A e \in Deals : \A q \in Requests :
         Moving(q, c, e)' <=> (Moving(q, c, e) \/ (q = r /\ c = b /\ e = d))
  BY <1>1, <1>2 DEF Moving
<1>7. OneMove'
  BY <1>4, <1>5, <1>6 DEF BoardInv, OneMove
<1>8. Restores'
  <2> SUFFICES ASSUME NEW c \in Boards, NEW e \in Deals \ (foreign'[c] \cup upset'[c]),
                      NEW q \in Requests, Moving(q, c, e)'
               PROVE  IF pc'[q] = "applied" THEN client'[q] = "waiting" /\ stage'[e] = to'[q]
                                            ELSE prev'[q][e] = stage'[e]
    BY DEF Restores
  <2>1. CASE q = r
    <3>1. c = b /\ e = d
      BY <1>2, <2>1 DEF Moving
    <3> QED BY <1>1, <1>2, <1>4, <1>5, <2>1, <3>1 DEF BoardInv, Settled
  <2>2. CASE q # r
    BY <1>1, <1>2, <1>4, <1>6, <2>2 DEF BoardInv, Restores
  <2> QED BY <2>1, <2>2
<1>9. Settled'
  <2> SUFFICES ASSUME NEW c \in Boards, NEW e \in Deals \ (foreign'[c] \cup upset'[c]),
                      \A q \in Requests : ~ Moving(q, c, e)'
               PROVE  seen'[c][e] = stage'[e]
    BY DEF Settled
  <2>1. ~ (c = b /\ e = d) /\ \A q \in Requests : ~ Moving(q, c, e)
    BY <1>6
  <2> QED BY <2>1, <1>1, <1>3, <1>4 DEF BoardInv, Settled
<1>10. Reads'
  BY <1>1, <1>6 DEF BoardInv, Reads, TypeOK
<1> QED BY <1>7, <1>8, <1>9, <1>10 DEF BoardInv

LEMMA BoardConfirm ==
    ASSUME NEW r \in Requests, Confirm(r), TypeOK, BoardInv PROVE BoardInv'
<1> DEFINE b == board[r]
           d == deal[r]
<1>1. /\ UNCHANGED <<stage, pc, board, deal, to, prev, fetching, got>>
      /\ UNCHANGED <<foreign, fresh, upset, dirty>>
      /\ pc[r] = "applied" /\ Moving(r, b, d) /\ b \in Boards /\ d \in Deals
  BY DEF Confirm, rows, request, asked, query, history, Moving, TypeOK
<1>2. client'[r] = "over" /\ \A q \in Requests \ {r} : client'[q] = client[q]
  BY DEF Confirm, Settle, TypeOK
<1>3. /\ seen'[b][d] = to[r]
      /\ \A c \in Boards : \A e \in Deals : ~ (c = b /\ e = d) => seen'[c][e] = seen[c][e]
  BY <1>1 DEF Confirm, TypeOK
<1>4. \A c \in Boards : \A e \in Deals : \A q \in Requests :
         Moving(q, c, e)' <=> (Moving(q, c, e) /\ q # r)
  BY <1>1, <1>2 DEF Moving
<1>5. OneMove' /\ Restores' /\ Reads'
  BY <1>1, <1>2, <1>4 DEF BoardInv, OneMove, Restores, Reads, TypeOK
<1>6. Settled'
  <2> SUFFICES ASSUME NEW c \in Boards, NEW e \in Deals \ (foreign[c] \cup upset[c]),
                      \A q \in Requests : ~ Moving(q, c, e)'
               PROVE  seen'[c][e] = stage[e]
    BY <1>1 DEF Settled
  <2>1. CASE c = b /\ e = d
    BY <2>1, <1>1, <1>3 DEF BoardInv, Restores
  <2>2. CASE ~ (c = b /\ e = d)
    <3>1. ~ Moving(r, c, e)
      BY <2>2 DEF Moving
    <3> QED BY <2>2, <3>1, <1>3, <1>4 DEF BoardInv, Settled
  <2> QED BY <2>1, <2>2
<1> QED BY <1>5, <1>6 DEF BoardInv

LEMMA BoardRollBack ==
    ASSUME NEW r \in Requests, RollBack(r), TypeOK, BoardInv PROVE BoardInv'
<1> DEFINE b == board[r]
           d == deal[r]
<1>1. /\ UNCHANGED <<stage, pc, board, deal, to, prev, fetching, got, foreign, fresh, dirty>>
      /\ client[r] = "failed" \/ pc[r] = "refused"
      /\ Moving(r, b, d) /\ b \in Boards /\ d \in Deals
  BY DEF RollBack, rows, request, asked, query, Moving, TypeOK
<1>2. client'[r] = "over" /\ \A q \in Requests \ {r} : client'[q] = client[q]
  BY DEF RollBack, Settle, TypeOK
<1>3. seen'[b] = prev[r] /\ \A c \in Boards \ {b} : seen'[c] = seen[c]
  BY <1>1 DEF RollBack, TypeOK
<1>4. /\ \A c \in Boards : upset[c] \subseteq upset'[c]
      /\ \A e \in Deals \ upset'[b] : e # d => seen[b][e] = prev[r][e]
  BY <1>1 DEF RollBack, TypeOK
<1>5. \A c \in Boards : \A e \in Deals : \A q \in Requests :
         Moving(q, c, e)' <=> (Moving(q, c, e) /\ q # r)
  BY <1>1, <1>2 DEF Moving
<1>6. OneMove' /\ Restores' /\ Reads'
  BY <1>1, <1>2, <1>4, <1>5 DEF BoardInv, OneMove, Restores, Reads, TypeOK
<1>7. Settled'
  <2> SUFFICES ASSUME NEW c \in Boards, NEW e \in Deals \ (foreign[c] \cup upset'[c]),
                      \A q \in Requests : ~ Moving(q, c, e)'
               PROVE  seen'[c][e] = stage[e]
    BY <1>1 DEF Settled
  <2>1. CASE c = b /\ e = d
    BY <2>1, <1>1, <1>3, <1>4 DEF BoardInv, Restores
  <2>2. CASE ~ (c = b /\ e = d)
    <3>1. ~ Moving(r, c, e) /\ seen'[c][e] = seen[c][e]
      BY <2>2, <1>3, <1>4 DEF Moving
    <3> QED BY <3>1, <1>4, <1>5 DEF BoardInv, Settled
  <2> QED BY <2>1, <2>2
<1> QED BY <1>6, <1>7 DEF BoardInv

\* A request goes from one step of the server to the next without a write.
LEMMA BoardWait ==
    ASSUME NEW r \in Requests, LockRow(r) \/ Refuse(r) \/ Vanish(r), TypeOK, BoardInv
    PROVE  BoardInv'
<1>1. /\ UNCHANGED <<stage, seen, client, board, deal, to, prev, fetching, got>>
      /\ UNCHANGED <<foreign, fresh, upset, dirty>>
  BY DEF LockRow, Refuse, Vanish, rows, query, request, asked, history
<1>2. /\ pc[r] \in {"sent", "locked"} /\ pc'[r] \in {"locked", "refused", "lost"}
      /\ \A q \in Requests \ {r} : pc'[q] = pc[q]
  BY DEF LockRow, Refuse, Vanish, Goto, TypeOK
<1>3. /\ \A c \in Boards : \A e \in Deals : \A q \in Requests : Moving(q, c, e)' <=> Moving(q, c, e)
      /\ \A q \in Requests : pc'[q] = "applied" <=> pc[q] = "applied"
  BY <1>1, <1>2 DEF Moving
<1> QED BY <1>1, <1>3 DEF BoardInv, OneMove, Restores, Settled, Reads, TypeOK

\* A board that loses the answer to an applied move no longer knows the deal.
LEMMA BoardLose ==
    ASSUME NEW r \in Requests, LoseConnection(r), TypeOK, BoardInv PROVE BoardInv'
<1>1. /\ UNCHANGED <<stage, seen, pc, board, deal, to, prev, fetching, got, fresh, upset, dirty>>
      /\ client[r] = "waiting" /\ pc[r] # "new" /\ board[r] \in Boards
  BY DEF LoseConnection, rows, query, request, asked, TypeOK
<1>2. client'[r] = "failed" /\ \A q \in Requests \ {r} : client'[q] = client[q]
  BY DEF LoseConnection, Settle, TypeOK
<1>3. /\ pc[r] = "applied" => deal[r] \in foreign'[board[r]]
      /\ \A c \in Boards : foreign[c] \subseteq foreign'[c]
  BY <1>1 DEF LoseConnection, TypeOK
<1>4. \A c \in Boards : \A e \in Deals : \A q \in Requests : Moving(q, c, e)' <=> Moving(q, c, e)
  BY <1>1, <1>2 DEF Moving
<1>5. Restores'
  BY <1>1, <1>2, <1>3, <1>4 DEF BoardInv, Restores, Moving
<1> QED BY <1>1, <1>3, <1>4, <1>5 DEF BoardInv, OneMove, Settled, Reads, TypeOK

\* What the server writes is foreign to the boards that do not wait for it, and what the
\* one that does will confirm.
LEMMA BoardApply ==
    ASSUME NEW r \in Requests, Apply(r), TypeOK, BoardInv PROVE BoardInv'
<1> DEFINE b == board[r]
           d == deal[r]
<1>1. /\ UNCHANGED <<seen, client, board, deal, to, prev, fetching, got, upset, dirty>>
      /\ pc[r] = "locked" /\ b \in Boards /\ d \in Deals
  BY DEF Apply, query, request, asked, TypeOK
<1>2. pc'[r] = "applied" /\ \A q \in Requests \ {r} : pc'[q] = pc[q]
  BY DEF Apply, Goto, TypeOK
<1>3. stage'[d] = to[r] /\ \A e \in Deals \ {d} : stage'[e] = stage[e]
  BY <1>1 DEF Apply, TypeOK
<1>4. /\ \A c \in Boards : fresh'[c] = fresh[c] \ {d} /\ foreign[c] \ {d} \subseteq foreign'[c]
      /\ \A c \in Boards : d \notin foreign'[c] => c = b /\ client[r] = "waiting"
  BY DEF Apply
<1>5. \A c \in Boards : \A e \in Deals : \A q \in Requests : Moving(q, c, e)' <=> Moving(q, c, e)
  BY <1>1, <1>2 DEF Moving
<1>6. OneMove'
  BY <1>1, <1>5 DEF BoardInv, OneMove
<1>7. Restores'
  <2> SUFFICES ASSUME NEW c \in Boards, NEW e \in Deals \ (foreign'[c] \cup upset[c]),
                      NEW q \in Requests, Moving(q, c, e)
               PROVE  IF pc'[q] = "applied" THEN client[q] = "waiting" /\ stage'[e] = to[q]
                                            ELSE prev[q][e] = stage'[e]
    BY <1>1, <1>5 DEF Restores
  <2>1. CASE e = d
    <3>1. c = b /\ client[r] = "waiting" /\ Moving(r, b, d)
      BY <1>4, <2>1 DEF Moving
    <3>2. q = r
      BY <1>1, <2>1, <3>1 DEF BoardInv, OneMove
    <3> QED BY <1>2, <1>3, <2>1, <3>1, <3>2
  <2>2. CASE e # d
    <3>1. e \notin foreign[c] /\ q # r
      BY <1>4, <2>2 DEF Moving
    <3> QED BY <1>2, <1>3, <2>2, <3>1 DEF BoardInv, Restores
  <2> QED BY <2>1, <2>2
<1>8. Settled'
  <2> SUFFICES ASSUME NEW c \in Boards, NEW e \in Deals \ (foreign'[c] \cup upset[c]),
                      \A q \in Requests : ~ Moving(q, c, e)
               PROVE  seen[c][e] = stage'[e]
    BY <1>1, <1>5 DEF Settled
  <2>1. e # d
    BY <1>1, <1>4 DEF Moving
  <2>2. e \notin foreign[c]
    BY <1>4, <2>1
  <2> QED BY <1>3, <2>1, <2>2 DEF BoardInv, Settled
<1>9. Reads'
  <2>1. \A c \in Boards : \A e \in fresh'[c] : e \in fresh[c] /\ e \in Deals \ {d}
    BY <1>4 DEF TypeOK
  <2> QED BY <1>1, <1>3, <1>5, <2>1 DEF BoardInv, Reads, TypeOK
<1> QED BY <1>6, <1>7, <1>8, <1>9 DEF BoardInv

-----------------------------------------------------------------------------
(* The inductive invariant *)

LEMMA InitInv == Init => IInv
<1> SUFFICES ASSUME Init PROVE IInv
  OBVIOUS
<1>1. TypeOK
  BY TypeInit
<1>2. TrailInv
  BY DEF Init, TrailInv, LockInv, TrailLeadsToStage
<1>3. BoardInv
  BY DEF Init, BoardInv, OneMove, Restores, Settled, Reads
<1> QED BY <1>1, <1>2, <1>3 DEF IInv

LEMMA StepInv == IInv /\ [Next]_vars => IInv'
<1> SUFFICES ASSUME IInv, [Next]_vars PROVE IInv'
  OBVIOUS
<1> USE DEF IInv
<1>0. LockInv
  BY DEF TrailInv
<1>1. ASSUME NEW b \in Boards, Fetch(b) PROVE IInv'
  BY <1>1, TypeFetch, TrailFetch, BoardFetch
<1>2. ASSUME NEW b \in Boards, NEW r \in Requests, NEW d \in Deals, NEW s \in Stages,
             Move(b, r, d, s)
      PROVE  IInv'
  BY <1>2, TypeMove, TrailMove, BoardMove
<1>3. ASSUME NEW r \in Requests, Serve(r) PROVE IInv'
  <2>1. BoardInv'
    BY <1>3, BoardWait, BoardApply DEF Serve
  <2> QED BY <1>0, <1>3, <2>1, TypeServe, TrailServe
<1>4. ASSUME NEW r \in Requests, Answer(r) PROVE IInv'
  <2>1. BoardInv'
    BY <1>4, BoardConfirm, BoardLose, BoardRollBack DEF Answer
  <2> QED BY <1>4, <2>1, TypeAnswer, TrailAnswer
<1>5. ASSUME NEW d \in Deals, DeleteLead(d) PROVE IInv'
  <2>1. /\ UNCHANGED <<stage, trail, seen, pc, client, query, request, bounds, history>>
        /\ gone' \subseteq Deals
    BY <1>5 DEF DeleteLead, TypeOK
  <2>2. TypeOK'
    BY <2>1 DEF TypeOK, query, request, asked, bounds, history
  <2>3. TrailInv'
    BY <2>1, TrailKept DEF request, asked
  <2>4. BoardInv'
    BY <2>1 DEF query, request, asked, history, BoardInv, OneMove, Restores, Settled, Reads, Moving
  <2> QED BY <2>2, <2>3, <2>4
<1>6. CASE UNCHANGED vars
  <2>1. UNCHANGED <<stage, trail, gone, seen, pc, client, query, request, bounds, history>>
    BY <1>6 DEF vars, rows
  <2>2. TypeOK'
    BY <2>1 DEF TypeOK, query, request, asked, bounds, history
  <2>3. TrailInv'
    BY <2>1, TrailKept DEF request, asked
  <2>4. BoardInv'
    BY <2>1 DEF query, request, asked, history, BoardInv, OneMove, Restores, Settled, Reads, Moving
  <2> QED BY <2>2, <2>3, <2>4
<1> QED BY <1>1, <1>2, <1>3, <1>4, <1>5, <1>6 DEF Next

LEMMA Invariant == Spec => []IInv
BY InitInv, StepInv, PTL DEF Spec

\* The state of boards, requests and rows keeps its types.
THEOREM TypeCorrect == Spec => []TypeOK
<1>1. IInv => TypeOK
  BY DEF IInv
<1> QED BY <1>1, Invariant, PTL

\* Each stage change of a deal starts where the one before it ended, and the last one
\* ended where the deal is: concurrent PATCHes cannot lose the basis of an entry.
THEOREM TrailTheorem == Spec => []TrailLeadsToStage
<1>1. IInv => TrailLeadsToStage
  BY DEF IInv, TrailInv
<1> QED BY <1>1, Invariant, PTL

\* A board shows the server's stage of every deal that only it has moved, once its moves
\* are over, but for those that crossed or were rolled back by another, and those the server
\* applied for a board that had given up or had lost the answer.
THEOREM SettledTheorem == Spec => []SettledBoardIsTrue
<1>1. IInv => SettledBoardIsTrue
  BY DEF IInv, BoardInv, Settled, SettledBoardIsTrue, MovesOf, InFlight, Moving
<1> QED BY <1>1, Invariant, PTL

=============================================================================
