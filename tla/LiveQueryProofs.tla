--------------------------- MODULE LiveQueryProofs ---------------------------
(***************************************************************************)
(* What a live query shows, for any number of accounts, clients and        *)
(* subscriptions and without bounds on commits, failures and queues: data  *)
(* of the account the session's key is locked to only, and never data      *)
(* older than the batch it is labelled with.  And for the delta            *)
(* subscriptions: no batch is missing but those of a lag the client was     *)
(* told of, however often it lags.                                         *)
(***************************************************************************)
EXTENDS LiveQuery, QueueLemmas, FiniteSetTheorems, TLAPS

-----------------------------------------------------------------------------
(* Sequences.                                                              *)

\* The elements of two sequences joined.
LEMMA ConcatElements ==
  ASSUME NEW T, NEW p \in Seq(T), NEW q \in Seq(T)
  PROVE  /\ p \o q \in Seq(T) /\ Len(p \o q) = Len(p) + Len(q)
         /\ \A j \in 1..Len(p) : (p \o q)[j] = p[j]
         /\ \A j \in 1..Len(q) : (p \o q)[Len(p) + j] = q[j]
OBVIOUS

\* A sequence without its i-th element has elements of the sequence only.
LEMMA RemoveAtElements ==
  ASSUME NEW T, NEW q \in Seq(T), NEW i \in DOMAIN q
  PROVE  /\ RemoveAt(q, i) \in Seq(T)
         /\ \A j \in DOMAIN RemoveAt(q, i) : \E k \in DOMAIN q : RemoveAt(q, i)[j] = q[k]
<1> DEFINE left == SubSeq(q, 1, i - 1)
           right == SubSeq(q, i + 1, Len(q))
<1>1. i \in 1..Len(q) /\ Len(q) \in Nat
  OBVIOUS
<1>2. left \in Seq(T) /\ Len(left) = i - 1 /\ \A j \in 1..(i - 1) : left[j] = q[j]
  BY <1>1
<1>3. right \in Seq(T) /\ Len(right) = Len(q) - i
      /\ \A j \in 1..(Len(q) - i) : right[j] = q[i + j]
  BY <1>1
<1>4. RemoveAt(q, i) = left \o right
  BY DEF RemoveAt
<1> HIDE DEF left, right
<1>5. left \o right \in Seq(T) /\ Len(left \o right) = Len(q) - 1
  BY <1>1, <1>2, <1>3, ConcatElements
<1>6. ASSUME NEW j \in 1..(Len(q) - 1)
      PROVE  \E k \in DOMAIN q : (left \o right)[j] = q[k]
  <2>1. CASE j < i
    <3>1. j \in 1..(i - 1) /\ j \in DOMAIN q
      BY <1>1, <2>1
    <3>2. (left \o right)[j] = left[j]
      BY <1>2, <1>3, <3>1, ConcatElements
    <3> QED BY <1>2, <3>1, <3>2
  <2>2. CASE ~(j < i)
    <3> DEFINE m == j - (i - 1)
    <3>1. m \in 1..(Len(q) - i) /\ j = (i - 1) + m /\ i + m \in DOMAIN q
      BY <1>1, <2>2
    <3> HIDE DEF m
    <3>2. (left \o right)[j] = right[m]
      BY <1>2, <1>3, <3>1, ConcatElements
    <3> QED BY <1>3, <3>1, <3>2
  <2> QED BY <1>1, <2>1, <2>2
<1>7. DOMAIN (left \o right) = 1..(Len(q) - 1)
  BY <1>1, <1>5
<1> QED BY <1>4, <1>5, <1>6, <1>7

-----------------------------------------------------------------------------
(* Type correctness.                                                       *)

\* spawn_evaluation adds well-formed evaluations.
LEMMA SpawnedTypes ==
  ASSUME TypeOK, NEW c \in Conns, NEW subs, NEW S \in SUBSET SubIds, NEW waiting, NEW batch,
         \A s \in S : subs[s] \in QuerySub /\ batch[s] \in Nat,
         Spawned(c, subs, S, waiting, batch)
  PROVE  /\ evals' \in [Conns -> [SubIds -> Seq(Evaluation)]]
         /\ overlooked' \in [Conns -> [SubIds -> {"no", "marked", "yes"}]]
<1> DEFINE e(s) == [account |-> subs[s].account, tables |-> subs[s].tables,
                    batch |-> batch[s], status |-> "spawned", upTo |-> 0]
<1>1. \A s \in S : e(s) \in Evaluation
  BY DEF QuerySub, Evaluation
<1>2. evals' = [evals EXCEPT ![c] = [s \in SubIds |->
                  IF s \in S THEN Append(evals[c][s], e(s)) ELSE evals[c][s]]]
  BY DEF Spawned, TypeOK
<1> HIDE DEF e
<1>3. \A s \in S : Append(evals[c][s], e(s)) \in Seq(Evaluation)
  BY <1>1, AppendElements DEF TypeOK
<1>4. evals' \in [Conns -> [SubIds -> Seq(Evaluation)]]
  BY <1>2, <1>3 DEF TypeOK
<1>5. overlooked' \in [Conns -> [SubIds -> {"no", "marked", "yes"}]]
  BY DEF Spawned, TypeOK
<1> QED BY <1>4, <1>5

\* Marking subscriptions keeps their types.
LEMMA StartedTypes ==
  ASSUME NEW subs \in [SubIds -> QuerySub \cup {Nothing}], NEW S \in SUBSET SubIds,
         \A s \in S : subs[s] \in QuerySub
  PROVE  Started(subs, S) \in [SubIds -> QuerySub \cup {Nothing}]
BY DEF Started, QuerySub

LEMMA MarkedTypes ==
  ASSUME NEW subs \in [SubIds -> QuerySub \cup {Nothing}], NEW S \in SUBSET SubIds,
         \A s \in S : subs[s] \in QuerySub, NEW n \in Notification
  PROVE  Marked(subs, S, n) \in [SubIds -> QuerySub \cup {Nothing}]
BY DEF Marked, QuerySub, Notification

\* The announcement of a change.
LEMMA AnnouncedTypes ==
  ASSUME TypeOK, NEW a \in Accounts, announced[a] < Len(changes[a])
  PROVE  Announced(a) \in Notification
<1>1. announced[a] \in Nat /\ changes[a] \in Seq(Change)
  BY DEF TypeOK
<1>2. announced[a] + 1 \in DOMAIN changes[a]
  BY <1>1
<1>3. changes[a][announced[a] + 1] \in Change
  BY <1>1, <1>2
<1> QED BY <1>1, <1>3 DEF Announced, Notification, Change

\* A client that is told that it lags keeps its delta subscriptions.
LEMMA ToldTypes ==
  ASSUME TypeOK, NEW subs \in [SubIds -> DeltaSub \cup {Nothing}]
  PROVE  ToldOfLag(subs) \in [SubIds -> DeltaSub \cup {Nothing}]
<1>1. \A s \in SubIds : Live(subs, s) =>
        [subs[s] EXCEPT !.since = announced[subs[s].account]] \in DeltaSub
  BY DEF TypeOK, DeltaSub, Live
<1> QED BY <1>1 DEF ToldOfLag

LEMMA TypeInit == Init => TypeOK
BY DEF Init, TypeOK, NoSubs, NoEvals

\* The subscriptions a step looks at have the type of a subscription.
LEMMA LiveTypes ==
  ASSUME TypeOK, NEW c \in Conns, NEW s \in SubIds, Live(querySubs[c], s)
  PROVE  querySubs[c][s] \in QuerySub
BY DEF TypeOK, Live

\* Steps of the store writers.
LEMMA TypeWriter ==
  ASSUME TypeOK, NEW a \in Accounts, Writer(a)
  PROVE  TypeOK'
<1>1. CASE Announce(a)
  <2>1. Announced(a) \in Notification
    BY <1>1, AnnouncedTypes DEF Announce
  <2>2. \A c \in Conns : /\ Append(inbox[c], Announced(a)) \in Seq(Notification)
                         /\ Tail(Append(inbox[c], Announced(a))) \in Seq(Notification)
    <3> TAKE c \in Conns
    <3>1. inbox[c] \in Seq(Notification)
      BY DEF TypeOK
    <3>2. Append(inbox[c], Announced(a)) \in Seq(Notification)
          /\ Append(inbox[c], Announced(a)) # <<>>
      BY <2>1, <3>1
    <3> QED BY <3>2
  <2>3. inbox' \in [Conns -> Seq(Notification)]
    BY <1>1, <2>2 DEF Announce, TypeOK
  <2>4. announced' \in [Accounts -> Nat] /\ missed' \in [Conns -> BOOLEAN]
    BY <1>1 DEF Announce, TypeOK
  <2> QED BY <1>1, <2>3, <2>4 DEF Announce, TypeOK, sessionVars
<1>2. CASE \E tables \in Batches, silent \in BOOLEAN : Commit(a, tables, silent)
  <2>1. PICK tables \in Batches, silent \in BOOLEAN : Commit(a, tables, silent)
    BY <1>2
  <2>2. PICK listed \in SUBSET tables :
          changes' = [changes EXCEPT ![a] =
                        Append(@, [tables |-> tables, listed |-> listed, silent |-> silent])]
    BY <2>1 DEF Commit
  <2>3. [tables |-> tables, listed |-> listed, silent |-> silent] \in Change
    BY LiveQueryAssumption DEF Change
  <2>4. changes' \in [Accounts -> Seq(Change)]
    BY <2>2, <2>3 DEF TypeOK
  <2>5. announced' \in [Accounts -> Nat]
    BY <2>1 DEF Commit, TypeOK
  <2> QED BY <2>1, <2>4, <2>5 DEF Commit, TypeOK, sessionVars
<1> QED BY <1>1, <1>2 DEF Writer

\* What a client does.
LEMMA TypeClient ==
  ASSUME TypeOK, NEW c \in Conns, Client(c)
  PROVE  TypeOK'
<1>1. CASE \E locked \in Keyed \cup {Nothing} : Upgrade(c, locked)
  <2>1. PICK locked \in Keyed \cup {Nothing} : Upgrade(c, locked)
    BY <1>1
  <2>2. conn' \in [Conns -> {"none", "upgrading", "open"}]
    BY <2>1 DEF Upgrade, TypeOK
  <2>3. key' \in [Conns -> Accounts \cup {Nothing}]
    BY <2>1, LiveQueryAssumption DEF Upgrade, TypeOK
  <2>4. overlapped' \subseteq Conns
    BY <2>1 DEF Upgrade, TypeOK
  <2> QED BY <2>1, <2>2, <2>3, <2>4 DEF Upgrade, TypeOK, storeVars, sessionVars
<1>2. CASE Disconnect(c)
  <2>1. conn' \in [Conns -> {"none", "upgrading", "open"}]
        /\ key' \in [Conns -> Accounts \cup {Nothing}]
    BY <1>2 DEF Disconnect, TypeOK
  <2>2. inbox' \in [Conns -> Seq(Notification)] /\ missed' \in [Conns -> BOOLEAN]
    BY <1>2 DEF Disconnect, TypeOK
  <2>3. NoSubs \in [SubIds -> QuerySub \cup {Nothing}]
        /\ NoSubs \in [SubIds -> DeltaSub \cup {Nothing}]
        /\ NoSubs \in [SubIds -> QuerySnapshot \cup {Nothing}]
        /\ NoEvals \in [SubIds -> Seq(Evaluation)]
    BY DEF NoSubs, NoEvals
  <2>4. /\ querySubs' \in [Conns -> [SubIds -> QuerySub \cup {Nothing}]]
        /\ deltaSubs' \in [Conns -> [SubIds -> DeltaSub \cup {Nothing}]]
        /\ shown' \in [Conns -> [SubIds -> QuerySnapshot \cup {Nothing}]]
    BY <1>2, <2>3 DEF Disconnect, TypeOK
  <2>5. evals' \in [Conns -> [SubIds -> Seq(Evaluation)]]
        /\ outcomes' \in [Conns -> Seq(Outcome)]
    BY <1>2, <2>3 DEF Disconnect, TypeOK
  <2>6. /\ overlooked' \in [Conns -> [SubIds -> {"no", "marked", "yes"}]]
        /\ overlapped' \subseteq Conns
    BY <1>2 DEF Disconnect, TypeOK
  <2> QED BY <1>2, <2>1, <2>2, <2>4, <2>5, <2>6 DEF Disconnect, TypeOK, storeVars
<1>3. ASSUME NEW s \in SubIds, NEW a \in Accounts, NEW tables \in Queries,
             SubscribeQuery(c, s, a, tables)
      PROVE  TypeOK'
  <2>1. querySubs' \in [Conns -> [SubIds -> QuerySub \cup {Nothing}]]
        /\ querySubs'[c][s] \in QuerySub
    BY <1>3, LiveQueryAssumption DEF SubscribeQuery, TypeOK, QuerySub
  <2>2. Spawned(c, querySubs'[c], {s}, {}, [u \in SubIds |-> 0])
    BY <1>3 DEF SubscribeQuery
  <2>3. evals' \in [Conns -> [SubIds -> Seq(Evaluation)]]
        /\ overlooked' \in [Conns -> [SubIds -> {"no", "marked", "yes"}]]
    <3>1. \A u \in {s} : querySubs'[c][u] \in QuerySub /\ [v \in SubIds |-> 0][u] \in Nat
      BY <2>1
    <3> DEFINE subs == querySubs'[c]
               zero == [v \in SubIds |-> 0]
    <3>2. Spawned(c, subs, {s}, {}, zero) /\ {s} \in SUBSET SubIds
          /\ \A u \in {s} : subs[u] \in QuerySub /\ zero[u] \in Nat
      BY <2>2, <3>1
    <3> HIDE DEF subs, zero
    <3> QED BY <3>2, SpawnedTypes
  <2>4. shown' \in [Conns -> [SubIds -> QuerySnapshot \cup {Nothing}]]
    BY <1>3 DEF SubscribeQuery, TypeOK
  <2> QED BY <1>3, <2>1, <2>3, <2>4 DEF SubscribeQuery, TypeOK, storeVars
<1>4. ASSUME NEW s \in SubIds, NEW a \in Accounts, NEW tables \in DeltaLists,
             SubscribeTableDeltas(c, s, a, tables)
      PROVE  TypeOK'
  <2>1. deltaSubs' \in [Conns -> [SubIds -> DeltaSub \cup {Nothing}]]
    BY <1>4, LiveQueryAssumption DEF SubscribeTableDeltas, TypeOK, DeltaSub
  <2> QED BY <1>4, <2>1 DEF SubscribeTableDeltas, TypeOK, storeVars
<1>5. CASE \E s \in SubIds : Unsubscribe(c, s)
  <2>1. /\ querySubs' \in [Conns -> [SubIds -> QuerySub \cup {Nothing}]]
        /\ deltaSubs' \in [Conns -> [SubIds -> DeltaSub \cup {Nothing}]]
        /\ shown' \in [Conns -> [SubIds -> QuerySnapshot \cup {Nothing}]]
    BY <1>5 DEF Unsubscribe, TypeOK
  <2> QED BY <1>5, <2>1 DEF Unsubscribe, TypeOK, storeVars
<1> QED BY <1>1, <1>2, <1>3, <1>4, <1>5 DEF Client

\* What a session does.
LEMMA TypeSession ==
  ASSUME TypeOK, NEW c \in Conns, Session(c)
  PROVE  TypeOK'
<1>1. CASE StartSession(c)
  BY <1>1 DEF StartSession, TypeOK, storeVars, sessionVars
<1>2. CASE ReceiveCommit(c)
  <2> DEFINE n == Head(inbox[c])
             wait == {s \in Concerned(c, n) : MustWait(querySubs[c][s])}
             start == Concerned(c, n) \ wait
  <2>1. n \in Notification /\ Tail(inbox[c]) \in Seq(Notification)
    BY <1>2 DEF ReceiveCommit, TypeOK
  <2>2. /\ deltaSubs' = [deltaSubs EXCEPT ![c] = FannedOut(@, n)]
        /\ querySubs' = [querySubs EXCEPT ![c] = Started(Marked(@, wait, n), start)]
        /\ Spawned(c, querySubs[c], start, wait, [s \in start |-> n.batch])
        /\ inbox' = [inbox EXCEPT ![c] = Tail(@)]
    BY <1>2 DEF ReceiveCommit
  <2>3. /\ wait \in SUBSET SubIds /\ start \in SUBSET SubIds /\ wait \cap start = {}
        /\ \A s \in wait \cup start : querySubs[c][s] \in QuerySub
    BY LiveTypes DEF Concerned
  <2> HIDE DEF n, wait, start
  <2>4. querySubs' \in [Conns -> [SubIds -> QuerySub \cup {Nothing}]]
    <3>1. Marked(querySubs[c], wait, n) \in [SubIds -> QuerySub \cup {Nothing}]
      BY <2>1, <2>3, MarkedTypes DEF TypeOK
    <3>2. \A s \in start : Marked(querySubs[c], wait, n)[s] \in QuerySub
      BY <2>3 DEF Marked
    <3> QED BY <2>2, <2>3, <3>1, <3>2, StartedTypes DEF TypeOK
  <2>5. evals' \in [Conns -> [SubIds -> Seq(Evaluation)]]
        /\ overlooked' \in [Conns -> [SubIds -> {"no", "marked", "yes"}]]
    <3>1. \A s \in start : [u \in start |-> n.batch][s] \in Nat
      BY <2>1 DEF Notification
    <3> QED BY <2>2, <2>3, <3>1, SpawnedTypes
  <2>6. deltaSubs' \in [Conns -> [SubIds -> DeltaSub \cup {Nothing}]]
    <3>1. FannedOut(deltaSubs[c], n) \in [SubIds -> DeltaSub \cup {Nothing}]
      <4>1. n.batch \in Nat /\ deltaSubs[c] \in [SubIds -> DeltaSub \cup {Nothing}]
        BY <2>1 DEF TypeOK, Notification
      <4>2. \A s \in SubIds : Live(deltaSubs[c], s) =>
              [deltaSubs[c][s] EXCEPT !.got = @ \cup {n.batch}] \in DeltaSub
        BY <4>1 DEF DeltaSub, Live
      <4> QED BY <4>1, <4>2 DEF FannedOut
    <3> QED BY <2>2, <3>1 DEF TypeOK
  <2>7. inbox' \in [Conns -> Seq(Notification)]
    BY <2>1, <2>2 DEF TypeOK
  <2> QED BY <1>2, <2>4, <2>5, <2>6, <2>7 DEF ReceiveCommit, TypeOK, storeVars
<1>3. CASE ReceiveLagged(c)
  <2> DEFINE all == {s \in SubIds : Live(querySubs[c], s)}
             start == {s \in all : ~querySubs[c][s].inFlight}
             dirty == [s \in SubIds |-> IF s \in all THEN [querySubs[c][s] EXCEPT !.dirty = TRUE]
                                        ELSE querySubs[c][s]]
  <2>1. /\ querySubs' = [querySubs EXCEPT ![c] = Started(dirty, start)]
        /\ Spawned(c, querySubs[c], start, all \ start,
                   [s \in start |-> querySubs[c][s].pending])
    BY <1>3 DEF ReceiveLagged
  <2>2. /\ all \in SUBSET SubIds /\ start \in SUBSET all
        /\ \A s \in all : querySubs[c][s] \in QuerySub
    BY LiveTypes
  <2>3. dirty \in [SubIds -> QuerySub \cup {Nothing}] /\ \A s \in start : dirty[s] \in QuerySub
    <3>1. \A s \in all : [querySubs[c][s] EXCEPT !.dirty = TRUE] \in QuerySub
      BY <2>2 DEF QuerySub
    <3> QED BY <2>2, <3>1 DEF TypeOK
  <2> HIDE DEF all, start, dirty
  <2>4. querySubs' \in [Conns -> [SubIds -> QuerySub \cup {Nothing}]]
    BY <2>1, <2>2, <2>3, StartedTypes DEF TypeOK
  <2>5. evals' \in [Conns -> [SubIds -> Seq(Evaluation)]]
        /\ overlooked' \in [Conns -> [SubIds -> {"no", "marked", "yes"}]]
    <3>1. \A s \in start : [u \in start |-> querySubs[c][u].pending][s] \in Nat
      BY <2>2 DEF QuerySub
    <3> QED BY <2>1, <2>2, <3>1, SpawnedTypes
  <2>6. deltaSubs' \in [Conns -> [SubIds -> DeltaSub \cup {Nothing}]]
    BY <1>3, ToldTypes DEF ReceiveLagged, TypeOK
  <2> QED BY <1>3, <2>4, <2>5, <2>6 DEF ReceiveLagged, TypeOK, storeVars
<1>4. CASE Complete(c)
  <2> DEFINE s == Head(outcomes[c]).sub
             e == Head(outcomes[c]).eval
             sub == querySubs[c][s]
  <2>1. s \in SubIds /\ e \in Evaluation /\ Tail(outcomes[c]) \in Seq(Outcome)
    <3>1. outcomes[c] \in Seq(Outcome) /\ outcomes[c] # <<>>
      BY <1>4 DEF Complete, TypeOK
    <3>2. Head(outcomes[c]) \in Outcome /\ Tail(outcomes[c]) \in Seq(Outcome)
      BY <3>1
    <3> QED BY <3>2 DEF Outcome
  <2>2. outcomes' \in [Conns -> Seq(Outcome)]
    BY <1>4, <2>1 DEF Complete, TypeOK
  <2>3. CASE ~Live(querySubs[c], s)
    BY <1>4, <2>2, <2>3 DEF Complete, TypeOK, storeVars
  <2>4. CASE Live(querySubs[c], s)
    <3>1. sub \in QuerySub
      BY <2>1, <2>4, LiveTypes
    <3>2. Delivered(sub) \in QuerySub /\ Failed(sub) \in QuerySub /\ Snapshot(sub, e) \in QuerySnapshot
      BY <2>1, <3>1 DEF Delivered, Failed, Snapshot, QuerySub, QuerySnapshot, Evaluation
    <3> HIDE DEF s, e, sub
    <3>3. /\ querySubs' = [querySubs EXCEPT ![c][s] =
                   IF e.status = "ok" THEN Delivered(@) ELSE Failed(@)]
          /\ shown' = IF e.status = "ok" THEN [shown EXCEPT ![c][s] = Snapshot(sub, e)] ELSE shown
          /\ overlooked' = [overlooked EXCEPT ![c][s] =
                   IF \/ e.status = "ok" /\ @ = "marked"
                      \/ e.status # "ok" /\ ~sub.dirty
                   THEN "yes" ELSE @]
      BY <1>4, <2>4 DEF Complete, s, e, sub
    <3>4. sub = querySubs[c][s]
      BY DEF sub
    <3>5. querySubs' \in [Conns -> [SubIds -> QuerySub \cup {Nothing}]]
      BY <2>1, <3>2, <3>3, <3>4 DEF TypeOK
    <3>6. shown' \in [Conns -> [SubIds -> QuerySnapshot \cup {Nothing}]]
      BY <2>1, <3>2, <3>3 DEF TypeOK
    <3>7. overlooked' \in [Conns -> [SubIds -> {"no", "marked", "yes"}]]
      BY <2>1, <3>3 DEF TypeOK
    <3> QED BY <1>4, <2>2, <3>5, <3>6, <3>7 DEF Complete, TypeOK, storeVars
  <2> QED BY <2>3, <2>4
<1>5. CASE DebounceTick(c)
  <2> DEFINE due == {s \in SubIds : Live(querySubs[c], s) /\ Due(querySubs[c][s])}
  <2>1. /\ querySubs' = [querySubs EXCEPT ![c] = Started(@, due)]
        /\ Spawned(c, querySubs[c], due, {}, [s \in due |-> querySubs[c][s].pending])
    BY <1>5 DEF DebounceTick
  <2>2. due \in SUBSET SubIds /\ \A s \in due : querySubs[c][s] \in QuerySub
    BY LiveTypes
  <2> HIDE DEF due
  <2>3. querySubs' \in [Conns -> [SubIds -> QuerySub \cup {Nothing}]]
    BY <2>1, <2>2, StartedTypes DEF TypeOK
  <2>4. evals' \in [Conns -> [SubIds -> Seq(Evaluation)]]
        /\ overlooked' \in [Conns -> [SubIds -> {"no", "marked", "yes"}]]
    <3>1. \A s \in due : [u \in due |-> querySubs[c][u].pending][s] \in Nat
      BY <2>2 DEF QuerySub
    <3> QED BY <2>1, <2>2, <3>1, SpawnedTypes
  <2> QED BY <1>5, <2>3, <2>4 DEF DebounceTick, TypeOK, storeVars
<1>6. CASE \E s \in SubIds : RestEnds(c, s)
  <2>1. PICK s \in SubIds : RestEnds(c, s)
    BY <1>6
  <2>2. querySubs[c][s] \in QuerySub
    BY <2>1, LiveTypes DEF RestEnds
  <2>3. querySubs' \in [Conns -> [SubIds -> QuerySub \cup {Nothing}]]
    BY <2>1, <2>2 DEF RestEnds, TypeOK, QuerySub
  <2> QED BY <2>1, <2>3 DEF RestEnds, TypeOK, storeVars
<1> QED BY <1>1, <1>2, <1>3, <1>4, <1>5, <1>6 DEF Session

\* What an evaluation task does.
LEMMA TypeEvaluating ==
  ASSUME TypeOK, NEW c \in Conns, Evaluating(c)
  PROVE  TypeOK'
<1>1. PICK s \in SubIds : \E i \in DOMAIN evals[c][s] : Evaluate(c, s, i) \/ Report(c, s, i)
  BY DEF Evaluating
<1>2. PICK i \in DOMAIN evals[c][s] : Evaluate(c, s, i) \/ Report(c, s, i)
  BY <1>1
<1>3. evals[c][s] \in Seq(Evaluation) /\ evals[c][s][i] \in Evaluation
  BY <1>2 DEF TypeOK
<1>4. CASE Evaluate(c, s, i)
  <2>1. Len(changes[evals[c][s][i].account]) \in Nat
    BY <1>3 DEF TypeOK, Evaluation
  <2>2. evals' \in [Conns -> [SubIds -> Seq(Evaluation)]]
    <3>1. PICK e \in Evaluation : evals' = [evals EXCEPT ![c][s][i] = e]
      <4>1. CASE evals' = [evals EXCEPT ![c][s][i].status = "ok",
                          ![c][s][i].upTo = Len(changes[evals[c][s][i].account])]
        <5> DEFINE e == [evals[c][s][i] EXCEPT !.status = "ok",
                           !.upTo = Len(changes[evals[c][s][i].account])]
        <5>1. e \in Evaluation
          BY <1>3, <2>1 DEF Evaluation
        <5>2. evals' = [evals EXCEPT ![c][s][i] = e]
          <6>1. c \in DOMAIN evals /\ s \in DOMAIN evals[c] /\ i \in DOMAIN evals[c][s]
            BY <1>2 DEF TypeOK
          <6>2. [[evals[c][s][i] EXCEPT !.status = "ok"] EXCEPT
                   !.upTo = Len(changes[evals[c][s][i].account])] = e
            OBVIOUS
          <6> HIDE DEF e
          <6> QED BY <4>1, <6>1, <6>2
        <5> QED BY <5>1, <5>2
      <4>2. CASE evals' = [evals EXCEPT ![c][s][i].status = "failed"]
        <5> DEFINE e == [evals[c][s][i] EXCEPT !.status = "failed"]
        <5>1. e \in Evaluation
          BY <1>3 DEF Evaluation
        <5>2. evals' = [evals EXCEPT ![c][s][i] = e]
          BY <4>2
        <5> QED BY <5>1, <5>2
      <4> QED BY <1>4, <4>1, <4>2 DEF Evaluate
    <3>2. [evals[c][s] EXCEPT ![i] = e] \in Seq(Evaluation)
      BY <1>2, <1>3
    <3> QED BY <3>1, <3>2 DEF TypeOK
  <2>3. errors' \in Nat
    BY <1>4 DEF Evaluate, TypeOK
  <2> QED BY <1>4, <2>2, <2>3 DEF Evaluate, TypeOK, storeVars
<1>5. CASE Report(c, s, i)
  <2>1. RemoveAt(evals[c][s], i) \in Seq(Evaluation)
    BY <1>2, <1>3, RemoveAtElements
  <2>2. evals' \in [Conns -> [SubIds -> Seq(Evaluation)]]
    BY <1>5, <2>1 DEF Report, TypeOK
  <2>3. outcomes' \in [Conns -> Seq(Outcome)]
    <3>1. [sub |-> s, eval |-> evals[c][s][i]] \in Outcome
      BY <1>3 DEF Outcome
    <3>2. outcomes[c] \in Seq(Outcome)
      BY DEF TypeOK
    <3>3. Append(outcomes[c], [sub |-> s, eval |-> evals[c][s][i]]) \in Seq(Outcome)
      BY <3>1, <3>2, AppendElements
    <3> QED BY <1>5, <3>3 DEF Report, TypeOK
  <2> QED BY <1>5, <2>2, <2>3 DEF Report, TypeOK, storeVars
<1> QED BY <1>2, <1>4, <1>5

LEMMA TypeStep == TypeOK /\ [Next]_vars => TypeOK'
<1> SUFFICES ASSUME TypeOK, [Next]_vars PROVE TypeOK'
  OBVIOUS
<1>1. CASE Next
  BY <1>1, TypeWriter, TypeClient, TypeSession, TypeEvaluating DEF Next
<1>2. CASE UNCHANGED vars
  BY <1>2 DEF vars, storeVars, sessionVars, TypeOK
<1> QED BY <1>1, <1>2

\* Every variable keeps its type.
THEOREM TypeCorrect == Spec => []TypeOK
BY TypeInit, TypeStep, PTL DEF Spec

-----------------------------------------------------------------------------
(* The inductive invariant.                                                *)

\* A client without a session has nothing.
IdleEmpty ==
  \A c \in Conns : ~Open(c) =>
    /\ inbox[c] = <<>> /\ missed[c] = FALSE /\ outcomes[c] = <<>> /\ evals[c] = NoEvals
    /\ querySubs[c] = NoSubs /\ deltaSubs[c] = NoSubs /\ shown[c] = NoSubs

\* An announcement in a queue speaks of a change that was announced.
Genuine(n) ==
  /\ n.batch \in 1..announced[n.account]
  /\ n.tables = changes[n.account][n.batch].tables
  /\ n.listed = changes[n.account][n.batch].listed

InboxSound ==
  /\ \A a \in Accounts : announced[a] <= Len(changes[a])
  /\ \A c \in Conns : \A j \in DOMAIN inbox[c] : Genuine(inbox[c][j])

\* A session works for accounts its key admits, with batches there are.
SubSound(c, sub) ==
  Authorized(c, sub.account) /\ sub.pending <= Len(changes[sub.account])

EvalSound(c, e) ==
  /\ Authorized(c, e.account) /\ e.batch <= Len(changes[e.account])
  /\ e.status = "ok" => e.upTo >= e.batch

SubsSound == \A c \in Conns, s \in SubIds : Live(querySubs[c], s) => SubSound(c, querySubs[c][s])
EvalsSound ==
  \A c \in Conns, s \in SubIds : \A i \in DOMAIN evals[c][s] : EvalSound(c, evals[c][s][i])
OutcomesSound == \A c \in Conns : \A i \in DOMAIN outcomes[c] : EvalSound(c, outcomes[c][i].eval)

IInv ==
  /\ TypeOK /\ IdleEmpty /\ InboxSound
  /\ SubsSound /\ EvalsSound /\ OutcomesSound
  /\ AccountIsolation /\ SnapshotCoversBatch

LEMMA InvInit == Init => IInv
<1> SUFFICES ASSUME Init PROVE IInv
  OBVIOUS
<1>1. TypeOK
  BY TypeInit
<1>2. IdleEmpty
  BY DEF Init, IdleEmpty
<1>3. InboxSound
  BY DEF Init, InboxSound
<1>4. SubsSound /\ EvalsSound /\ OutcomesSound
  BY DEF Init, SubsSound, EvalsSound, OutcomesSound, NoSubs, NoEvals, Live
<1>5. AccountIsolation /\ SnapshotCoversBatch
  BY DEF Init, AccountIsolation, SnapshotCoversBatch, NoSubs, Live
<1> QED BY <1>1, <1>2, <1>3, <1>4, <1>5 DEF IInv

\* Only an open session acts.
LEMMA ActsOpen ==
  ASSUME TypeOK, IdleEmpty, NEW c \in Conns,
         \/ ReceiveCommit(c) \/ ReceiveLagged(c) \/ Complete(c) \/ DebounceTick(c)
         \/ \E s \in SubIds : RestEnds(c, s) \/ Unsubscribe(c, s)
         \/ Evaluating(c)
  PROVE  Open(c)
<1> SUFFICES ASSUME ~Open(c) PROVE FALSE
  OBVIOUS
<1>1. /\ inbox[c] = <<>> /\ missed[c] = FALSE /\ outcomes[c] = <<>>
      /\ \A s \in SubIds : evals[c][s] = <<>> /\ ~Live(querySubs[c], s) /\ ~Live(deltaSubs[c], s)
  BY DEF IdleEmpty, NoSubs, NoEvals, Live
<1>2. ~ReceiveCommit(c) /\ ~ReceiveLagged(c) /\ ~Complete(c)
  BY <1>1 DEF ReceiveCommit, ReceiveLagged, Complete
<1>3. ~DebounceTick(c)
  BY <1>1 DEF DebounceTick
<1>4. \A s \in SubIds : ~RestEnds(c, s) /\ ~Unsubscribe(c, s)
  BY <1>1 DEF RestEnds, Unsubscribe
<1>5. ~Evaluating(c)
  BY <1>1 DEF Evaluating
<1> QED BY <1>2, <1>3, <1>4, <1>5

\* What a client without a session has is touched by nobody.
LEMMA IdleStep ==
  ASSUME TypeOK, IdleEmpty, [Next]_vars
  PROVE  IdleEmpty'
<1> USE DEF TypeOK
<1>1. ASSUME NEW a \in Accounts, Writer(a) PROVE IdleEmpty'
  <2>1. UNCHANGED <<conn, sessionVars>>
    BY <1>1 DEF Writer, Announce, Commit
  <2>2. \A c \in Conns : ~Open(c) => inbox'[c] = inbox[c] /\ missed'[c] = missed[c]
    BY <1>1 DEF Writer, Announce, Commit
  <2> QED BY <2>1, <2>2 DEF IdleEmpty, Open, sessionVars
<1>2. ASSUME NEW c \in Conns, \/ \E locked \in Keyed \cup {Nothing} : Upgrade(c, locked)
                              \/ StartSession(c)
      PROVE  IdleEmpty'
  <2>1. UNCHANGED <<inbox, missed, sessionVars>> /\ \A d \in Conns : Open(d) => Open(d)'
    BY <1>2 DEF Upgrade, StartSession, Open
  <2> QED BY <2>1 DEF IdleEmpty, Open, sessionVars
<1>3. ASSUME NEW c \in Conns, Disconnect(c) PROVE IdleEmpty'
  BY <1>3 DEF Disconnect, IdleEmpty, Open
<1>4. ASSUME NEW c \in Conns, Open(c), conn' = conn,
             \A d \in Conns \ {c} :
               /\ inbox'[d] = inbox[d] /\ missed'[d] = missed[d] /\ outcomes'[d] = outcomes[d]
               /\ evals'[d] = evals[d] /\ querySubs'[d] = querySubs[d]
               /\ deltaSubs'[d] = deltaSubs[d] /\ shown'[d] = shown[d]
      PROVE  IdleEmpty'
  BY <1>4 DEF IdleEmpty, Open
<1>5. ASSUME NEW c \in Conns, NEW s \in SubIds, NEW a \in Accounts,
             \/ \E tables \in Queries : SubscribeQuery(c, s, a, tables)
             \/ \E tables \in DeltaLists : SubscribeTableDeltas(c, s, a, tables)
      PROVE  IdleEmpty'
  BY <1>4, <1>5 DEF SubscribeQuery, SubscribeTableDeltas, Spawned
<1>6. ASSUME NEW c \in Conns, \E s \in SubIds : Unsubscribe(c, s) \/ RestEnds(c, s)
      PROVE  IdleEmpty'
  BY <1>4, <1>6, ActsOpen DEF Unsubscribe, RestEnds
<1>7. ASSUME NEW c \in Conns, ReceiveCommit(c) PROVE IdleEmpty'
  BY <1>4, <1>7, ActsOpen DEF ReceiveCommit, Spawned
<1>8. ASSUME NEW c \in Conns, ReceiveLagged(c) PROVE IdleEmpty'
  BY <1>4, <1>8, ActsOpen DEF ReceiveLagged, Spawned
<1>9. ASSUME NEW c \in Conns, Complete(c) PROVE IdleEmpty'
  BY <1>4, <1>9, ActsOpen DEF Complete
<1>10. ASSUME NEW c \in Conns, DebounceTick(c) PROVE IdleEmpty'
  BY <1>4, <1>10, ActsOpen DEF DebounceTick, Spawned
<1>11. ASSUME NEW c \in Conns, Evaluating(c) PROVE IdleEmpty'
  BY <1>4, <1>11, ActsOpen DEF Evaluating, Evaluate, Report
<1>12. CASE UNCHANGED vars
  BY <1>12 DEF vars, sessionVars, IdleEmpty, Open
<1> HIDE DEF TypeOK
<1>13. ASSUME NEW c \in Conns, Client(c) PROVE IdleEmpty'
  BY <1>2, <1>3, <1>5, <1>6, <1>13 DEF Client
<1>14. ASSUME NEW c \in Conns, Session(c) PROVE IdleEmpty'
  BY <1>2, <1>6, <1>7, <1>8, <1>9, <1>10, <1>14 DEF Session
<1> QED BY <1>1, <1>11, <1>12, <1>13, <1>14 DEF Next

\* The store only grows, and what was announced stays announced.
LEMMA Growth ==
  ASSUME TypeOK, InboxSound, [Next]_vars, NEW a \in Accounts
  PROVE  /\ Len(changes[a]) \in Nat /\ Len(changes'[a]) \in Nat
         /\ announced[a] \in Nat /\ announced'[a] \in Nat
         /\ Len(changes[a]) <= Len(changes'[a]) /\ announced[a] <= announced'[a]
         /\ announced'[a] <= Len(changes'[a])
         /\ \A i \in 1..Len(changes[a]) : changes'[a][i] = changes[a][i]
<1>1. /\ changes[a] \in Seq(Change) /\ changes'[a] \in Seq(Change)
      /\ announced[a] \in Nat /\ announced'[a] \in Nat /\ announced[a] <= Len(changes[a])
  BY TypeStep DEF TypeOK, InboxSound
<1>2. CASE UNCHANGED storeVars
  BY <1>1, <1>2 DEF storeVars
<1>3. ASSUME NEW b \in Accounts, Announce(b)
      PROVE  changes' = changes /\ announced[b] < Len(changes[b])
             /\ announced' = [announced EXCEPT ![b] = @ + 1]
  BY <1>3 DEF Announce
<1>4. ASSUME NEW b \in Accounts, NEW tables \in Batches, NEW silent \in BOOLEAN,
             Commit(b, tables, silent)
      PROVE  /\ announced[b] = Len(changes[b])
             /\ announced' = announced \/ announced' = [announced EXCEPT ![b] = @ + 1]
             /\ \E e \in Change : changes' = [changes EXCEPT ![b] = Append(@, e)]
  BY <1>4, LiveQueryAssumption DEF Commit, Change
<1>5. ASSUME NEW b \in Accounts, Announce(b)
      PROVE  changes' = changes /\ announced[a] <= announced'[a] /\ announced'[a] <= Len(changes[a])
  <2>1. announced \in [Accounts -> Nat]
    BY DEF TypeOK
  <2>2. announced'[a] = announced[a] \/ (a = b /\ announced'[a] = announced[a] + 1)
    BY <1>3, <1>5, <2>1
  <2> QED BY <1>1, <1>3, <1>5, <2>2
<1>6. ASSUME NEW b \in Accounts, NEW tables \in Batches, NEW silent \in BOOLEAN,
             Commit(b, tables, silent)
      PROVE  /\ Len(changes[a]) <= Len(changes'[a]) /\ announced[a] <= announced'[a]
             /\ announced'[a] <= Len(changes'[a])
             /\ \A i \in 1..Len(changes[a]) : changes'[a][i] = changes[a][i]
  <2>1. PICK e \in Change : changes' = [changes EXCEPT ![b] = Append(@, e)]
    BY <1>4, <1>6
  <2>2. CASE a = b
    <3>1. changes'[a] = Append(changes[a], e) /\ announced[a] = Len(changes[a])
          /\ (announced'[a] = announced[a] \/ announced'[a] = announced[a] + 1)
      BY <1>1, <1>4, <1>6, <2>1, <2>2 DEF TypeOK
    <3> QED BY <1>1, <3>1, AppendElements
  <2>3. CASE a # b
    <3>1. changes'[a] = changes[a] /\ announced'[a] = announced[a]
      <4>1. announced \in [Accounts -> Nat] /\ changes \in [Accounts -> Seq(Change)]
        BY DEF TypeOK
      <4>2. changes'[a] = changes[a]
        BY <2>1, <2>3, <4>1
      <4>3. announced' = announced \/ announced' = [announced EXCEPT ![b] = @ + 1]
        BY <1>4, <1>6
      <4> QED BY <2>3, <4>1, <4>2, <4>3
    <3> QED BY <1>1, <3>1
  <2> QED BY <2>2, <2>3
<1>7. ASSUME NEW c \in Conns, Client(c) \/ Session(c) \/ Evaluating(c)
      PROVE  UNCHANGED storeVars
  <2>1. Client(c) => UNCHANGED storeVars
    BY DEF Client, Upgrade, Disconnect, SubscribeQuery, SubscribeTableDeltas, Unsubscribe
  <2>2. Session(c) => UNCHANGED storeVars
    BY DEF Session, StartSession, ReceiveCommit, ReceiveLagged, Complete, DebounceTick, RestEnds
  <2>3. Evaluating(c) => UNCHANGED storeVars
    BY DEF Evaluating, Evaluate, Report
  <2> QED BY <1>7, <2>1, <2>2, <2>3
<1>8. (\E b \in Accounts : Writer(b)) \/ UNCHANGED storeVars
  BY <1>7 DEF Next, vars, storeVars
<1> QED BY <1>1, <1>2, <1>5, <1>6, <1>8 DEF Writer

\* What was genuine or sound stays so.
LEMMA GenuineKept ==
  ASSUME TypeOK, InboxSound, [Next]_vars, NEW n \in Notification, Genuine(n)
  PROVE  Genuine(n)'
<1>1. n.account \in Accounts /\ n.batch \in Nat
  BY DEF Notification
<1>2. n.batch \in 1..Len(changes[n.account]) /\ n.batch \in 1..announced'[n.account]
  BY <1>1, Growth, SMTT(30) DEF Genuine, InboxSound
<1>3. changes'[n.account][n.batch] = changes[n.account][n.batch]
  BY <1>1, <1>2, Growth
<1> QED BY <1>2, <1>3 DEF Genuine

LEMMA SoundKept ==
  ASSUME TypeOK, InboxSound, [Next]_vars, NEW c \in Conns, key'[c] = key[c]
  PROVE  /\ \A sub \in QuerySub : SubSound(c, sub) => SubSound(c, sub)'
         /\ \A e \in Evaluation : EvalSound(c, e) => EvalSound(c, e)'
<1>1. ASSUME NEW sub \in QuerySub, SubSound(c, sub) PROVE SubSound(c, sub)'
  <2>1. sub.account \in Accounts /\ sub.pending \in Nat
    BY DEF QuerySub
  <2> QED BY <1>1, <2>1, Growth DEF SubSound, Authorized
<1>2. ASSUME NEW e \in Evaluation, EvalSound(c, e) PROVE EvalSound(c, e)'
  <2>1. e.account \in Accounts /\ e.batch \in Nat
    BY DEF Evaluation
  <2> QED BY <1>2, <2>1, Growth DEF EvalSound, Authorized
<1> QED BY <1>1, <1>2

\* A session keeps its key as long as it is open.
LEMMA OpenKey ==
  ASSUME TypeOK, [Next]_vars, NEW c \in Conns, Open(c)'
  PROVE  key'[c] = key[c]
<1> USE DEF TypeOK
<1>1. ASSUME NEW a \in Accounts, Writer(a) PROVE key' = key
  BY <1>1 DEF Writer, Announce, Commit
<1>2. ASSUME NEW d \in Conns, Client(d) PROVE key'[c] = key[c]
  <2>1. CASE Disconnect(d) \/ \E locked \in Keyed \cup {Nothing} : Upgrade(d, locked)
    <3>1. ~Open(d)' /\ \A b \in Conns \ {d} : key'[b] = key[b]
      BY <2>1 DEF Disconnect, Upgrade, Open
    <3> QED BY <3>1
  <2> QED BY <1>2, <2>1 DEF Client, SubscribeQuery, SubscribeTableDeltas, Unsubscribe
<1>3. ASSUME NEW d \in Conns, Session(d) PROVE key' = key
  BY <1>3 DEF Session, StartSession, ReceiveCommit, ReceiveLagged, Complete, DebounceTick, RestEnds
<1>4. ASSUME NEW d \in Conns, Evaluating(d) PROVE key' = key
  BY <1>4 DEF Evaluating, Evaluate, Report
<1>5. CASE UNCHANGED vars
  BY <1>5 DEF vars
<1> QED BY <1>1, <1>2, <1>3, <1>4, <1>5 DEF Next

\* The queues of announcements.
LEMMA InboxStep ==
  ASSUME TypeOK, IdleEmpty, InboxSound, [Next]_vars
  PROVE  InboxSound'
<1>1. \A a \in Accounts : announced'[a] <= Len(changes'[a])
  BY Growth
<1>2. ASSUME NEW c \in Conns, NEW j \in DOMAIN inbox'[c],
             \E k \in DOMAIN inbox[c] : inbox'[c][j] = inbox[c][k]
      PROVE  Genuine(inbox[c][j])'
  <2>1. PICK k \in DOMAIN inbox[c] : inbox'[c][j] = inbox[c][k]
    BY <1>2
  <2>2. inbox[c][k] \in Notification /\ Genuine(inbox[c][k])
    BY <2>1 DEF TypeOK, InboxSound
  <2>3. Genuine(inbox[c][k]) => \A n \in Notification : n = inbox[c][k] => Genuine(n)'
    BY GenuineKept
  <2> QED BY <2>1, <2>2, <2>3 DEF Genuine
<1>3. ASSUME NEW a \in Accounts, Announce(a), NEW c \in Conns, NEW j \in DOMAIN inbox'[c]
      PROVE  Genuine(inbox[c][j])'
  <2> DEFINE n == Announced(a)
             all == Append(inbox[c], n)
  <2>1. n \in Notification /\ inbox[c] \in Seq(Notification)
    BY <1>3, AnnouncedTypes DEF TypeOK, Announce
  <2>2. inbox'[c] = inbox[c] \/ inbox'[c] = all \/ inbox'[c] = Tail(all)
    BY <1>3 DEF Announce
  <2>3. n.account = a /\ n.batch = announced'[a] /\ announced'[a] \in 1..announced'[a]
        /\ n.tables = changes'[a][n.batch].tables /\ n.listed = changes'[a][n.batch].listed
    BY <1>3, Growth DEF Announce, Announced, TypeOK
  <2> HIDE DEF n
  <2>4. all \in Seq(Notification) /\ all # <<>>
        /\ \A k \in DOMAIN all : all[k] = n \/ \E m \in DOMAIN inbox[c] : all[k] = inbox[c][m]
    BY <2>1, AppendElements
  <2> HIDE DEF all
  <2>5. \A k \in DOMAIN Tail(all) : \E m \in DOMAIN all : Tail(all)[k] = all[m]
    BY <2>4, TailElements
  <2>6. inbox'[c][j] = n \/ \E m \in DOMAIN inbox[c] : inbox'[c][j] = inbox[c][m]
    BY <2>2, <2>4, <2>5
  <2>7. CASE inbox'[c][j] = n
    BY <2>3, <2>7 DEF Genuine
  <2> QED BY <1>2, <2>6, <2>7
<1>4. ASSUME NEW a \in Accounts, NEW tables \in Batches, NEW silent \in BOOLEAN,
             Commit(a, tables, silent)
      PROVE  inbox' = inbox
  BY <1>4 DEF Commit
<1>5. ASSUME NEW d \in Conns, Client(d), NEW c \in Conns
      PROVE  inbox'[c] = inbox[c] \/ inbox'[c] = <<>>
  <2>1. Disconnect(d) => inbox' = [inbox EXCEPT ![d] = <<>>]
    BY DEF Disconnect
  <2>2. ~Disconnect(d) => inbox' = inbox
    BY <1>5 DEF Client, Upgrade, SubscribeQuery, SubscribeTableDeltas, Unsubscribe
  <2>3. inbox \in [Conns -> Seq(Notification)]
    BY DEF TypeOK
  <2> QED BY <2>1, <2>2, <2>3
<1>6. ASSUME NEW d \in Conns, Session(d), NEW c \in Conns
      PROVE  inbox'[c] = inbox[c] \/ (inbox[c] # <<>> /\ inbox'[c] = Tail(inbox[c]))
  <2>1. ReceiveCommit(d) => inbox[d] # <<>> /\ inbox' = [inbox EXCEPT ![d] = Tail(@)]
    BY DEF ReceiveCommit
  <2>2. ~ReceiveCommit(d) => inbox' = inbox
    BY <1>6 DEF Session, StartSession, ReceiveLagged, Complete, DebounceTick, RestEnds
  <2>3. inbox \in [Conns -> Seq(Notification)]
    BY DEF TypeOK
  <2> QED BY <2>1, <2>2, <2>3
<1>7. ASSUME NEW d \in Conns, Evaluating(d) PROVE inbox' = inbox
  BY <1>7 DEF Evaluating, Evaluate, Report
<1>8. ASSUME NEW c \in Conns, NEW j \in DOMAIN inbox'[c] PROVE Genuine(inbox[c][j])'
  <2>1. inbox[c] \in Seq(Notification)
    BY DEF TypeOK
  <2>2. CASE inbox'[c] = inbox[c]
    BY <1>2, <1>8, <2>2
  <2>3. CASE inbox'[c] = <<>>
    BY <1>8, <2>3
  <2>4. CASE inbox[c] # <<>> /\ inbox'[c] = Tail(inbox[c])
    <3>1. \A m \in DOMAIN Tail(inbox[c]) :
            m + 1 \in DOMAIN inbox[c] /\ Tail(inbox[c])[m] = inbox[c][m + 1]
      BY <2>1, <2>4, TailElements
    <3>2. j + 1 \in DOMAIN inbox[c] /\ inbox'[c][j] = inbox[c][j + 1]
      BY <1>8, <2>4, <3>1
    <3> QED BY <1>2, <1>8, <3>2
  <2>5. CASE \E a \in Accounts : Announce(a)
    BY <1>3, <1>8, <2>5
  <2>6. UNCHANGED vars => inbox' = inbox
    BY DEF vars
  <2> QED BY <1>4, <1>5, <1>6, <1>7, <2>2, <2>3, <2>4, <2>5, <2>6 DEF Next, Writer
<1> QED BY <1>1, <1>8 DEF InboxSound

\* Announcements name subscriptions by account, with batches there are.
LEMMA HeadSound ==
  ASSUME TypeOK, InboxSound, NEW c \in Conns, inbox[c] # <<>>
  PROVE  /\ Head(inbox[c]) \in Notification /\ Genuine(Head(inbox[c]))
         /\ Head(inbox[c]).batch <= Len(changes[Head(inbox[c]).account])
<1> DEFINE n == Head(inbox[c])
<1>1. n \in Notification /\ Genuine(n)
  BY TailElements DEF TypeOK, InboxSound
<1> HIDE DEF n
<1>2. n.account \in Accounts
  BY <1>1 DEF Notification
<1>3. announced[n.account] <= Len(changes[n.account]) /\ announced[n.account] \in Nat
      /\ Len(changes[n.account]) \in Nat
  BY <1>2 DEF InboxSound, TypeOK
<1>4. n.batch <= Len(changes[n.account])
  BY <1>1, <1>3 DEF Genuine
<1> QED BY <1>1, <1>4 DEF n

\* Subscriptions: a step keeps one as it is, makes a new one for an account the
\* key admits, or notes a batch that was announced.
LEMMA SubsStep ==
  ASSUME TypeOK, IdleEmpty, InboxSound, SubsSound, [Next]_vars
  PROVE  SubsSound'
<1> SUFFICES ASSUME NEW c \in Conns, NEW s \in SubIds, Live(querySubs'[c], s)
             PROVE  SubSound(c, querySubs[c][s])'
  BY DEF SubsSound
<1>1. TypeOK' /\ IdleEmpty'
  BY TypeStep, IdleStep
<1>2. Open(c)'
  BY <1>1 DEF IdleEmpty, NoSubs, Live
<1>3. key'[c] = key[c]
  BY <1>2, OpenKey
<1>4. querySubs'[c][s] \in QuerySub
  BY <1>1 DEF TypeOK, Live
<1>5. ASSUME SubSound(c, querySubs'[c][s]) PROVE SubSound(c, querySubs[c][s])'
  <2>1. \A sub \in QuerySub : SubSound(c, sub) => SubSound(c, sub)'
    BY <1>3, SoundKept
  <2>2. \A sub \in QuerySub : sub = querySubs'[c][s] => SubSound(c, sub)'
    BY <1>5, <2>1
  <2> QED BY <1>4, <2>2 DEF SubSound, Authorized
<1>6. ASSUME Live(querySubs[c], s), querySubs'[c][s].account = querySubs[c][s].account,
             querySubs'[c][s].pending = querySubs[c][s].pending
      PROVE  SubSound(c, querySubs[c][s])'
  BY <1>5, <1>6 DEF SubsSound, SubSound
<1>7. CASE querySubs'[c][s] = querySubs[c][s]
  <2>1. Live(querySubs[c], s)
    BY <1>7 DEF Live
  <2> QED BY <1>6, <1>7, <2>1
<1>8. ASSUME NEW a \in Accounts, Writer(a) PROVE querySubs' = querySubs
  BY <1>8 DEF Writer, Announce, Commit, sessionVars
<1>9. ASSUME NEW d \in Conns, Client(d) PROVE SubSound(c, querySubs[c][s])'
  <2>1. CASE Disconnect(d)
    <3>1. ~Open(d)' /\ querySubs' = [querySubs EXCEPT ![d] = NoSubs]
      BY <2>1 DEF Disconnect, Open, TypeOK
    <3>2. c # d
      BY <1>2, <3>1
    <3> QED BY <1>7, <3>1, <3>2 DEF TypeOK
  <2>2. CASE \E t \in SubIds, a \in Accounts, tables \in Queries : SubscribeQuery(d, t, a, tables)
    <3>1. PICK t \in SubIds, a \in Accounts, tables \in Queries : SubscribeQuery(d, t, a, tables)
      BY <2>2
    <3>2. CASE c = d /\ s = t
      <4>1. querySubs'[c][s].account = a /\ querySubs'[c][s].pending = 0
        BY <3>1, <3>2 DEF SubscribeQuery, TypeOK
      <4>2. Authorized(c, a) /\ Len(changes[a]) \in Nat
        BY <3>1, <3>2 DEF SubscribeQuery, TypeOK
      <4> QED BY <1>5, <4>1, <4>2 DEF SubSound
    <3>3. CASE ~(c = d /\ s = t)
      <4>1. querySubs'[c][s] = querySubs[c][s]
        BY <3>1, <3>3 DEF SubscribeQuery, TypeOK
      <4> QED BY <1>7, <4>1
    <3> QED BY <3>2, <3>3
  <2>3. CASE \E t \in SubIds : Unsubscribe(d, t)
    <3>1. PICK t \in SubIds : Unsubscribe(d, t)
      BY <2>3
    <3>2. querySubs' = [querySubs EXCEPT ![d][t] = Nothing]
      BY <3>1 DEF Unsubscribe
    <3>3. querySubs'[c][s] = querySubs[c][s]
      BY <3>2 DEF TypeOK, Live
    <3> QED BY <1>7, <3>3
  <2>4. ASSUME ~Disconnect(d), ~\E t \in SubIds : Unsubscribe(d, t),
               ~\E t \in SubIds, a \in Accounts, tables \in Queries : SubscribeQuery(d, t, a, tables)
        PROVE  querySubs' = querySubs
    BY <1>9, <2>4 DEF Client, Upgrade, SubscribeTableDeltas, sessionVars
  <2> QED BY <1>7, <2>1, <2>2, <2>3, <2>4
<1>10. ASSUME NEW d \in Conns, Session(d) PROVE SubSound(c, querySubs[c][s])'
  <2>1. CASE StartSession(d)
    BY <1>7, <2>1 DEF StartSession, sessionVars
  <2>2. CASE ReceiveCommit(d)
    <3> DEFINE n == Head(inbox[d])
               wait == {u \in Concerned(d, n) : MustWait(querySubs[d][u])}
               start == Concerned(d, n) \ wait
    <3>1. querySubs' = [querySubs EXCEPT ![d] = Started(Marked(@, wait, n), start)]
          /\ inbox[d] # <<>>
      BY <2>2 DEF ReceiveCommit
    <3>2. CASE c = d /\ s \in wait
      <4>1. querySubs'[c][s] = [querySubs[c][s] EXCEPT !.dirty = TRUE, !.pending = n.batch]
        BY <3>1, <3>2 DEF Started, Marked, TypeOK
      <4>2. Live(querySubs[c], s) /\ querySubs[c][s].account = n.account
        BY <3>2 DEF Concerned
      <4>3. querySubs[c][s] \in QuerySub /\ SubSound(c, querySubs[c][s])
        BY <4>2, LiveTypes DEF SubsSound
      <4>4. querySubs'[c][s].account = n.account /\ querySubs'[c][s].pending = n.batch
        BY <4>1, <4>2, <4>3 DEF QuerySub
      <4> QED BY <1>5, <3>1, <3>2, <4>2, <4>3, <4>4, HeadSound DEF SubSound
    <3>3. CASE c = d /\ s \in start
      <4>1. querySubs'[c][s] = [querySubs[c][s] EXCEPT !.inFlight = TRUE]
        BY <3>1, <3>3 DEF Started, Marked, TypeOK
      <4>2. Live(querySubs[c], s)
        BY <3>3 DEF Concerned
      <4>3. querySubs[c][s] \in QuerySub
        BY <4>2, LiveTypes
      <4> QED BY <1>6, <4>1, <4>2, <4>3 DEF QuerySub
    <3>4. CASE ~(c = d /\ s \in wait \cup start)
      <4>1. querySubs'[c][s] = querySubs[c][s]
        BY <3>1, <3>4 DEF Started, Marked, TypeOK
      <4> QED BY <1>7, <4>1
    <3> QED BY <3>2, <3>3, <3>4
  <2>3. Live(querySubs[c], s) => querySubs[c][s] \in QuerySub
    BY LiveTypes
  <2>4. CASE ReceiveLagged(d)
    <3> DEFINE all == {u \in SubIds : Live(querySubs[d], u)}
               start == {u \in all : ~querySubs[d][u].inFlight}
               dirty == [u \in SubIds |-> IF u \in all THEN [querySubs[d][u] EXCEPT !.dirty = TRUE]
                                          ELSE querySubs[d][u]]
    <3>1. querySubs' = [querySubs EXCEPT ![d] = Started(dirty, start)]
      BY <2>4 DEF ReceiveLagged
    <3>2. CASE c = d /\ s \in all
      <4>1. /\ Live(querySubs[c], s)
            /\ \/ querySubs'[c][s] = [querySubs[c][s] EXCEPT !.dirty = TRUE]
               \/ querySubs'[c][s] = [[querySubs[c][s] EXCEPT !.dirty = TRUE] EXCEPT !.inFlight = TRUE]
        BY <3>1, <3>2 DEF Started, TypeOK
      <4>2. querySubs[c][s] \in QuerySub
        BY <4>1, LiveTypes
      <4> QED BY <1>6, <4>1, <4>2 DEF QuerySub
    <3>3. CASE ~(c = d /\ s \in all)
      <4>1. querySubs'[c][s] = querySubs[c][s]
        BY <3>1, <3>3 DEF Started, TypeOK
      <4> QED BY <1>7, <4>1
    <3> QED BY <3>2, <3>3
  <2>5. CASE Complete(d)
    <3> DEFINE t == Head(outcomes[d]).sub
               e == Head(outcomes[d]).eval
    <3>1. \/ querySubs' = querySubs
          \/ /\ Live(querySubs[d], t)
             /\ querySubs' = [querySubs EXCEPT ![d][t] =
                                IF e.status = "ok" THEN Delivered(@) ELSE Failed(@)]
      BY <2>5 DEF Complete
    <3> HIDE DEF t, e
    <3>2. \/ querySubs'[c][s] = querySubs[c][s]
          \/ /\ Live(querySubs[c], s)
             /\ \/ querySubs'[c][s] = Delivered(querySubs[c][s])
                \/ querySubs'[c][s] = Failed(querySubs[c][s])
      <4>1. querySubs \in [Conns -> [SubIds -> QuerySub \cup {Nothing}]]
        BY DEF TypeOK
      <4>2. (c = d /\ s = t) \/ querySubs'[c][s] = querySubs[c][s]
        BY <3>1, <4>1
      <4>3. CASE c = d /\ s = t
        BY <3>1, <4>1, <4>3
      <4> QED BY <4>2, <4>3
    <3> QED BY <1>6, <1>7, <2>3, <3>2 DEF Delivered, Failed, QuerySub
  <2>6. CASE DebounceTick(d)
    <3> DEFINE due == {u \in SubIds : Live(querySubs[d], u) /\ Due(querySubs[d][u])}
    <3>1. querySubs' = [querySubs EXCEPT ![d] = Started(@, due)]
      BY <2>6 DEF DebounceTick
    <3>2. \/ querySubs'[c][s] = querySubs[c][s]
          \/ Live(querySubs[c], s) /\ querySubs'[c][s] = [querySubs[c][s] EXCEPT !.inFlight = TRUE]
      BY <3>1 DEF Started, TypeOK
    <3> QED BY <1>6, <1>7, <2>3, <3>2 DEF QuerySub
  <2>7. CASE \E t \in SubIds : RestEnds(d, t)
    <3>1. PICK t \in SubIds : RestEnds(d, t)
      BY <2>7
    <3>2. \/ querySubs'[c][s] = querySubs[c][s]
          \/ Live(querySubs[c], s) /\ querySubs'[c][s] = [querySubs[c][s] EXCEPT !.resting = FALSE]
      BY <3>1 DEF RestEnds, TypeOK
    <3> QED BY <1>6, <1>7, <2>3, <3>2 DEF QuerySub
  <2> QED BY <1>10, <2>1, <2>2, <2>4, <2>5, <2>6, <2>7 DEF Session
<1>11. ASSUME NEW d \in Conns, Evaluating(d) PROVE querySubs' = querySubs
  BY <1>11 DEF Evaluating, Evaluate, Report
<1>12. UNCHANGED vars => querySubs' = querySubs
  BY DEF vars, sessionVars
<1> QED BY <1>7, <1>8, <1>9, <1>10, <1>11, <1>12 DEF Next

\* Evaluations: a step spawns one for a subscription at a batch there is, lets
\* one read the store, or keeps them.
LEMMA SpawnedSound ==
  ASSUME TypeOK, EvalsSound, InboxSound, [Next]_vars, NEW c \in Conns, key'[c] = key[c],
         NEW subs, NEW S \in SUBSET SubIds, NEW waiting, NEW batch,
         \A s \in S : /\ subs[s] \in QuerySub /\ batch[s] \in Nat
                      /\ Authorized(c, subs[s].account)
                      /\ batch[s] <= Len(changes[subs[s].account]),
         Spawned(c, subs, S, waiting, batch),
         NEW s \in SubIds, NEW i \in DOMAIN evals'[c][s]
  PROVE  EvalSound(c, evals[c][s][i])'
<1> DEFINE e == [account |-> subs[s].account, tables |-> subs[s].tables,
                 batch |-> batch[s], status |-> "spawned", upTo |-> 0]
<1>1. evals[c][s] \in Seq(Evaluation)
  BY DEF TypeOK
<1>2. s \in S => e \in Evaluation
  BY DEF QuerySub, Evaluation
<1>3. evals'[c][s] = IF s \in S THEN Append(evals[c][s], e) ELSE evals[c][s]
  BY DEF Spawned, TypeOK
<1>4. s \in S => e.account = subs[s].account /\ e.batch = batch[s] /\ e.status = "spawned"
  OBVIOUS
<1> HIDE DEF e
<1>5. s \in S => EvalSound(c, e)
  BY <1>4 DEF EvalSound
<1>6. \/ s \in S /\ evals'[c][s][i] = e
      \/ \E k \in DOMAIN evals[c][s] : evals'[c][s][i] = evals[c][s][k]
  BY <1>1, <1>2, <1>3, AppendElements
<1>7. evals'[c][s][i] \in Evaluation /\ EvalSound(c, evals'[c][s][i])
  BY <1>1, <1>2, <1>5, <1>6 DEF EvalsSound
<1>8. \A f \in Evaluation : EvalSound(c, f) => EvalSound(c, f)'
  BY SoundKept
<1>9. \A f \in Evaluation : f = evals'[c][s][i] => EvalSound(c, f)'
  BY <1>7, <1>8
<1> QED BY <1>7, <1>9 DEF EvalSound, Authorized

LEMMA EvalsStep ==
  ASSUME TypeOK, IdleEmpty, InboxSound, SubsSound, EvalsSound, [Next]_vars
  PROVE  EvalsSound'
<1> SUFFICES ASSUME NEW c \in Conns, NEW s \in SubIds, NEW i \in DOMAIN evals'[c][s]
             PROVE  EvalSound(c, evals[c][s][i])'
  BY DEF EvalsSound
<1>1. TypeOK' /\ IdleEmpty'
  BY TypeStep, IdleStep
<1>2. Open(c)'
  BY <1>1 DEF IdleEmpty, NoEvals
<1>3. key'[c] = key[c]
  BY <1>2, OpenKey
<1>4. evals \in [Conns -> [SubIds -> Seq(Evaluation)]] /\ evals'[c][s] \in Seq(Evaluation)
  BY <1>1 DEF TypeOK
<1>5. ASSUME EvalSound(c, evals'[c][s][i]) PROVE EvalSound(c, evals[c][s][i])'
  <2>1. \A f \in Evaluation : EvalSound(c, f) => EvalSound(c, f)'
    BY <1>3, SoundKept
  <2>2. evals'[c][s][i] \in Evaluation
    BY <1>4
  <2>3. \A f \in Evaluation : f = evals'[c][s][i] => EvalSound(c, f)'
    BY <1>5, <2>1
  <2> QED BY <2>2, <2>3 DEF EvalSound, Authorized
<1>6. ASSUME NEW k \in DOMAIN evals[c][s], evals'[c][s][i] = evals[c][s][k]
      PROVE  EvalSound(c, evals[c][s][i])'
  BY <1>5, <1>6 DEF EvalsSound
<1>7. CASE evals'[c][s] = evals[c][s]
  BY <1>6, <1>7
<1>8. ASSUME NEW a \in Accounts, Writer(a) PROVE evals' = evals
  BY <1>8 DEF Writer, Announce, Commit, sessionVars
<1>9. ASSUME NEW d \in Conns, NEW subs, NEW S, NEW waiting, NEW batch,
             Spawned(d, subs, S, waiting, batch)
      PROVE  c = d \/ evals'[c] = evals[c]
  BY <1>4, <1>9 DEF Spawned
<1>10. ASSUME NEW d \in Conns, Client(d) PROVE EvalSound(c, evals[c][s][i])'
  <2>1. CASE Disconnect(d)
    <3>1. ~Open(d)' /\ evals' = [evals EXCEPT ![d] = NoEvals]
      BY <2>1 DEF Disconnect, Open, TypeOK
    <3> QED BY <1>2, <1>4, <1>7, <3>1
  <2>2. ASSUME NEW t \in SubIds, NEW a \in Accounts, NEW tables \in Queries,
               SubscribeQuery(d, t, a, tables)
        PROVE  EvalSound(c, evals[c][s][i])'
    <3> DEFINE subs == querySubs'[d]
               zero == [u \in SubIds |-> 0]
    <3>1. Spawned(d, subs, {t}, {}, zero) /\ Authorized(d, a) /\ Len(changes[a]) \in Nat
      BY <2>2 DEF SubscribeQuery, TypeOK
    <3>2. subs[t].account = a /\ subs[t] \in QuerySub
      BY <2>2, LiveQueryAssumption DEF SubscribeQuery, TypeOK, QuerySub
    <3>3. \A u \in {t} : /\ subs[u] \in QuerySub /\ zero[u] \in Nat
                         /\ Authorized(d, subs[u].account)
                         /\ zero[u] <= Len(changes[subs[u].account])
      BY <3>1, <3>2
    <3>4. {t} \in SUBSET SubIds
      OBVIOUS
    <3> HIDE DEF subs, zero
    <3>5. CASE c = d
      BY <1>3, <3>1, <3>3, <3>4, <3>5, SpawnedSound
    <3> QED BY <1>7, <1>9, <3>1, <3>5
  <2>3. ASSUME ~Disconnect(d),
               ~\E t \in SubIds, a \in Accounts, tables \in Queries : SubscribeQuery(d, t, a, tables)
        PROVE  evals' = evals
    BY <1>10, <2>3 DEF Client, Upgrade, SubscribeTableDeltas, Unsubscribe, sessionVars
  <2> QED BY <1>7, <2>1, <2>2, <2>3
<1>11. ASSUME NEW d \in Conns, NEW S \in SUBSET SubIds, NEW waiting, NEW batch,
              Spawned(d, querySubs[d], S, waiting, batch),
              \A u \in S : /\ Live(querySubs[d], u)
                           /\ \/ batch[u] = querySubs[d][u].pending
                              \/ /\ batch[u] \in Nat
                                 /\ batch[u] <= Len(changes[querySubs[d][u].account])
       PROVE  EvalSound(c, evals[c][s][i])'
  <2>1. \A u \in S : /\ querySubs[d][u] \in QuerySub /\ batch[u] \in Nat
                     /\ Authorized(d, querySubs[d][u].account)
                     /\ batch[u] <= Len(changes[querySubs[d][u].account])
    BY <1>11, LiveTypes DEF SubsSound, SubSound, QuerySub
  <2>2. CASE c = d
    BY <1>3, <1>11, <2>1, <2>2, SpawnedSound
  <2> QED BY <1>7, <1>9, <1>11, <2>2
<1>12. ASSUME NEW d \in Conns, Session(d) PROVE EvalSound(c, evals[c][s][i])'
  <2>1. CASE ReceiveCommit(d)
    <3> DEFINE n == Head(inbox[d])
               wait == {u \in Concerned(d, n) : MustWait(querySubs[d][u])}
               start == Concerned(d, n) \ wait
               batch == [u \in start |-> n.batch]
    <3>1. Spawned(d, querySubs[d], start, wait, batch) /\ inbox[d] # <<>>
      BY <2>1 DEF ReceiveCommit
    <3>2. n \in Notification /\ n.batch <= Len(changes[n.account])
      BY <3>1, HeadSound
    <3>3. start \in SUBSET SubIds /\ \A u \in start :
            /\ Live(querySubs[d], u) /\ querySubs[d][u].account = n.account
            /\ batch[u] = n.batch
      BY DEF Concerned
    <3>4. n.batch \in Nat
      BY <3>2 DEF Notification
    <3> HIDE DEF n, wait, start, batch
    <3>5. \A u \in start :
            /\ Live(querySubs[d], u)
            /\ \/ batch[u] = querySubs[d][u].pending
               \/ /\ batch[u] \in Nat
                  /\ batch[u] <= Len(changes[querySubs[d][u].account])
      BY <3>2, <3>3, <3>4
    <3> QED BY <1>11, <3>1, <3>3, <3>5, Zenon
  <2>2. CASE ReceiveLagged(d)
    <3> DEFINE all == {u \in SubIds : Live(querySubs[d], u)}
               start == {u \in all : ~querySubs[d][u].inFlight}
               batch == [u \in start |-> querySubs[d][u].pending]
    <3>1. Spawned(d, querySubs[d], start, all \ start, batch)
      BY <2>2 DEF ReceiveLagged
    <3>2. start \in SUBSET SubIds /\ \A u \in start :
            Live(querySubs[d], u) /\ batch[u] = querySubs[d][u].pending
      OBVIOUS
    <3> HIDE DEF all, start, batch
    <3>3. \A u \in start :
            /\ Live(querySubs[d], u)
            /\ \/ batch[u] = querySubs[d][u].pending
               \/ /\ batch[u] \in Nat
                  /\ batch[u] <= Len(changes[querySubs[d][u].account])
      BY <3>2
    <3> QED BY <1>11, <3>1, <3>2, <3>3, Zenon
  <2>3. CASE DebounceTick(d)
    <3> DEFINE due == {u \in SubIds : Live(querySubs[d], u) /\ Due(querySubs[d][u])}
               batch == [u \in due |-> querySubs[d][u].pending]
    <3>1. Spawned(d, querySubs[d], due, {}, batch)
      BY <2>3 DEF DebounceTick
    <3>2. due \in SUBSET SubIds /\ \A u \in due :
            Live(querySubs[d], u) /\ batch[u] = querySubs[d][u].pending
      OBVIOUS
    <3> HIDE DEF due, batch
    <3>3. \A u \in due :
            /\ Live(querySubs[d], u)
            /\ \/ batch[u] = querySubs[d][u].pending
               \/ /\ batch[u] \in Nat
                  /\ batch[u] <= Len(changes[querySubs[d][u].account])
      BY <3>2
    <3> QED BY <1>11, <3>1, <3>2, <3>3, Zenon
  <2>4. ASSUME ~ReceiveCommit(d), ~ReceiveLagged(d), ~DebounceTick(d) PROVE evals' = evals
    BY <1>12, <2>4 DEF Session, StartSession, Complete, RestEnds, sessionVars
  <2> QED BY <1>7, <2>1, <2>2, <2>3, <2>4
<1>13. ASSUME NEW d \in Conns, Evaluating(d) PROVE EvalSound(c, evals[c][s][i])'
  <2>1. PICK t \in SubIds : \E k \in DOMAIN evals[d][t] : Evaluate(d, t, k) \/ Report(d, t, k)
    BY <1>13 DEF Evaluating
  <2>2. PICK k \in DOMAIN evals[d][t] : Evaluate(d, t, k) \/ Report(d, t, k)
    BY <2>1
  <2>3. CASE Report(d, t, k)
    <3>1. evals' = [evals EXCEPT ![d][t] = RemoveAt(@, k)]
      BY <2>3 DEF Report
    <3>2. CASE c = d /\ s = t
      <4>1. evals'[c][s] = RemoveAt(evals[c][s], k) /\ evals[c][s] \in Seq(Evaluation)
        BY <1>4, <3>1, <3>2
      <4>2. \E m \in DOMAIN evals[c][s] : evals'[c][s][i] = evals[c][s][m]
        BY <2>2, <3>2, <4>1, RemoveAtElements
      <4> QED BY <1>6, <4>2
    <3>3. ~(c = d /\ s = t) => evals'[c][s] = evals[c][s]
      BY <1>4, <3>1
    <3> QED BY <1>7, <3>2, <3>3
  <2>4. CASE Evaluate(d, t, k)
    <3> DEFINE e == evals[c][s][k]
    <3>1. ~(c = d /\ s = t) => evals'[c][s] = evals[c][s]
      BY <1>4, <2>4 DEF Evaluate
    <3>2. CASE c = d /\ s = t
      <4>1. e \in Evaluation /\ EvalSound(c, e)
        BY <1>4, <2>2, <3>2 DEF EvalsSound
      <4>2. PICK f : /\ evals'[c][s] = [evals[c][s] EXCEPT ![k] = f]
                     /\ \/ f = [e EXCEPT !.status = "failed"]
                        \/ f = [e EXCEPT !.status = "ok", !.upTo = Len(changes[e.account])]
        <5>1. CASE evals' = [evals EXCEPT ![d][t][k].status = "failed"]
          BY <1>4, <3>2, <5>1
        <5>2. CASE evals' = [evals EXCEPT ![d][t][k].status = "ok",
                               ![d][t][k].upTo = Len(changes[evals[d][t][k].account])]
          <6> DEFINE f == [e EXCEPT !.status = "ok", !.upTo = Len(changes[e.account])]
          <6>1. evals'[c][s] = [evals[c][s] EXCEPT ![k] = f]
            BY <1>4, <2>2, <3>2, <5>2
          <6> QED BY <6>1
        <5> QED BY <2>4, <5>1, <5>2 DEF Evaluate
      <4>3. EvalSound(c, f)
        BY <4>1, <4>2 DEF EvalSound, Evaluation
      <4>4. evals'[c][s][i] = IF i = k THEN f ELSE evals[c][s][i]
        BY <1>4, <2>2, <3>2, <4>2
      <4>5. i \in DOMAIN evals[c][s]
        BY <4>2
      <4> QED BY <1>5, <1>6, <4>3, <4>4, <4>5
    <3> QED BY <1>7, <3>1, <3>2
  <2> QED BY <2>2, <2>3, <2>4
<1>14. UNCHANGED vars => evals' = evals
  BY DEF vars, sessionVars
<1> QED BY <1>7, <1>8, <1>10, <1>12, <1>13, <1>14 DEF Next

\* Outcomes: they are evaluations that have ended.
LEMMA OutcomesStep ==
  ASSUME TypeOK, IdleEmpty, InboxSound, EvalsSound, OutcomesSound, [Next]_vars
  PROVE  OutcomesSound'
<1> SUFFICES ASSUME NEW c \in Conns, NEW i \in DOMAIN outcomes'[c]
             PROVE  EvalSound(c, outcomes[c][i].eval)'
  BY DEF OutcomesSound
<1>1. TypeOK' /\ IdleEmpty'
  BY TypeStep, IdleStep
<1>2. Open(c)'
  BY <1>1 DEF IdleEmpty
<1>3. key'[c] = key[c]
  BY <1>2, OpenKey
<1>4. /\ outcomes \in [Conns -> Seq(Outcome)] /\ outcomes'[c] \in Seq(Outcome)
      /\ outcomes'[c][i].eval \in Evaluation
  <2>1. outcomes \in [Conns -> Seq(Outcome)] /\ outcomes' \in [Conns -> Seq(Outcome)]
    BY <1>1 DEF TypeOK
  <2>2. outcomes'[c][i] \in Outcome
    BY <2>1
  <2> QED BY <2>1, <2>2 DEF Outcome
<1>5. ASSUME EvalSound(c, outcomes'[c][i].eval) PROVE EvalSound(c, outcomes[c][i].eval)'
  <2>1. \A f \in Evaluation : EvalSound(c, f) => EvalSound(c, f)'
    BY <1>3, SoundKept
  <2>2. \A f \in Evaluation : f = outcomes'[c][i].eval => EvalSound(c, f)'
    BY <1>5, <2>1
  <2> QED BY <1>4, <2>2 DEF EvalSound, Authorized
<1>6. ASSUME NEW k \in DOMAIN outcomes[c], outcomes'[c][i] = outcomes[c][k]
      PROVE  EvalSound(c, outcomes[c][i].eval)'
  BY <1>5, <1>6 DEF OutcomesSound
<1>7. CASE outcomes'[c] = outcomes[c]
  BY <1>6, <1>7
<1>8. ASSUME NEW a \in Accounts, Writer(a) PROVE outcomes' = outcomes
  BY <1>8 DEF Writer, Announce, Commit, sessionVars
<1>9. ASSUME NEW d \in Conns, Client(d) PROVE outcomes'[c] = outcomes[c] \/ outcomes'[c] = <<>>
  <2>1. Disconnect(d) => outcomes' = [outcomes EXCEPT ![d] = <<>>]
    BY DEF Disconnect
  <2>2. ~Disconnect(d) => outcomes' = outcomes
    BY <1>9 DEF Client, Upgrade, SubscribeQuery, SubscribeTableDeltas, Unsubscribe, sessionVars
  <2> QED BY <1>4, <2>1, <2>2
<1>10. ASSUME NEW d \in Conns, Session(d) PROVE EvalSound(c, outcomes[c][i].eval)'
  <2>1. Complete(d) => outcomes[d] # <<>> /\ outcomes' = [outcomes EXCEPT ![d] = Tail(@)]
    BY DEF Complete
  <2>2. ~Complete(d) => outcomes' = outcomes
    BY <1>10 DEF Session, StartSession, ReceiveCommit, ReceiveLagged, DebounceTick, RestEnds,
                 sessionVars
  <2>3. CASE outcomes[c] # <<>> /\ outcomes'[c] = Tail(outcomes[c])
    <3>1. outcomes[c] \in Seq(Outcome)
      BY <1>4
    <3>2. \A m \in DOMAIN Tail(outcomes[c]) :
            m + 1 \in DOMAIN outcomes[c] /\ Tail(outcomes[c])[m] = outcomes[c][m + 1]
      BY <2>3, <3>1, TailElements
    <3>3. i + 1 \in DOMAIN outcomes[c] /\ outcomes'[c][i] = outcomes[c][i + 1]
      BY <2>3, <3>2
    <3> QED BY <1>6, <3>3
  <2>4. outcomes'[c] = outcomes[c] \/ (outcomes[c] # <<>> /\ outcomes'[c] = Tail(outcomes[c]))
    BY <1>4, <2>1, <2>2
  <2> QED BY <1>7, <2>3, <2>4
<1>11. ASSUME NEW d \in Conns, Evaluating(d) PROVE EvalSound(c, outcomes[c][i].eval)'
  <2>1. PICK t \in SubIds : \E k \in DOMAIN evals[d][t] : Evaluate(d, t, k) \/ Report(d, t, k)
    BY <1>11 DEF Evaluating
  <2>2. PICK k \in DOMAIN evals[d][t] : Evaluate(d, t, k) \/ Report(d, t, k)
    BY <2>1
  <2>3. CASE Evaluate(d, t, k)
    BY <1>7, <2>3 DEF Evaluate
  <2>4. CASE Report(d, t, k)
    <3> DEFINE o == [sub |-> t, eval |-> evals[d][t][k]]
    <3>1. o \in Outcome /\ o.eval = evals[d][t][k]
      BY <2>2 DEF TypeOK, Outcome
    <3>2. outcomes' = [outcomes EXCEPT ![d] = Append(@, o)]
      BY <2>4 DEF Report
    <3> HIDE DEF o
    <3>3. outcomes[d] \in Seq(Outcome)
      BY <1>4
    <3>4. c # d => outcomes'[c] = outcomes[c]
      BY <1>4, <3>2
    <3>5. CASE c = d
      <4>1. outcomes'[c] = Append(outcomes[c], o)
        BY <1>4, <3>2, <3>5
      <4>2. outcomes'[c][i] = o \/ \E m \in DOMAIN outcomes[c] : outcomes'[c][i] = outcomes[c][m]
        BY <3>1, <3>3, <3>5, <4>1, AppendElements
      <4>3. EvalSound(c, o.eval)
        BY <2>2, <3>1, <3>5 DEF EvalsSound
      <4> QED BY <1>5, <1>6, <4>2, <4>3
    <3> QED BY <1>7, <3>4, <3>5
  <2> QED BY <2>2, <2>3, <2>4
<1>12. UNCHANGED vars => outcomes' = outcomes
  BY DEF vars, sessionVars
<1>13. CASE outcomes'[c] = <<>>
  BY <1>13
<1> QED BY <1>7, <1>8, <1>9, <1>10, <1>11, <1>12, <1>13 DEF Next

\* What the client is shown: a step keeps it, or shows what an outcome says.
LEMMA ShownStep ==
  ASSUME IInv, [Next]_vars
  PROVE  AccountIsolation' /\ SnapshotCoversBatch'
<1> USE DEF IInv
<1> SUFFICES ASSUME NEW c \in Conns, NEW s \in SubIds, Live(shown'[c], s)
             PROVE  /\ key'[c] \in {Nothing, shown'[c][s].account}
                    /\ shown'[c][s].upTo >= shown'[c][s].batch
  BY DEF AccountIsolation, SnapshotCoversBatch
<1>1. TypeOK' /\ IdleEmpty'
  BY TypeStep, IdleStep
<1>2. Open(c)'
  BY <1>1 DEF IdleEmpty, NoSubs, Live
<1>3. key'[c] = key[c]
  BY <1>2, OpenKey
<1>4. shown \in [Conns -> [SubIds -> QuerySnapshot \cup {Nothing}]]
  BY DEF TypeOK
<1>5. CASE shown'[c][s] = shown[c][s]
  BY <1>3, <1>5 DEF AccountIsolation, SnapshotCoversBatch, Live
<1>6. ASSUME NEW a \in Accounts, Writer(a) PROVE shown' = shown
  BY <1>6 DEF Writer, Announce, Commit, sessionVars
<1>7. ASSUME NEW d \in Conns, Client(d) PROVE shown'[c][s] = shown[c][s]
  <2>1. CASE Disconnect(d)
    <3>1. ~Open(d)' /\ shown' = [shown EXCEPT ![d] = NoSubs]
      BY <2>1 DEF Disconnect, Open, TypeOK
    <3> QED BY <1>2, <1>4, <3>1
  <2>2. ASSUME NEW t \in SubIds, shown' = [shown EXCEPT ![d][t] = Nothing]
        PROVE  shown'[c][s] = shown[c][s]
    BY <1>4, <2>2 DEF Live
  <2>3. \A t \in SubIds, a \in Accounts, tables \in Queries :
          SubscribeQuery(d, t, a, tables) => shown' = [shown EXCEPT ![d][t] = Nothing]
    BY DEF SubscribeQuery
  <2>4. \A t \in SubIds : Unsubscribe(d, t) => shown' = [shown EXCEPT ![d][t] = Nothing]
    BY DEF Unsubscribe
  <2>5. \A t \in SubIds, a \in Accounts, tables \in DeltaLists :
          SubscribeTableDeltas(d, t, a, tables) => shown' = shown
    BY DEF SubscribeTableDeltas
  <2>6. \A locked \in Keyed \cup {Nothing} : Upgrade(d, locked) => shown' = shown
    BY DEF Upgrade, sessionVars
  <2> QED BY <1>7, <2>1, <2>2, <2>3, <2>4, <2>5, <2>6 DEF Client
<1>8. ASSUME NEW d \in Conns, Complete(d)
      PROVE  /\ key'[c] \in {Nothing, shown'[c][s].account}
             /\ shown'[c][s].upTo >= shown'[c][s].batch
  <2> DEFINE t == Head(outcomes[d]).sub
             e == Head(outcomes[d]).eval
  <2>1. /\ outcomes[d] # <<>>
        /\ \/ shown' = shown
           \/ /\ e.status = "ok"
              /\ shown' = [shown EXCEPT ![d][t] = Snapshot(querySubs[d][t], e)]
    BY <1>8 DEF Complete
  <2>2. e \in Evaluation /\ EvalSound(d, e)
    <3>1. outcomes[d] \in Seq(Outcome)
      BY DEF TypeOK
    <3>2. Head(outcomes[d]) \in Outcome /\ 1 \in DOMAIN outcomes[d] /\ Head(outcomes[d]) = outcomes[d][1]
      BY <2>1, <3>1, TailElements
    <3> QED BY <3>2 DEF OutcomesSound, Outcome
  <2> HIDE DEF t, e
  <2>3. CASE shown' # shown /\ c = d /\ s = t
    <3>1. shown'[c][s] = Snapshot(querySubs[d][t], e) /\ e.status = "ok"
      BY <1>4, <2>1, <2>3
    <3>2. shown'[c][s].account = e.account /\ shown'[c][s].upTo = e.upTo
          /\ shown'[c][s].batch = e.batch
      BY <3>1 DEF Snapshot
    <3> QED BY <1>3, <2>2, <2>3, <3>1, <3>2 DEF EvalSound, Authorized
  <2>4. CASE ~(shown' # shown /\ c = d /\ s = t)
    <3>1. shown'[c][s] = shown[c][s]
      BY <1>4, <2>1, <2>4
    <3> QED BY <1>5, <3>1
  <2> QED BY <2>3, <2>4
<1>9. ASSUME NEW d \in Conns, Session(d), ~Complete(d) PROVE shown' = shown
  BY <1>9 DEF Session, StartSession, ReceiveCommit, ReceiveLagged, DebounceTick, RestEnds,
              sessionVars
<1>10. ASSUME NEW d \in Conns, Evaluating(d) PROVE shown' = shown
  BY <1>10 DEF Evaluating, Evaluate, Report
<1>11. UNCHANGED vars => shown' = shown
  BY DEF vars, sessionVars
<1> QED BY <1>5, <1>6, <1>7, <1>8, <1>9, <1>10, <1>11 DEF Next

LEMMA InvStep == IInv /\ [Next]_vars => IInv'
<1> SUFFICES ASSUME IInv, [Next]_vars PROVE IInv'
  OBVIOUS
<1> QED BY TypeStep, IdleStep, InboxStep, SubsStep, EvalsStep, OutcomesStep, ShownStep DEF IInv

LEMMA Invariance == Spec => []IInv
BY InvInit, InvStep, PTL DEF Spec

\* A session whose API key belongs to an account is shown that account's data
\* only, through evaluations that overtake each other, subscription ids used
\* again and connections that come and go (ws.rs:339, ws.rs:549).
THEOREM AccountAlwaysIsolated == Spec => []AccountIsolation
<1>1. IInv => AccountIsolation
  BY DEF IInv
<1> QED BY <1>1, Invariance, PTL

\* A snapshot labelled with a batch reflects it, wherever the mark of the batch
\* waited (ws.rs:487-512, ws.rs:578).
THEOREM SnapshotAlwaysCovers == Spec => []SnapshotCoversBatch
<1>1. IInv => SnapshotCoversBatch
  BY DEF IInv
<1> QED BY <1>1, Invariance, PTL

-----------------------------------------------------------------------------
(* Delta subscriptions.                                                    *)

\* The client has batch i of its delta subscription d, need not have it, or
\* will have it.
Covered(c, d, i) ==
  \/ i \in d.got
  \/ d.tables \cap changes[d.account][i].listed = {}
  \/ changes[d.account][i].silent
  \/ \E j \in DOMAIN inbox[c] : inbox[c][j].account = d.account /\ inbox[c][j].batch = i

QueueBounded == \A c \in Conns : Len(inbox[c]) <= BroadcastCapacity

DInv == TypeOK /\ IdleEmpty /\ InboxSound /\ QueueBounded /\ DeltasComplete

LEMMA QueueStep ==
  ASSUME TypeOK, QueueBounded, [Next]_vars
  PROVE  QueueBounded'
<1> SUFFICES ASSUME NEW c \in Conns PROVE Len(inbox'[c]) <= BroadcastCapacity
  BY DEF QueueBounded
<1>1. /\ inbox \in [Conns -> Seq(Notification)] /\ inbox[c] \in Seq(Notification)
      /\ Len(inbox[c]) <= BroadcastCapacity /\ Len(inbox[c]) \in Nat /\ BroadcastCapacity \in Nat
  BY LiveQueryAssumption DEF TypeOK, QueueBounded
<1>2. ASSUME NEW a \in Accounts, Announce(a) PROVE Len(inbox'[c]) <= BroadcastCapacity
  <2> DEFINE n == Announced(a)
             all == Append(inbox[c], n)
  <2>1. inbox'[c] = IF ~Open(c) THEN inbox[c]
                    ELSE IF Len(all) > BroadcastCapacity THEN Tail(all) ELSE all
    BY <1>2 DEF Announce
  <2>2. n \in Notification
    BY <1>2, AnnouncedTypes DEF Announce
  <2> HIDE DEF n
  <2>3. Len(all) = Len(inbox[c]) + 1 /\ Len(Tail(all)) = Len(inbox[c])
    BY <1>1, <2>2
  <2> HIDE DEF all
  <2> QED BY <1>1, <2>1, <2>3
<1>3. ASSUME inbox' = inbox \/ \E d \in Conns : \/ inbox' = [inbox EXCEPT ![d] = <<>>]
                                                \/ /\ inbox[d] # <<>>
                                                   /\ inbox' = [inbox EXCEPT ![d] = Tail(@)]
      PROVE  Len(inbox'[c]) <= BroadcastCapacity
  <2>1. inbox'[c] = inbox[c] \/ inbox'[c] = <<>> \/ (inbox[c] # <<>> /\ inbox'[c] = Tail(inbox[c]))
    BY <1>1, <1>3
  <2>2. inbox[c] # <<>> => Len(Tail(inbox[c])) = Len(inbox[c]) - 1
    BY <1>1, TailElements
  <2> QED BY <1>1, <2>1, <2>2
<1>4. ASSUME NEW a \in Accounts, NEW tables \in Batches, NEW silent \in BOOLEAN,
             Commit(a, tables, silent)
      PROVE  inbox' = inbox
  BY <1>4 DEF Commit
<1>5. ASSUME NEW d \in Conns, Client(d)
      PROVE  inbox' = inbox \/ inbox' = [inbox EXCEPT ![d] = <<>>]
  BY <1>5 DEF Client, Upgrade, Disconnect, SubscribeQuery, SubscribeTableDeltas, Unsubscribe
<1>6. ASSUME NEW d \in Conns, Session(d)
      PROVE  \/ inbox' = inbox
             \/ inbox[d] # <<>> /\ inbox' = [inbox EXCEPT ![d] = Tail(@)]
  BY <1>6 DEF Session, StartSession, ReceiveCommit, ReceiveLagged, Complete, DebounceTick, RestEnds
<1>7. ASSUME NEW d \in Conns, Evaluating(d) PROVE inbox' = inbox
  BY <1>7 DEF Evaluating, Evaluate, Report
<1>8. UNCHANGED vars => inbox' = inbox
  BY DEF vars
<1> QED BY <1>2, <1>3, <1>4, <1>5, <1>6, <1>7, <1>8 DEF Next, Writer

\* A delta subscription misses no batch since its client was last told of a lag.
LEMMA DeltasStep ==
  ASSUME DInv, [Next]_vars
  PROVE  DeltasComplete'
<1> USE DEF DInv
<1> SUFFICES ASSUME NEW c \in Conns, NEW s \in SubIds, Live(deltaSubs'[c], s),
                    ~missed'[c],
                    NEW i \in deltaSubs'[c][s].since + 1 .. announced'[deltaSubs'[c][s].account]
             PROVE  Covered(c, deltaSubs[c][s], i)'
  BY DEF DeltasComplete, Covered
<1>1. TypeOK' /\ IdleEmpty'
  BY TypeStep, IdleStep
<1>2. Open(c)'
  BY <1>1 DEF IdleEmpty, NoSubs, Live
<1>3. /\ deltaSubs \in [Conns -> [SubIds -> DeltaSub \cup {Nothing}]]
      /\ missed \in [Conns -> BOOLEAN]
      /\ inbox \in [Conns -> Seq(Notification)]
      /\ announced \in [Accounts -> Nat] /\ changes \in [Accounts -> Seq(Change)]
  BY DEF TypeOK
<1> DEFINE d == deltaSubs[c][s]
           a == d.account
\* A subscription that was there and has not lost its place.
<1>4. ASSUME Live(deltaSubs[c], s), ~missed[c]
      PROVE  /\ d \in DeltaSub /\ a \in Accounts /\ d.since \in Nat
             /\ \A k \in d.since + 1 .. announced[a] : Covered(c, d, k)
  <2>1. d \in DeltaSub
    BY <1>3, <1>4 DEF Live
  <2>2. \A k \in d.since + 1 .. announced[a] : Covered(c, d, k)
    BY <1>4 DEF DeltasComplete, Covered
  <2> QED BY <2>1, <2>2 DEF DeltaSub
\* What is said of a batch that was announced before holds on.
<1>5. ASSUME Live(deltaSubs[c], s), ~missed[c], i <= announced[a],
             deltaSubs'[c][s].account = a, deltaSubs'[c][s].since = d.since,
             deltaSubs'[c][s].tables = d.tables,
             \/ i \in deltaSubs'[c][s].got
             \/ \E j \in DOMAIN inbox'[c] : inbox'[c][j].account = a /\ inbox'[c][j].batch = i
             \/ d.tables \cap changes[a][i].listed = {} \/ changes[a][i].silent
      PROVE  Covered(c, deltaSubs[c][s], i)'
  <2>1. a \in Accounts /\ d.since \in Nat
    BY <1>4, <1>5
  <2>2. i \in 1..Len(changes[a])
    BY <1>3, <1>5, <2>1, Growth DEF InboxSound
  <2>3. changes'[a][i] = changes[a][i]
    BY <2>1, <2>2, Growth
  <2> QED BY <1>5, <2>3 DEF Covered
<1>6. CASE UNCHANGED <<storeVars, inbox, missed, deltaSubs>>
  <2>1. Live(deltaSubs[c], s) /\ ~missed[c] /\ i \in d.since + 1 .. announced[a]
    BY <1>6 DEF storeVars, Live
  <2>2. Covered(c, d, i)
    BY <1>4, <2>1
  <2> QED BY <1>6, <2>2 DEF Covered, storeVars
<1>7. ASSUME NEW b \in Accounts, Announce(b) PROVE Covered(c, deltaSubs[c][s], i)'
  <2> DEFINE n == Announced(b)
  <2>1. deltaSubs' = deltaSubs /\ conn' = conn /\ changes' = changes
    BY <1>7 DEF Announce, sessionVars
  <2>2. n \in Notification /\ n.account = b /\ n.batch = announced[b] + 1
        /\ announced' = [announced EXCEPT ![b] = @ + 1]
    BY <1>7, AnnouncedTypes DEF Announce, Announced
  <2>3. ~missed[c] /\ inbox'[c] = Append(inbox[c], n)
    <3>1. Open(c)
      BY <1>2, <2>1 DEF Open
    <3>2. ~missed[c] /\ Len(inbox[c]) # BroadcastCapacity
          /\ inbox'[c] = IF Len(Append(inbox[c], n)) > BroadcastCapacity
                         THEN Tail(Append(inbox[c], n)) ELSE Append(inbox[c], n)
      BY <1>7, <3>1 DEF Announce
    <3> HIDE DEF n
    <3>3. Len(inbox[c]) \in Nat /\ BroadcastCapacity \in Nat
          /\ Len(inbox[c]) <= BroadcastCapacity /\ Len(Append(inbox[c], n)) = Len(inbox[c]) + 1
      BY <1>3, <2>2, AppendElements, LiveQueryAssumption DEF QueueBounded
    <3> QED BY <3>2, <3>3
  <2> HIDE DEF n
  <2>4. Live(deltaSubs[c], s)
    BY <2>1 DEF Live
  <2>5. a \in Accounts /\ d.since \in Nat /\ \A k \in d.since + 1 .. announced[a] : Covered(c, d, k)
    BY <1>4, <2>3, <2>4
  <2>6. inbox[c] \in Seq(Notification)
    BY <1>3
  <2>7. /\ inbox'[c][Len(inbox[c]) + 1] = n /\ Len(inbox[c]) + 1 \in DOMAIN inbox'[c]
        /\ \A j \in DOMAIN inbox[c] : j \in DOMAIN inbox'[c] /\ inbox'[c][j] = inbox[c][j]
    BY <2>2, <2>3, <2>6, AppendElements
  <2>8. CASE i <= announced[a]
    <3>1. i \in d.since + 1 .. announced[a]
      BY <1>3, <2>1, <2>5, <2>8
    <3>2. Covered(c, d, i)
      BY <2>5, <3>1
    <3> QED BY <1>5, <2>1, <2>3, <2>4, <2>7, <2>8, <3>2 DEF Covered
  <2>9. CASE ~(i <= announced[a])
    <3>1. a = b /\ i = announced[b] + 1
      BY <1>3, <2>1, <2>2, <2>5, <2>9
    <3> QED BY <2>1, <2>2, <2>7, <3>1 DEF Covered
  <2> QED BY <2>8, <2>9
<1>8. ASSUME NEW b \in Accounts, NEW tables \in Batches, NEW silent \in BOOLEAN,
             Commit(b, tables, silent)
      PROVE  Covered(c, deltaSubs[c][s], i)'
  <2>1. UNCHANGED <<deltaSubs, missed, inbox>>
        /\ announced' = (IF silent THEN [announced EXCEPT ![b] = @ + 1] ELSE announced)
        /\ announced[b] = Len(changes[b])
    BY <1>8 DEF Commit, sessionVars
  <2>2. Live(deltaSubs[c], s) /\ ~missed[c]
    BY <2>1 DEF Live
  <2>3. a \in Accounts /\ d.since \in Nat /\ \A k \in d.since + 1 .. announced[a] : Covered(c, d, k)
    BY <1>4, <2>2
  <2>4. CASE i <= announced[a]
    <3>1. i \in d.since + 1 .. announced[a]
      BY <1>3, <2>1, <2>3, <2>4
    <3>2. Covered(c, d, i)
      BY <2>3, <3>1
    <3> QED BY <1>5, <2>1, <2>2, <2>4, <3>2 DEF Covered
  <2>5. CASE ~(i <= announced[a])
    <3>1. a = b /\ i = Len(changes[b]) + 1 /\ silent
      BY <1>3, <2>1, <2>3, <2>5
    <3>2. PICK listed : changes' = [changes EXCEPT ![b] =
            Append(@, [tables |-> tables, listed |-> listed, silent |-> silent])]
      BY <1>8 DEF Commit
    <3>3. changes'[b][Len(changes[b]) + 1].silent
      BY <1>3, <3>1, <3>2
    <3> QED BY <2>1, <3>1, <3>3 DEF Covered
  <2> QED BY <2>4, <2>5
<1>9. ASSUME NEW e \in Conns, Disconnect(e) PROVE Covered(c, deltaSubs[c][s], i)'
  <2>1. ~Open(e)'
    BY <1>9 DEF Disconnect, Open, TypeOK
  <2>2. c # e
    BY <1>2, <2>1
  <2>3. /\ deltaSubs'[c] = deltaSubs[c] /\ inbox'[c] = inbox[c]
        /\ missed'[c] = missed[c] /\ changes' = changes /\ announced' = announced
    BY <1>3, <1>9, <2>2 DEF Disconnect, storeVars
  <2>4. Live(deltaSubs[c], s) /\ ~missed[c] /\ i \in d.since + 1 .. announced[a]
    BY <2>3 DEF Live
  <2>5. Covered(c, d, i)
    BY <1>4, <2>4
  <2> QED BY <2>3, <2>5 DEF Covered
<1>10. ASSUME NEW e \in Conns, NEW t \in SubIds, NEW sub,
              deltaSubs' = [deltaSubs EXCEPT ![e][t] = sub],
              sub = Nothing \/ sub.since = announced[sub.account],
              UNCHANGED <<storeVars, inbox, missed>>
       PROVE  Covered(c, deltaSubs[c][s], i)'
  <2>1. CASE c = e /\ s = t
    <3>1. deltaSubs'[c][s] = sub /\ sub # Nothing
      BY <1>3, <1>10, <2>1 DEF Live
    <3>2. i \in announced[sub.account] + 1 .. announced[sub.account]
      BY <1>10, <3>1 DEF storeVars
    <3>3. sub.account \in Accounts
      BY <1>1, <3>1 DEF TypeOK, DeltaSub
    <3> QED BY <1>3, <3>2, <3>3
  <2>2. CASE ~(c = e /\ s = t)
    <3>1. deltaSubs'[c][s] = d
      BY <1>3, <1>10, <2>2
    <3>2. Live(deltaSubs[c], s) /\ ~missed[c] /\ i \in d.since + 1 .. announced[a]
      BY <1>10, <3>1 DEF Live, storeVars
    <3>3. Covered(c, d, i)
      BY <1>4, <3>2
    <3> QED BY <1>10, <3>1, <3>3 DEF Covered, storeVars
  <2> QED BY <2>1, <2>2
<1>11. ASSUME NEW e \in Conns, Client(e) PROVE Covered(c, deltaSubs[c][s], i)'
  <2>1. CASE \E locked \in Keyed \cup {Nothing} : Upgrade(e, locked)
    BY <1>6, <2>1 DEF Upgrade, sessionVars
  <2>2. ASSUME NEW t \in SubIds, NEW b \in Accounts, NEW tables \in Queries,
               SubscribeQuery(e, t, b, tables)
        PROVE  Covered(c, deltaSubs[c][s], i)'
    BY <1>6, <2>2 DEF SubscribeQuery
  <2>3. ASSUME NEW t \in SubIds, NEW b \in Accounts, NEW tables \in DeltaLists,
               SubscribeTableDeltas(e, t, b, tables)
        PROVE  Covered(c, deltaSubs[c][s], i)'
    <3> DEFINE sub == [account |-> b, tables |-> tables, since |-> announced[b], got |-> {}]
    <3>1. deltaSubs' = [deltaSubs EXCEPT ![e][t] = sub] /\ UNCHANGED <<storeVars, inbox, missed>>
      BY <2>3 DEF SubscribeTableDeltas
    <3>2. sub.since = announced[sub.account]
      OBVIOUS
    <3> HIDE DEF sub
    <3> QED BY <1>10, <3>1, <3>2
  <2>4. ASSUME NEW t \in SubIds, Unsubscribe(e, t) PROVE Covered(c, deltaSubs[c][s], i)'
    <3>1. deltaSubs' = [deltaSubs EXCEPT ![e][t] = Nothing] /\ UNCHANGED <<storeVars, inbox, missed>>
      BY <2>4 DEF Unsubscribe
    <3> QED BY <1>10, <3>1
  <2> QED BY <1>9, <1>11, <2>1, <2>2, <2>3, <2>4 DEF Client
<1>12. ASSUME NEW e \in Conns, ReceiveCommit(e) PROVE Covered(c, deltaSubs[c][s], i)'
  <2> DEFINE n == Head(inbox[e])
  <2>1. /\ inbox[e] # <<>> /\ UNCHANGED <<storeVars, missed>>
        /\ deltaSubs' = [deltaSubs EXCEPT ![e] = FannedOut(@, n)]
        /\ inbox' = [inbox EXCEPT ![e] = Tail(@)]
    BY <1>12 DEF ReceiveCommit
  <2>2. n \in Notification /\ Genuine(n)
    BY <2>1, HeadSound
  <2> HIDE DEF n
  <2>3. CASE c # e
    <3>1. deltaSubs'[c] = deltaSubs[c] /\ inbox'[c] = inbox[c]
      BY <1>3, <2>1, <2>3
    <3>2. Live(deltaSubs[c], s) /\ ~missed[c] /\ i \in d.since + 1 .. announced[a]
      BY <2>1, <3>1 DEF Live, storeVars
    <3>3. Covered(c, d, i)
      BY <1>4, <3>2
    <3> QED BY <2>1, <3>1, <3>3 DEF Covered, storeVars
  <2>4. CASE c = e
    <3>1. /\ deltaSubs'[c][s] = IF /\ Live(deltaSubs[c], s) /\ d.account = n.account
                                   /\ d.tables \cap n.listed # {}
                                THEN [d EXCEPT !.got = @ \cup {n.batch}] ELSE d
          /\ inbox'[c] = Tail(inbox[c]) /\ inbox[c] # <<>>
      BY <1>3, <2>1, <2>4 DEF FannedOut
    <3>2. Live(deltaSubs[c], s)
      BY <3>1 DEF Live
    <3>3. ~missed[c]
      BY <2>1
    <3>4. d \in DeltaSub /\ a \in Accounts
      BY <1>4, <3>2, <3>3
    <3>5. /\ deltaSubs'[c][s].account = a /\ deltaSubs'[c][s].since = d.since
          /\ deltaSubs'[c][s].tables = d.tables /\ d.got \subseteq deltaSubs'[c][s].got
          /\ (a = n.account /\ d.tables \cap n.listed # {}) => n.batch \in deltaSubs'[c][s].got
      BY <3>1, <3>2, <3>4 DEF DeltaSub
    <3>6. i \in d.since + 1 .. announced[a]
      BY <2>1, <3>5 DEF storeVars
    <3>7. Covered(c, d, i)
      BY <1>4, <3>2, <3>3, <3>6
    <3>8. /\ inbox[c] \in Seq(Notification) /\ inbox[c][1] = n
          /\ \A j \in DOMAIN inbox[c] : j = 1 \/ (j - 1 \in DOMAIN inbox'[c] /\ inbox'[c][j - 1] = inbox[c][j])
      BY <1>3, <2>4, <3>1 DEF n
    <3>9. CASE \E j \in DOMAIN inbox[c] : inbox[c][j].account = a /\ inbox[c][j].batch = i
      <4>1. PICK j \in DOMAIN inbox[c] : inbox[c][j].account = a /\ inbox[c][j].batch = i
        BY <3>9
      <4>2. CASE j = 1
        <5>1. n.account = a /\ n.batch = i /\ n.listed = changes[a][i].listed
          BY <2>2, <3>8, <4>1, <4>2 DEF Genuine
        <5>2. i \in deltaSubs'[c][s].got \/ d.tables \cap changes[a][i].listed = {}
          BY <3>5, <5>1
        <5> QED BY <1>3, <1>5, <3>2, <3>3, <3>4, <3>5, <3>6, <5>2
      <4>3. CASE j # 1
        <5>1. \E k \in DOMAIN inbox'[c] : inbox'[c][k].account = a /\ inbox'[c][k].batch = i
          BY <3>8, <4>1, <4>3
        <5> QED BY <1>3, <1>5, <3>2, <3>3, <3>4, <3>5, <3>6, <5>1
      <4> QED BY <4>2, <4>3
    <3>10. CASE i \in d.got \/ d.tables \cap changes[a][i].listed = {} \/ changes[a][i].silent
      BY <1>3, <1>5, <3>2, <3>3, <3>4, <3>5, <3>6, <3>10, SMTT(30)
    <3> QED BY <3>7, <3>9, <3>10 DEF Covered
  <2> QED BY <2>3, <2>4
<1>13. ASSUME NEW e \in Conns, ReceiveLagged(e) PROVE Covered(c, deltaSubs[c][s], i)'
  <2>1. /\ UNCHANGED <<storeVars, inbox>> /\ missed' = [missed EXCEPT ![e] = FALSE]
        /\ deltaSubs' = [deltaSubs EXCEPT ![e] = ToldOfLag(@)]
    BY <1>13 DEF ReceiveLagged
  <2>2. CASE c = e
    <3>1. deltaSubs'[c][s] = IF Live(deltaSubs[c], s) THEN [d EXCEPT !.since = announced[a]]
                             ELSE Nothing
      BY <1>3, <2>1, <2>2 DEF ToldOfLag
    <3>2. Live(deltaSubs[c], s) /\ d \in DeltaSub
      BY <1>3, <3>1 DEF Live
    <3>3. deltaSubs'[c][s].account = a /\ deltaSubs'[c][s].since = announced[a] /\ a \in Accounts
      BY <3>1, <3>2 DEF DeltaSub
    <3>4. i \in announced[a] + 1 .. announced[a]
      BY <2>1, <3>3 DEF storeVars
    <3> QED BY <1>3, <3>3, <3>4
  <2>3. CASE c # e
    <3>1. deltaSubs'[c] = deltaSubs[c] /\ missed'[c] = missed[c]
      BY <1>3, <2>1, <2>3
    <3>2. Live(deltaSubs[c], s) /\ ~missed[c] /\ i \in d.since + 1 .. announced[a]
      BY <2>1, <3>1 DEF Live, storeVars
    <3>3. Covered(c, d, i)
      BY <1>4, <3>2
    <3> QED BY <2>1, <3>1, <3>3 DEF Covered, storeVars
  <2> QED BY <2>2, <2>3
<1>14. ASSUME NEW e \in Conns, Session(e), ~ReceiveCommit(e), ~ReceiveLagged(e)
       PROVE  UNCHANGED <<storeVars, inbox, missed, deltaSubs>>
  BY <1>14 DEF Session, StartSession, Complete, DebounceTick, RestEnds, sessionVars
<1>15. ASSUME NEW e \in Conns, Evaluating(e)
       PROVE  UNCHANGED <<storeVars, inbox, missed, deltaSubs>>
  BY <1>15 DEF Evaluating, Evaluate, Report
<1>16. UNCHANGED vars => UNCHANGED <<storeVars, inbox, missed, deltaSubs>>
  BY DEF vars, sessionVars
<1> HIDE DEF DInv, d, a
<1> QED BY <1>6, <1>7, <1>8, <1>11, <1>12, <1>13, <1>14, <1>15, <1>16 DEF Next, Writer

\* A delta subscriber misses no batch with deltas for it, those apart that were
\* announced before it was last told that it lags, for any capacity of the channel
\* and any number of lags (ws.rs:512).
THEOREM DeltasAlwaysComplete == Spec => []DeltasComplete
<1>1. Init => DInv
  <2> SUFFICES ASSUME Init PROVE DInv
    OBVIOUS
  <2>1. TypeOK /\ IdleEmpty /\ InboxSound
    BY InvInit DEF IInv
  <2>2. QueueBounded /\ DeltasComplete
    BY LiveQueryAssumption DEF Init, QueueBounded, DeltasComplete, NoSubs, Live
  <2> QED BY <2>1, <2>2 DEF DInv
<1>2. DInv /\ [Next]_vars => DInv'
  BY TypeStep, IdleStep, InboxStep, QueueStep, DeltasStep DEF DInv
<1>3. DInv => DeltasComplete
  BY DEF DInv
<1> QED BY <1>1, <1>2, <1>3, PTL DEF Spec

-----------------------------------------------------------------------------
(* Stale subscriptions.                                                    *)

\* Announced changes to these tables of account a behind the first n.
Unseen(a, tables, n) ==
  {i \in n + 1 .. announced[a] : ~changes[a][i].silent /\ changes[a][i].tables \cap tables # {}}

\* Batch i of account a waits in the session's queue.
Queued(c, a, i) ==
  \E j \in DOMAIN inbox[c] : inbox[c][j].account = a /\ inbox[c][j].batch = i

\* The evaluations of s that have not been delivered.
Underway(c, s) ==
  {evals[c][s][i] : i \in DOMAIN evals[c][s]}
    \cup {o.eval : o \in {outcomes[c][i] : i \in {k \in DOMAIN outcomes[c] : outcomes[c][k].sub = s}}}

\* Something that will refresh the subscription is on its way.
Coming(c, s) ==
  LET sub == querySubs[c][s]
  IN  \/ missed[c] \/ sub.dirty \/ Outstanding(c, s)
      \/ \E j \in DOMAIN inbox[c] : /\ inbox[c][j].account = sub.account
                                    /\ inbox[c][j].tables \cap sub.tables # {}

\* A subscription that no evaluation was overlooked for.
Intact(c, s) == Live(querySubs[c], s) /\ overlooked[c][s] # "yes"

\* An announced change the client is not shown is coming...
AnnouncedComing(c, s) ==
  LET sub == querySubs[c][s]
  IN  (Live(shown[c], s) => Unseen(sub.account, sub.tables, shown[c][s].upTo) # {}) => Coming(c, s)

\* ...because an evaluation that is under way reads the subscription's store, ...
UnderwayMatches(c, s) == \A e \in Underway(c, s) : e.account = querySubs[c][s].account

\* ...and, as long as no commit waits for it, has seen all but what is queued.
UnderwayFresh(c, s) ==
  LET sub == querySubs[c][s]
  IN  overlooked[c][s] = "no" => \A e \in Underway(c, s) : e.status = "ok" =>
        \A i \in Unseen(sub.account, sub.tables, e.upTo) : missed[c] \/ Queued(c, sub.account, i)

Remembered(c, s) ==
  Intact(c, s) => AnnouncedComing(c, s) /\ UnderwayMatches(c, s) /\ UnderwayFresh(c, s)

NInv ==
  /\ TypeOK /\ IdleEmpty /\ InboxSound /\ QueueBounded
  /\ \A c \in Conns, s \in SubIds : Remembered(c, s)

LEMMA UnderwayTypes ==
  ASSUME TypeOK, NEW c \in Conns, NEW s \in SubIds
  PROVE  /\ Underway(c, s) \in SUBSET Evaluation
         /\ Outstanding(c, s) <=> Underway(c, s) # {}
<1>1. evals[c][s] \in Seq(Evaluation) /\ outcomes[c] \in Seq(Outcome)
  BY DEF TypeOK
<1>2. \A i \in DOMAIN evals[c][s] : evals[c][s][i] \in Evaluation
  BY <1>1, SeqElements
<1>3. \A i \in DOMAIN outcomes[c] : outcomes[c][i].eval \in Evaluation
  <2>1. \A i \in DOMAIN outcomes[c] : outcomes[c][i] \in Outcome
    BY <1>1, SeqElements
  <2> QED BY <2>1 DEF Outcome
<1>4. Underway(c, s) \in SUBSET Evaluation
  BY <1>2, <1>3 DEF Underway
<1>5. evals[c][s] # <<>> <=> \E i \in DOMAIN evals[c][s] : TRUE
  BY <1>1, SeqElements
<1>6. Underway(c, s) # {} <=> \/ \E i \in DOMAIN evals[c][s] : TRUE
                             \/ \E i \in DOMAIN outcomes[c] : outcomes[c][i].sub = s
  BY DEF Underway
<1> QED BY <1>4, <1>5, <1>6 DEF Outstanding

\* A spawned evaluation is the only one, or another was overlooked.
LEMMA SpawnedFirst ==
  ASSUME TypeOK, NEW c \in Conns, NEW subs, NEW S \in SUBSET SubIds, NEW waiting, NEW batch,
         S \cap waiting = {}, Spawned(c, subs, S, waiting, batch), outcomes' = outcomes,
         NEW s \in S, overlooked'[c][s] # "yes"
  PROVE  /\ Outstanding(c, s)'
         /\ \A e \in Underway(c, s)' : e.account = subs[s].account /\ e.status = "spawned"
<1> DEFINE e == [account |-> subs[s].account, tables |-> subs[s].tables,
                 batch |-> batch[s], status |-> "spawned", upTo |-> 0]
<1>1. s \in SubIds /\ evals[c][s] \in Seq(Evaluation)
  BY DEF TypeOK
<1>2. ~Outstanding(c, s)
  <2>1. overlooked'[c] = [u \in SubIds |->
          CASE u \in S -> IF Outstanding(c, u) THEN "yes" ELSE "no"
            [] u \in waiting /\ Outstanding(c, u) /\ overlooked[c][u] = "no" -> "marked"
            [] OTHER -> overlooked[c][u]]
    BY DEF Spawned, TypeOK
  <2>2. s \notin waiting
    OBVIOUS
  <2> QED BY <1>1, <2>1, <2>2
<1>3. evals'[c][s] = Append(evals[c][s], e) /\ evals[c][s] = <<>>
  BY <1>1, <1>2 DEF Spawned, TypeOK, Outstanding
<1>4. e.account = subs[s].account /\ e.status = "spawned"
  OBVIOUS
<1> HIDE DEF e
<1>5. evals'[c][s] = <<e>>
  BY <1>3
<1>6. evals'[c][s] # <<>> /\ \A i \in DOMAIN evals'[c][s] : evals'[c][s][i] = e
  BY <1>5
<1>7. \A i \in DOMAIN outcomes'[c] : outcomes'[c][i].sub # s
  BY <1>2 DEF Outstanding
<1> QED BY <1>4, <1>6, <1>7 DEF Underway, Outstanding

\* Those that wait are marked, the others are left alone.
LEMMA SpawnedOther ==
  ASSUME TypeOK, NEW c \in Conns, NEW subs, NEW S \in SUBSET SubIds, NEW waiting, NEW batch,
         Spawned(c, subs, S, waiting, batch), outcomes' = outcomes, NEW s \in SubIds \ S
  PROVE  /\ evals'[c][s] = evals[c][s]
         /\ Underway(c, s)' = Underway(c, s) /\ (Outstanding(c, s)' <=> Outstanding(c, s))
         /\ overlooked'[c][s] = IF s \in waiting /\ Outstanding(c, s) /\ overlooked[c][s] = "no"
                                THEN "marked" ELSE overlooked[c][s]
<1>1. evals'[c][s] = evals[c][s]
  BY DEF Spawned, TypeOK
<1>2. overlooked'[c][s] = IF s \in waiting /\ Outstanding(c, s) /\ overlooked[c][s] = "no"
                          THEN "marked" ELSE overlooked[c][s]
  BY DEF Spawned, TypeOK
<1> QED BY <1>1, <1>2 DEF Underway, Outstanding

\* A subscription whose surroundings stay as they are, but for evaluations that
\* go away or have seen everything.
LEMMA RememberedKept ==
  ASSUME TypeOK, TypeOK', NEW c \in Conns, NEW s \in SubIds, Remembered(c, s),
         \A a \in Accounts, tables \in SUBSET Tables, n \in Nat :
           Unseen(a, tables, n)' \subseteq Unseen(a, tables, n),
         inbox'[c] = inbox[c], missed'[c] = missed[c], shown'[c][s] = shown[c][s],
         overlooked'[c][s] = overlooked[c][s],
         Live(querySubs'[c], s) =>
           /\ Live(querySubs[c], s)
           /\ querySubs'[c][s].account = querySubs[c][s].account
           /\ querySubs'[c][s].tables = querySubs[c][s].tables
           /\ querySubs'[c][s].dirty = querySubs[c][s].dirty,
         Outstanding(c, s) => Outstanding(c, s)',
         \A e \in Underway(c, s)' :
           \/ e \in Underway(c, s)
           \/ /\ \E f \in Underway(c, s) : f.account = e.account
              /\ e.status = "ok" => e.upTo = Len(changes[e.account]),
         \A a \in Accounts : announced[a] <= Len(changes[a])
  PROVE  Remembered(c, s)'
<1> SUFFICES ASSUME Intact(c, s)'
             PROVE  AnnouncedComing(c, s)' /\ UnderwayMatches(c, s)' /\ UnderwayFresh(c, s)'
  BY DEF Remembered
<1>1. Intact(c, s) /\ querySubs[c][s] \in QuerySub
  BY LiveTypes DEF Intact
<1>2. AnnouncedComing(c, s) /\ UnderwayMatches(c, s) /\ UnderwayFresh(c, s)
  BY <1>1 DEF Remembered
<1>3. \A e \in Underway(c, s) : e.upTo \in Nat
  BY UnderwayTypes DEF Evaluation
<1>4. \A a, i : Queued(c, a, i)' <=> Queued(c, a, i)
  BY DEF Queued
<1> DEFINE a == querySubs[c][s].account
           tables == querySubs[c][s].tables
<1>5. /\ querySubs'[c][s].account = a /\ querySubs'[c][s].tables = tables
      /\ querySubs'[c][s].dirty = querySubs[c][s].dirty
      /\ a \in Accounts /\ announced[a] \in Nat /\ Len(changes[a]) \in Nat
      /\ announced[a] <= Len(changes[a]) /\ tables \in SUBSET Tables
  BY <1>1 DEF Intact, QuerySub, TypeOK
<1>6. AnnouncedComing(c, s)'
  <2>1. Live(shown[c], s) => shown[c][s].upTo \in Nat
    BY DEF Live, QuerySnapshot, TypeOK
  <2> QED BY <1>2, <1>5, <2>1 DEF AnnouncedComing, Coming, Live
<1>7. UnderwayMatches(c, s)'
  BY <1>2, <1>5 DEF UnderwayMatches
<1>8. UnderwayFresh(c, s)'
  <2> SUFFICES ASSUME overlooked[c][s] = "no", NEW e \in Underway(c, s)', e.status = "ok",
                      NEW i \in Unseen(a, tables, e.upTo)
               PROVE  missed[c] \/ Queued(c, a, i)
    <3>1. \A e \in Underway(c, s)' : e.status = "ok" => e.upTo \in Nat
      BY <1>2, <1>3, <1>5 DEF UnderwayMatches
    <3> QED BY <1>4, <1>5, <3>1 DEF UnderwayFresh
  <2>1. CASE e \in Underway(c, s)
    BY <1>2, <2>1 DEF UnderwayFresh
  <2>2. CASE e \notin Underway(c, s)
    <3>1. e.account = a /\ e.upTo = Len(changes[a])
      BY <1>2, <2>2 DEF UnderwayMatches
    <3>2. Unseen(a, tables, e.upTo) = {}
      BY <1>5, <3>1, SMTT(30) DEF Unseen
    <3> QED BY <3>2
  <2> QED BY <2>1, <2>2
<1> QED BY <1>6, <1>7, <1>8

\* The same, where nothing happens to its evaluations either.
LEMMA RememberedSame ==
  ASSUME TypeOK, TypeOK', InboxSound, NEW c \in Conns, NEW s \in SubIds, Remembered(c, s),
         changes' = changes, announced' = announced,
         inbox'[c] = inbox[c], missed'[c] = missed[c], shown'[c][s] = shown[c][s],
         overlooked'[c][s] = overlooked[c][s],
         evals'[c][s] = evals[c][s], outcomes'[c] = outcomes[c],
         Live(querySubs'[c], s) =>
           /\ Live(querySubs[c], s)
           /\ querySubs'[c][s].account = querySubs[c][s].account
           /\ querySubs'[c][s].tables = querySubs[c][s].tables
           /\ querySubs'[c][s].dirty = querySubs[c][s].dirty
  PROVE  Remembered(c, s)'
<1>1. \A a, tables, n : Unseen(a, tables, n)' = Unseen(a, tables, n)
  BY DEF Unseen
<1>2. Underway(c, s)' = Underway(c, s) /\ (Outstanding(c, s)' <=> Outstanding(c, s))
  BY DEF Underway, Outstanding
<1>3. \A a \in Accounts : announced[a] <= Len(changes[a])
  BY DEF InboxSound
<1> QED BY <1>1, <1>2, <1>3, RememberedKept

\* A subscription an evaluation was spawned for, and one that is marked while it
\* waits.
LEMMA RememberedStarted ==
  ASSUME NEW c \in Conns, NEW s \in SubIds, Outstanding(c, s)',
         \A e \in Underway(c, s)' :
           e.account = querySubs'[c][s].account /\ e.status = "spawned"
  PROVE  Remembered(c, s)'
BY DEF Remembered, AnnouncedComing, UnderwayMatches, UnderwayFresh, Coming

LEMMA RememberedMarked ==
  ASSUME TypeOK, NEW c \in Conns, NEW s \in SubIds, Remembered(c, s), Live(querySubs[c], s),
         querySubs'[c][s].dirty, querySubs'[c][s].account = querySubs[c][s].account,
         Underway(c, s)' = Underway(c, s),
         overlooked'[c][s] = IF Outstanding(c, s) /\ overlooked[c][s] = "no"
                             THEN "marked" ELSE overlooked[c][s]
  PROVE  Remembered(c, s)'
<1> SUFFICES ASSUME Intact(c, s)'
             PROVE  AnnouncedComing(c, s)' /\ UnderwayMatches(c, s)' /\ UnderwayFresh(c, s)'
  BY DEF Remembered
<1>1. Intact(c, s)
  BY DEF Intact
<1>2. AnnouncedComing(c, s)'
  BY DEF AnnouncedComing, Coming
<1>3. UnderwayMatches(c, s)'
  BY <1>1 DEF Remembered, UnderwayMatches
<1>4. overlooked'[c][s] = "no" => Underway(c, s) = {}
  BY UnderwayTypes
<1>5. UnderwayFresh(c, s)'
  BY <1>4 DEF UnderwayFresh
<1> QED BY <1>2, <1>3, <1>5

\* A commit that is announced is queued, or counted as missed.
LEMMA RememberedAnnounced ==
  ASSUME NInv, TypeOK', IdleEmpty', NEW a \in Accounts, Announce(a),
         NEW c \in Conns, NEW s \in SubIds
  PROVE  Remembered(c, s)'
<1> USE DEF NInv
<1> SUFFICES ASSUME Intact(c, s)'
             PROVE  AnnouncedComing(c, s)' /\ UnderwayMatches(c, s)' /\ UnderwayFresh(c, s)'
  BY DEF Remembered
<1> DEFINE n == Announced(a)
           A == querySubs[c][s].account
           T == querySubs[c][s].tables
<1>1. /\ UNCHANGED <<changes, conn, querySubs, evals, outcomes, shown, overlooked>>
      /\ announced' = [announced EXCEPT ![a] = @ + 1] /\ announced[a] < Len(changes[a])
  BY DEF Announce, sessionVars
<1>2. Intact(c, s) /\ querySubs[c][s] \in QuerySub
  BY <1>1, LiveTypes DEF Intact, Live
<1>3. AnnouncedComing(c, s) /\ UnderwayMatches(c, s) /\ UnderwayFresh(c, s)
  BY <1>2 DEF Remembered
<1>4. Open(c)
  BY <1>2 DEF IdleEmpty, Intact, Live, NoSubs
<1>5. Underway(c, s)' = Underway(c, s) /\ (Outstanding(c, s)' <=> Outstanding(c, s))
  BY <1>1 DEF Underway, Outstanding
<1>6. UnderwayMatches(c, s)'
  BY <1>1, <1>3, <1>5 DEF UnderwayMatches
<1>7. CASE missed'[c]
  BY <1>6, <1>7 DEF AnnouncedComing, UnderwayFresh, Coming
<1>8. CASE ~missed'[c]
  <2>1. n \in Notification /\ n.account = a /\ n.batch = announced[a] + 1
        /\ n.tables = changes[a][announced[a] + 1].tables
    BY <1>1, AnnouncedTypes DEF Announced
  <2>2. ~missed[c] /\ inbox'[c] = Append(inbox[c], n)
    <3>1. ~missed[c] /\ Len(inbox[c]) # BroadcastCapacity
          /\ inbox'[c] = IF Len(Append(inbox[c], n)) > BroadcastCapacity
                         THEN Tail(Append(inbox[c], n)) ELSE Append(inbox[c], n)
      BY <1>4, <1>8 DEF Announce
    <3>2. inbox[c] \in Seq(Notification) /\ Len(inbox[c]) <= BroadcastCapacity
      BY DEF TypeOK, QueueBounded
    <3> HIDE DEF n
    <3>3. Len(inbox[c]) \in Nat /\ BroadcastCapacity \in Nat
          /\ Len(Append(inbox[c], n)) = Len(inbox[c]) + 1
      BY <2>1, <3>2, AppendElements, LiveQueryAssumption
    <3> QED BY <3>1, <3>2, <3>3
  <2> HIDE DEF n
  <2>3. /\ inbox'[c][Len(inbox[c]) + 1] = n /\ Len(inbox[c]) + 1 \in DOMAIN inbox'[c]
        /\ \A j \in DOMAIN inbox[c] : j \in DOMAIN inbox'[c] /\ inbox'[c][j] = inbox[c][j]
    <3>1. inbox[c] \in Seq(Notification)
      BY DEF TypeOK
    <3> QED BY <2>1, <2>2, <3>1, AppendElements
  <2>4. \A i \in Nat : Queued(c, A, i) => Queued(c, A, i)'
    BY <1>1, <2>3 DEF Queued
  <2>5. Coming(c, s) => Coming(c, s)'
    BY <1>1, <1>5, <2>2, <2>3 DEF Coming
  <2>6. ASSUME NEW k \in Nat, NEW i \in Unseen(A, T, k)', i \notin Unseen(A, T, k)
        PROVE  n.account = A /\ n.batch = i /\ n.tables \cap T # {}
    <3>1. announced \in [Accounts -> Nat] /\ A \in Accounts
      BY <1>2 DEF QuerySub, TypeOK
    <3>2. A = a /\ i = announced[a] + 1
      BY <1>1, <2>6, <3>1 DEF Unseen
    <3> QED BY <1>1, <2>1, <2>6, <3>2 DEF Unseen
  <2>7. AnnouncedComing(c, s)'
    <3> SUFFICES ASSUME Live(shown[c], s) => Unseen(A, T, shown[c][s].upTo)' # {}
                 PROVE  Coming(c, s)'
      BY <1>1 DEF AnnouncedComing, Live
    <3>1. CASE ~Live(shown[c], s)
      BY <1>3, <2>5, <3>1 DEF AnnouncedComing
    <3>2. CASE Live(shown[c], s)
      <4>1. shown[c][s].upTo \in Nat
        BY <3>2 DEF Live, QuerySnapshot, TypeOK
      <4>2. PICK i \in Unseen(A, T, shown[c][s].upTo)' : TRUE
        BY <3>2
      <4>3. CASE i \in Unseen(A, T, shown[c][s].upTo)
        BY <1>3, <2>5, <4>3 DEF AnnouncedComing
      <4>4. CASE i \notin Unseen(A, T, shown[c][s].upTo)
        <5>1. n.account = A /\ n.tables \cap T # {}
          BY <1>1, <2>6, <4>1, <4>2, <4>4
        <5> QED BY <1>1, <2>3, <5>1 DEF Coming
      <4> QED BY <4>3, <4>4
    <3> QED BY <3>1, <3>2
  <2>8. UnderwayFresh(c, s)'
    <3> SUFFICES ASSUME overlooked[c][s] = "no", NEW e \in Underway(c, s), e.status = "ok",
                        NEW i \in Unseen(A, T, e.upTo)'
                 PROVE  Queued(c, A, i)'
      BY <1>1, <1>5 DEF UnderwayFresh
    <3>1. e.upTo \in Nat
      BY UnderwayTypes DEF Evaluation
    <3>2. CASE i \in Unseen(A, T, e.upTo)
      <4>1. Queued(c, A, i) /\ i \in Nat
        BY <1>3, <2>2, <3>1, <3>2 DEF UnderwayFresh, Unseen
      <4> QED BY <2>4, <4>1
    <3>3. CASE i \notin Unseen(A, T, e.upTo)
      <4>1. n.account = A /\ n.batch = i
        BY <1>1, <2>6, <3>1, <3>3
      <4> QED BY <1>1, <2>3, <4>1 DEF Queued
    <3> QED BY <3>2, <3>3
  <2> QED BY <1>6, <2>7, <2>8
<1> QED BY <1>7, <1>8

\* A commit is unseen only once it is announced, and a silent one never.
LEMMA RememberedCommitted ==
  ASSUME NInv, TypeOK', NEW a \in Accounts, NEW tables \in Batches, NEW silent \in BOOLEAN,
         Commit(a, tables, silent), [Next]_vars, NEW c \in Conns, NEW s \in SubIds
  PROVE  Remembered(c, s)'
<1> USE DEF NInv
<1>1. /\ UNCHANGED <<inbox, missed, querySubs, evals, outcomes, shown, overlooked>>
      /\ announced[a] = Len(changes[a])
      /\ announced' = (IF silent THEN [announced EXCEPT ![a] = @ + 1] ELSE announced)
  BY DEF Commit, sessionVars
<1>2. PICK listed : changes' = [changes EXCEPT ![a] =
        Append(@, [tables |-> tables, listed |-> listed, silent |-> silent])]
  BY DEF Commit
<1>3. ASSUME NEW b \in Accounts, NEW T \in SUBSET Tables, NEW n \in Nat, NEW i \in Unseen(b, T, n)'
      PROVE  i \in Unseen(b, T, n)
  <2>1. /\ announced \in [Accounts -> Nat] /\ changes \in [Accounts -> Seq(Change)]
        /\ announced[b] <= Len(changes[b])
    BY DEF TypeOK, InboxSound
  <2>2. i \in n + 1 .. announced'[b] /\ ~changes'[b][i].silent /\ changes'[b][i].tables \cap T # {}
    BY <1>3 DEF Unseen
  <2>3. CASE i <= announced[b]
    <3>1. i \in 1..Len(changes[b])
      BY <1>3, <2>1, <2>2, <2>3
    <3>2. changes'[b][i] = changes[b][i]
      BY <3>1, Growth
    <3> QED BY <1>3, <2>1, <2>2, <2>3, <3>2 DEF Unseen
  <2>4. CASE ~(i <= announced[b])
    <3>1. b = a /\ silent /\ i = Len(changes[a]) + 1
      BY <1>1, <1>3, <2>1, <2>2, <2>4
    <3>2. changes'[a][Len(changes[a]) + 1].silent
      BY <1>2, <2>1, <3>1
    <3> QED BY <2>2, <3>1, <3>2
  <2> QED BY <2>3, <2>4
<1>4. Underway(c, s)' = Underway(c, s) /\ (Outstanding(c, s)' <=> Outstanding(c, s))
  BY <1>1 DEF Underway, Outstanding
<1>5. \A b \in Accounts, T \in SUBSET Tables, n \in Nat : Unseen(b, T, n)' \subseteq Unseen(b, T, n)
  BY <1>3
<1>6. \A b \in Accounts : announced[b] <= Len(changes[b])
  BY DEF InboxSound
<1>7. Remembered(c, s)
  OBVIOUS
<1>8. Live(querySubs'[c], s) => Live(querySubs[c], s)
  BY <1>1 DEF Live
<1> HIDE DEF NInv
<1>9. TypeOK
  BY DEF NInv
<1> QED BY <1>1, <1>4, <1>5, <1>6, <1>7, <1>8, <1>9, RememberedKept

\* What a session does leaves the others alone.
SessionKept(c) ==
  /\ inbox'[c] = inbox[c] /\ missed'[c] = missed[c] /\ querySubs'[c] = querySubs[c]
  /\ evals'[c] = evals[c] /\ outcomes'[c] = outcomes[c] /\ shown'[c] = shown[c]
  /\ overlooked'[c] = overlooked[c] /\ changes' = changes /\ announced' = announced

LEMMA OthersAlone ==
  ASSUME TypeOK, NEW d \in Conns, Client(d) \/ Session(d) \/ Evaluating(d),
         NEW c \in Conns \ {d}
  PROVE  SessionKept(c)
<1> USE DEF storeVars, sessionVars
<1>1. CASE Client(d)
  <2>1. ASSUME NEW locked, Upgrade(d, locked) PROVE SessionKept(c)
    BY <2>1 DEF Upgrade, SessionKept
  <2>2. CASE Disconnect(d)
    BY <2>2 DEF Disconnect, TypeOK, SessionKept
  <2>3. ASSUME NEW s \in SubIds, NEW a, NEW tables, SubscribeQuery(d, s, a, tables) PROVE SessionKept(c)
    BY <2>3 DEF SubscribeQuery, Spawned, TypeOK, SessionKept
  <2>4. ASSUME NEW s \in SubIds, NEW a, NEW tables, SubscribeTableDeltas(d, s, a, tables) PROVE SessionKept(c)
    BY <2>4 DEF SubscribeTableDeltas, SessionKept
  <2>5. ASSUME NEW s \in SubIds, Unsubscribe(d, s) PROVE SessionKept(c)
    BY <2>5 DEF Unsubscribe, TypeOK, SessionKept
  <2> QED BY <1>1, <2>1, <2>2, <2>3, <2>4, <2>5 DEF Client
<1>2. CASE Session(d)
  <2>1. CASE StartSession(d)
    BY <2>1 DEF StartSession, SessionKept
  <2>2. CASE ReceiveCommit(d)
    BY <2>2 DEF ReceiveCommit, Spawned, TypeOK, SessionKept
  <2>3. CASE ReceiveLagged(d)
    BY <2>3 DEF ReceiveLagged, Spawned, TypeOK, SessionKept
  <2>4. CASE Complete(d)
    BY <2>4 DEF Complete, TypeOK, SessionKept
  <2>5. CASE DebounceTick(d)
    BY <2>5 DEF DebounceTick, Spawned, TypeOK, SessionKept
  <2>6. ASSUME NEW s \in SubIds, RestEnds(d, s) PROVE SessionKept(c)
    BY <2>6 DEF RestEnds, TypeOK, SessionKept
  <2> QED BY <1>2, <2>1, <2>2, <2>3, <2>4, <2>5, <2>6 DEF Session
<1>3. CASE Evaluating(d)
  <2>1. PICK s \in SubIds : \E i \in DOMAIN evals[d][s] : Evaluate(d, s, i) \/ Report(d, s, i)
    BY <1>3 DEF Evaluating
  <2> PICK i \in DOMAIN evals[d][s] : Evaluate(d, s, i) \/ Report(d, s, i)
    BY <2>1
  <2>2. CASE Evaluate(d, s, i)
    <3>1. evals'[c] = evals[c]
      BY <2>2 DEF Evaluate, TypeOK
    <3> QED BY <2>2, <3>1 DEF Evaluate, SessionKept
  <2>3. CASE Report(d, s, i)
    <3>1. evals'[c] = evals[c] /\ outcomes'[c] = outcomes[c]
      BY <2>3 DEF Report, TypeOK
    <3> QED BY <2>3, <3>1 DEF Report, SessionKept
  <2> QED BY <2>1, <2>2, <2>3
<1> QED BY <1>1, <1>2, <1>3

\* What a client asks for.
LEMMA RememberedClient ==
  ASSUME TypeOK, TypeOK', InboxSound, NEW c \in Conns, Client(c), NEW s \in SubIds, Remembered(c, s)
  PROVE  Remembered(c, s)'
<1> USE DEF storeVars, sessionVars
<1>1. ASSUME UNCHANGED <<storeVars, inbox, missed, querySubs, evals, outcomes, shown, overlooked>>
      PROVE  Remembered(c, s)'
  <2>1. Live(querySubs'[c], s) => Live(querySubs[c], s)
    BY <1>1 DEF Live
  <2> QED BY <1>1, <2>1, RememberedSame
<1>2. ASSUME NEW locked, Upgrade(c, locked) PROVE Remembered(c, s)'
  BY <1>1, <1>2 DEF Upgrade
<1>3. CASE Disconnect(c)
  <2>1. querySubs'[c][s] = Nothing
    BY <1>3 DEF Disconnect, NoSubs, TypeOK
  <2> QED BY <2>1 DEF Remembered, Intact, Live
<1>4. ASSUME NEW t \in SubIds, NEW a \in Accounts, NEW tables, SubscribeQuery(c, t, a, tables)
      PROVE  Remembered(c, s)'
  <2>1. /\ UNCHANGED <<storeVars, inbox, missed, outcomes>>
        /\ shown' = [shown EXCEPT ![c][t] = Nothing]
    BY <1>4 DEF SubscribeQuery
  <2>4. PICK subs, S, W, batch : /\ S = {t} /\ W = {} /\ subs = querySubs'[c]
                                 /\ Spawned(c, subs, S, W, batch)
    BY <1>4 DEF SubscribeQuery
  <2>5. S \in SUBSET SubIds /\ S \cap W = {} /\ Spawned(c, subs, S, W, batch)
    BY <2>4
  <2>2. CASE s = t
    <3>1. CASE overlooked'[c][s] = "yes"
      BY <3>1 DEF Remembered, Intact
    <3>2. CASE overlooked'[c][s] # "yes"
      <4>1. /\ Outstanding(c, s)'
            /\ \A e \in Underway(c, s)' : e.account = subs[s].account /\ e.status = "spawned"
        <5>1. s \in S /\ outcomes' = outcomes
          BY <2>1, <2>2, <2>4
        <5> QED BY <2>5, <3>2, <5>1, SpawnedFirst
      <4> QED BY <2>4, <4>1, RememberedStarted
    <3> QED BY <3>1, <3>2
  <2>3. CASE s # t
    <3>1. evals'[c][s] = evals[c][s] /\ overlooked'[c][s] = overlooked[c][s]
      BY <2>1, <2>3, <2>4, <2>5, SpawnedOther, SMTT(30)
    <3>2. shown'[c][s] = shown[c][s] /\ querySubs'[c][s] = querySubs[c][s]
      BY <1>4, <2>1, <2>3 DEF SubscribeQuery, TypeOK
    <3>3. Live(querySubs'[c], s) => Live(querySubs[c], s)
      BY <3>2 DEF Live
    <3> QED BY <2>1, <3>1, <3>2, <3>3, RememberedSame
  <2> QED BY <2>2, <2>3
<1>5. ASSUME NEW t \in SubIds, NEW a, NEW tables, SubscribeTableDeltas(c, t, a, tables)
      PROVE  Remembered(c, s)'
  BY <1>1, <1>5 DEF SubscribeTableDeltas
<1>6. ASSUME NEW t \in SubIds, Unsubscribe(c, t) PROVE Remembered(c, s)'
  <2>1. UNCHANGED <<storeVars, inbox, missed, evals, outcomes, overlooked>>
    BY <1>6 DEF Unsubscribe
  <2>2. CASE s = t
    <3>1. querySubs'[c][s] = Nothing
      BY <1>6, <2>2 DEF Unsubscribe, TypeOK
    <3> QED BY <3>1 DEF Remembered, Intact, Live
  <2>3. CASE s # t
    <3>1. shown'[c][s] = shown[c][s] /\ querySubs'[c][s] = querySubs[c][s]
      BY <1>6, <2>3 DEF Unsubscribe, TypeOK
    <3> QED BY <2>1, <3>1, RememberedSame DEF Live
  <2> QED BY <2>2, <2>3
<1> QED BY <1>2, <1>3, <1>4, <1>5, <1>6 DEF Client

\* Evaluations read all there is, and report what they read.
LEMMA RememberedEvaluating ==
  ASSUME TypeOK, TypeOK', InboxSound, NEW c \in Conns, Evaluating(c), NEW s \in SubIds,
         Remembered(c, s)
  PROVE  Remembered(c, s)'
<1> USE DEF storeVars
<1>0. PICK t \in SubIds : \E i \in DOMAIN evals[c][t] : Evaluate(c, t, i) \/ Report(c, t, i)
  BY DEF Evaluating
<1>1. PICK i \in DOMAIN evals[c][t] : Evaluate(c, t, i) \/ Report(c, t, i)
  BY <1>0
<1>2. /\ evals \in [Conns -> [SubIds -> Seq(Evaluation)]] /\ outcomes \in [Conns -> Seq(Outcome)]
      /\ evals[c][t] \in Seq(Evaluation) /\ outcomes[c] \in Seq(Outcome)
      /\ evals[c][t][i] \in Evaluation /\ evals[c][t] # <<>>
  <2>1. evals \in [Conns -> [SubIds -> Seq(Evaluation)]] /\ outcomes \in [Conns -> Seq(Outcome)]
    BY DEF TypeOK
  <2>2. evals[c][t] \in Seq(Evaluation)
    BY <2>1
  <2> QED BY <1>1, <2>1, <2>2, SeqElements
<1> DEFINE f == evals[c][t][i]
<1>3. /\ UNCHANGED <<storeVars, inbox, missed, querySubs, shown, overlooked>>
      /\ \A a, T, n : Unseen(a, T, n)' = Unseen(a, T, n)
      /\ Live(querySubs'[c], s) => Live(querySubs[c], s)
  <2>1. UNCHANGED <<storeVars, inbox, missed, querySubs, shown, overlooked>>
    BY <1>1 DEF Evaluate, Report
  <2> QED BY <2>1 DEF Unseen, Live
<1>4. \A a \in Accounts : announced[a] <= Len(changes[a])
  BY DEF InboxSound
<1>5. ASSUME Outstanding(c, s) => Outstanding(c, s)',
             \A e \in Underway(c, s)' :
               \/ e \in Underway(c, s)
               \/ /\ \E g \in Underway(c, s) : g.account = e.account
                  /\ e.status = "ok" => e.upTo = Len(changes[e.account])
      PROVE  Remembered(c, s)'
  BY <1>3, <1>4, <1>5, RememberedKept
<1>6. f \in Underway(c, t)
  BY DEF Underway
<1>7. CASE Evaluate(c, t, i)
  <2>1. outcomes' = outcomes
    BY <1>7 DEF Evaluate
  <2>2. CASE s # t
    <3>1. evals'[c][s] = evals[c][s]
      BY <1>2, <1>7, <2>2 DEF Evaluate
    <3> QED BY <1>5, <2>1, <3>1 DEF Underway, Outstanding
  <2>3. CASE s = t
    <3>1. PICK g : /\ evals' = [evals EXCEPT ![c][t][i] = g] /\ g.account = f.account
                   /\ g.status = "ok" => g.upTo = Len(changes[g.account])
      <4>1. CASE evals' = [evals EXCEPT ![c][t][i].status = "ok",
                                        ![c][t][i].upTo = Len(changes[evals[c][t][i].account])]
        <5> DEFINE g == [f EXCEPT !.status = "ok", !.upTo = Len(changes[f.account])]
        <5>1. evals' = [evals EXCEPT ![c][t][i] = g]
          BY <1>2, <4>1 DEF Evaluation
        <5>2. g.account = f.account /\ g.upTo = Len(changes[g.account])
          BY <1>2 DEF Evaluation
        <5> QED BY <5>1, <5>2
      <4>2. CASE evals' = [evals EXCEPT ![c][t][i].status = "failed"]
        <5> DEFINE g == [f EXCEPT !.status = "failed"]
        <5>1. evals' = [evals EXCEPT ![c][t][i] = g]
          BY <1>2, <4>2
        <5>2. g.account = f.account /\ g.status = "failed"
          BY <1>2 DEF Evaluation
        <5> QED BY <5>1, <5>2
      <4> QED BY <1>7, <4>1, <4>2 DEF Evaluate
    <3>2. /\ DOMAIN evals'[c][t] = DOMAIN evals[c][t]
          /\ \A k \in DOMAIN evals[c][t] : evals'[c][t][k] = IF k = i THEN g ELSE evals[c][t][k]
      BY <1>2, <3>1
    <3>3. Outstanding(c, s)'
      BY <2>3, <3>2 DEF Outstanding
    <3>4. Underway(c, s)' \subseteq Underway(c, s) \cup {g}
      BY <2>1, <2>3, <3>2 DEF Underway
    <3> QED BY <1>5, <1>6, <2>3, <3>1, <3>3, <3>4
  <2> QED BY <2>2, <2>3
<1>8. CASE Report(c, t, i)
  <2> DEFINE o == [sub |-> t, eval |-> f]
  <2>1. /\ outcomes' = [outcomes EXCEPT ![c] = Append(@, o)]
        /\ evals' = [evals EXCEPT ![c][t] = RemoveAt(@, i)]
    BY <1>8 DEF Report
  <2>2. o \in Outcome /\ o.sub = t /\ o.eval = f
    BY <1>2 DEF Outcome
  <2> HIDE DEF o, f
  <2>3. outcomes'[c] = Append(outcomes[c], o)
    BY <1>2, <2>1
  <2>4. /\ outcomes'[c][Len(outcomes[c]) + 1] = o /\ Len(outcomes[c]) + 1 \in DOMAIN outcomes'[c]
        /\ \A k \in DOMAIN outcomes[c] : k \in DOMAIN outcomes'[c] /\ outcomes'[c][k] = outcomes[c][k]
        /\ \A k \in DOMAIN outcomes'[c] :
             outcomes'[c][k] = o \/ (k \in DOMAIN outcomes[c] /\ outcomes'[c][k] = outcomes[c][k])
    BY <1>2, <2>2, <2>3, AppendElements
  <2>5. CASE s # t
    <3>1. evals'[c][s] = evals[c][s]
      BY <1>2, <2>1, <2>5
    <3>2. Underway(c, s)' = Underway(c, s)
      BY <2>2, <2>4, <2>5, <3>1 DEF Underway
    <3>3. Outstanding(c, s) => Outstanding(c, s)'
      BY <2>4, <3>1 DEF Outstanding
    <3> QED BY <1>5, <3>2, <3>3
  <2>6. CASE s = t
    <3>1. \A k \in DOMAIN evals'[c][t] : \E m \in DOMAIN evals[c][t] : evals'[c][t][k] = evals[c][t][m]
      BY <1>2, <2>1, RemoveAtElements
    <3>2. Underway(c, s)' \subseteq Underway(c, s)
      BY <1>6, <2>2, <2>4, <2>6, <3>1 DEF Underway
    <3>3. Outstanding(c, s)'
      BY <2>2, <2>4, <2>6 DEF Outstanding
    <3> QED BY <1>5, <3>2, <3>3
  <2> QED BY <2>5, <2>6
<1> QED BY <1>1, <1>7, <1>8

\* An announcement starts or marks the subscriptions it concerns; the others
\* are not waiting for it.
LEMMA RememberedReceived ==
  ASSUME TypeOK, TypeOK', InboxSound, NEW c \in Conns, ReceiveCommit(c), NEW s \in SubIds,
         Remembered(c, s)
  PROVE  Remembered(c, s)'
<1> DEFINE n == Head(inbox[c])
           wait == {u \in Concerned(c, n) : MustWait(querySubs[c][u])}
           start == Concerned(c, n) \ wait
<1> SUFFICES ASSUME Intact(c, s)' PROVE Remembered(c, s)'
  BY DEF Remembered
<1>1. /\ inbox[c] # <<>> /\ ~missed[c] /\ inbox' = [inbox EXCEPT ![c] = Tail(@)]
      /\ UNCHANGED <<storeVars, missed, outcomes, shown>>
      /\ querySubs' = [querySubs EXCEPT ![c] = Started(Marked(@, wait, n), start)]
  BY DEF ReceiveCommit
<1>2. PICK subs, S, W, batch : /\ S = start /\ W = wait /\ subs = querySubs[c]
                               /\ Spawned(c, subs, S, W, batch)
  BY DEF ReceiveCommit
<1>3. S \in SUBSET SubIds /\ S \cap W = {} /\ outcomes' = outcomes /\ Spawned(c, subs, S, W, batch)
  BY <1>1, <1>2 DEF Concerned
<1>4. n \in Notification /\ Genuine(n)
  BY <1>1, HeadSound
<1>5. querySubs'[c][s] = IF s \in start THEN [querySubs[c][s] EXCEPT !.inFlight = TRUE]
                         ELSE IF s \in wait
                         THEN [querySubs[c][s] EXCEPT !.dirty = TRUE, !.pending = n.batch]
                         ELSE querySubs[c][s]
  <2>1. querySubs'[c] = Started(Marked(querySubs[c], wait, n), start)
    BY <1>1 DEF TypeOK
  <2> HIDE DEF wait, start, n
  <2>2. start \cap wait = {}
    BY DEF start
  <2> DEFINE marked == Marked(querySubs[c], wait, n)
  <2>3. marked[s] = IF s \in wait THEN [querySubs[c][s] EXCEPT !.dirty = TRUE, !.pending = n.batch]
                    ELSE querySubs[c][s]
    BY DEF Marked
  <2> HIDE DEF marked
  <2>4. querySubs'[c][s] = IF s \in start THEN [marked[s] EXCEPT !.inFlight = TRUE] ELSE marked[s]
    BY <2>1 DEF Started, marked
  <2> QED BY <2>2, <2>3, <2>4
<1>6. \A u \in Concerned(c, n) : Live(querySubs[c], u) /\ querySubs[c][u] \in QuerySub
  BY DEF Concerned, Live, TypeOK
<1>7. CASE s \in start
  <2>1. /\ Outstanding(c, s)'
        /\ \A e \in Underway(c, s)' : e.account = subs[s].account /\ e.status = "spawned"
    <3>1. s \in S /\ overlooked'[c][s] # "yes"
      BY <1>2, <1>7 DEF Intact
    <3> QED BY <1>3, <3>1, SpawnedFirst
  <2>2. querySubs'[c][s].account = subs[s].account
    BY <1>2, <1>5, <1>6, <1>7 DEF QuerySub
  <2> QED BY <2>1, <2>2, RememberedStarted
<1>8. CASE s \in wait
  <2>1. s \in SubIds \ S /\ s \in W
    BY <1>2, <1>8
  <2>2. /\ Underway(c, s)' = Underway(c, s)
        /\ overlooked'[c][s] = IF Outstanding(c, s) /\ overlooked[c][s] = "no"
                               THEN "marked" ELSE overlooked[c][s]
    BY <1>3, <2>1, SpawnedOther
  <2>3. /\ Live(querySubs[c], s) /\ querySubs'[c][s].dirty
        /\ querySubs'[c][s].account = querySubs[c][s].account
    BY <1>5, <1>6, <1>8 DEF QuerySub
  <2> QED BY <2>2, <2>3, RememberedMarked
<1>9. CASE s \notin Concerned(c, n)
  <2> DEFINE A == querySubs[c][s].account
             T == querySubs[c][s].tables
  <2>1. s \in SubIds \ S /\ s \notin W /\ querySubs'[c][s] = querySubs[c][s]
    BY <1>2, <1>5, <1>9
  <2>2. /\ Underway(c, s)' = Underway(c, s) /\ (Outstanding(c, s)' <=> Outstanding(c, s))
        /\ overlooked'[c][s] = overlooked[c][s]
    BY <1>3, <2>1, SpawnedOther
  <2>3. Intact(c, s)
    BY <2>1, <2>2 DEF Intact, Live
  <2>4. AnnouncedComing(c, s) /\ UnderwayMatches(c, s) /\ UnderwayFresh(c, s)
    BY <2>3 DEF Remembered
  <2>5. ~(n.account = A /\ n.tables \cap T # {})
    BY <1>9, <2>3 DEF Concerned, Intact
  <2>6. /\ inbox[c] \in Seq(Notification) /\ inbox[c][1] = n
        /\ \A j \in DOMAIN inbox[c] : j = 1 \/ (j - 1 \in DOMAIN inbox'[c] /\ inbox'[c][j - 1] = inbox[c][j])
    <3>1. inbox \in [Conns -> Seq(Notification)]
      BY DEF TypeOK
    <3>2. inbox'[c] = Tail(inbox[c])
      BY <1>1, <3>1
    <3> QED BY <1>1, <3>1, <3>2
  <2>7. \A a, tables, k : Unseen(a, tables, k)' = Unseen(a, tables, k)
    BY <1>1 DEF Unseen, storeVars
  <2>8. missed'[c] = missed[c] /\ shown' = shown /\ ~missed[c]
    BY <1>1
  <2> HIDE DEF n
  <2>9. Coming(c, s) => Coming(c, s)'
    BY <2>1, <2>2, <2>5, <2>6, <2>8 DEF Coming
  <2>10. AnnouncedComing(c, s)'
    BY <2>1, <2>4, <2>7, <2>8, <2>9 DEF AnnouncedComing, Live
  <2>11. UnderwayMatches(c, s)'
    BY <2>1, <2>2, <2>4 DEF UnderwayMatches
  <2>12. ASSUME NEW k, NEW i \in Unseen(A, T, k), Queued(c, A, i) PROVE Queued(c, A, i)'
    <3>1. PICK j \in DOMAIN inbox[c] : inbox[c][j].account = A /\ inbox[c][j].batch = i
      BY <2>12 DEF Queued
    <3>2. j # 1
      BY <1>4, <2>5, <2>6, <2>12, <3>1 DEF Genuine, Unseen
    <3> QED BY <2>1, <2>6, <3>1, <3>2 DEF Queued
  <2>13. UnderwayFresh(c, s)'
    BY <2>1, <2>2, <2>4, <2>7, <2>8, <2>12 DEF UnderwayFresh
  <2> QED BY <2>10, <2>11, <2>13 DEF Remembered
<1> QED BY <1>7, <1>8, <1>9

\* A subscriber that lags refreshes every subscription.
LEMMA RememberedLagged ==
  ASSUME TypeOK, TypeOK', NEW c \in Conns, ReceiveLagged(c), NEW s \in SubIds, Remembered(c, s)
  PROVE  Remembered(c, s)'
<1> SUFFICES ASSUME Intact(c, s)' PROVE Remembered(c, s)'
  BY DEF Remembered
<1> DEFINE all == {u \in SubIds : Live(querySubs[c], u)}
           start == {u \in all : ~querySubs[c][u].inFlight}
<1>1. PICK subs, S, W, batch : /\ S = start /\ W = all \ start /\ subs = querySubs[c]
                               /\ Spawned(c, subs, S, W, batch)
  BY DEF ReceiveLagged
<1>2. S \in SUBSET SubIds /\ S \cap W = {} /\ outcomes' = outcomes /\ Spawned(c, subs, S, W, batch)
  BY <1>1 DEF ReceiveLagged
<1>3. \A u \in all : querySubs[c][u] \in QuerySub
  BY DEF Live, TypeOK
<1>4. querySubs'[c][s] = IF s \in start THEN [querySubs[c][s] EXCEPT !.dirty = TRUE, !.inFlight = TRUE]
                         ELSE IF s \in all THEN [querySubs[c][s] EXCEPT !.dirty = TRUE]
                         ELSE querySubs[c][s]
  <2> DEFINE dirty == [u \in SubIds |-> IF u \in all THEN [querySubs[c][u] EXCEPT !.dirty = TRUE]
                                        ELSE querySubs[c][u]]
  <2>1. querySubs'[c] = Started(dirty, start)
    BY DEF ReceiveLagged, TypeOK
  <2>2. dirty[s] = IF s \in all THEN [querySubs[c][s] EXCEPT !.dirty = TRUE] ELSE querySubs[c][s]
    OBVIOUS
  <2>3. s \in start => s \in all
    OBVIOUS
  <2> HIDE DEF dirty, all, start
  <2>4. querySubs'[c][s] = IF s \in start THEN [dirty[s] EXCEPT !.inFlight = TRUE] ELSE dirty[s]
    BY <2>1 DEF Started
  <2> QED BY <2>2, <2>3, <2>4
<1>5. s \in all
  BY <1>4 DEF Intact, Live
<1>6. querySubs'[c][s].dirty /\ querySubs'[c][s].account = querySubs[c][s].account
  BY <1>3, <1>4, <1>5 DEF QuerySub
<1>7. CASE s \in S
  <2>1. /\ Outstanding(c, s)'
        /\ \A e \in Underway(c, s)' : e.account = subs[s].account /\ e.status = "spawned"
    <3>1. overlooked'[c][s] # "yes"
      BY DEF Intact
    <3> QED BY <1>2, <1>7, <3>1, SpawnedFirst
  <2> QED BY <1>1, <1>6, <2>1, RememberedStarted
<1>8. CASE s \notin S
  <2>1. s \in SubIds \ S /\ s \in W /\ Live(querySubs[c], s)
    BY <1>1, <1>5, <1>8
  <2>2. /\ Underway(c, s)' = Underway(c, s)
        /\ overlooked'[c][s] = IF Outstanding(c, s) /\ overlooked[c][s] = "no"
                               THEN "marked" ELSE overlooked[c][s]
    BY <1>2, <2>1, SpawnedOther
  <2> QED BY <1>6, <2>1, <2>2, RememberedMarked
<1> QED BY <1>7, <1>8

\* A result that is delivered shows all that is not queued, if no commit marked
\* the subscription meanwhile; a failure leaves the mark.
LEMMA RememberedCompleted ==
  ASSUME TypeOK, TypeOK', InboxSound, NEW c \in Conns, Complete(c), NEW s \in SubIds,
         Remembered(c, s)
  PROVE  Remembered(c, s)'
<1> SUFFICES ASSUME Intact(c, s)' PROVE Remembered(c, s)'
  BY DEF Remembered
<1> DEFINE t == Head(outcomes[c]).sub
           e == Head(outcomes[c]).eval
           sub == querySubs[c][t]
           A == querySubs[c][s].account
           T == querySubs[c][s].tables
<1>1. /\ UNCHANGED <<storeVars, inbox, missed, evals>> /\ outcomes[c] # <<>>
      /\ outcomes' = [outcomes EXCEPT ![c] = Tail(@)]
  BY DEF Complete
<1>2. /\ outcomes'[c] = Tail(outcomes[c])
      /\ t \in SubIds /\ e \in Evaluation
      /\ outcomes[c][1].sub = t /\ outcomes[c][1].eval = e /\ 1 \in DOMAIN outcomes[c]
      /\ \A j \in DOMAIN outcomes'[c] : j + 1 \in DOMAIN outcomes[c] /\ outcomes'[c][j] = outcomes[c][j + 1]
      /\ \A j \in DOMAIN outcomes[c] :
           j = 1 \/ (j - 1 \in DOMAIN outcomes'[c] /\ outcomes'[c][j - 1] = outcomes[c][j])
  <2>1. outcomes \in [Conns -> Seq(Outcome)] /\ outcomes[c] \in Seq(Outcome)
    BY DEF TypeOK
  <2>2. outcomes'[c] = Tail(outcomes[c])
    BY <1>1, <2>1
  <2>3. Head(outcomes[c]) \in Outcome /\ Head(outcomes[c]) = outcomes[c][1] /\ 1 \in DOMAIN outcomes[c]
    BY <1>1, <2>1, TailElements
  <2>4. \A j \in DOMAIN outcomes'[c] : j + 1 \in DOMAIN outcomes[c] /\ outcomes'[c][j] = outcomes[c][j + 1]
    BY <1>1, <2>1, <2>2, TailElements
  <2>5. \A j \in DOMAIN outcomes[c] :
          j = 1 \/ (j - 1 \in DOMAIN outcomes'[c] /\ outcomes'[c][j - 1] = outcomes[c][j])
    BY <1>1, <2>1, <2>2
  <2> QED BY <2>2, <2>3, <2>4, <2>5 DEF Outcome
<1> HIDE DEF t, e
<1>3. Underway(c, s)' \subseteq Underway(c, s)
  BY <1>1, <1>2 DEF Underway
<1>4. e \in Underway(c, t)
  BY <1>2 DEF Underway
<1>5. \A a, tables, n : Unseen(a, tables, n)' = Unseen(a, tables, n)
  BY <1>1 DEF Unseen, storeVars
<1>6. /\ querySubs \in [Conns -> [SubIds -> QuerySub \cup {Nothing}]]
      /\ shown \in [Conns -> [SubIds -> QuerySnapshot \cup {Nothing}]]
      /\ overlooked \in [Conns -> [SubIds -> {"no", "marked", "yes"}]]
  BY DEF TypeOK
<1>7. IF ~Live(querySubs[c], t)
      THEN UNCHANGED <<querySubs, shown, overlooked>>
      ELSE /\ querySubs' = [querySubs EXCEPT ![c][t] =
                IF e.status = "ok" THEN Delivered(@) ELSE Failed(@)]
           /\ shown' = IF e.status = "ok" THEN [shown EXCEPT ![c][t] = Snapshot(sub, e)] ELSE shown
           /\ overlooked' = [overlooked EXCEPT ![c][t] =
                IF \/ e.status = "ok" /\ @ = "marked"
                   \/ e.status # "ok" /\ ~sub.dirty
                THEN "yes" ELSE @]
  BY DEF Complete, t, e
<1>8. CASE s # t
  <2>1. /\ querySubs'[c][s] = querySubs[c][s] /\ shown'[c][s] = shown[c][s]
        /\ overlooked'[c][s] = overlooked[c][s]
    BY <1>2, <1>6, <1>7, <1>8
  <2>2. Outstanding(c, s) => Outstanding(c, s)'
    BY <1>1, <1>2, <1>8 DEF Outstanding
  <2>3. \A a \in Accounts : announced[a] <= Len(changes[a])
    BY DEF InboxSound
  <2>4. Live(querySubs'[c], s) => Live(querySubs[c], s)
    BY <2>1 DEF Live
  <2> QED BY <1>1, <1>3, <1>5, <2>1, <2>2, <2>3, <2>4, RememberedKept
<1>9. CASE s = t /\ ~Live(querySubs[c], s)
  BY <1>7, <1>9 DEF Intact, Live
<1>10. CASE s = t /\ Live(querySubs[c], s)
  <2>1. querySubs[c][s] \in QuerySub
    BY <1>10, LiveTypes
  <2>2. querySubs'[c][s] = IF e.status = "ok" THEN Delivered(querySubs[c][s]) ELSE Failed(querySubs[c][s])
    BY <1>6, <1>7, <1>10
  <2>3. querySubs'[c][s].account = A /\ querySubs'[c][s].tables = T
        /\ querySubs'[c][s].dirty = IF e.status = "ok" THEN FALSE ELSE querySubs[c][s].dirty
    BY <2>1, <2>2 DEF Delivered, Failed, QuerySub
  <2>4. overlooked'[c][s] = IF \/ e.status = "ok" /\ overlooked[c][s] = "marked"
                               \/ e.status # "ok" /\ ~querySubs[c][s].dirty
                            THEN "yes" ELSE overlooked[c][s]
    BY <1>6, <1>7, <1>10
  <2>5. overlooked'[c][s] = overlooked[c][s] /\ overlooked[c][s] # "yes"
    BY <2>4 DEF Intact
  <2>6. AnnouncedComing(c, s) /\ UnderwayMatches(c, s) /\ UnderwayFresh(c, s)
    BY <1>10, <2>5 DEF Remembered, Intact
  <2>7. UnderwayMatches(c, s)'
    BY <1>3, <2>3, <2>6 DEF UnderwayMatches
  <2>8. UnderwayFresh(c, s)'
    <3>1. \A a, i : Queued(c, a, i)' <=> Queued(c, a, i)
      BY <1>1 DEF Queued
    <3> QED BY <1>1, <1>3, <1>5, <2>3, <2>5, <2>6, <3>1 DEF UnderwayFresh
  <2>9. CASE e.status # "ok"
    <3>1. querySubs'[c][s].dirty
      BY <2>3, <2>4, <2>5, <2>9
    <3>2. AnnouncedComing(c, s)'
      BY <3>1 DEF AnnouncedComing, Coming
    <3> QED BY <2>7, <2>8, <3>2 DEF Remembered
  <2>10. CASE e.status = "ok"
    <3>1. overlooked[c][s] = "no"
      BY <1>6, <2>4, <2>5, <2>10
    <3>2. shown'[c][s] = Snapshot(sub, e)
      BY <1>6, <1>7, <1>10, <2>10
    <3>3. Live(shown'[c], s) /\ shown'[c][s].upTo = e.upTo
      BY <1>2, <1>10, <2>1, <3>2, NothingAssumption DEF Snapshot, QuerySnapshot, QuerySub, Evaluation, Live
    <3>4. \A i \in Unseen(A, T, e.upTo) : missed[c] \/ Queued(c, A, i)
      BY <1>4, <1>10, <2>6, <2>10, <3>1 DEF UnderwayFresh
    <3>5. AnnouncedComing(c, s)'
      <4> SUFFICES ASSUME NEW i \in Unseen(A, T, e.upTo) PROVE Coming(c, s)'
        BY <1>5, <2>3, <3>3 DEF AnnouncedComing
      <4>1. CASE missed[c]
        BY <1>1, <4>1 DEF Coming
      <4>2. CASE Queued(c, A, i)
        <5>1. PICK j \in DOMAIN inbox[c] : inbox[c][j].account = A /\ inbox[c][j].batch = i
          BY <4>2 DEF Queued
        <5>2. inbox[c][j].tables = changes[A][i].tables
          BY <5>1 DEF InboxSound, Genuine
        <5>3. inbox[c][j].tables \cap T # {}
          BY <5>2 DEF Unseen
        <5> QED BY <1>1, <2>3, <5>1, <5>3 DEF Coming
      <4> QED BY <3>4, <4>1, <4>2
    <3> QED BY <2>7, <2>8, <3>5 DEF Remembered
  <2> QED BY <2>9, <2>10
<1> QED BY <1>8, <1>9, <1>10

\* The other steps of a session.
LEMMA RememberedSession ==
  ASSUME TypeOK, TypeOK', InboxSound, NEW c \in Conns, Session(c), NEW s \in SubIds,
         Remembered(c, s)
  PROVE  Remembered(c, s)'
<1> USE DEF storeVars, sessionVars
<1>1. CASE StartSession(c)
  <2>1. Live(querySubs'[c], s) => Live(querySubs[c], s)
    BY <1>1 DEF StartSession, Live
  <2> QED BY <1>1, <2>1, RememberedSame DEF StartSession
<1>2. CASE DebounceTick(c)
  <2> DEFINE due == {u \in SubIds : Live(querySubs[c], u) /\ Due(querySubs[c][u])}
  <2>1. /\ UNCHANGED <<storeVars, inbox, missed, outcomes, shown>>
        /\ querySubs' = [querySubs EXCEPT ![c] = Started(@, due)]
    BY <1>2 DEF DebounceTick
  <2>2. PICK subs, S, W, batch : /\ S = due /\ W = {} /\ subs = querySubs[c]
                                 /\ Spawned(c, subs, S, W, batch)
    BY <1>2 DEF DebounceTick
  <2>3. S \in SUBSET SubIds /\ S \cap W = {} /\ outcomes' = outcomes /\ Spawned(c, subs, S, W, batch)
    BY <2>1, <2>2
  <2>4. querySubs'[c] = Started(querySubs[c], due)
    BY <2>1 DEF TypeOK
  <2> HIDE DEF due
  <2>5. querySubs'[c][s] = IF s \in S THEN [querySubs[c][s] EXCEPT !.inFlight = TRUE] ELSE querySubs[c][s]
    BY <2>2, <2>4 DEF Started
  <2>6. CASE s \in S
    <3>1. CASE overlooked'[c][s] = "yes"
      BY <3>1 DEF Remembered, Intact
    <3>2. CASE overlooked'[c][s] # "yes"
      <4>1. /\ Outstanding(c, s)'
            /\ \A e \in Underway(c, s)' : e.account = subs[s].account /\ e.status = "spawned"
        BY <2>3, <2>6, <3>2, SpawnedFirst
      <4>2. querySubs[c][s] \in QuerySub
        BY <2>2, <2>6, LiveTypes DEF due
      <4>3. querySubs'[c][s].account = subs[s].account
        BY <2>2, <2>5, <2>6, <4>2 DEF QuerySub
      <4> QED BY <4>1, <4>3, RememberedStarted
    <3> QED BY <3>1, <3>2
  <2>7. CASE s \notin S
    <3>1. s \in SubIds \ S /\ s \notin W
      BY <2>2, <2>7
    <3>2. evals'[c][s] = evals[c][s] /\ overlooked'[c][s] = overlooked[c][s]
      BY <2>3, <3>1, SpawnedOther
    <3>3. querySubs'[c][s] = querySubs[c][s] /\ shown'[c][s] = shown[c][s]
      BY <2>1, <2>5, <2>7
    <3> QED BY <2>1, <3>2, <3>3, RememberedSame DEF Live
  <2> QED BY <2>6, <2>7
<1>3. ASSUME NEW t \in SubIds, RestEnds(c, t) PROVE Remembered(c, s)'
  <2>1. UNCHANGED <<storeVars, inbox, missed, evals, outcomes, shown, overlooked>>
    BY <1>3 DEF RestEnds
  <2>2. Live(querySubs[c], t) /\ querySubs[c][t] \in QuerySub
    BY <1>3, LiveTypes DEF RestEnds
  <2>3. querySubs'[c][s] = IF s = t THEN [querySubs[c][t] EXCEPT !.resting = FALSE] ELSE querySubs[c][s]
    BY <1>3 DEF RestEnds, TypeOK
  <2>4. Live(querySubs'[c], s) =>
          /\ Live(querySubs[c], s)
          /\ querySubs'[c][s].account = querySubs[c][s].account
          /\ querySubs'[c][s].tables = querySubs[c][s].tables
          /\ querySubs'[c][s].dirty = querySubs[c][s].dirty
    BY <2>2, <2>3 DEF QuerySub, Live
  <2> QED BY <2>1, <2>4, RememberedSame
<1> QED BY <1>1, <1>2, <1>3, RememberedReceived, RememberedLagged, RememberedCompleted DEF Session

LEMMA RememberedStep ==
  ASSUME NInv, [Next]_vars, NEW c \in Conns, NEW s \in SubIds
  PROVE  Remembered(c, s)'
<1>1. TypeOK /\ IdleEmpty /\ InboxSound /\ QueueBounded /\ Remembered(c, s)
  BY DEF NInv
<1>2. TypeOK' /\ IdleEmpty'
  BY <1>1, TypeStep, IdleStep
<1>3. ASSUME NEW a \in Accounts, Writer(a) PROVE Remembered(c, s)'
  BY <1>2, <1>3, RememberedAnnounced, RememberedCommitted DEF Writer
<1>4. ASSUME SessionKept(c) PROVE Remembered(c, s)'
  BY <1>1, <1>2, <1>4, RememberedSame DEF SessionKept, Live
<1>5. ASSUME NEW d \in Conns, Client(d) \/ Session(d) \/ Evaluating(d) PROVE Remembered(c, s)'
  <2>1. CASE d = c
    BY <1>1, <1>2, <1>5, <2>1, RememberedClient, RememberedSession, RememberedEvaluating
  <2>2. CASE d # c
    BY <1>1, <1>4, <1>5, <2>2, OthersAlone
  <2> QED BY <2>1, <2>2
<1>6. UNCHANGED vars => SessionKept(c)
  BY DEF vars, sessionVars, storeVars, SessionKept
<1> QED BY <1>3, <1>4, <1>5, <1>6 DEF Next

\* As long as a subscription is stale, a change to announce, an announcement to
\* receive, a mark or an evaluation will refresh it (ws.rs:556), unless an
\* evaluation was overlooked.
THEOREM StaleNeverForgotten == Spec => []NotForgotten
<1>1. Init => NInv
  <2> SUFFICES ASSUME Init PROVE NInv
    OBVIOUS
  <2>1. TypeOK /\ IdleEmpty /\ InboxSound
    BY InvInit DEF IInv
  <2>2. QueueBounded
    BY LiveQueryAssumption DEF Init, QueueBounded
  <2>3. \A c \in Conns, s \in SubIds : Remembered(c, s)
    BY DEF Init, Remembered, Intact, NoSubs, Live
  <2> QED BY <2>1, <2>2, <2>3 DEF NInv
<1>2. NInv /\ [Next]_vars => NInv'
  <2> SUFFICES ASSUME NInv, [Next]_vars PROVE NInv'
    OBVIOUS
  <2>1. TypeOK' /\ IdleEmpty' /\ InboxSound' /\ QueueBounded'
    BY TypeStep, IdleStep, InboxStep, QueueStep DEF NInv
  <2>2. \A c \in Conns, s \in SubIds : Remembered(c, s)'
    BY RememberedStep
  <2> QED BY <2>1, <2>2 DEF NInv
<1>3. NInv => NotForgotten
  <2> SUFFICES ASSUME NInv, NEW c \in Conns, NEW s \in SubIds, Stale(c, s), overlooked[c][s] # "yes",
                      ~(announced[querySubs[c][s].account] < Len(changes[querySubs[c][s].account]))
               PROVE  Coming(c, s)
    BY DEF NotForgotten, Coming
  <2> DEFINE A == querySubs[c][s].account
  <2>1. querySubs[c][s] \in QuerySub /\ TypeOK
    BY LiveTypes DEF NInv, Stale
  <2>2. A \in Accounts /\ announced[A] \in Nat /\ Len(changes[A]) \in Nat
    BY <2>1 DEF QuerySub, TypeOK
  <2>3. announced[A] = Len(changes[A])
    BY <2>2 DEF NInv, InboxSound
  <2>4. AnnouncedComing(c, s)
    BY DEF NInv, Remembered, Intact, Stale
  <2>5. Live(shown[c], s) => Unseen(A, querySubs[c][s].tables, shown[c][s].upTo) # {}
    BY <2>3 DEF Stale, Outdated, Unseen
  <2> QED BY <2>4, <2>5 DEF AnnouncedComing
<1> QED BY <1>1, <1>2, <1>3, PTL DEF Spec

-----------------------------------------------------------------------------
(* Connections.                                                            *)

\* Sessions that run or have been let in, those apart that raced with another.
Admitted == {c \in Conns : conn[c] # "none"} \ overlapped

LInv == conn \in [Conns -> {"none", "upgrading", "open"}] /\ Cardinality(Admitted) <= MaxConns

\* However upgrades overlap: no more than max_ws_connections sessions run besides
\* those that were let in while another one had passed the check of ws.rs:227 and
\* was not yet counted.
THEOREM LimitAlwaysHolds ==
  ASSUME IsFiniteSet(Conns)
  PROVE  Spec => []ConnectionLimit
<1>1. \A S \in SUBSET Conns : IsFiniteSet(S) /\ Cardinality(S) \in Nat
  BY FS_Subset, FS_CardinalityType
<1>2. \A S, R \in SUBSET Conns : S \subseteq R => Cardinality(S) <= Cardinality(R)
  BY <1>1, FS_Subset
<1>3. MaxConns \in Nat
  BY LiveQueryAssumption
<1>4. Init => LInv
  <2> SUFFICES ASSUME Init PROVE LInv
    OBVIOUS
  <2>1. Admitted = {}
    BY DEF Init, Admitted
  <2> QED BY <1>3, <2>1, FS_EmptySet DEF LInv, Init
<1>5. LInv /\ [Next]_vars => LInv'
  <2> SUFFICES ASSUME LInv, [Next]_vars PROVE LInv'
    OBVIOUS
  <2>1. ASSUME Admitted' \subseteq Admitted, conn' \in [Conns -> {"none", "upgrading", "open"}]
        PROVE  LInv'
    <3>1. Admitted \in SUBSET Conns /\ Admitted' \in SUBSET Conns
      BY DEF Admitted
    <3> QED BY <1>1, <1>2, <1>3, <2>1, <3>1 DEF LInv
  <2>2. ASSUME NEW c \in Conns, NEW locked, Upgrade(c, locked) PROVE LInv'
    <3> DEFINE running == {d \in Conns : Open(d)}
    <3>1. /\ Cardinality(running) < MaxConns /\ conn[c] = "none"
          /\ overlapped' = IF \E d \in Conns : conn[d] = "upgrading" THEN overlapped \cup {c}
                           ELSE overlapped
          /\ conn' = [conn EXCEPT ![c] = "upgrading"]
      BY <2>2 DEF Upgrade
    <3>2. conn' \in [Conns -> {"none", "upgrading", "open"}]
      BY <3>1 DEF LInv
    \* Another one is about to start: c is one of those that raced.
    <3>3. CASE \E d \in Conns : conn[d] = "upgrading"
      <4>1. Admitted' \subseteq Admitted
        BY <3>1, <3>3 DEF Admitted, LInv
      <4> QED BY <2>1, <3>2, <4>1
    \* Nobody is: all who were let in are counted.
    <3>4. CASE \A d \in Conns : conn[d] # "upgrading"
      <4>1. Admitted' \subseteq running \cup {c}
        BY <3>1, <3>4 DEF Admitted, Open, LInv
      <4>2. running \in SUBSET Conns /\ c \notin running
        BY <3>1 DEF Open
      <4> HIDE DEF running
      <4>3. Cardinality(running \cup {c}) = Cardinality(running) + 1
        BY <1>1, <4>2, FS_AddElement
      <4>4. running \cup {c} \in SUBSET Conns /\ Admitted' \in SUBSET Conns
        BY <4>2 DEF Admitted
      <4>5. Cardinality(Admitted') <= Cardinality(running \cup {c})
        BY <1>2, <4>1, <4>4
      <4> QED BY <1>1, <1>3, <3>1, <3>2, <4>2, <4>3, <4>4, <4>5 DEF LInv
    <3> QED BY <3>3, <3>4
  <2>3. ASSUME UNCHANGED <<conn, overlapped>> PROVE LInv'
    BY <2>1, <2>3 DEF Admitted, LInv
  <2>4. ASSUME NEW c \in Conns, StartSession(c) \/ Disconnect(c) PROVE LInv'
    <3>1. Admitted' \subseteq Admitted /\ conn' \in [Conns -> {"none", "upgrading", "open"}]
      BY <2>4 DEF StartSession, Disconnect, Admitted, LInv
    <3> QED BY <2>1, <3>1
  <2>5. ASSUME NEW a \in Accounts, Writer(a) PROVE UNCHANGED <<conn, overlapped>>
    BY <2>5 DEF Writer, Announce, Commit
  <2>6. ASSUME NEW c \in Conns, Client(c)
        PROVE  Disconnect(c) \/ (\E locked : Upgrade(c, locked)) \/ UNCHANGED <<conn, overlapped>>
    BY <2>6 DEF Client, SubscribeQuery, SubscribeTableDeltas, Unsubscribe
  <2>7. ASSUME NEW c \in Conns, Session(c) PROVE StartSession(c) \/ UNCHANGED <<conn, overlapped>>
    BY <2>7 DEF Session, ReceiveCommit, ReceiveLagged, Complete, DebounceTick, RestEnds
  <2>8. ASSUME NEW c \in Conns, Evaluating(c) PROVE UNCHANGED <<conn, overlapped>>
    BY <2>8 DEF Evaluating, Evaluate, Report
  <2>9. UNCHANGED vars => UNCHANGED <<conn, overlapped>>
    BY DEF vars
  <2> QED BY <2>2, <2>3, <2>4, <2>5, <2>6, <2>7, <2>8, <2>9 DEF Next
<1>6. LInv => ConnectionLimit
  <2> SUFFICES ASSUME LInv PROVE ConnectionLimit
    OBVIOUS
  <2> DEFINE counted == {c \in Conns : Open(c)} \ overlapped
  <2>1. counted \subseteq Admitted /\ counted \in SUBSET Conns /\ Admitted \in SUBSET Conns
    BY DEF Admitted, Open
  <2>2. Cardinality(counted) <= Cardinality(Admitted)
    BY <1>2, <2>1
  <2> QED BY <1>1, <1>3, <2>1, <2>2 DEF LInv, ConnectionLimit
<1> QED BY <1>4, <1>5, <1>6, PTL DEF Spec

=============================================================================
