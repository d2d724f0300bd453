------------------------------ MODULE LiveQuery ------------------------------
(***************************************************************************)
(* Live queries over WebSocket (src/api/ws.rs).  The store writer of an    *)
(* account commits a batch, then announces it on a broadcast channel all   *)
(* sessions share; a session marks the subscriptions the batch concerns    *)
(* and evaluates their queries on tasks of their own, whose outcomes come  *)
(* back over a queue.                                                      *)
(*                                                                         *)
(* The data of an account is the sequence of its changes, so what a query  *)
(* returns is how many of them it saw; a batch id is the position of its   *)
(* change.  Time is a flag of a subscription: it is `resting` until        *)
(* throttle_ms have passed since last_pushed and next_retry_at has come,   *)
(* which may be at any time.  A message that cannot be sent ends the       *)
(* session, which Disconnect may do at any time.                           *)
(*                                                                         *)
(* Bounds: MaxChanges changes, MaxSubscribes subscriptions,                *)
(* MaxEvalErrors failed evaluations, MaxSilent unannounced changes.        *)
(***************************************************************************)
EXTENDS Integers, Sequences, FiniteSets, SequencesExt

CONSTANTS
  Accounts,          \* accounts, each with a store of its own
  Keyed,             \* those with an API key
  Tables,            \* replicated tables
  Queries,           \* named queries, by the tables they depend on
  DeltaLists,        \* the tables a delta subscription may list
  Batches,           \* the tables a batch may change
  Conns,             \* clients, each with at most one connection
  SubIds,            \* subscription ids clients choose
  MaxConns,          \* max_ws_connections
  BroadcastCapacity, \* broadcast::channel(1_024)
  MaxDeltaRows,      \* max_delta_broadcast_rows
  MaxChanges, MaxSubscribes, MaxEvalErrors, MaxSilent,
  Nothing

ASSUME LiveQueryAssumption ==
  /\ {BroadcastCapacity, MaxConns} \subseteq Nat \ {0}
  /\ {MaxDeltaRows, MaxChanges, MaxSubscribes, MaxEvalErrors, MaxSilent} \subseteq Nat
  /\ Keyed \subseteq Accounts
  /\ Queries \cup DeltaLists \cup Batches \subseteq SUBSET Tables

VARIABLES
  changes,    \* the changes committed to each account's store
  announced,  \* the last of them the account's writer has announced
  conn,       \* "none", "upgrading" (accepted) or "open"
  key,        \* the account the session's API key is locked to, or Nothing
  inbox,      \* commit_rx: announcements not yet received
  missed,     \* commit_rx: the channel overwrote some of them
  querySubs,  \* active_query_subs
  deltaSubs,  \* active_delta_subs
  evals,      \* evaluation tasks
  outcomes,   \* eval_rx
  shown,      \* the client: the last QuerySnapshot of each subscription
  overlooked, \* "yes" if an evaluation overlapped another, failed for good or
              \* cleared the mark of a commit; "marked" while it may still do so
  subscribes, \* subscriptions made so far
  errors,     \* failed evaluations so far
  overlapped  \* sessions let in while another one was about to start

storeVars == <<changes, announced>>
sessionVars == <<querySubs, deltaSubs, evals, outcomes, shown, overlooked>>
vars == <<storeVars, conn, key, inbox, missed, sessionVars, subscribes, errors, overlapped>>

-----------------------------------------------------------------------------
\* Types.  A change names the tables it touched and those with deltas in its
\* announcement; a silent change is never announced.
Change == [tables : SUBSET Tables, listed : SUBSET Tables, silent : BOOLEAN]
Notification == [account : Accounts, batch : Nat, tables : SUBSET Tables,
                 listed : SUBSET Tables]
QuerySub == [account : Accounts, tables : SUBSET Tables, dirty : BOOLEAN,
             pending : Nat, resting : BOOLEAN, inFlight : BOOLEAN]
DeltaSub == [account : Accounts, tables : SUBSET Tables, since : Nat, got : SUBSET Nat]
Evaluation == [account : Accounts, tables : SUBSET Tables, batch : Nat,
               status : {"spawned", "ok", "failed"}, upTo : Nat]
Outcome == [sub : SubIds, eval : Evaluation]
QuerySnapshot == [account : Accounts, tables : SUBSET Tables, batch : Nat, upTo : Nat]

ASSUME NothingAssumption == Nothing \notin QuerySnapshot

Open(c) == conn[c] = "open"
Live(subs, s) == subs[s] # Nothing

\* Has the store of account a seen a change to one of these tables that the
\* result of a query on its first n changes does not show?
Outdated(a, tables, n) ==
  \E i \in n + 1 .. Len(changes[a]) :
    ~changes[a][i].silent /\ changes[a][i].tables \cap tables # {}

\* Evaluations of subscription s that have not been delivered.
Outstanding(c, s) ==
  evals[c][s] # <<>> \/ \E i \in DOMAIN outcomes[c] : outcomes[c][i].sub = s

NoSubs == [s \in SubIds |-> Nothing]
NoEvals == [s \in SubIds |-> <<>>]

Init ==
  /\ changes = [a \in Accounts |-> <<>>]
  /\ announced = [a \in Accounts |-> 0]
  /\ conn = [c \in Conns |-> "none"]
  /\ key = [c \in Conns |-> Nothing]
  /\ inbox = [c \in Conns |-> <<>>]
  /\ missed = [c \in Conns |-> FALSE]
  /\ querySubs = [c \in Conns |-> NoSubs]
  /\ deltaSubs = [c \in Conns |-> NoSubs]
  /\ evals = [c \in Conns |-> NoEvals]
  /\ outcomes = [c \in Conns |-> <<>>]
  /\ shown = [c \in Conns |-> NoSubs]
  /\ overlooked = [c \in Conns |-> [s \in SubIds |-> "no"]]
  /\ subscribes = 0
  /\ errors = 0
  /\ overlapped = {}

-----------------------------------------------------------------------------
\* The store writer.

\* flush_batch commits a batch; only the first max_delta_broadcast_rows rows
\* of it become deltas (a row stands for what it did to one table).  Bulk
\* loads and DDL change tables without announcing it.
Commit(a, tables, silent) ==
  /\ announced[a] = Len(changes[a])
  /\ Cardinality(UNION {{b} \X DOMAIN changes[b] : b \in Accounts}) < MaxChanges
  /\ silent => Cardinality({i \in DOMAIN changes[a] : changes[a][i].silent}) < MaxSilent
  /\ \E listed \in SUBSET tables :
       /\ listed = tables \/ Cardinality(listed) = MaxDeltaRows
       /\ Cardinality(listed) <= MaxDeltaRows
       /\ changes' = [changes EXCEPT ![a] =
            Append(@, [tables |-> tables, listed |-> listed, silent |-> silent])]
  /\ announced' = IF silent THEN [announced EXCEPT ![a] = @ + 1] ELSE announced
  /\ UNCHANGED <<conn, key, inbox, missed, sessionVars, subscribes, errors, overlapped>>

\* commit_tx.send: the channel keeps the latest announcements.
Announced(a) ==
  LET n == announced[a] + 1
  IN  [account |-> a, batch |-> n, tables |-> changes[a][n].tables,
       listed |-> changes[a][n].listed]

Announce(a) ==
  /\ announced[a] < Len(changes[a])
  /\ announced' = [announced EXCEPT ![a] = @ + 1]
  /\ inbox' = [c \in Conns |->
       IF ~Open(c) THEN inbox[c]
       ELSE LET all == Append(inbox[c], Announced(a))
            IN  IF Len(all) > BroadcastCapacity THEN Tail(all) ELSE all]
  /\ missed' = [c \in Conns |-> missed[c] \/ (Open(c) /\ Len(inbox[c]) = BroadcastCapacity)]
  /\ UNCHANGED <<changes, conn, key, sessionVars, subscribes, errors, overlapped>>

-----------------------------------------------------------------------------
\* Connections.

\* Mutant: the limit is off by one.
UpgradeLate(c, locked) ==
  /\ conn[c] = "none"
  /\ Cardinality({d \in Conns : Open(d)}) <= MaxConns
  /\ overlapped' = IF \E d \in Conns : conn[d] = "upgrading" THEN overlapped \cup {c} ELSE overlapped
  /\ conn' = [conn EXCEPT ![c] = "upgrading"]
  /\ key' = [key EXCEPT ![c] = locked]
  /\ UNCHANGED <<storeVars, inbox, missed, sessionVars, subscribes, errors>>

\* ws_handler: authenticates, then compares the number of running sessions
\* with the limit.  Without an account's key the session is not locked.
Upgrade(c, locked) ==
  /\ conn[c] = "none"
  /\ Cardinality({d \in Conns : Open(d)}) < MaxConns
  /\ overlapped' = IF \E d \in Conns : conn[d] = "upgrading" THEN overlapped \cup {c} ELSE overlapped
  /\ conn' = [conn EXCEPT ![c] = "upgrading"]
  /\ key' = [key EXCEPT ![c] = locked]
  /\ UNCHANGED <<storeVars, inbox, missed, sessionVars, subscribes, errors>>

\* handle_ws_session starts: WsConnectionGuard counts it, and it subscribes to
\* the commit announcements.
StartSession(c) ==
  /\ conn[c] = "upgrading"
  /\ conn' = [conn EXCEPT ![c] = "open"]
  /\ UNCHANGED <<storeVars, key, inbox, missed, sessionVars, subscribes, errors,
                 overlapped>>

\* The client closes, or a message cannot be sent.  Evaluations still running
\* find nobody to report to.
Disconnect(c) ==
  /\ conn[c] # "none"
  /\ conn' = [conn EXCEPT ![c] = "none"]
  /\ key' = [key EXCEPT ![c] = Nothing]
  /\ inbox' = [inbox EXCEPT ![c] = <<>>]
  /\ missed' = [missed EXCEPT ![c] = FALSE]
  /\ querySubs' = [querySubs EXCEPT ![c] = NoSubs]
  /\ deltaSubs' = [deltaSubs EXCEPT ![c] = NoSubs]
  /\ evals' = [evals EXCEPT ![c] = NoEvals]
  /\ outcomes' = [outcomes EXCEPT ![c] = <<>>]
  /\ shown' = [shown EXCEPT ![c] = NoSubs]
  /\ overlapped' = overlapped \ {c}
  /\ overlooked' = [overlooked EXCEPT ![c] = [s \in SubIds |-> "no"]]
  /\ UNCHANGED <<storeVars, subscribes, errors>>

-----------------------------------------------------------------------------
\* Evaluations.

\* Mutant: batch ids are counted from zero.
SpawnedFromZero(c, subs, S, waiting, batch) ==
  /\ evals' = [evals EXCEPT ![c] = [s \in SubIds |->
       IF s \in S
       THEN Append(@[s], [account |-> subs[s].account, tables |-> subs[s].tables,
                          batch |-> batch[s] - 1, status |-> "spawned", upTo |-> 0])
       ELSE @[s]]]
  /\ UNCHANGED overlooked

\* spawn_evaluation of the subscriptions in S, at these batch ids, while
\* those in waiting are only marked.
Spawned(c, subs, S, waiting, batch) ==
  /\ evals' = [evals EXCEPT ![c] = [s \in SubIds |->
       IF s \in S
       THEN Append(@[s], [account |-> subs[s].account, tables |-> subs[s].tables,
                          batch |-> batch[s], status |-> "spawned", upTo |-> 0])
       ELSE @[s]]]
  /\ overlooked' = [overlooked EXCEPT ![c] = [s \in SubIds |->
       CASE s \in S -> IF Outstanding(c, s) THEN "yes" ELSE "no"
         [] s \in waiting /\ Outstanding(c, s) /\ @[s] = "no" -> "marked"
         [] OTHER -> @[s]]]

\* start_evaluation marks the subscriptions it spawns one for.
Started(subs, S) ==
  [s \in SubIds |-> IF s \in S THEN [subs[s] EXCEPT !.inFlight = TRUE] ELSE subs[s]]

\* The statements of the query run on a reader of the store; upTo is what the
\* first of them sees.
Evaluate(c, s, i) ==
  /\ evals[c][s][i].status = "spawned"
  /\ \/ /\ evals' = [evals EXCEPT ![c][s][i].status = "ok",
                                  ![c][s][i].upTo = Len(changes[evals[c][s][i].account])]
        /\ UNCHANGED errors
     \/ /\ errors < MaxEvalErrors
        /\ evals' = [evals EXCEPT ![c][s][i].status = "failed"]
        /\ errors' = errors + 1
  /\ UNCHANGED <<storeVars, conn, key, inbox, missed, querySubs, deltaSubs, outcomes,
                 shown, overlooked, subscribes, overlapped>>

\* The task reports its outcome; tasks overtake each other.
Report(c, s, i) ==
  /\ evals[c][s][i].status # "spawned"
  /\ outcomes' = [outcomes EXCEPT ![c] = Append(@, [sub |-> s, eval |-> evals[c][s][i]])]
  /\ evals' = [evals EXCEPT ![c][s] = RemoveAt(@, i)]
  /\ UNCHANGED <<storeVars, conn, key, inbox, missed, querySubs, deltaSubs, shown,
                 overlooked, subscribes, errors, overlapped>>

-----------------------------------------------------------------------------
\* Branch A: client messages.

\* Mutant: the account a client names is trusted.
AuthorizedAlways(c, a) == a \in Accounts

Authorized(c, a) == key[c] \in {Nothing, a}

SubscribeQuery(c, s, a, tables) ==
  /\ Open(c) /\ Authorized(c, a)
  /\ subscribes < MaxSubscribes
  /\ querySubs' = [querySubs EXCEPT ![c][s] =
       [account |-> a, tables |-> tables, dirty |-> FALSE, pending |-> 0,
        resting |-> TRUE, inFlight |-> FALSE]]
  /\ Spawned(c, querySubs'[c], {s}, {}, [u \in SubIds |-> 0])
  /\ shown' = [shown EXCEPT ![c][s] = Nothing]
  /\ subscribes' = subscribes + 1
  /\ UNCHANGED <<storeVars, conn, key, inbox, missed, deltaSubs, outcomes, errors,
                 overlapped>>

SubscribeTableDeltas(c, s, a, tables) ==
  /\ Open(c) /\ Authorized(c, a)
  /\ subscribes < MaxSubscribes
  /\ deltaSubs' = [deltaSubs EXCEPT ![c][s] =
       [account |-> a, tables |-> tables, since |-> announced[a], got |-> {}]]
  /\ subscribes' = subscribes + 1
  /\ UNCHANGED <<storeVars, conn, key, inbox, missed, querySubs, evals, outcomes, shown,
                 overlooked, errors, overlapped>>

Unsubscribe(c, s) ==
  /\ Live(querySubs[c], s) \/ Live(deltaSubs[c], s)
  /\ querySubs' = [querySubs EXCEPT ![c][s] = Nothing]
  /\ deltaSubs' = [deltaSubs EXCEPT ![c][s] = Nothing]
  /\ shown' = [shown EXCEPT ![c][s] = Nothing]
  /\ UNCHANGED <<storeVars, conn, key, inbox, missed, evals, outcomes, overlooked,
                 subscribes, errors, overlapped>>

-----------------------------------------------------------------------------
\* Branch B: commit announcements.

\* The subscriptions of c that n concerns.
Concerned(c, n) ==
  {s \in SubIds : /\ Live(querySubs[c], s)
                  /\ querySubs[c][s].account = n.account
                  /\ querySubs[c][s].tables \cap n.tables # {}}

\* A subscription that is evaluating, throttled or backing off waits.
MustWait(sub) == sub.inFlight \/ sub.resting

\* Mutant: the batch is noted, the mark forgotten.
MarkedOnly(subs, S, n) ==
  [s \in SubIds |-> IF s \in S THEN [subs[s] EXCEPT !.pending = n.batch] ELSE subs[s]]

Marked(subs, S, n) ==
  [s \in SubIds |-> IF s \in S THEN [subs[s] EXCEPT !.dirty = TRUE, !.pending = n.batch]
                    ELSE subs[s]]

\* TableDeltaBatch to every delta subscription the batch has deltas for.
FannedOut(subs, n) ==
  [s \in SubIds |->
     IF /\ Live(subs, s) /\ subs[s].account = n.account
        /\ subs[s].tables \cap n.listed # {}
     THEN [subs[s] EXCEPT !.got = @ \cup {n.batch}]
     ELSE subs[s]]

ReceiveCommit(c) ==
  /\ ~missed[c] /\ inbox[c] # <<>>
  /\ LET n == Head(inbox[c])
         wait == {s \in Concerned(c, n) : MustWait(querySubs[c][s])}
         start == Concerned(c, n) \ wait
     IN  /\ deltaSubs' = [deltaSubs EXCEPT ![c] = FannedOut(@, n)]
         /\ querySubs' = [querySubs EXCEPT ![c] = Started(Marked(@, wait, n), start)]
         /\ Spawned(c, querySubs[c], start, wait, [s \in start |-> n.batch])
  /\ inbox' = [inbox EXCEPT ![c] = Tail(@)]
  /\ UNCHANGED <<storeVars, conn, key, missed, outcomes, shown, subscribes, errors,
                 overlapped>>

\* Mutant: the queries are refreshed, but nobody is told.
ReceiveLaggedSilently(c) ==
  /\ missed[c]
  /\ missed' = [missed EXCEPT ![c] = FALSE]
  /\ querySubs' = [querySubs EXCEPT ![c] =
       [s \in SubIds |-> IF Live(@, s) THEN [@[s] EXCEPT !.dirty = TRUE] ELSE @[s]]]
  /\ UNCHANGED <<storeVars, conn, key, inbox, deltaSubs, evals, overlooked, outcomes,
                 shown, subscribes, errors, overlapped>>

\* A client that was told that it lags may lack what was announced until then.
ToldOfLag(subs) ==
  [s \in SubIds |-> IF Live(subs, s) THEN [subs[s] EXCEPT !.since = announced[subs[s].account]]
                    ELSE Nothing]

\* Lagged: the client is told, and every query subscription is refreshed,
\* whatever its throttle.
ReceiveLagged(c) ==
  /\ missed[c]
  /\ missed' = [missed EXCEPT ![c] = FALSE]
  /\ deltaSubs' = [deltaSubs EXCEPT ![c] = ToldOfLag(@)]
  /\ LET all == {s \in SubIds : Live(querySubs[c], s)}
         start == {s \in all : ~querySubs[c][s].inFlight}
         dirty == [s \in SubIds |-> IF s \in all THEN [querySubs[c][s] EXCEPT !.dirty = TRUE]
                                    ELSE querySubs[c][s]]
     IN  /\ querySubs' = [querySubs EXCEPT ![c] = Started(dirty, start)]
         /\ Spawned(c, querySubs[c], start, all \ start, [s \in start |-> querySubs[c][s].pending])
  /\ UNCHANGED <<storeVars, conn, key, inbox, outcomes, shown, subscribes,
                 errors, overlapped>>

-----------------------------------------------------------------------------
\* Branch C: an evaluation has ended.

\* Mutant: a snapshot is labelled with the latest batch heard of.
SnapshotOfPending(sub, e) ==
  [tables |-> sub.tables, account |-> e.account, batch |-> sub.pending, upTo |-> e.upTo]

\* The QuerySnapshot of outcome e, sent under the name of the current query.
Snapshot(sub, e) ==
  [tables |-> sub.tables, account |-> e.account, batch |-> e.batch, upTo |-> e.upTo]

\* The mark goes with the data, whenever it was set.
Delivered(sub) ==
  [sub EXCEPT !.inFlight = FALSE, !.resting = TRUE, !.dirty = FALSE]

Failed(sub) == [sub EXCEPT !.inFlight = FALSE, !.resting = TRUE]

Complete(c) ==
  /\ outcomes[c] # <<>>
  /\ outcomes' = [outcomes EXCEPT ![c] = Tail(@)]
  /\ LET s == Head(outcomes[c]).sub
         e == Head(outcomes[c]).eval
         sub == querySubs[c][s]
     IN  IF ~Live(querySubs[c], s)
         THEN UNCHANGED <<querySubs, shown, overlooked>>
         ELSE /\ querySubs' = [querySubs EXCEPT ![c][s] =
                   IF e.status = "ok" THEN Delivered(@) ELSE Failed(@)]
              /\ shown' = IF e.status = "ok" THEN [shown EXCEPT ![c][s] = Snapshot(sub, e)] ELSE shown
              /\ overlooked' = [overlooked EXCEPT ![c][s] =
                   IF \/ e.status = "ok" /\ @ = "marked"
                      \/ e.status # "ok" /\ ~sub.dirty
                   THEN "yes" ELSE @]
  /\ UNCHANGED <<storeVars, conn, key, inbox, missed, deltaSubs, evals, subscribes,
                 errors, overlapped>>

-----------------------------------------------------------------------------
\* Branch D: the debounce interval, and time.

Due(sub) == sub.dirty /\ ~MustWait(sub)

DebounceTick(c) ==
  LET due == {s \in SubIds : Live(querySubs[c], s) /\ Due(querySubs[c][s])}
  IN  /\ due # {}
      /\ querySubs' = [querySubs EXCEPT ![c] = Started(@, due)]
      /\ Spawned(c, querySubs[c], due, {}, [s \in due |-> querySubs[c][s].pending])
      /\ UNCHANGED <<storeVars, conn, key, inbox, missed, deltaSubs, outcomes, shown,
                     subscribes, errors, overlapped>>

RestEnds(c, s) ==
  /\ Live(querySubs[c], s) /\ querySubs[c][s].resting
  /\ querySubs' = [querySubs EXCEPT ![c][s].resting = FALSE]
  /\ UNCHANGED <<storeVars, conn, key, inbox, missed, deltaSubs, evals, outcomes, shown,
                 overlooked, subscribes, errors, overlapped>>

-----------------------------------------------------------------------------
\* The next-state relation

Evaluating(c) ==
  \E s \in SubIds : \E i \in DOMAIN evals[c][s] : Evaluate(c, s, i) \/ Report(c, s, i)

Client(c) ==
  \/ \E locked \in Keyed \cup {Nothing} : Upgrade(c, locked)
  \/ Disconnect(c)
  \/ \E s \in SubIds, a \in Accounts :
       \/ \E tables \in Queries : SubscribeQuery(c, s, a, tables)
       \/ \E tables \in DeltaLists : SubscribeTableDeltas(c, s, a, tables)
  \/ \E s \in SubIds : Unsubscribe(c, s)

Session(c) ==
  \/ StartSession(c)
  \/ ReceiveCommit(c)
  \/ ReceiveLagged(c)
  \/ Complete(c)
  \/ DebounceTick(c)
  \/ \E s \in SubIds : RestEnds(c, s)

Writer(a) ==
  \/ Announce(a)
  \/ \E tables \in Batches, silent \in BOOLEAN : Commit(a, tables, silent)

Next ==
  \/ \E a \in Accounts : Writer(a)
  \/ \E c \in Conns : Client(c) \/ Session(c) \/ Evaluating(c)

\* A session and the tasks of its evaluations run as long as they can: tasks
\* are polled, intervals tick, time passes.  Nothing is assumed of the order of
\* their steps, of clients and of commits.
Fairness ==
  /\ \A a \in Accounts : WF_vars(Announce(a))
  /\ \A c \in Conns : WF_vars(Session(c) \/ Evaluating(c))

Spec == Init /\ [][Next]_vars
FairSpec == Spec /\ Fairness

-----------------------------------------------------------------------------
\* Type correctness.
TypeOK ==
  /\ changes \in [Accounts -> Seq(Change)]
  /\ announced \in [Accounts -> Nat]
  /\ conn \in [Conns -> {"none", "upgrading", "open"}]
  /\ key \in [Conns -> Accounts \cup {Nothing}]
  /\ inbox \in [Conns -> Seq(Notification)]
  /\ missed \in [Conns -> BOOLEAN]
  /\ querySubs \in [Conns -> [SubIds -> QuerySub \cup {Nothing}]]
  /\ deltaSubs \in [Conns -> [SubIds -> DeltaSub \cup {Nothing}]]
  /\ evals \in [Conns -> [SubIds -> Seq(Evaluation)]]
  /\ outcomes \in [Conns -> Seq(Outcome)]
  /\ shown \in [Conns -> [SubIds -> QuerySnapshot \cup {Nothing}]]
  /\ overlooked \in [Conns -> [SubIds -> {"no", "marked", "yes"}]]
  /\ subscribes \in Nat
  /\ errors \in Nat
  /\ overlapped \subseteq Conns

\* No more than max_ws_connections sessions run at a time, those apart that were
\* let in while another one had passed the check and was not yet counted: the
\* limit is overrun by sessions that raced, never by those behind them.
ConnectionLimit == Cardinality({c \in Conns : Open(c)} \ overlapped) <= MaxConns

\* What the configuration promises (config.example.toml:17), which the two steps
\* of the check and the count do not keep.
StrictLimit == Cardinality({c \in Conns : Open(c)}) <= MaxConns

\* A session whose API key belongs to an account is shown that account's data
\* only, whatever it asks for.
AccountIsolation ==
  \A c \in Conns, s \in SubIds :
    Live(shown[c], s) => key[c] \in {Nothing, shown[c][s].account}

\* A snapshot labelled with a batch id reflects that batch: the evaluation a
\* commit triggers reads the store behind the commit, also when the mark waited
\* for a throttle, a failure or a lagging receiver.
SnapshotCoversBatch ==
  \A c \in Conns, s \in SubIds :
    Live(shown[c], s) => shown[c][s].upTo >= shown[c][s].batch

\* A delta subscriber has got every batch with deltas for it that was announced
\* since it subscribed, or since it was last told that it lags, and that has
\* left its queue.
DeltasComplete ==
  \A c \in Conns, s \in SubIds : Live(deltaSubs[c], s) /\ ~missed[c] =>
    LET d == deltaSubs[c][s]
    IN  \A i \in d.since + 1 .. announced[d.account] :
          \/ i \in d.got
          \/ d.tables \cap changes[d.account][i].listed = {}
          \/ changes[d.account][i].silent
          \/ \E j \in DOMAIN inbox[c] :
               inbox[c][j].account = d.account /\ inbox[c][j].batch = i

\* The client's view of a subscription lacks an announced change.
Stale(c, s) ==
  /\ Live(querySubs[c], s)
  /\ Live(shown[c], s) => Outdated(querySubs[c][s].account, querySubs[c][s].tables,
                                   shown[c][s].upTo)

\* A stale subscription is not forgotten: as long as it is stale there is
\* something that will refresh it (a change to announce, an announcement to
\* receive, a mark, an evaluation), unless an evaluation was overlooked.
NotForgotten ==
  \A c \in Conns, s \in SubIds : Stale(c, s) /\ overlooked[c][s] # "yes" =>
    LET sub == querySubs[c][s]
    IN  \/ announced[sub.account] < Len(changes[sub.account])
        \/ missed[c] \/ sub.dirty \/ Outstanding(c, s)
        \/ \E j \in DOMAIN inbox[c] : /\ inbox[c][j].account = sub.account
                                      /\ inbox[c][j].tables \cap sub.tables # {}

\* What a live query promises (src/api/ws.rs:28): a subscription is brought up to
\* date again and again, with every announced change to its tables.  It holds
\* unless an evaluation was overlooked...
Refreshed ==
  \A c \in Conns, s \in SubIds : []<>(~Stale(c, s) \/ overlooked[c][s] = "yes")

\* ...and as it stands, it does not: a commit announced while an evaluation
\* runs is forgotten when the evaluation ends.
AlwaysRefreshed == \A c \in Conns, s \in SubIds : []<>~Stale(c, s)

=============================================================================
