------------------------- MODULE AccountManagerProofs -------------------------
(***************************************************************************)
(* The accounts, for any set of them, any configurations, any number of    *)
(* concurrent admin requests and any number of edits, faults and restarts. *)
(*                                                                         *)
(* The limit of max_accounts and the soundness of the reader registry hold *)
(* for any requests.  The other theorems are about actors that take turns  *)
(* at an account (~SameId) and requests that add no account that runs      *)
(* (~Readd); both are needed.  None depends on when aborted writers end.   *)
(*                                                                         *)
(* The argument follows the steps an actor has left: what it works on is   *)
(* touched by nobody else (Turns), so no writer runs that was not asked to *)
(* stop when a successor is opened (WriterInv), and what a pass or a       *)
(* request leaves behind is what the file lists (ForceInv).                *)
(***************************************************************************)
EXTENDS AccountManager, QueueLemmas, FiniteSetTheorems, TLAPS

-----------------------------------------------------------------------------
(* The steps an actor has left.                                            *)

First(todo) == IF todo = <<>> THEN "done" ELSE Head(todo)
Stage(x) == First(job[x].todo)

\* What a request that removes or adds an account, and the reconciler when an
\* account is not or is listed, may have left to do.
SavingRest == {<<>>, <<"mark">>, <<"save", "mark">>, Saving}
Removing == SavingRest \cup {<<"wait">> \o Saving, Stopping \o Saving}
Adding ==
  SavingRest \cup {<<"insert">> \o Saving, <<"open", "insert">> \o Saving, Spawning \o Saving}
Dropping == {<<>>, <<"wait">>, Stopping}
Applying ==
  {<<>>, <<"insert">>, <<"open", "insert">>, Spawning, <<"wait">> \o Spawning,
   Stopping \o Spawning}

Plans(x, cfg) ==
  IF x \in Handlers THEN IF cfg = Nobody THEN Removing ELSE Adding
                    ELSE IF cfg = Nobody THEN Dropping ELSE Applying

\* The steps follow one another.
Follow(x, cfg, step, next) ==
  /\ step = "stop" => next = "wait"
  /\ step = "wait" => next = IF cfg # Nobody THEN "check"
                             ELSE IF x \in Handlers THEN "collect" ELSE "done"
  /\ step = "check" => next = "open"
  /\ step = "open" => next = "insert"
  /\ step = "insert" => next = IF x \in Handlers THEN "collect" ELSE "done"
  /\ step = "collect" => next = "save"
  /\ step = "save" => next = "mark"
  /\ step = "mark" => next = "done"

\* Who takes them, for which accounts.
Takes(x, cfg, step) ==
  /\ cfg = Nobody => step \notin {"check", "open", "insert"}
  /\ cfg # Nobody /\ x \in Handlers => step \notin {"stop", "wait"}
  /\ x \notin Handlers => step \notin {"collect", "save", "mark"}
  /\ step \in Steps \cup {"done"}

LEMMA Sequel ==
  /\ Spawning \in Seq(Steps) /\ Saving \in Seq(Steps) /\ Stopping \in Seq(Steps)
  /\ <<>> \in Seq(Steps) /\ <<"mark">> \in Seq(Steps) /\ <<"save", "mark">> \in Seq(Steps)
  /\ <<"wait">> \in Seq(Steps) /\ <<"insert">> \in Seq(Steps)
  /\ <<"open", "insert">> \in Seq(Steps)
  /\ \A s, r \in Seq(Steps) : s # <<>> =>
       s \o r \in Seq(Steps) /\ s \o r # <<>> /\ Head(s \o r) = Head(s)
       /\ Tail(s \o r) = Tail(s) \o r
  /\ \A r \in Seq(Steps) : <<>> \o r = r
<1>1. Spawning \in Seq(Steps) /\ Saving \in Seq(Steps) /\ Stopping \in Seq(Steps)
  BY DEF Spawning, Saving, Stopping, Steps
<1>2. /\ <<>> \in Seq(Steps) /\ <<"mark">> \in Seq(Steps) /\ <<"save", "mark">> \in Seq(Steps)
      /\ <<"wait">> \in Seq(Steps) /\ <<"insert">> \in Seq(Steps)
      /\ <<"open", "insert">> \in Seq(Steps)
  BY DEF Steps
<1> QED BY <1>1, <1>2, ConcatTail, ConcatEmptySeq

LEMMA SavingSteps ==
  ASSUME NEW t \in SavingRest, NEW x \in Handlers, NEW cfg
  PROVE  /\ t \in Seq(Steps) /\ Takes(x, cfg, First(t))
         /\ t # <<>> => Tail(t) \in SavingRest /\ Follow(x, cfg, First(t), First(Tail(t)))
<1>1. CASE t = <<>>
  BY <1>1, Sequel DEF First, Takes
<1>2. CASE t = <<"mark">>
  <2>1. t # <<>> /\ Head(t) = "mark" /\ Tail(t) = <<>>
    BY <1>2
  <2> QED BY <1>2, <2>1, Sequel DEF First, Takes, Follow, SavingRest, Steps
<1>3. CASE t = <<"save", "mark">>
  <2>1. t # <<>> /\ Head(t) = "save" /\ Tail(t) = <<"mark">> /\ Tail(t) # <<>> /\ Head(Tail(t)) = "mark"
    BY <1>3
  <2> QED BY <1>3, <2>1, Sequel DEF First, Takes, Follow, SavingRest, Steps
<1>4. CASE t = Saving
  <2>1. t # <<>> /\ Head(t) = "collect" /\ Tail(t) = <<"save", "mark">> /\ Tail(t) # <<>>
        /\ Head(Tail(t)) = "save"
    BY <1>4 DEF Saving
  <2> QED BY <1>4, <2>1, Sequel DEF First, Takes, Follow, SavingRest, Steps
<1> QED BY <1>1, <1>2, <1>3, <1>4 DEF SavingRest

\* The sequences in a row that the plans are made of.
LEMMA Heads ==
  ASSUME NEW r \in Seq(Steps)
  PROVE  /\ <<"wait">> \o r \in Seq(Steps) /\ First(<<"wait">> \o r) = "wait"
         /\ <<"wait">> \o r # <<>> /\ Tail(<<"wait">> \o r) = r
         /\ Stopping \o r \in Seq(Steps) /\ First(Stopping \o r) = "stop"
         /\ Stopping \o r # <<>> /\ Tail(Stopping \o r) = <<"wait">> \o r
         /\ <<"insert">> \o r \in Seq(Steps) /\ First(<<"insert">> \o r) = "insert"
         /\ <<"insert">> \o r # <<>> /\ Tail(<<"insert">> \o r) = r
         /\ <<"open", "insert">> \o r \in Seq(Steps) /\ First(<<"open", "insert">> \o r) = "open"
         /\ <<"open", "insert">> \o r # <<>> /\ Tail(<<"open", "insert">> \o r) = <<"insert">> \o r
         /\ Spawning \o r \in Seq(Steps) /\ First(Spawning \o r) = "check"
         /\ Spawning \o r # <<>> /\ Tail(Spawning \o r) = <<"open", "insert">> \o r
<1>1. <<"wait">> # <<>> /\ Head(<<"wait">>) = "wait" /\ Tail(<<"wait">>) = <<>>
  OBVIOUS
<1>2. Stopping # <<>> /\ Head(Stopping) = "stop" /\ Tail(Stopping) = <<"wait">>
  BY DEF Stopping
<1>3. <<"insert">> # <<>> /\ Head(<<"insert">>) = "insert" /\ Tail(<<"insert">>) = <<>>
  OBVIOUS
<1>4. <<"open", "insert">> # <<>> /\ Head(<<"open", "insert">>) = "open"
      /\ Tail(<<"open", "insert">>) = <<"insert">>
  OBVIOUS
<1>5. Spawning # <<>> /\ Head(Spawning) = "check" /\ Tail(Spawning) = <<"open", "insert">>
  BY DEF Spawning
<1>6. <<>> \o r = r
  BY Sequel
<1>7. /\ <<"wait">> \o r \in Seq(Steps) /\ First(<<"wait">> \o r) = "wait"
      /\ <<"wait">> \o r # <<>> /\ Tail(<<"wait">> \o r) = r
  BY <1>1, <1>6, Sequel DEF First
<1>8. /\ Stopping \o r \in Seq(Steps) /\ First(Stopping \o r) = "stop"
      /\ Stopping \o r # <<>> /\ Tail(Stopping \o r) = <<"wait">> \o r
  <2>1. Stopping \in Seq(Steps)
    BY Sequel
  <2>2. /\ Stopping \o r \in Seq(Steps) /\ Stopping \o r # <<>>
        /\ Head(Stopping \o r) = Head(Stopping) /\ Tail(Stopping \o r) = Tail(Stopping) \o r
    BY <1>2, <2>1, ConcatTail
  <2> QED BY <1>2, <2>2 DEF First
<1>9. /\ <<"insert">> \o r \in Seq(Steps) /\ First(<<"insert">> \o r) = "insert"
      /\ <<"insert">> \o r # <<>> /\ Tail(<<"insert">> \o r) = r
  BY <1>3, <1>6, Sequel DEF First
<1>10. /\ <<"open", "insert">> \o r \in Seq(Steps) /\ First(<<"open", "insert">> \o r) = "open"
       /\ <<"open", "insert">> \o r # <<>> /\ Tail(<<"open", "insert">> \o r) = <<"insert">> \o r
  BY <1>4, Sequel DEF First
<1>11. /\ Spawning \o r \in Seq(Steps) /\ First(Spawning \o r) = "check"
       /\ Spawning \o r # <<>> /\ Tail(Spawning \o r) = <<"open", "insert">> \o r
  <2>1. Spawning \in Seq(Steps)
    BY Sequel
  <2>2. /\ Spawning \o r \in Seq(Steps) /\ Spawning \o r # <<>>
        /\ Head(Spawning \o r) = Head(Spawning) /\ Tail(Spawning \o r) = Tail(Spawning) \o r
    BY <1>5, <2>1, ConcatTail
  <2> QED BY <1>5, <2>2 DEF First
<1> QED BY <1>7, <1>8, <1>9, <1>10, <1>11

\* An actor that works off a step keeps to its plan.
LEMMA PlanSteps ==
  ASSUME NEW x, NEW cfg, NEW t \in Plans(x, cfg)
  PROVE  /\ t \in Seq(Steps) /\ Takes(x, cfg, First(t))
         /\ t # <<>> => Tail(t) \in Plans(x, cfg) /\ Follow(x, cfg, First(t), First(Tail(t)))
<1>1. Saving \in SavingRest /\ Saving \in Seq(Steps) /\ First(Saving) = "collect"
  BY Sequel DEF SavingRest, Saving, First
<1>2. Spawning \in Seq(Steps) /\ Spawning # <<>> /\ First(Spawning) = "check"
      /\ Tail(Spawning) = <<"open", "insert">>
  BY Sequel DEF Spawning, First
<1>3. /\ <<"wait">> # <<>> /\ Tail(<<"wait">>) = <<>> /\ First(<<"wait">>) = "wait" /\ First(<<>>) = "done"
      /\ <<"insert">> # <<>> /\ Tail(<<"insert">>) = <<>> /\ First(<<"insert">>) = "insert"
  BY DEF First
<1>4. /\ <<"open", "insert">> # <<>> /\ Tail(<<"open", "insert">>) = <<"insert">>
      /\ First(<<"open", "insert">>) = "open"
  BY DEF First
<1>5. Stopping # <<>> /\ Tail(Stopping) = <<"wait">> /\ First(Stopping) = "stop"
  BY DEF Stopping, First
<1>6. CASE x \in Handlers /\ t \in SavingRest
  BY <1>6, SavingSteps DEF Plans, Removing, Adding
<1>7. CASE x \in Handlers /\ cfg = Nobody /\ t \notin SavingRest
  <2>1. t = <<"wait">> \o Saving \/ t = Stopping \o Saving
    BY <1>7 DEF Plans, Removing
  <2>2. CASE t = <<"wait">> \o Saving
    <3>1. t \in Seq(Steps) /\ First(t) = "wait" /\ Tail(t) = Saving
      BY <1>1, <2>2, Heads
    <3> QED BY <1>1, <1>7, <3>1 DEF Plans, Removing, Takes, Follow, Steps
  <2>3. CASE t = Stopping \o Saving
    <3>1. t \in Seq(Steps) /\ First(t) = "stop" /\ Tail(t) = <<"wait">> \o Saving
      BY <1>1, <2>3, Heads
    <3>2. First(<<"wait">> \o Saving) = "wait"
      BY <1>1, Heads
    <3> QED BY <1>7, <3>1, <3>2 DEF Plans, Removing, Takes, Follow, Steps
  <2> QED BY <2>1, <2>2, <2>3
<1>8. CASE x \in Handlers /\ cfg # Nobody /\ t \notin SavingRest
  <2>1. t = <<"insert">> \o Saving \/ t = <<"open", "insert">> \o Saving \/ t = Spawning \o Saving
    BY <1>8 DEF Plans, Adding
  <2>2. CASE t = <<"insert">> \o Saving
    <3>1. t \in Seq(Steps) /\ First(t) = "insert" /\ Tail(t) = Saving
      BY <1>1, <2>2, Heads
    <3> QED BY <1>1, <1>8, <3>1 DEF Plans, Adding, Takes, Follow, Steps
  <2>3. CASE t = <<"open", "insert">> \o Saving
    <3>1. t \in Seq(Steps) /\ First(t) = "open" /\ Tail(t) = <<"insert">> \o Saving
      BY <1>1, <2>3, Heads
    <3>2. First(<<"insert">> \o Saving) = "insert"
      BY <1>1, Heads
    <3> QED BY <1>8, <3>1, <3>2 DEF Plans, Adding, Takes, Follow, Steps
  <2>4. CASE t = Spawning \o Saving
    <3>1. t \in Seq(Steps) /\ First(t) = "check" /\ Tail(t) = <<"open", "insert">> \o Saving
      BY <1>1, <2>4, Heads
    <3>2. First(<<"open", "insert">> \o Saving) = "open"
      BY <1>1, Heads
    <3> QED BY <1>8, <3>1, <3>2 DEF Plans, Adding, Takes, Follow, Steps
  <2> QED BY <2>1, <2>2, <2>3, <2>4
<1>9. CASE x \notin Handlers /\ cfg = Nobody
  BY <1>3, <1>5, <1>9, Sequel DEF Plans, Dropping, Takes, Follow, Steps
<1>10. CASE x \notin Handlers /\ cfg # Nobody
  <2>1. \/ t \in {<<>>, <<"insert">>, <<"open", "insert">>, Spawning}
        \/ t = <<"wait">> \o Spawning \/ t = Stopping \o Spawning
    BY <1>10 DEF Plans, Applying
  <2>2. CASE t \in {<<>>, <<"insert">>, <<"open", "insert">>, Spawning}
    BY <1>2, <1>3, <1>4, <1>10, <2>2, Sequel DEF Plans, Applying, Takes, Follow, Steps
  <2>3. CASE t = <<"wait">> \o Spawning
    <3>1. t \in Seq(Steps) /\ First(t) = "wait" /\ Tail(t) = Spawning
      BY <1>2, <2>3, Heads
    <3> QED BY <1>2, <1>10, <3>1 DEF Plans, Applying, Takes, Follow, Steps
  <2>4. CASE t = Stopping \o Spawning
    <3>1. t \in Seq(Steps) /\ First(t) = "stop" /\ Tail(t) = <<"wait">> \o Spawning
      BY <1>2, <2>4, Heads
    <3>2. First(<<"wait">> \o Spawning) = "wait"
      BY <1>2, Heads
    <3> QED BY <1>10, <3>1, <3>2 DEF Plans, Applying, Takes, Follow, Steps
  <2> QED BY <2>1, <2>2, <2>3, <2>4
<1> QED BY <1>6, <1>7, <1>8, <1>9, <1>10

-----------------------------------------------------------------------------
(* The jobs and the pass.                                                  *)

\* An actor keeps to its plan, for an account; it starts a writer of an active
\* one only.
JobShape ==
  \A x \in Actors :
    /\ job[x].todo \in Plans(x, job[x].cfg)
    /\ Working(x) => job[x].id \in Ids
    /\ Stage(x) \in {"open", "insert"} => job[x].cfg.active
    /\ Stage(x) = "insert" => job[x].writer # 0

Pending == pass.remove \cup pass.apply

\* The reconciler works for its pass: it adds what is listed, removes what is not.
PassShape ==
  /\ Working(Reconciler) => job[Reconciler].cfg = pass.desired[job[Reconciler].id]
  /\ pass.phase \in {"idle", "read"} => ~Working(Reconciler) /\ Pending = {}
  /\ \A a \in pass.apply : pass.desired[a] # Nobody
  /\ \A a \in pass.remove : pass.desired[a] = Nobody

Base == TypeOK /\ JobShape /\ PassShape

\* Where an actor stands.
LEMMA StageAt ==
  ASSUME TypeOK, JobShape, NEW x \in Actors
  PROVE  /\ \A step \in Steps : At(x, step) <=> Stage(x) = step
         /\ Working(x) <=> Stage(x) # "done"
         /\ Takes(x, job[x].cfg, Stage(x))
         /\ job[x] \in Jobs
<1>1. job[x] \in Jobs
  BY DEF TypeOK
<1>2. job[x].todo \in Plans(x, job[x].cfg)
  BY DEF JobShape
<1>3. job[x].todo \in Seq(Steps) /\ Takes(x, job[x].cfg, Stage(x))
  BY <1>2, PlanSteps DEF Stage
<1>4. Working(x) => Head(job[x].todo) \in Steps
  BY <1>3 DEF Working
<1>5. "done" \notin Steps
  BY DEF Steps
<1> QED BY <1>1, <1>3, <1>4, <1>5 DEF At, Stage, First, Working

\* An actor works off a step.
LEMMA Advance ==
  ASSUME TypeOK, JobShape, NEW x \in Actors, Working(x),
         job'[x].todo = Tail(job[x].todo), job'[x].cfg = job[x].cfg
  PROVE  /\ job'[x].todo \in Plans(x, job'[x].cfg)
         /\ job'[x].todo \in Seq(Steps)
         /\ Follow(x, job[x].cfg, Stage(x), Stage(x)')
<1>1. job[x].todo \in Plans(x, job[x].cfg)
  BY DEF JobShape
<1>2. /\ Tail(job[x].todo) \in Plans(x, job[x].cfg)
      /\ Follow(x, job[x].cfg, First(job[x].todo), First(Tail(job[x].todo)))
  BY <1>1, PlanSteps DEF Working
<1>3. Tail(job[x].todo) \in Seq(Steps)
  BY <1>2, PlanSteps
<1> QED BY <1>2, <1>3 DEF Stage

\* It drops what is left of a start.
LEMMA Dropped ==
  ASSUME NEW x, NEW cfg, cfg # Nobody
  PROVE  /\ NotSpawned(x) \in Plans(x, cfg) /\ NotSpawned(x) \in Seq(Steps)
         /\ First(NotSpawned(x)) = IF x \in Handlers THEN "collect" ELSE "done"
         /\ <<>> \in Plans(x, cfg) /\ <<>> \in Seq(Steps) /\ First(<<>>) = "done"
<1>1. First(<<>>) = "done" /\ First(Saving) = "collect"
  BY DEF First, Saving
<1> QED BY <1>1, Sequel DEF NotSpawned, Plans, Adding, Applying, SavingRest

LEMMA CfgsType ==
  ASSUME TypeOK
  PROVE  Cfgs \in Listings
BY AccountAssumption DEF TypeOK, Cfgs, Listings, Registered, Entries

\* An actor with a job may have its steps replaced, and its notes.
LEMMA JobKept ==
  ASSUME TypeOK, JobShape, NEW x \in Actors, Working(x),
         NEW todo \in Plans(x, job[x].cfg), NEW writer \in Nat, NEW list \in Listings,
         job' = [job EXCEPT ![x] = [job[x] EXCEPT !.todo = todo, !.writer = writer,
                                                  !.list = list]]
  PROVE  /\ job' \in [Actors -> Jobs]
         /\ \A y \in Actors : y # x => job'[y] = job[y]
         /\ job'[x].id = job[x].id /\ job'[x].cfg = job[x].cfg
         /\ job'[x].todo \in Plans(x, job'[x].cfg)
<1>1. job \in [Actors -> Jobs] /\ job[x] \in Jobs
  BY DEF TypeOK
<1>2. todo \in Seq(Steps)
  BY PlanSteps
<1>3. [job[x] EXCEPT !.todo = todo, !.writer = writer, !.list = list] \in Jobs
  BY <1>1, <1>2 DEF Jobs
<1> QED BY <1>1, <1>3 DEF Jobs

\* What a step of an actor does to its job.
LEMMA WorkJob ==
  ASSUME Base, NEW x \in Actors, Work(x)
  PROVE  /\ Working(x) /\ job[x].id \in Ids
         /\ job' \in [Actors -> Jobs]
         /\ \A y \in Actors : y # x => job'[y] = job[y]
         /\ job'[x].id = job[x].id /\ job'[x].cfg = job[x].cfg
         /\ job'[x].todo \in Plans(x, job'[x].cfg)
         /\ UNCHANGED <<pass, raced>>
<1>1. Working(x) /\ job[x].id \in Ids
  <2>1. Working(x)
    BY DEF Work, Stop, Wait, CheckDisabled, CheckLimit, Open, OpenFails, Insert, Collect, Save,
           Mark, At
  <2> QED BY <2>1 DEF Base, JobShape
<1>2. /\ job[x] \in Jobs /\ job \in [Actors -> Jobs]
      /\ job[x].writer \in Nat /\ job[x].list \in Listings
  BY DEF Base, TypeOK, Jobs
<1>3. \A t : [job[x] EXCEPT !.todo = t]
             = [job[x] EXCEPT !.todo = t, !.writer = job[x].writer, !.list = job[x].list]
  BY <1>2 DEF Jobs
<1>4. Tail(job[x].todo) \in Plans(x, job[x].cfg)
  BY <1>1, PlanSteps DEF Base, JobShape, Working
<1>5. UNCHANGED <<pass, raced>>
  BY DEF Work, Stop, Wait, CheckDisabled, CheckLimit, Open, OpenFails, Insert, Collect, Save,
         Mark
<1>6. CASE job' = [job EXCEPT ![x].todo = Tail(@)]
  <2>1. job' = [job EXCEPT ![x] = [job[x] EXCEPT !.todo =
                  Tail(job[x].todo), !.writer = job[x].writer, !.list = job[x].list]]
    BY <1>2, <1>3, <1>6
  <2> QED BY <1>1, <1>2, <1>4, <1>5, <2>1, JobKept DEF Base
<1>7. CASE Open(x)
  <2>1. PICK n \in Nat : n = opened[job[x].id] + 1
    BY <1>1 DEF Base, TypeOK
  <2>2. job' = [job EXCEPT ![x] = [job[x] EXCEPT !.todo =
                  Tail(job[x].todo), !.writer = n, !.list = job[x].list]]
    BY <1>2, <1>3, <1>7, <2>1 DEF Open
  <2> QED BY <1>1, <1>2, <1>4, <1>5, <2>2, JobKept DEF Base
<1>8. CASE Collect(x)
  <2>1. Cfgs \in Listings
    BY CfgsType DEF Base
  <2>2. job' = [job EXCEPT ![x] = [job[x] EXCEPT !.todo =
                  Tail(job[x].todo), !.writer = job[x].writer, !.list = Cfgs]]
    BY <1>2, <1>3, <1>8 DEF Collect
  <2> QED BY <1>1, <1>2, <1>4, <1>5, <2>1, <2>2, JobKept DEF Base
<1>9. ASSUME NEW t \in {NotSpawned(x), <<>>}, job' = [job EXCEPT ![x].todo = t],
             Stage(x) \in {"check", "open"}
      PROVE  /\ job' \in [Actors -> Jobs]
             /\ \A y \in Actors : y # x => job'[y] = job[y]
             /\ job'[x].id = job[x].id /\ job'[x].cfg = job[x].cfg
             /\ job'[x].todo \in Plans(x, job'[x].cfg)
  <2>1. job[x].cfg # Nobody
    BY <1>9, StageAt DEF Base, Takes
  <2>2. t \in Plans(x, job[x].cfg)
    BY <1>9, <2>1, Dropped
  <2>3. job' = [job EXCEPT ![x] = [job[x] EXCEPT !.todo =
                  t, !.writer = job[x].writer, !.list = job[x].list]]
    BY <1>2, <1>3, <1>9
  <2> QED BY <1>1, <1>2, <2>2, <2>3, JobKept DEF Base
<1>10. CASE /\ CheckDisabled(x) \/ CheckLimit(x) \/ OpenFails(x)
            /\ job' # [job EXCEPT ![x].todo = Tail(@)]
  <2>1. Stage(x) \in {"check", "open"}
    BY <1>10, StageAt DEF CheckDisabled, CheckLimit, OpenFails, Base, Steps
  <2>2. \/ job' = [job EXCEPT ![x].todo = NotSpawned(x)]
        \/ job' = [job EXCEPT ![x].todo = <<>>]
    BY <1>10 DEF CheckDisabled, CheckLimit, OpenFails, GivesUp
  <2> QED BY <1>1, <1>5, <1>9, <2>1, <2>2
<1> QED BY <1>6, <1>7, <1>8, <1>10
     DEF Work, Stop, Wait, CheckDisabled, CheckLimit, OpenFails, Insert, Save, Mark

\* What follows a start that was not made.
Skipped(x) == IF x \in Handlers THEN "collect" ELSE "done"

\* The step an actor takes, and the one that follows.
LEMMA WorkStages ==
  ASSUME Base, NEW x \in Actors, Work(x)
  PROVE  \/ Stop(x) /\ Stage(x) = "stop" /\ Stage(x)' = "wait"
         \/ /\ Wait(x) /\ Stage(x) = "wait"
            /\ Stage(x)' = IF job[x].cfg # Nobody THEN "check" ELSE Skipped(x)
         \/ CheckDisabled(x) /\ Stage(x) = "check" /\ Stage(x)' = Skipped(x)
         \/ /\ CheckLimit(x) /\ Stage(x) = "check" /\ Stage(x)' = "open"
            /\ ~(Cardinality(ActiveOthers(job[x].id)) >= MaxAccounts) /\ UNCHANGED states
         \/ CheckLimit(x) /\ Stage(x) = "check" /\ Stage(x)' = "done" /\ GivesUp(x)
         \/ Open(x) /\ Stage(x) = "open" /\ Stage(x)' = "insert"
         \/ OpenFails(x) /\ Stage(x) = "open" /\ Stage(x)' = "done" /\ GivesUp(x)
         \/ Insert(x) /\ Stage(x) = "insert" /\ Stage(x)' = Skipped(x)
         \/ Collect(x) /\ Stage(x) = "collect" /\ Stage(x)' = "save"
         \/ Save(x) /\ Stage(x) = "save" /\ Stage(x)' = "mark"
         \/ Mark(x) /\ Stage(x) = "mark" /\ Stage(x)' = "done"
<1>1. job[x] \in Jobs /\ job \in [Actors -> Jobs] /\ Working(x) /\ job'[x].cfg = job[x].cfg
  BY WorkJob DEF Base, TypeOK
<1>2. \A step \in Steps : At(x, step) => Stage(x) = step
  BY StageAt DEF Base
<1>3. job'[x].todo = Tail(job[x].todo) => Follow(x, job[x].cfg, Stage(x), Stage(x)')
  BY <1>1, Advance DEF Base
<1>4. Takes(x, job[x].cfg, Stage(x))
  BY StageAt DEF Base
<1>5. \A t : job' = [job EXCEPT ![x].todo = t] => job'[x].todo = t
  BY <1>1 DEF Jobs
<1>6. Stage(x) \in {"check", "open"} =>
        /\ job'[x].todo = NotSpawned(x) => Stage(x)' = Skipped(x)
        /\ job'[x].todo = <<>> => Stage(x)' = "done"
  <2>1. First(NotSpawned(x)) = Skipped(x) /\ First(<<>>) = "done"
    BY DEF First, Saving, NotSpawned, Skipped
  <2> QED BY <2>1 DEF Stage
<1>7. CASE Stop(x)
  BY <1>2, <1>3, <1>5, <1>7 DEF Stop, Follow, Steps
<1>8. CASE Wait(x)
  BY <1>2, <1>3, <1>5, <1>8 DEF Wait, Follow, Steps, Skipped
<1>9. CASE CheckDisabled(x)
  BY <1>2, <1>5, <1>6, <1>9 DEF CheckDisabled, Steps
<1>10. CASE CheckLimit(x)
  <2>1. Stage(x) = "check"
    BY <1>2, <1>10 DEF CheckLimit, Steps
  <2>2. CASE Cardinality(ActiveOthers(job[x].id)) >= MaxAccounts
    <3>1. GivesUp(x)
      BY <1>10, <2>2 DEF CheckLimit
    <3>2. Stage(x)' = "done"
      BY <1>5, <1>6, <2>1, <3>1 DEF GivesUp, Skipped
    <3> QED BY <1>10, <2>1, <3>1, <3>2
  <2>3. CASE ~(Cardinality(ActiveOthers(job[x].id)) >= MaxAccounts)
    <3>1. job' = [job EXCEPT ![x].todo = Tail(@)] /\ UNCHANGED states
      BY <1>10, <2>3 DEF CheckLimit
    <3>2. Stage(x)' = "open"
      BY <1>3, <1>5, <2>1, <3>1 DEF Follow
    <3> QED BY <1>10, <2>1, <2>3, <3>1, <3>2
  <2> QED BY <2>2, <2>3
<1>11. CASE Open(x)
  <2>1. job'[x].todo = Tail(job[x].todo) /\ Stage(x) = "open"
    BY <1>1, <1>2, <1>11 DEF Open, Jobs, Steps
  <2> QED BY <1>3, <1>11, <2>1 DEF Follow
<1>12. CASE OpenFails(x)
  <2>1. Stage(x) = "open" /\ GivesUp(x)
    BY <1>2, <1>12 DEF OpenFails, Steps
  <2>2. Stage(x)' = "done"
    BY <1>5, <1>6, <2>1 DEF GivesUp, Skipped
  <2> QED BY <1>12, <2>1, <2>2
<1>13. CASE Insert(x)
  BY <1>2, <1>3, <1>5, <1>13 DEF Insert, Follow, Steps, Skipped
<1>14. CASE Collect(x)
  <2>1. job'[x].todo = Tail(job[x].todo) /\ Stage(x) = "collect"
    BY <1>1, <1>2, <1>14 DEF Collect, Jobs, Steps
  <2> QED BY <1>3, <1>14, <2>1 DEF Follow
<1>15. CASE Save(x)
  BY <1>2, <1>3, <1>5, <1>15 DEF Save, Follow, Steps
<1>16. CASE Mark(x)
  BY <1>2, <1>3, <1>5, <1>16 DEF Mark, Follow, Steps
<1> QED BY <1>7, <1>8, <1>9, <1>10, <1>11, <1>12, <1>13, <1>14, <1>15, <1>16 DEF Work

LEMMA SpawnCfg ==
  ASSUME Base, NEW x \in Actors, Stage(x) \in {"check", "open", "insert"}
  PROVE  job[x].cfg \in Settings /\ job[x].cfg # Nobody
BY StageAt DEF Base, Takes, Jobs

LEMMA InactiveType ==
  ASSUME TypeOK, NEW a \in Ids, NEW cfg \in Settings, NEW status \in {"disabled", "failed"},
         Inactive(a, cfg, status)
  PROVE  states' \in [Ids -> Entries \cup {Nobody}]
<1>1. [cfg |-> cfg, writer |-> 0, status |-> status] \in Entries
  BY DEF Entries
<1> QED BY <1>1 DEF TypeOK, Inactive

LEMMA TypeWork ==
  ASSUME Base, NEW x \in Actors, Work(x)
  PROVE  TypeOK'
<1>1. TypeOK /\ job[x].id \in Ids /\ job' \in [Actors -> Jobs] /\ UNCHANGED <<pass, raced>>
      /\ job[x] \in Jobs
  BY WorkJob DEF Base, TypeOK
<1>2. Settings' = Settings /\ Entries' = Entries /\ Listings' = Listings /\ Jobs' = Jobs
      /\ Passes' = Passes
  BY DEF Settings, Entries, Listings, Jobs, Passes
<1>3. CASE Stop(x)
  <2>1. states' \in [Ids -> Entries \cup {Nobody}] /\ registry' \in [Ids -> Nat]
    BY <1>1, <1>3 DEF Stop, TypeOK
  <2>2. \A w \in writers' : \/ w \in writers
                            \/ \E v \in writers : w = [v EXCEPT !.status = "aborting"]
    BY <1>3 DEF Stop
  <2>3. writers' \subseteq [id : Ids, n : Nat \ {0}, url : {c.url : c \in Configs},
                            status : {"running", "aborting"}]
    BY <1>1, <2>2 DEF TypeOK
  <2> QED BY <1>1, <1>3, <2>1, <2>3 DEF Stop, TypeOK, fileVars, countVars
<1>4. CASE CheckDisabled(x) \/ CheckLimit(x) \/ OpenFails(x)
  <2>1. job[x].cfg \in Settings
    <3>1. Stage(x) \in {"check", "open"}
      BY <1>4, StageAt DEF Base, CheckDisabled, CheckLimit, OpenFails, Steps
    <3> QED BY <3>1, SpawnCfg
  <2>2. \/ Inactive(job[x].id, job[x].cfg, "disabled")
        \/ Inactive(job[x].id, job[x].cfg, "failed")
        \/ UNCHANGED states
    BY <1>4 DEF CheckDisabled, CheckLimit, OpenFails, GivesUp
  <2>3. states' \in [Ids -> Entries \cup {Nobody}]
    BY <1>1, <2>1, <2>2, InactiveType DEF TypeOK
  <2>4. registry' \in [Ids -> Nat] /\ faults' \in 0..MaxFaults
    <3>1. registry' \in {registry, [registry EXCEPT ![job[x].id] = 0]}
      BY <1>4 DEF CheckDisabled, CheckLimit, OpenFails
    <3>2. UNCHANGED faults \/ (faults < MaxFaults /\ faults' = faults + 1)
      BY <1>4 DEF CheckDisabled, CheckLimit, OpenFails, countVars
    <3>3. faults \in 0..MaxFaults /\ registry \in [Ids -> Nat]
      BY <1>1 DEF TypeOK
    <3>4. registry' \in [Ids -> Nat]
      BY <3>1, <3>3
    <3> QED BY <3>2, <3>3, <3>4, AccountAssumption
  <2>5. UNCHANGED <<file, applied, writers, opened, edits, requests>>
    BY <1>4 DEF CheckDisabled, CheckLimit, OpenFails, fileVars, countVars
  <2> QED BY <1>1, <2>3, <2>4, <2>5 DEF TypeOK
<1>5. CASE Open(x)
  <2>1. job[x].cfg \in Settings
    BY <1>5, StageAt, SpawnCfg DEF Base, Open, Steps
  <2>2. PICK n \in Nat \ {0} : n = opened[job[x].id] + 1
    BY <1>1 DEF TypeOK
  <2>3. [id |-> job[x].id, n |-> n, url |-> job[x].cfg.url, status |-> "running"]
          \in [id : Ids, n : Nat \ {0}, url : {c.url : c \in Configs},
               status : {"running", "aborting"}]
    BY <1>1, <2>1 DEF Settings
  <2>4. writers' \subseteq [id : Ids, n : Nat \ {0}, url : {c.url : c \in Configs},
                            status : {"running", "aborting"}]
    BY <1>1, <1>5, <2>2, <2>3 DEF Open, TypeOK
  <2>5. opened' \in [Ids -> Nat] /\ registry' \in [Ids -> Nat]
    BY <1>1, <1>5, <2>2 DEF Open, TypeOK
  <2> QED BY <1>1, <1>5, <2>4, <2>5 DEF Open, TypeOK, fileVars, countVars
<1>6. CASE Insert(x)
  <2>1. job[x].cfg \in Settings
    BY <1>6, StageAt, SpawnCfg DEF Base, Insert, Steps
  <2>2. [cfg |-> job[x].cfg, writer |-> job[x].writer, status |-> "starting"] \in Entries
    BY <1>1, <2>1 DEF Entries, Jobs
  <2>3. states' \in [Ids -> Entries \cup {Nobody}]
    BY <1>1, <1>6, <2>2 DEF Insert, TypeOK
  <2> QED BY <1>1, <1>6, <2>3 DEF Insert, TypeOK, fileVars, countVars
<1>7. CASE Wait(x) \/ Collect(x) \/ Save(x) \/ Mark(x)
  <2>1. {file', applied'} \subseteq Listings \cup {Malformed}
    BY <1>1, <1>7 DEF Wait, Collect, Save, Mark, TypeOK, fileVars, Jobs
  <2>2. UNCHANGED <<states, writers, registry, opened, edits, requests, faults>>
    BY <1>7 DEF Wait, Collect, Save, Mark, runVars, countVars
  <2> QED BY <1>1, <2>1, <2>2 DEF TypeOK
<1> QED BY <1>3, <1>4, <1>5, <1>6, <1>7 DEF Work

\* The jobs and the pass keep their shape while an actor works.
LEMMA ShapeWork ==
  ASSUME Base, NEW x \in Actors, Work(x)
  PROVE  JobShape' /\ PassShape'
<1>1. /\ Working(x) /\ job[x].id \in Ids
      /\ \A y \in Actors : y # x => job'[y] = job[y]
      /\ job'[x].id = job[x].id /\ job'[x].cfg = job[x].cfg
      /\ job'[x].todo \in Plans(x, job'[x].cfg)
      /\ UNCHANGED pass
  BY WorkJob
<1>2. Stage(x)' = "open" => job'[x].cfg.active
  BY <1>1, WorkStages DEF CheckLimit, Skipped
<1>3. Stage(x)' = "insert" => job'[x].cfg.active /\ job'[x].writer # 0
  <2> SUFFICES ASSUME Stage(x)' = "insert"
               PROVE  job'[x].cfg.active /\ job'[x].writer # 0
    OBVIOUS
  <2>1. Open(x) /\ Stage(x) = "open"
    BY WorkStages DEF Skipped
  <2>2. job[x].cfg.active
    BY <2>1 DEF Base, JobShape
  <2>3. job'[x].writer = opened[job[x].id] + 1 /\ opened[job[x].id] \in Nat
    BY <1>1, <2>1 DEF Open, Base, TypeOK, Jobs
  <2> QED BY <1>1, <2>2, <2>3
<1>4. ASSUME NEW y \in Actors
      PROVE  /\ job'[y].todo \in Plans(y, job'[y].cfg)
             /\ Working(y)' => job'[y].id \in Ids
             /\ Stage(y)' \in {"open", "insert"} => job'[y].cfg.active
             /\ Stage(y)' = "insert" => job'[y].writer # 0
  <2>1. CASE y = x
    BY <1>1, <1>2, <1>3, <2>1
  <2>2. CASE y # x
    <3>1. job'[y] = job[y]
      BY <1>1, <2>2
    <3> QED BY <3>1 DEF Base, JobShape, Working, Stage
  <2> QED BY <2>1, <2>2
<1>5. JobShape'
  BY <1>4 DEF JobShape
<1>6. Working(Reconciler)' => /\ Working(Reconciler)
                              /\ job'[Reconciler].id = job[Reconciler].id
                              /\ job'[Reconciler].cfg = job[Reconciler].cfg
  BY <1>1 DEF Working, Actors
<1>7. PassShape'
  BY <1>1, <1>6 DEF Base, PassShape, Pending
<1> QED BY <1>5, <1>7

\* An actor is given a job.
LEMMA Assigned ==
  ASSUME Base, NEW x \in Actors, NEW a \in Ids, NEW cfg \in Settings \cup {Nobody},
         NEW todo \in Plans(x, cfg), First(todo) \notin {"open", "insert"},
         job' = [job EXCEPT ![x] = [NoJob EXCEPT !.id = a, !.cfg = cfg, !.todo = todo]]
  PROVE  /\ job' \in [Actors -> Jobs] /\ JobShape'
         /\ \A y \in Actors : y # x => job'[y] = job[y]
         /\ job'[x].id = a /\ job'[x].cfg = cfg /\ job'[x].todo = todo
<1>1. job \in [Actors -> Jobs]
  BY DEF Base, TypeOK
<1>2. Nothing \in Listings
  BY DEF Nothing, Listings
<1>3. todo \in Seq(Steps)
  BY PlanSteps
<1>4. [NoJob EXCEPT !.id = a, !.cfg = cfg, !.todo = todo] \in Jobs
  BY <1>2, <1>3 DEF NoJob, Jobs
<1>5. /\ job' \in [Actors -> Jobs]
      /\ \A y \in Actors : y # x => job'[y] = job[y]
      /\ job'[x].id = a /\ job'[x].cfg = cfg /\ job'[x].todo = todo
  BY <1>1, <1>4 DEF NoJob
<1>6. Stage(x)' = First(todo)
  BY <1>5 DEF Stage
<1>7. ASSUME NEW y \in Actors
      PROVE  /\ job'[y].todo \in Plans(y, job'[y].cfg)
             /\ Working(y)' => job'[y].id \in Ids
             /\ Stage(y)' \in {"open", "insert"} => job'[y].cfg.active
             /\ Stage(y)' = "insert" => job'[y].writer # 0
  <2>1. CASE y = x
    BY <1>5, <1>6, <2>1
  <2>2. CASE y # x
    <3>1. job'[y] = job[y]
      BY <1>5, <2>2
    <3> QED BY <3>1 DEF Base, JobShape, Working, Stage
  <2> QED BY <2>1, <2>2
<1> QED BY <1>5, <1>6, <1>7 DEF JobShape

\* The jobs there are.
LEMMA Starts ==
  /\ \A x \in Handlers : \A cfg : cfg # Nobody =>
       Spawning \o Saving \in Plans(x, cfg) /\ First(Spawning \o Saving) = "check"
  /\ \A x \in Handlers :
       Stopping \o Saving \in Plans(x, Nobody) /\ First(Stopping \o Saving) = "stop"
  /\ Stopping \in Plans(Reconciler, Nobody) /\ First(Stopping) = "stop"
  /\ \A cfg : cfg # Nobody =>
       /\ Spawning \in Plans(Reconciler, cfg) /\ First(Spawning) = "check"
       /\ Stopping \o Spawning \in Plans(Reconciler, cfg) /\ First(Stopping \o Spawning) = "stop"
<1>1. First(Spawning \o Saving) = "check" /\ First(Stopping \o Saving) = "stop"
  BY Sequel, Heads
<1>2. First(Stopping \o Spawning) = "stop"
  BY Sequel, Heads
<1>3. First(Stopping) = "stop" /\ First(Spawning) = "check"
  BY DEF First, Stopping, Spawning
<1> QED BY <1>1, <1>2, <1>3, AccountAssumption DEF Plans, Removing, Adding, Dropping, Applying

\* What a request starts with.
LEMMA BaseBegin ==
  ASSUME Base, NEW x \in Handlers, NEW a \in Ids,
         (\E cfg \in Configs : AdminAdd(x, a, cfg)) \/ AdminRemove(x, a)
  PROVE  /\ Base'
         /\ \A y \in Actors : y # x => job'[y] = job[y]
         /\ ~Working(x) /\ job'[x].id = a /\ Stage(x)' \in {"check", "stop"}
         /\ UNCHANGED <<fileVars, runVars, pass>>
         /\ AdminRemove(x, a) \/ ((Readd \/ ~HasTasks(a)) /\ Stage(x)' = "check")
         /\ pass.phase # "load" /\ (SameId \/ a \notin Touched) /\ raced' = (raced \/ ~Quiet)
         /\ job'[x].cfg # Nobody => job'[x].cfg.active
<1> DEFINE Request(cfg, todo) ==
             /\ First(todo) \in {"check", "stop"}
             /\ Begin(x, a, cfg, todo)
             /\ AdminRemove(x, a) \/ ((Readd \/ ~HasTasks(a)) /\ First(todo) = "check")
             /\ cfg # Nobody => cfg.active
<1>1. PICK cfg \in Settings \cup {Nobody} : \E todo \in Plans(x, cfg) : Request(cfg, todo)
  <2>1. ASSUME NEW cfg \in Configs, AdminAdd(x, a, cfg)
        PROVE  /\ cfg \in Settings \cup {Nobody} /\ Spawning \o Saving \in Plans(x, cfg)
               /\ Request(cfg, Spawning \o Saving)
    <3>1. cfg \in Settings /\ cfg # Nobody
      BY AccountAssumption
    <3> QED BY <2>1, <3>1, Starts DEF AdminAdd
  <2>2. ASSUME AdminRemove(x, a)
        PROVE  Stopping \o Saving \in Plans(x, Nobody) /\ Request(Nobody, Stopping \o Saving)
    BY <2>2, Starts DEF AdminRemove
  <2> HIDE DEF Request
  <2> QED BY <2>1, <2>2
<1>1a. PICK todo \in Plans(x, cfg) : Request(cfg, todo)
  BY <1>1
<1>2. x \in Actors /\ x # Reconciler
  BY AccountAssumption DEF Actors
<1>3. /\ job' \in [Actors -> Jobs] /\ JobShape'
      /\ \A y \in Actors : y # x => job'[y] = job[y]
      /\ job'[x].id = a /\ job'[x].cfg = cfg /\ job'[x].todo = todo
  BY <1>1a, <1>2, Assigned, ZenonT(30) DEF Begin
<1>3a. Stage(x)' = First(todo)
  BY <1>3 DEF Stage
<1>4. /\ ~Working(x) /\ UNCHANGED <<fileVars, runVars, pass>> /\ requests' \in 0..MaxRequests
      /\ UNCHANGED <<edits, faults>> /\ raced' \in BOOLEAN
      /\ pass.phase # "load" /\ (SameId \/ a \notin Touched) /\ raced' = (raced \/ ~Quiet)
  <2>1. /\ ~Working(x) /\ UNCHANGED <<fileVars, runVars, pass>> /\ UNCHANGED <<edits, faults>>
        /\ pass.phase # "load" /\ (SameId \/ a \notin Touched) /\ raced' = (raced \/ ~Quiet)
        /\ requests < MaxRequests /\ requests' = requests + 1
    BY <1>1a DEF Begin
  <2>2. requests' \in 0..MaxRequests
    BY <2>1, AccountAssumption DEF Base, TypeOK
  <2>3. raced' \in BOOLEAN
    BY <2>1 DEF Base, TypeOK, Quiet
  <2> QED BY <2>1, <2>2, <2>3
<1>5. TypeOK'
  BY <1>3, <1>4 DEF Base, TypeOK, fileVars, runVars, Settings, Entries, Listings, Jobs, Passes
<1>6. job'[Reconciler] = job[Reconciler]
  BY <1>2, <1>3 DEF Actors
<1>7. PassShape'
  BY <1>4, <1>6 DEF Base, PassShape, Working, Pending
<1> QED BY <1>1a, <1>3, <1>3a, <1>4, <1>5, <1>7 DEF Base

\* The constant sets keep their meaning.
LEMMA SetsKept ==
  /\ Settings' = Settings /\ Entries' = Entries /\ Listings' = Listings
  /\ Jobs' = Jobs /\ Passes' = Passes
BY DEF Settings, Entries, Listings, Jobs, Passes

\* The entry of a pass over the file.
LEMMA BasePass ==
  ASSUME Base, ReadFile \/ Plan \/ PassEnds
  PROVE  Base' /\ UNCHANGED <<file, runVars, job>>
<1>1. pass \in Passes /\ NoPass \in Passes
  <2>1. Nothing \in Listings
    BY DEF Nothing, Listings
  <2> QED BY <2>1 DEF Base, TypeOK, NoPass, Passes
<1>2. UNCHANGED <<file, runVars, job, edits, requests, faults>>
  BY DEF ReadFile, Plan, PassEnds, fileVars, countVars
<1>3. JobShape'
  BY <1>2 DEF Base, JobShape, Working, Stage
<1>4. CASE ReadFile
  <2>1. file \in Listings
    BY <1>4 DEF ReadFile, Base, TypeOK
  <2>2. pass' = [NoPass EXCEPT !.phase = "read", !.desired = file] /\ pass.phase = "idle"
        /\ raced' \in BOOLEAN /\ UNCHANGED applied
    BY <1>4 DEF ReadFile, Base, TypeOK, fileVars
  <2>3. pass' \in Passes /\ pass'.phase = "read" /\ pass'.remove = {} /\ pass'.apply = {}
    BY <1>1, <2>1, <2>2 DEF Passes, NoPass
  <2>4. ~Working(Reconciler)'
    BY <1>2, <2>2 DEF Base, PassShape, Working
  <2>5. TypeOK'
    BY <1>2, <2>2, <2>3, SetsKept DEF Base, TypeOK, runVars
  <2>6. PassShape'
    BY <2>3, <2>4 DEF PassShape, Pending
  <2> QED BY <1>2, <1>3, <2>5, <2>6 DEF Base
<1>5. CASE Plan
  <2> DEFINE remove == {a \in Ids : Cfgs[a] # Nobody /\ pass.desired[a] = Nobody}
             apply == {a \in Ids : pass.desired[a] # Nobody /\ pass.desired[a] # Cfgs[a]}
  <2>1. /\ pass' = [pass EXCEPT !.phase = "apply", !.prev = Cfgs, !.remove = remove, !.apply = apply]
        /\ pass.phase = "read" /\ UNCHANGED <<applied, raced>>
    BY <1>5 DEF Plan, fileVars
  <2>2. Cfgs \in Listings
    BY CfgsType DEF Base
  <2>3. pass' \in Passes /\ pass'.phase = "apply" /\ pass'.desired = pass.desired
        /\ pass'.remove = remove /\ pass'.apply = apply
    BY <1>1, <2>1, <2>2 DEF Passes
  <2>4. ~Working(Reconciler)'
    BY <1>2, <2>1 DEF Base, PassShape, Working
  <2>5. TypeOK'
    BY <1>2, <2>1, <2>3, SetsKept DEF Base, TypeOK, runVars
  <2>6. PassShape'
    BY <2>3, <2>4 DEF PassShape
  <2> QED BY <1>2, <1>3, <2>5, <2>6 DEF Base
<1>6. CASE PassEnds
  <2>1. /\ pass' = NoPass /\ applied' = pass.desired /\ UNCHANGED raced /\ ~Working(Reconciler)
    BY <1>6 DEF PassEnds, Passing
  <2>2. pass'.remove = {} /\ pass'.apply = {} /\ pass.desired \in Listings
    BY <1>1, <2>1 DEF NoPass, Passes
  <2>3. TypeOK'
    BY <1>1, <1>2, <2>1, <2>2, SetsKept DEF Base, TypeOK, runVars
  <2>4. PassShape'
    BY <1>2, <2>1, <2>2 DEF PassShape, Pending, Working
  <2> QED BY <1>2, <1>3, <2>3, <2>4 DEF Base
<1> QED BY <1>4, <1>5, <1>6

\* The reconciler takes up an account.
LEMMA BaseTakes ==
  ASSUME Base, NEW a \in Ids, NEW cfg \in Settings \cup {Nobody}, NEW todo \in Plans(Reconciler, cfg),
         First(todo) \in {"check", "stop"}, Passing, cfg = pass.desired[a], Assign(a, todo),
         \/ pass' = [pass EXCEPT !.remove = @ \ {a}]
         \/ pass' = [pass EXCEPT !.apply = @ \ {a}],
         UNCHANGED <<fileVars, runVars, raced, countVars>>
  PROVE  /\ Base'
         /\ \A y \in Actors : y # Reconciler => job'[y] = job[y]
         /\ job'[Reconciler].id = a /\ job'[Reconciler].cfg = cfg
         /\ job'[Reconciler].todo = todo
         /\ pass' \in Passes
         /\ pass'.phase = pass.phase /\ pass'.desired = pass.desired /\ pass'.prev = pass.prev
         /\ pass'.remove \subseteq pass.remove /\ pass'.apply \subseteq pass.apply
<1>1. Reconciler \in Actors /\ pass \in Passes
  BY DEF Actors, Base, TypeOK
<1>2. /\ job' \in [Actors -> Jobs] /\ JobShape'
      /\ \A y \in Actors : y # Reconciler => job'[y] = job[y]
      /\ job'[Reconciler].id = a /\ job'[Reconciler].cfg = cfg /\ job'[Reconciler].todo = todo
  <2>1. PICK x \in Actors : x = Reconciler
    BY <1>1
  <2>2. job' = [job EXCEPT ![x] = [NoJob EXCEPT !.id = a, !.cfg = cfg, !.todo = todo]]
    BY <2>1 DEF Assign
  <2>3. First(todo) \notin {"open", "insert"} /\ todo \in Plans(x, cfg)
    BY <2>1
  <2>4. /\ job' \in [Actors -> Jobs] /\ JobShape'
        /\ \A y \in Actors : y # x => job'[y] = job[y]
        /\ job'[x].id = a /\ job'[x].cfg = cfg /\ job'[x].todo = todo
    BY <2>2, <2>3, Assigned, ZenonT(30)
  <2> QED BY <2>1, <2>4
<1>3. /\ pass' \in Passes
      /\ pass'.phase = pass.phase /\ pass'.desired = pass.desired /\ pass'.prev = pass.prev
      /\ pass'.remove \subseteq pass.remove /\ pass'.apply \subseteq pass.apply
  <2>1. pass.remove \in SUBSET Ids /\ pass.apply \in SUBSET Ids
    BY <1>1 DEF Passes
  <2>2. CASE pass' = [pass EXCEPT !.remove = @ \ {a}]
    BY <1>1, <2>1, <2>2 DEF Passes
  <2>3. CASE pass' = [pass EXCEPT !.apply = @ \ {a}]
    BY <1>1, <2>1, <2>3 DEF Passes
  <2> QED BY <2>2, <2>3
<1>4. pass.phase \in {"load", "apply"}
  BY DEF Passing
<1>5. PassShape'
  BY <1>2, <1>3, <1>4 DEF Base, PassShape, Pending
<1>6. TypeOK'
  BY <1>2, <1>3, SetsKept DEF Base, TypeOK, fileVars, runVars, countVars
<1> QED BY <1>2, <1>3, <1>5, <1>6 DEF Base

LEMMA BasePassRemove ==
  ASSUME Base, NEW a \in Ids, PassRemove(a)
  PROVE  /\ Base' /\ a \in pass.remove /\ Passing
         /\ \A y \in Actors : y # Reconciler => job'[y] = job[y]
         /\ job'[Reconciler].id = a /\ job'[Reconciler].cfg = Nobody
         /\ First(job'[Reconciler].todo) = "stop"
         /\ pass' = [pass EXCEPT !.remove = @ \ {a}] /\ pass' \in Passes
         /\ UNCHANGED <<fileVars, runVars, raced>>
<1>1. /\ Passing /\ a \in pass.remove /\ pass' = [pass EXCEPT !.remove = @ \ {a}]
      /\ Assign(a, Stopping) /\ UNCHANGED <<fileVars, runVars, raced, countVars>>
  BY DEF PassRemove
<1>2. pass.desired[a] = Nobody
  BY <1>1 DEF Base, PassShape
<1>3. Stopping \in Plans(Reconciler, Nobody) /\ First(Stopping) = "stop"
  BY Starts
<1>4. /\ Base'
      /\ \A y \in Actors : y # Reconciler => job'[y] = job[y]
      /\ job'[Reconciler].id = a /\ job'[Reconciler].cfg = Nobody
      /\ First(job'[Reconciler].todo) = "stop" /\ pass' \in Passes
  BY <1>1, <1>2, <1>3, BaseTakes
<1> QED BY <1>1, <1>4

\* A renamed account keeps everything else.
LEMMA Renamed ==
  ASSUME TypeOK, NEW a \in Ids, NEW new \in Settings, Registered(a),
         states' = [states EXCEPT ![a].cfg.key = new.key]
  PROVE  /\ states' \in [Ids -> Entries \cup {Nobody}]
         /\ \A b \in Ids : b # a => states'[b] = states[b]
         /\ states'[a] \in Entries /\ states'[a] # Nobody
         /\ states'[a].writer = states[a].writer /\ states'[a].status = states[a].status
         /\ states'[a].cfg = [states[a].cfg EXCEPT !.key = new.key]
<1>1. states \in [Ids -> Entries \cup {Nobody}] /\ states[a] \in Entries
  BY DEF TypeOK, Registered
<1>2. states[a].cfg \in Settings
  BY <1>1 DEF Entries
<1>3. [states[a].cfg EXCEPT !.key = new.key] \in Settings
  BY <1>2 DEF Settings
<1>4. PICK cfg \in Settings : cfg = [states[a].cfg EXCEPT !.key = new.key]
  BY <1>3
<1>5. states' = [states EXCEPT ![a] = [states[a] EXCEPT !.cfg = cfg]]
  BY <1>1, <1>4
<1>6. [states[a] EXCEPT !.cfg = cfg] \in Entries
  BY <1>1, <1>4 DEF Entries
<1>7. states' \in [Ids -> Entries \cup {Nobody}] /\ \A b \in Ids : b # a => states'[b] = states[b]
  BY <1>1, <1>5, <1>6
<1>8. states'[a] = [states[a] EXCEPT !.cfg = cfg]
  BY <1>1, <1>5
<1> QED BY <1>1, <1>4, <1>6, <1>7, <1>8, AccountAssumption DEF Entries

LEMMA BasePassApply ==
  ASSUME Base, NEW a \in Ids, PassApply(a)
  PROVE  /\ Base' /\ a \in pass.apply /\ Passing /\ pass.remove = {}
         /\ pass.desired[a] \in Settings /\ pass.desired[a] # Nobody
         /\ \A y \in Actors : y # Reconciler => job'[y] = job[y]
         /\ \/ /\ job'[Reconciler].id = a /\ job'[Reconciler].cfg = pass.desired[a]
               /\ First(job'[Reconciler].todo) =
                    IF pass.prev[a] = Nobody THEN "check" ELSE "stop"
               /\ UNCHANGED states
            \/ /\ pass.prev[a] # Nobody /\ ~ConfigChanged(pass.prev[a], pass.desired[a])
               /\ states' = IF Registered(a)
                            THEN [states EXCEPT ![a].cfg.key = pass.desired[a].key] ELSE states
               /\ UNCHANGED job
         /\ pass' = [pass EXCEPT !.apply = @ \ {a}] /\ pass' \in Passes
         /\ UNCHANGED <<fileVars, writers, registry, opened, raced>>
<1>1. /\ Passing /\ pass.remove = {} /\ a \in pass.apply
      /\ pass' = [pass EXCEPT !.apply = @ \ {a}]
      /\ UNCHANGED <<fileVars, writers, registry, opened, raced, countVars>>
  BY DEF PassApply
<1>2. /\ pass \in Passes /\ pass' \in Passes
      /\ pass'.phase = pass.phase /\ pass'.desired = pass.desired /\ pass'.remove = pass.remove
      /\ pass'.apply \subseteq pass.apply
  BY <1>1 DEF Base, TypeOK, Passes
<1>3. pass.desired[a] # Nobody
  BY <1>1 DEF Base, PassShape
<1>4. pass.desired[a] \in Settings
  BY <1>2, <1>3 DEF Passes, Listings
<1>5. ASSUME NEW todo \in Plans(Reconciler, pass.desired[a]), First(todo) \in {"check", "stop"},
             Assign(a, todo), UNCHANGED states
      PROVE  /\ Base'
             /\ \A y \in Actors : y # Reconciler => job'[y] = job[y]
             /\ job'[Reconciler].id = a /\ job'[Reconciler].cfg = pass.desired[a]
             /\ job'[Reconciler].todo = todo
  <2>1. UNCHANGED <<fileVars, runVars, raced, countVars>>
    BY <1>1, <1>5 DEF runVars
  <2>2. PICK cfg \in Settings \cup {Nobody} : cfg = pass.desired[a]
    BY <1>4
  <2> QED BY <1>1, <1>5, <2>1, <2>2, BaseTakes
<1>6. /\ Spawning \in Plans(Reconciler, pass.desired[a]) /\ First(Spawning) = "check"
      /\ Stopping \o Spawning \in Plans(Reconciler, pass.desired[a])
      /\ First(Stopping \o Spawning) = "stop"
  BY <1>3, Starts
<1>7. CASE pass.prev[a] = Nobody /\ Assign(a, Spawning) /\ UNCHANGED states
  BY <1>1, <1>2, <1>3, <1>4, <1>5, <1>6, <1>7
<1>8. CASE pass.prev[a] # Nobody /\ Assign(a, Stopping \o Spawning) /\ UNCHANGED states
  BY <1>1, <1>2, <1>3, <1>4, <1>5, <1>6, <1>8
<1>9. CASE /\ pass.prev[a] # Nobody /\ ~ConfigChanged(pass.prev[a], pass.desired[a])
           /\ states' = IF Registered(a)
                        THEN [states EXCEPT ![a].cfg.key = pass.desired[a].key] ELSE states
           /\ UNCHANGED job
  <2>1. states' \in [Ids -> Entries \cup {Nobody}]
    BY <1>4, <1>9, Renamed DEF Base, TypeOK
  <2>2. TypeOK'
    BY <1>1, <1>2, <1>9, <2>1, SetsKept DEF Base, TypeOK, fileVars, countVars
  <2>3. JobShape'
    BY <1>9 DEF Base, JobShape, Working, Stage
  <2>4. PassShape'
    BY <1>1, <1>2, <1>9 DEF Base, PassShape, Passing, Pending, Working
  <2> QED BY <1>1, <1>2, <1>3, <1>4, <1>9, <2>2, <2>3, <2>4 DEF Base
<1> QED BY <1>7, <1>8, <1>9 DEF PassApply

\* The writers that end, and the operator's edits.
LEMMA BaseEnds ==
  ASSUME Base, NEW w \in writers, AbortLands(w) \/ Halt(w)
  PROVE  /\ Base' /\ Ends(w)
         /\ UNCHANGED <<fileVars, states, opened, pass, job, raced>>
<1>1. /\ Ends(w) /\ UNCHANGED <<fileVars, states, opened, pass, job, raced, edits, requests>>
      /\ faults' \in 0..MaxFaults
  BY AccountAssumption DEF AbortLands, Halt, countVars, Base, TypeOK
<1>2. w.id \in Ids /\ writers' \subseteq writers /\ registry' \in [Ids -> Nat]
  BY <1>1 DEF Ends, Base, TypeOK
<1>3. TypeOK'
  BY <1>1, <1>2, SetsKept DEF Base, TypeOK, fileVars
<1>4. JobShape' /\ PassShape'
  BY <1>1 DEF Base, JobShape, PassShape, Working, Stage, Pending
<1> QED BY <1>1, <1>3, <1>4 DEF Base

LEMMA BaseEdit ==
  ASSUME Base, EditFile
  PROVE  Base' /\ UNCHANGED <<applied, runVars, pass, job, raced>>
<1>1. UNCHANGED <<applied, runVars, pass, job, raced, requests, faults>>
      /\ edits' \in 0..MaxEdits
  BY AccountAssumption DEF EditFile, Base, TypeOK
<1>2. Listing \subseteq Listings
  BY AccountAssumption DEF Listing, Listings
<1>3. TypeOK'
  BY <1>1, <1>2, SetsKept DEF EditFile, Base, TypeOK, runVars
<1>4. JobShape' /\ PassShape'
  BY <1>1 DEF Base, JobShape, PassShape, Working, Stage, Pending
<1> QED BY <1>1, <1>3, <1>4 DEF Base

\* The daemon starts: nothing runs, and what the file lists is to be started.
Starting ==
  /\ applied = file
  /\ states = Nothing
  /\ writers = {}
  /\ registry = [a \in Ids |-> 0]
  /\ opened = [a \in Ids |-> 0]
  /\ pass = Loading(file)
  /\ job = [x \in Actors |-> NoJob]
  /\ raced = FALSE

LEMMA BaseStarts ==
  ASSUME Starting, file \in Listings \cup {Malformed},
         edits \in 0..MaxEdits, requests \in 0..MaxRequests, faults \in 0..MaxFaults
  PROVE  /\ Base /\ \A x \in Actors : ~Working(x) /\ Stage(x) = "done"
         /\ pass.remove = {} /\ pass.phase \in {"idle", "load"}
         /\ pass.phase = "idle" => file = Malformed
         /\ pass.phase = "load" => /\ pass.apply = {a \in Ids : pass.desired[a] # Nobody}
                                   /\ pass.prev = Nothing
         /\ pass.phase = "idle" => Pending = {}
<1>1. Nothing \in Listings /\ NoJob \in Jobs /\ NoPass \in Passes
  BY Sequel DEF Nothing, Listings, NoJob, Jobs, NoPass, Passes
<1>2. /\ pass \in Passes /\ pass.remove = {}
      /\ \/ pass.phase = "idle" /\ pass.apply = {} /\ file = Malformed
         \/ /\ pass.phase = "load" /\ pass.apply = {a \in Ids : pass.desired[a] # Nobody}
            /\ pass.prev = Nothing
  <2>1. CASE file = Malformed
    BY <1>1, <2>1 DEF Starting, Loading, NoPass
  <2>2. CASE file # Malformed
    <3>1. pass = [NoPass EXCEPT !.phase = "load", !.desired = file,
                                !.apply = {a \in Ids : file[a] # Nobody}]
      BY <2>2 DEF Starting, Loading
    <3> QED BY <1>1, <2>2, <3>1 DEF NoPass, Passes
  <2> QED BY <2>1, <2>2
<1>3. states \in [Ids -> Entries \cup {Nobody}] /\ registry \in [Ids -> Nat] /\ opened \in [Ids -> Nat]
  BY DEF Starting, Nothing
<1>4. job \in [Actors -> Jobs] /\ \A x \in Actors : job[x] = NoJob
  BY <1>1 DEF Starting
<1>5. TypeOK
  BY <1>2, <1>3, <1>4 DEF Starting, TypeOK
<1>6. \A x \in Actors : ~Working(x) /\ Stage(x) = "done"
  BY <1>4 DEF Working, Stage, First, NoJob
<1>7. \A x \in Actors : job[x].todo \in Plans(x, job[x].cfg)
  BY <1>4 DEF NoJob, Plans, Removing, SavingRest, Dropping
<1>8. JobShape
  BY <1>6, <1>7 DEF JobShape
<1>9. Reconciler \in Actors
  BY DEF Actors
<1>10. PassShape
  BY <1>2, <1>6, <1>9 DEF PassShape, Pending
<1> QED BY <1>2, <1>5, <1>6, <1>8, <1>10 DEF Base, Pending

LEMMA InitStarts ==
  ASSUME Init
  PROVE  Starting /\ file \in Listings \cup {Malformed}
         /\ edits \in 0..MaxEdits /\ requests \in 0..MaxRequests /\ faults \in 0..MaxFaults
BY AccountAssumption DEF Init, Starting, Listing, Listings

LEMMA RestartStarts ==
  ASSUME Base, Restart
  PROVE  /\ Starting' /\ (file \in Listings \cup {Malformed})'
         /\ (edits \in 0..MaxEdits /\ requests \in 0..MaxRequests /\ faults \in 0..MaxFaults)'
<1>1. UNCHANGED file /\ edits' \in 0..MaxEdits /\ requests' \in 0..MaxRequests
      /\ faults' \in 0..MaxFaults
  BY AccountAssumption DEF Restart, Base, TypeOK
<1>2. Nothing' = Nothing /\ NoJob' = NoJob /\ Loading(file)' = Loading(file)
      /\ Actors' = Actors
  BY <1>1 DEF Nothing, NoJob, Loading, NoPass, Actors
<1> QED BY <1>1, <1>2, SetsKept DEF Restart, Starting, Base, TypeOK

LEMMA BaseNext ==
  ASSUME Base, [Next]_vars
  PROVE  Base'
<1>1. CASE \E x \in Actors : Work(x)
  BY <1>1, TypeWork, ShapeWork DEF Base
<1>2. CASE Reconcile
  BY <1>2, BasePass, BasePassRemove, BasePassApply DEF Reconcile
<1>3. CASE \E x \in Handlers, a \in Ids :
             (\E cfg \in Configs : AdminAdd(x, a, cfg)) \/ AdminRemove(x, a)
  BY <1>3, BaseBegin
<1>4. CASE \E w \in writers : AbortLands(w) \/ Halt(w)
  BY <1>4, BaseEnds
<1>5. CASE EditFile
  BY <1>5, BaseEdit
<1>6. CASE Restart
  BY <1>6, RestartStarts, BaseStarts, PTL
<1>7. CASE UNCHANGED vars
  <2>1. /\ UNCHANGED <<file, applied, states, writers, registry, opened, pass, job, raced>>
        /\ UNCHANGED <<edits, requests, faults>>
    BY <1>7 DEF vars, fileVars, runVars, countVars
  <2> QED BY <2>1, SetsKept DEF Base, TypeOK, JobShape, PassShape, Working, Stage, Pending
<1> QED BY <1>1, <1>2, <1>3, <1>4, <1>5, <1>6, <1>7 DEF Next

LEMMA BaseInit == Init => Base
BY InitStarts, BaseStarts

\* Type correctness: the configurations, the numbers of the writers and the
\* steps left are of their types, whatever the requests and the file.
THEOREM TypeCorrect == Spec => []TypeOK
<1>1. Base => TypeOK
  BY DEF Base
<1> QED BY <1>1, BaseInit, BaseNext, PTL DEF Spec

-----------------------------------------------------------------------------
(* The limit.                                                              *)

\* As long as actors do not overlap, one works at a time, and no request while
\* a pass goes on.
Alone ==
  ~raced => /\ \A x, y \in Actors : Working(x) /\ Working(y) => x = y
            /\ \A x \in Handlers : Working(x) => pass.phase = "idle"

LEMMA AloneNext ==
  ASSUME Base, Alone, [Next]_vars
  PROVE  Alone'
<1>1. CASE \E x \in Actors : Work(x)
  <2>1. PICK x \in Actors : Work(x)
    BY <1>1
  <2>2. \A y \in Actors : Working(y)' => Working(y)
    BY <2>1, WorkJob DEF Working
  <2>3. UNCHANGED <<pass, raced>>
    BY <2>1, WorkJob
  <2> QED BY <2>2, <2>3 DEF Alone, Actors
<1>2. CASE ReadFile \/ Plan \/ PassEnds
  <2>1. UNCHANGED job
    BY <1>2, BasePass
  <2>2. CASE ReadFile
    <3>1. ~raced' => ~raced /\ \A x \in Handlers : ~Working(x)
      BY <2>2 DEF ReadFile, Base, TypeOK
    <3> QED BY <2>1, <3>1 DEF Alone, Working
  <2>3. CASE Plan \/ PassEnds
    <3>1. UNCHANGED raced /\ pass.phase # "idle"
      BY <2>3 DEF Plan, PassEnds, Passing
    <3> QED BY <2>1, <3>1 DEF Alone, Working
  <2> QED BY <1>2, <2>2, <2>3
<1>3. CASE \E a \in Ids : PassRemove(a) \/ PassApply(a)
  <2>1. /\ Passing /\ UNCHANGED raced
        /\ \A y \in Actors : y # Reconciler => job'[y] = job[y]
    BY <1>3, BasePassRemove, BasePassApply
  <2>2. ~raced => \A x \in Handlers : ~Working(x)
    BY <2>1 DEF Alone, Passing
  <2>3. ~raced => \A x \in Actors : Working(x)' => x = Reconciler
    BY <2>1, <2>2 DEF Working, Actors
  <2> QED BY <2>1, <2>3, AccountAssumption DEF Alone, Actors
<1>4. CASE \E x \in Handlers, a \in Ids :
             (\E cfg \in Configs : AdminAdd(x, a, cfg)) \/ AdminRemove(x, a)
  <2>1. PICK x \in Handlers, a \in Ids :
             (\E cfg \in Configs : AdminAdd(x, a, cfg)) \/ AdminRemove(x, a)
    BY <1>4
  <2>2. /\ \A y \in Actors : y # x => job'[y] = job[y]
        /\ UNCHANGED pass /\ raced' = (raced \/ ~Quiet)
    BY <2>1, BaseBegin
  <2>3. ~raced' => pass.phase = "idle" /\ \A y \in Actors : ~Working(y)
    BY <2>2 DEF Quiet, Base, TypeOK
  <2>4. ~raced' => \A y \in Actors : Working(y)' => y = x
    BY <2>2, <2>3 DEF Working
  <2> QED BY <2>2, <2>3, <2>4 DEF Alone
<1>5. CASE (\E w \in writers : AbortLands(w) \/ Halt(w)) \/ EditFile \/ UNCHANGED vars
  <2>1. UNCHANGED <<pass, job, raced>>
    BY <1>5, BaseEnds, BaseEdit DEF vars
  <2> QED BY <2>1 DEF Alone, Working
<1>6. CASE Restart
  <2>1. \A x \in Actors : ~Working(x)'
    BY <1>6 DEF Restart, Working, NoJob
  <2> QED BY <2>1 DEF Alone, Actors
<1> QED BY <1>1, <1>2, <1>3, <1>4, <1>5, <1>6 DEF Next, Reconcile

Running == {a \in Ids : HasTasks(a)}

\* Whoever is about to register a running account has left room for it.
Room ==
  /\ IsFiniteSet(Running) /\ Cardinality(Running) <= MaxAccounts
  /\ \A x \in Actors : Stage(x) \in {"open", "insert"} =>
       Cardinality(ActiveOthers(job[x].id)) < MaxAccounts

Limit == ~raced => Room

\* Most steps start no account.
LEMMA RoomKept ==
  ASSUME Room, Running' \subseteq Running,
         \A x \in Actors : Stage(x)' \in {"open", "insert"} =>
           Stage(x) \in {"open", "insert"} /\ job'[x].id = job[x].id /\ UNCHANGED states
  PROVE  Room'
<1>1. IsFiniteSet(Running') /\ Cardinality(Running') <= MaxAccounts
  <2>1. /\ IsFiniteSet(Running')
        /\ Cardinality(Running') <= Cardinality(Running)
    BY FS_Subset DEF Room
  <2>2. Cardinality(Running) \in Nat /\ Cardinality(Running') \in Nat
    BY <2>1, FS_CardinalityType DEF Room
  <2> QED BY <2>1, <2>2, AccountAssumption DEF Room
<1>2. ASSUME NEW x \in Actors, Stage(x)' \in {"open", "insert"}
      PROVE  (Cardinality(ActiveOthers(job[x].id)) < MaxAccounts)'
  <2>1. Stage(x) \in {"open", "insert"} /\ job'[x].id = job[x].id /\ UNCHANGED states
    BY <1>2
  <2>2. ActiveOthers(job[x].id)' = ActiveOthers(job[x].id)
    BY <2>1 DEF ActiveOthers, HasTasks, Registered
  <2>3. Cardinality(ActiveOthers(job[x].id)) < MaxAccounts
    BY <2>1 DEF Room
  <2> QED BY <2>2, <2>3
<1> QED BY <1>1, <1>2 DEF Room

LEMMA LimitWork ==
  ASSUME Base, Alone, Limit, NEW x \in Actors, Work(x)
  PROVE  Limit'
<1> SUFFICES ASSUME ~raced
             PROVE  Room'
  BY WorkJob DEF Limit
<1>1. Room
  BY DEF Limit
<1>2. /\ Working(x) /\ job[x].id \in Ids /\ job'[x].id = job[x].id
      /\ \A y \in Actors : y # x => job'[y] = job[y] /\ ~Working(y)
  BY WorkJob DEF Alone
<1>3. \A y \in Actors : y # x => Stage(y)' = "done"
  BY <1>2 DEF Stage, First, Working
<1>4. states \in [Ids -> Entries \cup {Nobody}]
  BY DEF Base, TypeOK
<1>5. ASSUME Stage(x)' \notin {"open", "insert"}, Running' \subseteq Running
      PROVE  Room'
  BY <1>1, <1>3, <1>5, RoomKept
<1>6. ASSUME Stop(x) \/ CheckDisabled(x) \/ GivesUp(x)
      PROVE  Running' \subseteq Running
  BY <1>2, <1>4, <1>6 DEF Stop, CheckDisabled, GivesUp, Inactive, Running, HasTasks, Registered
<1>7. ASSUME UNCHANGED states
      PROVE  Running' \subseteq Running
  BY <1>7 DEF Running, HasTasks, Registered
<1>8. CASE CheckLimit(x) /\ Stage(x)' = "open"
  <2>1. ~(Cardinality(ActiveOthers(job[x].id)) >= MaxAccounts) /\ UNCHANGED states
    BY <1>8, WorkStages DEF Skipped, Stop, CheckDisabled, Open, OpenFails, Insert, Wait
  <2>2. ActiveOthers(job[x].id) \subseteq Running
    BY DEF ActiveOthers, Running
  <2>3. Cardinality(ActiveOthers(job[x].id)) \in Nat
    BY <1>1, <2>2, FS_Subset, FS_CardinalityType DEF Room
  <2>4. Cardinality(ActiveOthers(job[x].id)) < MaxAccounts
    BY <2>1, <2>3, AccountAssumption
  <2>5. Running' = Running /\ ActiveOthers(job[x].id)' = ActiveOthers(job[x].id)
    BY <1>2, <2>1 DEF Running, ActiveOthers, HasTasks, Registered
  <2> QED BY <1>1, <1>3, <2>4, <2>5 DEF Room
<1>9. CASE Open(x)
  <2>1. Stage(x) = "open" /\ UNCHANGED states
    BY <1>9, StageAt DEF Open, Base, Steps
  <2> QED BY <1>1, <1>2, <1>3, <1>7, <2>1, RoomKept
<1>10. CASE Insert(x)
  <2>1. Stage(x) = "insert" /\ Stage(x)' \notin {"open", "insert"}
    BY <1>10, WorkStages, StageAt DEF Insert, Base, Steps, Skipped
  <2>2. Running' \subseteq ActiveOthers(job[x].id) \cup {job[x].id}
    BY <1>2, <1>4, <1>10 DEF Insert, Running, ActiveOthers, HasTasks, Registered
  <2>3. ActiveOthers(job[x].id) \subseteq Running
    BY DEF ActiveOthers, Running
  <2>4. IsFiniteSet(ActiveOthers(job[x].id)) /\ Cardinality(ActiveOthers(job[x].id)) \in Nat
        /\ Cardinality(ActiveOthers(job[x].id)) < MaxAccounts
    BY <1>1, <2>1, <2>3, FS_Subset, FS_CardinalityType DEF Room
  <2>5. /\ IsFiniteSet(ActiveOthers(job[x].id) \cup {job[x].id})
        /\ Cardinality(ActiveOthers(job[x].id) \cup {job[x].id}) \in Nat
        /\ Cardinality(ActiveOthers(job[x].id) \cup {job[x].id}) <= MaxAccounts
    <3>1. job[x].id \notin ActiveOthers(job[x].id)
      BY DEF ActiveOthers
    <3>2. PICK S : S = ActiveOthers(job[x].id)
      OBVIOUS
    <3>3. IsFiniteSet(S \cup {job[x].id}) /\ Cardinality(S \cup {job[x].id}) = Cardinality(S) + 1
      BY <2>4, <3>1, <3>2, FS_AddElement
    <3> QED BY <2>4, <3>2, <3>3, AccountAssumption
  <2>6. IsFiniteSet(Running') /\ Cardinality(Running') \in Nat
        /\ Cardinality(Running') <= Cardinality(ActiveOthers(job[x].id) \cup {job[x].id})
    BY <2>2, <2>5, FS_Subset, FS_CardinalityType
  <2>7. Cardinality(Running') <= MaxAccounts
    BY <2>5, <2>6, AccountAssumption
  <2> QED BY <1>3, <2>1, <2>6, <2>7 DEF Room
<1>11. CASE Wait(x) \/ Collect(x) \/ Save(x) \/ Mark(x)
  <2>1. UNCHANGED states
    BY <1>11 DEF Wait, Collect, Save, Mark, runVars
  <2>2. Stage(x)' \notin {"open", "insert"}
    BY <1>11, WorkStages, StageAt DEF Base, Steps, Wait, Collect, Save, Mark, Skipped
  <2> QED BY <1>5, <1>7, <2>1, <2>2
<1> QED BY <1>5, <1>6, <1>8, <1>9, <1>10, <1>11, WorkStages DEF Skipped

LEMMA LimitNext ==
  ASSUME Base, Alone, Limit, [Next]_vars
  PROVE  Limit'
<1>1. ASSUME UNCHANGED <<states, raced>>,
             \A x \in Actors : Stage(x)' \in {"open", "insert"} => job'[x] = job[x]
      PROVE  Limit'
  <2>1. Running' \subseteq Running
    BY <1>1 DEF Running, HasTasks, Registered
  <2>2. \A x \in Actors : Stage(x)' \in {"open", "insert"} =>
           Stage(x) \in {"open", "insert"} /\ job'[x].id = job[x].id /\ UNCHANGED states
    BY <1>1 DEF Stage
  <2> QED BY <1>1, <2>1, <2>2, RoomKept DEF Limit
<1>2. CASE \E x \in Actors : Work(x)
  BY <1>2, LimitWork
<1>3. CASE ReadFile \/ Plan \/ PassEnds
  <2>1. UNCHANGED <<states, job>>
    BY <1>3, BasePass DEF runVars
  <2>1a. ~raced' => ~raced
    BY <1>3 DEF ReadFile, Plan, PassEnds, Base, TypeOK
  <2>2. Running' \subseteq Running
    BY <2>1 DEF Running, HasTasks, Registered
  <2>3. \A x \in Actors : Stage(x)' = Stage(x) /\ job'[x].id = job[x].id
    BY <2>1 DEF Stage
  <2> QED BY <2>1, <2>1a, <2>2, <2>3, RoomKept DEF Limit
<1>4. CASE \E a \in Ids : PassRemove(a) \/ PassApply(a)
  <2> SUFFICES ASSUME ~raced, Room
               PROVE  Room'
    BY <1>4, BasePassRemove, BasePassApply DEF Limit
  <2>1. PICK a \in Ids : PassRemove(a) \/ PassApply(a)
    BY <1>4
  <2>2. /\ Passing /\ states \in [Ids -> Entries \cup {Nobody}]
        /\ \A y \in Actors : y # Reconciler => job'[y] = job[y]
        /\ First(job'[Reconciler].todo) \in {"check", "stop"} \/ UNCHANGED job
    BY <2>1, BasePassRemove, BasePassApply DEF Base, TypeOK
  <2>3. \A x \in Actors : ~Working(x)
    BY <2>2 DEF Alone, Passing, Actors
  <2>4. \A x \in Actors : Stage(x)' \notin {"open", "insert"}
    BY <2>2, <2>3 DEF Stage, First, Working
  <2>5. Running' \subseteq Running
    <3>1. CASE UNCHANGED states
      BY <3>1 DEF Running, HasTasks, Registered
    <3>2. CASE /\ Registered(a) /\ pass.desired[a] \in Settings
               /\ states' = [states EXCEPT ![a].cfg.key = pass.desired[a].key]
      <4>1. /\ states'[a].writer = states[a].writer
            /\ \A b \in Ids : b # a => states'[b] = states[b]
        BY <3>2, Renamed DEF Base
      <4> QED BY <3>2, <4>1 DEF Running, HasTasks, Registered
    <3> QED BY <2>1, <3>1, <3>2, BasePassRemove, BasePassApply DEF runVars
  <2> QED BY <2>4, <2>5, RoomKept
<1>5. CASE \E x \in Handlers, a \in Ids :
             (\E cfg \in Configs : AdminAdd(x, a, cfg)) \/ AdminRemove(x, a)
  <2>1. PICK x \in Handlers, a \in Ids :
             (\E cfg \in Configs : AdminAdd(x, a, cfg)) \/ AdminRemove(x, a)
    BY <1>5
  <2>2. /\ \A y \in Actors : y # x => job'[y] = job[y]
        /\ Stage(x)' \in {"check", "stop"} /\ UNCHANGED states /\ raced' = (raced \/ ~Quiet)
    BY <2>1, BaseBegin DEF runVars
  <2>3. Running' \subseteq Running
    BY <2>2 DEF Running, HasTasks, Registered
  <2>4. \A y \in Actors : Stage(y)' \in {"open", "insert"} =>
           Stage(y) \in {"open", "insert"} /\ job'[y].id = job[y].id /\ UNCHANGED states
    BY <2>2 DEF Stage
  <2>5. ~raced' => ~raced
    BY <2>2 DEF Base, TypeOK
  <2> QED BY <2>3, <2>4, <2>5, RoomKept DEF Limit
<1>6. CASE (\E w \in writers : AbortLands(w) \/ Halt(w)) \/ EditFile \/ UNCHANGED vars
  <2>1. UNCHANGED <<states, job, raced>>
    BY <1>6, BaseEnds, BaseEdit DEF vars, runVars
  <2> QED BY <1>1, <2>1
<1>7. CASE Restart
  <2>1. \A x \in Actors : Stage(x)' = "done"
    BY <1>7 DEF Restart, Stage, First, NoJob
  <2>2. Running' = {}
    BY <1>7 DEF Restart, Running, HasTasks, Registered, Nothing
  <2> QED BY <2>1, <2>2, FS_EmptySet, AccountAssumption DEF Limit, Room
<1> QED BY <1>2, <1>3, <1>4, <1>5, <1>6, <1>7 DEF Next, Reconcile

LEMMA LimitInit == Init => Alone /\ Limit
<1> SUFFICES ASSUME Init
             PROVE  Alone /\ Limit
  OBVIOUS
<1>1. \A x \in Actors : ~Working(x) /\ Stage(x) = "done"
  BY InitStarts, BaseStarts
<1>2. Running = {}
  BY DEF Init, Running, HasTasks, Registered, Nothing
<1> QED BY <1>1, <1>2, FS_EmptySet, AccountAssumption DEF Alone, Limit, Room, Actors

\* The limit of max_accounts (src/accounts.rs:687) holds as long as actors do
\* not overlap, for any file and any requests.
THEOREM LimitHolds == Spec => []AccountLimit
<1>1. Limit => AccountLimit
  BY DEF Limit, Room, Running, AccountLimit
<1>2. Init => Base /\ Alone /\ Limit
  BY BaseInit, LimitInit
<1>3. Base /\ Alone /\ Limit /\ [Next]_vars => (Base /\ Alone /\ Limit)'
  BY BaseNext, AloneNext, LimitNext
<1> QED BY <1>1, <1>2, <1>3, PTL DEF Spec

-----------------------------------------------------------------------------
(* Taking turns.                                                           *)

\* The hypotheses of the theorems that follow.
TakingTurns == ~SameId /\ ~Readd

\* An account is worked on by one actor, and not by any while a pass has it
\* before it: it is then as the pass found it.
Turns ==
  /\ \A x, y \in Actors : Working(x) /\ Working(y) /\ job[x].id = job[y].id => x = y
  /\ \A x \in Actors : Working(x) => job[x].id \notin Pending
  /\ \A a \in Pending : Cfgs[a] = pass.prev[a]

\* The writers of an account that have not been asked to stop.
Of(a) == {w \in writers : w.id = a /\ w.status = "running"}

\* An account that a step does not concern, nor an actor that works on it.
Same(a) == states'[a] = states[a] /\ Of(a)' = Of(a)
Apart(a) ==
  \A y \in Actors :
    job'[y] = job[y] \/ (job'[y].id # a /\ (job[y].id # a \/ Stage(y) = "done"))

LEMMA WorkElse ==
  ASSUME Base, NEW x \in Actors, Work(x), NEW b \in Ids, b # job[x].id
  PROVE  Same(b)
<1>1. job[x].id \in Ids /\ states \in [Ids -> Entries \cup {Nobody}]
  BY WorkJob DEF Base, TypeOK
<1>2. CASE Stop(x)
  <2>1. states'[b] = states[b]
    BY <1>1, <1>2 DEF Stop
  <2>2. PICK own : /\ own \subseteq writers /\ \A w \in own : w.id = job[x].id
                   /\ writers' = (writers \ own) \cup {[w EXCEPT !.status = "aborting"] : w \in own}
    BY <1>2 DEF Stop
  <2>3. \A w \in own : w.id = job[x].id /\ [w EXCEPT !.status = "aborting"].id = job[x].id
    BY <2>2 DEF Base, TypeOK
  <2>4. Of(b)' = Of(b)
    BY <2>2, <2>3 DEF Of
  <2> QED BY <2>1, <2>4 DEF Same
<1>3. CASE CheckDisabled(x) \/ CheckLimit(x) \/ OpenFails(x)
  <2>1. states'[b] = states[b]
    BY <1>1, <1>3 DEF CheckDisabled, CheckLimit, OpenFails, GivesUp, Inactive
  <2>2. UNCHANGED writers
    BY <1>3 DEF CheckDisabled, CheckLimit, OpenFails
  <2> QED BY <2>1, <2>2 DEF Same, Of
<1>4. CASE Open(x)
  <2>1. states'[b] = states[b]
    BY <1>1, <1>4 DEF Open
  <2>2. PICK w : w.id = job[x].id /\ writers' = writers \cup {w}
    BY <1>4 DEF Open
  <2> QED BY <2>1, <2>2 DEF Same, Of
<1>5. CASE Insert(x)
  BY <1>1, <1>5 DEF Insert, Same, Of
<1>6. CASE Wait(x) \/ Collect(x) \/ Save(x) \/ Mark(x)
  BY <1>6 DEF Wait, Collect, Save, Mark, runVars, Same, Of
<1> QED BY <1>2, <1>3, <1>4, <1>5, <1>6 DEF Work

\* A pass takes up the accounts before it one by one.
LEMMA TakenUp ==
  ASSUME Base, NEW a \in Ids, PassRemove(a) \/ PassApply(a)
  PROVE  /\ a \in Pending /\ Pending' = Pending \ {a} /\ ~Working(Reconciler)
         /\ pass'.phase = pass.phase /\ pass'.desired = pass.desired /\ pass'.prev = pass.prev
         /\ \A b \in Ids : b # a => states'[b] = states[b]
         /\ \A y \in Actors : y # Reconciler => job'[y] = job[y]
         /\ UNCHANGED job \/ job'[Reconciler].id = a
<1>1. pass \in Passes
  BY DEF Base, TypeOK
<1>2. CASE PassRemove(a)
  <2>1. /\ pass' = [pass EXCEPT !.remove = @ \ {a}] /\ a \in pass.remove /\ UNCHANGED states
        /\ Passing /\ job'[Reconciler].id = a
        /\ \A y \in Actors : y # Reconciler => job'[y] = job[y]
    BY <1>2, BasePassRemove DEF runVars
  <2>2. a \notin pass.apply
    BY <2>1 DEF Base, PassShape
  <2> QED BY <1>1, <2>1, <2>2 DEF Pending, Passes, Passing
<1>3. CASE PassApply(a)
  <2>1. /\ pass' = [pass EXCEPT !.apply = @ \ {a}] /\ a \in pass.apply /\ pass.remove = {}
        /\ Passing /\ \A y \in Actors : y # Reconciler => job'[y] = job[y]
        /\ UNCHANGED job \/ job'[Reconciler].id = a
    BY <1>3, BasePassApply
  <2>2. states \in [Ids -> Entries \cup {Nobody}] /\ pass.desired[a] \in Settings
    BY <1>3, BasePassApply DEF Base, TypeOK
  <2>3. \A b \in Ids : b # a => states'[b] = states[b]
    <3>1. CASE UNCHANGED states
      BY <3>1
    <3>2. CASE Registered(a) /\ states' = [states EXCEPT ![a].cfg.key = pass.desired[a].key]
      BY <2>2, <3>2, Renamed DEF Base
    <3> QED BY <1>3, <3>1, <3>2, BasePassApply
  <2> QED BY <1>1, <2>1, <2>3 DEF Pending, Passes, Passing
<1> QED BY <1>2, <1>3

LEMMA StartTurns == Starting => Turns
<1> SUFFICES ASSUME Starting
             PROVE  Turns
  OBVIOUS
<1>1. \A x \in Actors : ~Working(x)
  BY DEF Starting, Working, NoJob
<1>2. pass.remove = {} /\ pass.apply \subseteq Ids /\ pass.prev = Nothing
  BY DEF Starting, Loading, NoPass
<1>3. \A a \in Ids : Cfgs[a] = Nothing[a]
  BY DEF Starting, Cfgs, Registered, Nothing
<1> QED BY <1>1, <1>2, <1>3 DEF Turns, Pending

LEMMA TurnsNext ==
  ASSUME TakingTurns, Base, Turns, [Next]_vars
  PROVE  Turns'
<1>1. CASE \E x \in Actors : Work(x)
  <2>1. PICK x \in Actors : Work(x)
    BY <1>1
  <2>2. /\ Working(x) /\ job[x].id \in Ids
        /\ \A y \in Actors : y # x => job'[y] = job[y]
        /\ job'[x].id = job[x].id /\ UNCHANGED pass
    BY <2>1, WorkJob
  <2>3. \A y \in Actors : job'[y].id = job[y].id /\ (Working(y)' => Working(y))
    BY <2>2 DEF Working
  <2>4. Pending' = Pending /\ Pending \subseteq Ids
    BY <2>2 DEF Pending, Base, TypeOK, Passes
  <2>5. \A a \in Pending : Cfgs'[a] = Cfgs[a]
    <3> SUFFICES ASSUME NEW a \in Pending
                 PROVE  Cfgs'[a] = Cfgs[a]
      OBVIOUS
    <3>1. a \in Ids /\ a # job[x].id
      BY <2>2, <2>4 DEF Turns
    <3> QED BY <2>1, <3>1, WorkElse DEF Same, Cfgs, Registered
  <2> QED BY <2>2, <2>3, <2>4, <2>5 DEF Turns
<1>2. CASE ReadFile \/ PassEnds
  <2>0. UNCHANGED job
    BY <1>2, BasePass
  <2>1. Pending' = {}
    <3>1. pass' = NoPass \/ pass' = [NoPass EXCEPT !.phase = "read", !.desired = file]
      BY <1>2 DEF ReadFile, PassEnds
    <3>2. CASE pass' = NoPass
      BY <3>2 DEF NoPass, Pending
    <3>3. CASE pass' = [NoPass EXCEPT !.phase = "read", !.desired = file]
      BY <3>3 DEF NoPass, Pending
    <3> QED BY <3>1, <3>2, <3>3
  <2> QED BY <2>0, <2>1 DEF Turns, Working
<1>3. CASE Plan
  <2>1. UNCHANGED <<states, job>>
    BY <1>3, BasePass DEF runVars
  <2>2. Pending' \cap Touched = {} /\ pass'.prev = Cfgs
    BY <1>3 DEF Plan, Pending, TakingTurns, Base, TypeOK, Passes
  <2>3. \A x \in Actors : Working(x) => job[x].id \in Touched
    BY DEF Touched
  <2>4. Cfgs' = Cfgs
    BY <2>1 DEF Cfgs, Registered
  <2> QED BY <2>1, <2>2, <2>3, <2>4 DEF Turns, Working
<1>4. CASE \E a \in Ids : PassRemove(a) \/ PassApply(a)
  <2>1. PICK a \in Ids : PassRemove(a) \/ PassApply(a)
    BY <1>4
  <2>2. PICK x \in Actors : x = Reconciler
    BY DEF Actors
  <2>3. /\ a \in Pending /\ Pending' = Pending \ {a} /\ ~Working(x) /\ pass'.prev = pass.prev
        /\ \A y \in Actors : y # x => job'[y] = job[y]
        /\ UNCHANGED job \/ job'[x].id = a
    BY <2>1, <2>2, TakenUp
  <2>4. Pending \subseteq Ids
    BY DEF Pending, Base, TypeOK, Passes
  <2>5. \A b \in Pending' : Cfgs'[b] = Cfgs[b]
    BY <2>1, <2>3, <2>4, TakenUp DEF Cfgs, Registered
  <2>6. \A y \in Actors : y # x => (Working(y)' <=> Working(y)) /\ job'[y].id = job[y].id
    BY <2>3 DEF Working
  <2>7. Working(x)' => job'[x].id = a
    BY <2>3 DEF Working
  <2> QED BY <2>3, <2>5, <2>6, <2>7 DEF Turns
<1>5. CASE \E x \in Handlers, a \in Ids :
             (\E cfg \in Configs : AdminAdd(x, a, cfg)) \/ AdminRemove(x, a)
  <2>1. PICK x \in Handlers, a \in Ids :
             (\E cfg \in Configs : AdminAdd(x, a, cfg)) \/ AdminRemove(x, a)
    BY <1>5
  <2>2. /\ \A y \in Actors : y # x => job'[y] = job[y]
        /\ job'[x].id = a /\ UNCHANGED <<pass, states>> /\ a \notin Touched
    BY <2>1, BaseBegin DEF TakingTurns, runVars
  <2>3. a \notin Pending /\ \A y \in Actors : Working(y) => job[y].id # a
    BY <2>2 DEF Touched, Pending
  <2>4. Pending' = Pending /\ Cfgs' = Cfgs
    BY <2>2 DEF Pending, Cfgs, Registered
  <2>5. \A y \in Actors : y # x => (Working(y)' <=> Working(y)) /\ job'[y].id = job[y].id
    BY <2>2 DEF Working
  <2> QED BY <2>2, <2>3, <2>4, <2>5 DEF Turns
<1>6. CASE (\E w \in writers : AbortLands(w) \/ Halt(w)) \/ EditFile \/ UNCHANGED vars
  <2>1. UNCHANGED <<pass, job, states>>
    BY <1>6, BaseEnds, BaseEdit DEF vars, runVars
  <2> QED BY <2>1 DEF Turns, Working, Pending, Cfgs, Registered
<1>7. CASE Restart
  <2>1. (Starting => Turns)'
    BY StartTurns, PTL
  <2> QED BY <1>7, <2>1, RestartStarts
<1> QED BY <1>1, <1>2, <1>3, <1>4, <1>5, <1>6, <1>7 DEF Next, Reconcile

-----------------------------------------------------------------------------
(* One writer.                                                             *)

\* An account has one writer at most that runs and was not asked to stop: it
\* belongs to the entry, or to whoever is about to make it.
Held(a) ==
  /\ \A v, w \in Of(a) : v = w
  /\ \A w \in Of(a) :
       \/ Registered(a) /\ states[a].writer = w.n
       \/ \E x \in Actors : Stage(x) = "insert" /\ job[x].id = a /\ job[x].writer = w.n

\* Who stops an account has taken it out of the map, who starts one finds none
\* that runs.
Stopped(a) ==
  \A x \in Actors : job[x].id = a =>
    /\ Stage(x) = "wait" => ~Registered(a)
    /\ Stage(x) \in {"check", "open", "insert"} => ~HasTasks(a)

\* An account runs as its entry says, or is marked as failed.
Entry(a) ==
  /\ Registered(a) =>
       IF HasTasks(a)
       THEN states[a].cfg.active /\ \A w \in Of(a) : w.url = states[a].cfg.url
       ELSE states[a].cfg.active => states[a].status = "failed"
  /\ \A x \in Actors : Stage(x) = "insert" /\ job[x].id = a =>
       \A w \in Of(a) : w.url = job[x].cfg.url

Account(a) == Held(a) /\ Stopped(a) /\ Entry(a)

\* An account that a step leaves alone.
LEMMA Elsewhere ==
  ASSUME NEW a \in Ids, Account(a), Same(a), Apart(a)
  PROVE  Account(a)'
<1>1. \A y \in Actors :
        /\ Stage(y) # "done" /\ job[y].id = a => job'[y] = job[y] /\ Stage(y)' = Stage(y)
        /\ job'[y].id = a => job'[y] = job[y] /\ Stage(y)' = Stage(y)
  BY DEF Stage, Apart
<1>2. Registered(a)' = Registered(a) /\ HasTasks(a)' = HasTasks(a)
  BY DEF Same, Registered, HasTasks
<1>3. Held(a)'
  <2>1. \A v, w \in Of(a)' : v = w
    BY DEF Account, Held, Same
  <2>2. ASSUME NEW w \in Of(a)'
        PROVE  \/ Registered(a)' /\ states'[a].writer = w.n
               \/ \E x \in Actors : Stage(x)' = "insert" /\ job'[x].id = a /\ job'[x].writer = w.n
    <3>1. w \in Of(a)
      BY <2>2 DEF Same
    <3>2. CASE Registered(a) /\ states[a].writer = w.n
      BY <1>2, <3>2 DEF Same
    <3>3. ASSUME NEW x \in Actors, Stage(x) = "insert", job[x].id = a, job[x].writer = w.n
          PROVE  Stage(x)' = "insert" /\ job'[x].id = a /\ job'[x].writer = w.n
      BY <1>1, <3>3
    <3> QED BY <3>1, <3>2, <3>3 DEF Account, Held
  <2> QED BY <2>1, <2>2 DEF Held
<1>4. Stopped(a)'
  BY <1>1, <1>2 DEF Account, Stopped
<1>5. Entry(a)'
  <2>1. Registered(a)' =>
          IF HasTasks(a)'
          THEN states'[a].cfg.active /\ \A w \in Of(a)' : w.url = states'[a].cfg.url
          ELSE states'[a].cfg.active => states'[a].status = "failed"
    BY <1>2 DEF Account, Entry, Same
  <2>2. \A x \in Actors : Stage(x)' = "insert" /\ job'[x].id = a =>
          \A w \in Of(a)' : w.url = job'[x].cfg.url
    BY <1>1 DEF Account, Entry, Same
  <2> QED BY <2>1, <2>2 DEF Entry
<1> QED BY <1>3, <1>4, <1>5 DEF Account

\* What an actor finds at its account.
LEMMA Found ==
  ASSUME Base, Turns, NEW x \in Actors, Working(x), Account(job[x].id)
  PROVE  /\ Stage(x) \in {"wait", "check", "open"} => Of(job[x].id) = {}
         /\ Stage(x) = "wait" => ~Registered(job[x].id)
         /\ Stage(x) = "insert" =>
              \A w \in Of(job[x].id) : w.n = job[x].writer /\ w.url = job[x].cfg.url
         /\ Stage(x) \in {"check", "open", "insert"} => ~HasTasks(job[x].id)
         /\ Stage(x) \in {"stop", "collect", "save", "mark"} =>
              \A w \in Of(job[x].id) : Registered(job[x].id) /\ states[job[x].id].writer = w.n
         /\ \A y \in Actors : y # x /\ job[y].id = job[x].id => Stage(y) = "done"
<1>1. \A y \in Actors : y # x /\ job[y].id = job[x].id => Stage(y) = "done"
  BY StageAt DEF Base, Turns
<1>2. /\ Stage(x) = "wait" => ~Registered(job[x].id)
      /\ Stage(x) \in {"check", "open", "insert"} => ~HasTasks(job[x].id)
  BY DEF Account, Stopped
<1>3. \A w \in Of(job[x].id) : w.n \in Nat \ {0}
  BY DEF Of, Base, TypeOK
<1>4. ASSUME NEW w \in Of(job[x].id)
      PROVE  \/ Registered(job[x].id) /\ states[job[x].id].writer = w.n
             \/ Stage(x) = "insert" /\ job[x].writer = w.n
  BY <1>1, <1>4 DEF Account, Held
<1>5. ASSUME NEW w \in Of(job[x].id), Registered(job[x].id), states[job[x].id].writer = w.n
      PROVE  HasTasks(job[x].id)
  BY <1>3, <1>5 DEF HasTasks
<1>6. Stage(x) = "insert" => \A w \in Of(job[x].id) : w.url = job[x].cfg.url
  BY DEF Account, Entry
<1> QED BY <1>1, <1>2, <1>4, <1>5, <1>6

\* The account an actor leaves when it has taken a step: nobody else is there.
LEMMA Left ==
  ASSUME NEW x \in Actors, NEW a, job'[x].id = a,
         \A y \in Actors : y # x /\ job'[y].id = a => Stage(y)' = "done",
         \A v, w \in Of(a)' : v = w,
         \A w \in Of(a)' :
           \/ Registered(a)' /\ states'[a].writer = w.n
           \/ Stage(x)' = "insert" /\ job'[x].writer = w.n,
         Stage(x)' = "wait" => ~Registered(a)',
         Stage(x)' \in {"check", "open", "insert"} => ~HasTasks(a)',
         Registered(a)' =>
           IF HasTasks(a)'
           THEN states'[a].cfg.active /\ \A w \in Of(a)' : w.url = states'[a].cfg.url
           ELSE states'[a].cfg.active => states'[a].status = "failed",
         Stage(x)' = "insert" => \A w \in Of(a)' : w.url = job'[x].cfg.url
  PROVE  Account(a)'
<1>1. Held(a)'
  BY DEF Held
<1>2. Stopped(a)'
  <2>1. \A y \in Actors : job'[y].id = a => y = x \/ Stage(y)' = "done"
    OBVIOUS
  <2> QED BY <2>1 DEF Stopped
<1>3. Entry(a)'
  <2>1. \A y \in Actors : job'[y].id = a => y = x \/ Stage(y)' = "done"
    OBVIOUS
  <2> QED BY <2>1 DEF Entry
<1> QED BY <1>1, <1>2, <1>3 DEF Account

\* A step of an actor and the account it works on.
LEMMA WorkHere ==
  ASSUME TakingTurns, Base, Turns, NEW x \in Actors, Work(x), Account(job[x].id)
  PROVE  Account(job[x].id)'
<1>1. PICK a \in Ids : a = job[x].id
  BY WorkJob
<1>2. /\ Working(x) /\ job'[x].id = a /\ job'[x].cfg = job[x].cfg
      /\ job \in [Actors -> Jobs] /\ job[x] \in Jobs
      /\ \A y \in Actors : y # x => job'[y] = job[y]
  BY <1>1, WorkJob DEF Base, TypeOK
<1>3. /\ states \in [Ids -> Entries \cup {Nobody}] /\ opened \in [Ids -> Nat]
      /\ \A w \in writers : w.id \in Ids /\ w.n \in Nat \ {0}
      /\ writers \subseteq [id : Ids, n : Nat \ {0}, url : {c.url : c \in Configs},
                            status : {"running", "aborting"}]
  BY DEF Base, TypeOK
<1>4. \A y \in Actors : y # x /\ job'[y].id = a => Stage(y)' = "done"
  BY <1>1, <1>2, Found DEF Stage
<1>5. \A v, w \in Of(a) : v = w
  BY <1>1 DEF Account, Held
<1>6. Registered(a) =>
        IF HasTasks(a)
        THEN states[a].cfg.active /\ \A w \in Of(a) : w.url = states[a].cfg.url
        ELSE states[a].cfg.active => states[a].status = "failed"
  BY <1>1 DEF Account, Entry
<1>7. ASSUME Account(a)'
      PROVE  Account(job[x].id)'
  <2>1. job'[x].id = a
    BY <1>2
  <2>2. \A b : b = a /\ Account(a)' => Account(b)'
    OBVIOUS
  <2> QED BY <1>7, <2>1 DEF Account, Held, Stopped, Entry, Of, Registered, HasTasks
<1>8. CASE Stop(x) /\ Stage(x) = "stop" /\ Stage(x)' = "wait"
  <2>1. \A w \in Of(a) : Registered(a) /\ states[a].writer = w.n
    BY <1>1, <1>2, <1>8, Found
  <2>2. PICK own : /\ own \subseteq writers /\ Of(a) \subseteq own
                   /\ writers' = (writers \ own) \cup {[w EXCEPT !.status = "aborting"] : w \in own}
    <3>1. Of(a) \subseteq {w \in writers : Registered(a) /\ w.id = a /\ w.n = states[a].writer}
      BY <2>1 DEF Of
    <3> QED BY <1>1, <1>8, <3>1 DEF Stop
  <2>3. \A w \in own : [w EXCEPT !.status = "aborting"].status = "aborting"
    BY <1>3, <2>2
  <2>4. Of(a)' = {}
    BY <2>2, <2>3 DEF Of
  <2>5. ~Registered(a)'
    BY <1>1, <1>3, <1>8 DEF Stop, Registered
  <2> QED BY <1>2, <1>4, <1>7, <1>8, <2>4, <2>5, Left
<1>9. CASE /\ Wait(x) /\ Stage(x) = "wait"
           /\ Stage(x)' = IF job[x].cfg # Nobody THEN "check" ELSE Skipped(x)
  <2>1. ~Registered(a) /\ Of(a) = {}
    BY <1>1, <1>2, <1>9, Found
  <2>2. UNCHANGED <<writers, states>>
    BY <1>9 DEF Wait, runVars
  <2>3. Of(a)' = {} /\ ~Registered(a)' /\ ~HasTasks(a)'
    BY <2>1, <2>2 DEF Of, Registered, HasTasks
  <2>4. Stage(x)' \notin {"wait", "insert"}
    BY <1>9 DEF Skipped
  <2> QED BY <1>2, <1>4, <1>7, <2>3, <2>4, Left
<1>10. ASSUME Stage(x) \in {"check", "open"}, UNCHANGED writers,
              Stage(x)' \in {"collect", "done"},
              UNCHANGED states \/ Inactive(a, job[x].cfg, "failed")
                \/ (Inactive(a, job[x].cfg, "disabled") /\ ~job[x].cfg.active)
       PROVE  Account(a)'
  <2>1. Of(a)' = {}
    BY <1>1, <1>2, <1>10, Found DEF Of
  <2>2. Registered(a)' =>
          IF HasTasks(a)'
          THEN states'[a].cfg.active /\ \A w \in Of(a)' : w.url = states'[a].cfg.url
          ELSE states'[a].cfg.active => states'[a].status = "failed"
    <3>1. CASE UNCHANGED states
      BY <1>6, <2>1, <3>1 DEF Registered, HasTasks
    <3>2. CASE Inactive(a, job[x].cfg, "failed")
      <4>1. states'[a] = [cfg |-> job[x].cfg, writer |-> 0, status |-> "failed"]
        BY <1>3, <3>2 DEF Inactive
      <4> QED BY <4>1 DEF HasTasks
    <3>3. CASE Inactive(a, job[x].cfg, "disabled") /\ ~job[x].cfg.active
      <4>1. states'[a] = [cfg |-> job[x].cfg, writer |-> 0, status |-> "disabled"]
        BY <1>3, <3>3 DEF Inactive
      <4> QED BY <3>3, <4>1 DEF HasTasks
    <3> QED BY <1>10, <3>1, <3>2, <3>3
  <2> QED BY <1>2, <1>4, <1>10, <2>1, <2>2, Left
<1>11. CASE CheckDisabled(x) /\ Stage(x) = "check" /\ Stage(x)' = Skipped(x)
  BY <1>1, <1>7, <1>10, <1>11 DEF CheckDisabled, Skipped
<1>12. CASE CheckLimit(x) /\ Stage(x) = "check" /\ Stage(x)' = "done" /\ GivesUp(x)
  BY <1>1, <1>7, <1>10, <1>12 DEF CheckLimit, GivesUp
<1>13. CASE OpenFails(x) /\ Stage(x) = "open" /\ Stage(x)' = "done" /\ GivesUp(x)
  BY <1>1, <1>7, <1>10, <1>13 DEF OpenFails, GivesUp
<1>14. CASE CheckLimit(x) /\ Stage(x) = "check" /\ Stage(x)' = "open" /\ UNCHANGED states
  <2>1. Of(a) = {} /\ ~HasTasks(a) /\ UNCHANGED writers
    BY <1>1, <1>2, <1>14, Found DEF CheckLimit
  <2>2. Of(a)' = {} /\ Registered(a)' = Registered(a) /\ ~HasTasks(a)' /\ states'[a] = states[a]
    BY <1>14, <2>1 DEF Of, Registered, HasTasks
  <2> QED BY <1>2, <1>4, <1>6, <1>7, <1>14, <2>1, <2>2, Left
<1>15. CASE Open(x) /\ Stage(x) = "open" /\ Stage(x)' = "insert"
  <2>1. Of(a) = {} /\ ~HasTasks(a)
    BY <1>1, <1>2, <1>15, Found
  <2>2. PICK n : n = opened[a] + 1
    OBVIOUS
  <2>3. PICK w : w = [id |-> a, n |-> n, url |-> job[x].cfg.url, status |-> "running"]
    OBVIOUS
  <2>4. /\ writers' = writers \cup {w}
        /\ job' = [job EXCEPT ![x].todo = Tail(@), ![x].writer = n] /\ UNCHANGED states
    BY <1>1, <1>15, <2>2, <2>3 DEF Open
  <2>5. Of(a)' = {w} /\ job'[x].writer = w.n
    BY <1>2, <1>3, <2>1, <2>3, <2>4 DEF Of, Jobs
  <2>6. Registered(a)' = Registered(a) /\ ~HasTasks(a)' /\ states'[a] = states[a]
    BY <2>1, <2>4 DEF Registered, HasTasks
  <2>7. w.url = job'[x].cfg.url
    BY <1>2, <2>3
  <2> QED BY <1>2, <1>4, <1>6, <1>7, <1>15, <2>1, <2>5, <2>6, <2>7, Left
<1>16. CASE Insert(x) /\ Stage(x) = "insert" /\ Stage(x)' = Skipped(x)
  <2>1. \A w \in Of(a) : w.n = job[x].writer /\ w.url = job[x].cfg.url
    BY <1>1, <1>2, <1>16, Found
  <2>2. /\ states'[a] = [cfg |-> job[x].cfg, writer |-> job[x].writer, status |-> "starting"]
        /\ UNCHANGED writers
    BY <1>1, <1>3, <1>16 DEF Insert
  <2>3. job[x].cfg \in Settings /\ job[x].cfg.active /\ job[x].writer # 0
    BY <1>16, SpawnCfg DEF Base, JobShape
  <2>4. states'[a] # Nobody
    <3>1. states'[a] \in Entries
      BY <1>2, <2>2, <2>3 DEF Entries, Jobs
    <3> QED BY <3>1, AccountAssumption
  <2>5. Of(a)' = Of(a) /\ Registered(a)' /\ HasTasks(a)' /\ states'[a].writer = job[x].writer
        /\ states'[a].cfg = job[x].cfg
    BY <2>2, <2>3, <2>4 DEF Of, Registered, HasTasks
  <2>6. Stage(x)' \notin {"wait", "check", "open", "insert"}
    BY <1>16 DEF Skipped
  <2> QED BY <1>2, <1>4, <1>5, <1>7, <2>1, <2>2, <2>3, <2>5, <2>6, Left
<1>17. CASE \/ Collect(x) /\ Stage(x) = "collect" /\ Stage(x)' = "save"
            \/ Save(x) /\ Stage(x) = "save" /\ Stage(x)' = "mark"
            \/ Mark(x) /\ Stage(x) = "mark" /\ Stage(x)' = "done"
  <2>1. \A w \in Of(a) : Registered(a) /\ states[a].writer = w.n
    BY <1>1, <1>2, <1>17, Found
  <2>2. UNCHANGED <<states, writers>>
    BY <1>17 DEF Collect, Save, Mark, runVars
  <2>3. /\ Of(a)' = Of(a) /\ Registered(a)' = Registered(a) /\ HasTasks(a)' = HasTasks(a)
        /\ states'[a] = states[a]
    BY <2>2 DEF Of, Registered, HasTasks
  <2>4. Stage(x)' \notin {"wait", "check", "open", "insert"}
    BY <1>17
  <2> QED BY <1>2, <1>4, <1>5, <1>6, <1>7, <2>1, <2>3, <2>4, Left
<1> QED BY <1>8, <1>9, <1>11, <1>12, <1>13, <1>14, <1>15, <1>16, <1>17, WorkStages

\* An account that nobody works on, and the actor that takes it up.
LEMMA Free ==
  ASSUME NEW a \in Ids, Account(a), \A y \in Actors : job[y].id = a => Stage(y) = "done"
  PROVE  \A w \in Of(a) : Registered(a) /\ states[a].writer = w.n
BY DEF Account, Held

LEMMA Arrival ==
  ASSUME NEW a \in Ids, Account(a), \A y \in Actors : job[y].id = a => Stage(y) = "done",
         NEW x \in Actors, \A y \in Actors : y # x => job'[y] = job[y],
         job'[x].id = a, First(job'[x].todo) \in {"stop", "check"},
         First(job'[x].todo) = "check" => ~HasTasks(a),
         UNCHANGED <<states, writers>>
  PROVE  Account(a)'
<1>1. /\ Of(a)' = Of(a) /\ Registered(a)' = Registered(a) /\ HasTasks(a)' = HasTasks(a)
      /\ states'[a] = states[a]
  BY DEF Of, Registered, HasTasks
<1>2. \A w \in Of(a) : Registered(a) /\ states[a].writer = w.n
  BY Free
<1>3. \A y \in Actors : y # x /\ job'[y].id = a => Stage(y)' = "done"
  BY DEF Stage
<1>4. /\ \A v, w \in Of(a) : v = w
      /\ Registered(a) =>
           IF HasTasks(a)
           THEN states[a].cfg.active /\ \A w \in Of(a) : w.url = states[a].cfg.url
           ELSE states[a].cfg.active => states[a].status = "failed"
  BY DEF Account, Held, Entry
<1>5. Stage(x)' \in {"stop", "check"} /\ (Stage(x)' = "check" => ~HasTasks(a))
  BY DEF Stage
<1> QED BY <1>1, <1>2, <1>3, <1>4, <1>5, Left

Accounts == \A a \in Ids : Account(a)

LEMMA StartAccounts == Starting => Accounts
<1> SUFFICES ASSUME Starting, NEW a \in Ids
             PROVE  Account(a)
  BY DEF Accounts
<1>1. Of(a) = {} /\ ~Registered(a) /\ ~HasTasks(a)
  BY DEF Starting, Of, Registered, HasTasks, Nothing
<1>2. \A x \in Actors : Stage(x) = "done"
  BY DEF Starting, Stage, First, NoJob
<1> QED BY <1>1, <1>2 DEF Account, Held, Stopped, Entry

LEMMA AccountsNext ==
  ASSUME TakingTurns, Base, Turns, Accounts, [Next]_vars
  PROVE  Accounts'
<1> SUFFICES ASSUME NEW a \in Ids
             PROVE  Account(a)'
  BY DEF Accounts
<1>1. Account(a)
  BY DEF Accounts
<1>2. ASSUME UNCHANGED <<states, writers, job>>
      PROVE  Account(a)'
  <2>1. Same(a)
    BY <1>2 DEF Same, Of
  <2>2. Apart(a)
    BY <1>2 DEF Apart
  <2> QED BY <1>1, <2>1, <2>2, Elsewhere
<1>3. CASE \E x \in Actors : Work(x)
  <2>1. PICK x \in Actors : Work(x)
    BY <1>3
  <2>2. /\ job[x].id \in Ids /\ job'[x].id = job[x].id
        /\ \A y \in Actors : y # x => job'[y] = job[y]
    BY <2>1, WorkJob
  <2>3. CASE a = job[x].id
    <3>1. Account(job[x].id)'
      BY <1>1, <2>1, <2>2, <2>3, WorkHere
    <3>2. job'[x].id = a
      BY <2>2, <2>3
    <3> QED BY <3>1, <3>2 DEF Account, Held, Stopped, Entry, Of, Registered, HasTasks
  <2>4. CASE a # job[x].id
    <3>1. Same(a)
      BY <2>1, <2>4, WorkElse
    <3>2. Apart(a)
      BY <2>2, <2>4 DEF Apart
    <3> QED BY <1>1, <3>1, <3>2, Elsewhere
  <2> QED BY <2>3, <2>4
<1>4. CASE ReadFile \/ Plan \/ PassEnds
  BY <1>2, <1>4, BasePass DEF runVars
<1>5. CASE \E b \in Ids : PassRemove(b) \/ PassApply(b)
  <2>1. PICK b \in Ids : PassRemove(b) \/ PassApply(b)
    BY <1>5
  <2>2. PICK x \in Actors : x = Reconciler
    BY DEF Actors
  <2>3. /\ b \in Pending /\ ~Working(x)
        /\ a # b => states'[a] = states[a]
        /\ \A y \in Actors : y # x => job'[y] = job[y]
        /\ UNCHANGED job \/ job'[x].id = b
        /\ UNCHANGED writers
    BY <2>1, <2>2, TakenUp, BasePassRemove, BasePassApply DEF runVars
  <2>4. \A y \in Actors : job[y].id = b => Stage(y) = "done"
    BY <2>3, StageAt DEF Turns, Base
  <2>5. Stage(x) = "done"
    BY <2>3, StageAt DEF Base
  <2>6. CASE a # b
    <3>1. Same(a)
      BY <2>3, <2>6 DEF Same, Of
    <3>2. Apart(a)
      BY <2>3, <2>5, <2>6 DEF Apart
    <3> QED BY <1>1, <3>1, <3>2, Elsewhere
  <2>7. ASSUME a = b, job'[x].id = b, First(job'[x].todo) \in {"stop", "check"},
               First(job'[x].todo) = "check" => ~HasTasks(a), UNCHANGED states
        PROVE  Account(a)'
    BY <1>1, <2>3, <2>4, <2>7, Arrival
  <2>8. CASE a = b /\ PassRemove(b)
    <3>1. job'[x].id = b /\ First(job'[x].todo) = "stop" /\ UNCHANGED states
      BY <2>2, <2>8, BasePassRemove DEF runVars
    <3> QED BY <2>7, <2>8, <3>1
  <2>9. CASE a = b /\ PassApply(b) /\ UNCHANGED states /\ job'[x].id = b
             /\ First(job'[x].todo) = IF pass.prev[b] = Nobody THEN "check" ELSE "stop"
    <3>1. pass.prev[b] = Nobody => ~HasTasks(a)
      <4>1. Cfgs[a] = pass.prev[b]
        BY <2>3, <2>9 DEF Turns
      <4>2. Registered(a) => Cfgs[a] \in Settings
        BY DEF Cfgs, Registered, Base, TypeOK, Entries
      <4> QED BY <4>1, <4>2, AccountAssumption DEF HasTasks
    <3> QED BY <2>7, <2>9, <3>1
  <2>10. CASE /\ a = b /\ PassApply(b) /\ UNCHANGED job
              /\ pass.prev[a] # Nobody /\ ~ConfigChanged(pass.prev[a], pass.desired[a])
              /\ states' = IF Registered(a)
                           THEN [states EXCEPT ![a].cfg.key = pass.desired[a].key] ELSE states
    <3>1. CASE ~Registered(a)
      BY <1>2, <2>3, <2>10, <3>1
    <3>2. CASE Registered(a)
      <4>1. pass.desired[a] \in Settings /\ states[a].cfg \in Settings
        BY <2>10, <3>2, BasePassApply DEF Registered, Base, TypeOK, Entries
      <4>2. /\ states'[a] \in Entries /\ states'[a] # Nobody
            /\ states'[a].writer = states[a].writer /\ states'[a].status = states[a].status
            /\ states'[a].cfg = [states[a].cfg EXCEPT !.key = pass.desired[a].key]
        <5>1. PICK new \in Settings : new = pass.desired[a]
          BY <4>1
        <5>2. states' = [states EXCEPT ![a].cfg.key = new.key]
          BY <2>10, <3>2, <5>1
        <5> QED BY <3>2, <5>1, <5>2, Renamed DEF Base
      <4>3. states'[a].cfg.active = states[a].cfg.active /\ states'[a].cfg.url = states[a].cfg.url
        BY <4>1, <4>2 DEF Settings
      <4>4. Of(a)' = Of(a) /\ Registered(a)' /\ HasTasks(a)' = HasTasks(a)
        BY <2>3, <3>2, <4>2 DEF Of, Registered, HasTasks
      <4>5. \A w \in Of(a) : states[a].writer = w.n
        BY <1>1, <2>4, <2>10, Free
      <4>6. \A y \in Actors : job'[y].id = a => Stage(y)' = "done"
        BY <2>4, <2>10 DEF Stage
      <4>7. Held(a)'
        BY <1>1, <4>2, <4>4, <4>5 DEF Account, Held
      <4>8. Stopped(a)'
        BY <4>6 DEF Stopped
      <4>9. Entry(a)'
        BY <1>1, <3>2, <4>2, <4>3, <4>4, <4>6 DEF Account, Entry
      <4> QED BY <4>7, <4>8, <4>9 DEF Account
    <3> QED BY <3>1, <3>2
  <2>11. CASE a = b /\ PassApply(b)
    BY <2>2, <2>9, <2>10, <2>11, BasePassApply
  <2> QED BY <2>1, <2>6, <2>8, <2>11
<1>6. CASE \E x \in Handlers, b \in Ids :
             (\E cfg \in Configs : AdminAdd(x, b, cfg)) \/ AdminRemove(x, b)
  <2>1. PICK x \in Handlers, b \in Ids :
             (\E cfg \in Configs : AdminAdd(x, b, cfg)) \/ AdminRemove(x, b)
    BY <1>6
  <2>2. x \in Actors
    BY DEF Actors
  <2>3. /\ \A y \in Actors : y # x => job'[y] = job[y]
        /\ ~Working(x) /\ job'[x].id = b /\ First(job'[x].todo) \in {"check", "stop"}
        /\ UNCHANGED <<states, writers>> /\ b \notin Touched
    BY <2>1, BaseBegin DEF TakingTurns, runVars, Stage
  <2>4. First(job'[x].todo) = "check" => ~HasTasks(b)
    <3>1. CASE AdminRemove(x, b)
      BY <2>2, <3>1, Starts DEF AdminRemove, Begin, Base, TypeOK, NoJob
    <3> QED BY <2>1, <3>1, BaseBegin DEF TakingTurns
  <2>5. \A y \in Actors : job[y].id = b => Stage(y) = "done"
    BY <2>3, StageAt DEF Touched, Base
  <2>6. CASE a = b
    BY <2>2, <2>3, <1>1, <2>4, <2>5, <2>6, Arrival
  <2>7. CASE a # b
    <3>1. Same(a) /\ Stage(x) = "done"
      BY <2>2, <2>3, StageAt DEF Same, Of, Base
    <3>2. Apart(a)
      BY <2>3, <2>7, <3>1 DEF Apart
    <3> QED BY <1>1, <3>1, <3>2, Elsewhere
  <2> QED BY <2>6, <2>7
<1>7. CASE \E w \in writers : AbortLands(w) \/ Halt(w)
  <2>1. PICK w \in writers : AbortLands(w) \/ Halt(w)
    BY <1>7
  <2>2. writers' = writers \ {w} /\ UNCHANGED <<states, job>>
    BY <2>1, BaseEnds DEF Ends
  <2>3. CASE a # w.id \/ w.status # "running"
    <3>1. Same(a)
      BY <2>2, <2>3 DEF Same, Of
    <3>2. Apart(a)
      BY <2>2 DEF Apart
    <3> QED BY <1>1, <3>1, <3>2, Elsewhere
  <2>4. CASE a = w.id /\ w.status = "running"
    <3>1. Of(a)' = {}
      BY <1>1, <2>2, <2>4 DEF Account, Held, Of
    <3>2. /\ Registered(a)' = Registered(a) /\ HasTasks(a)' = HasTasks(a) /\ states'[a] = states[a]
          /\ \A y \in Actors : Stage(y)' = Stage(y) /\ job'[y] = job[y]
      BY <2>2 DEF Registered, HasTasks, Stage
    <3>3. Held(a)'
      BY <3>1 DEF Held
    <3>4. Stopped(a)'
      BY <1>1, <3>2 DEF Account, Stopped
    <3>5. Entry(a)'
      BY <1>1, <3>1, <3>2 DEF Account, Entry
    <3> QED BY <3>3, <3>4, <3>5 DEF Account
  <2> QED BY <2>3, <2>4
<1>8. CASE EditFile \/ UNCHANGED vars
  BY <1>2, <1>8, BaseEdit DEF vars, runVars
<1>9. CASE Restart
  <2>1. (Starting => Accounts)'
    BY StartAccounts, PTL
  <2> QED BY <1>9, <2>1, RestartStarts DEF Accounts
<1> QED BY <1>3, <1>4, <1>5, <1>6, <1>7, <1>8, <1>9 DEF Next, Reconcile

WriterInv == Base /\ Turns /\ Accounts

LEMMA WriterInvariant ==
  ASSUME TakingTurns
  PROVE  /\ Init => WriterInv
         /\ WriterInv /\ [Next]_vars => WriterInv'
<1>1. Init => WriterInv
  BY BaseInit, InitStarts, StartTurns, StartAccounts DEF WriterInv
<1>2. WriterInv /\ [Next]_vars => WriterInv'
  BY BaseNext, TurnsNext, AccountsNext DEF WriterInv
<1> QED BY <1>1, <1>2

\* What the code keeps of the single-writer invariant (src/lib.rs:9): no two
\* writers of an account run that were not asked to stop, however long those
\* that were asked take to end (src/accounts.rs:833).
THEOREM OneRunning ==
  ASSUME TakingTurns
  PROVE  Spec => []OneRunningWriter
<1>1. ASSUME WriterInv, NEW v \in writers, NEW w \in writers,
             {v.status, w.status} = {"running"}, v.id = w.id
      PROVE  v = w
  <2>1. v \in Of(v.id) /\ w \in Of(v.id) /\ v.id \in Ids
    BY <1>1 DEF WriterInv, Base, TypeOK, Of
  <2> QED BY <1>1, <2>1 DEF WriterInv, Accounts, Account, Held
<1>2. WriterInv => OneRunningWriter
  BY <1>1 DEF OneRunningWriter
<1> QED BY <1>2, WriterInvariant, PTL DEF Spec

\* Every writer that runs can be found and stopped.
THEOREM WritersFound ==
  ASSUME TakingTurns
  PROVE  Spec => []NoOrphan
<1>1. ASSUME WriterInv, NEW w \in writers, w.status = "running"
      PROVE  \/ Registered(w.id) /\ states[w.id].writer = w.n
             \/ \E x \in Actors : At(x, "insert") /\ job[x].id = w.id /\ job[x].writer = w.n
  <2>1. w.id \in Ids /\ w \in Of(w.id)
    BY <1>1 DEF WriterInv, Base, TypeOK, Of
  <2>2. \A x \in Actors : At(x, "insert") <=> Stage(x) = "insert"
    BY <1>1, StageAt DEF WriterInv, Base, Steps
  <2> QED BY <1>1, <2>1, <2>2 DEF WriterInv, Accounts, Account, Held
<1>2. WriterInv => NoOrphan
  BY <1>1 DEF NoOrphan
<1> QED BY <1>2, WriterInvariant, PTL DEF Spec

-----------------------------------------------------------------------------
(* The registry of readers.                                                *)

\* The registration of an account is left alone, with its writer, or removed.
LEMMA RegistryKept ==
  ASSUME Base, RegistryLive, NEW a \in Ids,
         registry'[a] # 0 =>
           /\ registry'[a] = registry[a]
           /\ \A w \in writers : w.id = a /\ w.status = "running" /\ w.n = registry[a] =>
                w \in writers'
  PROVE  registry'[a] # 0 =>
           \E w \in writers' : w.id = a /\ w.status = "running" /\ w.n = registry'[a]
BY DEF RegistryLive

\* No step leaves a registration without the running writer that made it, for
\* actors that overlap and accounts that are added again too.
LEMMA RegistryNext ==
  ASSUME Base, RegistryLive, [Next]_vars
  PROVE  RegistryLive'
<1> SUFFICES ASSUME NEW a \in Ids
             PROVE  registry'[a] # 0 =>
               \E w \in writers' : w.id = a /\ w.status = "running" /\ w.n = registry'[a]
  BY DEF RegistryLive
<1>1. /\ registry \in [Ids -> Nat] /\ opened \in [Ids -> Nat]
      /\ states \in [Ids -> Entries \cup {Nobody}]
      /\ writers \subseteq [id : Ids, n : Nat \ {0}, url : {c.url : c \in Configs},
                            status : {"running", "aborting"}]
  BY DEF Base, TypeOK
<1>2. CASE UNCHANGED <<registry, writers>>
  BY <1>2, RegistryKept
<1>3. CASE \E x \in Actors : Work(x)
  <2>1. PICK x \in Actors : Work(x)
    BY <1>3
  <2>2. PICK b \in Ids : b = job[x].id
    BY <2>1, WorkJob
  <2>3. CASE Stop(x)
    <3>1. PICK own : /\ \A w \in own : Registered(b) /\ w.id = b
                     /\ writers' = (writers \ own) \cup {[w EXCEPT !.status = "aborting"] : w \in own}
      BY <2>2, <2>3 DEF Stop
    <3>2. registry' = [registry EXCEPT ![b] = IF Registered(b) THEN 0 ELSE @]
      BY <2>2, <2>3 DEF Stop
    <3>3. CASE a = b /\ Registered(b)
      BY <1>1, <3>2, <3>3
    <3>4. CASE a # b \/ ~Registered(b)
      <4>1. registry'[a] = registry[a]
        BY <1>1, <3>2, <3>4
      <4>2. \A w \in writers : w.id = a => w \in writers'
        BY <3>1, <3>4
      <4> QED BY <4>1, <4>2, RegistryKept
    <3> QED BY <3>3, <3>4
  <2>4. CASE CheckDisabled(x) \/ CheckLimit(x) \/ Insert(x) \/ Wait(x) \/ Collect(x) \/ Save(x) \/ Mark(x)
    BY <1>2, <2>4 DEF CheckDisabled, CheckLimit, Insert, Wait, Collect, Save, Mark, runVars
  <2>5. CASE OpenFails(x)
    <3>1. UNCHANGED writers /\ (registry'[a] # 0 => registry'[a] = registry[a])
      BY <1>1, <2>2, <2>5 DEF OpenFails
    <3> QED BY <3>1, RegistryKept
  <2>6. CASE Open(x)
    <3>1. PICK n : n = opened[b] + 1
      OBVIOUS
    <3>2. PICK w : w = [id |-> b, n |-> n, url |-> job[x].cfg.url, status |-> "running"]
      OBVIOUS
    <3>3. writers' = writers \cup {w} /\ registry' = [registry EXCEPT ![b] = n]
      BY <2>2, <2>6, <3>1, <3>2 DEF Open
    <3>4. CASE a = b
      <4>1. registry'[a] = n /\ w \in writers' /\ w.id = a /\ w.n = n /\ w.status = "running"
        BY <1>1, <3>2, <3>3, <3>4
      <4> QED BY <4>1
    <3>5. CASE a # b
      <4>1. registry'[a] = registry[a] /\ \A v \in writers : v \in writers'
        BY <1>1, <3>3, <3>5
      <4> QED BY <4>1, RegistryKept
    <3> QED BY <3>4, <3>5
  <2> QED BY <2>1, <2>3, <2>4, <2>5, <2>6 DEF Work
<1>4. CASE ReadFile \/ Plan \/ PassEnds
  BY <1>2, <1>4 DEF ReadFile, Plan, PassEnds, runVars
<1>5. CASE \E b \in Ids : PassRemove(b) \/ PassApply(b)
  BY <1>2, <1>5 DEF PassRemove, PassApply, runVars
<1>6. CASE \E x \in Handlers, b \in Ids :
             (\E cfg \in Configs : AdminAdd(x, b, cfg)) \/ AdminRemove(x, b)
  BY <1>2, <1>6 DEF AdminAdd, AdminRemove, Begin, runVars
<1>7. CASE \E w \in writers : AbortLands(w) \/ Halt(w)
  <2>1. PICK w \in writers : Ends(w)
    BY <1>7 DEF AbortLands, Halt
  <2>2. writers' = writers \ {w} /\ registry' = [registry EXCEPT ![w.id] = 0]
    BY <2>1 DEF Ends
  <2>3. CASE a = w.id
    BY <1>1, <2>2, <2>3
  <2>4. CASE a # w.id
    <3>1. registry'[a] = registry[a] /\ \A v \in writers : v.id = a => v \in writers'
      BY <1>1, <2>2, <2>4
    <3> QED BY <3>1, RegistryKept
  <2> QED BY <2>3, <2>4
<1>8. CASE EditFile \/ UNCHANGED vars
  BY <1>2, <1>8 DEF EditFile, vars, runVars
<1>9. CASE Restart
  BY <1>9 DEF Restart
<1> QED BY <1>3, <1>4, <1>5, <1>6, <1>7, <1>8, <1>9 DEF Next, Reconcile

\* Whatever the actors do, and however long aborted writers take to end: the
\* registered reader of a file is that of a writer that runs (stop_account and
\* Drop, src/accounts.rs:855 and src/store/writer.rs:155, take back every other).
THEOREM RegistryAlwaysLive == Spec => []RegistryLive
<1>1. Init => RegistryLive
  BY DEF Init, RegistryLive
<1>2. Base /\ RegistryLive /\ [Next]_vars => (Base /\ RegistryLive)'
  BY BaseNext, RegistryNext
<1> QED BY <1>1, <1>2, BaseInit, PTL DEF Spec

-----------------------------------------------------------------------------
(* The file in force, as long as actors do not overlap.                    *)

\* A pass has done what it does not have before it, but for the account that
\* is worked on.
PassDone ==
  pass.phase \in {"load", "apply"} =>
    \A a \in Ids \ Pending :
      (\E x \in Actors : Working(x) /\ job[x].id = a) \/ Cfgs[a] = pass.desired[a]

\* Between passes the accounts are what was applied last, unless a request has
\* changed one and its listing is not noted yet.
InForce ==
  /\ pass.phase \in {"idle", "read"} /\ applied # Malformed
  /\ \A x \in Handlers : Stage(x) \notin {"wait", "collect", "save", "mark"}
  => applied = Cfgs

\* What a request is about to write is what is registered.
Collected == \A x \in Handlers : Stage(x) \in {"save", "mark"} => job[x].list = Cfgs

ForceInv == ~raced => PassDone /\ InForce /\ Collected

\* The entry a step leaves behind.
LEMMA Entered ==
  ASSUME Base, NEW x \in Actors, Stage(x) \in {"check", "open", "insert"},
         NEW writer \in Nat, NEW status \in {"starting", "disabled", "failed"},
         states' = [states EXCEPT ![job[x].id] =
                      [cfg |-> job[x].cfg, writer |-> writer, status |-> status]]
  PROVE  Cfgs'[job[x].id] = job[x].cfg
<1>1. Working(x) /\ job[x].id \in Ids
  BY StageAt DEF Base, JobShape
<1>2. states'[job[x].id] = [cfg |-> job[x].cfg, writer |-> writer, status |-> status]
  BY <1>1 DEF Base, TypeOK
<1>3. states'[job[x].id] # Nobody
  <2>1. states'[job[x].id] \in Entries
    BY <1>2, SpawnCfg DEF Entries
  <2> QED BY <2>1, AccountAssumption
<1> QED BY <1>1, <1>2, <1>3 DEF Cfgs, Registered

\* The reconciler works on an account.
LEMMA PassDoneWork ==
  ASSUME Base, Turns, Accounts, PassDone, NEW x \in Actors, Work(x), x \notin Handlers
  PROVE  PassDone'
<1>1. x = Reconciler
  BY DEF Actors
<1>2. /\ Working(x) /\ job[x].id \in Ids /\ job'[x].id = job[x].id
      /\ \A y \in Actors : y # x => job'[y] = job[y]
      /\ UNCHANGED pass /\ Account(job[x].id)
  BY WorkJob DEF Accounts
<1>3. job[x].cfg = pass.desired[job[x].id]
  BY <1>1, <1>2 DEF Base, PassShape
<1>4. PICK a \in Ids : a = job[x].id
  BY <1>2
<1>5. states \in [Ids -> Entries \cup {Nobody}] /\ job[x] \in Jobs
  BY DEF Base, TypeOK
<1>6. Stage(x)' = "done" => Cfgs'[a] = pass.desired[a]
  <2>1. CASE Wait(x) /\ Stage(x) = "wait" /\ Stage(x)' = "done"
    <3>1. job[x].cfg = Nobody
      BY <2>1, WorkStages DEF Stop, CheckDisabled, CheckLimit, Open, OpenFails, Insert, Collect, Save,
                             Mark, Wait
    <3>2. ~Registered(a) /\ UNCHANGED states
      BY <1>2, <1>4, <2>1, Found DEF Wait, runVars
    <3> QED BY <1>3, <1>4, <3>1, <3>2 DEF Cfgs, Registered
  <2>2. CASE CheckDisabled(x) /\ Stage(x) = "check"
    BY <1>3, <1>4, <2>2, Entered DEF CheckDisabled, Inactive
  <2>3. CASE GivesUp(x) /\ Stage(x) \in {"check", "open"}
    <3>1. Inactive(job[x].id, job[x].cfg, "failed")
      BY <2>3 DEF GivesUp
    <3> QED BY <1>3, <1>4, <2>3, <3>1, Entered DEF Inactive
  <2>4. CASE Insert(x) /\ Stage(x) = "insert"
    <3>1. job[x].writer \in Nat
      BY <1>5 DEF Jobs
    <3> QED BY <1>3, <1>4, <2>4, <3>1, Entered DEF Insert
  <2>5. CASE Mark(x) /\ Stage(x) = "mark"
    BY <2>5, StageAt DEF Base, Takes
  <2> QED BY <2>1, <2>2, <2>3, <2>4, <2>5, WorkStages DEF Skipped
<1>7. Stage(x)' # "done" => Working(x)'
  BY DEF Stage, First, Working
<1>8. \A b \in Ids : b # a => Cfgs'[b] = Cfgs[b]
  BY <1>4, WorkElse DEF Same, Cfgs, Registered
<1>9. Pending' = Pending
  BY <1>2 DEF Pending
<1>10. ASSUME pass.phase \in {"load", "apply"}, NEW b \in Ids \ Pending
       PROVE  (\E y \in Actors : Working(y)' /\ job'[y].id = b) \/ Cfgs'[b] = pass.desired[b]
  <2>1. CASE b = a
    BY <1>2, <1>4, <1>6, <1>7, <2>1
  <2>2. CASE b # a
    <3>1. ASSUME NEW y \in Actors, Working(y), job[y].id = b
          PROVE  Working(y)' /\ job'[y].id = b
      BY <1>2, <1>4, <2>2, <3>1 DEF Working
    <3> QED BY <1>8, <1>10, <2>2, <3>1 DEF PassDone
  <2> QED BY <2>1, <2>2
<1> QED BY <1>2, <1>9, <1>10 DEF PassDone

\* A request works on an account.
LEMMA ForceWork ==
  ASSUME Base, Turns, Accounts, Alone, ForceInv, NEW x \in Actors, Work(x)
  PROVE  ForceInv'
<1> SUFFICES ASSUME ~raced
             PROVE  PassDone' /\ InForce' /\ Collected'
  BY WorkJob DEF ForceInv
<1>1. PassDone /\ InForce /\ Collected
  BY DEF ForceInv
<1>2. /\ Working(x) /\ UNCHANGED pass
      /\ \A y \in Actors : y # x => job'[y] = job[y]
  BY WorkJob
<1>3. \A y \in Actors : y # x => Stage(y)' = "done"
  BY <1>2, StageAt DEF Alone, Base, Stage
<1>4. CASE x \notin Handlers
  <2>1. x = Reconciler
    BY <1>4 DEF Actors
  <2>2. pass.phase \notin {"idle", "read"}
    BY <1>2, <2>1 DEF Base, PassShape
  <2>3. InForce'
    BY <1>2, <2>2 DEF InForce
  <2>4. Collected'
    BY <1>3, <1>4 DEF Collected, Actors
  <2> QED BY <1>1, <1>4, <2>3, <2>4, PassDoneWork
<1>5. CASE x \in Handlers
  <2>1. pass.phase = "idle"
    BY <1>2, <1>5 DEF Alone
  <2>2. PassDone'
    BY <1>2, <2>1 DEF PassDone
  <2>3. \A y \in Handlers : y # x => Stage(y) = "done" /\ Stage(y)' = "done"
    BY <1>2, <1>3, StageAt DEF Alone, Base, Actors
  <2>4. CASE Collect(x) /\ Stage(x)' = "save"
    <3>1. job'[x].list = Cfgs /\ UNCHANGED states
      BY <2>4 DEF Collect, Base, TypeOK, Jobs, runVars
    <3>2. Collected'
      BY <2>3, <3>1 DEF Collected, Cfgs, Registered
    <3> QED BY <1>5, <2>2, <2>4, <3>2 DEF InForce
  <2>5. CASE Save(x) /\ Stage(x) = "save" /\ Stage(x)' = "mark"
    <3>1. job'[x].list = job[x].list /\ UNCHANGED states
      BY <2>5 DEF Save, Base, TypeOK, Jobs, runVars
    <3>2. Collected'
      BY <1>1, <1>5, <2>3, <2>5, <3>1 DEF Collected, Cfgs, Registered
    <3> QED BY <1>5, <2>2, <2>5, <3>2 DEF InForce
  <2>6. CASE Mark(x) /\ Stage(x) = "mark" /\ Stage(x)' = "done"
    <3>1. applied' = job[x].list /\ UNCHANGED states
      BY <2>6 DEF Mark, runVars
    <3>2. Collected'
      BY <2>3, <2>6 DEF Collected
    <3>3. applied' = Cfgs'
      BY <1>1, <1>5, <2>6, <3>1 DEF Collected, Cfgs, Registered
    <3> QED BY <2>2, <3>2, <3>3 DEF InForce
  <2>7. CASE Stage(x)' \in {"wait", "collect"}
    <3>1. Collected'
      BY <2>3, <2>7 DEF Collected
    <3> QED BY <1>5, <2>2, <2>7, <3>1 DEF InForce
  <2>8. CASE /\ Stage(x) \in {"check", "open"} /\ Stage(x)' \in {"open", "insert", "done"}
             /\ UNCHANGED <<states, applied>>
    <3>1. Collected'
      BY <2>3, <2>8 DEF Collected
    <3>2. \A y \in Handlers : Stage(y) \notin {"wait", "collect", "save", "mark"}
      BY <2>3, <2>8
    <3>3. applied # Malformed => applied = Cfgs
      BY <1>1, <2>1, <3>2 DEF InForce
    <3> QED BY <2>2, <2>8, <3>1, <3>3 DEF InForce, Cfgs, Registered
  <2>9. job[x].cfg = Nobody \/ Stage(x) # "wait"
    BY <1>5, StageAt DEF Base, Takes
  <2>10. GivesUp(x) => UNCHANGED states
    BY <1>5 DEF GivesUp
  <2>11. CheckLimit(x) \/ OpenFails(x) \/ Open(x) => UNCHANGED applied
    BY DEF CheckLimit, OpenFails, Open, fileVars
  <2>12. Open(x) => UNCHANGED states
    BY DEF Open
  <2> QED BY <1>5, <2>4, <2>5, <2>6, <2>7, <2>8, <2>9, <2>10, <2>11, <2>12, WorkStages DEF Skipped
<1> QED BY <1>4, <1>5

\* A pass takes up an account, or renames it in place.
LEMMA ForceTakes ==
  ASSUME Base, Turns, Alone, PassDone, ~raced, NEW a \in Ids, PassRemove(a) \/ PassApply(a)
  PROVE  PassDone' /\ InForce' /\ Collected'
<1>1. PICK x \in Actors : x = Reconciler
  BY DEF Actors
<1>2. /\ a \in Pending /\ Pending' = Pending \ {a} /\ ~Working(x)
      /\ pass'.phase = pass.phase /\ pass'.desired = pass.desired
      /\ \A b \in Ids : b # a => states'[b] = states[b]
      /\ \A y \in Actors : y # x => job'[y] = job[y]
  BY <1>1, TakenUp
<1>3. pass.phase \in {"load", "apply"}
  BY BasePassRemove, BasePassApply DEF Passing
<1>4. \A y \in Handlers : ~Working(y)
  BY <1>3 DEF Alone
<1>5. \A y \in Handlers : Stage(y)' = "done"
  BY <1>1, <1>2, <1>4, AccountAssumption DEF Stage, First, Working, Actors
<1>6. InForce' /\ Collected'
  BY <1>2, <1>3, <1>5 DEF InForce, Collected
<1>7. (Working(x)' /\ job'[x].id = a) \/ Cfgs'[a] = pass.desired[a]
  <2>1. CASE PassRemove(a)
    <3>1. job'[x].id = a /\ First(job'[x].todo) = "stop"
      BY <1>1, <2>1, BasePassRemove
    <3> QED BY <3>1 DEF First, Working
  <2>2. CASE /\ job'[x].id = a
             /\ First(job'[x].todo) = IF pass.prev[a] = Nobody THEN "check" ELSE "stop"
    BY <2>2 DEF First, Working
  <2>3. CASE /\ PassApply(a) /\ pass.prev[a] # Nobody
             /\ ~ConfigChanged(pass.prev[a], pass.desired[a])
             /\ states' = IF Registered(a)
                          THEN [states EXCEPT ![a].cfg.key = pass.desired[a].key] ELSE states
    <3>1. Cfgs[a] # Nobody /\ pass.prev[a] = Cfgs[a]
      BY <1>2, <2>3 DEF Turns
    <3>2. Registered(a) /\ states[a] \in Entries /\ Cfgs[a] = states[a].cfg
      BY <3>1 DEF Cfgs, Registered, Base, TypeOK
    <3>3. PICK new \in Settings : new = pass.desired[a]
      BY <2>3, BasePassApply
    <3>4. states'[a] # Nobody /\ states'[a].cfg = [states[a].cfg EXCEPT !.key = new.key]
      <4>1. states' = [states EXCEPT ![a].cfg.key = new.key]
        BY <2>3, <3>2, <3>3
      <4> QED BY <3>2, <3>3, <4>1, Renamed DEF Base
    <3>5. states[a].cfg \in Settings /\ states[a].cfg.url = new.url /\ states[a].cfg.active = new.active
      BY <2>3, <3>1, <3>2, <3>3 DEF ConfigChanged, Entries
    <3>6. [states[a].cfg EXCEPT !.key = new.key] = new
      BY <3>5 DEF Settings
    <3> QED BY <3>3, <3>4, <3>6 DEF Cfgs, Registered
  <2> QED BY <1>1, <2>1, <2>2, <2>3, BasePassApply
<1>8. ASSUME NEW b \in Ids \ Pending'
      PROVE  (\E y \in Actors : Working(y)' /\ job'[y].id = b) \/ Cfgs'[b] = pass.desired[b]
  <2>1. CASE b = a
    BY <1>7, <2>1
  <2>2. CASE b # a
    <3>1. b \in Ids \ Pending
      BY <1>2, <2>2, <1>8
    <3>2. \A y \in Actors : ~Working(y)
      BY <1>1, <1>2, <1>4 DEF Actors
    <3>3. Cfgs[b] = pass.desired[b]
      BY <1>3, <3>1, <3>2 DEF PassDone
    <3> QED BY <1>2, <2>2, <3>3 DEF Cfgs, Registered
  <2> QED BY <2>1, <2>2
<1>9. PassDone'
  BY <1>2, <1>8 DEF PassDone
<1> QED BY <1>6, <1>9

LEMMA StartForce == Starting => ForceInv
<1> SUFFICES ASSUME Starting
             PROVE  PassDone /\ InForce /\ Collected
  BY DEF ForceInv
<1>1. \A x \in Actors : Stage(x) = "done"
  BY DEF Starting, Stage, First, NoJob
<1>2. Cfgs = Nothing
  BY DEF Starting, Cfgs, Registered, Nothing
<1>3. PassDone
  <2> SUFFICES ASSUME pass.phase \in {"load", "apply"}, NEW a \in Ids \ Pending
               PROVE  Cfgs[a] = pass.desired[a]
    BY DEF PassDone
  <2>1. pass = [NoPass EXCEPT !.phase = "load", !.desired = file,
                              !.apply = {b \in Ids : file[b] # Nobody}]
    BY DEF Starting, Loading, NoPass
  <2>2. pass.desired = file /\ pass.apply = {b \in Ids : file[b] # Nobody}
    BY <2>1 DEF NoPass
  <2> QED BY <1>2, <2>2 DEF Pending, Nothing
<1>4. InForce
  <2>1. pass.phase \in {"idle", "read"} => file = Malformed
    BY DEF Starting, Loading, NoPass
  <2> QED BY <2>1 DEF InForce, Starting
<1>5. Collected
  BY <1>1 DEF Collected, Actors
<1> QED BY <1>3, <1>4, <1>5

LEMMA ForceNext ==
  ASSUME TakingTurns, Base, Turns, Accounts, Alone, ForceInv, [Next]_vars
  PROVE  ForceInv'
<1>1. ASSUME UNCHANGED <<states, applied, pass, job, raced>>
      PROVE  ForceInv'
  <2>1. /\ Cfgs' = Cfgs /\ Pending' = Pending
        /\ \A x \in Actors : Working(x)' = Working(x) /\ Stage(x)' = Stage(x)
    BY <1>1 DEF Cfgs, Registered, Pending, Working, Stage
  <2>2. PassDone => PassDone'
    BY <1>1, <2>1 DEF PassDone
  <2>3. InForce => InForce'
    BY <1>1, <2>1 DEF InForce, Actors
  <2>4. Collected => Collected'
    BY <1>1, <2>1 DEF Collected, Actors
  <2> QED BY <1>1, <2>2, <2>3, <2>4 DEF ForceInv
<1>2. CASE \E x \in Actors : Work(x)
  BY <1>2, ForceWork
<1>3. CASE \E a \in Ids : PassRemove(a) \/ PassApply(a)
  BY <1>3, ForceTakes, BasePassRemove, BasePassApply DEF ForceInv
<1>4. CASE ReadFile \/ Plan \/ PassEnds
  <2> SUFFICES ASSUME ~raced'
               PROVE  PassDone' /\ InForce' /\ Collected'
    BY DEF ForceInv
  <2>1. UNCHANGED <<states, job>>
    BY <1>4, BasePass DEF runVars
  <2>2. ~raced
    BY <1>4 DEF ReadFile, Plan, PassEnds, Base, TypeOK
  <2>3. /\ PassDone /\ InForce /\ Collected
        /\ Cfgs' = Cfgs /\ \A x \in Actors : Working(x)' = Working(x) /\ Stage(x)' = Stage(x)
    BY <2>1, <2>2 DEF ForceInv, Cfgs, Registered, Working, Stage
  <2>4. Collected'
    BY <2>1, <2>3 DEF Collected, Actors
  <2>5. CASE ReadFile
    <3>1. /\ pass.phase = "idle" /\ pass'.phase = "read" /\ UNCHANGED applied
      BY <2>5 DEF ReadFile, NoPass, fileVars
    <3>2. PassDone'
      BY <3>1 DEF PassDone
    <3>3. InForce'
      BY <2>3, <3>1 DEF InForce, Actors
    <3> QED BY <2>4, <3>2, <3>3
  <2>6. CASE Plan
    <3> DEFINE remove == {a \in Ids : Cfgs[a] # Nobody /\ pass.desired[a] = Nobody}
               apply == {a \in Ids : pass.desired[a] # Nobody /\ pass.desired[a] # Cfgs[a]}
    <3>1. pass' = [pass EXCEPT !.phase = "apply", !.prev = Cfgs, !.remove = remove, !.apply = apply]
      BY <2>6 DEF Plan
    <3>2. /\ pass'.phase = "apply" /\ pass'.desired = pass.desired
          /\ pass'.remove = remove /\ pass'.apply = apply
      BY <3>1 DEF Base, TypeOK, Passes
    <3>3. \A a \in Ids \ Pending' : Cfgs'[a] = pass'.desired[a]
      BY <2>3, <3>2 DEF Pending
    <3>4. PassDone'
      BY <3>3 DEF PassDone
    <3>5. InForce'
      BY <3>2 DEF InForce
    <3> QED BY <2>4, <3>4, <3>5
  <2>7. CASE PassEnds
    <3>1. /\ pass.phase \in {"load", "apply"} /\ ~Working(Reconciler) /\ Pending = {}
          /\ applied' = pass.desired /\ pass' = NoPass
      BY <2>7 DEF PassEnds, Passing, Pending
    <3>2. \A x \in Actors : ~Working(x)
      BY <2>2, <3>1 DEF Alone, Actors
    <3>3. \A a \in Ids : Cfgs[a] = pass.desired[a]
      BY <2>3, <3>1, <3>2 DEF PassDone
    <3>4. Cfgs \in Listings /\ pass.desired \in Listings
      BY CfgsType DEF Base, TypeOK, Passes
    <3>5. Cfgs = pass.desired
      BY <3>3, <3>4 DEF Listings
    <3>6. InForce'
      BY <2>3, <3>1, <3>5 DEF InForce
    <3>7. PassDone'
      BY <3>1 DEF PassDone, NoPass
    <3> QED BY <2>4, <3>6, <3>7
  <2> QED BY <1>4, <2>5, <2>6, <2>7
<1>5. CASE \E x \in Handlers, a \in Ids :
             (\E cfg \in Configs : AdminAdd(x, a, cfg)) \/ AdminRemove(x, a)
  <2> SUFFICES ASSUME ~raced'
               PROVE  PassDone' /\ InForce' /\ Collected'
    BY DEF ForceInv
  <2>1. PICK x \in Handlers, a \in Ids :
             (\E cfg \in Configs : AdminAdd(x, a, cfg)) \/ AdminRemove(x, a)
    BY <1>5
  <2>2. /\ \A y \in Actors : y # x => job'[y] = job[y]
        /\ Stage(x)' \in {"check", "stop"} /\ UNCHANGED <<states, pass, applied>>
        /\ raced' = (raced \/ ~Quiet)
    BY <2>1, BaseBegin DEF runVars, fileVars
  <2>3. ~raced /\ pass.phase = "idle" /\ \A y \in Actors : Stage(y) = "done"
    BY <2>2, StageAt DEF Quiet, Base, TypeOK
  <2>4. \A y \in Actors : y # x => Stage(y)' = "done"
    BY <2>2, <2>3 DEF Stage
  <2>5. Cfgs' = Cfgs /\ InForce
    BY <2>2, <2>3 DEF Cfgs, Registered, ForceInv
  <2>6. PassDone'
    BY <2>2, <2>3 DEF PassDone
  <2>7. InForce'
    BY <2>2, <2>3, <2>5 DEF InForce, Actors
  <2>8. Collected'
    BY <2>2, <2>4 DEF Collected, Actors
  <2> QED BY <2>6, <2>7, <2>8
<1>6. CASE (\E w \in writers : AbortLands(w) \/ Halt(w)) \/ EditFile \/ UNCHANGED vars
  <2>1. UNCHANGED <<states, applied, pass, job, raced>>
    BY <1>6, BaseEnds, BaseEdit DEF vars, runVars, fileVars
  <2> QED BY <1>1, <2>1
<1>7. CASE Restart
  <2>1. (Starting => ForceInv)'
    BY StartForce, PTL
  <2> QED BY <1>7, <2>1, RestartStarts
<1> QED BY <1>2, <1>3, <1>4, <1>5, <1>6, <1>7 DEF Next, Reconcile

\* When nobody works and the file is applied, what is registered is what the
\* file lists, and an account runs as its entry says or is marked as failed.
THEOREM FileTakesForce ==
  ASSUME TakingTurns
  PROVE  Spec => []FileInForce
<1> DEFINE IInv == WriterInv /\ Alone /\ ForceInv
<1>1. Init => IInv
  BY WriterInvariant, LimitInit, StartForce, InitStarts
<1>2. IInv /\ [Next]_vars => IInv'
  <2> SUFFICES ASSUME IInv, [Next]_vars
               PROVE  IInv'
    OBVIOUS
  <2>1. WriterInv'
    BY WriterInvariant
  <2> QED BY <2>1, AloneNext, ForceNext DEF WriterInv
<1>3. IInv => FileInForce
  <2> SUFFICES ASSUME IInv, Quiet, file = applied, file # Malformed, ~raced, NEW a \in Ids
               PROVE  /\ Cfgs[a] = file[a]
                      /\ Registered(a) =>
                           IF HasTasks(a)
                           THEN /\ file[a].active
                                /\ \A w \in writers :
                                     w.id = a /\ w.status = "running" => w.url = file[a].url
                           ELSE file[a].active => states[a].status = "failed"
    BY DEF FileInForce
  <2>1. \A x \in Handlers : Stage(x) = "done"
    BY StageAt DEF Quiet, WriterInv, Base, Actors
  <2>2. applied = Cfgs
    BY <2>1 DEF ForceInv, InForce, Quiet
  <2>3. Account(a)
    BY DEF WriterInv, Accounts
  <2>4. Registered(a) => file[a] = states[a].cfg
    BY <2>2 DEF Cfgs
  <2> QED BY <2>2, <2>3, <2>4 DEF Account, Entry, Of
<1> QED BY <1>1, <1>2, <1>3, PTL DEF Spec

=============================================================================
