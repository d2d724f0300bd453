--------------------------- MODULE AccountManager ---------------------------
(***************************************************************************)
(* The life of the hosted accounts (src/accounts.rs): the daemon loads     *)
(* accounts.json, a task reconciles the running accounts with it whenever  *)
(* it changes, and admin requests (src/api/router.rs) add and remove       *)
(* accounts and write the file.  Each running account has a StoreWriter,   *)
(* which opens the account's DuckDB file and registers a reader of it for  *)
(* the queries (src/api/queries.rs).                                       *)
(*                                                                         *)
(* What the program does as one procedure is several steps here, wherever  *)
(* another thread can come in between: an actor (the reconciling task or a *)
(* request) works off the steps of its job.  Aborting a task only asks it  *)
(* to stop, and nobody waits for it to end.                                *)
(*                                                                         *)
(* Bounds: MaxEdits edits of the file, MaxRequests admin requests,         *)
(* MaxFaults faults (a store that cannot be opened, a writer that halts, a *)
(* restart of the daemon).                                                 *)
(***************************************************************************)
EXTENDS Integers, Sequences, FiniteSets

CONSTANTS
  Ids,          \* account ids
  Configs,      \* their configurations: [url, key, active]
  Handlers,     \* admin requests served at a time
  Reconciler,   \* the task that loads and reconciles the accounts
  MaxAccounts,  \* max_accounts
  SameId,       \* may two actors work on one account at a time?
  Readd,        \* may a request add an account that runs?
  MaxEdits, MaxRequests, MaxFaults,
  Nobody, Malformed

Actors == Handlers \cup {Reconciler}

\* Configurations (renaming an account in place may mix two of those listed),
\* the registered account that has one, and what a file may list.
Settings ==
  [url : {c.url : c \in Configs}, key : {c.key : c \in Configs}, active : BOOLEAN]
Entries == [cfg : Settings, writer : Nat, status : {"starting", "disabled", "failed"}]
Listings == [Ids -> Settings \cup {Nobody}]

ASSUME AccountAssumption ==
  /\ Configs \subseteq Settings
  /\ Reconciler \notin Handlers
  /\ Nobody \notin Ids /\ Nobody \notin Settings /\ Nobody \notin Entries
  /\ Malformed \notin Listings
  /\ {SameId, Readd} \subseteq BOOLEAN
  /\ {MaxAccounts, MaxEdits, MaxRequests, MaxFaults} \subseteq Nat

VARIABLES
  file,      \* accounts.json
  applied,   \* last_applied_hash: the listing it is the hash of; Malformed stands for none
  states,    \* the registered accounts
  writers,   \* writer tasks that live, with the file they hold
  registry,  \* READER_REGISTRY: the writer whose reader is registered, or 0
  opened,    \* stores opened per account by this daemon; numbers the writers
  pass,      \* the reconciler: its pass over the file
  job,       \* per actor: the account it works on and the steps left
  raced,     \* since the daemon started, an actor began while another worked
  edits, requests, faults

fileVars == <<file, applied>>
runVars == <<states, writers, registry, opened>>
countVars == <<edits, requests, faults>>
vars == <<fileVars, runVars, pass, job, raced, countVars>>

-----------------------------------------------------------------------------
Listing == [Ids -> Configs \cup {Nobody}]
Nothing == [a \in Ids |-> Nobody]

Steps == {"stop", "wait", "check", "open", "insert", "collect", "save", "mark"}
Spawning == <<"check", "open", "insert">>
Stopping == <<"stop", "wait">>
Saving == <<"collect", "save", "mark">>

Registered(a) == states[a] # Nobody
HasTasks(a) == Registered(a) /\ states[a].writer # 0
Cfgs == [a \in Ids |-> IF Registered(a) THEN states[a].cfg ELSE Nobody]

Working(x) == job[x].todo # <<>>
At(x, step) == Working(x) /\ Head(job[x].todo) = step

\* Accounts an actor works on or is about to.
Touched ==
  {job[x].id : x \in {y \in Actors : Working(y)}} \cup pass.remove \cup pass.apply

Quiet == pass.phase = "idle" /\ \A x \in Actors : ~Working(x)

NoPass == [phase |-> "idle", desired |-> Nothing, prev |-> Nothing, remove |-> {}, apply |-> {}]

\* try_load_persisted: the daemon starts with what the file lists, and without
\* accounts when it is malformed and will be read again.
Loading(f) ==
  IF f = Malformed THEN NoPass
  ELSE [NoPass EXCEPT !.phase = "load", !.desired = f, !.apply = {a \in Ids : f[a] # Nobody}]

NoJob == [id |-> Nobody, cfg |-> Nobody, todo |-> <<>>,
          writer |-> 0, list |-> Nothing]

Init ==
  /\ file \in Listing
  /\ applied = file
  /\ states = Nothing
  /\ writers = {}
  /\ registry = [a \in Ids |-> 0]
  /\ opened = [a \in Ids |-> 0]
  /\ pass = Loading(file)
  /\ job = [x \in Actors |-> NoJob]
  /\ raced = FALSE
  /\ edits = 0 /\ requests = 0 /\ faults = 0

-----------------------------------------------------------------------------
\* stop_account

\* Mutant: the account is forgotten and its tasks are not asked to stop.
StopForgetful(x) ==
  /\ At(x, "stop")
  /\ states' = [states EXCEPT ![job[x].id] = Nobody]
  /\ registry' = [registry EXCEPT ![job[x].id] = IF Registered(job[x].id) THEN 0 ELSE @]
  /\ job' = [job EXCEPT ![x].todo = Tail(@)]
  /\ UNCHANGED <<fileVars, writers, opened, pass, raced, countVars>>

\* Mutant: the readers of the file stay registered.
StopKeepsReaders(x) ==
  /\ At(x, "stop")
  /\ LET a == job[x].id
         own == {w \in writers : Registered(a) /\ w.id = a /\ w.n = states[a].writer}
     IN  /\ states' = [states EXCEPT ![a] = Nobody]
         /\ writers' = (writers \ own) \cup {[w EXCEPT !.status = "aborting"] : w \in own}
  /\ job' = [job EXCEPT ![x].todo = Tail(@)]
  /\ UNCHANGED <<fileVars, registry, opened, pass, raced, countVars>>

\* The account is taken out of the maps, its tasks are asked to stop, and the
\* readers of its file are unregistered.
Stop(x) ==
  /\ At(x, "stop")
  /\ LET a == job[x].id
         own == {w \in writers : Registered(a) /\ w.id = a /\ w.n = states[a].writer}
     IN  /\ states' = [states EXCEPT ![a] = Nobody]
         /\ writers' = (writers \ own) \cup {[w EXCEPT !.status = "aborting"] : w \in own}
         /\ registry' = [registry EXCEPT ![a] = IF Registered(a) THEN 0 ELSE @]
  /\ job' = [job EXCEPT ![x].todo = Tail(@)]
  /\ UNCHANGED <<fileVars, opened, pass, raced, countVars>>

\* The files are unlinked, or 30 ms go by.  The writer may have ended by then or
\* not: the retries are for a file that cannot be unlinked, which happens where
\* an open file is locked, and the sleep is not for the task to end.
Wait(x) ==
  /\ At(x, "wait")
  /\ job' = [job EXCEPT ![x].todo = Tail(@)]
  /\ UNCHANGED <<fileVars, runVars, pass, raced, countVars>>

\* A writer ends at its next await, and its Drop unregisters the path, whoever
\* has registered it.
Ends(w) ==
  /\ writers' = writers \ {w}
  /\ registry' = [registry EXCEPT ![w.id] = 0]

AbortLands(w) ==
  /\ w.status = "aborting"
  /\ Ends(w)
  /\ UNCHANGED <<fileVars, states, opened, pass, job, raced, countVars>>

\* A writer halts by itself; the account stays registered.
Halt(w) ==
  /\ w.status = "running"
  /\ faults < MaxFaults
  /\ faults' = faults + 1
  /\ Ends(w)
  /\ UNCHANGED <<fileVars, states, opened, pass, job, raced, edits, requests>>

-----------------------------------------------------------------------------
\* spawn_and_add_account

\* The steps left when an account is not started: a request writes the file.
NotSpawned(x) == IF x \in Handlers THEN Saving ELSE <<>>

\* Mutant: the configuration is not kept.
InactiveEmpty(a, cfg, status) ==
  states' = [states EXCEPT ![a] = [cfg |-> Nobody, writer |-> 0, status |-> status]]

\* register_inactive_account
Inactive(a, cfg, status) ==
  states' = [states EXCEPT ![a] = [cfg |-> cfg, writer |-> 0, status |-> status]]

\* An error: a request gives up, the reconciler registers the account as failed.
GivesUp(x) ==
  IF x \in Handlers
  THEN job' = [job EXCEPT ![x].todo = <<>>] /\ UNCHANGED states
  ELSE /\ Inactive(job[x].id, job[x].cfg, "failed")
       /\ job' = [job EXCEPT ![x].todo = NotSpawned(x)]

\* The accounts that count when a is to be started.
ActiveOthers(a) == {b \in Ids \ {a} : HasTasks(b)}

CheckDisabled(x) ==
  /\ At(x, "check") /\ ~job[x].cfg.active
  /\ Inactive(job[x].id, job[x].cfg, "disabled")
  /\ job' = [job EXCEPT ![x].todo = NotSpawned(x)]
  /\ UNCHANGED <<fileVars, writers, registry, opened, pass, raced, countVars>>

\* Mutant: the limit is off by one.
CheckLimitLate(x) ==
  /\ At(x, "check") /\ job[x].cfg.active
  /\ IF Cardinality(ActiveOthers(job[x].id)) > MaxAccounts
     THEN GivesUp(x)
     ELSE job' = [job EXCEPT ![x].todo = Tail(@)] /\ UNCHANGED states
  /\ UNCHANGED <<fileVars, writers, registry, opened, pass, raced, countVars>>

CheckLimit(x) ==
  /\ At(x, "check") /\ job[x].cfg.active
  /\ IF Cardinality(ActiveOthers(job[x].id)) >= MaxAccounts
     THEN GivesUp(x)
     ELSE job' = [job EXCEPT ![x].todo = Tail(@)] /\ UNCHANGED states
  /\ UNCHANGED <<fileVars, writers, registry, opened, pass, raced, countVars>>

\* The store is opened, the writer registers its reader, and the tasks start.
Open(x) ==
  /\ At(x, "open")
  /\ LET a == job[x].id
         n == opened[a] + 1
     IN  /\ opened' = [opened EXCEPT ![a] = n]
         /\ writers' = writers \cup
              {[id |-> a, n |-> n, url |-> job[x].cfg.url, status |-> "running"]}
         /\ registry' = [registry EXCEPT ![a] = n]
         /\ job' = [job EXCEPT ![x].todo = Tail(@), ![x].writer = n]
  /\ UNCHANGED <<fileVars, states, pass, raced, countVars>>

\* A secret is missing or the store cannot be opened; when it fails behind the
\* registration, dropping the writer takes that back.
OpenFails(x) ==
  /\ At(x, "open")
  /\ faults < MaxFaults
  /\ faults' = faults + 1
  /\ GivesUp(x)
  /\ registry' \in {registry, [registry EXCEPT ![job[x].id] = 0]}
  /\ UNCHANGED <<fileVars, writers, opened, pass, raced, edits, requests>>

\* add_account_state
Insert(x) ==
  /\ At(x, "insert")
  /\ states' = [states EXCEPT ![job[x].id] =
       [cfg |-> job[x].cfg, writer |-> job[x].writer, status |-> "starting"]]
  /\ job' = [job EXCEPT ![x].todo = Tail(@)]
  /\ UNCHANGED <<fileVars, writers, registry, opened, pass, raced, countVars>>

-----------------------------------------------------------------------------
\* Admin requests

Begin(x, a, cfg, todo) ==
  /\ ~Working(x)
  /\ requests < MaxRequests
  /\ pass.phase # "load"
  /\ SameId \/ a \notin Touched
  /\ requests' = requests + 1
  /\ raced' = (raced \/ ~Quiet)
  /\ job' = [job EXCEPT ![x] = [NoJob EXCEPT !.id = a, !.cfg = cfg, !.todo = todo]]
  /\ UNCHANGED <<fileVars, runVars, pass, edits, faults>>

\* admin_add_account; the id is the client's choice.
AdminAdd(x, a, cfg) ==
  /\ cfg.active
  /\ Readd \/ ~HasTasks(a)
  /\ Begin(x, a, cfg, Spawning \o Saving)

\* admin_remove_account
AdminRemove(x, a) == Begin(x, a, Nobody, Stopping \o Saving)

\* get_accounts
Collect(x) ==
  /\ At(x, "collect")
  /\ job' = [job EXCEPT ![x].todo = Tail(@), ![x].list = Cfgs]
  /\ UNCHANGED <<fileVars, runVars, pass, raced, countVars>>

\* save_persisted writes the file...
Save(x) ==
  /\ At(x, "save")
  /\ file' = job[x].list
  /\ job' = [job EXCEPT ![x].todo = Tail(@)]
  /\ UNCHANGED <<applied, runVars, pass, raced, countVars>>

\* ...and notes its hash, so that the reconciler leaves it alone.
Mark(x) ==
  /\ At(x, "mark")
  /\ applied' = job[x].list
  /\ job' = [job EXCEPT ![x].todo = Tail(@)]
  /\ UNCHANGED <<file, runVars, pass, raced, countVars>>

-----------------------------------------------------------------------------
\* reconcile, and the loop of run_serve that loads the accounts

\* The file is read; nothing is done when it has been applied or is malformed.
ReadFile ==
  /\ pass.phase = "idle"
  /\ file \notin {applied, Malformed}
  /\ pass' = [NoPass EXCEPT !.phase = "read", !.desired = file]
  /\ raced' = (raced \/ \E x \in Handlers : Working(x))
  /\ UNCHANGED <<fileVars, runVars, job, countVars>>

\* Mutant: only another server counts.
UrlChanged(old, new) == old.url # new.url

\* Does a new configuration of an account need its tasks to be restarted?
ConfigChanged(old, new) == old.url # new.url \/ old.active # new.active

\* existing_accounts: what is to be done follows from what is registered now.
Plan ==
  /\ pass.phase = "read"
  /\ LET want == pass.desired
         remove == {a \in Ids : Cfgs[a] # Nobody /\ want[a] = Nobody}
         apply == {a \in Ids : want[a] # Nobody /\ want[a] # Cfgs[a]}
     IN  /\ SameId \/ (remove \cup apply) \cap Touched = {}
         /\ pass' = [pass EXCEPT !.phase = "apply", !.prev = Cfgs,
                                 !.remove = remove, !.apply = apply]
  /\ UNCHANGED <<fileVars, runVars, job, raced, countVars>>

Passing == pass.phase \in {"load", "apply"} /\ ~Working(Reconciler)

Assign(a, todo) ==
  job' = [job EXCEPT ![Reconciler] =
            [NoJob EXCEPT !.id = a, !.cfg = pass.desired[a], !.todo = todo]]

\* First the accounts that disappeared from the file are stopped...
PassRemove(a) ==
  /\ Passing /\ a \in pass.remove
  /\ pass' = [pass EXCEPT !.remove = @ \ {a}]
  /\ Assign(a, Stopping)
  /\ UNCHANGED <<fileVars, runVars, raced, countVars>>

\* ...then the listed ones are started, restarted, or renamed in place.
PassApply(a) ==
  /\ Passing /\ pass.remove = {} /\ a \in pass.apply
  /\ pass' = [pass EXCEPT !.apply = @ \ {a}]
  /\ LET old == pass.prev[a]
         new == pass.desired[a]
     IN  \/ /\ old = Nobody
            /\ Assign(a, Spawning)
            /\ UNCHANGED states
         \/ /\ old # Nobody /\ ConfigChanged(old, new)
            /\ Assign(a, Stopping \o Spawning)
            /\ UNCHANGED states
         \/ /\ old # Nobody /\ ~ConfigChanged(old, new)
            /\ states' = IF Registered(a) THEN [states EXCEPT ![a].cfg.key = new.key] ELSE states
            /\ UNCHANGED job
  /\ UNCHANGED <<fileVars, writers, registry, opened, raced, countVars>>

\* Mutant: the hash is not noted.
PassEndsUnmarked ==
  /\ Passing /\ pass.remove = {} /\ pass.apply = {}
  /\ pass' = NoPass
  /\ UNCHANGED <<fileVars, runVars, job, raced, countVars>>

PassEnds ==
  /\ Passing /\ pass.remove = {} /\ pass.apply = {}
  /\ applied' = pass.desired
  /\ pass' = NoPass
  /\ UNCHANGED <<file, runVars, job, raced, countVars>>

-----------------------------------------------------------------------------
\* The environment

\* The operator edits the file.
EditFile ==
  /\ edits < MaxEdits
  /\ edits' = edits + 1
  /\ file' \in (Listing \cup {Malformed}) \ {file}
  /\ UNCHANGED <<applied, runVars, pass, job, raced, requests, faults>>

\* The daemon stops, for whatever reason, and starts again.
Restart ==
  /\ faults < MaxFaults
  /\ faults' = faults + 1
  /\ applied' = file
  /\ states' = Nothing
  /\ writers' = {}
  /\ registry' = [a \in Ids |-> 0]
  /\ pass' = Loading(file)
  /\ job' = [x \in Actors |-> NoJob]
  /\ opened' = [a \in Ids |-> 0]
  /\ raced' = FALSE
  /\ UNCHANGED <<file, edits, requests>>

Work(x) ==
  \/ Stop(x) \/ Wait(x)
  \/ CheckDisabled(x) \/ CheckLimit(x) \/ Open(x) \/ OpenFails(x) \/ Insert(x)
  \/ Collect(x) \/ Save(x) \/ Mark(x)

Reconcile ==
  \/ ReadFile \/ Plan \/ PassEnds
  \/ \E a \in Ids : PassRemove(a) \/ PassApply(a)

Next ==
  \/ \E x \in Actors : Work(x)
  \/ Reconcile
  \/ \E x \in Handlers, a \in Ids :
       (\E cfg \in Configs : AdminAdd(x, a, cfg)) \/ AdminRemove(x, a)
  \/ \E w \in writers : AbortLands(w) \/ Halt(w)
  \/ EditFile
  \/ Restart

\* The reconciling task ticks and runs, requests run to their end, and aborted
\* tasks end.
Fairness ==
  /\ WF_vars(Reconcile \/ Work(Reconciler))
  /\ \A x \in Handlers : WF_vars(Work(x))
  /\ WF_vars(\E w \in writers : AbortLands(w))

Spec == Init /\ [][Next]_vars
FairSpec == Spec /\ Fairness

-----------------------------------------------------------------------------
Jobs == [id : Ids \cup {Nobody}, cfg : Settings \cup {Nobody}, todo : Seq(Steps),
         writer : Nat, list : Listings]
Passes == [phase : {"idle", "read", "apply", "load"}, desired : Listings, prev : Listings,
           remove : SUBSET Ids, apply : SUBSET Ids]

\* Type correctness.
TypeOK ==
  /\ {file, applied} \subseteq Listings \cup {Malformed}
  /\ states \in [Ids -> Entries \cup {Nobody}]
  /\ writers \subseteq [id : Ids, n : Nat \ {0}, url : {c.url : c \in Configs},
                      status : {"running", "aborting"}]
  /\ registry \in [Ids -> Nat]
  /\ opened \in [Ids -> Nat]
  /\ pass \in Passes
  /\ job \in [Actors -> Jobs]
  /\ raced \in BOOLEAN
  /\ edits \in 0..MaxEdits /\ requests \in 0..MaxRequests /\ faults \in 0..MaxFaults

\* The single-writer invariant of src/lib.rs:9: no two writers hold the file
\* of one account.  An aborted writer holds it until its next await.
OneWriterPerFile == \A v, w \in writers : v.id = w.id => v = w

\* What the code keeps of it: no two writers that are meant to run do.
OneRunningWriter ==
  \A v, w \in writers : {v.status, w.status} = {"running"} /\ v.id = w.id => v = w

\* Every writer that runs can be found and stopped: it belongs to a registered
\* account, or the actor that started it is about to register it.
NoOrphan ==
  \A w \in writers : w.status = "running" =>
    \/ Registered(w.id) /\ states[w.id].writer = w.n
    \/ \E x \in Actors : At(x, "insert") /\ job[x].id = w.id /\ job[x].writer = w.n

\* The readers of a running account go through its writer's instance
\* (src/api/queries.rs:77): the registration survives the end of a predecessor.
ReadersRegistered ==
  \A w \in writers :
    w.status = "running" /\ Registered(w.id) /\ states[w.id].writer = w.n => registry[w.id] = w.n

\* What the code keeps of it: a registration is that of a writer that runs, so
\* no reader works on the instance of an account that was stopped or replaced,
\* and the registry keeps no file open that nobody writes.
RegistryLive ==
  \A a \in Ids : registry[a] # 0 =>
    \E w \in writers : w.id = a /\ w.status = "running" /\ w.n = registry[a]

\* No more accounts run than max_accounts, as long as actors do not overlap
\* (the limit is checked before the account is registered).
AccountLimit == ~raced => Cardinality({a \in Ids : HasTasks(a)}) <= MaxAccounts

\* When nobody works and the file is applied, what is registered is what the
\* file lists; an account runs as its entry says, or is marked as failed.
FileInForce ==
  Quiet /\ file = applied /\ file # Malformed /\ ~raced =>
    \A a \in Ids :
      /\ Cfgs[a] = file[a]
      /\ Registered(a) =>
           IF HasTasks(a)
           THEN /\ file[a].active
                /\ \A w \in writers : w.id = a /\ w.status = "running" => w.url = file[a].url
           ELSE file[a].active => states[a].status = "failed"

\* An edit of the file that can be read is applied, sooner or later.
EditsApplied == []<>(file \in {applied, Malformed})

\* Every account listed as active runs when the limit leaves room for all of
\* them: reconcile "starts new accounts, stops removed accounts, and respawns
\* accounts whose connection URL, status, or filters changed".
ActiveAccountsRun ==
  Quiet /\ file = applied /\ file # Malformed /\ ~raced /\ faults = 0
    /\ Cardinality({a \in Ids : file[a] # Nobody /\ file[a].active}) <= MaxAccounts =>
      \A a \in Ids : file[a] # Nobody /\ file[a].active => HasTasks(a)

=============================================================================
