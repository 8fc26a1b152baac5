# A formal model of the Whiteglove Scheduler

TLA+ modules, TLC runs and TLAPS proofs about the meeting scheduler of this
repository: the worker that starts and ends meetings, the web requests that
change them at the same time, the SQLite database both share and the Pexip node
both call; and around these the invitations, the accounts and sessions, the
directory of endpoints, the calendar and the page that shows it, and the
services with the script that upgrades them. Paths below are those of the
repository.

## 1. The system

| part | code | state | operations |
|---|---|---|---|
| scheduler worker | `worker.py`, `app/scheduler_jobs.py` | none of its own between ticks; within a tick what each job has read | a tick every 10 s, never two at a time (`max_instances=1`): recover, expire, end, start |
| meetings API | `app/routes/meetings.py` | none between requests | create, update, edit, extend, delete; redial, add and remove an endpoint; resend an invitation |
| database | `app/database.py` | `meetings`, `meeting_endpoints`, `meeting_invitees`, `users`, `auth_events`, `endpoint_display_overrides`, `scheduler_heartbeat` | transactions; one writer at a time, `busy_timeout` 5 s |
| Pexip client | `app/pexip.py` | none; the conference and its participants are on the node | control token, dial, disconnect a conference or a participant, list participants or registered endpoints |
| invitations | `app/email_service.py` | rows of `meeting_invitees` | send, inside the transaction of the request |
| health | `app/routes/health.py` | the heartbeat row | is the last heartbeat younger than 30 s? |
| queries, name matching | `app/meeting_utils.py` | none | ranges, classification, alias normalisation, match of participants with endpoints |
| endpoint directory | `app/routes/endpoints.py` | display name overrides | list, set, clear |
| authentication | `app/auth/`, `app/routes/auth.py`, `app/manage_users.py` | users, sessions | log in and out, Entra callback, disable, roles |
| frontend | `app/static/app.js` | the lists it shows, the form being edited | polls every 3 s, sends the requests above |
| deployment | `deploy/*.sh`, systemd units | installed files, database backups | install, upgrade, verify, uninstall |
| export, configuration, pages | `app/routes/export.py`, `app/config.py`, `app/routes/ui.py` | none | read only |

**Interaction.** There is no message between the web process and the worker:
they meet in the rows of `meetings` and `meeting_endpoints` only. The worker is
one process and runs one step of one job at a time; gunicorn runs two processes
of four threads. Every commit, and every HTTP call to Pexip (up to 20 s), is a
point where all others may run. The worker keeps what a `SELECT` returned while
it works on the candidates one by one, possibly for minutes. What guards the
rows is a *claim*: `UPDATE ... SET status = 'starting' WHERE id = ? AND status =
'scheduled'`, and every later `UPDATE` of the worker repeats the status it
expects.

**What is hard.**

- stale reads: candidates, clock and live participants are read once per job;
  requests decide on a row and write it later without looking again;
- crashes: between a dial and its commit, between a claim and the outcome.
  `recover_stuck_meetings` picks up what is in `starting` or `ending` for longer
  than `CRASH_RECOVERY_MINUTES`;
- calls that fail: a refused call and a call that times out after it was carried
  out look the same;
- a locked database: emails are sent inside a transaction, so the write lock can
  be held for longer than `busy_timeout` and any `UPDATE` may raise, in the
  handler of another exception too;
- time: each job uses the clock of its start for all it writes;
- copies: a request works on the cookie it came with, a page on the last answer
  that arrived, a dialog on the page, a backup on the main file of the database
  without its WAL; each may be older than what it replaces.

`PROJECT.json` lists each hazard at its line with the property that covers it.

**What makes the parts correct.**

- *worker*: a meeting moves along its lifecycle and never back; nobody else moves
  a meeting it has claimed; the outcome it records is the one that happened
  (`started` means dialled, `ended` means disconnected); it calls nobody twice;
  it starts and ends meetings when it should; every meeting comes to an end
  whatever failed;
- *meetings API*: what a request writes is allowed by the row as it is when it
  writes; what its answer says is what is stored; two requests do not undo one
  another;
- *database, Pexip client*: a commit is all or nothing; a call that reports
  success was carried out;
- *invitations*: whoever is recorded as invited was sent an email, and is not
  sent it again by an update;
- *health*: a worker that has stopped is reported, a busy one is not;
- *queries, name matching*: normalisation is idempotent, a participant matches
  the endpoint it is the leg of and no other, every meeting is in one category;
- *endpoint directory*: an override shows for the endpoint it was set for;
- *authentication*: a session gives no more than the user's row allows at the
  time of the request;
- *frontend*: what is shown is not older than what was shown before; a refresh
  does not overwrite a form being edited;
- *upgrade script*: wherever it stops, the old or the new version can be started
  on a database of its own.

## 2. The modules

```
Store --- Pexip --+-- Worker ------+-- System --+-- MCSystem            (TLC)
                  +-- MeetingsApi -+            +-- SystemProofs        (TLAPS)
                                   |                 +-- LifecycleProofs
   MeetingLifecycle, Calendar -----+                      +-- ClaimProofs
   (INSTANCE, refinement mappings)

Invitations --+-- MCInvitations        Accounts ----+-- MCAccounts
              +-- InvitationsProofs                 +-- AccountsProofs
Deployment ---+-- MCDeployment         Directory ---+-- MCDirectory
              +-- DeploymentProofs                  +-- DirectoryProofs
Calendar -----+-- MCCalendar
              +-- Page -------+-- MCPage
                              +-- PageProofs
```

`System` is the core: the worker, the requests, the database and Pexip composed.
The other five models each take one table, or one kind of copy, and what changes
it; they are separate because they share with the core no more than the status
of a meeting, which they let change as the core's refinement of
`MeetingLifecycle` allows (`Claimed` in `Invitations`, `Start` in `Directory`). What
`Calendar` lets happen to a row is what `System` does to it, by a second
refinement mapping (`ShownSpec`). `Page` extends `Calendar`: the page reads what
the queries return.

- **`Store`**: the clock and the tables `meetings` and `meeting_endpoints`. A row
  is a record of the columns that decide anything. AUTOINCREMENT keys are never
  issued twice, so a row that was deleted stays `"deleted"` and one that does
  not exist yet is `"unused"`; a reader that kept a deleted row's id updates
  nothing, as in the code. Endpoint rows are keyed `<<alias, n>>`, because the
  schema lets one endpoint have several rows. `UpdateWhere` and `SetRows` are the
  two forms of `UPDATE`; `Fault` counts what goes wrong.
- **`Pexip`** (external service): the call legs that are connected and the
  endpoints that ring, by conference. An endpoint answers, gives up or hangs up
  whenever it likes.
- **`Worker`**: `scheduler_tick`. The record `w` has a program counter and what
  the running job remembers. Each `SELECT`, claim, HTTP call and commit of
  `scheduler_jobs.py` is an action named for its job (`Recover...`, `Expire...`,
  `End...`, `Start...`); `Locked...` are the places where an `UPDATE` raises,
  with the handler the exception reaches; `Crash` loses `w`, `Restart` is
  systemd's `Restart=always`.
- **`MeetingsApi`**: the requests, one record `web[t]` for each serving thread.
  A request whose reads cannot go stale is one step, the others are split where
  they read, call and write. `Abandon` ends a request early at any point.
- **`MeetingLifecycle`**: the abstract specification of one row of `meetings`:
  its status, and whether `started_at` and `ended_at` are set.
- **`System`**: all together, the fairness, and the properties.
- **`Invitations`**: `meeting_invitees` and the emails. `table` is what is
  committed, `draft` what the holder of the write lock (`writer`) sees; one
  thread mails the invitees of its transaction one by one and commits last,
  `Resend...` mails first and writes then. `Die` loses a thread and rolls its
  transaction back, `LockedOut` is `busy_timeout` running out.
- **`Deployment`**: both services as systemd runs them, the heartbeat and
  `/api/health`, and `upgrade.sh` in the order of its lines. Backup, copy, install,
  migration and configuration may fail (`Fail`), and the script ends there; stopping,
  starting and asking for the health do not. All waits are timers that `Elapse`
  counts down; a tick is as long as its calls to Pexip.
- **`Accounts`**: `users`, the session cookie, local and Entra sign-in with a
  step for each read, hash and write, every request behind `@login_required`,
  `manage_users.py`, and what the audit log tells. `cookie[b]` is what a browser
  keeps, `web[t].jar` the copy a request works on and sends back.
- **`Directory`**: `/api/endpoints` (Pexip is asked, then the overrides are
  read), the pages that keep the answer, the dialog that is filled from it, and
  how `remove_endpoint` and the `live` flag tell who is an endpoint.
- **`Calendar`**: the table as the day and range queries, the export and the
  label of `classify_meeting` read it, under every change requests and worker
  make to a row. An edit or an extension is decided on a row read earlier, so
  its guard says nothing of the row it is written to; `System` shows that this
  is enough.
- **`Page`**: `app.js` with several requests under way: the answers of polls,
  clicks and mutations, in the order they arrive; `Select` and `Fetch` are the
  server, which finds the meetings in one query and reads each by itself.
- **`MC...`**: the values of the constants for TLC.
- **`...Proofs`**: the theorems of section 4.

Operators named as mutants in a comment are not part of the specification: each
is a definition with a plausible mistake, and `PROJECT.json` says which property
catches it.

### Abstractions

*System.*

- Times are minutes. The ten seconds between ticks are not measured: a tick may
  begin whenever the worker is idle, the clock moves between any two steps.
- A job's reading of the clock and its `SELECT` are one step; so are the reading
  of the endpoint rows and the token request next to it, and in recovery the
  listing of the participants and the reading of the rows.
- `request_control_token`, `start_conference` and `release_control_token` change
  nothing that a later step reads. A token that cannot be had is a choice of the
  action; where the call that follows fails in the same way, the two failures
  are one.
- A failed call may have been carried out. It is not carried out later, after
  the caller has gone on.
- The order of candidates and of endpoint rows is left open; the code takes
  them in the order of the query.
- A conference stands for its meeting: aliases are `UNIQUE`, and a new meeting
  under the alias of a deleted one is not modelled.
- A participant matches an endpoint by name in the code; here it is the
  endpoint's own leg (`Directory` has the names). One payload names an endpoint
  once.
- That an email holds the write lock appears as `Fault`; the emails themselves,
  the accounts and the heartbeat are in modules of their own.
- A request that is refused changes nothing and is no step.

*The other modules.*

- `Invitations`: addresses are taken in lower case, as the handlers compare
  them. Requests without a list of invitees change none and are left out. A call
  to Graph that fails, or times out, may have been delivered.
- `Deployment`: one unit is five seconds. The web service is one process; a
  request that holds the write lock long is `busy`, all others fit into a step.
  The database is a main file and a WAL: all that is told apart is whether a
  commit is in the WAL only.
- `Accounts`: a password is right for a row or not. The database is `locked` for
  as long as somebody else's transaction lasts; only then does a write raise.
  What the audit log says of sign-ins is a set, of local accounts the last word.
- `Directory`: an alias is known by the key `normalize_alias` gives it, names by
  theirs; `Key` and `PexipName` are constants, so every coincidence of names is
  an instance. One meeting stands for all; other meetings are in `Busy`.
- `Calendar`, `Page`: a day is a few units of time, browser and server share
  their time zone. Rows change here in every way `System` changes them (more,
  since `Calendar` gives times at any moment), in one step each. Of the page only the state its
  continuations read is kept: lists, view, selection, day; rendering is where an
  answer with a `null` in it throws (`Broken`).

## 3. What the runs check

All constants marked BOUND limit TLC only.

| run | constants that matter | properties |
|---|---|---|
| `system_requests` | 1 meeting, 1 endpoint, 1 thread, every kind of request, 1 fault, 3 min | `TypeOK`, `OwnsClaim`, `TimesInOrder`, `LifecycleSpec`, `NeverDialedTwice` |
| `system_outcomes` | `FairSpec`, 2 endpoints, extend and delete, 1 fault, recovery at once | `EndedIsQuiet`, `StartedMeansDialed`, `ShownSpec`, `EveryMeetingFinishes` |
| `system_two` | 2 meetings in overlapping slots, delete, 1 fault, recovery at once | `OnTime`, `TicksEnd` |
| `invitations` | `FairSpec`, 1 meeting, 2 addresses, 2 threads, each address inserted twice, 1 death | `TypeOK`, `RecordedMeansMailed`, `OneRowEach`, `NobodyLeftPending`, `MailedIsKnown`, `NoSecondMail`, `SentIsKept`, `EveryRequestAnswered` |
| `deployment` | `FairSpec`, the times of the code in units of 5 s, 2 crashes, 2 upgrades, ticks of up to 6 slow calls | `TypeOK`, `OneWholeVersion`, `DeadIsNoticed`, `CompleteMeansNew`, `HealthRecovers` |
| `accounts_audit` | 1 name, both providers, 1 thread, 1 console, 1 lock | `TypeOK`, `AuditTellsAccounts` |
| `accounts_sessions` | `FairSpec`, 2 threads with one cookie, 1 console | `OneRowEach`, `SignInsAreLoggedUnlessLocked`, `DisabledIsOut` |
| `directory` | `FairSpec`, 2 endpoints, a guest without an alias, names that are the other endpoint's key or say nothing, 2 loads, 2 legs | `TypeOK`, `OwnLegOrNone`, `RemovedIsOut`, `PagesCatchUp` |
| `calendar_days` | 3 days of 2 seconds of 2 units, every meeting in them, any number of changes | `RangeIsItsDays`, `InItsDays`, `JobsTakeWhatIsDue`, `LabelMovesForward` |
| `page_settles` | `FairSpec`, 2 requests at a time, 2 writes, 2 clicks, 1 failure | `OnlyRealMeetings`, `PageSettles`, `GoneIsLeft` |
| `doc_disconnect`, `doc_custom_name` | see below | `EndingDisconnects`, `NotByCustomName` (violated) |

Why the bounds are enough:

- *System.* `RecoveryMinutes` is 1 or 0 there, so that recovery, a whole meeting
  and a request after either fit into three minutes; `CRASH_RECOVERY_MINUTES = 2`
  is a matter of scale ("recovery at once" is 0: what has been stuck since the
  minute before). Faults and requests stop at `CalmFrom`. One meeting is enough
  for what concerns one row and one serving thread for the races between the
  worker and a request: the actions for different meetings share only the clock
  and the worker's loop, which `system_two` looks at with two.
- *Invitations.* Two rows per address are a list and its replacement; two
  threads a resend next to a transaction, or two transactions that want the
  lock; two emails what `NoSecondMail` needs.
- *Deployment.* Six slow calls make a tick that outlasts `Stale` (6) and systemd's
  patience (18); two crashes fall into one upgrade, two upgrades are one that
  died and the next. The WAL, not the number of commits, is what counts.
- *Accounts.* Both providers may have the same name, so there are two rows. Two
  threads of one browser are all that one cookie needs for answers in the wrong
  order; the audit run has what the other lacks, a lock and a second password.
- *Directory.* Two aliases and a guest are the fewest where a name can be shared
  between an endpoint and another, or a stranger; two loads can overtake. One alias
  is the name of the other, and the empty key occurs in every place a name can be.
- *Calendar, Page.* Three days have a first, an inner and a last one; every start
  and end in them is tried. Two units make a second, so that each text occurs with
  and without a fraction. For the page two days, one meeting and two requests
  give every order of two answers.

What the properties say:

- `OwnsClaim`: while the worker handles a meeting it has claimed, nobody else
  moves it; it may only be deleted.
- `TimesInOrder`: no `started_at` or `ended_at` in the future, the first not
  after the second, although both are clocks read long before the write.
- `LifecycleSpec`: `System` implements `MeetingLifecycle`.
- `NeverDialedTwice`: the worker never dials a row that says `dialed`, in any
  mix of crash, recovery, locked database and replaced rows. (An endpoint whose
  dial was not committed before a crash is dialled again if it is not listed:
  the code accepts this.)
- `EndedIsQuiet`: `ended` is recorded only when the conference is empty and
  nobody is being called. Requests that dial are excluded: a redial after the
  end does connect somebody.
- `StartedMeansDialed`: `started` is recorded only when all endpoint rows have
  been dialled. Requests that insert rows are excluded.
- `OnTime`: without edits nothing starts before its start or ends before its
  end.
- `TicksEnd`: every step of a running tick brings it nearer to its end (`Nearer`),
  whatever is rewritten, locked or refused meanwhile. There is no fairness in it:
  it is why the worker, which starts no second tick before the first is over, is
  never held up by one, and `EveryMeetingFinishes` could not hold without it.
- `ShownSpec`: `System` implements `Calendar`, as far as the tables can be seen
  there: status (with or without errors), times, whether `started_at` is set, the
  aliases of the endpoint rows.
- `EveryMeetingFinishes`: after the last request and fault every meeting ends
  (or is deleted).
- `RecordedMeansMailed`: a committed `sent` is an email, whatever was rolled
  back, copied to a new row or sent again meanwhile. `MailedIsKnown` is the
  other way round: nobody has an email about a meeting that never listed them,
  unless a process died.
- `OneRowEach` (invitations): no address twice in a list, though the schema has
  no `UNIQUE` for it. `NobodyLeftPending`: no row is committed without an
  outcome.
- `NoSecondMail`, `SentIsKept`: a replaced list neither mails again who was mailed
  nor forgets it, also when a resend writes in between; only a resend that
  fails takes a `sent` back.
- `EveryRequestAnswered`: and with that the write lock is given back.
- `OneWholeVersion`: no service ever runs a half copied tree, or new code on the
  old schema, and never old and new at a time, wherever `upgrade.sh` stops and
  whatever systemd restarts by itself.
- `DeadIsNoticed`, `HealthRecovers`: a worker that is gone for 30 s is reported; a
  health that is not ok becomes ok again unless the script died half way.
- `CompleteMeansNew`: `complete` is not said before new code serves on the new
  schema with the worker on.
- `OneRowEach` (accounts): one row for each name and provider. `DisabledIsOut`:
  from some point on nothing is served to a disabled account, though old cookies
  come back late and a sign-in may be half done when the account is disabled.
- `SignInsAreLoggedUnlessLocked`, `AuditTellsAccounts`: every session has its
  `login_success`; the entries of the log, read in order, give each local
  account as it is. Both are about what a lock breaks, and say so.
- `OwnLegOrNone`, `RemovedIsOut`: `remove_endpoint` never disconnects another
  participant instead of an endpoint it saw, and one that it answered `ok` for is
  out.
- `PagesCatchUp`: pages come to show what is registered, with the names that are
  set, and go on doing so.
- `RangeIsItsDays`, `InItsDays`: range, day and export select the same meetings,
  and a meeting is on the days it has a part in (and, by `end_time >=`, on the
  day that begins the moment it ends). `JobsTakeWhatIsDue`: the candidates of the
  worker's jobs are exactly the meetings that are due by the clock, each of one job,
  though times with and without a fraction of a second are compared as texts.
  `LabelMovesForward`: the label never goes
  back, but for the moment between the start and the tick that claims it.
- `OnlyRealMeetings`: however answers overtake each other and deletions, the page
  shows no meeting that was never there, and a `null` in a list stands for one
  that was deleted. `PageSettles`, `GoneIsLeft`: the page comes to show the table; the detail of a
  deleted meeting is left.

**Fairness.**

- `System`: the worker's own steps, restart included (its thread runs, HTTP calls
  have a timeout, systemd restarts the unit), and the clock. They are one weakly
  fair action because the worker is one thread: whatever it is about to do stays
  enabled until it does it. Requests, faults and endpoints have none.
- `Invitations`, `Accounts`: each thread goes on with the request it serves; nobody
  has to send one. A thread that waits for the write lock gets it or runs into
  `busy_timeout`, so it never waits for a lock alone.
- `Deployment`: time passes, and worker, web and script do what is due. Crashes,
  long requests and upgrades may come, never have to.
- `Directory`: a page asks every five minutes whatever became of the last request,
  and is answered; failures are bounded.
- `Page`: the server answers, the browser runs what follows an answer, the timer of
  the poll goes on. Clicks, writes and failures are not fair and are bounded.

**Disagreements with the documents.** Two runs each refute a sentence of the
repository; the findings in `PROJECT.json` quote it.

| run | what happens |
|---|---|
| `doc_disconnect` | a worker down since it dialled, back after the end, gives the meeting up without disconnecting it |
| `doc_custom_name` | the page sends the custom name with the endpoint it assigns, it is stored as the endpoint's name, and `remove_endpoint` disconnects a guest who shows it, and neither the alias nor the Pexip name |

The modules state further sentences of the documents that the code does not
keep. They have no run of their own; TLC finds a counterexample when the
definition is added to the configuration named here (with `SPECIFICATION Spec`
and `CHECK_DEADLOCK FALSE`).

| definition | sentence | what happens | add to |
|---|---|---|---|
| `NeverLeftScheduled` | `deploy/TEST_PLAN.md:423-424` | no token: the meeting is `started_with_errors`, its rows stay `scheduled` | INVARIANTS of `System_requests.cfg` |
| `EndsAtEndTime` | `README.md:3` | an extension between the `SELECT` and the claim is lost and the meeting is cut off | PROPERTIES of `System_requests.cfg` |
| `EndAfterStart` | `src/app/routes/meetings.py:186`, `src/app/routes/meetings.py:351` | an edit moves the start between the read and the write of an extension (or the other way round): the meeting ends before it starts | INVARIANTS of `System_requests.cfg`, with a second thread, `Requests = {"edit", "extend"}` and no fault |
| `EditsAsAllowed` | `src/app/routes/meetings.py:314` | an edit admitted for `scheduled` rewrites a meeting that has meanwhile been claimed | PROPERTIES of `System_requests.cfg` |
| `StaleMeansCrashed` | `README.md:321` | ticks that wait for Pexip for 30 s look like a crash | INVARIANTS of `Deployment_runs.cfg` |
| `BackupIsWhole` | `README.md:254` | after a kill, commits are in the WAL, and `cp` of the main file misses them | INVARIANTS of `Deployment_runs.cfg` |
| `CompleteMeansHealthy` | `deploy/TEST_PLAN.md:699` | the `grep` for `"ok": true` finds the one of another part of the answer | PROPERTIES of `Deployment_runs.cfg` |
| `SignInsAreLogged`, `LoggedMeansSignedIn` | `SECURITY.md:92` | a locked database, or an account disabled during the sign-in, sets session and log apart | INVARIANTS of `Accounts_audit.cfg` |
| `RoleChangesAreLogged` | `SECURITY.md:92` | a role that comes with an Entra sign-in is changed without an entry | PROPERTIES of `Accounts_audit.cfg` |
| `RangeIsOverlap` | `src/app/meeting_utils.py:245` | a meeting that ends at midnight is on the next day too | INVARIANTS of `Calendar_days.cfg` |
| `SelectedRemains` | `tests/test_calendar_refresh.py:95` | the selected meeting is looked up in the day picked, which may not be its own any more | PROPERTIES of `Page_settles.cfg` |
| `ItemsHaveTimes` | `tests/test_ui_remediation.py:330` | a meeting deleted between query and read is a `null` in the list | INVARIANTS of `Page_settles.cfg` |
| `ConflictsAreDetected` | `tests/test_ui_remediation.py:305` | the list holds the day picked; a meeting of the next day, which one over midnight overlaps, is not in it | PROPERTIES of `Page_settles.cfg`, with two meetings, an endpoint and the windows `<<0, 3>>` and `<<2, 3>>` |

## 4. What is proved

All safety properties of the runs, invariants and action properties alike, for
every value of the constants. The assumptions are those the modules state by
name, and TLC evaluates them on each run: `StoreAssumption`, `PexipAssumption`,
`WorkerAssumption`, `ApiAssumption` and `ShownAssumption` (the value None is no row
of the table) for `System`; `InvitationsAssumption`, `DeploymentAssumption`,
`DirectoryAssumption`; `AccountsAssumption` and `NoneAssumption`;
`CalendarAssumption`, `RowAssumption` and `PageAssumption`.

### System

- **`TypeCorrect`**: `Spec => []TypeOK`. `TypeOK` is inductive as it stands
  because it contains, besides the types, what the steps rely on: a worker in the
  middle of a meeting names one, a worker that has just dialled names the row,
  a serving thread names what it works on. There is a lemma for each form of
  `UPDATE`, one for the rows the jobs write, and one for each job and request.
- **`TicksComeToAnEnd`**: `Spec => TicksEnd`. Each step of a tick decreases, in
  this order, the stages left, the candidates left, the places left with this
  candidate, and the rows left to dial. That a candidate which is done with
  leaves the list only counts if it was on it: `BusyWithCandidate`, an invariant
  of its own, says that the worker in the middle of a meeting still has it on
  its list.
- **`ColumnsCorrect`**: `Spec => []ColumnsAgree`, the strengthening the
  refinement needs: `started_at` and `ended_at` are NULL or not exactly as the
  status says. Without it the mapped step would not know that, say, a meeting
  in `starting` has no `started_at`, and could not be a `Start` of the abstract
  specification.
- **`LifecycleCorrect`**: `Spec => LifecycleSpec`. `RowStep` says what may
  happen to one row; `MeetingsStep` shows that each step of `System` changes at
  most one row and that one by a `RowStep`; `LifeStep` maps this to a step of
  the lifecycle or a stutter.
- **`ShownCorrect`**: `Spec => ShownSpec`, that is `Calendar`'s specification under
  the mapping `ShownRow`. Each step is reduced to what it does to the columns and
  the endpoint rows of one meeting; then this row moves by one of `Calendar`'s
  changes, and all others stay. The replacement of rows of a booking, an update
  or an edit, and the rows a deletion leaves behind, are where the mapping has
  something to hide.
- **`EndsAfterItStarts`**: `Spec => []EndAfterStart` if nobody edits or there is one
  thread (`OneAtATime`). `PendingEnds` speaks of the requests that have decided
  and not written yet: the end they are going to write is after the start of the
  row as it is now. The hypothesis is what keeps the start from moving under
  them; section 3 lists what happens without.
- **`TimesCorrect`**: `Spec => []TimesInOrder`. `ended_at` is the clock as the job
  read it at its start, so it is after `started_at` only if no meeting started
  after that reading. `TimesKnown` says so: while a job runs, no `started_at` is
  later than its clock. This is where it matters that the four jobs share one
  process and `max_instances=1`.
- **`ClaimExclusive`**: `Spec => []OwnsClaim`. `OwnsClaim` is not inductive:
  recovery goes from one candidate to the next without looking at its row again,
  so one has to know that the candidates not processed yet are still where the
  `SELECT` found them. `Claims` adds that. It holds because requests change a
  status only to book or to delete (`RequestsHold`), the jobs are one thread, and
  each job takes a candidate off the list before it moves its row. The two
  claiming jobs need nothing about theirs: the claim looks again.
- **`DialedOnce`**: `Spec => NeverDialedTwice`. The inductive invariant
  `DialsLeft` says that a meeting which has not been claimed has no row marked
  `dialed`; that between the claim and the reading of the rows this is still so;
  and that of the rows still to be dialled none is marked, nor is the one just
  dialled among them. The first part needs the lifecycle (no meeting goes back
  to `scheduled`), the others the claim (nobody else marks rows of that
  meeting); `WhoDials` shows that only the two dialling actions dial.

Three properties hold only of a system without certain requests. `AskedAlways`
(threads serve only kinds of request in `Requests`) turns that into a hypothesis
about a constant:

- **`NothingEarly`**: without edits and extensions (`NoEdits`), `Spec => []OnTime`.
  `Candidates` is the strengthening: what is on the list of the starting or the
  ending job was due when it was selected and is so still, since nobody moves
  its times.
- **`EndedLeavesNobody`**: without redials and added endpoints (`NoDialing`),
  `Spec => []EndedIsQuiet`. `Hush` adds that from a successful disconnect to the
  commit of `ended` the conference is quiet; `StaysQuiet` goes through the steps
  of requests, endpoints and worker: only a dial brings somebody in, and the worker
  dials only into the meeting it is starting.
- **`StartedIsComplete`**: without requests that insert rows (`NoNewRows`),
  `Spec => []StartedMeansDialed`. `Complete`: while the outcome is still `ok`, each
  row is dialled or still to be dialled, or is the one whose commit is due.

### Invitations

`IInv` joins the lock (`Lock`: `draft` is `table` when nobody writes, and only
the writer mails), what has been delivered (`Delivered`, also for the row a
resend is about to record) and who is still to be mailed (`Waiting`), for the
committed table and for the draft. From it follow **`SentIsTrue`**,
**`AddressesUnique`**, **`NobodyPending`** and the action property
**`MailedOnce`**; the properties speak of the committed table, and what makes
them inductive is that the same is said of the draft. **`SentStays`** needs
`KeepsSent` from table to draft, for which each transaction is followed from its
first write to its commit. **`MailedWasListed`** uses `Known`: whoever has been
mailed has a row in `table` or in the draft of a transaction that is still going to
commit; a death breaks that, hence the premise of the property. The theorems
hold for `MailOn` FALSE too, which no run has.

### Deployment

`InStep` says what the position of `upgrade.sh` tells about services and files,
`Loaded` what a service's state tells about the code it has loaded; together they
give **`WholeVersions`** and **`CompleteIsNew`** for any number of crashes and runs.
`Absence` (the heartbeat is at least as old as the worker's absence) gives
**`DeathNoticed`** for all lengths of the timers, so also for other values of
`HEARTBEAT_STALE_SECONDS`.

### Accounts

`Numbered`, `Held` (a request in the middle of a sign-in speaks of a row that
exists) and `OneRowEach` are inductive together: **`UsersUnique`**. `Logged`
adds whose `login_success` is still to come: **`SignInsLogged`**. `Audit` says
what the log will tell once the console has written its entry:
**`AuditTrail`**, for one console; with two, their entries can come in the other
order than their updates.

### Directory

`Older` (legs are numbered as they join, and a list of participants names no
later ones) and `Decided` (a call is made only where the list left one choice)
give **`NobodyElse`** and **`Removed`**, for every coincidence of aliases, keys,
custom names and guests' names, since `Key` and `PexipName` are any functions. That
an endpoint in the list is found (`OwnIsFound`) needs that its key is not the empty
one, which matches nobody.

### Calendar and Page

- **`CalendarTypeCorrect`**, **`RangesCorrect`**, **`DaysCorrect`**: the lists are
  arithmetic, and `RangeIsItsDays` and `InItsDays` hold in every state of the right
  types, for any length and number of days. A day is the interval
  `d * Day .. (d + 1) * Day - 1` (`DayNumber`, `DayBounds`); a meeting that touches
  the interval of a range touches that of the day its start lies in, or of the
  first day of the range.
- **`JobsCorrect`**: `CalendarSpec => []JobsTakeWhatIsDue`, for any number of units
  in a second. All these queries compare texts; `IsoOrder` says that the texts are in
  the order of the times: a time is its whole seconds and a rest, and within one
  second the text without a fraction comes first, because `+` comes before `.`.
- **`LabelsCorrect`**: `CalendarSpec => LabelMovesForward`, an action property.
  `StartedHaveTime` is the invariant it needs: a row that is `started` or
  `ending` has its `started_at`, or else `classify_meeting`, which looks at
  `started_at`, would call it scheduled again while it is `ending`.
- **`PageRefinesCalendar`**: `Page`'s requests change the table as `Calendar` says,
  so the five theorems above hold of the page's table too; that
  they speak of `System`'s too, seen as one long day, is what `ShownCorrect` is for.
- **`PageTypeCorrect`**: `Spec => []PageTypeOK`, for any number of requests under way.
- **`PageShowsRealMeetings`**: `Spec => []OnlyRealMeetings`. The inductive
  invariant, `RealPage` with `Detail`, says the same of the answers that are still
  being put together: the ids a `SELECT` found and the items read so far are of
  meetings booked, a `null` among them means one was deleted since, and a click
  on a meeting has named a real one by the time its answer shows the detail.

### Only model-checked

- Liveness: `EveryMeetingFinishes`, `EveryRequestAnswered`, `HealthRecovers`,
  `DisabledIsOut`, `PagesCatchUp`, `PageSettles`, `GoneIsLeft`. Proofs under
  fairness need `ENABLED`, which the installed provers do not reason about.
- That `OneAtATime`, `NoEdits`, `NoDialing` and `NoNewRows`, the hypotheses of four
  theorems, cannot be dropped: TLC finds the counterexamples.
- The disagreements of section 3, which are counterexamples.

## 5. Not modelled

- *Two serving threads next to the worker.* `MeetingsApi` has any number of
  threads, and the theorems hold for any number, but TLC does not enumerate two
  of them and the worker. So the hazards of two requests about one meeting (an
  endpoint added twice, one of two extensions lost) are listed without a property.
  What two of them do to the times of a meeting is an exception: the counterexample
  to `EndAfterStart` is short enough for TLC to find.
- *Strings.* Aliases, addresses and names are values, and `normalize_alias` is a
  function into keys; that its result is idempotent or strips what it should is
  not said. Times are numbers; the texts that the queries compare are in
  `Calendar`, digits, mark and fraction, and `System` compares the numbers, whole
  minutes, which `JobsCorrect` justifies.
- *Pexip client*: tokens, paging of the participants and the parsing of answers
  carry nothing from one call to the next.
- *Frontend*: rendering, drag and drop, notices, forms other than the edit
  dialog's list of endpoints.
- *Export*: how `.ics` and `.csv` are written. What they contain is in `Calendar`.
- *`install.sh`, `uninstall.sh`, `verify_install.sh`*: run once by hand, set up or
  look at files; nothing runs at the same time.
- *Configuration, pages*: read once at the start, or static.
- *The hypotheses*: what happens to `EndedIsQuiet`, `StartedMeansDialed` and `OnTime`
  with the requests they exclude is no error of the code by its own documents
  (a redial after the end is asked for by an operator) but nothing bounds it. So four
  hazards stay outside what holds: a candidate whose times were edited after it was
  selected (`scheduler_jobs.py:239`), a dial after the disconnect of an end
  (`meetings.py:484`), two requests that each compare an end with a start they read
  (`meetings.py:185`), and two consoles whose commands are logged in the other order.

What a further step would add: a module for two requests about one meeting without
the worker, and the safety half of the arguments for liveness that are left to
TLC (`TicksEnd` is one).
