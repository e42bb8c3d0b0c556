# you-spin-me: specification and proofs

you-spin-me tracks API keys as `ApiKey` resources in Kubernetes. An admin
submits a new key in the browser; the program may check it with the provider,
writes it to every target (keys of OpenBao KV v2 secrets) and records the
outcome in the status of the resource. An admin can also record a rotation that
was done elsewhere. A controller keeps a `Valid` condition in the same status.
This directory holds TLA+ modules that model the program, TLC configurations
that check them on small instances, and proofs checked with TLAPS.

Paths below are relative to the repository (`src/rotation.rs` and so on).

## 1. Inventory

| Component | State | Operations | What is hard |
|---|---|---|---|
| Status data: `src/crd.rs`, `apply_rotation` in `src/rotation.rs` | `ApiKeyStatus`: summary (`lastRotated`, `rotatedBy`, `expiresAt`, its source), `history` (10 entries), `targets`, `conditions` | `apply_rotation`, the closure of `rotate_inner` | the summary must go with the history; the history is bounded |
| `KubeRepository`: `src/k8s.rs` | the resource on the API server; per call: attempt, the copy that was read | `update_status`, `record_event`, `list`, `get` | read, mutate and replace with several callers and a second writer; conflicts, unanswered requests, dropped futures |
| `MemoryRepository`: `src/repo.rs` | a map under a lock | the same trait | nothing: it is the promise that `KubeRepository` has to keep |
| Controller: `reconcile` in `src/k8s.rs` | a queue of what to reconcile; reads the cached object | merge patch of `conditions` and `observedGeneration`, requeue after an error | works from a cached object, patches by name without a `resourceVersion`, never looks again at what it judged up to date |
| Reflector cache and readiness | the cached objects, `ready` | watch, `wait_until_ready` | lags; empty after a restart; the store remembers one waiter only |
| `Rotator`, `rotation::record`: `src/rotation.rs` | per request: spec snapshot, probe result, outcomes so far | `rotate`, `record` | several awaits over three external systems, no lock, no transaction; each can fail, time out or be cut off |
| OpenBao writer: `src/targets/openbao.rs` | cached token with its expiry | `write`: PATCH, on 404 POST, on 403 one new login | token shared by all requests; two requests that make one write |
| Probes: `src/providers/mod.rs` | none | `probe` | three kinds of answer |
| Schedule: `src/schedule.rs`, `src/duration.rs` | none | deadline, state, parsing | boundaries, thresholds in any order, overflow |
| Validation: `src/validation.rs` | none | `validate`, `glob_match` | agreement with OpenBao's policy language; targets that are one and the same |
| Login: `src/web/auth.rs` | login cookie, session cookie, OIDC client | `login`, `callback`, `logout`, extractors | state that lives in the browser; two clocks; expiry, step-up, several tabs, repeated callbacks |
| Pages: `src/web/pages.rs`, `views.rs` | none | forms, detail, the list with its filters, counts and orders | the order of their checks; rows without a deadline in a sort |
| HTTP: `src/web/mod.rs` | none | routing, Origin check, headers, assets | nothing: stateless |
| Metrics and alert rules: `src/metrics.rs`, the chart's `files/alerts.yaml` | two counters; gauges computed from the cache | `encode` | gauges and rules say again what the pages say |
| Start and stop: `src/main.rs`, `config.rs` | none | wiring, shutdown | two servers that stop together |

How they interact: a page handler calls `Rotator::rotate` or `rotation::record`.
Those read the spec from the reflector cache, call the prober and the target
writer, and hand a closure to `Repository::update_status`, which reads the
resource from the API server and replaces its status. The controller watches the
same resources, fills the cache and patches the condition. Metrics and pages
only read the cache. Handlers run concurrently in one process (the chart has one
replica); the stores, the API server and the owner of the manifests run outside.

What makes each component correct:

* status: summary and history agree; the history is the latest rotations;
* repository: an update is one atomic step to its callers, is made at most once,
  and was made if the caller is told so; its writers keep apart;
* rotation: nothing is written when a submission is refused; a rotation is
  recorded only if every target was written; what is acknowledged happened; every
  request ends; with one request at a time the status describes the stores;
* OpenBao: a write changes one key and nothing else where the secret existed; a write
  that met 403 retries once, with a token newer than that refusal; it may discard a
  token that another write has just fetched (`openbao.rs:140`), which costs one more
  login, and every write ends all the same;
* controller: the condition ends up being that of the current spec, and one that
  claims the current generation was made from its spec; readiness is reported;
* login: rights end some time after they are taken away; a step-up needs a new
  login, and that is enough; the newest login is heard whatever other tabs do; what is done is done in the name of whoever saw the page;
* schedule and alerts: page and alerts agree at every boundary; time makes no key
  less urgent;
* validation: a pattern matches what OpenBao's policies would match; a valid spec
  has no two targets that are one, and durations that are read as written;
* list: its order is an order, and its counts are those of its rows.

## 2. Modules

```
KeyStatus        status data, apply_rotation, status mutations (pure)
  AtomicStatus   what update_status promises (abstract)
  StatusStore    KubeRepository, API server, controller's patch, spec owner
    Rotation     requests, provider, targets, cache, process
TargetWrite      what TargetWriter::write promises (abstract)
  OpenBao        the OpenBao client and the OpenBao server
Controller       reconcile, the cache behind it, readiness
Session          one browser, the cookies, an OIDC provider
Schedule         durations, deadlines, alert states (pure)
  Alerts         a key over time, its gauges and the alert rules
    IndexPage    the list: that key and others, filters, counts, orders
  Validation     patterns and the judging of a spec
StatusStoreProofs   lemmas about KeyStatus; inductive invariant of StatusStore
                    and what follows; StatusStore implements AtomicStatus
  RotationProofs      inductive invariant of Rotation and what follows
    RotationCalmProofs  requests one at a time: the status is true
OpenBaoProofs       inductive invariants of OpenBao; it implements TargetWrite
ControllerProofs, SessionProofs
                    inductive invariants of these modules and what follows
AlertsProofs        Alerts and IndexPage
ValidationProofs    Validation: patterns mean what OpenBao's policies mean
MCStatusStore, MCRotation, MCOpenBao, MCController, MCSession   instances for TLC
MCAlerts            one instance of Alerts, Validation and IndexPage
```

### KeyStatus
The data of a status and the two pure functions on it. Times are naturals. The
actor of a history entry is identified with the request that made it, so that
"recorded twice" can be said. Left out: a target's error message, a probe's
identity, names. `targets` is a function from references to entries (the code
looks entries up by reference; their order is never used). The conditions list
and `observedGeneration` are one field `valid`, since the controller writes them
together and no one else writes them.

### StatusStore
`obj` is the resource: `version` stands for `resourceVersion`, `gen` for
`metadata.generation`. `upd[c]` is the state of caller c's `update_status`: one
action per await. `Get`, `GetNotFound`, `GetError` are the outcomes of
`get_status`; `ReplaceOk`, `ReplaceConflict`, `ReplaceGone`, `ReplaceError` those
of `replace_status`. A replace that is not answered (`ReplaceError`, `Cut`) keeps
`flying` and may be applied later by `Land`, if its version still matches. `Patch`
is the controller, here writing any condition at any time; `EditSpec`, `Delete`
and `Create` are the owner of the manifests. The API server is external: it is
modelled from how `k8s.rs` uses it (reads are current, each write raises the
version, a replace with an older version is refused). `log` is a history variable:
the rotations applied since the resource was created.

### Rotation
`req[r]` is the handler of request r: `Rotate`, the probe actions, one write
action per target, `Save`, the steps of `update_status` (`SaveStep`), `Publish`.
`RotateRefused` and `RecordRefused` are the early returns in the order of the
code. `Outcome` is what `rotate_inner` returns, `Label` what the counter calls it
(every error is "rejected"), `Heading` the dialog that is shown for it. A write can be applied and answered, refused, or unanswered; the last is a
failure to the caller and may be applied later (`LandWrite`). `Disconnect` drops
one handler, `Restart` all of them together with the cache. `cache` is the spec
in the reflector store; `Sync` lets it catch up. The verdict of `validate` is a
field of a spec. `answered`, `landed` and `calm` are history variables.

A write is one step here. That this is enough is what OpenBao shows, with one
reservation: `store` has one key per target and nobody else writes it.

### OpenBao
`call[w]` is one call of `write`: it takes the token (`UseCached`, `Login`,
`ReadTokenFile`), sends the request, and acts on the answer (`AnsweredOk`,
`AnsweredMissing`, `AnsweredForbidden`, `AnsweredError`). `cached` is the content of
the Mutex and `lock` who holds it across the await of a login; a step that takes
and releases it within one poll needs `lock = None`. `refused` is `retried_login`,
with the number of tokens there were at that moment, so that "a new token" can be
said. A request that is given up (`TimedOut`, `Disconnect`, `Restart`) may be
executed later (`LandLate`). The server is external: it issues tokens with a lease,
checks them when it executes a request, and has other users who create and destroy
the secret and revoke tokens. A tick is ten seconds: `TIMEOUT` is 1, `TOKEN_MARGIN`
is 3. `landed` and `missing` are history variables. A token file holds one token; the
client reads it once and, as the code does, keeps it until it is restarted.

### TargetWrite
The outcomes of a write that Rotation has: applied and then `Ok`; or an error, and
applied before, later, or never. The other keys of the secret may be lost with it.

### AtomicStatus
The specification of `update_status`: a caller opens a call, the mutation is
applied in one step, and a caller that was told of an error, or is gone, does not
know whether it was. `MemoryRepository::update_status`, which holds a lock, does
this literally; `Atomic!Spec` in StatusStore states that `KubeRepository` does.

### Controller
`obj` is the resource on the API server with the part of its status that the
controller writes. `watch` holds the changes the controller has not been sent,
`cache` is the object in the reflector's store, `synced` says that the store has had
a complete list. `Deliver` is a watch event, `List` the first list and the one after
a broken watch. `pending` is the queue of kube-runtime: a trigger is served after the
reconcile under way, and replaces a later requeue. `Reconcile` is `reconcile` up to the
patch (`desired_valid_condition` on the cached object), `Patched`, `NotFound` and
`PatchError` its ends with `error_policy`; a patch that was given up may be applied
later (`Land`), to whatever resource has the name. `EditSpec`, `Delete` and `Create`
are the owner's. The poll actions are the task in `KubeRepository::start` that calls
`wait_until_ready` with a timeout, beside the controller, which waits on the same
store; the store wakes the last who asked. `uid` in a condition is a history variable.

Left out: `lastTransitionTime`, which nothing decides on; the rotations' writes of the
status, which add watch events only (StatusStore has them with the patch as second
writer); the end of the store, which lives as long as the process.

### Session
One browser with several tabs and one cookie jar; the service keeps nothing but its
cookie key. Logins, codes and sessions are numbered; the number stands for the random
values drawn for them (state, nonce, PKCE verifier, CSRF token). `Login` is `login` with
`reauth` if a record was sent back, `Callback` is `callback` up to the token request,
`Exchange` and `ExchangeFails` the rest, `Arrive` and `Lost` the answer. `Submit` is the
`Admin` extractor of `record` and `rotate`, after which the form is read; `Record`,
`SendBack`, `Rotate` and `WrongToken` are what the handlers do with it. `Restart` draws a
new key unless there is a key file. The provider is external: it may answer a
forced re-login from an earlier one, leave out `auth_time`, and have another clock.
`real` (when the user logged in) is a history variable. Left out: development mode,
where everybody is admin; the mapping of claims to roles, of which `admin` is the
outcome; the redirect target, which is a string of its own. A tick is the allowance
for clocks, 60 s.

### Schedule, Alerts
`Parse` is `duration::parse` with its 64 bits, `Deadline` and `State` are
`Schedule::compute` and `state`; times are seconds. In Alerts one key is rotated, recorded and
edited while the clock runs, and Prometheus, which is external, reads `Gauges` and
evaluates the rules of the chart on what it read last; `unknownSince` is since when
every reading lacked a deadline, for the rule with `for: 1h` (`UNKNOWN_FOR`). Of the gauges only those of
deadlines are modelled; that the program writes milliseconds as a decimal
number makes no difference to the comparisons.

### Validation, IndexPage
A path is a sequence of segments, a segment a sequence of characters; a pattern (`Pattern`)
has segments too, and `prefix` where it ends in `*`. A mount, a path
and a key are what `validate` takes apart; `Blank` is what `trim` leaves nothing of. `GlobMatch` is `glob_match`; `Describes`, the
policy language told on the characters of the whole text, is what it is compared with. `CasesToJudge` are
the specs, each with the allowed paths it is judged under.

IndexPage adds other keys, which do not change, to the key of Alerts, which is rotated,
recorded and edited while the clock runs. `Row`, `Shown`, `Count` and `Order` are the rows,
the filters, the numbers on the chips and the comparison of `sort_rows`. Names, providers
and search words are numbers: they are compared, never taken apart.

## 3. Runs

| Run | Instance | Shows |
|---|---|---|
| `store_safety` | 3 callers, history of 2, 2 attempts, a patch, 2 specs | `HistoryIsLog`, `HeadAgrees`, `RecordedOnce`, `ConflictMeansInterference`, `WritersKeepApart`, refinement of `AtomicStatus` |
| `rotation_requests` | 2 requests, 2 targets, 1 attempt; 2 specs and edits while requests come one at a time | `RotatedMeansWritten`, `AcknowledgementsAreTrue`, `CalmStatusIsTrue` |
| `rotation_specs` | 1 request, 2 attempts, 3 versions; valid, invalid, empty and probed specs, edits, deletion, 2 instants, expiries | `RefusedWroteNothing`, also for records with bad dates; `RequestEnds`, also through a conflict at the last attempt |
| `openbao_writes` | 2 writes, tokens by login or from a file, one secret with 2 keys, one revocation, other users; no leases | `RetryIsFresh`, `KeptWhereItExists`, refinement of `TargetWrite` |
| `openbao_lease` | 2 writes, leases of 4 ticks, 5 instants | `LeaseHolds` |
| `openbao_progress` | 2 writes, 2 instants | `WriteEnds` |
| `controller` | 2 specs, 2 allow lists, 2 generations, 2 resources of one name, 1 fault or restart | `ObservedMeansJudged`, `StaleIsNoticed`, `Converges`, `BecomesReady` |
| `session` | 2 tabs, 2 users, 2 logins, 2 codes, 3 instants, provider's clock ahead or behind or without `auth_time` | `ReauthMeansLogin`, `RightsAreRecent`, `ActorIsWhoThePageShowed`, `RecordIsFresh`, `NoStepUpLoop`, `CallbackIsHeard` |
| `alerts` | 15 policies, 4 instants, a list of 3 keys; every pattern of a few segments against every path; pairs of targets | `AlertsMatchPage`, `UrgencyGrows`; `GlobMeaning`, `ValidTargetsAreDistinct`, `ValidMeansScheduled`; `OrderIsTotal`, `ExpiredFirst`, `ChipsCountRows` |
| `finding_two_keys`, `finding_nothing_written`, `finding_rotate_step_up` | smallest instance that has the case | see section 5 |

Bounds. `MaxVersion` stops edits and patches, not updates: updates are bounded by
one call per request. Three callers with two attempts have every caller lose to
another caller and to the controller; a history of two is displaced by the third. An
attempt beyond the last breaks `StoreTypeOK`, and `ConflictMeansInterference` counts
the writes since the call that gives up began, on a resource that may have been written
before. In `rotation_specs` two edits or patches defeat both attempts of an update; with
one attempt, as in `rotation_requests`, requests that save together fail at once.
Two requests at two targets have every order of their four writes. `MaxTime`
bounds the clock of Rotation: two instants tell "before" from "after".
`rotation_requests` has the constraint `OthersWriteInCalmOnly`: once requests overlap or
one is cut off, `CalmStatusIsTrue` says nothing for good, and the states that are
explored further are those in which nobody but the requests wrote the resource. Two writes are a retrying write and the one that logs in, or is refused,
meanwhile; `MaxRevoked` 1 takes away the token they share. In `openbao_writes`
time stands still, because leases matter to `openbao_lease` alone; there a token is
cached, used, found too old and replaced within five instants. `LeaseHolds` needs a
lease of more than twice the timeout, since a token is used at once by the write
that fetched it whatever its lease; OpenBao's are minutes to hours (15 minutes in
`deploy/examples/openbao-setup.sh:22`). `CHECK_DEADLOCK FALSE`: each
request is made once, so an instance comes to rest when all have ended. Symmetry:
requests are interchangeable, as are keys of a secret and specs of which nothing is used; symmetry is used in safety
runs only.

For `controller`, a second generation is one that the cache has not seen, a second
resource of the same name one that an old patch can meet, a second allow list one
that a restart can come with. For `session`, every hazard needs two of something: two
tabs that overwrite each other's cookie, two logins of which one is forced, two users,
two codes. There a session lives one tick and so does a login; step-up allows none
beyond the clocks' allowance, which is the tightest it can be. Offsets are at the
ends of the allowance. For `alerts`, 64 bits end at 31 and timestamps at 20, so that
a policy of a few units passes either; thresholds are absent, zero, unreadable, in
order and in reverse. A state is reported as unknown after two of the three ticks. In `MCAlerts` the judging of specs and the life of a key share no
state and are explored apart. Of the three rows one has neither deadline nor rotation, one
both, and the third whatever the key has by then.

Fairness. `Spec` of Controller has weak fairness of the watch (it goes on or lists
again), of the reconcile and of its request's end, of the requeue timer
(`error_policy`, 30 s), and of the steps of the polling task with its timeout of 1 s.
None of edits, faults, late patches and restarts, which are finitely many.
`FairSpec` of Rotation and of OpenBao has weak fairness of the steps of
each running handler and of nothing else: tokio polls a woken task, the OpenBao
client has a timeout of 10 s (`openbao.rs:76`), its tokio Mutex serves its waiters
in turn, and a request to the API server is assumed to end (the program sets no timeout of its own there). Nothing is assumed about
the environment: the clock, the cache, spec edits, late writes and
disconnects may never happen.

## 4. Proofs

The theorems hold for any number of requests, targets, attempts, history entries,
tokens, keys and so on, from the `ASSUME`s of the modules. These say that limits are
positive, that specs, mutations, conditions, policies and listed keys have the type the
code gives them, and that `None`, which stands for Rust's `None`, is none of the
values beside it (`NoTargetStatusAssumption`, `RefusalsAssumption`, `SecretsAssumption`,
`StatesAssumption`, `CasesAssumption`, `OtherKeysAssumption` and the like). TLC evaluates
each of them in a run. Every safety invariant and action property of a passing run is a
theorem, and so are both refinements.

* `StatusStoreProofs`. Of the data: applying a mutation yields a status, prepends at most
  one entry (the one of `EntryOf`) and leaves `valid` alone; the bounded history of
  an appended log is the appended history. Of the store: `HistoryIsLog` alone is not
  inductive: a replace writes a status computed from what was read, so the invariant says
  of every copy whose version is still current that it is the current status
  (versions only grow, so a copy that is not current never becomes current
  again), and that no copy has a version from the future. `RecordedOnce` needs
  that a caller which is still at work, or whose replace is still flying, is
  not in the log. `ConflictMeansInterference` needs that a call at attempt n, which
  remembers the version at which it began (`since`), has met n - 1 later versions
  (`AttemptOK`). There is one lemma per action. With that invariant every step of
  StatusStore is a step of AtomicStatus or a stutter (`UpdateIsAtomic`), and the writers
  keep apart (`WritersKeepApart`).
* `RotationProofs`: the types, `RotatedMeansWritten`, `AcknowledgementsAreTrue` and
  `RefusedWroteNothing`. The last three are not inductive: each compares the end of a
  request with what it did. `RotInv` is the store's invariant with what ties the three
  records of one request together at every step: the targets that have an outcome are the
  first ones of the spec it works from (`ProgressOK`), a good outcome stands for a write that
  landed and a refused request has none (`WritesOK`), the mutation under way carries
  exactly these outcomes (`SaveOK`), and an answer or event is given after the save
  it speaks of (`AnswerOK`). `LogOK` carries that over to the history. Since `RotInv`
  includes `StoreInv`, the store's theorems hold under the mutations that requests really
  make (`RotationsKeepHistory`).
* `RotationCalmProofs`: `CalmStatusIsTrue`, which speaks of quiet moments only. `CalmInv`
  says what holds between them, while one request runs: the targets it has written are
  pending, with outcomes that its mutation will bring into the status; every other entry
  is already the last answer; and unless an entry has failed, the targets that are
  not pending hold the key of the newest rotation in the log. One request at a time is
  itself part of the invariant (`CalmControl`).
* `OpenBaoProofs`. `RetryIsFresh` is not inductive, since a retry takes whatever is
  cached by then. `BaoInv` says that a write waits for a login exactly if it has the Mutex.
  So none is under way when a refused write empties the cache, and from then on
  (`FreshFrom`) the cached token and the answers to logins are newer than the
  refusal.
  `KeptWhereItExists` and the refinement of TargetWrite rest on `WriteInv`: what has landed
  is what phase and answer say, a request that was given up may land once and had not,
  a POST is sent only for a secret that was missing since the write began, and a secret
  that was never missing is there. With it every step of OpenBao is a step of the promise
  or a stutter (`WriterKeepsPromise`).
  `LeaseHolds` (`MarginSuffices`) needs a hypothesis on the numbers: the margin is twice
  the timeout or more, and leases, if there are any, are longer than that. The
  code has 30 s and 10 s (`openbao.rs:76`). `TimeInv` says why: the computed expiry is late by
  at most one timeout, the time of the login, and a request lasts at most another. TLC shows
  both hypotheses to be tight: with a margin of one timeout, or with a lease of two,
  it finds a request with a token that has run out.
* `ControllerProofs`, for any specs, allow lists and verdicts, any number of edits,
  creations, faults and restarts, from `None` being none of the values.
  `StaleIsNoticed` is not inductive: a patch that changes nothing ends the reconcile.
  The invariant says that what the controller has not been sent ends with the
  resource as it is, that its cache is the resource once it has been sent everything,
  and that a patch under way with nothing further due is the verdict on that cache.
  `ObservedMeansJudged` rests on generations that only grow: whatever was seen or
  judged is no later than the resource, and of its generation only if it has its spec.
* `SessionProofs`, for any number of tabs, users, logins and restarts and any times,
  from offsets of the provider's clock within the allowance: all properties
  of the run. The invariant says of every session what it was made from
  (the `admin` and the time of its code, an expiry bounded by the start of its login),
  and of every request under way what admitted it. Logins, codes and sessions only
  become more, so a step is looked at for what it adds and for the tab it moves.
  `CallbackIsHeard` needs that only a callback that succeeded takes the newest login out
  of the jar (`JarOK`).
* `AlertsProofs`, for any units, widths, thresholds, policies, expiries and keys. A
  duration that parses is a natural number and a deadline a moment, from which
  `AlertsMatchPage` and `UrgencyGrows` follow by comparing three numbers. Of the list: a
  row's state goes with its deadline (`RowsHaveTypes`), and each of the three comparisons is
  antisymmetric and transitive, with the values that are missing; hence `OrderIsTotal` and
  `ExpiredFirst`; `ChipsCountRows` needs only that no state is named like "nothing
  chosen".
* `ValidationProofs`, for any specs, targets, patterns, units and widths. `JudgedInv` says
  that the problems of a spec are those `validate` finds.
  `ValidTargetsAreDistinct` then needs that a mount of one segment is its own trimmed form,
  and that the path a policy names determines mount and trimmed path (`TrimmedPath`,
  `PolicyPathsDiffer`); `ValidMeansScheduled` that a duration which is given and not
  refused is a number. `GlobMeaning` (`PathsAreJudgedByMeaning`) compares two recursive
  functions, one over segments and one over characters, for patterns and paths of any
  length. A text that is joined at its slashes has every segment at an offset
  (`JoinedLayout`), and so have the tokens of a pattern. A recursive definition on an interval
  has a function that satisfies it (`Recursion`), so both sides go step by step
  (`GlobMatchSteps`, `DescribesSteps`); one segment of the pattern describes the text from an
  offset on exactly if it matches the segment there and the rest describes what follows
  (`StepFits`, `LastSegmentFits`). The two then agree from the last segment to the first
  (`MatchesAreDescribed`), by induction on an interval: the least or the greatest
  number at which a statement about given data fails is a counterexample to a step
  (`Upwards`, `Downwards`).

Only model-checked:

* Liveness: `RequestEnds`, `WriteEnds`, `Converges`, `BecomesReady`. The prover does not
  reason about fairness.
* The findings, which are counterexamples.

## 5. Where the program and its texts disagree

Three are shown by a run:

* `finding_two_keys`: "there is nothing to coordinate"
  (`deploy/helm/you-spin-me/templates/deployment.yaml:9`), but two rotations of one
  key interleave; both are acknowledged and the targets hold different keys.
* `finding_rotate_step_up`: the flag's help says that with step-up "recording or
  rotating a key requires a login no older than this" (`src/config.rs:102`); `rotate`
  does not ask (`docs/PLAN.md:244` lists it under "Could add later").
* `finding_nothing_written`: the dialog shows every error under "Nothing was written"
  (`templates/partials/rotate_result.html:4`), also `RotateError::Status`, which comes
  after the writes (`src/rotation.rs:152`); the counter calls it "rejected"
  (`src/rotation.rs:192`). `AcknowledgementsAreTrue` therefore speaks of the two other
  dialogs and of the events.

Others were met while modelling; no run is spent on them:

* "Most recent first" (`src/crd.rs:185`) is the order of the saves, not of the dates,
  which are read before the save (`src/rotation.rs:266`): the summary of an older
  rotation can replace that of a newer one.
* "keeping the other keys" (`src/targets/openbao.rs:209`), but the POST that follows a
  404 replaces a secret that was created in between. Where the secret existed all along
  the statement holds (`KeptWhereItExists`).
* The gauge "1 if the last write to the target succeeded" is the entry saved last, not
  the last write. Entries of targets that left the spec stay until the next
  rotation, and so do their alert and their count on the page
  (`templates/partials/keys_table.html:49`).
* "Drop entries for targets no longer in the spec" (`rotation.rs:288`) goes by the
  rotation's snapshot of the spec: the entry of a target added meanwhile goes too.
* `docs/PLAN.md:258` has a threshold reached at "≤", the code at `<`. At the moment of
  the deadline a key with a critical threshold of zero is both expired and due soon
  for the rules (`AlertsMatchPage` makes the exception).
* "Most urgent first" (`src/web/pages.rs:194`) is by deadline: a key with long thresholds
  can be critical and come after one that is only a warning.
* A key's own threshold and the configured other one are not compared, so critical
  may begin before warning; the state is then never a warning.
* A path of slashes only passes `validate`. A `#` in a path or a key can make the
  references of two distinct targets equal, which are then refused as duplicates.
* "The login expired" is also shown when the callback of another tab removed the cookie.

## 6. Plan

Done: all modules of section 2 with their runs, and the proofs of section 4. Left:

1. That Rotation, with its own mutations, implements AtomicStatus, as StatusStore does.
2. The counters of Metrics as history of Rotation.

## 7. Not modelled

Rendering and the parsing of dates in forms, routing, assets, the Origin check and
security headers (stateless: each request is judged by itself), logging, configuration
parsing, the CRD generator, demo data, templates of the chart other than the alert
rules. The counters, the info metric and `target_healthy` of Metrics: they repeat a
status or count answers. The shutdown of `main.rs` ends the process when the first of
two servers has drained and drops the requests of the other; what a dropped request leaves
behind is `Restart` in Rotation, OpenBao and Session. Secrecy of key values (zeroing,
logging) is not a property of states and is left to review.
