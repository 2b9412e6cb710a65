# A verification project for PodDebugger

PodDebugger diagnoses a failing container or pod with a team of LLM agents,
can fix it with a catalog of typed actions behind approval gates, and runs
in a cluster as a crash watcher or as an operator for
`PodDiagnosticRequest` resources. This directory holds TLA+ models of the
parts of it whose behaviour depends on order, time and failure, the TLC
configurations that check them and the proofs that TLAPS checks.

Contents: [inventory](#inventory), [modules](#modules), [runs](#runs),
[what the runs found](#what-the-runs-found), [fairness](#fairness),
[proofs](#proofs), [what is left out](#what-is-left-out), [plan](#plan).

## Inventory

The repository has three programs: the Python CLI `poddebugger`
(`agent/poddebugger`), the small agent framework it is built on
(`inquiro`), and the Go binary `poddebugger-watch` (`controller`), which
runs the CLI as a child process.

| Component | State | Operations | Talks to | What is hard | What makes it correct |
|---|---|---|---|---|---|
| Remediation loop (`scaffold/engine.py`, `remediation.py`) | attempts so far, the plan, the baseline, the undo file | propose, plan, gate, execute, verify, replan, record | providers (shell-out), LLM agents, the gate, the experience store | the workload moves between any two steps; commands time out after they took effect; reads go through a cache | it stops when it must, reports what happened, judges the workload the fix produced, and undo restores what was there |
| Providers (`providers/`) | inspect cache of the run | inspect, events, logs, exec, mutate | `podman`, `kubectl` | the cache outlives the fact it holds | a verdict never rests on a cached look |
| Operator (`controller/operator.go`, `analyzer.go`) | a map of what it has processed, the request in hand | decode, analyse, consult policies, remediate, patch status | API server (watch, patch), the CLI | late events, lost patches, restarts, requests edited or re-created while it works | a workload is touched once per decision; phases only advance; approvals are honoured and not lost |
| Approval policies (`controller/policy.go`) | none (read per decision) | evaluate | API server | several policies disagree, selectors, expiry | a decision that stops an action is not outvoted by one that allows it |
| Crash watcher (`controller/main.go`, `kubernetes.go`, `podman.go`) | channel of 16 events, last analysis per target | watch, debounce, analyse | runtimes, the CLI | the producer blocks, events age in the queue | at most one analysis per target and cooldown |
| Approval gate (`approvals.py`) | rules snapshot, session approvals, the rules file | request, prompt, persist; `approvals add/remove` | the human, other runs through the file | runs and the CLI rewrite one file | a deny is the last word; nothing runs without consent |
| Investigation engine (`scaffold/engine.py`) | iterations, LLM calls, probes run, specialists | coordinate, probe, analyse, verify, research, code, audit, report | LLM, providers, gate | budget overshoot, failing agents, revisiting findings | it ends; every hypothesis is judged while there is budget; nothing is asked twice; a fix rests on the findings that stand; the budget holds up to a stated overshoot |
| Claim state (`inquiro/state.py`, `scaffold/state.py`) | leads, hypotheses, findings, evidence | add, promote, refute, demote, save, load | engine, workspace | many agents move one claim | nothing ruled out comes back, nothing is judged or demoted twice |
| Workspace (`inquiro/workspace.py`) | `state.json`, `state.md` and their git history | create, commit | engine | kills between commits, same-second collisions | what earlier iterations found is on disk |
| Experience store (`experience.py`) | one file per incident | save and prune, recall, clear | engine of every run | several processes prune one directory | the cap holds up to saves under way, no record goes that is not outnumbered, no recall misses what is there |
| Undo (`remediation.py`, `cli.py`) | one last-remediation file per target name | save, load, plan, execute | `remediate`, `--undo`, the engine | several runs on one target, kills, values that go through text and back | a saved fix is not replaced by an older one, and its undo puts the definition back |
| Sandbox (`scaffold/sandbox.py`) | none | run code | gate, `podman` | | fails closed without a gate |
| Agents, prompts, LLM clients, search, configuration, scenarios, prompt optimizer, CLI rendering | none that survives a call | | LLM, network | wording and I/O | outside the reach of a model checker; what they may answer is nondeterminism in the models |

The hazards that follow from this table, each at its line with the
properties that watch it, are listed in `PROJECT.json` under `hazards`.

## Modules

`Catalog` - the remediation catalog as a table: platforms, risk, what an
action edits, whether it leaves a reversal, what verification can judge.

`Remediation` (extends `Catalog`) - one run of `analyze --fix [--confirm]`:

| Variable | Code |
|---|---|
| `pod`, `desired` | the workload and, on Kubernetes, the template of its controller |
| `cache` | `_inspect_cache` / `_pod_cache` for the target |
| `pc` | where `_remediate_loop` is: before the proposal, before `apply_remediation`, at the gate, before the shell-out, in the verification wait, replanning |
| `plan`, `baseline` | the `Plan` that will run and `capture_baseline`'s snapshot |
| `attempts`, `outcome` | what the loop returns |
| `undo`, `experience` | the last-remediation file; the record `remediate()` stores |
| `prior`, `crashed` | history: what the last shell-out really replaced, and whether the workload crashed since |

A configuration stands for everything an edit can change (image,
environment, resources, probe); the workload crashes under a configuration
that is not in `Healthy`. Actions: `Propose`, `NoProposal`,
`CollectFails`, `Block`, `Apply`, `Approve`, `Refuse`, `ExecuteSucceeds`,
`ExecuteFails`, `SkipVerification`, `Verify`, `Replan`; the world's
`Crash`, `PolicyRestart`, `Rollout`; and `Kill` (Ctrl-C). Each engine
action is what happens between two points where the world can move.

`Policy` (extends `Catalog`) - `EvaluatePolicies` with scopes, expiry and
wildcards. Policies and their rules are lists, as in the cluster; the loops of
the code return at the first deny and otherwise only remember what they met, so
that `Voted`, the set of decisions of the rules that apply, is all they look at.
The documentation gives order a part: see [what was seen](#what-the-runs-found).

`Operator` (extends `Policy`) - the operator, its users and the API server:

| Variable | Code |
|---|---|
| `objects` | every request ever created: name, spec, phase, proposal; a deleted one is not `live` |
| `policies` | the installed `PodDebuggerApprovalPolicy` resources |
| `stream` | what `kubectl get --watch` has printed and the decoder has not read: copies of objects as they were |
| `processed` | the map of `RunOperator` |
| `pc`, `cr`, `todo`, `status` | the handler: the decoded copy, the action about to run with the decision and the labels it rests on, the patch about to be sent |
| `ran`, `touched` | history: remediations run for each request; the requests the running operator has run one for |

`BeginAnalysis`, `BeginApproved` and `Ignore` are the three ways through
`reconcile`; `AnalysisFails`, `Analyzed` and `Consult` are
`analyzeAndMaybeRemediate`, `applyUnderAutoRemediate` and
`consultApprovalPolicies`, split where a child process runs; `RunSucceeds`
and `RunFails` are `RunRemediation`; `PatchLands` and `PatchFails` are
`patchStatus`. `Restart` may fall between any two of them, and when it falls
into a remediation the workload may have been touched. `Merge` replaces a
proposal where the JSON merge patch merges the two field by field: no request
that has one is sent another (`ProposalsAreNotMixed`).

`RequestLifecycle` - the abstract specification of a request: its phases as
`deploy/README.md` ("CR phases") draws them and when its workload may be
touched. `Operator!Lifecycle_Spec` is the refinement.

`Approvals` - the approval gates of several CLI runs over one rules file, and
the `approvals add/list/remove` commands that rewrite it:

| Variable | Code |
|---|---|
| `flags` | `--yes`, `--approvals`, whether there is a terminal, and the target of each run |
| `rules`, `session` | `RulesGate._rules`, a snapshot of the file, and `RulesGate._session` |
| `pc`, `asked` | where `request()` is and for which descriptor; `save` and `write` are the two halves of `Path.write_text` |
| `file` | the rules file: a list, `Empty` after a truncation, `Garbled` when two saves wrote over each other |
| `editor` | the `approvals` command that is running, and the rule number its user has read |
| `midnight` | the end of the day that a rule with `expires` names |
| `always`, `intended`, `bound`, `current`, `stale` | history: what each human agreed to for good, which hand-written rules should be in place, the denies a run started under, and whether a save rests on an old view of the file |

Every save rewrites the whole list its command read earlier; nothing locks
the file. A request stands for a remediation, the deep-inspection bundle or a
sandboxed script: `remediation.execute`, `deepinspect.run` and
`sandbox.run_code` consult the gate in the same way and do nothing on a
denial. A descriptor's `risk`, `summary` and `plan` are only rendered.

`Watcher` - the crash watcher:

| Variable | Code |
|---|---|
| `printed`, `runtime` | the pipe of `podman events` or `kubectl get pods --watch`, and whether the command still runs |
| `reader`, `found` | the goroutine in `Watch`: reading, blocked in its send, in `cmd.Wait()` after output it could not decode, or gone with the channel closed |
| `channel` | the buffered channel of 16 |
| `pc`, `event` | the loop of `main` |
| `rest` | `debouncer.last`, as what is left of the cooldown of each key |
| `age`, `owed` | history: the time since the last analysis of each target began; the crashes found and not yet taken up, in order |
| `signalled` | the cancelled context |

`Skip` and `Analyze` are the two outcomes of `allow()`, which marks a target
before its analysis; `AnalysisEnds` is every way `handle` returns. What the
runtime prints is arbitrary: a pod may crash, be printed again while it
waits, or be printed with its last OOM kill long after it recovered.

`Claims` - the abstract specification of the claim state: a hypothesis is
proposed once, judged until it is confirmed or refuted, and a finding may be
demoted; one claim moves at a time.

`Investigation` - `investigate` and the replanning of `remediate`, with every
agent's `apply()`; `ClaimsAreKept` is the refinement of `Claims`:

| Variable | Code |
|---|---|
| `pc` | the step that is due: an agent's turn, a commit, the end of a loop |
| `calls`, `iteration`, `findingsAt`, `rounds`, `fixes` | `_calls`, `state.iteration`, `findings_at`, what is left of `extra_rounds`, the attempts that failed |
| `minted`, `claim` | the `H` sequence, and where each hypothesis is: `hypotheses`, `confirmed_findings` or `ruled_out` |
| `queue` | the hypotheses of one Analyst's answer that are still to be verified |
| `critiques` | the Auditor's answer as the loop of `_run_audit_chain` works through it |
| `asked`, `specialists` | `_probes_run`, `_queries_run` and `_scripts_run`; `_specialists` |
| `saved` | the claims in `state.json` |
| `diagnosis` | which findings the diagnosis in hand rests on, and whether the last report succeeded |
| `consulted`, `unbudgeted` | history: how often a source was used; turns taken without `_budget_ok` |

A model may answer anything, so an answer is a choice from what `apply()` can
make of it (`CoordinatorAnswers`, `AnalystAnswers`, `VerifierAnswers` ...).
`Turn` is `_run` with its retry; `Derail` is every exception that leaves the
engine. A step is one turn with what the engine does of it, since the engine
is one thread and shares nothing but the workspace.

`Quantities` - `parse_memory`, `parse_cpu` and the two formatters. A quantity
as written is a count and a unit; parsed, it is a number of bytes or of
millicores.

`Undo` (extends `Quantities`, `Catalog`) - what every action of the catalog
changes, what it saves and what its undo puts back, with several processes on
one target:

| Variable | Code |
|---|---|
| `definition` | the workload, field by field: memory, cpu, probe, image, replicas, `env` - the environment with everything else an image has defaults for: labels, entrypoint, command - and the ports and volumes of a Podman container (`mounts`) |
| `revisions`, `served`, `pod` | Kubernetes: the templates a rollback may go to, the template the pod was made from, the pod that bears the name |
| `present` | Podman: the container exists |
| `run` | each process: its step, action, params, the definition its planner saw, its reversal, and what it undoes |
| `file` | per target name, `last-remediation-*.json` |
| `done` | history: every executed fix with the definition its planner saw, the one before and the one after, and the fixes that waited meanwhile |

`Reversal` and `Result` are the planners and executors, one operator for each
action. `Started` is what `podman run` makes of a definition: an image that
brings an environment of its own (`ImageEnv`) gives it to a container that has
none, `podman inspect` does not tell the two apart, and a rebuild passes on what
it shows. `Params` has the two ways to a fix: `remediate` parses a form once,
`apply_remediation` parses what `propose_remediation` parsed already.

`Experience` - the directory of incident records:

| Variable | Code |
|---|---|
| `store`, `modified`, `clock` | the files, torn or whole, and their mtimes |
| `pc`, `queue` | where `save`, `load_all` or `clear` is, and the files it has listed and not come to |
| `found`, `recalled` | what a recall read, and what `_recall_experience` lands as evidence |
| `created`, `pruned`, `wholeAt` | history: when a record was begun, which ones a save removed, what could be read when a recall listed |

Listing is two steps, a glob and then the age of each file, and removing or
reading is a step for each file: other processes move in between.

`MCRemediation`, `MCOperator`, `MCApprovals`, `MCWatcher`, `MCInvestigation`,
`MCUndo`, `MCExperience` - instances for TLC and the documentation's claims
that the violation runs refute. `RemediationProofs`, `ApprovalsProofs`,
`OperatorProofs`, `WatcherProofs`, `InvestigationProofs`, `QuantitiesProofs`,
`UndoProofs`, `ExperienceProofs` - the theorems.

A definition named `X...` under the comment "Mutant of X" is a plausible bug
in X; substituting it for X must violate the property it is paired with in
`PROJECT.json`.

## Runs

| Run | Question | Instance |
|---|---|---|
| `Remediation` | Does the loop stop when it must (`StopsAtOnce`), report what happened (`OutcomeMatchesTrail`), judge the workload the fix produced (`PodmanRecoverySeesTheFix`), notice a crash after an edit in place (`InPlaceRecoveryIsStable`), leave an undo record that restores what the fix replaced (`UndoRestoresLastFix`), and end (`Termination`)? | both platforms, every risk tier, preview, verification off, protected namespace, unwritable state directory (one unusual setting at a time); five actions, one per combination of risk, platform rule and reversal; two configurations, two attempts, one counted restart |
| `Operator` | Is a workload touched at most once per operator life (`OncePerOperatorLife`), does an automatic run above the ceiling rest on a policy (`AutoRunsStayBelowCeiling`), does no automatic run go against a policy as it was read (`PoliciesAreHonored`), is no proposal written over another (`ProposalsAreNotMixed`), does a request follow its documented phases (`Lifecycle_Spec`)? | six specs, three lists of policies, one name used by up to two requests in turn, two edits or deletions or policy changes, one restart, one lost patch |
| `OperatorServes` | Is every new request answered and every approval carried out while one goroutine serves all? | two names, two requests, one edit, one restart |
| `Approvals` | Is a deny the last word for every request of a gate (`DenyIsTheLastWord`), does everything that runs rest on consent (`EveryEffectHasConsent`), do saved rules cover no more than what was agreed to (`SavedRulesCoverOnlyConsent`), does a deny bind later runs through kills and half-written files (`DenyBindsLaterRuns`)? | two runs in any combination of `--yes`, persistent, non-interactive and `off`, on two pods of a namespace; one action asked for again and again; a wildcard deny, an allow that expires and a malformed rule; two edits, one prompt answered per run |
| `Watcher` | Is a target analyzed at most once per cooldown (`AnalysesAreSpaced`), is every crash that was found taken up in its turn, and before a watch ends by itself (`FoundCrashesAreTaken`), is every crash taken up in the end (`EveryCrashIsTaken`), does a target that goes on crashing come up again, whoever else crashes (`CrashLoopIsReanalyzed`)? | two pods of one name in two namespaces, two containers; a channel of two, a cooldown of two ticks, one unread line |
| `Investigation` | How far is `max_llm_calls` overshot (`BudgetOverrunIsBounded`), is a hypothesis left unjudged only when the budget is spent (`UnjudgedOnlyWhenSpent`), is nothing asked twice (`AskedOnce`), does a proposal rest on the findings that stand (`DiagnosisRestsOnFindings`), does a kill lose one iteration at most (`IterationsStartSaved`), do the agents keep the promises of the claim state (`ClaimsAreKept`), does it end (`Termination`)? | four iterations, a stop two after the first finding, a budget of twelve, one replanning of two rounds after one of two fixes; two hypotheses, two critiques, one probe, one query, two specialties for one specialist |
| `Undo` | Does a saved fix leave its file only to a newer one (`NewestSavedOnFile`), and does its undo put the definition back (`UndoRestores`)? | both platforms, eight actions with every form of the chosen values; one process that fixes, one that undoes, one that does either; a workload with a limit and an environment, one with limits beyond the ceilings and mounts, one with nothing at all; an image that brings an environment; one rollout |
| `Experience` | Does a record go only when enough others were written since (`PrunedOnlyWhenOutnumbered`), is the cap exceeded by unfinished saves alone (`StoreIsCapped`), does a recall miss nothing that was there all the time (`RecallMissesNothing`)? | a full store of one, two saves, a recall of one, a clear; records that score alike and less alike |

Why the bounds are enough. Two attempts are needed to see a stop rule
violated and to see what the first leaves for the second; a third adds
nothing the second does not have, since the loop keeps only the trail, the
cache and the world. One counted restart distinguishes a counter that rose
from one that did not, and the off-by-one of `restart`. In the operator two
requests under one name are needed for a patch that reaches the wrong
object; two names for a queue behind a busy goroutine; a second restart
repeats the first. The watcher's state is finite without any bound on how long
it runs; a channel of two is full with one crash of each pod. Two writers suffice to lose a rule and to garble a file; a
third finds what one of the two left. One answered prompt per run is enough
because an answer meets a later request of the same run through `session` or
`rules`, and requests are not bounded. A second action would meet no rule and
no approval of the first, since a session key and a rule both name the action;
the proofs have any set of them. In the investigation the second fix, and
the replanning before it, is the first that sees what a failed one left, and two
hypotheses make an order; the proofs have any number of everything. In `Undo`
three processes are a fix, a second one that overlaps it and the undo of
either, and an undo is undone; units of two and ceilings of four make values
that divide a unit, that do not, and that are beyond a ceiling. In `Experience`
two saves are the least that can prune what the other has begun.

## What the runs found

Four runs check a sentence of the documentation, or of a docstring, and find it
violated. Each is in `PROJECT.json` under `findings` with the quoted line.

* `RemediationOldPod`: `set-resources`, `adjust-probe` and `rollback`
  replace the pod too but are not in `_VERIFY_NEW_POD_ON_K8S`: the verdict
  can be that of the old pod.
* `ApprovalsLostDeny`: a run in persistent mode writes the rules it read when
  it started, and its own, over a deny that was added meanwhile. For the same
  reason `DenyBindsLaterRuns` excepts saves that rest on an old view of the
  file, and `approvals remove`, which takes a number read from an earlier list.
* `UndoApply`: `apply_remediation` parses params that `propose_remediation`
  parsed already. `parse_cpu` reads an integer as cores, so a CPU limit is
  applied a thousandfold or refused as beyond the ceiling. `CpuParsedTwice`
  proves that no positive limit survives. The other runs of `Undo` have
  fixes that come by `remediate`.
* `UndoUnreachable`: the undo file bears the name of the pod a fix was made
  on. On Kubernetes an edit of the template replaces that pod: `--undo` with
  the old name does not resolve, and the new name has no file.

Seen while modelling, and not a run of its own:

* The documentation contradicts the code, and itself, on which policy decides.
  deploy/crd.yaml:271-273 and policy.go:10-12 say that the first matching rule
  does, unless a deny matches. `EvaluatePolicies` lets a `requires-approval` win
  over every `allow`, wherever the two stand, as its own comment says
  (policy.go:127-129).
* deploy/README.md:217-220 and crd.yaml:216 put `spec.allowedActions` before the
  policies. In the code it overrides a deny and nothing else: an `allow` policy
  skips `canAutoApply`, the only place where a proposal is compared with the list,
  and a `requires-approval` is asked for although the list has the action. And a
  deny that is overridden takes along what all other policies demand
  (`WhitelistLiftsApprovals`). `PoliciesAreHonored` states what the code does keep,
  with that exception.
* A fix is saved after its verification wait, and a failed write is swallowed
  (engine.py:776). When its process is killed in between, or cannot write, the
  file is about the fix before it, and `--undo`, said to "roll the most recent
  action back" (README.md:193), takes that. `NewestSavedOnFile` therefore claims
  something of fixes that were saved only.
* A rebuild whose `podman run` fails is reported as not executed after the
  container was removed, so the record its docstring promises
  (remediation.py:816-819) is not written (`Fail` of `Undo`).
* `_podman_run_spec` reads environment, labels, entrypoint and command as inspect
  shows them, with what the image brought, and a rebuild passes all of it on. The
  reversal of `set-image` names the image only, so the container comes back on its
  old image with what the new one brought; `Restorable` excepts it.
* `_plan_restart` is the one Kubernetes planner that does not check for a
  protected namespace (README.md:217-218).
* When the pod of a run is gone, the collection for replanning or for the next
  proposal raises `ProviderError` out of the loop; the CLI catches `LLMError`
  only (`CollectFails` of `Remediation`; engine.py:818-821).
* A Podman rebuild drops resource limits, ports and volumes, which `_podman_run_spec`
  does not read: `Restorable` excepts a workload that has them.
* A strategic merge removes nothing: undoing the addition of a variable or of a
  limit leaves it there (`Restorable` again). The reversal of `set-resources` on
  Kubernetes holds the whole block, and so also puts back what others changed
  since.
* A request re-created under a name the operator has seen is never answered
  (operator.go:180). The converse is why `Lifecycle_Spec` speaks of
  requests whose name is new: a patch meant for a deleted request reaches its
  successor, and an operator that then reads the successor's creation event
  analyses, and under `AutoRemediate` remediates, a request that is already
  in a final phase.
* An answer that is JSON but no object passes `_call` and makes `apply()`
  raise, past engine.py:14, "no single agent can derail the run" (`Derail`).
* Rulings, reports and proposals do not look at the budget
  (`unbudgeted`), so the overshoot grows with the critiques of an audit.
* The audit of a replanning is committed only with the next proposal, and a
  Reporter that fails in a replanning leaves the diagnosis of the fix that
  failed (`latest`).
* Undo files are keyed by `platform-namespace-name` without a separator that
  names cannot contain, and not by container: `prod` and `db-web` share a file
  with `prod-db` and `web`.
* `ExperienceStore.save` returns `None` also when the record was written and
  only the pruning failed.

## Fairness

`Remediation` assumes weak fairness of the loop's own steps: LLM calls and
commands have timeouts, so every call returns; the prompt is assumed to be
answered. Nothing is assumed of the workload. `Operator` assumes weak
fairness of the operator's steps, for the same reason (`exec.CommandContext`
with a timeout around every child); nothing is assumed of users, admins or
restarts. The liveness properties of `OperatorServes` exclude a lost status
patch, which the code logs and forgets. `Watcher` assumes weak fairness of
the reading goroutine, of the main loop (an analysis has a timeout) and of
the clock; nothing of the runtime, which may fall silent. Its liveness
properties except a cancelled context and output that cannot be decoded:
after that `KubernetesWatcher.Watch` waits for a `kubectl` that goes on.
`Investigation` assumes weak fairness of the engine: every LLM call, probe,
search and script has a timeout. `Undo` and `Experience` claim nothing live and
assume nothing.

## Proofs

Every type invariant, safety invariant, action property and refinement that a
passing run checks is also a theorem, for every value of the constants that
the assumptions allow. Only liveness rests on TLC alone.

`RemediationProofs` proves, for every set of configurations, catalog offer,
set of requests and number of attempts (assumptions `ConfigAssumption`,
`OfferAssumption`, `BoundAssumption`, `RequestAssumption`,
`NoneAssumption`):

* `TypeCorrect` and `Invariance`. `TypeOK` bounds the trail by
  `MaxAttempts` and is not inductive alone: an action that appends must know
  that an attempt is left. `LoopInv` adds that - while the loop works, an
  attempt is left and nothing has been reported - and that a plan for an
  edit names a configuration.
* `StoppingFixIsLast`: from the invariant, by cases on the actions that end
  an attempt; each one appends to a trail that did not stop and either
  finishes or appends something that does not stop.
* `RiskIsBounded`: no fix above `--max-risk` is put to the gate or run; the
  plan at the gate is the plan whose tier `Apply` compared. No run checks it.
* `OutcomeIsEarned`: rests on `StoppingFixIsLast`.
* `RecoveryIsFresh`: strengthened by `FixInForce` - between the shell-out
  and the verdict the container runs the configuration the fix asked for,
  since on Podman nothing but a fix changes it - and `VerificationReads`
  returns the present.

* `InPlaceRecovery` and `UndoIsFaithful`: `LooksFit`. No look, however old,
  counts more restarts than the workload has had, and on Podman it shows the
  configuration that still runs (`CacheFits`); so the baseline counts no more
  than there were and the reversal of the plan is the configuration in force
  (`PlanFits`); and a workload that was edited in place, crashed and runs again
  has been restarted once more than the baseline says (`FixFits`). All of it
  only while no command has failed half-way (`Trusted`): a rebuild that
  failed after it took effect leaves a cache that shows the old configuration.
  `FileIsLast` and `Reverses` carry that to the undo file.

`OperatorProofs` proves, for every set of names, specs and policies and any number of
requests, edits, restarts and lost patches (assumptions `SpecsAssumption`,
`ProposalAssumption`, `BoundsAssumption`, `OperatorNone`):

* `TypeCorrect`. What is in hand must be typed by the step (`Holding`), and every
  event is about a request that exists, under its own name
  (`EventsAreAboutRequests`).
* `TouchedOncePerLife`. `processed` holds names and `touched` requests,
  and the operator acts on events that may be long out of date. `OneOfTwo` and
  `TouchedAreSpent` say that a request this operator has run for is `Spent`:
  nothing it can still do runs for it again. That rests on the order of the
  stream - of what was shown later no earlier phase comes (`PhasesAppear`),
  a wait for an approval comes after the analysis (`AnalyzedBeforeWaiting`) -
  and on one live request to a name (`OneLive`), since a patch goes to
  whoever bears the name.
* `NoMixedProposals`, from `OneProposal`: a request that has a proposal shows a
  phase, while it lives no event ahead makes the operator analyze its name again
  (`ProposalsShow`), and what is analyzed now has none under that name
  (`NobodyHasOneYet`).
* `CeilingIsKept` and `PoliciesBind`, from the ladder of `Consult` and
  `EvaluatePolicies`.
* `KeepsLifecycle`, the refinement of `RequestLifecycle`: every step of users,
  operator, API server and restarts is a step of the abstract request or none.
  It needs `FreshIsCurrent`: of a request with a name of its own, what the
  operator works on, and every event it would still act on, shows the phase the
  request has now.
* `MorePoliciesNeverLoosen`: adding a policy never turns a deny, or a demand for
  an approval, into less. `WhitelistLiftsApprovals`: what
  `consultApprovalPolicies` makes of it has no such order, since a deny that
  `spec.allowedActions` overrides takes the demands for an approval along; hence
  the exception in `PoliciesAreHonored`.

`ApprovalsProofs` proves, for every set of runs, flags, hand-written rules and
requests (assumptions `FlagsAssumption`, `AsksAssumption`, `TargetsAssumption` - a
run has a target with a name, and a namespace on Kubernetes only -
`RulesAssumption`, `BoundsAssumption`, `NoneAssumption`):

* `TypeInvariance`, `TypeCorrect`. `TypeOK` alone is not inductive: a
  persisted rule is made of the descriptor at the prompt, and an edit of the
  rule its user named, so `Held` says that both are there.
* `DenyIsLast`. The gate looks up session approvals before rules, and a run
  appends to its rules, so the property needs that no session approval and no
  request past the rules is denied by the list (`SessionsRespectDenies`,
  `RequestsRespectDenies`). It is kept because an answer appends allows only
  (`AllowDeniesNothing`), rules are never read again, and the end of a day
  takes rules out of force and puts none in (`MidnightDeniesNothing`).
* `EffectsHaveConsent`, from `SessionsAreAgreed`.

* `FileCoversConsent`, from `CoverInv`: no list that may still be written - the
  file, the rules of a gate, the list a command has read - allows a descriptor
  nobody agreed to. An answer is saved as a rule with every field filled
  (`TargetsAssumption`), so it covers its own descriptor and no other, but for
  the namespace of a container, which has none.
* `DeniesBind`, from `BoundInv`: as long as nobody has rewritten the file from an
  old view of it, whoever may write it next keeps every deny that is meant to be
  in place, and every gate keeps those it was started under (`DeniesKept`).

`WatcherProofs` proves, for every set of targets, capacity and cooldown
(assumptions `TargetsAssumption`, `NumbersAssumption`, `NoneAssumption`):
`Invariance`, that what is left of the cooldown of a key and the time since
the last analysis of its target make up one cooldown (`Complementary`, which
rests on `KeysDiffer`: no two targets share a key) and where the crashes that
are owed may be (`Ledger`: in the channel, in the order of the finds, the last
one perhaps still in the hand of the goroutine or, after a signal only, dropped);
and from it `TypeCorrect`, `Spacing` and `EveryFoundCrash`, which are every
safety property of the run, and `SkipsAreOwn`, that a crash is dropped only because
its own target was just analyzed, which no run checks.

`InvestigationProofs` proves every safety property of the run `Investigation`,
for every menu, set of sources and specialties, budget, number of iterations,
rounds, fixes, specialists, hypotheses and critiques (assumptions
`MenuAssumption`, `BoundAssumption`, `NoneAssumption`). Given the types, none is inductive
but `DiagnosisRestsOnFindings` and `IterationsStartSaved`; `EngineInv` adds:

* `FixLeft` - a run that goes on has a fix left - for the bound of `fixes`;
* `BudgetKept` - how much can have been spent at a step that does not look at
  the budget: nothing before the Scout, two calls before the Planner, less than
  the budget and one turn before a dispatched action, less than the budget
  before a second verdict. `OverrunStep` adds a turn to that;
* `QueueIsOpen` - only a dispatch of the Analyst has hypotheses waiting, and all
  of them are undecided - for `UnjudgedOnlyWhenSpent`, with `CallsGrow`, and for
  the refinement, where a verdict must find its hypothesis undecided;
* `MarkedFirst` - what was not marked was not used - for `AskedOnce`;
* `MintedInOrder` - what is beyond the last id was never proposed, so the guard
  of `Claims!Propose` blocks no answer of the Analyst.

`Refinement` shows that every step is one of `Claims` or leaves the claims alone:
the four steps that move claims (`ClaimMovers`) are described by `Proposals`,
`Verdicts` and `Rulings`.

`QuantitiesProofs` proves, for every set of units that has 1 and every ceiling
(assumptions `UnitAssumption`, `CpuAssumption`, `CeilingAssumption`,
`InvalidAssumption`), that a printed quantity is read back as it was or refused
(`MemoryRoundTrip`, `CpuRoundTrip`) - which needs that there is a largest unit
that divides it (`LargestNatural`) - and that a CPU limit parsed twice is not
itself (`CpuParsedTwice`).

`UndoProofs` proves, for every finite set of processes, every definition of
the workload and every choice of values (assumptions `UndoAssumption`,
`ValueAssumption` - a form has a number where a parser wants one, and a
limit of zero is no limit - and `FileAssumption`), on top of the round trips:

* `TypeCorrect`. Only a reversal that parses is planned (`Fits`), and what is
  printed is parsed back or refused (`ParsedTextIsSame`), also when the
  engine parses a number twice.
* `SavedFixStaysOnFile`. The file of a saved fix may hold an older one only if
  that was waiting when the newer was executed, so every later fix must know of
  it (`WaitersKnown`), and each process executes once (`OneFixEach`). Of a fix
  that was executed and never saved it says nothing, and the code keeps nothing.
* `UndoPutsBack`. For each action, the reversal its planner keeps gives back the
  definition it replaced (`GivesBack`), whatever the form was, but for what a
  rebuild loses, a patch cannot remove or only the new image brought; every payload on file or planned
  from is one such reversal of a fix of the trail (`Faithful`, `Fits`).

`ExperienceProofs` proves, for any finite set of savers, any set of recallers and
clearers, any cap, any recall limit and any likeness of the records (assumptions
`StoreAssumption` - the store keeps to its cap at first - and
`RecordAssumption`):

* `TypeCorrect`, and `RecallIsComplete`: whatever could be read when the recall
  listed and still can is read already or queued, once (`Recalling`); of those
  the ranks of a finite total order (`Ranking`) put the best `K` first.
* `OnlyOutnumberedArePruned`, from `Doomed`: whatever a save has yet to prune is
  outnumbered by records written since, or gone. It needs that no two files are
  modified at once and none before it was created (`Stamps`). Files that have
  vanished since the glob count as the oldest and stand in any order.
* `CapIsKept`, from `Capped`. The store is bounded by what each save listed: of
  two saves one listed all that the other did, and itself, so of those that are
  done the one that listed most has had all but the cap removed, and
  what it did not list belongs to saves under way.

What stays with TLC: `Termination` of `Remediation` and of `Investigation`,
`EveryCrashIsTaken` and `CrashLoopIsReanalyzed` of `Watcher`, and
`FreshRequestIsAnswered` and `ApprovalIsCarriedOut` of `OperatorServes`: all are
liveness under fairness, for which the prover would need `ENABLED`.

## What is left out

* The wording of prompts and of evidence, rendering, LLM transport, search,
  configuration and the scenario suite: no state that outlives a call. The prompt
  optimizer is a sequential development tool.
* `Remediation` has a configuration where `Undo` has fields; `scale` is in
  `Undo` only, since a replica count does not make a workload healthy.
* `Operator` runs one operator at a time; the rolling update of
  `deploy/operator.yaml` may have two.
* `Investigation` has a workspace of its own: two runs that start in the same
  second share a directory. A commit is one step: a kill in the middle of its
  write can leave half a `state.json`, and nothing in the repository reads one
  back. What a fix does to the workload is in `Remediation`.
* `Undo` has one workload; two targets whose keys collide, `--undo PATH` and a
  controller that somebody else edits at the same time are not in it.
* Leads, checks, evidence and notes are written by the agents and never change
  what the engine does next.

## Plan

1. Done: every module above, and a theorem for every safety property of the
   passing runs.
2. Theorems left: the abstract store that `Experience` would implement, and that
   `Remediation` executes what `Undo` describes field by field, which are two
   views of one program that only their comments relate.
3. `Operator` with a second operator alive during a rolling update.
