# Agents Never Sleep: a TLA+ model of the night loop

Agents Never Sleep drives a coding agent through a backlog while nobody watches. The
agent is a worker: it calls short-lived commands (`next`, `complete`, `resolve-park`)
that decide, snapshot, gate, revert and record. Every command is a process that may be
killed at any point, and everything it knows afterwards is in a handful of files and in
git. Around it a launcher decides whether a run may start, and where; a gate cache saves
work; and a board of issues is told of the results. This directory holds the TLA+ modules
that model that machine, the TLC runs that check them on small instances, and TLAPS proofs
of the properties that matter most.

## Inventory

| Component | Source | State it keeps | Operations |
|---|---|---|---|
| Ticket loop | `driver.py`, `orchestrator.py`, `run.py` | `pending.json` (token of the ticket in flight), `skip-this-run.json`, `run-incomplete` (the sentinel), `run-progress.json` (breaker counts, 402 flags, F5 calls) | `next`, `complete`, `resolve-park`, `_terminate` |
| Outcome store | `state.py` | one outcome per ticket, seven states, four of them terminal | `write`, `get`, by atomic replace |
| Attempt ledger | `ledger.py` | attempts, failure signatures, F5 offers | `record_attempt`, `over_cap`, `record_signature`, `mark_f5_offered`, `consume_f5_offer` |
| Git wrapper | `vcs.py` | the tree, the run branch, the WIP backup refs | `commit_all`, `revert_to`, `checkout`, `create_run_branch` |
| Run branch | `driver.py`, `vcs.py`, `run.py` | `run-branch.json`, `resume-halt`, the branches of the repository | `_enter_run_branch`, `_resume_is_safe`, crash recovery, `_exit_run_branch` |
| Gate | `gates.py`, `orchestrator.py` | the token's baseline | `baseline`, `run_after_edit` |
| Gate cache | `gate_cache.py` | the receipt of the last green gate | `tree_id`, `write`, `hit` |
| Classifier, F5, trust | `decide.py`, `f5.py`, `trust.py`, `consensus_scope.py` | none | `classify`, offer questions, trust of a done ticket |
| Councils | `council.py`, `specialists.py` | spend counters | hints, fuse, 402 handling |
| Parked-code guard | `parked.py` | a stash, a fence in `.git/info/exclude`, a marker | `protect`, `restore` |
| Launcher | `launcher.py`, `trust.py`, `agent_clis.py` | the tree lock, `trusted.json`, trusted folders, the worktree root | pre-flight, permission repair, lock, isolate, spawn |
| Supervision | `launcher.py`, `watchdog.py`, `reap.py`, `heartbeat.py`, `enforce.py`, `hooks/` | session marker, heartbeat, block counter | respawn, restart, block a stop |
| Ticket source | `tickets.py` | none | list tickets |
| Paperclip | `sources/paperclip.py`, `run.py` | the board's issues and comments, `paperclip-pushed.json` | fetch issues, mark in progress, push outcomes |
| Set-up and reports | `init_cmd.py`, `config.py`, `preflight.py`, `report.py`, ... | configuration, text | none that the loop shares |

**Interactions.** The agent is outside: between a PROCEED and a `complete` it edits the
working tree, or it does something else. A command reads the files, acts on git, writes
the files one after another, prints one signal and exits; there is no transaction over two
files. The only lock is the launcher's, on the working tree: it keeps a second run out, not
a second command. The Stop hook reads the sentinel and tells an agent that
wants to stop to call `next`. The launcher and the watchdog start sessions and read the
sentinel and the heartbeat. `next`, `complete` and `report` fetch the tickets anew and, when
Paperclip is configured, push what the outcome store says.

**What is hard.** A kill between any two writes; a command repeated after it was killed;
a `next` while a ticket is in flight; an F5 answer that comes late; git failing at a
point the code catches, before or after its effect, or refusing a commit where nobody looks; a
gate that cannot run; the ways the run may end (drained, breaker, budget, credits, an operator's
halt) while tickets remain; a lock that outlives the process that took it; a config edited
between its check and its use; a gate verdict reused for another tree; a request that took
effect and whose answer was lost; a backlog read in several queries while it changes.

## The modules

```
Backlog  <-- refined by --  StepDriver  <-- MCStepDriver          (runs)
                                ^------- StepDriverProofs
GateLoop <-- refined by --  GateCache   <-- MCGateCache, GateCacheProofs
Preflight <-----------------  Launcher  <-- MCLauncher, LauncherProofs
ParkedGuard  <-- MCParkedGuard, ParkedGuardProofs
SessionLoop  <-- SessionLoopProofs
RunBranch    <-- RunBranchProofs    Watchdog    <-- WatchdogProofs
Board        <-- BoardProofs
```

Each module of a component sees the others through the files they share, and models only
what may happen to those files.

### Backlog, StepDriver: the ticket loop

`Backlog.tla` is the abstract specification: what the harness promises of a backlog. One
ticket is in flight at a time; only the ticket in flight becomes done; a terminal outcome
is final.

`StepDriver.tla` is the ticket loop. The correspondence with the code:

* A command is a chain of actions, one per durable write that another process could
  observe; `pc` names the step reached. `Crash` ends the command between any two of them
  and forgets what it had in memory (`cur`, `tok`, `res`, `via`).
* `outcome` is the OutcomeStore; `attempts`, `failures` and `offer` are `ledger.json`;
  `pending`, `skip`, `sentinel` and `progress` are the files of the same names.
* `tip`, `aside`, `kept` and `tree` are what HEAD holds, the other one of the run branch and
  the operator's, the branches of earlier runs, and the working tree, each a set of edits. An
  edit says which ticket it implements and whether it keeps the gate green: that is all the
  gate, the revert and the properties tell apart. `branch` says whether HEAD is on the run
  branch, and `lineage` which of the two branches the snapshot of the pending token is an
  ancestor of, the condition the recovery tests.
* A command enters the run branch first: it cuts it (`CutRunBranch`), rejoins it
  (`RejoinRunBranch`), or, where git fails, goes on where HEAD is (`NoRunBranch`, `driver.py:460`).
* `git commit` may be refused by a hook, which `commit_all` does not notice (`Refusal`,
  `vcs.py:204-209`): HEAD stays, the work stays in the tree, and the outcome is recorded all the
  same. `refused` is history: the tickets whose latest result was not committed.
* `GitFaults` names where git may fail: in a snapshot, in a finalization, in the revert of a
  recovery, in cutting the run branch, in switching branches, or by refusing a commit.
* `CallNext` .. `CountAttempt` are `next`; `CapTicket` .. `DropPending` are
  `begin_proceed` and the hand-out, shared by `next` and `resolve-park`; `ClearSentinel` ..
  `ResetRun` are `_terminate`; `CallComplete` .. `SetAside` are `complete`; `Resolve`,
  `Decline` and `HaltAnswer` are `resolve-park`. `held` and `asked` are what the agent
  believes it was told, `AgentEdit` what it does to the tree.
* `Kind[t]` is the verdict `classify` gives on ticket `t`: proceed, park (foundational or not,
  with an F5 offer first or not), or the halt an operator's override asks for, which ends every
  run at that ticket (`HaltTicket`); the verdict of the councils and
  specialists is a nondeterministic lowering of trust; the agent's F5 answer is any answer.

Three pairs of adjacent writes are merged into one step, because nothing between them
reads what the first wrote: resetting the set-aside tickets and the counters at the start
of a run, the same at its end, and entering the run branch together with the 402 flag of a
`complete`.

`MCStepDriver.tla` names the backlogs the runs use.

### RunBranch: the dedicated branch of a run

`StepDriver` has one run branch and no operator. `RunBranch` has what it leaves out: the
commit graph, and an operator who works in the same repository between two commands.

* `past[c]` is the set of ancestors of commit `c`, so that `git merge-base --is-ancestor`
  is membership; `tip`, `alive` and `HEAD` are the refs. Branch 0 is the operator's.
* `file` is `run-branch.json`, `pending` the snapshot in `pending.json`, `settled` whether
  its ticket has a terminal outcome, `halted` the `resume-halt` marker.
* `Create` .. `HaltUnsafe` are `_enter_run_branch`, `DropStale` .. `HandOut` the rest of
  `next`, `Exit` and `ForgetRun` are `_exit_run_branch`, `Keep` .. `ClearToken` are
  `complete`. `Kill` ends a command at the steps of `KillAt`.
* The operator commits, merges a branch, rewrites his own (amend, rebase), switches back to
  it, deletes merged branches as `git branch -d` does, and removes `run-branch.json` after a
  halt, as the halt's message tells him to. He does so between commands; he switches and
  removes the file only while no agent is at work.
* `own`, `recorded`, `chosen` and `over` are history: the commits of the harness, those of
  tickets recorded as done, the branch the run began on, and whether it is over.

A snapshot is always a new commit, of a clean tree too (`vcs.py` commits with `--allow-empty`). A
detached or unborn HEAD is not modelled, nor is here a git that refuses a cut or a checkout (the
command then goes on where it is; `StepDriver` has it).

### GateLoop, GateCache: what a verdict is measured against

A red gate is the change's fault only if the tree before it was green. `GateLoop.tla` is the
specification: the loop of `begin_proceed` and `finalize_proceed` with a gate that is run
every time. `code`, `ignored` and `command` are what a gate looks at: the files git tracks,
the ignored files that are loaded when it runs (`.env`, `conftest.py`, ...) and the commands
in the config. `Begin` and `Baseline` are `begin_proceed` behind the crash recovery, `Pass`
.. `NoVerdict`, `Commit` and `Settle` are `finalize_proceed`; `base` is the baseline the token
keeps and `before` (history) what it was taken of. A commit hook may refuse (`Refuses`), since
`commit_all` does not look at git's exit code: the loop then goes on with the old commit.

`GateCache.tla` adds the one receipt of `gate_cache.py`. `Key` is `tree_id` with the digest of
the ignored files, and None when the tree is dirty; `Record` writes the receipt between the
commit and the outcome, `Reuse` takes one that matches for a green baseline, `Lose` stands for
any unreadable receipt. `AsIfUncached` says that the loop with the cache is a behaviour of the
loop without it: what is cached can be told from nothing but the time it took.

### Preflight, Launcher: what happens before an agent works

`Preflight.tla` holds the decisions the launcher takes from its inputs alone, as operators: which
preset a config selects (`PresetOf`), whether it resolves, the permission level the launcher
judges its argv by (`Level`: that of Claude's settings files for an argv that names no level or a
mode that asks) and the one Claude runs at (`Effective`: flags beat settings), whether the
one-step repair applies and what it writes, the verdict (`Go`) and the isolation (`Isolates`).
`Mode` is the permission mode Claude's settings files give.

`Launcher.tla` is `ans-run`, called several times on one working tree. `Call` .. `RefuseUntrusted`
read the config and ask for trust (the registration of the folder, `Welcome`, is best effort);
`Lock`, `Busy` and `Unprobe` are `acquire_lock` (the last for `--check`); `Repair` and `Retrust`
rewrite the config, trust the file and start over; `Preflight`, `Confirm`, `ChooseTree`, `Reclaim`
and `Isolate` lead to one of the ways to start: the agent in place of the process
(`SpawnForeground`), a detached child with or without the watchdog (`SpawnChild`), or fresh
sessions (`SpawnSession` .. `Cleanup`). `fds` are the processes that have the lock's open file
description, as a flock lasts until the last of them closes it; a process that dies closes its
own. `AgentWorks` .. `WatchdogExits` are the processes left behind, `Edit`, `TrustCommand` and
`TreeChanges` whoever else writes the config, the trust store or the tree. `vouched` is history:
the configs a human has vouched for, be it the whole file (at the trust question, or by `--trust`,
which takes the operator's word for it) or a file so vouched for with the one change that a repair
has shown them. What else the file holds when a repair reads it again is trusted, and not vouched
for.

### Board: issues as tickets, results as comments

`Board.tla` is a run whose tickets are the open issues of a Paperclip project. Every command
fetches them (`Fetch`), misses some, since there is one query per status and any answer without
issues in it counts as none (`FetchInPart`), or falls back to the local folder (`FallBack`).
`HandOut` .. `NoSource` is the ticket loop, as far as the board tells it apart; `AskInProgress`
marks the ticket handed out, `Push` .. `WriteMarker` is `_push_paperclip`, one request at a time,
from `next`, `complete` and `report`. A request takes effect and is answered, or neither, or its
answer is lost; the marker file can be emptied by a write that fails. `moved` are the issues whose
status their people have set themselves (`Move`, to any of `Theirs`), `live` is `write_enabled`.
`owed` (history) counts the lost answers, kills and failed marker writes, `changes` how often an
outcome was newly recorded.

### ParkedGuard: the operator's uncommitted work

`protect` stashes the configured paths, hides the throwaways behind a fence in `info/exclude`, and
writes a marker that pins the stash by its SHA; `restore` undoes the three. `tree[r]` is the
uncommitted work of the worktree of run `r`, `stash` git's stash list and `fence` the exclude
file, the last two shared by all worktrees of a repository; `taken` is what a snapshot has
committed. A pop may be refused, or stop in a conflict that leaves the work in the tree as well as
in the stash (`unmerged`), where `git add -A` finds it. A run is a sequence of commands:
`CallNext` .. `Mark` is `protect` inside `next`, `HandOut`, `Ask`, `Complete`, `Terminal` and
`TerminalAnswer` what the commands do after it, `Find` .. `Unmark` is `restore`, and `Kill` ends a
command at the steps of `KillAt`. `StrangerPushes` and `StrangerPops` are anybody else who uses
`git stash` in that repository.

### SessionLoop: fresh sessions and the Stop hook

One night is `Launch` .. `Return`: the launcher starts a session (`Spawn`), the agent works
its way through `next` and `complete` (which records the ticket, counts it, and writes the budget
marker before it tells the agent to stop: `Record`, `Count`, `MarkSpent`, with a kill possible
in between), tries to leave (`StopAllowed`, `StopBlocked`) and is
followed by another session until the driver has given a terminal signal. The sentinel,
the budget marker, the halt marker and the block counter are files: they survive the
session, the run and the night. `platform` chooses between the two hooks there are,
`hooks/stop_guard.sh`, which blocks a session once and honours the budget marker, and
`enforce.py`, which counts its blocks in a file. `served` (the tickets recorded in this session),
`ended`, `refused` and `carried` (the blocks this night found on disk) are history variables; no
action reads them.

### Watchdog: restarts

A round of the loop is `StillRunning` (poll and snapshot of the process tree), `Spare` or
`Condemn` (the two staleness checks), `Sleep` or `Kill` and `Count`. Time is counted in units of
the loop's sleep: `up`, `age`, `checked` and `snapped` are the agent's age, the heartbeat's, and
the times since the last stale check and the last snapshot. `kids` are the agent's descendants, as
a walk of the process tree finds them, `snap` the last snapshot of them, `strays` the processes
that outlived the agent, or a parent between it and them (`Orphan`): those are in no later
snapshot. `known` is history: of the last snapshot, the ones that were the agent's to its end.
`Deaf` are processes that ignore the one SIGTERM they are sent. The agent beats, forks, freezes or
exits at any time; `InTime` says what a working agent guarantees: a first heartbeat within `Boot`,
another within every `Gap`. The oldest heartbeat also stands for a missing one, since the code
treats both alike.

## The runs

| Run | Question | Result |
|---|---|---|
| `StepDriver_core` | two tickets, two kills, 402s under "stop", late F5 answers: is the tree known-good between tickets, does only green work land, is every agent guarded, one ticket in flight, a credit stop honoured, and the contract kept? | holds |
| `StepDriver_live` | failing snapshots, cuts and checkouts, a kill, an operator's halt in the backlog: does every run end, and every ticket before the halt settle as long as runs are started again? | holds |
| `StepDriver_faults` | a baseline that times out, degraded credits, a safety net that comes and goes, git failing in snapshots, finalizations and recoveries, hooks that refuse commits unnoticed: trust, finality, recorded work that was committed | holds |
| `RunBranch_safe` | two runs beside an operator who commits, merges, rewrites and deletes, kills everywhere but at one step: is all history kept, does only the run branch move, is the run resumable and the operator put back? | holds |
| `ParkedGuard_safe` | two runs and a stranger on one stash, kills at every harmless step, pops that are refused or conflict: is the operator's work kept out (but for what a conflict leaves in the tree, which the stash has too), kept, and brought back? | holds |
| `SessionLoop_nights` | two nights, both hooks, agents that die or hang, completes killed between their writes: does a session follow until the run has ended, does no agent get away early, is none blocked that was told to stop, does the launcher return? | holds |
| `Watchdog_safe` | any old heartbeat, agents that hang, exit, fork, descendants that are orphaned or deaf: is none that works killed, does none that hangs stay, is what the last snapshot held to the end reaped? | holds |
| `Launcher_safe` | two launches of one tree, a config that others edit, kills of launchers and agents: does one run work at a time, in a tree that stays, by what a human vouched for, with nobody needed? | holds |
| `GateCache_safe` | hooks that refuse, kills, lost receipts, others who write the files between commands: is the cache invisible, and is the blame right? | holds |
| `Board_safe` | fetches that fail or miss an issue, requests and marker writes that fail, lose their answer or are killed: does the board catch up, and is no comment repeated for nothing? | holds |
| `RunBranch_halt` | following the halt's own instruction gives a run that works (`src/acceptance/test_run_branch_freshness.py:218`) | violated |
| `Board_fallback` | finished work is reverted only on positive evidence that its ticket vanished (`driver.py:1206`) | violated |

The findings in `PROJECT.json` quote the line each violated run is about. The type invariants
of `RunBranch`, `Watchdog`, `Launcher`, `GateCache` and `Board` are proved and not among the
runs' properties; that of `SessionLoop` is stated only.

### Bounds

*StepDriver.* Two tickets: the properties relate one ticket to the next one, and the second may
come back after the first. One or two kills: the second hits the recovery from the first. `FixCap`
3, `LoopThreshold` 2 and `MinTickets` 2 are the smallest values at which the cap, the loop guard
and the breaker each fire and each fail to fire; `F5Max` 1 lets an offer be refused for lack of
budget. One failure signature, or two where the loop guard must tell them apart. Attempts and
outcomes are bounded by the cap and by the tickets, so only kills need a bound (`MaxCrashes`).
`StepDriver_live` has four tickets, one of which halts the run, and a limit of two per run: two to
settle before the halt, by one run or by several, and one behind it that no run comes to.
`StepDriver_core` lets git work, `StepDriver_faults` lets it fail in snapshots, finalizations and
recoveries and lets hooks refuse, `StepDriver_live` lets it fail in snapshots, cuts and checkouts;
what the other combinations break is under the known limits. With the reversibility net always
there, as in `StepDriver_core`, an offer nobody answered is parked by the next `next`, so a late
answer follows a kill and meets no other ticket in flight; where it does is a known limit below.

*RunBranch.* Five commits are the initial one, a snapshot and a result of the harness, and
two of the operator, in any order: enough for a merge and a rewrite around one ticket, for two
snapshots of one, or for a recovery in a second run. Two run branches, since the second is
where the first one's token may come back. In `RunBranch_halt` six commits and no kill.

*ParkedGuard.* Two runs, one of them with throwaways; each may find uncommitted work or not.
`MaxStashes` 3 leaves room for an entry of each run and one of a stranger, above or below them.
Object ids are recycled (`FreshSha`): an id is new when no entry, marker or command still names
it. Every pop may be refused or conflict (`PopMayFail`). `SafeSteps` are the steps of a command at
which a kill leaves nothing half-done; the others are the subject of the next section.

*SessionLoop.* Three tickets with a budget of two give a session that is cut short and one
that is not; `SpawnCap` 3 suffices to drain them and is still reached by agents that die;
`BlockCap` 2 tells the first block from the last. Two nights, because what one night leaves
on disk is only read in the next. `MaxNights` bounds nothing else.

*Watchdog.* `Grace` 3, `EarlyStale` 2, `Stale` 6, `Poll` 2 keep the order of the defaults (a grace
of 300 s, 1200 s for the first heartbeat, stale after 2400 s; polls are shorter than each of
them), so that both checks can be the first to condemn an agent. Ages above `UpCap` and `AgeCap`
are not told apart, because no comparison in the code does. `Boot` <= `Grace` and `Gap` <= `Stale`
is what the options ask of an agent. Three descendants: one in the snapshot, one born after it or
started by the first and orphaned with it, and one that ignores SIGTERM (`Deaf`).

*Launcher.* Two launches, interchangeable (`SYMMETRY`): one holds the lock, the other wants
it. Three configs: a sound one, one whose command line names no level and whose settings file
allows edits only (`Mode`), which the repair turns into the first, and one with fresh sessions; the
file becomes any of them at any time, except between the read by a launch that offers a repair and
the trust after that repair (`EditsDuringRepair`). The folder's registration succeeds
(`WelcomeFails`). All have the policy "warn", which
isolates a run over a dirty tree, so each is run in the primary tree and in a worktree; the
explicit policies are left to the proofs. Four command lines: `--check`, detached under the
watchdog, detached at a terminal, `--fg`. Two sessions and one restart make the second of each
possible. Killing the watchdog and interrupting the supervisor of an isolated run are known
limits.

*GateCache.* Three tracked contents, two of ignored files, two commands, and a gate that passes
five of the twelve combinations: for some trees it depends on the ignored file, for some on the
command. Others write the tree between commands and while the agent edits, the config between
tickets. There is no other bound.

*Board.* Two issues, one of them also in the local folder and ambiguous, so that it is parked
by `next` while the other is worked on; results that go to status only, to a comment only, and to
both; a cap of two. People move each issue once, to one open status or to a closed one (`Theirs`); a
closed issue is not reopened. `Misses` lets a fetch miss any of the open issues, at the price of a
fault. `MaxFaults` 2 lets a second fault hit the retry of the first; one suffices
for `Board_fallback`.

`CHECK_DEADLOCK FALSE` is set where the model stops by design: after the last night, after
the watchdog has returned, and when the commits of `RunBranch` are used up.

### Fairness

*StepDriver*: `WF_vars((pc # "idle" \/ sentinel) /\ Command)`. A command, once started, runs to its
end or is killed; and while a run is in progress, which is what the sentinel says, commands keep
coming, because an agent that wants to stop is sent back by the Stop hook and one that stops all the
same is followed by another session (`SessionLoop`). After a terminal signal nobody is obliged to
start another run: `EveryTicketSettles` says what holds if runs are started again for ever
(`[]<>sentinel`), and speaks of the tickets that no halt ticket precedes (`Reachable`). Nothing
forces the agent to edit, to issue `complete` rather than `next`, or a kill to happen: the
liveness properties hold for an agent that never completes anything, because each new
hand-out counts an attempt and the cap parks the ticket.

*SessionLoop*: `WF_vars(Supervise)`, the launcher's own process, and `WF_vars(Act)`: an agent
that neither hangs nor dies asks, completes or tries to leave. Which of these it does is up
to it. Hanging and dying are never obliged to happen.

*Watchdog*: `WF_vars(Loop)`, the watchdog's own process. The agent is under no fairness.

*Board*: `WF_vars(Act \/ Step(Agent))`, a command of the agent that runs goes on, and
`WF_vars(Call(Operator) \/ Step(Operator))`, `report` is called again, by hand or by the next run,
and runs to its end. The agent need not call anything, and no fault ever has to happen.

### Known limits

These hold of the code too. Each can be seen by the change of constants given, checking the
one property named.

| Constants | Violated | Code |
|---|---|---|
| `StepDriver_core` with `RetryComplete = TRUE` | `TerminalIsFinal` | a `complete` killed after the outcome is gated again when repeated, `driver.py:1199`; `docs/state-machine.md:3` |
| `StepDriver_core` with `GitFaults = {"recover"}` | `OneInFlight` | scheduling goes on after a recovery that failed, `driver.py:859-864` |
| ... with `Kind <- RoutineHard`, `SafetyNet = {TRUE, FALSE}` | `OneInFlight`, `GuardedWhileHeld`, `StopIsHonoured`, `CleanBetweenTickets`, `LandedIsGreen`, `Implements` | `resolve-park` does not look at the token: an offer left open by a run that halted is answered while the next run has a ticket in flight, and the new token takes the place of the old, `driver.py:1021` |
| `RunBranch_safe` with `"save"` in `KillAt` | `BackWhereItWas` | the run branch is checked out before its name is saved, so the next command takes it for the operator's, `driver.py:457` |
| `StepDriver_core` with `GitFaults = {"finalize"}` | `CleanBetweenTickets` | git that fails in the finalization: the ticket is blocked, the token cleared, the edits stay, `orchestrator.py:273`; `docs/recovery.md:19` |
| ... with `GitFaults = {"refuse"}` | `CleanBetweenTickets` | a commit that a hook refuses goes unnoticed: the ticket is done and its work only in the tree, where the next snapshot takes it for its own or a later revert wipes it, `vcs.py:204-209` (`RecordedWorkSurvives` speaks of results that were committed) |
| ... with `GitFaults = {"cut"}`, or `{"switch"}` | `CleanBetweenTickets` | the command goes on on the branch HEAD is on, and the run branch is forgotten with HEAD still on it, `driver.py:460`, `driver.py:465-477` |
| `StepDriver_faults` with `"switch"` in `GitFaults` | `RecordedWorkSurvives` | an attempt that began on the operator's branch is undone on the run branch, once git lets `complete` go there: that branch is reset to the operator's, `orchestrator.py:415` |
| `StepDriver_core` with `SlowBaseline = TRUE` | `LandedIsGreen` | a baseline that times out is read as red, so a failure the agent introduces counts as pre-existing, `gates.py:98`; `docs/deterministic-gates.md:46`, `docs/recovery.md:25` |
| `ParkedGuard_safe` with `KillAt = {"pin"}`, `{"fence"}` or `{"mark"}` | `Recoverable` | the stash precedes the marker, `parked.py:140` |
| ... with `KillAt = {"unfence"}` or `{"unmark"}` | `NothingSwept` | the marker outlives the pop, and the next `protect` takes the work for put away, `parked.py:174`; `parked.py:14` |
| ... with `KillAt = {}`, `PushMayFail = TRUE` | `NothingSwept` | a refused `git stash push` is taken for nothing to stash, `parked.py:132` |
| ... with `KillAt = {}`, two runs, both with throwaways | `NothingSwept` | one fence for all worktrees, `parked.py:80` |
| ... with `KillAt = {}`, `Racing = TRUE` | `NoStrangersWork` | `stash@{0}` is read after the push, `parked.py:135` |
| `SessionLoop_nights` with `LeavesEarly = TRUE` | `DoneMeansTerminal` | no sentinel means ended or never begun, `launcher.py:1004` |
| `Watchdog_safe` with `Windows = {"exit"}` | `KnownAreReaped`, `ExitPassedThrough` | an agent that exits between the look at it and its kill: nothing is reaped, `watchdog.py:32`, and it is started again, `watchdog.py:158` (a clean exit is final, `launcher.py:1024`) |
| ... with `Windows = {"signal"}` | `NothingLeftRunning` | a signal before the registration, `watchdog.py:106` |
| ... with `Boot = 4` | `WorkingNotKilled` | with an old heartbeat on disk, the stale check condemns an agent that has not beaten at the end of the grace period, before the early check is due, `watchdog.py:154` |
| `Launcher_safe` with `KillAt = {"watchdog"}` | `OneRunPerTree` | the watchdog's agent does not inherit the description, so it outlives the lock, `docs/launcher.md:103` |
| ... with `Interrupts = TRUE` | `LiveTreeKept` | a Ctrl-C in the supervisor of an isolated run removes the worktree under the agent, `launcher.py:1405` |
| ... with `EditsDuringRepair = TRUE` | `RunsWhatWasTrusted` | the repair reads the config anew and trusts what it finds, although the human was shown the command of one preset: an edit since the trust decision is run unseen, `launcher.py:612`, `launcher.py:645`; `trust.py:11-14` |
| ... with `WelcomeFails = TRUE` | `NeverStuck` | a folder that could not be registered is reported and the launch goes on, `launcher.py:1132` |
| ... with `Mode = "auto"`, `Silent = "gated"` | `NeverStuck` | an argv with an explicit mode that asks is judged by the settings file, which that mode overrides, `launcher.py:548`; `launcher.py:488` |
| `GateCache_safe` with `OutsideAt = {"commit"}` or `ConfigAt = {"settle"}` | `AsIfUncached` | the receipt is keyed by what is there when it is written, not when the gate ran: a gate that writes tracked files, a config saved mid-`complete`, `gate_cache.py:144` |
| ... with `SlowBaseline = TRUE`, or `ConfigAt = {"edit"}` | `TaxonomyIsTrue` | the baseline was not judged, or by another command, `gates.py:98` |
| `Board_fallback` with `Local = {}`, `Overlap = TRUE` | `RevertedOnlyIfGone` | a report reopens an issue that `complete` has fetched as closed, `driver.py:1220` |
| ... with `Local = {}`, `Misses = TRUE` | `RevertedOnlyIfGone` | one query per status, one after the other: an open issue that is moved meanwhile, or whose query is answered with anything but issues, looks gone, `sources/paperclip.py:92-104` |
| `Board_safe` with `Overlap = TRUE`, `Misses = FALSE`, `Theirs = {}` | `BoardCatchesUp` | two pushes write the marker last-writer-wins: a done ticket stays "blocked" on the board, `run.py:446` |

These have no constant: an F5 answer hands its ticket out for implementation in non-destructive
mode too (`driver.py:912`, `driver.py:1013`); a run that ends in `resolve-park` does not restore
the operator's work (`run.py:527`; `RestoredWhenOver` speaks of `next` only); the attempt cap is
compared after the attempt has been counted, so one attempt fewer is made than
`docs/scheduling.md:34` says (`ledger.py:86`); a pop that conflicts leaves the work in the tree,
conflict markers included, the next `protect` does nothing since there is a marker
(`parked.py:125`), and `git add -A` commits it, against `parked.py:8-9`: the stash has it too, and
`NothingSwept` excuses just that; a process whose parent between it and the agent ended before the
last snapshot is in none that follows (`watchdog.py:127-129`), nor is one that a walk at the kill
does not find any more (`watchdog.py:34-46`), and one that ignores the SIGTERM it is sent once is
not sent a second (`reap.py:119-143`): none of them is ever reaped, and `KnownAreReaped` does not
speak of them; the scope that a foundational park contaminates is recorded and not read
(`driver.py:890`, `state.py:48`); `enforce.py` does not look at the session-budget marker
(`enforce.py:211`, `docs/scheduling.md:70`); its block counter at the cap survives the run, so the
next night on that platform starts with fewer blocks than the comment says (`enforce.py:102`; the
`carried` of `NeverStopsEarly`); the momentary lock of `--check` makes a launch at that instant
refuse (`launcher.py:891`, `docs/launcher.md:106`: "never blocks a launch"); the next isolated
launch, and the end of the session loop, remove the worktree with the state of an unfinished run
in it (`docs/governance.md:75`); the pre-flight probes the binary and reads the settings in the
primary tree although an isolated run starts in the worktree, whose folder is never trusted
(`NeverStuck` speaks of the primary tree); `trusted.json` is read, changed and written without a
lock; `--trust` takes the file as it is when it is hashed; a fetch that fails in `next` may drain
the run on the local folder's tickets.

## What is proved

Every safety property that a passing run checks is also a theorem, for every value of the
constants. The proofs use the named assumptions of the modules on their constants, which say
what these are (a limit is a positive number, `None` is no ticket) and not how the program
behaves. What a theorem assumes beyond them is written in it (`ASSUME ... PROVE`), and is there
to exclude a known limit: where it is dropped, TLC finds the property violated. In three places a
proof assumes more than TLC needs: `CommentsPaidFor` holds on the small instance with overlapping
commands as well, `WorkSurvives` with a run branch that cannot be cut, and `AlwaysGreen` with hooks
that refuse.

**Ticket loop** (`StepDriverProofs`).

* `TypeCorrect`, by induction over the actions.
* `TrustAlwaysEarned`: a ticket that had to park is done only through an answered offer,
  and a hard category never without review. The inductive invariant is `Warrant`, which
  says of every token, on disk or in memory, and of every point of a command between the
  answer and the record, that the answer has been consumed by then. No assumption on git or
  on kills: this one holds under every fault of the model.
* `TerminalStaysFinal` from `Standing`, which relates the step of the command to the
  recorded outcome of its ticket. It assumes that a killed `complete` is not repeated
  (the first of the known limits).
* `WorkSurvives`, under the same assumption and if git can cut and switch to the run branch
  (`Isolated`): whatever other git command fails, whichever later commit a hook refuses, and
  however late an offer is answered, the edits of a recorded ticket whose result was committed
  stay on the run branch or on one kept of an earlier run. The work a hook kept from being
  committed is a known limit. `WorkKept` is about one edit at a time. It follows it from the
  branch to the tree and to the snapshot of the token (`Traced`): as long as the token in flight
  can still be reverted to, whatever is on the branch is in its snapshot or on a kept branch. This
  takes that a running command is on the run branch (`OnBranch`) and that an agent edits only for
  a ticket without a final outcome (`HeldOwn`).
* `AlwaysGuarded` assumes that no killed `complete` is repeated and no answer is late; whatever
  git does. `Hold` says that an agent with an offer holds no ticket, and one with a ticket is at
  work or in `complete`.
* `OneAtATime` assumes that no answer is late and no recovery fails. `Slot` says that no token is
  on disk while a command chooses a ticket or an offer is with the agent.
* `LoopImplementsContract`, the refinement of `Backlog`, assumes all three (`Healthy`) and rests on
  both invariants (`Guard`). Only eight actions change what the contract sees.
* `StopAlwaysHonoured` assumes that no answer is late: a late one hands its ticket out although
  the run is to stop.
* `AlwaysClean` assumes `Undoable`: `Healthy`, a git that fails at most in snapshots, and hooks that
  refuse nothing.
  `Swept` says that with nothing in flight the tree is HEAD; that with a token in flight the only
  edits of tickets not recorded are its own, and its snapshot has none of them.
* `AlwaysGreen` assumes in addition that no baseline times out. `Landed` says that every
  snapshot of the night is green and its token says so, so a red gate is always undone and
  never excused.

**Run branch** (`RunBranchProofs`), for any number of commits and branches.

* `RunBranchTyping`, `OthersStayPut` and `PutBack`. The invariant `RInv` says that whatever names
  a commit names one that was made (`Rooted`), that a command past its entry is on the branch of
  `run-branch.json` (`OnIt`), and that only a `complete` runs beside an agent (`Attended`);
  `Homeward` says where the branch to return to is written. `PutBack` assumes that no kill falls
  between creating the branch and saving its name.
* `NothingLost` and `RunsResume` hold wherever the kills fall. `HInv` adds to `RInv` that ancestry
  is closed and the harness owns only commits that were made (`Grown`), that the run branch is
  neither the operator's nor the one it began on (`Apart`), and what stands between the snapshot
  in the token and the tip: only commits of the harness, none of a recorded ticket while the
  token's own has no outcome, and not the base; or else the token is of an earlier run and this
  one has done nothing yet (`Tokened`). A revert therefore drops only what may be dropped.

**Parked-code guard** (`ParkedGuardProofs`), for any number of worktrees on one stash.

* `ParkedTyping`, whatever happens.
* `OwnWorkOnly`, wherever the kills fall, if nobody else's push falls between a run's push and
  its look at the top of the stash (`~Racing`, as for all that follow). `Own` says that a sha
  names one entry, and that the sha a run holds or has written names its own work.
* `AlwaysRecoverable`, if no kill falls between the push and the marker (`MarkedOnceStashed`).
  `Held` says for every step of a run where its work is: in the tree, or under the sha in hand,
  or under the sha of the marker.
* `WorkComesBack`, if moreover no push is refused and no kill falls between the pop and the
  removal of the marker (`KilledRestartably`). `Away` sharpens `Held`: the work is in the stash
  from the push to the pop, and in the tree before and after; it is in both only where a pop has
  conflicted.
* `NeverSwept`, if moreover at most one run has throwaways (`OneFence`): with two, the first to
  end takes down the fence of the other. Pops may conflict: then, and only then, a snapshot takes
  the operator's work, and the pinned stash still has it. By `Fenced` the fence stands between the
  marker and the unfencing; by `Away` work in the tree behind a marker is that of a conflict.

**Launcher** (`LauncherProofs`), for any number of launches, any configs closed under the repair,
and any command lines: `LauncherTyping`, `OneRun`, `OnlyTrusted`, `NobodyNeeded` and `TreeStays`.
`LInv` says that who holds the description is unique up to the launch (`OneHolder`), that a launch
past its lock and a living watchdog hold it, and that a living agent does or its watchdog does
(`AgentHolds`); `JInv` that what was judged is what is used: between the trust decision and the
start, and behind an agent, the config read is vouched for, passed the pre-flight and has its
folder trusted (`Judged`), and that what a repair finds in the file was vouched for, or is about to
be by the launch that offers the repair (`RepairSeen`). `OneRun` assumes that the watchdog is not
killed outright, `TreeStays` also that no supervisor of an isolated run is interrupted; the other
three hold wherever the kills fall. `OnlyTrusted` assumes that nobody edits the file between the
read of a launch that offers a repair and its trust, `NobodyNeeded` that the folder's registration
does not fail and that no settings file which needs nobody hides an explicit mode that asks
(`NothingOverridden`).

**Session loop** (`SessionLoopProofs`), for every backlog, budget and cap.

* `NoSessionAfterEnd`, without assumption: after the terminal signal there is no sentinel, and
  nobody who asks for more (`Over`).
* `DoneIsTerminal`, for agents that do not leave before their first `next`. `SInv` adds that an
  agent that is gone left the sentinel or a terminal signal behind (`Traced`).
* `NeverEarly` and `BudgetStops`, without assumption. Under `enforce.py` the block counter never
  exceeds what the night has blocked plus what it found on disk (`CInv`), so an agent let through
  at the cap has been sent back that often. Under `stop_guard.sh` (`BInv`) the marker is on disk
  before any agent is told that its budget is spent, and the count behind it is of tickets recorded
  in this session, wherever a `complete` is killed.
* `SessionTyping`, from what the counters (`Counters`) and the flags (`Flags`) are at each step.

**Watchdog** (`WatchdogProofs`), for all periods, whatever their order.

* `WatchdogTyping`, without assumption. `Placed` says what has become of the agent at each point of
  the loop, the two windows included.
* `StopsClean`, if no signal arrives while no agent is registered; `ExitsPassThrough`, if the agent
  does not exit between the look at its process and the kill; `KnownReaped`, if neither happens.
  `Lineage` says that what is known is in the last snapshot and, while the agent runs, among what
  a walk of the process tree finds, and that after the watchdog's turn only the deaf are left of it.
* `NoStallMissed`, when the early period is switched on (a period of 0 switches it off in the
  code too). `Unbeaten` says that until the first beat the heartbeat file is older than the
  agent, so the one startup check condemns it.
* `WorkersSpared`, for an agent that boots within the grace period and then beats at least once
  per stale period. `Prompt` says how old the heartbeat of a working agent can be, and that
  until the startup check it is younger than the agent. The known limits have the boot that takes
  longer.

**Gate cache** (`GateCacheProofs`), for any contents, commands and gate: `ReceiptsAreTrue`,
`CacheIsTransparent` and `TaxonomyHolds`. `CInv` says that a receipt speaks of a combination the
gate passes, and that a `complete` past its gate still has before it what the gate saw. It assumes
`Quiet`: nobody writes the files between the gate's verdict and its receipt. The refinement is a
step simulation with the identity as its mapping; a reused receipt is a green baseline.
`TaxonomyHolds` follows for the cache from the loop, with `Steady` (the command does not change
while the agent edits, and no baseline times out).

**Board** (`BoardProofs`), for any issues, outcomes, caps and faults.

* `BoardTyping`, and `CommentsPaidFor` as long as commands do not overlap. `EachCommentPaidFor`
  is far from inductive. `PInv` says that only one command is under way (`Alone`), that what is
  on a push's list is the recorded outcome and not in its copy of the marker (`OnTheList`), and
  counts: an outcome that whoever pushes next will not take for pushed has one comment less than
  was paid for (`Paid`).
* `RevertsOnlyTheGone` is the converse of the run `Board_fallback`, which finds
  `RevertedOnlyIfGone` violated when the local folder has files for some of the issues: with files
  for all of them or for none (`AllOrNoneLocal`) it holds, if no fetch misses an open issue and
  commands do not overlap. `Fetched` says that what a command has
  fetched are all the open tickets, all the local ones, or nothing.

**Only model-checked**: the five liveness properties (`RunEnds`, `EveryTicketSettles`, `LoopEnds`,
`HungReplaced`, `BoardCatchesUp`). Liveness under fairness and ENABLED are out of the prover's
reach. Induction over data and RECURSIVE operators are too; no module here needs them. The two
runs that expect a violation have no theorem of their property as it stands: it does not hold.

## Not modelled

See the notes in `PROJECT.json`. In the loop: the live-tree gate that stops a run at
start-up, the spend counters, the operator's reset commands.
`FAILED_BUG_IN_AGENT` is declared by `state.py` and written by nothing. In the launcher:
`ANS_RUN_NO_LOCK`, the re-exec as another user, the log file and what each host check looks at
(its outcome is any). In the gate cache: ignored files that its enumeration does not list, and a
gate that is not a function of what it sees. On the board: requests that take effect after the
command has gone on, the text of comments, paging. In the supervision: the alert command, the
seconds between SIGTERM and SIGKILL, process ids that are used again. `init`, configuration
parsing, key sources, reports and redaction run before or after the loop and share no state with
it but the files they leave.

## Plan

In this order, the most consequential first:

1. Proofs: every safety property is proved. What is left is to assume less: `CommentsPaidFor` with
   overlapping commands, which takes an account of two copies of the marker; `NeverSwept` for
   several runs with throwaways that do not overlap; the gate cache with writes between the gate
   and the receipt that do not touch what the receipt is keyed by.
2. `Verdicts`: classifier, trust, F5 and council budget as operators checked against a
   reference definition over all small inputs.
3. `StepDriver`: the breaker against a history of all outcomes of a run (it is recomputed
   from counters that a kill may skip); the in-process loop of `orchestrator.py` as a second
   implementation of `Backlog`.
4. Configuration: the writers of the config (`init`, the repair, an editor) and its readers,
   whose defaults differ.
