# A formal model of vLLMForge

vLLMForge is a dashboard (`app/main.py`, FastAPI on one asyncio event loop) that runs
inference engines, downloads, fine-tunes and image builds as docker containers, on the
machine it is installed on and, over ssh, on peers. It is restarted by systemd while the
containers go on. Most of what is hard to test in it comes from that: every `await` of a
docker command is a place where other requests run, a container outlives the process that
started it, and a peer may stop answering at any time.

This directory holds TLA+ modules translated from the source, the TLC configurations that
check them on small instances, and proofs that TLAPS checks for every value of the constants.
`PROJECT.json` says for each definition which lines it models, lists the runs, and for every
property a plausible bug (a *mutant*: an operator in the same module) that makes it fail.

## 1. The system

| component | state it keeps | operations | talks to |
|---|---|---|---|
| jobs (`jobs.py`) | `jobs` table, log file per job, `_tasks`, `_cancelled` | submit, adopt, begin, finish, cancel, reconcile, shutdown | docker, Broker, db |
| live stream (`events.py`, `routers/jobs.py`) | bounded queues per subscriber | publish, subscribe, `stream_job` | jobs, browser |
| servers (`servers.py`, `routers/servers.py`) | `servers` table, `LAUNCH_LOCK`, `_partial_seen` | create, update, start, stop, restart, delete, the reaper | safety, cluster, docker, jobs |
| admission (`safety.py`, `vllm_spec.py`) | none | `check_launch`, footprints | docker, telemetry |
| accelerators (`accel.py`) | none | classify a machine's memory, build a pool | nodes, `nvidia-smi` |
| cluster (`cluster.py`) | none | plan, wiring, ports, find, remove ranks | nodes, docker |
| watchdog (`memguard.py`, `scripts/memguard.sh`) | last kill, cooldown | poll, warn, kill | docker |
| docker, ssh (`docker_ctl.py`) | the queue of a log stream | run, ps, inspect, stop, rm, `stream_logs` | daemon here or on a peer |
| nodes (`nodes.py`) | `nodes` table, probe cache | register, probe, discover, remove | ssh |
| model caches (`hf.py`, `sync.py`) | a directory per repository and machine | download, copy to a peer, delete | jobs, servers, ssh |
| advisors (`recommend*.py`, `model_profile.py`, `gguf.py`) | none | read a model here or on a peer, price it, advise flags | safety, accel |
| fine-tune, heretic, images | rows and files | one job each, with a preflight | jobs |
| engines (`engines/`, `vllm_spec.py`, `llamacpp_spec.py`) | none | validate and render flags, recognise a running engine, read its command back | servers, safety |
| catalog | none | a table of known models | |
| telemetry, chat, system, web, build | read-only or outside the program | | |

How they interact. A request to start a server becomes an adopted job whose driver takes
`LAUNCH_LOCK`, surveys the containers of the machine, asks admission, and calls
`docker run`; for a pool it does so once per machine. Stop and delete do *not* take the
lock. The reaper runs in a loop, takes the lock when it acts, and stops engines that have
lost a rank. Jobs run in containers that a follower task reads through `docker logs -f`;
the follower writes the log file and the progress and publishes frames to the browser's
queues. At startup `reconcile` resumes or closes every row that is not settled. A launch over
several machines first copies the model to those that lack it, as jobs of their own that it
waits for. The watchdog polls the machine's memory beside all this and kills engines without
any lock. The advisors answer from the same survey that admission uses, with arithmetic of
their own.

What is hard: (a) rows read before an await and used after it, in servers and in the stream
request; (b) cancellation of a task in the middle of a docker command, whose effect lands
later anyway; (c) crashes between two steps, with containers that go on; (d) peers that do
not answer, where "no answer" and "nothing there" are easily confused; (e) bounded queues
and a replay whose boundary is a clock; (f) memory sums at their limits; (g) probes that
answer in part, and two computations that must agree. `PROJECT.json`
"hazards" lists the main ones line by line, each with the properties that would catch it or the
reason none does yet.

## 2. The modules

| module | models | state and actions in the code |
|---|---|---|
| `JobLifecycle` | what every reader of the jobs table may rely on | abstract: a status per job |
| `Jobs` | `JobManager` with containers, docker clients, crashes and restarts | `row` = column status; `task` = the await a job's task is suspended in; `cancel` = how far a `cancel()` call is; `docker` = the container; `inflight` = a `docker run` not finished. `Submit`, `Clean`, `RunStarted`, `RunRefused` are `submit` and `_run`; `LogEnds`, `Inspect`, `Judge`, `Remove` are `_follow`; `Driver*` are `adopt`, `begin`, `finish`; `Cancel*` are `cancel`; `GoesDown`, `Boots`, `ReconcileRow`, `ReconcileNext`, `Serves` are `shutdown`, a crash, and `reconcile` in `main.lifespan` |
| `JobStream` | `Broker` and `stream_job` | `pending` = the callbacks of `call_soon_threadsafe`; `queue` = `asyncio.Queue`; `reader` = the request's position. `Put`, `Publish`, `Replay`, `Subscribe`, `Deliver`, `Disconnect`, `Open` |
| `JobLog` | one job's log file over restarts | `Ingest` = a line of `_follow`, `Reattach` = `_resume_cursor` and the replay, `Enter` = `_dedupe_series` |
| `Admission` | `safety.Budget`, `_check_launch_bytes`, `check_launch`, vLLM's footprint | pure operators |
| `Launch` | servers on one machine; EXTENDS `Admission` | `call` = a request and the await it is in; `holder` = `LAUNCH_LOCK`; `abandoned` = docker commands whose caller was cancelled. `Measures`, `Refuses`, `Removes`, `Runs`, `RunRefused` are `start`; `Stops`, `Deletes`, `Drops`, `SetNode` are stop, delete and update; `Available`, `Unavailable`, `Inspects`, `InspectsRefused`, `Writes` an engine switch, which asks a peer twice |
| `Pool` | pooled engines and the reaper | `port` = running ranks and the master port each got; `reaper` = `reap_partial_pools_once`; `Scans`, `Stopped` = stop and delete; `Allocates`, `Runs`, `Launched`, `Undone` = `start_pooled`; `Restarts`, `Lands` = a restart of the dashboard and commands that land after their caller is gone |
| `LogPump` | `docker_ctl.stream_logs` | `pump` = the await of each of the two tasks; `queue` = `asyncio.Queue`, `closer`, `consumer`. `Reads`, `ReadsEnd`, `Puts` are `pump`; `Closes` is `closer`; `Takes`, `TakesEnd` the generator; `Leave`, `Abandons`, `ClientGone`, `GivesUp` its `finally` |
| `MemGuard` | `memguard.watch` | `guard` = the await the loop is in; `since` = polls since `last_kill`; `returning` = memory a container left that the kernel has not given back. `Looks`, `Surveys`, `Gathers`, `Kills`, `Pins`, `Records` are one pass, container by container |
| `Cache` | `hf.submit_download`, deletions, `sync.submit` and `_drive`, `servers._drive_launch` and `_await_job` | `cache` = one repository on each machine; `job` = the rows of the jobs that write there, with `program` = the container or rsync behind each; `call` = requests in the await between the look and the submit |
| `Accel` | `accel.py`, `nodes.remote_pool` | pure operators over what `nvidia-smi` and `/proc/meminfo` answer, whole or in part; EXTENDS `Admission` |
| `Profile`, `Gguf` | `model_profile.py`; `gguf.py` and the pricing of `engines/llamacpp.py` | pure operators: from a repository's files, or a file's head, to bytes |
| `Command` | `vllm_spec.py`, `llamacpp_spec.py`, `engines/`, the command of a launch in `servers.py`, a rank's in `cluster.py` | pure operators: from settings to a container's command, and from a command to engine, model, price and ports; EXTENDS `Admission`, `Gguf` |
| `Recommend` | `recommend.py`, `recommend_llamacpp.py` | pure operators; EXTENDS `Admission`, `Profile`, `Gguf` |
| `Plan` | `cluster.plan`, wiring and the rendezvous port, `nodes.by_name`, `cluster_interface` | pure operators: may an engine span these machines, and how do they reach each other; EXTENDS `Command` |
| `Advice` | the recommend and start requests on one machine or over a pool, beside engines started from the form or by hand | `asked` = machines with their answers and tenants, model and settings; `running` = the engine's ranks with their containers; `told`, `verdict` = the last answers. `Asks`, `Launches`, `Stops` |
| `JobsProofs`, `JobLogProofs`, `JobStreamProofs`, `LaunchProofs`, `PoolProofs`, `MemGuardProofs`, `CacheProofs`, `AdviceProofs` | theorems about the module each extends; those about `Admission` open `LaunchProofs`, those about `LogPump` close `JobLogProofs`, which extends both modules (so the specification of `LogPump` is called `PumpSpec`) | |
| `MC_*` | the instances for TLC | |

`Jobs` is shown to implement `JobLifecycle` with `status <- row`: checked by TLC and proved.
`Launch` composes the server operations with the admission operators: the verdict that lets
an engine in is the code's formula, evaluated on the survey the code makes. A launch's job
row, which `Jobs` models as an adopted job, meets `Launch` and `Pool` only through its
cancellation, which is an action of both (`Cancels`). The part of that job before the lock,
where it waits for copies, is in `Cache` (`Checks`, `Copies`, `Awaits`, `Starts`).
`Launch` prices what runs twice: `Need` is what an engine holds, `Seen` is what the survey
reads back from its container's command, and the two agree only where that shows everything.
`Advice` composes all the pure modules: the pool `Accel` makes of an answer, the budget and
verdict of `Admission`, the model `Profile` or `Gguf` reads, and the flags `Recommend` makes
of them, taken over by the operator, let in by the memory guard or, over a pool, by `Plan`
with a verdict for each machine, rendered by `Command` and launched as one container or one
rank per machine. What runs on a
machine, the engine launched this way included, is known to the next survey only by what
`Command` reads back from its container. A command there is a sequence of tokens, each a
word, a number, a flag joined to its value, or a line of tokens for a shell.

Conventions. An action is the code between two awaits; a record field or a program counter
names the await it leaves the task in. Ghost variables (named so at their declaration) are
read by properties only. Bounds are constants called `Max...` and appear only in the guards
of the action they bound. Mutants stand next to the definition they vary and are used by
no action.

## 3. The runs

Bounds are chosen so that the case each property is about occurs: every action and every
disjunct of the next-state relations fires in the passing runs, and every property fails under its mutant.
`CHECK_DEADLOCK FALSE` everywhere: a finished job, a closed stream and servers that have
used up their requests are legitimate ends.

| run | instance | distinct states | shows |
|---|---|---|---|
| `Jobs_safety` | one container job here, one on a peer that may be unreachable, one adopted job, 1 restart | 2.95 M | lifecycle, owner of each unsettled row, no task behind a settled row, honest success and cancel |
| `Jobs_liveness` | one container job, one adopted, 2 restarts, containers left half made, programs that exit 0 when stopped | 29 k | every job whose work is over settles; every cancel of a running job settles it |
| `JobStream` | 2 tabs, 2 lines, queues of 2, 1 lost connection | 121 k | no gap, no reordering, only oldest frames lost, the end arrives |
| `JobLog_safety` | 3 lines, 6 ticks, 2 restarts, overlap 2 and lag 2 | 125 k | no line lost, series in order |
| `Launch` | 2 servers, one here and one on a peer that may fall silent between any two commands, 2 requests at a time, cancelled commands, 1 edit of an engine or a node | 2.13 M | the lock covers the survey, no overcommit, nothing unnamed |
| `Pool` | 2 pooled servers on 3 machines, 2 requests at a time and in all, 1 edit, 2 faults, 2 ports | 187 k | ports apart, reaper never stops a whole engine, whole or absent, survivors of a broken engine are stopped |
| `MemGuard` | a single engine and a pooled one over two machines, one shared memory or a card, memory back after 2 polls, 3 starts, 2 swings of other load, 1 crash | 62 k | no kill for memory a kill is about to free, an engine dies on all its machines, starvation ends |
| `Cache` | one repository here and on a peer, 2 requests of any kind, 2 deletions, cancels or restarts | 467 k | one download per cache, a launch starts on whole copies, every job gets a verdict |
| `Advice` | 13 answers of `nvidia-smi`, here or on a peer, 13 repositories, 12 `.gguf` files, several flags; pools of 2 machines in either order, 14 second machines and 4 repositories; tenants of both engines started in 16 ways | 37 k | figures are numbers, advice passes the guard, stands, holds what every rank needs, wastes nothing; a relaunch is not refused for the engine's own memory on any machine; only a device that told a memory of its own makes a machine discrete, whatever is lost of the answers; a running engine is found and priced as it was launched |
| `LogPump` | 4 outputs on two pipes, any split into reads, a queue of 2 | 1.8 k | every line once and in order, the end arrives, a leaving consumer is not held up |
| `Pool_deaf` (violation) | pooled engines, peers that may go silent | | see Findings |
| `Launch_deaf` (violation) | the servers of `Launch`, a peer that may go silent, nothing cancelled | | see Findings |

Why these bounds suffice. `Jobs`: jobs share only the process and `todo`, so two jobs of one
kind show every interference a third could add; one restart in the safety run reaches
every combination of a half-done step and a resume, two in the liveness run reach a resume
that is itself interrupted. `JobStream`: two lines and an end overflow a queue of two; two
tabs show that one tab's overflow leaves the other alone. `JobLog`: the overlap has to be
larger than one tick and smaller than the outage. `Launch`: machines of 4 units of which one is
reserved, and engines that take 1 or 2, make either engine fit alone and both in their larger form
overcommit, once an edit has put them on one machine; two requests are the smallest number that race,
and one edit is what an unnamed container takes. `Pool`: pools `<<a,b>>` and
`<<a,d>>` differ in one machine, which an edit needs to strand a rank; a second port shows
both reuse and exhaustion; two requests are a launch that meets another launch, a stop or a delete, of
its own server or of the other, with a rank that dies, a cancel or a restart between any of their steps. What
three or more could do to the four safety properties is proved (section 5); `SurvivorsGo` is checked for two only.
`MemGuard`: sizes 2 and 3 of 7 with a threshold of 2 make one kill enough or not, a lag
equal to the cooldown is the longest the code's comment allows for, and three starts let
an engine come back while the other is being killed. `Cache`: a launch and one other
request make up to four jobs, and two mishaps cancel one and lose another; `cache` starts
in every combination. `Advice`: figures are small numbers chosen so that each comparison
has cases on, just below and just above its limit, including one where rounding a percent
up is what makes a rank fit; the tenants come plain, on a line for a shell, by an image's
entrypoint or as a rank, with each spelling of a flag that the readers know; pools have
room on both machines, on one, or on none, a second machine that does not answer, lacks the
image or the fabric, holds a rank on the first rendezvous port, or is not registered. `LogPump`: the outputs hold every way in which a carriage
return, a newline and the end can meet, and more items than the queue. The
theorems below carry the safety properties of all runs to all instances.

**Fairness.** `Jobs`: weak fairness on each task's steps, on docker's commands and on the
service manager (`Restart=always` in `deploy/llm-dashboard.service.in`): the event loop runs
what is ready, the docker CLI returns, systemd restarts. No fairness on a container's
program, on an adopted driver's end, or on users. `JobStream`: fairness on the
loop's callbacks and on `EventSource`, which reconnects by itself; none on the job's end
or on a user opening a tab. `Pool`: fairness on each request's next step and on the reaper's loop, whose
`while True` never ends; `asyncio.Lock` is first come first served, so weak fairness of each
holder is enough. `MemGuard`: weak fairness on the
loop's steps, strong fairness on a survey that succeeds, because `docker ps` may fail any
number of times (the loop catches it and sleeps) but not for ever; none on users, crashes
or docker's restarts. `Cache`: each program ends, well or badly, and the event loop runs
what is ready; none on requests, cancels or deletions. `LogPump`: the two pumps, the closer
and the consumer are tasks of the loop; none on the container's end or on a consumer's leaving,
and the five-second wait for the client ends by its timeout (`GivesUp`).

## 4. Findings

Two runs have TLC find what a docstring of the repository denies; `PROJECT.json` quotes both
sides.

- `Pool_deaf`: a peer that does not answer for two passes of the reaper gets the healthy rest of
  its engine stopped, because `docker_ctl.ps` answers an unreachable daemon with an empty list
  (`servers.py:1000`).
- `Launch_deaf`: an engine switch asks a peer whether it is available and then for the
  container. A peer that falls silent between the two is taken for one without a container, the
  switch is written, and the engine that runs is orphaned (`servers.py:204`), which is what the
  docstring (`servers.py:188-193`) wants refused. `NothingOrphaned` is the docstring's claim;
  `NothingUnnamed`, which holds, excuses these servers by the ghost `misread`. Where peers answer
  the claim is proved (`NoneOrphaned`).

Two theorems are findings too.

- `UnreadIsAdmitted` (LaunchProofs): a launch onto a peer whose memory could not be read is not
  refused, although the docstring of `nodes.remote_pool` says that everything downstream refuses it.
- `LostAnswerIsACard` (AdviceProofs): the docstring of `accel.py` (lines 19-22) says that only
  "positive, corroborated proof" yields discrete and everything else, "a half-parsed row" among it, falls
  back to unified. That is so of a machine none of whose devices told a memory smaller than the host's
  (`FailUnified`, `DoubtIsNoCard`: any combination of losses). Of one that has such a device and is unified or
  unknown for another reason, one loss makes it discrete: the addressing query fails, whose exit
  code is ignored (`accel.py:342`); the line of the other device is half parsed and dropped
  (`accel.py:159-163`); or the MIG mode is not said (`accel.py:174`).

These the models reproduce, and the properties are stated beside them:

- a log stream that breaks settles the job as *succeeded* while its container runs, and
  then force-removes it (`jobs.py:279`; fault `log_break` of `Jobs`);
- `cancel()` of a job on a peer looks for its container here, so the row says cancelled and
  the container runs on (`jobs.py:360`);
- a job that ends between the stream request's read of the row and its subscription leaves
  the stream open for ever (`routers/jobs.py:48`);
- a restart during the replay after a restart loses the output of the first outage, because
  the replay itself moved the file's mtime (`jobs.py:420`; `MidReplay` of `JobLog`);
- the command of a running llama.cpp engine is not read back for its draft model and
  projector, nor vLLM's for its parallel devices, although `engines/vllm.py:148-150` says an
  engine is "accounted exactly like a managed one" (`engines/llamacpp.py:252`); two engines
  admitted soundly can then overcommit a machine (`SeenWhole` of `Launch`).

## 5. The proofs

| theorem | statement | assumes |
|---|---|---|
| `JobsProofs!TypeCorrect`, `SettledForGood`, `NoneForgotten` | `TypeOK`, `NoTaskForSettledRow`, `UnsettledRowHasOwner` always | `JobsAssumption` |
| `JobsProofs!LifecycleImplemented` | `Spec => Lifecycle!Spec` | `JobsAssumption` |
| `JobsProofs!SuccessIsEarned`, `CancelIsReal` | `SucceededMeansDone`, `CancelledAfterStop` always | also `ReliableDocker`: no `log_break`, `half_run` or `term_clean`; peers may be unreachable |
| `JobLogProofs!TypeCorrect`, `NothingLost` | `TypeOK`; `NoLineLost` always | `JobLogAssumption`; for the second `CalmRestarts`: lag at most the overlap, no restart during a replay |
| `JobLogProofs!SeriesInOrderHolds` | `SeriesInOrder` always | `JobLogAssumption` alone: restarts during a replay included |
| `JobLogProofs!LinesWholeHolds` | `LinesWhole` of `LogPump` always | `LogPumpAssumption`: outputs of any length, any number of pipes, a queue of any size |
| `JobStreamProofs!QueuesBounded`, `NoGap`, `HistoryGoesFirst` | `TypeOK`, `FollowsWithoutGap`, `LostAreOldest` always | `JobStreamAssumption` |
| `LaunchProofs!AdmittedFits`, `SuggestionFits`, `LessIsNoWorse`, `UnreadIsAdmitted` | an admitted engine fits with the reserve; the fraction a refusal suggests is accepted; verdicts are monotone; the finding above | `AdmissionAssumption`, a unified pool where stated |
| `LaunchProofs!TypeCorrect`, `LockCoversLaunch`, `NeverOvercommitted`, `NamesStand` | `TypeOK`, `SurveyStands`, `NoOvercommit`, `NothingUnnamed` always | `LaunchAssumption` |
| `LaunchProofs!NoneOrphaned` | `NothingOrphaned` always, the claim that `Launch_deaf` refutes | also that no peer is deaf |
| `PoolProofs!TypeCorrect`, `PortsNeverMeet` | `TypeOK`; `PortsApart` always | `PoolAssumption`; for the second `AllAnswer`: no peer is deaf |
| `PoolProofs!ReaperSparesWhole`, `EnginesWholeOrAbsent` | `NeverReapsServing`, `WholeOrAbsent` always | also `AllAnswer` and `SameLength`: edits keep the number of machines |
| `MemGuardProofs!NoKillOnKilledHolds`, `DiesWholeHolds` | `NoKillOnKilled`, `DiesWhole` always | `MemGuardAssumption`; for the first `Lag <= Cooldown` |
| `CacheProofs!OneWriterHolds`, `SoundStartHolds` | `OneWriter`, `SoundStart` always | `CacheAssumption` |
| `AdviceProofs!DoubtIsNoCard`, `FailsUnified` | whatever is lost of an answer, a machine is discrete only if one of its devices told a memory of its own; `FailUnified` always | `AdviceAssumption`; no mode set by the operator |
| `AdviceProofs!LostAnswerIsACard` | the finding above: with such a device, one loss is enough | the same, and a device as stated |
| `AdviceProofs!AdvisedIsAdmitted`, `AdvisedLoads`, `SpendableIsAdmitted` | for every profile, budget and number of machines: the advised fraction is not refused and holds the model; what llama.cpp may spend is not refused | `RecommendAssumption`; a profile and a budget of numbers; no bytes added by flags, and ranks on no more cards than there are |
| `AdviceProofs!SizingIsMost` | what is advised for llama.cpp fits in what may be spent, and no choice of layers and context that fits is better, for every header, flags and memory | `GgufAssumption`, `RecommendAssumption` |
| `AdviceProofs!FiguresAreNumbers`, `AdviceLoadsHolds`, `AdviceAdmittedHolds`, `MostLayersHolds` | `TypeOK`, `AdviceLoads`, `AdviceAdmitted`, `MostLayers` always | `AdviceAssumption`, `GgufAssumption`, `RecommendAssumption` |
| `AdviceProofs!AdviceStandsHolds`, `RelaunchStandsHolds` | `AdviceStands`, `RelaunchStands` always | also that every form is `Ordinary` |
| `AdviceProofs!SeenAsLaunchedHolds` | `SeenAsLaunched` always, if it holds at first | the same |

The assumptions on constants that are not in an `ASSUME` are what the code relies on and what
it does without them is known: with a deaf peer the reaper stops healthy engines (run
`Pool_deaf`) and a port is chosen twice; with an edit that changes the number of machines the
reaper compares an engine with the wrong number (`servers.py:1009`, section 6); a kill whose memory takes longer
than the cooldown to return is what `memguard.py:35` sets the cooldown against. A form is `Ordinary`
if no value in it, its model and its name included, is spelled as a flag or is a line that runs
an engine, if what memory depends on is set once, and if a single machine is given no rendezvous
port. The code checks none of this; a value that is spelled like a flag is, in a command, that
flag. `MC_Advice` has TLC evaluate it (`OrdinaryForms`) for all the forms of the run.

Sums and folds. The library's induction theorems take an operator, which the provers cannot
instantiate, but well-foundedness of the strict subset relation and of `<` on the naturals can be cited with a *set*:
the set of those for which a fact holds, which is then shown to be all. `Induction` and `SumGrows` in LaunchProofs, and their like in
AdviceProofs and JobLogProofs, are of this form, for each fold and each recursive function the models use: what containers need
(`LoadFacts`: one more adds its need, a subset needs no more), the figures of cards, the bytes of files
and tenants, the concatenated tokens of a command, the characters of an output.

*Jobs.* `NoTaskForSettledRow` alone is not inductive: whether a step of `cancel()` can meet
a task depends on where both are. `IInv` adds `TaskFitsRow` (each position of a task goes
with the row statuses possible there), `CancelFitsTask` (a cancel runs only
while the dashboard serves, for a row that exists, and writes a verdict itself only once the
job's task is gone) and
`BootCovers` (while the process boots, an unsettled row without a task is still in `todo`). Then each step is checked
action by action. The two results about containers need `VInv` on top: a `docker run` is
in flight only while its launch is tracked (`LaunchesTracked`), only container jobs have
containers, what a follower judges by agrees with how the work ended (`FollowerKnows`), and a
cancel that came after the launch finds no container running once it got past its stop
(`CancelKnows`).

*JobLog.* `NoLineLost` speaks of the end only. `NothingSkipped` says of every state that a line that is
neither in the file nor still to be read was printed recently enough for the next
resume to start before it; it is here that the overlap must cover the lag.

For `SeriesInOrder` the ghost of the argument is what a replay *passes over*: an entry that
is neither stored nor to be read again lies, in time, behind every cursor a later resume can
compute (`PassedOver`), because the file's mtime only grows. So whatever a replay adds comes
after all that is stored from before it and was seen by it, in order (`Ordered`, `Covered`), and
nothing needs a calm restart.

*LogPump.* `Lines` numbers the lines of a whole output by how many stop before them (`Rank`); `Cut` goes
through what was read character by character, and may stop anywhere. What ties them is `Holds`: what a
pump holds back is exactly the output behind the last newline read, so its last state is the line that stops at the next
one (`LastLine`), and the loop finds as many records as lines stop in what it reads (`CutTaken`). `FlowInv`
follows them from there: counted from what the consumer was given, through the queue and then through what the
pump has still to put, the lines of a pipe come one by one up to those found so far (`BetweenOK`), whatever of the
other pipe and whatever redraws are among them. The end is behind all pumps (`QueueOK`), so who
sees it has been given the number of lines that there are. A consumer that leaves freezes what it was given, so the invariant
says nothing else of it.

*JobStream.* The callbacks that still wait for the event loop carry the end of the log, in order
(`Tasks`), and a tab's queue followed by them is one longer stretch up to that end, since `publish_soon`
keeps its order and the queue is first in, first out (`Follows`). Whatever was shown or dropped is older
than this stretch, which is `LostAreOldest`; if nothing was dropped, what was shown and the stretch
are one piece, and `FollowsWithoutGap` follows. `QueuesBounded` is the only part that looks at the size.

*Launch.* `NoOvercommit` is carried by `SurveyStands` and by `Admitted`: for a launch that is
about to remove or run on a sound verdict, what its survey counted plus its own need plus the
reserve is within the pool, wherever containers are seen whole (`Honest`). `Locked` says that such a launch holds the lock, `Targets` that
a request's target is a server's container; together with `TypeOK` they are `IInv`. When
`docker run` adds the container, `SurveyStands` bounds what runs by what was surveyed, and
`LoadFacts` turns that into a bound on the sum.

`NothingUnnamed` needs `NameInv`: unless a server is `Excused` (`mixed` or `misread`), at most one request is about it
(`Alone`), no command of an abandoned one is still to land (`Astray`), and the row that request
read still stands: its target, a container of its own server (`Own`), is the one the row names, and
no longer runs once the request is about to drop or rewrite the row (`AsNamed`).

*Pool.* The lock gives exclusion: at most one launch past its lock, or a pass of the reaper (`Locked`), so
the port that a launch chose is on no rank of another server until it is done (`PortReserved`); with
every machine answering, the choice was made on all that runs. For the reaper, `WorldFits` says that
what a server should be serving is nothing known, nothing at all, or the ranks of one pool its row could have had, and
`PassCounts` that the number a pass counts against is the length of such a pool. With `SameLength` the two
numbers agree, so an engine of which a pass found too few ranks is not one that serves. `WholeOrAbsent` is carried by
`Settled`: of a server whose state is known, at each await the requests in flight are launches
(which the lock keeps apart) or one alone, each knows the ranks that run (`Knows`), and either these
are the ranks it should have or a request is still at work on them.

*MemGuard.* `Waits` says that, while the loop sleeps, the seconds since the kill and those that a killed engine's
memory still needs make at most `Lag`; with `Lag <= Cooldown` it is all back before the loop
looks for a victim again. `Takes` says that whatever runs of a victim nobody else touched is still to be
killed, and that what was just killed stays down until its restart policy is taken away.

*Cache.* Rows that are settled stay settled (`Follows`), so a download that saw none going on (`SawNone`)
overlaps an older one only if that one's row was settled without its program, which is what `orphan` says
(`Orderly`). A launch counts on whole copies machine by machine: those not in `Missing` are whole (`Supplied`),
the one it waits for is being written from a whole source and is whole once its program
ended well (`Copying`).

*Advice.* A card of its own needs a query that worked, at least one device, and every device with
both its figures (`DiscreteSaysAll`), one of them smaller than the host. What is left of an answer says nothing that the
whole answer did not say (`LeftSaysNoMore`), so that device was there before anything was lost. Conversely, where the devices that
can still be read all tell their figures and one of them is a framebuffer, nothing else is asked
(`FramebufferIsACard`), and each of three losses leads there.

The advisor and the guard compute in different units and round in different directions. The
advised percent is at most `SafeUtilisation`, which rounds down, so the share it claims of the
pool is at most what is free and what is available (`SafeBounds`), and the footprint, rounded
down again over cards, is no more (`QuotientBelow`). It is at least `FloorUtilisation`, which rounds
up, so it holds the model (`UpBound`, `UtilisationBounds`). An advice stands until a launch or a
stop (`Standing`), what runs was launched from a form that was saved (`Known`), and with the question
these are `Advising`; so what is launched is what was computed. That all figures are numbers is
proved from what a machine, a file, a repository or a command can be, one reader after the other
(`FiguresAreNumbers`). The attempt to prove `AdviceLoads` showed that it was false of a repository without any
weights on the disk yet, for which no floor is computed (`recommend.py:182`) and whatever is safe is advised:
the property now says so, and the run has such a repository on a nearly full machine.

`MostLayers` rests on one fact about the price of a llama.cpp model: it does not fall
where layers, context or companions grow (`CacheGrows` for the cache of each layer). With it, the bisection of
`recommend_llamacpp.py` keeps what fits below and what does not above its interval, which shrinks
(`HalvingFindsBest`), and the first step of the context that fits is the largest (`SearchFindsMost`).

For `AdviceStands` and `RelaunchStands` the invariant is `AsIdle`: what runs was advised, let in and came up as
it would have been had nothing been running. It is inductive because of two things. If an
engine that holds so many bytes is seen to hold them, then the survey that leaves it out gives
the same pool, the same occupied bytes and the same available bytes as the survey of the idle
machine (`HeldIsNeutral`), and two such surveys get the same advice and the same verdicts
(`AlikeAnswers`). And it is seen to hold them: `LaunchedIsRead` says that the command that is built from a form,
with the flags of a rank behind it if there are several, is found to be of its engine,
names its model and its rendezvous port, and is priced at what the form was priced at. Its proof goes through the rendering
flag by flag: of what is rendered before, between and behind, nothing is spelled like the flag that is read (`ShownElse`,
`SettingRead`), and the flag's own value follows it (`Gives`), which is where the forms must be ordinary. A
price is compared setting by setting, because the launcher drops flags that are at their defaults
and the reader puts the defaults back. The price that is read is less only for companions and for parallel
devices (`SeenWhole`), as section 4 says. With the tenants as they were at first, `SeenAsLaunched` follows.

**Only model-checked**: that what was started by hand, in whatever spelling, is read
as it was started, the premise of `SeenAsLaunchedHolds`, which is about the commands the instance lists; all
liveness. Liveness under fairness, `ENABLED`, and `RECURSIVE` operators are out of this prover's reach.

## 6. What the models leave out

Limits of the modelled parts, and behaviours seen in the code that no run covers:

- *Jobs.* The work in a container is a program that exits well or badly at any time; one killed for
  memory (`oom_killed`) exits badly. A cancel
  during `docker run` leaves an orphan container (`jobs.py:374`), a finished job's container on a peer is not
  removed (`jobs.py:308`), `_cancelled` is lost on a crash: the first is excluded from
  `CancelledAfterStop` by the ghost `early`.
- *JobStream.* Lines written between the replay and the subscription reach nobody, although
  ARCHITECTURE.md:111-115 says the whole run is seen; `FollowsWithoutGap` therefore starts at the subscription.
- *JobLog.* A series entry not yet stored when the process dies (up to 0.4 s) is
  recovered only if the replay reaches back to it; there is no property that the saved
  series is complete.
- *Launch.* Containers created by a command whose caller was cancelled, or next to an
  unreadable peer, are `unsure` and not counted by `NoOvercommit`: the code really can
  overcommit there. Requests that overlap for one server, edit the node of a
  running one, are cancelled, or stop or delete one on a silent peer put it in `mixed`, and an engine switch that a silent
  peer let through in `misread`; `NothingUnnamed` claims nothing for either, and the code really does leave containers
  without their row there. On a discrete
  pool the checks are not monotone (`safety.py:569-623`) and `NoOvercommit` says nothing.
- *Pool.* The memory verdict of a plan is a free refusal (`Plan` and `Advice` compute it). Removing "every rank name on every node"
  (`servers.py:516`) removes name r only on rank r's machine, so editing a pool and relaunching
  can strand a twin of a rank; the reaper counts containers and not ranks
  (`servers.py:1016`), so such an engine is not reaped when it loses a rank (excluded in
  `Broken`). An edit that changes the number of machines, or empties the pool, while the engine
  runs is not in the instances: the first makes the reaper stop a healthy engine (`servers.py:1009`),
  the second makes stop address only the base container (`servers.py:643`). Exited
  containers count as absent. A launch cancelled with `CancelledError` leaves a
  half-started pool, which the reaper collects. Node registration is fixed.
- *Admission.* The bytes a llama.cpp configuration asks for are a parameter (`Gguf` computes them).
- *LogPump.* Characters are whole: one of several bytes that two reads cut is decoded to
  replacements (`docker_ctl.py:349`). A record that ends in CR LF collapses to nothing and is
  dropped (`docker_ctl.py:354`), as `Lines` says too. Trailing blanks are ignored, and the
  0.4 s between two redraws may or may not have passed.
- *MemGuard.* An `OSError` between two kills leaves the cooldown unset and `docker kill` on a
  peer has no timeout (`memguard.py:230`); whether `docker kill` alone stops a restart policy
  is docker's affair, and the model lets docker revive what is not pinned.
- *Cache.* A launch after a cancelled or failed copy takes the directory it left for the model
  (`cluster.py:523`): `SoundStart` is about launches whose looks and sources were whole. Two
  requests that both look before either submits both start (`hf.py:735`): `OneWriter` speaks
  of those that could see each other. Deletion does not look at running jobs. A cancelled
  download or copy on a peer goes on. A download with a file filter counts as whole, the
  list of jobs it looks through is not cut at 50, and the pool is not edited under a launch.
- *Command.* A dozen flags of either schema, one of each kind. A command gives each flag once:
  of two the price is read from the first (`engines/__init__.py:60`), although the program
  takes the last, as `cluster.py:336` says of the rendezvous port. A shell line in which
  `shlex` finds an open quotation, an apostrophe in a comment say, hides its engine, and so does
  a program started in another way than `vllm serve` or `llama-server`. The
  port of an engine on a shell line is not found (`servers.py:842`), and one whose model lies
  under mounts of its own is found but has no price: `Plainly` and `SeenWhole` leave these to
  the weaker claims that nothing is priced above what it takes or as the other engine.
- *Plan.* A network is a /24 and an address lies on one. The interface taken is the first with an
  address on the network, up or not, although `cluster.py:84` says "the up interface". A comment in
  `used_master_ports` wants an unread node not to "look empty" (`cluster.py:372-375`), but it does:
  `docker_ctl.ps` answers an empty list, and a node outside the pool is not wired, so nothing
  refuses the launch. Whether the model
  can be split is read from this machine's files (`cluster.py:243`), whichever machine is the
  first of the pool. A rank's environment is not modelled.
- *Advice.* The advice for a pool looks at its first machine only (`recommend.py:248`), so a
  launch as advised may be refused on the others, and `AdviceAdmitted` is about the first.
  The pool is not edited under a running engine: reordered, its ranks would be charged
  under other names than the plan leaves out. Percents are exact where the code has floats. An engine holds exactly what it was
  priced at. `AdviceStands` is about engines a survey sees whole; `AdviceAdmitted` excludes
  flags that add memory to what was advised (CPU offload, a KV size, companions);
  `AdviceLoads` is about a pool that is one card or one memory, and a model whose weights are known. Parsers are chosen by
  family equality instead of a regular expression. An
  `nvidia-smi` that fails prints no readable row. `FailUnified` claims nothing of a machine with a device that told a memory
  of its own: there a single loss can yield a discrete card (`LostAnswerIsACard`). Nor is the other direction
  claimed: taken for unified, a machine with a card is judged by the host's memory, which may be larger than the card's.
- *run_capture* (`docker_ctl.py`): after its timeout the docker client is not killed, so a
  container created after the `rm -f` runs on.
- *Fine-tuning, Heretic.* Preflights take no lock (`finetune.py:423`, `heretic.py:530`); the commit
  cache is read and popped around an await (`heretic.py:641`); a full fine-tune writes `out/model`
  where serving looks for an adapter (`finetune_train.py:195`, `finetune.py:760`).

Not modelled (reasons in `PROJECT.json` "components"): fine-tuning and Heretic (each a job
whose life `Jobs` models, around files and a preflight), image builds, node registration and
discovery, telemetry, chat, the catalog, the layout of the forms, the frontend and the build scripts (I/O or
computation without state of their own).

## 7. Plan

Done, in the order of importance to a user: jobs and their containers; the log and stream
of a job, from docker's pipes to the browser; launches and their memory; pools and the reaper; the
watchdog; the model caches and launches that wait for copies; the probes, the pricing and
the advisors; the commands of engines, written and read back.

All safety properties of the runs are theorems. What a proof could still add is the reading
of commands written by hand, for any spelling that the readers know.

Further models, if the state of these parts grows: `run_capture` and its timeout, the
preflights as callers in `Launch`, nodes registered and removed under running engines.
