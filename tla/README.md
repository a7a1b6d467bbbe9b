# dng-preflight in TLA+

Specifications of the tool in `src/src/dng_preflight`: modules for its components, TLC
configurations that check them on small instances, and proofs TLAPS checks for every value of
their constants. `PROJECT.json` lists components, runs, the mutants that show each property can
fail, the source lines behind each definition, hazards and theorems. Paths below are relative to
`src/src/dng_preflight`.

## The system

| Part | State | Operations | Talks to |
| --- | --- | --- | --- |
| Discovery (`discovery/`) | one asyncio task per probe, the default executor's threads, two nested timeouts | `collect`, `_required`, `_optional`, eight `probe` | the host's tools, sockets, HTTP endpoints |
| What probes make of the host (`discovery/firewall.py`, `time_sync.py`, `dns.py`) | none; the host's services, clock and resolvers move under them | the tool cascade, one NTP exchange, queries to three resolvers | rule 1, rule 4, rule 7, the DNS records |
| Models (`models/`) | frozen records, no behaviour but load-time constraints | `build_config`, `model_validate` | read by everything |
| Interview (`interview/`) | the answers so far | `run` over eight questions, a provider (the prompts, or any callable) | snapshot in, answers out |
| Hard stops (`validation/`) | none | seven rules, `validate_plan` with override flags | reads a `DngConfig` |
| Generators (`generators/`, `templates/`) | the output directory | `generate_all` renders six artifacts and writes them; each artifact is a function of the config | reads a `DngConfig` |
| Command line (`cli.py`) | snapshot file, plan file, output directory | `inspect`, `plan`, `validate`, `generate` | all of the above, one process per command |
| The artifacts themselves (`templates/*.j2`) | the target host | `install.sh`, `firewall.sh`, the runbook's steps | run by the operator, again and again |

`inspect` runs discovery and writes a snapshot; `plan` takes a snapshot (or runs discovery), runs
the interview, derives a `DngConfig`, applies the rules and writes it; `validate` and `generate`
load that file, which the operator may have edited, and apply the rules again; `generate` then
writes the artifacts. The commands share nothing but those files.

What is hard here, and what makes each part correct:

- *Discovery* is concurrent. Threads cannot be cancelled, so a probe that timed out still holds a
  worker, its late answer must count for nothing, calls queued for dead probes must not start, and
  the process has to wait for the threads it left. Correct means: it decides in time, it ends in
  bounded time, a snapshot is complete, an error has a cause, verdicts stand.
- *The interview* is sequential, but each validator, default and skip reads earlier answers.
  Correct means: whatever the provider does, the answers of a finished interview fit each other.
- *The commands* are a protocol over files with an editor and crashes in it. Correct means: no
  artifact is made of a configuration that the rules refuse, a refusal changes nothing, and what a
  command finished is whole.
- *The rules* are pure, but what they look at may be stale or not what the docs say.
- *The artifacts* are six renderings of one configuration, some following an answer and some the
  field derived from it. Correct means: those of one directory fit together, also when the plan
  was edited, and the runbook ticks nothing but what was so or was overridden.
- *Probes* read a host that changes, a clock that may be set meanwhile, resolvers that disagree.
  Correct means: no public host passes on a filter that never was, a wrong clock never looks
  right, one answer is enough and two inspections render alike.
- *firewall.sh* changes the filter one command after the other, is run again with later plans and
  may stop anywhere. Correct means: nobody gets in who was not asked for, at no moment; a run that
  ends has closed the admin port and admitted its networks, as far as the host's own rules let it.
- *install.sh* stops at the first command that fails and is run again by hand. Correct means: it
  touches nothing before its checks, a run that ends well leaves everything in place whatever
  earlier runs left half done, and a further run does no harm.

## Modules

```
ProbeGroup      what collect() promises (abstract)
Discovery       collect(), executor and clock; implements ProbeGroup
Probes          the eight probes as data for Discovery
Models          snapshot, answers, DngConfig, build_config
HardStops       the seven rules, validate_plan             EXTENDS Models
Interview       engine.run and its questions               EXTENDS Models
Delivery        what plan and generate promise (abstract)
Pipeline        the four commands and their files;         EXTENDS HardStops
                implements Delivery
Rendering       what each artifact says of a config        EXTENDS HardStops
Deliverables    the artifacts in the output directory      EXTENDS Pipeline, Rendering
Firewall        firewall.py, then firewall.sh on the host  EXTENDS Rendering
TimeSync        one NTP exchange and rule 4                EXTENDS HardStops
Resolution      the resolvers' answers and what follows    EXTENDS Rendering
Installer       install.sh on the target host
MC_*            instances for TLC
*Proofs         theorems of Discovery, Interview, Pipeline, Deliverables, Firewall, TimeSync,
                Resolution, Installer
```

**Discovery.** A probe is a sequence of *stages*. A stage first hands blocking calls to the
executor (`asyncio.to_thread`; for an HTTP request the name lookup, which the event loop also
gives to its default executor), may have a timeout of its own, and may produce the probe's answer
before the last stage (network's first GET that works). `task`, `result`, `stage` and `entered`
are the asyncio side; `job`, `begun` and `queue` the `ThreadPoolExecutor`. `RequiredTimesOut` and
`OptionalTimesOut` are `_required` and `_optional` at 10 s, with the cancellation they cause;
`Abort` is the task group cancelling siblings; `Join` is leaving the group, building the snapshot
or raising; `TotalTimesOut` is the outer `wait_for`. After either, `CancelLeft` is `asyncio.run`
cancelling the tasks that are left: a `gather` does not cancel the siblings of the call that
raised, so these stay queued when `collect()` has its outcome, and a worker that becomes free
before `CancelLeft` may start one (`swept` is false until then). `Exit` is `asyncio.run` joining
the executor.
Cancelling takes a queued call back and leaves a busy one running, as futures do. `Tick` adds a
second, and only when nothing is due: every ready task runs, every due timer fires and every
blocking call ends within its bound before the clock moves on, in any order among themselves. That
is what turns the timeouts in the code into bounds on time; ties (an answer and its timeout in the
same second) go either way.

**Probes** gives the eight probes their stages with the constants of the source: docker's four
commands of 5 s are one thread of up to 20 s, network is three threads and then up to `Url` GETs
of 4 s, duo is `Url` HEADs of 4 s, and so on. Two numbers are the host's, not the program's:
`Lookup` bounds one `getaddrinfo`, and `Workers` is the size of the default executor (CPUs + 4, at
most 32), chosen small so that the probes do compete.

**Models / HardStops** keep of a snapshot and of answers what rules, interview and commands tell
apart. Offsets are integers in tenths of a second, so that the 30 s boundary is exact; versions
are sequences of numbers compared like Python tuples, with `<<>>` for a string `int()` rejects.
Each rule is an operator that holds of the configurations it stops; `ValidatePlan` drops a
violation only for the flag of its own rule.

**Interview** is one action per turn of the loop in `run`: `Ask`, `Skip` (a question that does
not apply takes its default) or `ProviderRaises`. The provider may return any value of the right
shape for a question, or `Other`, which stands for a value of any other type and one no question
knows; the `isinstance` refusals are the first conjunct of `Valid`. `Offered` is what the prompts
of `prompt.py` let through, a part of that.

**Pipeline** has one action per step of a command at which it could be cut short. A write is two
steps, because `write_text` truncates first; `Killed` ends any running command (Ctrl-C, kill, full
disk) and leaves the files as they are. `EditPlan` is the operator's editor. `Interview` here is
abstracted to its result, any answers that are `Coherent`; that a finished interview gives no
others is `AnswersCoherent` of the module `Interview`, proved there as `Coherence`.

**Delivery** says what the operator may rely on, without commands, phases or memory: the plan file
is opened only for a configuration that passes the rules and becomes that one, a delivery is of
the plan on file and of one that passes under the flags given to it, no plan is replaced while a
delivery reads it, an artifact is only ever emptied, filled from the delivery under way or made
executable, and what is `delivered` is complete. `ImplementsDelivery` maps `Pipeline` onto it: a
save is under way while plan has its file open, a delivery from the moment generate's rules have
passed (`Generating`) until the command ends, and `delivered` is what an unbroken directory was
written from. A refusal, a failed load and `validate` are stutters of `Delivery`: they leave plan
and artifacts alone.

**Rendering / Deliverables.** `Rendering` keeps of an artifact what whoever follows it acts on:
the DNS records of both forms with their names and values, the stubs and certificate bodies of
the scripted config, the template and the RDP port of the firewall script, the runbook's paste
step and summary. The markdown form of the records has two placeholders for a missing address,
one for the seed rows (`SeedUnset`) and one for the others (`Unset`), the latter also in the JSON
form. Names are pairs (`<<"web", i>>`); counts of seed applications stand for the applications.
`Deliverables` composes it with `Pipeline`: an artifact in the directory says what `Rendering`
makes of the configuration its file was written from, so its properties are about the histories
of commands, edits and kills that lead to the files, and about any two artifacts lying side by
side.

**Firewall** starts where discovery asks its three tools in order. Services may be started and
stopped between two commands of the probe, and each command may fail (3 s, no root). What it found
picks the template (`Template`), and then `firewall.sh` runs, for any plan each time. Each command
that changes who gets through is an action: `AllowHttps`, `AllowAdmin` for one network after the
other, `AllowRdp`, `DenyAdmin`, `Enable` for ufw, `Reload` for firewalld. For firewalld
`AllowAdmin` stands for the two commands of a network: the second opens 8443 in the trusted zone,
which lets its sources in everywhere as it is, and changes nothing. `Stops` ends a script after
any command, `AllowByHand` is what its comments tell the operator to do, and `FirewalldRestarts`
may come between any two commands.

A rule of ufw names who it is for (any set of clients), the ports it covers (any set), and how it
is written: for one port of tcp, as all rules of the scripts are, or `otherwise` (for any
protocol, a range, all ports, an application profile). `Added` keeps the list the way ufw does: a
rule that is the `Same` but for its action is changed in its place, any other goes to the end, and
the first that matches decides. So `allow 8443` is not what `deny 8443/tcp` replaces. firewalld
has its permanent and its runtime configuration, which a reload or a restart makes equal; they may
differ before the first script, and what the operator had made permanent counts as asked for. A
source of the trusted zone is let in everywhere. `Reaches` says who gets through to a port, with
every active tool letting him. Which tools a host may have, its ufw rules and its zones are the
constants `HostTools`, `PriorRules` and `PriorZones`.

**TimeSync** is one exchange with an NTP server, in tenths of a second: the first timestamp
(`TakeT1`), the name lookup inside `sendto` after it (`LookUp`), the server's stamp (`Serve`), the
answer (`Receive`). `SetClock` sets the host's clock meanwhile, `Lose` loses what is under way,
the server's seconds wrap at `Era`, and a server that is not synchronised sends zeros.

**Resolution** gathers the six queries (three resolvers, two types) as they end, in any order,
with any arrangement of any addresses or nothing (`Reply`), and computes what the probe stores,
the address whose name it looks up, the merged list of the generator and the two verdicts on it.
`Within` keeps of a sequence what lies in a set: with `TextOrder` it is the `sorted` of `_query`,
in `Merged` the test of `_resolved_ips` for addresses it already has. The host may be inspected a
second time, with other answers lost.

**Installer** has one action per function of `install.sh`, two where a function can be cut short
with an effect that the next run sees (`DearmorKey`/`AptInstall`, `DnfInstall`/`EnableDocker`,
`MakeConfigDir`/`CopyConfig`). A run is either undisturbed or `failing`; in the second kind any
command may fail and end the script (`CommandFails`, `set -e`) or the script may be killed
(`Killed`), and `Partial` says what the command under way may leave. Between runs the operator
fills in the installed config; the hostname's record is published, taken back (`Withdraw`) and
published again at any moment, of a run too. What apt, dnf, gpg, systemctl and docker
do is modelled as far as the script depends on it: docker's packages start their daemon on Ubuntu
and not on RHEL, the repository of Ubuntu has no release of Debian, `gpg -o` asks or fails when
its file is there, `docker pull` needs the daemon.

## Runs

| Run | Instance | Shows |
| --- | --- | --- |
| `discovery` | system, docker, network; 2 workers; 2 URLs; lookups up to 10 s; docker and network may raise | types, `SnapshotComplete`, `DecidedInTime`, `ExitsInTime`, `ErrorHasCause`, `VerdictsStand`, `NothingStartsLate`, refinement of `ProbeGroup`, termination |
| `discovery_pool` | the five one-thread probes, 3 workers, a total budget that ends with the per-probe one | `ErrorHasCause`, `AbsentOnlyWhenLate`, `NoStarvation` |
| `discovery_doc` | duo alone, 3 URLs, 5 workers | **violated**: `RequiredKeepTime` |
| `interview` | all eight questions, any provider | types, `AnswersCoherent`, `AnswersStayValid`, `PromptsRejectOnlyHostnames` |
| `pipeline` | 3 snapshots, 2 answer sets, 2 artifacts (one a script), all 8 flag sets, 3 commands, 1 edit | types; `ArtifactsVetted`, `AllOrNothing`, `SavedPlanPasses`, refinement of `Delivery`; of the artifacts `RecordSetsAgree`, `RelaysAgree`, `CertificateStepsAgree`, `SummaryEarned` |
| `pipeline_host` | as above, with answers for another hostname, no edit | **violated**: `PublicHostnameLookedUp` |
| `pipeline_derived` | as `pipeline` | **violated**: `DerivedFieldTrue` |
| `installer` | every kind of host, 4 runs, 1 edit of the config | `SuccessMeansReady`, `ChecksComeFirst`, `SuccessLasts` |
| `installer_config` | Ubuntu, 2 runs | **violated**: `ConfigKept` |
| `installer_again` | RHEL, 2 runs | **violated**: `UndisturbedSucceeds` |
| `host` | every set of installed and active tools, 4 prior ufw lists, 2 prior zones (permanent and runtime ones each), 2 script runs for any plan over 2 networks, 1 change of a service, restart of firewalld or rule by hand; a grid of NTP exchanges; 3 resolvers over 2 addresses | types; of the firewall `RuleOneGrounded`, `OnlyAskedOpens`, `AdminPortCloses`, `AdminsAdmitted`, `NoSecondFirewall`; of the clock `RuleFourJudges`, `WrongStampStops`; of the records `OneAnswerSuffices`, `TargetStable`, `PtrOfTarget` |
| `firewall_again` | a host with ufw alone and no prior rules, 2 script runs | **violated**: `AdminCidrsReach` |

*Bounds.* Three probes on two workers already give a blocked queue, a thread that outlives its
probe (20 s against 10 s), a call cancelled in the queue, one cancelled while busy, a probe with
several stages and two independent failures; the pool run adds the case with more threads than
workers. Both meet `Punctual`, the hypothesis of `NotStarved` below, as `MC_Discovery` assumes
and TLC checks. Discovery itself is finite (its clock stops at `Exit`), so these runs are cut
nowhere. In `Pipeline` three commands are the shortest history in which one command's files meet
two later ones (`plan`, a cut-short `generate`, another `generate`; or `plan`, edit, `validate`,
`generate`), and one edit may change any field that a rule or a derived field depends on. Two
artifacts are enough for "some but not all"; the proofs hold for any list. In `Installer` four
runs hold a failure, a success, another failure and the run that meets what it left; `failing` is
chosen anew for each. In `host` (1.6 million states) two runs are a first plan and a later one,
each of which may be cut anywhere; two networks let the plans overlap, follow each other or be
disjoint; the prior lists are the ones that decide differently (the admin port open to all by the
rule the deny takes the place of; one network shut out and all others let in for any protocol;
ssh let in and one network shut out of all ports; nothing). The two zones leave a pending opening
or a pending network of each kind where the permanent one differs from the runtime one. A host
with firewalld is given no ufw rules, because the script for firewalld leaves them alone
(`HostInit`). The prior lists and zones, and the number of runs, are arbitrary in the proofs.
`Now` lies before, at and behind the end of an era; the skews lie on both sides of the margins,
the delays reach the probe's budget. `Era` is shortened (10,000 s): only its distance from
offsets of 30 s matters, which `EraAssumption` states and the proofs use. Three resolvers and two
addresses hold a disagreement, a silent first resolver and two orders. `SetClock` happens once
and a host is inspected twice. `Firewall`, `TimeSync` and `Resolution` share no variable and no
property reads two of them, so `host` follows one at a time while the others have not begun
(`HostNext`): in the full product each would take the same steps. `CHECK_DEADLOCK` stays on
everywhere: each module says by a `Terminated` or `Ends` action where it may stop.

*Fairness.* Only `Terminates` needs it, and it needs `WF_vars(Next)` alone: the event loop never
stops while something is ready, and each blocking call has a timeout of its own (the `timeout=` of
every `subprocess.run`, socket timeouts) or is a name lookup that the resolver bounds. No fairness
is asked of any particular probe or worker: the clock stands still while something is due, so some
step always leads on.

## What the violated runs show

1. `discovery_doc`: aggregator.py:6-9 reads a breach of the per-probe budget by a required probe
   as a bug in it, which should honour its own timeouts. duo honours each (4 s) and tries three
   endpoints in turn: 12 s on a host that drops outbound HTTPS, so the probe's task raises
   `TimeoutError` at 10 s, which the task group wraps in an exception group, and `inspect` fails
   where the snapshot has room for three `connect_timeout` strings.
2. `pipeline_host`: rule 7 checks the records of the hostname that was inspected; another one may
   be answered in the interview, and its artifacts are generated although it was never looked up.
   The build plan states the rule for `public_hostname`, without an override.
3. `pipeline_derived`: after an edit of `deployment_scope` in the plan, generators use the
   `requires_extra_dns_container` of the old scope.
4. `installer_config`: a second run of `install.sh` in the output directory installs the generated
   config over the one the operator filled in, although the runbook calls the script idempotent.
5. `installer_again`: on RHEL a first run that ends between the packages and `systemctl enable
   --now` leaves a docker command without a daemon. Later runs see the command, skip the
   installation and fail at `docker pull`. `SuccessLasts` shows this cannot follow a success.
6. `firewall_again`: firewall-ufw.sh.j2:21 calls the admin port "restricted to admin CIDRs only".
   On a host with ufw alone, the script of a plan without networks is run, then that of a plan
   with one: ufw adds the network behind the deny of the first run, where no packet of it gets to.
   No document says that the script is run again for a changed plan, or that it must not be.
   `AdminsAdmitted` says when a run does admit its networks, and `OnlyAskedOpens` that the failure
   is on the closed side.

Other disagreements came up that need no run, because one step shows each.

- Rule 6 is documented as the check for hand-edited plans (hard_stops.py:154-155), but the load
  that precedes it refuses the same plans with an exception (`Load`; models/answers.py:76).
- The installer's branch for `ubuntu | debian` adds Ubuntu's apt repository with Debian's codename
  (installer.sh.j2:48), where `apt-get update` finds no release, although README.md:97 of the
  repository supports Debian 12 (`AptInstall`).
- `install.sh` dies on any `default_realm` line (installer.sh.j2:84), rule 2 looks for an entry in
  `[realms]`: a host may pass the rule, be ticked in the runbook (runbook.md.j2:174) and be
  refused by the script.
- The runbook's summary is headed "The following rules were enforced" (runbook.md.j2:171) and
  ticks domain join and time in every case: generated with `--allow-domain-joined` or
  `--skip-time-check` it ticks a rule the host breaks, where MVP_BUILD_PLAN.md:251 wants a loud
  warning. `SummaryEarned` is what does hold: a tick may stand for its flag, never for nothing.
- firewall-ufw.sh.j2:38 is to "explicitly deny 8443 from anywhere else". A host that had an
  `allow 8443` for any protocol, or a range or an allow-all, keeps it in front of the script's
  deny, and the admin port stays open after a complete run. That is the exception in
  `AdminPortCloses`, which says that nothing else keeps it open.
- With Let's Encrypt and any stub, the stubs ask to copy `ssl_cert.cert` and `key`, which that
  config has not got, although runbook.md.j2:59-60 has no paste step (`CopiedBodies`, and the case
  left out of `CertificateStepsAgree`).
- The JSON records carry the first address only and no NS delegation, although dns_records.py:3
  calls both forms the same record set (`RecordSetsAgree` excludes exactly these).
- The firewall stub for other tools exits with an error, while runbook.md.j2:49 says the step
  opens 443 and restricts 8443.
- The `primary_auth` comment refers to Step 4 of the runbook; it is Step 7. The password "SET
  BEFORE FIRST RUN" of the scripted config has no step. `/etc/dng/docker-compose.yml`
  (runbook.md.j2:89, 155) is created by nothing.
- An installed but stopped firewalld answers for the host and hides an active ufw or iptables
  (`ProbeFirewalld`).
- A source in firewalld's trusted zone reaches every port, not 8443 alone (`Asks`), and a public
  zone that already had 8443 open keeps it.
- A hand-added `ufw allow`, which the script's comment advises, has no effect behind the script's
  deny; a prior `allow 8443/tcp` is turned into the deny where it stands, in front of the networks
  (`AdminsAdmitted` excepts it).
- After an edit of the scope the headers of some artifacts show the new scope and their contents
  follow the derived field.
- Rule 7 counts 9.9.9.9 too; MVP_BUILD_PLAN.md:261 and runbook.md.j2:25 name 1.1.1.1 and 8.8.8.8.
- `ExistingBundle.chain_path` (models/answers.py:36) is asked for and delivered by no artifact.
- A public hostname of two labels gives wildcard and seed records of a top-level domain
  (dns_records.py:19).

## Proofs

All from the named assumptions on the constants (`ProbeAssumption`, `StagesAssumption`, ...),
which TLC evaluates on each instance.

- `DiscoveryProofs`. `TypeCorrect` is inductive as it stands. `DecidedInTime` and `ExitsInTime`
  are not: `TimeInv` adds that after the decision no task runs and no call is queued, that a busy
  call was begun before the per-probe budget was over, and that the clock has not passed its end;
  only `Tick` moves the clock, and its guard gives exactly those bounds (`Deciding`, `Exiting`).
  `AnswerInv` relates tasks to results (`Completeness`). `Standing` is the action property
  `VerdictsStand`. `Refinement` maps late and raising tasks to `failed` and shows every step to be
  a step of `ProbeGroup` or a stutter; it assumes `PerProbeTimeout < TotalBudget`, true of the
  constants of the code (10 and 30), because otherwise the outer timeout cancels a group in which
  nothing failed. `TimeInv` is what rules that step out.

  `CauseInv` says that a task is cancelled only where a sibling failed or the total budget is
  spent, and that late tasks in this sense are required ones; `HavingCause` reads the three causes
  of an error off it, and `AbsentLate` its part on `NotDetected`.

  `NothingLate` is not about states: that a call a worker *starts* is still wanted follows from
  `QueueInv`, by which a queued call belongs to the stage its probe is in and to a task that runs
  or, until `asyncio.run` has swept, has raised. Leaving a stage, ending a task and the sweep must
  each take back exactly its own calls for that. A call of a probe that raised may start after the
  outcome, between `collect()` raising and the sweep: the property does not deny it.

  `NotStarved` needs a hypothesis, `Punctual`: a required probe of one stage with short calls has
  them among the first `Workers` the executor is given (or a timeout of its own below the budget).
  Without it `NoStarvation` would not hold. For the program it does: the default executor has at
  least five threads, and `system` and `tls` are the first and third to reach it. `StartInv` says
  that the workers take the first calls in their order, and at second 0 as long as they last
  (`WorkerLeft` counts them); `PunctualInv` that such a call is begun at 0, and so is over, by the
  bound on calls, before the probe is late.
- `InterviewProofs`. `RunInv` says which answers are kept after `at` questions, that each has the
  shape of its question and that each is valid next to *all* kept answers (`StayingValid`). The
  step rests on the scope being asked first and on no validator reading another answer.
  `Coherence` reads the coherent answers off the validators, `TypeCorrect` is a consequence, and
  `Prompting` goes through the questions: what the prompts let through, after any answers the
  invariant allows, is valid, for any hostnames, addresses and counts. No theorem assumes a value
  of the right type from the provider.
- `PipelineProofs`. Each property with its strengthening: `VetInv` (a generate past its rules
  holds a vetted configuration; `Vetted`), `DirInv` (the artifacts before `at` are of this
  generate, and the directory counts as broken from its first write; `WholeDirectory`), `SaveInv`
  (what a plan holds at each phase; `SavedPasses`). `Refusing` says directly of the
  commands that a refusal writes nothing.
  `TypeCorrect` needs, next to the types, that a command past a phase holds what the phase before
  it left (`FilesStep`, `HeldStep`, `OutStep`, `StageStep`), and `DirInv`, for what an artifact
  was rendered from. `Delivering` is the refinement of `Delivery`: every step of a command, of the
  editor or of a kill is a step of `Delivery` or a stutter (`DeliveryStep`). It needs all of the
  above (`PipelineInv`) and `FoundInv`, that a command finds where it goes on what it left there:
  the plan it loaded is still the one on file, and the file it opened is still empty.
- `DeliverablesProofs`, for any hosts, addresses, answers, edits and artifacts. From
  `WholeDirectory` all artifacts that lie in an unbroken directory are of one configuration; what
  two of them say is then compared by the definitions of `Rendering` (`RecordSets`,
  `CertificateSteps`). `Summary` follows from `Vetted`: rule 7 has no flag, so a generated
  configuration has records. `Relays` needs `BuiltInv`: as long as nothing was edited, every plan
  and every artifact is of a configuration `BuildConfig` made of coherent answers.
- `TimeSyncProofs`, for any era, budget, delays and skews the assumptions allow. `ClockInv` says
  what each timestamp was taken of: the first of a skew the clock had, the stamp of the time it
  was served, modulo the era, the offset of both and a last skew. From it `WrongStamps` keeps the
  reading of a wrapped or zero stamp away from the limit of rule 4, and `RuleFour` bounds the
  error of the midpoint by half of the exchange; the rest is arithmetic over `%` and `\div`
  (`Wrap`, `Bounds`).
- `FirewallProofs`, for any rule lists (rules for any sets of clients and ports, however
  written), zones, networks and number of runs. `TypeCorrect` needs `ToolThere` (a script past
  its checks has its tool), `OneFirewall` needs `OrderInv` (scripts come after the probe, whose
  finding stays), `RuleOne` needs `GroundInv` (what each stage of the cascade has excluded).
  `AdminPortShut` rests on facts about lists in which the first matching rule decides:
  `UfwAddCases` (a rule is replaced in place or appended), `FirstPosition` (a set of positions
  has a least element, by well-foundedness), `UfwOpens` (an added rule lets in only whom it
  names), `DeniedMade`, `OthersKept`, `DeniedCloses`; `CloseInv` then says that the deny outlives
  every later run and that no allow in its form is beside it. What is left is an allow in another
  form, which no script writes: the exception the theorem states. `OnlyAsked` needs `AskInv`: the
  script at work was asked for what it opens, and so was every permanent opening that a reload
  has yet to bring into force. `Admitted` needs `AdmitInv`: networks the script is done with are
  admitted by a rule before which none shuts them out, or are trusted sources (`ByRuleMade`,
  `ByRuleKept`), unless the rules the run started with shut them out.
- `ResolutionProofs`, for any resolvers, addresses, arrangements and losses. The library's
  induction takes its property as an operator, which no prover here instantiates; `Induction`
  states it for a set of numbers instead and rests on the well-foundedness of `<`. With it
  `Iteration` builds a function step by step, so that the recursive functions behind `Within` and
  `Merged` are shown to have a solution and to obey their equations (`WithinSteps`,
  `MergedSteps`). From these follow the facts about the two for sequences of every length:
  `Within` has the elements of both (`WithinRange`), changes nothing of what lies in the set
  (`WithinAll`) and repeats nothing (`WithinOnce`); `Merged` begins with the first list that is
  not empty (`MergedFirst`), is the common list where all agree (`MergedAgreed`) and has
  everything once (`MergedOnce`). `LookupInv` says that every reply is in the order of the text,
  hence determined by its elements (`Sorted`), that `dns` is made of the replies, and that an
  earlier inspection was made of lists of the same kind. `AnyAnswerCounts`, `SameTargets` (by
  `Agreement`) and `ReverseOfTarget` (by `FirstAIsTheirs`) are its consequences, and so is
  `EachOnce`: every address any resolver returned is rendered, and none twice.
- `InstallerProofs`. `TypeCorrect` in two halves, flags and values. `DoneInv` says what `main` has
  done when it reaches a step (`Ready`); `CheckInv` that past its checks the host is accepted and
  its hostname resolves (`CheckedFirst`). `Lasting` uses both: after a success docker and its
  daemon are there for good, so `ensure_docker` returns early, and no step of an undisturbed run is
  left that could fail but the lookup of a hostname whose record was withdrawn (`LastInv`).

Every safety property that a passing run checks is stated by a theorem. Only model-checked is
`Terminates` (liveness under fairness, out of the provers' reach), and the violations are
counterexamples that TLC finds.

## Abstractions, and what is not modelled

- Of what a probe *reads*, `Firewall`, `TimeSync` and `Resolution` model what a rule or a
  generator goes on to use. Parsing of command output, certificates, open ports, docker's versions
  and Duo's status codes are left out: no rule and no artifact depends on them. Discovery knows
  whether a probe answers, answers NotDetected, or raises, and when.
- An HTTP request's timeout is one deadline for its stage; httpx applies it to connect, read and
  write separately, so a real request can take longer. The per-probe budget is what bounds it in
  either case, and `RequiredKeepTime` fails already under the shorter reading.
- The NTP offset is an integer in tenths of a second with `\div 2` for the code's float halving;
  the half tenth lies within the margins `RuleFourJudges` states. Skews are bounded by
  `EraAssumption`, which is what keeps a right stamp and a wrapped one apart.
- In `Deliverables`, where RDP relays of an edited plan vanish from the scripted config and stay in
  the records, the cause is the stale derived field that `pipeline_derived` shows; `RelaysAgree`
  compares stubs with seed names for unedited plans only.
- Of dns's queries only their common deadline matters; reading `/etc/resolv.conf` takes no time.
- YAML and JSON round trips, wording of messages, TTLs, IdP instructions, and the quoting and
  indenting filters of `templates/__init__.py` (text, character by character) are left out. A plan
  that cannot be parsed is `Torn`.
- Without `--output` or `--save` a command prints what it would write; it is the same command as
  one killed before its write, as far as files go.
- Of `install.sh`: one version of the image, a docker that is there before the first run has its
  daemon up, nothing but the script changes the packages, a daemon once up stays up (no reboot),
  and whether the host is domain-joined does not change. The record of the hostname does. The
  other packages apt and dnf install are part of their step.
- Of `firewall.sh`: IPv4 only, sources are networks that do not overlap, `elsewhere` is everyone
  else. A tool that lets a packet through does so on its own rules; bare iptables rules of the
  host are not modelled, only whether there are any. Services are started and stopped before the
  first script run; later only the script turns ufw on, and firewalld may restart. Accesses are
  by tcp; `limit` and `reject` of ufw count as allow and deny, and inserting or deleting rules by
  hand after the first script is left out. Port 445, which the scripts mention and run no command
  on, is left out.
- Not modelled: the runbook's steps after the scripts (starting the container, IdP set-up, the
  first login). Their state is a compose file, a container and an IdP outside the repository,
  which nothing in it reads or writes, so a model would be invented. Tests, packaging and CI have
  no state of the program.

## Plan

Done: all modules above, a theorem for each safety property of the passing runs, and the two
refinements. Left, should the project be extended: an abstract specification of `install.sh` in the
way `ProbeGroup` is one of `collect()` and `Delivery` of the commands, with a proof that
`Installer` implements it.
