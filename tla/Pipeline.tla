------------------------------ MODULE Pipeline ------------------------------
(***************************************************************************)
(* cli.py and generators/__init__.py: the commands inspect, plan, validate *)
(* and generate, one at a time, over the files they leave for each other.  *)
(* Between commands the operator may edit the plan by hand (which the      *)
(* rules expect, hard_stops.py:154-155).  Every write first empties its    *)
(* file; a command may be killed, or a write may fail, between any two     *)
(* steps.                                                                  *)
(***************************************************************************)
EXTENDS HardStops

CONSTANTS
    Observed,     \* snapshots collect() may return
    Given,        \* answers the interview may return
    Artifacts,    \* ARTIFACT_NAMES, in the order they are written
    Scripts,      \* those that end in .sh
    MaxCommands,  \* bound: commands the operator runs
    MaxEdits      \* bound: times the operator edits the plan

Name == {Artifacts[i] : i \in DOMAIN Artifacts}

ASSUME ObservedAssumption == Observed \subseteq Snapshot
ASSUME GivenAssumption == Given \subseteq Answers /\ \A a \in Given : Coherent(a)
ASSUME ArtifactsAssumption ==
    /\ Artifacts \in Seq(STRING) /\ Artifacts # <<>>
    /\ \A i, k \in DOMAIN Artifacts : Artifacts[i] = Artifacts[k] => i = k
    /\ Scripts \subseteq Name
ASSUME BoundAssumption == MaxCommands \in Nat /\ MaxEdits \in Nat

VARIABLES
    snapFile,   \* the file inspect --output writes
    planFile,   \* the file plan --save writes
    savedWith,  \* the override flags given to the plan that wrote it
    edited,     \* the plan file was edited since
    art,        \* the output directory
    mode,       \* which artifacts are executable
    command,    \* the command that runs or ran last
    phase,      \* how far it is
    snap,       \* the snapshot it holds
    cfg,        \* the DngConfig it holds
    flags,      \* its override flags
    at,         \* the artifact generate_all is writing
    exit,       \* how the last command ended
    broken,     \* a generate was cut short and none has finished since
    commands, edits

files == <<snapFile, planFile, savedWith, edited>>
outDir == <<art, mode, broken>>
memory == <<snap, cfg, flags, at>>
vars == <<files, outDir, command, phase, memory, exit, commands, edits>>

Absent == [is |-> "absent"]
Torn == [is |-> "torn"]
Whole(x) == [is |-> "whole", of |-> x]
IsFile(f, S) == f = Absent \/ f = Torn \/ (f = Whole(f.of) /\ f.of \in S)
Content == [config : DngConfig, flags : SUBSET Flag]
Phase == {"idle", "taken", "opened", "assembled", "loaded", "vetted", "writing", "closed"}
Exit == {"none", "ok", "stopped", "usage", "error", "killed"}

Init ==
    /\ snapFile = Absent /\ planFile = Absent /\ savedWith = {} /\ edited = FALSE
    /\ art = [n \in Name |-> Absent] /\ mode = {} /\ broken = FALSE
    /\ command = "none" /\ phase = "idle" /\ exit = "none"
    /\ snap \in Observed
    /\ cfg \in {BuildConfig(snap, a) : a \in Given}
    /\ flags = {} /\ at = 1
    /\ commands = 0 /\ edits = 0

------------------------------------------------------------------------------
(* Starting and ending a command *)

Starts(c) ==
    /\ phase = "idle" /\ commands < MaxCommands
    /\ commands' = commands + 1
    /\ command' = c
    /\ UNCHANGED edits

Ends(e) ==
    /\ phase' = "idle"
    /\ exit' = e
    /\ UNCHANGED <<command, commands, edits>>

Goes(p) == phase' = p /\ UNCHANGED <<command, exit, commands, edits>>

------------------------------------------------------------------------------
(* inspect *)

Inspect ==
    /\ Starts("inspect")
    /\ UNCHANGED <<files, outDir, cfg, flags, at>>
    /\ \/ snap' \in Observed /\ phase' = "taken" /\ UNCHANGED exit
       \/ UNCHANGED snap /\ phase' = "idle" /\ exit' = "error"

OpenSnapshot ==
    /\ command = "inspect" /\ phase = "taken"
    /\ Goes("opened")
    /\ snapFile' = Torn
    /\ UNCHANGED <<planFile, savedWith, edited, outDir, memory>>

CloseSnapshot ==
    /\ command = "inspect" /\ phase = "opened"
    /\ Ends("ok")
    /\ snapFile' = Whole(snap)
    /\ UNCHANGED <<planFile, savedWith, edited, outDir, memory>>

------------------------------------------------------------------------------
(* plan *)

\* From a snapshot file, or by inspecting the host first; the file may be missing
\* or cut off, neither may be given, the discovery may fail.
Plan ==
    /\ Starts("plan")
    /\ UNCHANGED <<files, outDir, cfg, at>>
    /\ flags' \in SUBSET Flag
    /\ \/ /\ snapFile.is = "whole" /\ snap' = snapFile.of
          /\ phase' = "taken" /\ UNCHANGED exit
       \/ snap' \in Observed /\ phase' = "taken" /\ UNCHANGED exit
       \/ UNCHANGED snap /\ phase' = "idle" /\ exit' \in {"usage", "error"}

\* The interview; an answer that fails its validator ends it with nothing.
Interview ==
    /\ command = "plan" /\ phase = "taken"
    /\ UNCHANGED <<files, outDir, snap, flags, at>>
    /\ \/ Goes("assembled") /\ \E a \in Given : cfg' = BuildConfig(snap, a)
       \/ Ends("error") /\ UNCHANGED cfg

\* _report_violations_and_exit
VetPlan ==
    /\ command = "plan" /\ phase = "assembled"
    /\ UNCHANGED <<files, outDir, memory>>
    /\ IF ValidatePlan(cfg, flags) = {} THEN Goes("vetted") ELSE Ends("stopped")

\* Mutant: the plan is opened for writing before the rules have run.
OpenPlanUnvetted ==
    /\ command = "plan" /\ phase \in {"assembled", "vetted"}
    /\ Goes("opened")
    /\ planFile' = Torn
    /\ UNCHANGED <<snapFile, savedWith, edited, outDir, memory>>

OpenPlan ==
    /\ command = "plan" /\ phase = "vetted"
    /\ Goes("opened")
    /\ planFile' = Torn
    /\ UNCHANGED <<snapFile, savedWith, edited, outDir, memory>>

ClosePlan ==
    /\ command = "plan" /\ phase = "opened"
    /\ Ends("ok")
    /\ planFile' = Whole(cfg) /\ savedWith' = flags /\ edited' = FALSE
    /\ UNCHANGED <<snapFile, outDir, memory>>

------------------------------------------------------------------------------
(* The operator's editor *)

Edit(c) ==
    {[c EXCEPT !.answers.deployment_scope = x] : x \in Scope}
    \union {[c EXCEPT !.answers.wildcard_cert = x] : x \in BOOLEAN}
    \union {[c EXCEPT !.answers.public_hostname = x] : x \in Host}
    \union {[c EXCEPT !.answers.rdp_relays = x] : x \in 0..1}
    \union {[c EXCEPT !.answers.load_balancer = {[trusted_proxies |-> {}]}]}
    \union {[c EXCEPT !.snapshot.domain_joined = FALSE]}
    \union {[c EXCEPT !.dng_version_minimum = x] : x \in Version}

EditPlan ==
    /\ phase = "idle" /\ planFile.is = "whole" /\ edits < MaxEdits
    /\ edits' = edits + 1
    /\ \E c \in Edit(planFile.of) : planFile' = Whole(c)
    /\ edited' = TRUE
    /\ command' = "none" /\ exit' = "none"
    /\ UNCHANGED <<snapFile, savedWith, outDir, phase, memory, commands>>

------------------------------------------------------------------------------
(* validate and generate *)

Load(c) ==
    /\ Starts(c)
    /\ UNCHANGED <<files, outDir, snap, at>>
    /\ flags' \in SUBSET Flag
    /\ IF planFile.is = "whole" /\ Loadable(planFile.of)
       THEN cfg' = planFile.of /\ phase' = "loaded" /\ UNCHANGED exit
       ELSE /\ UNCHANGED cfg /\ phase' = "idle"
            /\ exit' = IF planFile.is = "absent" THEN "usage" ELSE "error"

Vet(c) ==
    /\ command = c /\ phase = "loaded"
    /\ UNCHANGED <<files, outDir, snap, cfg, flags>>

VetValidate ==
    /\ Vet("validate") /\ UNCHANGED at
    /\ Ends(IF Raises(cfg) THEN "error"
            ELSE IF ValidatePlan(cfg, flags) = {} THEN "ok" ELSE "stopped")

\* Mutant: generate prints the hard stops and goes on.
VetGenerateWarns ==
    /\ Vet("generate") /\ at' = 1
    /\ IF Raises(cfg) THEN Ends("error") ELSE Goes("vetted")

\* Every artifact is rendered before the first is written.
VetGenerate ==
    /\ Vet("generate") /\ at' = 1
    /\ IF Raises(cfg) THEN Ends("error")
       ELSE IF ValidatePlan(cfg, flags) = {} THEN Goes("vetted") ELSE Ends("stopped")

OpenArtifact ==
    /\ command = "generate" /\ phase = "vetted"
    /\ Goes("writing")
    /\ art' = [art EXCEPT ![Artifacts[at]] = Torn]
    /\ broken' = TRUE
    /\ UNCHANGED <<files, mode, memory>>

CloseArtifact ==
    /\ command = "generate" /\ phase = "writing"
    /\ Goes("closed")
    /\ art' = [art EXCEPT ![Artifacts[at]] = Whole([config |-> cfg, flags |-> flags])]
    /\ UNCHANGED <<files, mode, broken, memory>>

\* Mutant: scripts stay as write_text made them.
NextArtifactNoChmod ==
    /\ command = "generate" /\ phase = "closed"
    /\ UNCHANGED mode
    /\ IF at = Len(Artifacts)
       THEN Ends("ok") /\ broken' = FALSE /\ UNCHANGED at
       ELSE Goes("vetted") /\ at' = at + 1 /\ UNCHANGED broken
    /\ UNCHANGED <<files, art, snap, cfg, flags>>

\* Mutant: the loop runs past the last artifact.
NextArtifactPast ==
    /\ command = "generate" /\ phase = "closed"
    /\ mode' = mode \union ({Artifacts[at]} \intersect Scripts)
    /\ Goes("vetted") /\ at' = at + 1
    /\ UNCHANGED <<files, art, broken, snap, cfg, flags>>

\* chmod of a script, then the next artifact or the end.
NextArtifact ==
    /\ command = "generate" /\ phase = "closed"
    /\ mode' = mode \union ({Artifacts[at]} \intersect Scripts)
    /\ IF at = Len(Artifacts)
       THEN Ends("ok") /\ broken' = FALSE /\ UNCHANGED at
       ELSE Goes("vetted") /\ at' = at + 1 /\ UNCHANGED broken
    /\ UNCHANGED <<files, art, snap, cfg, flags>>

\* Ctrl-C, a kill, a full disk: the command ends where it is.
Killed ==
    /\ phase # "idle"
    /\ Ends("killed")
    /\ UNCHANGED <<files, outDir, memory>>

Terminated == phase = "idle" /\ commands = MaxCommands /\ UNCHANGED vars

Next ==
    \/ Inspect \/ OpenSnapshot \/ CloseSnapshot
    \/ Plan \/ Interview \/ VetPlan \/ OpenPlan \/ ClosePlan
    \/ EditPlan
    \/ Load("validate") \/ VetValidate
    \/ Load("generate") \/ VetGenerate \/ OpenArtifact \/ CloseArtifact \/ NextArtifact
    \/ Killed
    \/ Terminated

Spec == Init /\ [][Next]_vars

------------------------------------------------------------------------------
TypeOK ==
    /\ IsFile(snapFile, Snapshot) /\ IsFile(planFile, DngConfig)
    /\ savedWith \in SUBSET Flag /\ edited \in BOOLEAN
    /\ art = [n \in Name |-> art[n]] /\ \A n \in Name : IsFile(art[n], Content)
    /\ mode \in SUBSET Scripts /\ broken \in BOOLEAN
    /\ command \in {"none", "inspect", "plan", "validate", "generate"}
    /\ phase \in Phase /\ exit \in Exit
    /\ snap \in Snapshot /\ cfg \in DngConfig /\ flags \in SUBSET Flag
    /\ at \in DOMAIN Artifacts
    /\ commands \in 0..MaxCommands /\ edits \in 0..MaxEdits

\* Whatever the operator did to the plan before, an artifact on disk was made of
\* a configuration that breaks no BLOCK rule, and breaks another rule only if
\* its own flag was given to that very generate (cli.py:192-195).
ArtifactsVetted ==
    \A n \in Name : art[n].is = "whole" =>
        LET c == art[n].of IN
        \A r \in Violations(c.config) : r \in OverridableRule /\ OverrideFlag[r] \in c.flags

\* Unless a generate is running or was cut short, the output directory is empty
\* or holds all artifacts of one configuration, its scripts executable
\* (generate_all renders everything before it writes).
AllOrNothing ==
    ~broken =>
        \/ \A n \in Name : art[n] = Absent
        \/ /\ \A n \in Name : art[n].is = "whole"
           /\ \A m, n \in Name : art[m].of = art[n].of
           /\ mode = Scripts

\* A plan that was saved and not edited since always loads, carries the derived
\* fields of its answers, and passes the rules with the flags it was saved with
\* (plan_cmd stops before it writes).
SavedPlanPasses ==
    planFile.is = "whole" /\ ~edited =>
        LET c == planFile.of IN
        /\ Loadable(c) /\ ~Raises(c) /\ Coherent(c.answers)
        /\ c = BuildConfig(c.snapshot, c.answers)
        /\ ValidatePlan(c, savedWith) = {}

\* The commands keep the promise of Delivery.  A plan is opened only for a
\* configuration that passes, and becomes that configuration or stays cut off.  A
\* delivery is under way from the moment generate's rules have passed: it is of the
\* plan then on file, which nothing replaces until it ends, and it never counts as
\* complete before every artifact is of it, whatever was interrupted before.  No other
\* step writes either: a refusal and validate leave what was there
\* (cli.py:78-85, cli.py:127-135, cli.py:192-195, generate_all).
Held == [config |-> cfg, flags |-> flags]
Generating == command = "generate" /\ phase \in {"vetted", "writing", "closed"}
Passing ==
    {x \in [config : DngConfig, flags : SUBSET Flag] :
        Loadable(x.config) /\ ~Raises(x.config) /\ ValidatePlan(x.config, x.flags) = {}}
Save == IF command = "plan" /\ phase = "opened" THEN {Held} ELSE {}
Job == IF Generating THEN {Held} ELSE {}
Finished == IF broken THEN {} ELSE {art[n].of : n \in {m \in Name : art[m].is = "whole"}}
Commands == INSTANCE Delivery WITH
    plan <- planFile, saving <- Save, job <- Job, delivered <- Finished, Accepted <- Passing
ImplementsDelivery == Commands!Spec

\* MVP_BUILD_PLAN.md:261: the public hostname must resolve.  The rule looks at
\* the records of the hostname that was inspected (hard_stops.py:171).
PublicHostnameLookedUp ==
    \A n \in Name : art[n].is = "whole" =>
        art[n].of.config.answers.public_hostname = art[n].of.config.snapshot.hostname_planned

\* config.py:37-38: requires_extra_dns_container is true for the RDP/SMB variant.
DerivedFieldTrue ==
    \A n \in Name : art[n].is = "whole" =>
        LET c == art[n].of.config IN
        c.requires_extra_dns_container <=> c.answers.deployment_scope = "web_ssh_rdp_smb"
=============================================================================
