--------------------------- MODULE PipelineProofs ---------------------------
(***************************************************************************)
(* What the files of the commands are worth, for any snapshots, answers    *)
(* and list of artifacts and any number of commands, edits and kills.      *)
(***************************************************************************)
EXTENDS Pipeline, TLAPS

\* validate_plan lets a configuration through only if every rule it breaks can
\* be overridden and its own flag was given (hard_stops.py:196-215).
LEMMA OnlyOverridden ==
    ASSUME NEW c, NEW overrides, ValidatePlan(c, overrides) = {}
    PROVE  \A r \in Violations(c) : r \in OverridableRule /\ OverrideFlag[r] \in overrides
BY DEF ValidatePlan

\* The directory holds files, and generate walks the list of artifacts.
DirOK ==
    /\ art = [n \in Name |-> art[n]]
    /\ at \in DOMAIN Artifacts

\* The artifacts are numbered from 1, and each of them is a file of the directory.
LEMMA ArtifactNames ==
    /\ Len(Artifacts) \in Nat \ {0}
    /\ DOMAIN Artifacts = 1..Len(Artifacts)
    /\ \A i \in DOMAIN Artifacts : Artifacts[i] \in Name
BY ArtifactsAssumption DEF Name

\* Commands that leave the output directory alone.
Elsewhere ==
    \/ Inspect \/ OpenSnapshot \/ CloseSnapshot
    \/ Plan \/ Interview \/ VetPlan \/ OpenPlan \/ ClosePlan
    \/ EditPlan \/ Load("validate") \/ VetValidate \/ Load("generate") \/ Killed

\* inspect, plan, validate, the editor and a kill do not touch the directory.
LEMMA ElsewhereLeaves == Elsewhere => UNCHANGED <<art, mode, broken, at>>
BY DEF Elsewhere, Inspect, OpenSnapshot, CloseSnapshot, Plan, Interview, VetPlan, OpenPlan,
       ClosePlan, EditPlan, Load, VetValidate, Vet, Killed, Starts, Ends, Goes, outDir, memory

\* After any of these steps no generate is past its rules.
LEMMA ElsewhereNotGenerating == Elsewhere => ~Generating'
BY DEF Elsewhere, Inspect, OpenSnapshot, CloseSnapshot, Plan, Interview, VetPlan, OpenPlan,
       ClosePlan, EditPlan, Load, VetValidate, Vet, Killed, Starts, Ends, Goes, Generating

\* A step is one of these or one of the four of generate.
LEMMA NextCases ==
    [Next]_vars =>
        \/ Elsewhere \/ VetGenerate \/ OpenArtifact \/ CloseArtifact \/ NextArtifact
        \/ UNCHANGED vars
BY DEF Next, Elsewhere, Terminated

\* generate_all replaces files of the directory and stays within its list.
LEMMA PlaceStep == DirOK /\ [Next]_vars => DirOK'
<1> SUFFICES ASSUME DirOK, [Next]_vars PROVE DirOK'
  OBVIOUS
<1> USE DEF DirOK
<1>1. CASE Elsewhere
  BY <1>1, ElsewhereLeaves
<1>2. CASE VetGenerate
  BY <1>2, ArtifactNames DEF VetGenerate, Vet, outDir
<1>3. CASE OpenArtifact
  BY <1>3 DEF OpenArtifact, memory
<1>4. CASE CloseArtifact
  BY <1>4 DEF CloseArtifact, memory
<1>5. CASE NextArtifact
  BY <1>5, ArtifactNames DEF NextArtifact
<1>6. CASE UNCHANGED vars
  BY <1>6 DEF vars, outDir, memory
<1> QED BY <1>1, <1>2, <1>3, <1>4, <1>5, <1>6, NextCases

\* The directory and the place of generate_all in its list keep their types.
LEMMA DirCorrect == Spec => []DirOK
<1>1. Init => DirOK
  BY ArtifactNames DEF Init, DirOK
<1> QED BY <1>1, PlaceStep, PTL DEF Spec

------------------------------------------------------------------------------
\* What a file holds after a write, and what it may be read as.
LEMMA FileTypes ==
    ASSUME NEW S
    PROVE  /\ IsFile(Absent, S) /\ IsFile(Torn, S)
           /\ \A x \in S : IsFile(Whole(x), S)
           /\ \A f : IsFile(f, S) /\ f.is = "whole" => f = Whole(f.of) /\ f.of \in S
BY DEF IsFile, Absent, Torn, Whole

\* build_config makes a DngConfig of any snapshot and answers.
LEMMA BuildTypes ==
    ASSUME NEW s \in Snapshot, NEW a \in Answers
    PROVE  BuildConfig(s, a) \in DngConfig
<1>1. (a.deployment_scope = "web_ssh_rdp_smb") \in BOOLEAN
  OBVIOUS
<1> QED BY <1>1, FloorAssumption DEF BuildConfig, DngConfig

\* What the editor leaves is a DngConfig, though not always one that loads.
LEMMA EditTypes ==
    ASSUME NEW c \in DngConfig, NEW d \in Edit(c)
    PROVE  d \in DngConfig
<1>1. c.answers \in Answers /\ c.snapshot \in Snapshot
  BY DEF DngConfig
<1>2. ASSUME NEW a \in Answers, d = [c EXCEPT !.answers = a] PROVE d \in DngConfig
  BY <1>2 DEF DngConfig
<1>3. CASE \E x \in Scope : d = [c EXCEPT !.answers.deployment_scope = x]
  <2>1. PICK x \in Scope : d = [c EXCEPT !.answers = [c.answers EXCEPT !.deployment_scope = x]]
    BY <1>3
  <2>2. [c.answers EXCEPT !.deployment_scope = x] \in Answers
    BY <1>1 DEF Answers
  <2> QED BY <1>2, <2>1, <2>2
<1>4. CASE \E x \in BOOLEAN : d = [c EXCEPT !.answers.wildcard_cert = x]
  <2>1. PICK x \in BOOLEAN : d = [c EXCEPT !.answers = [c.answers EXCEPT !.wildcard_cert = x]]
    BY <1>4
  <2>2. [c.answers EXCEPT !.wildcard_cert = x] \in Answers
    BY <1>1 DEF Answers
  <2> QED BY <1>2, <2>1, <2>2
<1>5. CASE \E x \in Host : d = [c EXCEPT !.answers.public_hostname = x]
  <2>1. PICK x \in Host : d = [c EXCEPT !.answers = [c.answers EXCEPT !.public_hostname = x]]
    BY <1>5
  <2>2. [c.answers EXCEPT !.public_hostname = x] \in Answers
    BY <1>1 DEF Answers
  <2> QED BY <1>2, <2>1, <2>2
<1>6. CASE \E x \in 0..1 : d = [c EXCEPT !.answers.rdp_relays = x]
  <2>1. PICK x \in 0..1 : d = [c EXCEPT !.answers = [c.answers EXCEPT !.rdp_relays = x]]
    BY <1>6
  <2>2. [c.answers EXCEPT !.rdp_relays = x] \in Answers
    BY <1>1 DEF Answers
  <2> QED BY <1>2, <2>1, <2>2
<1>7. CASE d = [c EXCEPT !.answers.load_balancer = {[trusted_proxies |-> {}]}]
  <2>1. {[trusted_proxies |-> {}]} \in Optional([trusted_proxies : SUBSET Addr])
    <3>1. [trusted_proxies |-> {}] \in [trusted_proxies : SUBSET Addr]
      OBVIOUS
    <3> QED BY <3>1 DEF Optional
  <2>2. [c.answers EXCEPT !.load_balancer = {[trusted_proxies |-> {}]}] \in Answers
    BY <1>1, <2>1 DEF Answers
  <2> QED BY <1>2, <1>7, <2>2
<1>8. CASE d = [c EXCEPT !.snapshot.domain_joined = FALSE]
  <2>1. [c.snapshot EXCEPT !.domain_joined = FALSE] \in Snapshot
    BY <1>1 DEF Snapshot
  <2> QED BY <1>8, <2>1 DEF DngConfig
<1>9. CASE \E x \in Version : d = [c EXCEPT !.dng_version_minimum = x]
  BY <1>9 DEF DngConfig
<1> QED BY <1>3, <1>4, <1>5, <1>6, <1>7, <1>8, <1>9 DEF Edit

\* The types of the files, of what a command holds, and of where it is.
FilesOK ==
    /\ IsFile(snapFile, Snapshot) /\ IsFile(planFile, DngConfig)
    /\ savedWith \in SUBSET Flag /\ edited \in BOOLEAN
OutOK ==
    /\ art = [n \in Name |-> art[n]] /\ \A n \in Name : IsFile(art[n], Content)
    /\ mode \in SUBSET Scripts /\ broken \in BOOLEAN
HeldOK == snap \in Snapshot /\ cfg \in DngConfig /\ flags \in SUBSET Flag
StageOK ==
    /\ command \in {"none", "inspect", "plan", "validate", "generate"}
    /\ phase \in Phase /\ exit \in Exit
    /\ commands \in 0..MaxCommands /\ edits \in 0..MaxEdits

\* Every file is absent, cut off or holds what its reader expects.
LEMMA FilesStep == FilesOK /\ HeldOK /\ [Next]_vars => FilesOK'
<1> SUFFICES ASSUME FilesOK, HeldOK, [Next]_vars PROVE FilesOK'
  OBVIOUS
<1> USE FileTypes DEF FilesOK, HeldOK
<1>1. CASE OpenSnapshot
  BY <1>1 DEF OpenSnapshot
<1>2. CASE CloseSnapshot
  BY <1>2 DEF CloseSnapshot
<1>3. CASE OpenPlan
  BY <1>3 DEF OpenPlan
<1>4. CASE ClosePlan
  BY <1>4 DEF ClosePlan
<1>5. CASE EditPlan
  <2>1. planFile.of \in DngConfig
    BY <1>5 DEF EditPlan
  <2> QED BY <1>5, <2>1, EditTypes DEF EditPlan
<1>6. CASE UNCHANGED files
  BY <1>6 DEF files
<1>7. CASE Inspect \/ Plan \/ Interview \/ VetPlan
  BY <1>6, <1>7 DEF Inspect, Plan, Interview, VetPlan
<1>8. CASE Load("validate") \/ Load("generate") \/ VetValidate \/ VetGenerate
  BY <1>6, <1>8 DEF Load, VetValidate, VetGenerate, Vet
<1>9. CASE OpenArtifact \/ CloseArtifact \/ NextArtifact \/ Killed \/ UNCHANGED vars
  BY <1>6, <1>9 DEF OpenArtifact, CloseArtifact, NextArtifact, Killed, vars
<1> QED BY <1>1, <1>2, <1>3, <1>4, <1>5, <1>7, <1>8, <1>9 DEF Next, Terminated

\* A command holds what it observed, read or built.
LEMMA HeldStep == FilesOK /\ HeldOK /\ [Next]_vars => HeldOK'
<1> SUFFICES ASSUME FilesOK, HeldOK, [Next]_vars PROVE HeldOK'
  OBVIOUS
<1> USE DEF FilesOK, HeldOK
<1>1. CASE Inspect
  BY <1>1, ObservedAssumption DEF Inspect
<1>2. CASE Plan
  <2>1. snapFile.is = "whole" => snapFile.of \in Snapshot
    BY FileTypes
  <2> QED BY <1>2, <2>1, ObservedAssumption DEF Plan
<1>3. CASE Interview
  <2>1. \A a \in Given : BuildConfig(snap, a) \in DngConfig
    BY BuildTypes, GivenAssumption
  <2> QED BY <1>3, <2>1 DEF Interview
<1>4. CASE Load("validate") \/ Load("generate")
  <2>1. planFile.is = "whole" => planFile.of \in DngConfig
    BY FileTypes
  <2>2. UNCHANGED snap /\ flags' \in SUBSET Flag /\ cfg' \in {cfg, planFile.of}
        /\ (planFile.is # "whole" => UNCHANGED cfg)
    BY <1>4 DEF Load
  <2> QED BY <2>1, <2>2
<1>5. CASE OpenSnapshot \/ CloseSnapshot \/ VetPlan \/ OpenPlan \/ ClosePlan \/ EditPlan
  BY <1>5 DEF OpenSnapshot, CloseSnapshot, VetPlan, OpenPlan, ClosePlan, EditPlan, memory
<1>6. CASE VetValidate \/ VetGenerate \/ OpenArtifact \/ CloseArtifact \/ NextArtifact
  BY <1>6 DEF VetValidate, VetGenerate, Vet, OpenArtifact, CloseArtifact, NextArtifact, memory
<1>7. CASE Killed \/ UNCHANGED vars
  BY <1>7 DEF Killed, vars, memory
<1> QED BY <1>1, <1>2, <1>3, <1>4, <1>5, <1>6, <1>7 DEF Next, Terminated

\* An artifact is cut off or holds a configuration and the flags it was vetted with.
LEMMA OutStep == OutOK /\ HeldOK /\ [Next]_vars => OutOK'
<1> SUFFICES ASSUME OutOK, HeldOK, [Next]_vars PROVE OutOK'
  OBVIOUS
<1> USE FileTypes DEF OutOK, HeldOK
<1>1. CASE Elsewhere
  BY <1>1, ElsewhereLeaves
<1>2. CASE VetGenerate
  BY <1>2 DEF VetGenerate, Vet, outDir
<1>3. CASE OpenArtifact
  BY <1>3 DEF OpenArtifact
<1>4. CASE CloseArtifact
  <2>1. [config |-> cfg, flags |-> flags] \in Content
    BY DEF Content
  <2> QED BY <1>4, <2>1 DEF CloseArtifact
<1>5. CASE NextArtifact
  BY <1>5 DEF NextArtifact
<1>6. CASE UNCHANGED vars
  BY <1>6 DEF vars, outDir
<1> QED BY <1>1, <1>2, <1>3, <1>4, <1>5, <1>6, NextCases

\* One command at a time, in one of its phases.
LEMMA StageStep == StageOK /\ [Next]_vars => StageOK'
<1> SUFFICES ASSUME StageOK, [Next]_vars PROVE StageOK'
  OBVIOUS
<1> USE BoundAssumption DEF StageOK, Phase, Exit
<1>1. CASE Inspect \/ Plan \/ Load("validate") \/ Load("generate")
  BY <1>1 DEF Inspect, Plan, Load, Starts
<1>2. CASE OpenSnapshot \/ CloseSnapshot \/ Interview \/ VetPlan
  BY <1>2 DEF OpenSnapshot, CloseSnapshot, Interview, VetPlan, Goes, Ends
<1>3. CASE OpenPlan \/ ClosePlan \/ VetValidate \/ VetGenerate
  BY <1>3 DEF OpenPlan, ClosePlan, VetValidate, VetGenerate, Goes, Ends
<1>4. CASE EditPlan
  BY <1>4 DEF EditPlan
<1>5. CASE OpenArtifact \/ CloseArtifact \/ NextArtifact \/ Killed
  BY <1>5 DEF OpenArtifact, CloseArtifact, NextArtifact, Killed, Goes, Ends
<1>6. CASE UNCHANGED vars
  BY <1>6 DEF vars
<1> QED BY <1>1, <1>2, <1>3, <1>4, <1>5, <1>6 DEF Next, Terminated

\* Whatever the operator edits and wherever commands are cut short, each file is
\* absent, cut off or of its type, and a command holds what its code expects.
THEOREM TypeCorrect == Spec => []TypeOK
<1>1. Init => FilesOK /\ OutOK /\ HeldOK /\ StageOK
  <2> SUFFICES ASSUME Init PROVE FilesOK /\ OutOK /\ HeldOK /\ StageOK
    OBVIOUS
  <2>1. snap \in Snapshot
    BY ObservedAssumption DEF Init
  <2>2. cfg \in DngConfig
    BY <2>1, BuildTypes, GivenAssumption DEF Init
  <2>3. FilesOK
    BY FileTypes DEF Init, FilesOK
  <2>4. OutOK
    BY FileTypes DEF Init, OutOK
  <2>5. HeldOK
    BY <2>1, <2>2 DEF Init, HeldOK
  <2>6. StageOK
    BY BoundAssumption DEF Init, StageOK, Phase, Exit
  <2> QED BY <2>3, <2>4, <2>5, <2>6
<1>2. FilesOK /\ OutOK /\ HeldOK /\ StageOK /\ DirOK => TypeOK
  BY DEF FilesOK, OutOK, HeldOK, StageOK, DirOK, TypeOK
<1> QED BY <1>1, <1>2, FilesStep, OutStep, HeldStep, StageStep, DirCorrect, PTL DEF Spec

------------------------------------------------------------------------------
\* generate writes only while the configuration it holds is vetted.
VetInv ==
    /\ ArtifactsVetted
    /\ Generating => ValidatePlan(cfg, flags) = {} /\ ~Raises(cfg)

\* generate_all writes the configuration the rules have just let through, and
\* nothing else writes an artifact.
LEMMA VetStep == DirOK /\ VetInv /\ [Next]_vars => VetInv'
<1> SUFFICES ASSUME DirOK, VetInv, [Next]_vars PROVE VetInv'
  OBVIOUS
<1> USE DEF DirOK, VetInv, ArtifactsVetted
<1>1. CASE Elsewhere
  BY <1>1, ElsewhereLeaves, ElsewhereNotGenerating
<1>2. CASE VetGenerate
  <2>1. UNCHANGED <<art, cfg, flags>>
    BY <1>2 DEF VetGenerate, Vet, outDir
  <2>2. Generating' => ValidatePlan(cfg, flags) = {} /\ ~Raises(cfg)
    BY <1>2 DEF VetGenerate, Generating, Ends, Goes
  <2> QED BY <2>1, <2>2
<1>3. CASE OpenArtifact
  <2>1. \A n \in Name : art'[n].is = "whole" => art'[n] = art[n]
    BY <1>3 DEF OpenArtifact, Torn
  <2>2. UNCHANGED <<cfg, flags>> /\ Generating
    BY <1>3 DEF OpenArtifact, memory, Generating
  <2> QED BY <2>1, <2>2
<1>4. CASE CloseArtifact
  <2>1. UNCHANGED <<cfg, flags>> /\ Generating
    BY <1>4 DEF CloseArtifact, memory, Generating
  <2>2. \A n \in Name : art'[n] = art[n] \/ art'[n] = Whole([config |-> cfg, flags |-> flags])
    BY <1>4 DEF CloseArtifact
  <2>3. \A r \in Violations(cfg) : r \in OverridableRule /\ OverrideFlag[r] \in flags
    BY <2>1, OnlyOverridden
  <2> QED BY <2>1, <2>2, <2>3 DEF Whole
<1>5. CASE NextArtifact
  BY <1>5 DEF NextArtifact, Generating, Ends, Goes
<1>6. CASE UNCHANGED vars
  BY <1>6 DEF vars, outDir, memory, Generating
<1> QED BY <1>1, <1>2, <1>3, <1>4, <1>5, <1>6, NextCases

\* No artifact is ever made of a configuration that breaks a BLOCK rule, or that
\* breaks another rule whose flag that generate was not given, however the plan
\* was edited and wherever commands were cut short (cli.py:192-195).
THEOREM Vetted == Spec => []ArtifactsVetted
<1>1. Init => VetInv
  BY DEF Init, VetInv, ArtifactsVetted, Absent, Generating
<1>2. VetInv => ArtifactsVetted
  BY DEF VetInv
<1> QED BY <1>1, <1>2, VetStep, DirCorrect, PTL DEF Spec

------------------------------------------------------------------------------
\* Before its turn the artifacts of a running generate are all from its own
\* configuration, and the directory counts as broken from the first write on.
Made(n) == art[n] = Whole([config |-> cfg, flags |-> flags]) /\ (n \in Scripts => n \in mode)
DirInv ==
    /\ AllOrNothing
    /\ mode \subseteq Scripts
    /\ Generating =>
          /\ \A i \in 1..at - 1 : Made(Artifacts[i])
          /\ phase # "vetted" \/ at > 1 => broken
          /\ phase = "closed" =>
                art[Artifacts[at]] = Whole([config |-> cfg, flags |-> flags])

\* generate_all adds one whole artifact after the other and counts as broken until
\* it has written the last (generators/__init__.py:48-54).
LEMMA DirStep == DirOK /\ DirInv /\ [Next]_vars => DirInv'
<1> SUFFICES ASSUME DirOK, DirInv, [Next]_vars PROVE DirInv'
  OBVIOUS
<1> USE ArtifactNames DEF DirOK, DirInv, AllOrNothing, Made
<1>1. CASE Elsewhere
  BY <1>1, ElsewhereLeaves, ElsewhereNotGenerating
<1>2. CASE VetGenerate
  <2>1. at' = 1 /\ UNCHANGED <<art, mode, broken>> /\ phase' \in {"vetted", "idle"}
    BY <1>2 DEF VetGenerate, Vet, outDir, Ends, Goes
  <2> QED BY <2>1 DEF Generating
<1>3. CASE OpenArtifact
  <2>1. UNCHANGED <<mode, cfg, flags, at>> /\ broken' /\ phase' = "writing" /\ Generating
    BY <1>3 DEF OpenArtifact, memory, Goes, Generating
  <2>2. \A i \in 1..at - 1 : art'[Artifacts[i]] = art[Artifacts[i]]
    BY <1>3, ArtifactsAssumption DEF OpenArtifact
  <2> QED BY <2>1, <2>2
<1>4. CASE CloseArtifact
  <2>1. UNCHANGED <<mode, cfg, flags, at, broken>> /\ broken /\ phase' = "closed" /\ Generating
    BY <1>4 DEF CloseArtifact, memory, Goes, Generating
  <2>2. \A i \in 1..at - 1 : art'[Artifacts[i]] = art[Artifacts[i]]
    BY <1>4, ArtifactsAssumption DEF CloseArtifact
  <2>3. art'[Artifacts[at]] = Whole([config |-> cfg, flags |-> flags])
    BY <1>4 DEF CloseArtifact
  <2> QED BY <2>1, <2>2, <2>3
<1>5. CASE NextArtifact
  <2>1. UNCHANGED <<art, cfg, flags>> /\ Generating /\ phase = "closed" /\ broken
    BY <1>5 DEF NextArtifact, Generating
  <2>2. \A i \in 1..at : Made(Artifacts[i])'
    BY <1>5, <2>1 DEF NextArtifact
  <2>3. mode' \subseteq Scripts
    BY <1>5 DEF NextArtifact
  <2>4. CASE at = Len(Artifacts)
    <3>1. \A n \in Name : Made(n)'
      BY <2>2, <2>4 DEF Name
    <3>2. mode' = Scripts
      BY <2>3, <3>1, ArtifactsAssumption
    <3>3. phase' = "idle"
      BY <1>5, <2>4 DEF NextArtifact, Ends
    <3> QED BY <2>1, <2>3, <3>1, <3>2, <3>3 DEF Generating, Whole
  <2>5. CASE at # Len(Artifacts)
    <3>1. at' = at + 1 /\ broken' = broken /\ phase' = "vetted"
      BY <1>5, <2>5 DEF NextArtifact, Goes
    <3> QED BY <2>1, <2>2, <2>3, <3>1
  <2> QED BY <2>4, <2>5
<1>6. CASE UNCHANGED vars
  BY <1>6 DEF vars, outDir, memory, Generating
<1> QED BY <1>1, <1>2, <1>3, <1>4, <1>5, <1>6, NextCases

\* Outside an unfinished generate the output directory is empty or a complete
\* set of one configuration with its scripts executable (generate_all).
THEOREM WholeDirectory == Spec => []AllOrNothing
<1>1. Init => DirInv
  BY DEF Init, DirInv, AllOrNothing, Generating
<1>2. DirInv => AllOrNothing
  BY DEF DirInv
<1> QED BY <1>1, <1>2, DirStep, DirCorrect, PTL DEF Spec

------------------------------------------------------------------------------
\* From the interview to the write, plan holds what build_config made of coherent
\* answers, and from the rules on something they let through.
Built(c) == c = BuildConfig(c.snapshot, c.answers) /\ Coherent(c.answers)
SaveInv ==
    /\ SavedPlanPasses
    /\ command = "plan" /\ phase \in {"assembled", "vetted", "opened"} => Built(cfg)
    /\ command = "plan" /\ phase \in {"vetted", "opened"} => ValidatePlan(cfg, flags) = {}

\* A configuration built of coherent answers loads, and its version is a number.
LEMMA BuiltLoads ==
    ASSUME NEW c, Built(c)
    PROVE  Loadable(c) /\ ~Raises(c)
BY DEF Built, Coherent, Loadable, Raises, BuildConfig, DNG_MIN_VERSION

\* plan writes what build_config made once the rules let it through; only the
\* editor changes the file afterwards, and says so.
LEMMA SaveStep == SaveInv /\ [Next]_vars => SaveInv'
<1> SUFFICES ASSUME SaveInv, [Next]_vars PROVE SaveInv'
  OBVIOUS
<1> USE DEF SaveInv
<1>1. CASE Inspect \/ Plan \/ Load("validate") \/ Load("generate")
  <2>1. UNCHANGED files /\ ~(command' = "plan" /\ phase' \in {"assembled", "vetted", "opened"})
    BY <1>1 DEF Inspect, Plan, Load, Starts
  <2> QED BY <2>1 DEF files, SavedPlanPasses
<1>2. CASE OpenSnapshot \/ CloseSnapshot
  BY <1>2 DEF OpenSnapshot, CloseSnapshot, Goes, Ends, SavedPlanPasses
<1>3. CASE Interview
  <2>1. phase' = "assembled" => Built(cfg')
    BY <1>3, GivenAssumption DEF Interview, Goes, Ends, Built, BuildConfig
  <2>2. UNCHANGED files /\ phase' \notin {"vetted", "opened"}
    BY <1>3 DEF Interview, Goes, Ends
  <2>3. phase' = "idle" \/ phase' = "assembled"
    BY <1>3 DEF Interview, Goes, Ends
  <2> QED BY <2>1, <2>2, <2>3 DEF files, SavedPlanPasses
<1>4. CASE VetPlan
  BY <1>4 DEF VetPlan, files, memory, Goes, Ends, SavedPlanPasses
<1>5. CASE OpenPlan
  BY <1>5 DEF OpenPlan, memory, Goes, SavedPlanPasses, Torn
<1>6. CASE ClosePlan
  <2>1. Built(cfg) /\ ValidatePlan(cfg, flags) = {}
    BY <1>6 DEF ClosePlan
  <2>2. Loadable(cfg) /\ ~Raises(cfg)
    BY <2>1, BuiltLoads
  <2>3. planFile' = Whole(cfg) /\ savedWith' = flags /\ phase' = "idle"
    BY <1>6 DEF ClosePlan, Ends
  <2> QED BY <2>1, <2>2, <2>3 DEF SavedPlanPasses, Whole, Built
<1>7. CASE EditPlan
  BY <1>7 DEF EditPlan, SavedPlanPasses
<1>8. CASE VetValidate \/ VetGenerate
  BY <1>8 DEF VetValidate, VetGenerate, Vet, files, Goes, Ends, SavedPlanPasses
<1>9. CASE OpenArtifact \/ CloseArtifact \/ NextArtifact
  BY <1>9 DEF OpenArtifact, CloseArtifact, NextArtifact, files, Goes, Ends, SavedPlanPasses
<1>10. CASE Killed
  BY <1>10 DEF Killed, files, Ends, SavedPlanPasses
<1>11. CASE UNCHANGED vars
  BY <1>11 DEF vars, files, memory, SavedPlanPasses
<1> QED BY <1>1, <1>2, <1>3, <1>4, <1>5, <1>6, <1>7, <1>8, <1>9, <1>10, <1>11
        DEF Next, Terminated

\* A saved plan nobody edited loads and passes the rules with the flags it was
\* saved with, so generate refuses no plan that plan accepted (cli.py:127-136).
THEOREM SavedPasses == Spec => []SavedPlanPasses
<1>1. Init => SaveInv
  BY DEF Init, SaveInv, SavedPlanPasses, Absent
<1>2. SaveInv => SavedPlanPasses
  BY DEF SaveInv
<1> QED BY <1>1, <1>2, SaveStep, PTL DEF Spec

\* A plan or an artifact is touched by nothing but the editor and by a plan or
\* generate whose configuration no rule stops: a refusal, and validate, leave
\* what was there (cli.py:78-85).
RefusalWritesNothing ==
    [][/\ planFile' # planFile => phase = "idle" \/ ValidatePlan(cfg, flags) = {}
       /\ <<art, mode>>' # <<art, mode>> =>
             command = "generate" /\ ~Raises(cfg) /\ ValidatePlan(cfg, flags) = {}]_vars

\* No hard stop, no failed load and no validate changes a plan or an artifact
\* (cli.py:78-85).
THEOREM Refusing == Spec => RefusalWritesNothing
<1> DEFINE Refusal ==
      /\ planFile' # planFile => phase = "idle" \/ ValidatePlan(cfg, flags) = {}
      /\ <<art, mode>>' # <<art, mode>> =>
            command = "generate" /\ ~Raises(cfg) /\ ValidatePlan(cfg, flags) = {}
<1>1. SaveInv /\ VetInv /\ [Next]_vars => [Refusal]_vars
  <2> SUFFICES ASSUME SaveInv, VetInv, [Next]_vars PROVE [Refusal]_vars
    OBVIOUS
  <2>1. CASE OpenPlan \/ ClosePlan
    BY <2>1 DEF OpenPlan, ClosePlan, SaveInv, outDir
  <2>2. CASE OpenArtifact \/ CloseArtifact \/ NextArtifact
    BY <2>2 DEF OpenArtifact, CloseArtifact, NextArtifact, VetInv, Generating, files
  <2>3. CASE EditPlan
    BY <2>3 DEF EditPlan, outDir
  <2>4. CASE Inspect \/ OpenSnapshot \/ CloseSnapshot \/ Plan \/ Interview \/ VetPlan
    BY <2>4 DEF Inspect, OpenSnapshot, CloseSnapshot, Plan, Interview, VetPlan, files, outDir
  <2>5. CASE Load("validate") \/ VetValidate \/ Load("generate") \/ VetGenerate \/ Killed
    BY <2>5 DEF Load, VetValidate, VetGenerate, Vet, Killed, files, outDir
  <2>6. CASE UNCHANGED vars
    BY <2>6
  <2> QED BY <2>1, <2>2, <2>3, <2>4, <2>5, <2>6 DEF Next, Terminated
<1>2. Init => SaveInv
  BY DEF Init, SaveInv, SavedPlanPasses, Absent
<1>3. Init => VetInv
  BY DEF Init, VetInv, ArtifactsVetted, Absent, Generating
<1> QED BY <1>1, <1>2, <1>3, SaveStep, VetStep, DirCorrect, PTL DEF Spec, RefusalWritesNothing
------------------------------------------------------------------------------
\* What a command finds where it goes on: the plan it loaded is still the one on
\* file, and the file it has opened is the one it empties and fills.
FoundInv ==
    /\ phase = "loaded" => planFile = Whole(cfg) /\ Loadable(cfg)
    /\ command = "plan" /\ phase = "opened" => planFile = Torn
    /\ command = "generate" /\ phase = "writing" => art[Artifacts[at]] = Torn

\* One command runs at a time, and the editor only between two.
LEMMA FoundStep == DirOK /\ FilesOK /\ FoundInv /\ [Next]_vars => FoundInv'
<1> SUFFICES ASSUME DirOK, FilesOK, FoundInv, [Next]_vars PROVE FoundInv'
  OBVIOUS
<1> USE DEF FoundInv
<1>1. CASE Inspect \/ Plan
  BY <1>1 DEF Inspect, Plan, Starts
<1>2. CASE Load("validate") \/ Load("generate")
  <2>1. phase' = "loaded" \/ phase' = "idle"
    BY <1>2 DEF Load
  <2>2. ASSUME phase' = "loaded" PROVE planFile' = Whole(cfg') /\ Loadable(cfg')
    <3>1. planFile.is = "whole" /\ cfg' = planFile.of /\ planFile' = planFile /\ Loadable(cfg')
      BY <1>2, <2>2 DEF Load, files
    <3>2. planFile = Whole(planFile.of)
      BY <3>1, FileTypes DEF FilesOK
    <3> QED BY <3>1, <3>2
  <2> QED BY <2>1, <2>2
<1>3. CASE OpenSnapshot \/ CloseSnapshot \/ Interview \/ VetPlan
  BY <1>3 DEF OpenSnapshot, CloseSnapshot, Interview, VetPlan, Goes, Ends
<1>4. CASE OpenPlan \/ ClosePlan \/ EditPlan
  BY <1>4 DEF OpenPlan, ClosePlan, EditPlan, Goes, Ends
<1>5. CASE VetValidate \/ VetGenerate
  BY <1>5 DEF VetValidate, VetGenerate, Vet, Goes, Ends
<1>6. CASE OpenArtifact
  <2>1. art'[Artifacts[at]] = Torn /\ UNCHANGED <<at, command>> /\ phase' = "writing"
    BY <1>6, ArtifactNames DEF OpenArtifact, memory, Goes, DirOK
  <2>2. command = "generate"
    BY <1>6 DEF OpenArtifact
  <2> QED BY <2>1, <2>2
<1>7. CASE CloseArtifact \/ NextArtifact \/ Killed
  BY <1>7 DEF CloseArtifact, NextArtifact, Killed, Goes, Ends
<1>8. CASE UNCHANGED vars
  BY <1>8 DEF vars, files, outDir, memory
<1> QED BY <1>1, <1>2, <1>3, <1>4, <1>5, <1>6, <1>7, <1>8 DEF Next, Terminated

\* Everything a step of Delivery needs to know of the state it starts from.
PipelineInv == DirOK /\ FilesOK /\ HeldOK /\ VetInv /\ DirInv /\ SaveInv /\ FoundInv

LEMMA PipelineInvariant == Spec => []PipelineInv
<1>1. Init => PipelineInv
  <2> SUFFICES ASSUME Init PROVE PipelineInv
    OBVIOUS
  <2>1. snap \in Snapshot
    BY ObservedAssumption DEF Init
  <2>2. HeldOK
    BY <2>1, BuildTypes, GivenAssumption DEF Init, HeldOK
  <2>3. FilesOK
    BY FileTypes DEF Init, FilesOK
  <2>4. DirOK
    BY ArtifactNames DEF Init, DirOK
  <2>5. VetInv
    BY DEF Init, VetInv, ArtifactsVetted, Absent, Generating
  <2>6. DirInv
    BY DEF Init, DirInv, AllOrNothing, Generating
  <2>7. SaveInv
    BY DEF Init, SaveInv, SavedPlanPasses, Absent
  <2>8. FoundInv
    BY DEF Init, FoundInv
  <2> QED BY <2>2, <2>3, <2>4, <2>5, <2>6, <2>7, <2>8 DEF PipelineInv
<1> QED BY <1>1, PlaceStep, FilesStep, HeldStep, VetStep, DirStep, SaveStep, FoundStep, PTL
        DEF Spec, PipelineInv

\* Outside the writing part of plan and generate nothing is under way, and what is
\* finished changes only with the directory.
Working == (command = "plan" /\ phase = "opened") \/ Generating
LEMMA Outside ==
    /\ ~Working => Save = {} /\ Job = {}
    /\ ~Working' => Save' = {} /\ Job' = {}
    /\ UNCHANGED outDir => Finished' = Finished /\ UNCHANGED <<art, mode>>
BY DEF Working, Save, Job, Finished, outDir

\* What a command holds once its rules have passed is something Delivery accepts.
LEMMA HeldPasses ==
    ASSUME HeldOK, Loadable(cfg), ~Raises(cfg), ValidatePlan(cfg, flags) = {}
    PROVE  Held \in Passing /\ Held.config = cfg
BY DEF HeldOK, Held, Passing

\* plan and the editor replace the plan as Delivery lets them.
LEMMA PlanSteps ==
    ASSUME PipelineInv, OpenPlan \/ ClosePlan \/ EditPlan
    PROVE  Commands!Next
<1> USE DEF PipelineInv
<1>1. UNCHANGED outDir /\ ~Generating /\ ~Generating'
  BY DEF OpenPlan, ClosePlan, EditPlan, Generating, Goes, Ends
<1>2. Finished' = Finished /\ UNCHANGED <<art, mode>> /\ Job = {} /\ Job' = {}
  BY <1>1, Outside DEF Job
<1>3. CASE OpenPlan
  <2>1. Save = {} /\ Save' = {Held} /\ planFile' = Torn
    BY <1>3 DEF OpenPlan, Goes, memory, Save, Held
  <2>2. Built(cfg) /\ ValidatePlan(cfg, flags) = {}
    BY <1>3 DEF OpenPlan, SaveInv
  <2>3. Held \in Passing
    BY <2>2, BuiltLoads, HeldPasses
  <2>4. Commands!BeginSave
    BY <1>2, <2>1, <2>3
       DEF Commands!BeginSave, Commands!Idle, Commands!outDir, Commands!Torn, Torn
  <2> QED BY <2>4 DEF Commands!Next
<1>4. CASE ClosePlan
  <2>1. Save = {Held} /\ Save' = {}
    BY <1>4 DEF ClosePlan, Ends, Save
  <2>2. planFile = Torn /\ planFile' = Whole(Held.config)
    BY <1>4 DEF ClosePlan, FoundInv, Held
  <2>3. Commands!EndSave
    BY <1>2, <2>1, <2>2
       DEF Commands!EndSave, Commands!outDir, Commands!Torn, Torn, Commands!Whole, Whole
  <2> QED BY <2>3 DEF Commands!Next
<1>5. CASE EditPlan
  <2>1. planFile.is = "whole" /\ planFile'.is = "whole"
    BY <1>5 DEF EditPlan, Whole
  <2>2. Save = {} /\ Save' = {}
    BY <1>5 DEF EditPlan, Save
  <2>3. Commands!Edit
    BY <1>2, <2>1, <2>2 DEF Commands!Edit, Commands!Idle, Commands!outDir
  <2> QED BY <2>3 DEF Commands!Next
<1> QED BY <1>3, <1>4, <1>5

\* generate begins a delivery of the plan on file once the rules let it through,
\* and none when they do not.
LEMMA BeginStep ==
    ASSUME PipelineInv, VetGenerate
    PROVE  [Commands!Next]_Commands!vars
<1> USE DEF PipelineInv
<1>1. /\ UNCHANGED <<planFile, art, mode, broken, cfg, flags>>
      /\ phase = "loaded" /\ command' = "generate" /\ phase' \in {"vetted", "idle"}
  BY DEF VetGenerate, Vet, files, outDir, Goes, Ends
<1>2. Save = {} /\ Save' = {} /\ Job = {} /\ Finished' = Finished
  BY <1>1 DEF Save, Job, Generating, Finished
<1>3. CASE phase' = "vetted"
  <2>1. ~Raises(cfg) /\ ValidatePlan(cfg, flags) = {}
    BY <1>3 DEF VetGenerate, Ends
  <2>2. Held \in Passing /\ planFile = Whole(Held.config)
    BY <1>1, <2>1, HeldPasses DEF FoundInv
  <2>3. Job' = {Held}
    BY <1>1, <1>3 DEF Job, Generating, Held
  <2>4. Commands!Begin
    BY <1>1, <1>2, <2>2, <2>3
       DEF Commands!Begin, Commands!Idle, Commands!outDir, Commands!Whole, Whole
  <2> QED BY <2>4 DEF Commands!Next
<1>4. CASE phase' = "idle"
  <2>1. Job' = {}
    BY <1>4 DEF Job, Generating
  <2> QED BY <1>1, <1>2, <2>1 DEF Commands!vars
<1> QED BY <1>1, <1>3, <1>4

\* generate_all opens and fills one artifact of the delivery after the other.
LEMMA WriteSteps ==
    ASSUME PipelineInv, OpenArtifact \/ CloseArtifact
    PROVE  Commands!Next
<1> USE DEF PipelineInv
<1> DEFINE n == Artifacts[at]
<1>1. n \in Name
  BY ArtifactNames DEF DirOK
<1>2. /\ Job = {Held} /\ Job' = {Held} /\ Save = {} /\ Save' = {}
      /\ UNCHANGED <<planFile, mode>> /\ broken'
  BY DEF OpenArtifact, CloseArtifact, Goes, memory, files, Job, Save, Held, Generating, DirInv
<1>3. Finished' = {}
  BY <1>2 DEF Finished
<1>4. CASE OpenArtifact
  <2>1. art' = [art EXCEPT ![n] = Torn]
    BY <1>4 DEF OpenArtifact
  <2>2. Commands!Open(n)
    BY <1>2, <1>3, <2>1 DEF Commands!Open, Commands!Torn, Torn
  <2> QED BY <1>1, <2>2 DEF Commands!Next
<1>5. CASE CloseArtifact
  <2>1. art' = [art EXCEPT ![n] = Whole(Held)] /\ art[n] = Torn /\ broken
    BY <1>5 DEF CloseArtifact, FoundInv, DirInv, Generating, Held
  <2>2. Finished = {}
    BY <2>1 DEF Finished
  <2>3. Commands!Close(n)
    BY <1>2, <1>3, <2>1, <2>2 DEF Commands!Close, Commands!Torn, Torn, Commands!Whole, Whole
  <2> QED BY <1>1, <2>3 DEF Commands!Next
<1> QED BY <1>4, <1>5

\* After the last artifact the directory is a delivery; before it, at most a script
\* has become executable.
LEMMA AdvanceStep ==
    ASSUME PipelineInv, NextArtifact
    PROVE  [Commands!Next]_Commands!vars
<1> USE DEF PipelineInv
<1> DEFINE n == Artifacts[at]
<1>1. n \in Name /\ at \in 1..Len(Artifacts) /\ Len(Artifacts) \in Nat \ {0}
  BY ArtifactNames DEF DirOK
<1>2. /\ command = "generate" /\ phase = "closed" /\ command' = command
      /\ UNCHANGED <<planFile, art, cfg, flags>>
      /\ mode' = mode \union ({n} \intersect Scripts)
      /\ Save = {} /\ Save' = {}
  BY DEF NextArtifact, Ends, Goes, files, Save
<1>3. Job = {Held} /\ broken /\ art[n] = Whole(Held) /\ \A i \in 1..at - 1 : Made(Artifacts[i])
  BY <1>2 DEF Job, Generating, DirInv, Held
<1>4. CASE at = Len(Artifacts)
  <2>1. phase' = "idle" /\ ~broken'
    BY <1>4 DEF NextArtifact, Ends
  <2>2. Job' = {}
    BY <2>1 DEF Job, Generating
  <2>3. \A m \in Name : art[m] = Whole(Held) /\ (m \in Scripts => m \in mode')
    <3> SUFFICES ASSUME NEW m \in Name
                 PROVE  art[m] = Whole(Held) /\ (m \in Scripts => m \in mode')
      OBVIOUS
    <3>1. PICK i \in 1..Len(Artifacts) : m = Artifacts[i]
      BY ArtifactNames DEF Name
    <3>2. CASE i = at
      BY <1>2, <1>3, <3>1, <3>2
    <3>3. CASE i # at
      <4>1. i \in 1..at - 1
        BY <1>1, <1>4, <3>1, <3>3
      <4> QED BY <1>2, <1>3, <3>1, <4>1 DEF Made, Held
    <3> QED BY <3>2, <3>3
  <2>4. mode' = Scripts
    BY <1>2, <2>3, ArtifactsAssumption DEF DirInv
  <2>5. Finished' = {Held}
    <3>1. \A m \in Name : art'[m].is = "whole" /\ art'[m].of = Held
      BY <1>2, <2>3 DEF Whole
    <3> QED BY <1>1, <2>1, <3>1 DEF Finished
  <2>6. Commands!Complete
    BY <1>2, <1>3, <2>2, <2>3, <2>4, <2>5 DEF Commands!Complete, Commands!Whole, Whole
  <2> QED BY <2>6 DEF Commands!Next
<1>5. CASE at # Len(Artifacts)
  <2>1. phase' = "vetted" /\ broken'
    BY <1>3, <1>5 DEF NextArtifact, Goes
  <2>2. Job' = {Held} /\ Finished' = {} /\ Finished = {}
    BY <1>2, <1>3, <2>1 DEF Job, Generating, Finished, Held
  <2>3. CASE n \in Scripts
    <3>1. Commands!MakeExecutable(n)
      BY <1>2, <1>3, <2>2, <2>3 DEF Commands!MakeExecutable, Commands!Whole, Whole
    <3> QED BY <1>1, <3>1 DEF Commands!Next
  <2>4. CASE n \notin Scripts
    <3>1. mode' = mode
      BY <1>2, <2>4
    <3> QED BY <1>2, <1>3, <2>2, <3>1 DEF Commands!vars
  <2> QED BY <2>3, <2>4
<1> QED BY <1>4, <1>5

\* A command that is cut short gives its delivery up, if it had one.
LEMMA KilledStep ==
    ASSUME Killed
    PROVE  [Commands!Next]_Commands!vars
<1>1. UNCHANGED <<planFile, art, mode, broken>> /\ phase' = "idle"
  BY DEF Killed, files, outDir, Ends
<1>2. Save' = {} /\ Job' = {} /\ Finished' = Finished
  BY <1>1 DEF Save, Job, Generating, Finished
<1>3. CASE Save = {} /\ Job = {}
  BY <1>1, <1>2, <1>3 DEF Commands!vars
<1>4. CASE ~(Save = {} /\ Job = {})
  <2>1. Commands!GiveUp
    BY <1>1, <1>2, <1>4 DEF Commands!GiveUp, Commands!Idle, Commands!outDir
  <2> QED BY <2>1 DEF Commands!Next
<1> QED BY <1>3, <1>4

\* Every step of the commands is a step of Delivery or is invisible to it.
LEMMA DeliveryStep ==
    ASSUME PipelineInv, [Next]_vars
    PROVE  [Commands!Next]_Commands!vars
<1>1. CASE Inspect \/ OpenSnapshot \/ CloseSnapshot \/ Plan \/ Interview \/ VetPlan
  <2>1. ~Working /\ ~Working' /\ UNCHANGED outDir /\ planFile' = planFile
    BY <1>1 DEF Inspect, OpenSnapshot, CloseSnapshot, Plan, Interview, VetPlan, Starts, Goes,
                Ends, Working, Generating, files
  <2> QED BY <2>1, Outside DEF Commands!vars
<1>2. CASE Load("validate") \/ Load("generate") \/ VetValidate
  <2>1. ~Working /\ ~Working' /\ UNCHANGED outDir /\ planFile' = planFile
    BY <1>2 DEF Load, VetValidate, Vet, Starts, Ends, Working, Generating, files
  <2> QED BY <2>1, Outside DEF Commands!vars
<1>3. CASE OpenPlan \/ ClosePlan \/ EditPlan
  BY <1>3, PlanSteps
<1>4. CASE VetGenerate
  BY <1>4, BeginStep
<1>5. CASE OpenArtifact \/ CloseArtifact
  BY <1>5, WriteSteps
<1>6. CASE NextArtifact
  BY <1>6, AdvanceStep
<1>7. CASE Killed
  BY <1>7, KilledStep
<1>8. CASE UNCHANGED vars
  BY <1>8 DEF vars, files, outDir, memory, Commands!vars, Save, Job, Held, Generating,
          Finished
<1> QED BY <1>1, <1>2, <1>3, <1>4, <1>5, <1>6, <1>7, <1>8 DEF Next, Terminated

\* plan, generate, the editor and every way a command can be cut short keep what
\* Delivery promises: a delivery is of the one plan on file that passed the rules,
\* nothing replaces that plan while it runs, only a finished one counts, and no
\* other step writes an artifact (cli.py, generators/__init__.py:48-54).
THEOREM Delivering == Spec => ImplementsDelivery
<1>1. Init => Commands!Init
  <2> SUFFICES ASSUME Init PROVE Commands!Init
    OBVIOUS
  <2>1. Save = {} /\ Job = {}
    BY DEF Init, Save, Job, Generating
  <2>2. Finished = {}
    BY DEF Init, Finished, Absent
  <2> QED BY <2>1, <2>2 DEF Init, Commands!Init, Commands!Absent, Absent
<1>2. PipelineInv /\ [Next]_vars => [Commands!Next]_Commands!vars
  BY DeliveryStep
<1> QED BY <1>1, <1>2, PipelineInvariant, PTL DEF Spec, ImplementsDelivery, Commands!Spec
=============================================================================
