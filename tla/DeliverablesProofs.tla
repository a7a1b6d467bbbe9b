------------------------- MODULE DeliverablesProofs -------------------------
(***************************************************************************)
(* How the artifacts in an output directory fit each other and the rules,  *)
(* for any snapshots, answers, edits and numbers of seed applications.     *)
(***************************************************************************)
EXTENDS Deliverables, PipelineProofs

\* A directory nobody was interrupted in is of one configuration at most.
LEMMA OneConfig ==
    ASSUME TypeOK, AllOrNothing, NEW c \in Delivered, NEW d \in Delivered
    PROVE  c = d /\ c \in DngConfig
<1>1. ~broken
  BY DEF Delivered
<1>2. PICK m \in Name : art[m].is = "whole" /\ c = art[m].of.config
  BY <1>1 DEF Delivered
<1>3. PICK n \in Name : art[n].is = "whole" /\ d = art[n].of.config
  BY <1>1 DEF Delivered
<1>4. art[m].of = art[n].of
  BY <1>1, <1>2, <1>3 DEF AllOrNothing, Absent
<1>5. art[m].of \in Content
  BY <1>2, FileTypes DEF TypeOK
<1> QED BY <1>2, <1>3, <1>4, <1>5 DEF Content

\* A record set asks for these names as soon as there is a value to give them.
LEMMA NamesOfRecords ==
    ASSUME NEW type, NEW names, NEW values, values # {}
    PROVE  NamesOf(Records(type, names, values)) = {type} \X names
<1>1. ASSUME NEW n \in names PROVE <<type, n>> \in NamesOf(Records(type, names, values))
  <2>1. PICK v \in values : TRUE
    OBVIOUS
  <2>2. [type |-> type, name |-> n, value |-> v] \in Records(type, names, values)
    BY <1>1, <2>1 DEF Records
  <2> QED BY <2>2 DEF NamesOf
<1>2. ASSUME NEW r \in Records(type, names, values) PROVE r.type = type /\ r.name \in names
  BY <1>2 DEF Records
<1> QED BY <1>1, <1>2 DEF NamesOf

\* The names of several sections together are those of each.
LEMMA NamesOfUnion ==
    ASSUME NEW R, NEW S
    PROVE  NamesOf(R \union S) = NamesOf(R) \union NamesOf(S)
BY DEF NamesOf

\* There is an address, or the placeholder, to put into a record.
LEMMA SomeTarget ==
    ASSUME NEW s \in Snapshot
    PROVE  /\ Targets(s)[1] \in Range(Targets(s))
           /\ {Targets(s)[1]} # {}
<1>1. s.a_records \in Seq(Addr)
  BY DEF Snapshot
<1>2. Targets(s) # <<>> /\ 1 \in DOMAIN Targets(s)
  BY <1>1 DEF Targets
<1> QED BY <1>2 DEF Range

\* The markdown and the JSON form of one configuration ask for the same records of
\* the hostname and its wildcard, and for the same names (dns_records.py:41-73).
THEOREM RecordSets == Spec => []RecordSetsAgree
<1>1. TypeOK /\ AllOrNothing => RecordSetsAgree
  <2> SUFFICES ASSUME TypeOK, AllOrNothing, NEW c \in Delivered, NEW d \in Delivered
               PROVE  /\ NamesOf(MdRecords(c)) = NamesOf(JsonRecords(d))
                      /\ \A r \in JsonRecords(d) :
                            r.name \in BaseNames(d.answers) => r \in MdRecords(c)
    BY DEF RecordSetsAgree
  <2>1. c = d /\ c \in DngConfig
    BY OneConfig
  <2>2. c.snapshot \in Snapshot
    BY <2>1 DEF DngConfig
  <2> DEFINE a == c.answers
             t == Targets(c.snapshot)[1]
  <2>3. t \in Range(Targets(c.snapshot))
    BY <2>2, SomeTarget
  <2>4. NamesOf(MdRecords(c)) =
          ({"A"} \X BaseNames(a)) \union ({"TXT"} \X ChallengeNames(a)) \union ({"A"} \X SeedNames(a))
    <3>1. Range(Targets(c.snapshot)) # {}
      BY <2>3
    <3>2. NamesOf(Records("A", BaseNames(a), Range(Targets(c.snapshot)))) = {"A"} \X BaseNames(a)
      BY <3>1, NamesOfRecords
    <3>3. NamesOf(Records("TXT", ChallengeNames(a), {"<set by ACME client>"})) = {"TXT"} \X ChallengeNames(a)
      BY NamesOfRecords
    <3>4. NamesOf(Records("A", SeedNames(a), {SeedUnset})) = {"A"} \X SeedNames(a)
      BY NamesOfRecords
    <3> DEFINE A == Records("A", BaseNames(a), Range(Targets(c.snapshot)))
               T == Records("TXT", ChallengeNames(a), {"<set by ACME client>"})
               S == Records("A", SeedNames(a), {SeedUnset})
    <3>5. MdRecords(c) = (A \union T) \union S
      BY DEF MdRecords
    <3> HIDE DEF A, T, S
    <3>6. NamesOf((A \union T) \union S) = NamesOf(A \union T) \union NamesOf(S)
      BY NamesOfUnion
    <3>7. NamesOf(A \union T) = NamesOf(A) \union NamesOf(T)
      BY NamesOfUnion
    <3> QED BY <3>2, <3>3, <3>4, <3>5, <3>6, <3>7 DEF A, T, S
  <2>5. NamesOf(JsonRecords(c)) =
          ({"A"} \X (BaseNames(a) \union SeedNames(a))) \union ({"TXT"} \X ChallengeNames(a))
    <3>1. NamesOf(Records("A", BaseNames(a) \union SeedNames(a), {t})) =
            {"A"} \X (BaseNames(a) \union SeedNames(a))
      BY NamesOfRecords
    <3>2. NamesOf(Records("TXT", ChallengeNames(a), {"<set by ACME client>"})) = {"TXT"} \X ChallengeNames(a)
      BY NamesOfRecords
    <3> DEFINE A == Records("A", BaseNames(a) \union SeedNames(a), {t})
               T == Records("TXT", ChallengeNames(a), {"<set by ACME client>"})
    <3>3. JsonRecords(c) = A \union T
      BY DEF JsonRecords
    <3> HIDE DEF A, T
    <3>4. NamesOf(A \union T) = NamesOf(A) \union NamesOf(T)
      BY NamesOfUnion
    <3> QED BY <3>1, <3>2, <3>3, <3>4 DEF A, T
  <2>6. NamesOf(MdRecords(c)) = NamesOf(JsonRecords(d))
    BY <2>1, <2>4, <2>5
  <2>7. ASSUME NEW r \in JsonRecords(c), r.name \in BaseNames(a) PROVE r \in MdRecords(c)
    <3>1. CASE r \in Records("A", BaseNames(a) \union SeedNames(a), {t})
      <4>1. r \in Records("A", BaseNames(a), Range(Targets(c.snapshot)))
        BY <2>3, <2>7, <3>1 DEF Records
      <4> QED BY <4>1 DEF MdRecords
    <3>2. CASE r \in Records("TXT", ChallengeNames(a), {"<set by ACME client>"})
      BY <3>2 DEF MdRecords
    <3> QED BY <2>7, <3>1, <3>2 DEF JsonRecords
  <2> QED BY <2>1, <2>6, <2>7
<1> QED BY <1>1, TypeCorrect, WholeDirectory, PTL

------------------------------------------------------------------------------
\* The steps of the runbook follow the same answer as the scripted config and the
\* records do (runbook.md.j2:58-76).
THEOREM CertificateSteps == Spec => []CertificateStepsAgree
<1>1. TypeOK /\ AllOrNothing => CertificateStepsAgree
  <2> SUFFICES ASSUME TypeOK, AllOrNothing, NEW c \in Delivered, NEW d \in Delivered
               PROVE  /\ PasteStep(c) = Markers(d)
                      /\ IF Source(c) = "letsencrypt"
                         THEN \A n \in BaseNames(c.answers) :
                                 <<"TXT", <<"acme", n[1]>>>> \in NamesOf(JsonRecords(d))
                         ELSE CopiedBodies(c) \subseteq PasteStep(d)
    BY DEF CertificateStepsAgree
  <2>1. c = d /\ c \in DngConfig
    BY OneConfig
  <2>2. c.answers.tls_strategy \in TlsStrategy
    BY <2>1 DEF DngConfig, Answers
  <2>3. PasteStep(c) = Markers(c)
    BY <2>2 DEF PasteStep, Markers, Source, LetsEncrypt, TlsStrategy
  <2>4. CASE Source(c) = "letsencrypt"
    <3>1. LetsEncrypt(c.answers)
      BY <2>4 DEF Source
    <3>2. NamesOf(Records("TXT", ChallengeNames(c.answers), {"<set by ACME client>"}))
            = {"TXT"} \X ChallengeNames(c.answers)
      BY NamesOfRecords
    <3>3. {"TXT"} \X ChallengeNames(c.answers) \subseteq NamesOf(JsonRecords(c))
      <4> DEFINE T == Records("TXT", ChallengeNames(c.answers), {"<set by ACME client>"})
      <4>1. T \subseteq JsonRecords(c)
        BY DEF JsonRecords
      <4> HIDE DEF T
      <4>2. NamesOf(T) \subseteq NamesOf(JsonRecords(c))
        BY <4>1 DEF NamesOf
      <4> QED BY <3>2, <4>2 DEF T
    <3> QED BY <2>1, <2>3, <2>4, <3>1, <3>3 DEF ChallengeNames
  <2>5. CASE Source(c) # "letsencrypt"
    <3>1. ~LetsEncrypt(c.answers)
      BY <2>5 DEF Source
    <3>2. {"cert", "key"} \subseteq PasteStep(c)
      BY <2>2, <3>1 DEF PasteStep, LetsEncrypt, TlsStrategy
    <3> QED BY <2>1, <2>3, <2>5, <3>2 DEF CopiedBodies
  <2> QED BY <2>4, <2>5
<1> QED BY <1>1, TypeCorrect, WholeDirectory, PTL

------------------------------------------------------------------------------
\* What the runbook says of the rules was so for validate_plan: the records it finds
\* are those of rule 7, which nothing overrides (runbook.py:25).
THEOREM Summary == Spec => []SummaryEarned
<1>1. ArtifactsVetted => SummaryEarned
  <2> SUFFICES ASSUME ArtifactsVetted, NEW n \in Name, art[n].is = "whole"
               PROVE  LET c == art[n].of.config IN
                      /\ ~WarnsOfRecords(c)
                      /\ \A r \in Ticked(c) \intersect Violations(c) :
                            r \in OverridableRule /\ OverrideFlag[r] \in art[n].of.flags
    BY DEF SummaryEarned
  <2> DEFINE c == art[n].of.config
  <2>1. \A r \in Violations(c) : r \in OverridableRule /\ OverrideFlag[r] \in art[n].of.flags
    BY DEF ArtifactsVetted
  <2>2. "public_hostname_must_resolve" \notin OverridableRule
    BY DEF OverridableRule, OverrideFlag
  <2>3. WarnsOfRecords(c) => "public_hostname_must_resolve" \in Violations(c)
    BY DEF WarnsOfRecords, Resolved, HostnameResolves, Violations, Rule, BlockRule
  <2> QED BY <2>1, <2>2, <2>3
<1> QED BY <1>1, Vetted, PTL

------------------------------------------------------------------------------
\* Before the first edit, everything the commands hold was built of coherent answers.
BuiltInv ==
    edits = 0 =>
        /\ planFile.is = "whole" => Built(planFile.of)
        /\ command = "plan" /\ phase \in {"assembled", "vetted", "opened"} => Built(cfg)
        /\ command = "generate" /\ phase \in {"loaded", "vetted", "writing", "closed"} => Built(cfg)
        /\ \A n \in Name : art[n].is = "whole" => Built(art[n].of.config)

\* build_config is the only source of configurations, the editor aside.
LEMMA BuiltStep == TypeOK /\ BuiltInv /\ [Next]_vars => BuiltInv'
<1> SUFFICES ASSUME TypeOK, BuiltInv, [Next]_vars, edits' = 0 PROVE BuiltInv'
  BY DEF BuiltInv
<1>1. edits = 0 /\ ~EditPlan
  BY BoundAssumption DEF TypeOK, EditPlan, Next, Terminated, vars, Inspect, Plan, Load, Starts,
     OpenSnapshot, CloseSnapshot, Interview, VetPlan, OpenPlan, ClosePlan, VetValidate,
     VetGenerate, OpenArtifact, CloseArtifact, NextArtifact, Killed, Goes, Ends
<1> USE <1>1 DEF BuiltInv
<1>2. CASE Inspect \/ Plan \/ Load("validate") \/ Load("generate")
  BY <1>2 DEF Inspect, Plan, Load, Starts, files, outDir
<1>3. CASE OpenSnapshot \/ CloseSnapshot
  BY <1>3 DEF OpenSnapshot, CloseSnapshot, Goes, Ends, outDir, memory
<1>4. CASE Interview
  <2>1. phase' = "assembled" => Built(cfg')
    BY <1>4, GivenAssumption DEF Interview, Goes, Ends, Built, BuildConfig
  <2>2. /\ UNCHANGED <<planFile, art, command>> /\ phase' \in {"assembled", "idle"}
        /\ command = "plan"
    BY <1>4 DEF Interview, Goes, Ends, files, outDir
  <2> QED BY <2>1, <2>2
<1>5. CASE VetPlan
  BY <1>5 DEF VetPlan, Goes, Ends, files, outDir, memory
<1>6. CASE OpenPlan
  BY <1>6 DEF OpenPlan, Goes, outDir, memory, Torn
<1>7. CASE ClosePlan
  BY <1>7 DEF ClosePlan, Ends, outDir, memory, Whole
<1>8. CASE VetValidate \/ VetGenerate
  BY <1>8 DEF VetValidate, VetGenerate, Vet, Goes, Ends, files, outDir
<1>9. CASE OpenArtifact
  <2>1. \A n \in Name : art'[n].is = "whole" => art'[n] = art[n]
    BY <1>9 DEF OpenArtifact, Torn, TypeOK
  <2> QED BY <1>9, <2>1 DEF OpenArtifact, Goes, files, memory
<1>10. CASE CloseArtifact
  <2>1. \A n \in Name : art'[n] = art[n] \/ art'[n] = Whole([config |-> cfg, flags |-> flags])
    BY <1>10 DEF CloseArtifact, TypeOK
  <2>2. Built(cfg)
    BY <1>10 DEF CloseArtifact
  <2> QED BY <1>10, <2>1, <2>2 DEF CloseArtifact, Goes, files, memory, Whole
<1>11. CASE NextArtifact
  BY <1>11 DEF NextArtifact, Goes, Ends, files
<1>12. CASE Killed
  BY <1>12 DEF Killed, Ends, files, outDir, memory
<1>13. CASE UNCHANGED vars
  BY <1>13 DEF vars, files, outDir, memory
<1> QED BY <1>1, <1>2, <1>3, <1>4, <1>5, <1>6, <1>7, <1>8, <1>9, <1>10, <1>11, <1>12, <1>13
        DEF Next, Terminated

\* The relay section, the RDP port and the delegation never part, and before an edit
\* they are there for the RDP/SMB scope, with a stub for every name that has a
\* record (scripted-config.yaml.j2:84).
THEOREM Relays == Spec => []RelaysAgree
<1>1. TypeOK /\ AllOrNothing /\ BuiltInv => RelaysAgree
  <2> SUFFICES ASSUME TypeOK, AllOrNothing, BuiltInv, NEW c \in Delivered, NEW d \in Delivered
               PROVE  /\ RelaySection(c) = NamesRdpPort(d) /\ NamesRdpPort(c) = Delegates(d)
                      /\ edits = 0 =>
                            /\ SeedNames(c.answers) = Stubs(d)
                            /\ RelaySection(c) <=> d.answers.deployment_scope = "web_ssh_rdp_smb"
    BY DEF RelaysAgree
  <2>1. c = d /\ c \in DngConfig
    BY OneConfig
  <2>2. ASSUME edits = 0 PROVE /\ SeedNames(c.answers) = Stubs(c)
                               /\ RelaySection(c) <=> c.answers.deployment_scope = "web_ssh_rdp_smb"
    <3>1. Built(c)
      BY <2>2 DEF Delivered, BuiltInv
    <3>2. c.requires_extra_dns_container <=> c.answers.deployment_scope = "web_ssh_rdp_smb"
      <4>1. c = BuildConfig(c.snapshot, c.answers)
        BY <3>1 DEF Built
      <4>2. BuildConfig(c.snapshot, c.answers).requires_extra_dns_container
              = (c.answers.deployment_scope = "web_ssh_rdp_smb")
        BY DEF BuildConfig
      <4>3. c.requires_extra_dns_container = (c.answers.deployment_scope = "web_ssh_rdp_smb")
        BY <4>1, <4>2
      <4> QED BY <4>3
    <3>3. c.answers.rdp_relays > 0 => c.requires_extra_dns_container
      BY <3>1, <3>2 DEF Built, Coherent
    <3>4. c.answers.rdp_relays \in Nat
      BY <2>1 DEF DngConfig, Answers
    <3>5. \A n \in SeedNames(c.answers) : n[1] = "rdp" => c.answers.rdp_relays > 0
      BY <3>4 DEF SeedNames
    <3> QED BY <3>2, <3>3, <3>5 DEF Stubs, RelaySection
  <2> QED BY <2>1, <2>2 DEF RelaySection, NamesRdpPort, Delegates
<1>2. Init => BuiltInv
  BY DEF Init, BuiltInv, Absent
<1> QED BY <1>1, <1>2, BuiltStep, TypeCorrect, WholeDirectory, PTL DEF Spec
==============================================================================
