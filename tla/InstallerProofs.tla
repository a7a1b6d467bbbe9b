--------------------------- MODULE InstallerProofs ---------------------------
(***************************************************************************)
(* What install.sh leaves behind, however often it is run, fails and is    *)
(* cut short.                                                              *)
(***************************************************************************)
EXTENDS Installer, TLAPS

\* The two halves of TypeOK: what is true or false, and the rest.
Flags ==
    /\ inBuild \in BOOLEAN /\ failing \in BOOLEAN /\ succeeded \in BOOLEAN
    /\ key \in BOOLEAN /\ cli \in BOOLEAN /\ daemon \in BOOLEAN
    /\ dir \in BOOLEAN /\ image \in BOOLEAN

Values ==
    /\ host \in HostFacts /\ record \in {"never", "there", "gone", "back"}
    /\ pc \in Step \union {"idle"}
    /\ reason \in {"none", "ok", "root", "joined", "unresolved", "distro", "command", "killed"}
    /\ conf \in {"none", "torn", "generated", "filled"}
    /\ runs \in 0..MaxRuns /\ fills \in 0..MaxFills

\* Every step leaves the flags true or false.
LEMMA FlagsStep == Flags /\ [Next]_vars => Flags'
<1> SUFFICES ASSUME Flags, [Next]_vars PROVE Flags'
  OBVIOUS
<1> USE DEF Flags, Goes, Ends, world, system, docker, run
<1>1. CASE Start
  BY <1>1 DEF Start
<1>2. CASE VerifyNotDomainJoined \/ VerifyHostnameResolves \/ EnsureDocker
  BY <1>2 DEF VerifyNotDomainJoined, VerifyHostnameResolves, EnsureDocker, resolves
<1>3. CASE DearmorKey \/ AptInstall \/ DnfInstall \/ EnableDocker
  BY <1>3 DEF DearmorKey, AptInstall, DnfInstall, EnableDocker
<1>4. CASE MakeConfigDir \/ CopyConfig \/ PullDngImage
  BY <1>4 DEF MakeConfigDir, CopyConfig, PullDngImage
<1>5. CASE CommandFails \/ Killed
  BY <1>5 DEF CommandFails, Killed, Partial
<1>6. CASE Publish \/ Withdraw \/ FillConfig
  BY <1>6 DEF Publish, Withdraw, FillConfig, resolves
<1>7. CASE UNCHANGED vars
  BY <1>7 DEF vars
<1> QED BY <1>1, <1>2, <1>3, <1>4, <1>5, <1>6, <1>7 DEF Next, Terminated

\* Every step leaves the other variables within their values.
LEMMA ValuesStep == Values /\ [Next]_vars => Values'
<1> SUFFICES ASSUME Values, [Next]_vars PROVE Values'
  OBVIOUS
<1> USE RunsAssumption DEF Values, Step, Goes, Ends, world, system, docker, run
<1>1. CASE Start
  BY <1>1 DEF Start
<1>2. CASE VerifyNotDomainJoined \/ VerifyHostnameResolves \/ EnsureDocker
  BY <1>2 DEF VerifyNotDomainJoined, VerifyHostnameResolves, EnsureDocker, resolves
<1>3. CASE DearmorKey \/ AptInstall \/ DnfInstall \/ EnableDocker
  BY <1>3 DEF DearmorKey, AptInstall, DnfInstall, EnableDocker
<1>4. CASE MakeConfigDir \/ CopyConfig \/ PullDngImage
  BY <1>4 DEF MakeConfigDir, CopyConfig, PullDngImage
<1>5. CASE CommandFails \/ Killed
  BY <1>5 DEF CommandFails, Killed, Partial
<1>6. CASE Publish \/ Withdraw \/ FillConfig
  BY <1>6 DEF Publish, Withdraw, FillConfig, resolves
<1>7. CASE UNCHANGED vars
  BY <1>7 DEF vars
<1> QED BY <1>1, <1>2, <1>3, <1>4, <1>5, <1>6, <1>7 DEF Next, Terminated

\* The state of the script and of the host keeps its type.
THEOREM TypeCorrect == Spec => []TypeOK
<1>1. Init => Flags /\ Values
  <2> SUFFICES ASSUME Init PROVE Flags /\ Values
    OBVIOUS
  <2>1. record \in {"never", "there", "gone", "back"}
    BY DEF Init
  <2>2. daemon \in BOOLEAN /\ cli \in BOOLEAN
    BY DEF Init
  <2>3. /\ inBuild \in BOOLEAN /\ failing \in BOOLEAN /\ succeeded \in BOOLEAN
        /\ key \in BOOLEAN /\ dir \in BOOLEAN /\ image \in BOOLEAN
    BY DEF Init
  <2>4. host \in HostFacts /\ pc \in Step \union {"idle"}
    BY DEF Init
  <2>5. /\ reason \in {"none", "ok", "root", "joined", "unresolved", "distro", "command", "killed"}
        /\ conf \in {"none", "torn", "generated", "filled"}
    BY DEF Init
  <2>6. runs \in 0..MaxRuns /\ fills \in 0..MaxFills
    BY RunsAssumption DEF Init
  <2> QED BY <2>1, <2>2, <2>3, <2>4, <2>5, <2>6 DEF Flags, Values
<1>2. Flags /\ Values => TypeOK
  BY DEF Flags, Values, TypeOK
<1> QED BY <1>1, <1>2, FlagsStep, ValuesStep, PTL DEF Spec

------------------------------------------------------------------------------
\* What main has done when it reaches a step; nothing takes docker, its daemon or
\* a directory away again.
DoneInv ==
    /\ SuccessMeansReady
    /\ pc \in {"enable", "dir", "config", "image"} => cli
    /\ pc \in {"config", "image"} => dir
    /\ pc = "image" /\ inBuild => conf = "generated"
    /\ pc # "idle" => reason = "none"

\* Each step of the script does what the later ones rely on.
LEMMA DoneStep == DoneInv /\ [Next]_vars => DoneInv'
<1> SUFFICES ASSUME DoneInv, [Next]_vars PROVE DoneInv'
  OBVIOUS
<1> USE DEF DoneInv, SuccessMeansReady, Goes, Ends, world, system, docker, run
<1>1. CASE Start
  BY <1>1 DEF Start
<1>2. CASE VerifyNotDomainJoined \/ VerifyHostnameResolves \/ EnsureDocker
  BY <1>2 DEF VerifyNotDomainJoined, VerifyHostnameResolves, EnsureDocker, resolves
<1>3. CASE DearmorKey \/ AptInstall \/ DnfInstall \/ EnableDocker
  <2>1. CASE DearmorKey
    BY <2>1 DEF DearmorKey
  <2>2. CASE AptInstall
    BY <2>2 DEF AptInstall
  <2>3. CASE DnfInstall
    BY <2>3 DEF DnfInstall
  <2>4. CASE EnableDocker
    BY <2>4 DEF EnableDocker
  <2> QED BY <1>3, <2>1, <2>2, <2>3, <2>4
<1>4. CASE MakeConfigDir \/ CopyConfig \/ PullDngImage
  BY <1>4 DEF MakeConfigDir, CopyConfig, PullDngImage
<1>5. CASE CommandFails \/ Killed
  BY <1>5 DEF CommandFails, Killed, Partial
<1>6. CASE Publish \/ Withdraw \/ FillConfig
  BY <1>6 DEF Publish, Withdraw, FillConfig, resolves
<1>7. CASE UNCHANGED vars
  BY <1>7 DEF vars
<1> QED BY <1>1, <1>2, <1>3, <1>4, <1>5, <1>6, <1>7 DEF Next, Terminated

\* A run that ends well leaves docker, the directory, the image and the config,
\* whatever was cut short before it (installer.sh.j2:114-122).
THEOREM Ready == Spec => []SuccessMeansReady
<1>1. Init => DoneInv
  BY DEF Init, DoneInv, SuccessMeansReady
<1>2. DoneInv => SuccessMeansReady
  BY DEF DoneInv
<1> QED BY <1>1, <1>2, DoneStep, PTL DEF Spec

------------------------------------------------------------------------------
\* Past its checks the script is on a host it accepts whose hostname has resolved.
CheckInv ==
    /\ ChecksComeFirst
    /\ pc \notin {"idle", "domain"} => ~Refused(host)
    /\ pc \notin {"idle", "domain", "hostname"} => record # "never"

\* The checks come before every step that changes the host.
LEMMA CheckStep == CheckInv /\ [Next]_vars => CheckInv'
<1> SUFFICES ASSUME CheckInv, [Next]_vars PROVE CheckInv'
  OBVIOUS
<1> USE DEF CheckInv, ChecksComeFirst, Goes, Ends, world, system, docker, run, Refused
<1>1. CASE Start
  BY <1>1 DEF Start
<1>2. CASE VerifyNotDomainJoined \/ VerifyHostnameResolves \/ EnsureDocker
  BY <1>2 DEF VerifyNotDomainJoined, VerifyHostnameResolves, EnsureDocker, resolves
<1>3. CASE DearmorKey \/ AptInstall \/ DnfInstall \/ EnableDocker
  BY <1>3 DEF DearmorKey, AptInstall, DnfInstall, EnableDocker
<1>4. CASE MakeConfigDir \/ CopyConfig \/ PullDngImage
  BY <1>4 DEF MakeConfigDir, CopyConfig, PullDngImage
<1>5. CASE CommandFails \/ Killed
  <2>1. CASE pc \in {"domain", "hostname"}
    <3>1. UNCHANGED <<system, world>> /\ pc' = "idle"
      BY <1>5, <2>1 DEF CommandFails, Killed, Partial
    <3> QED BY <3>1
  <2>2. CASE pc \notin {"domain", "hostname"}
    <3>1. pc # "idle" /\ UNCHANGED world /\ pc' = "idle"
      BY <1>5 DEF CommandFails, Killed
    <3> QED BY <2>2, <3>1
  <2> QED BY <2>1, <2>2
<1>6. CASE Publish \/ Withdraw \/ FillConfig
  BY <1>6 DEF Publish, Withdraw, FillConfig, resolves
<1>7. CASE UNCHANGED vars
  BY <1>7 DEF vars
<1> QED BY <1>1, <1>2, <1>3, <1>4, <1>5, <1>6, <1>7 DEF Next, Terminated

\* A host that the script refuses is left as it was (installer.sh.j2:84-99).
THEOREM CheckedFirst == Spec => []ChecksComeFirst
<1>1. Init => CheckInv
  BY DEF Init, CheckInv, ChecksComeFirst
<1>2. CheckInv => ChecksComeFirst
  BY DEF CheckInv
<1> QED BY <1>1, <1>2, CheckStep, PTL DEF Spec

------------------------------------------------------------------------------
\* A success proves docker and its daemon, which a later run cannot lose, so that
\* ensure_docker always returns early from then on, and that the record was there.
LastInv ==
    /\ SuccessLasts
    /\ succeeded => cli /\ daemon /\ record # "never" /\ ~Refused(host)
    /\ succeeded => pc \notin {"key", "apt", "dnf", "enable"}

\* After a success no step of an undisturbed run can fail.
LEMMA LastStep == Values /\ DoneInv /\ CheckInv /\ LastInv /\ [Next]_vars => LastInv'
<1> SUFFICES ASSUME Values, DoneInv, CheckInv, LastInv, [Next]_vars PROVE LastInv'
  OBVIOUS
<1> USE DEF LastInv, SuccessLasts, Goes, Ends, world, system, docker, run
<1>1. CASE Start
  BY <1>1 DEF Start
<1>2. CASE VerifyNotDomainJoined \/ VerifyHostnameResolves \/ EnsureDocker
  <2>1. CASE VerifyNotDomainJoined
    BY <2>1 DEF VerifyNotDomainJoined
  <2>2. CASE VerifyHostnameResolves
    BY <2>2 DEF VerifyHostnameResolves, resolves, Values
  <2>3. CASE EnsureDocker
    BY <2>3 DEF EnsureDocker
  <2> QED BY <1>2, <2>1, <2>2, <2>3
<1>3. CASE DearmorKey \/ AptInstall \/ DnfInstall \/ EnableDocker
  <2>1. CASE DearmorKey
    <3>1. ~succeeded
      BY <2>1 DEF DearmorKey
    <3>2. ~succeeded'
      BY <2>1, <3>1 DEF DearmorKey
    <3> QED BY <3>2
  <2>2. CASE AptInstall
    BY <2>2 DEF AptInstall
  <2>3. CASE DnfInstall
    BY <2>3 DEF DnfInstall
  <2>4. CASE EnableDocker
    BY <2>4 DEF EnableDocker
  <2> QED BY <1>3, <2>1, <2>2, <2>3, <2>4
<1>4. CASE MakeConfigDir \/ CopyConfig \/ PullDngImage
  <2>1. CASE MakeConfigDir
    BY <2>1 DEF MakeConfigDir, DoneInv, CheckInv
  <2>2. CASE CopyConfig
    BY <2>2 DEF CopyConfig, DoneInv, CheckInv
  <2>3. CASE PullDngImage
    BY <2>3 DEF PullDngImage, DoneInv, CheckInv
  <2> QED BY <1>4, <2>1, <2>2, <2>3
<1>5. CASE CommandFails \/ Killed
  <2>1. CASE CommandFails
    BY <2>1 DEF CommandFails, Partial
  <2>2. CASE Killed
    BY <2>2 DEF Killed, Partial
  <2> QED BY <1>5, <2>1, <2>2
<1>6. CASE Publish \/ Withdraw \/ FillConfig
  BY <1>6 DEF Publish, Withdraw, FillConfig, resolves
<1>7. CASE UNCHANGED vars
  BY <1>7 DEF vars
<1> QED BY <1>1, <1>2, <1>3, <1>4, <1>5, <1>6, <1>7 DEF Next, Terminated

\* Once a run has ended well, only the environment, a missing sudo or a record
\* that was withdrawn can make a later one end otherwise (installer.sh.j2:65-82).
THEOREM Lasting == Spec => []SuccessLasts
<1>1. Init => DoneInv /\ CheckInv /\ LastInv
  BY DEF Init, DoneInv, SuccessMeansReady, CheckInv, ChecksComeFirst, LastInv, SuccessLasts
<1>2. LastInv => SuccessLasts
  BY DEF LastInv
<1>3. TypeOK => Values
  BY DEF TypeOK, Values
<1> QED BY <1>1, <1>2, <1>3, TypeCorrect, DoneStep, CheckStep, LastStep, PTL DEF Spec
==============================================================================
