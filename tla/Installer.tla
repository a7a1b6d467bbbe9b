------------------------------ MODULE Installer ------------------------------
(***************************************************************************)
(* templates/installer.sh.j2: install.sh on the target host.  It stops at  *)
(* the first command that fails (set -e), may be cut short anywhere, and   *)
(* is run again; between runs the operator fills in the installed          *)
(* scripted config (RUNBOOK.md, steps 3 and 7), and the hostname's record  *)
(* is published, withdrawn and published again.  The package managers, gpg *)
(* and docker are modelled as the script uses them.                        *)
(***************************************************************************)
EXTENDS Naturals

CONSTANTS
    Distros,    \* values of ID in /etc/os-release
    MaxRuns,    \* bound: runs of the script
    MaxFills    \* bound: times the operator fills in the config

ASSUME DistroAssumption == Distros \subseteq {"ubuntu", "debian", "rhel", "other"}
ASSUME RunsAssumption == MaxRuns \in Nat /\ MaxFills \in Nat

VARIABLES
    host,      \* what the script cannot change: see HostFacts
    record,    \* the hostname's: never published, there, gone, back
    pc,        \* the step the running script is at, or idle
    inBuild,   \* it was started in the output directory
    failing,   \* the environment may fail a command of this run
    reason,    \* how the last run ended
    succeeded, \* some run has ended well
    key,       \* /etc/apt/keyrings/docker.gpg exists
    cli,       \* command -v docker
    daemon,    \* dockerd runs
    dir,       \* CONFIG_DIR exists
    conf,      \* CONFIG_DIR/scripted-config.yaml
    image,     \* the DNG image is on the host
    runs, fills

run == <<pc, inBuild, failing, reason, succeeded, runs>>
docker == <<key, cli, daemon>>
system == <<docker, dir, conf, image>>
world == <<host, record>>
vars == <<world, run, system, fills>>

\* realm: realm list names a realm.  default: /etc/krb5.conf has a default_realm
\* line; the probe of rule 2 looks for an entry in [realms] instead.
HostFacts == [distro : Distros, realm : BOOLEAN, default : BOOLEAN]

\* getent hosts finds the public hostname.
resolves == record \in {"there", "back"}

\* verify_not_domain_joined
Refused(h) == h.realm \/ h.default

Step == {"domain", "hostname", "docker", "key", "apt", "dnf", "enable", "dir", "config", "image"}

TypeOK ==
    /\ host \in HostFacts /\ record \in {"never", "there", "gone", "back"}
    /\ pc \in Step \union {"idle"}
    /\ inBuild \in BOOLEAN /\ failing \in BOOLEAN /\ succeeded \in BOOLEAN
    /\ reason \in {"none", "ok", "root", "joined", "unresolved", "distro", "command", "killed"}
    /\ key \in BOOLEAN /\ cli \in BOOLEAN /\ daemon \in BOOLEAN
    /\ dir \in BOOLEAN /\ conf \in {"none", "torn", "generated", "filled"} /\ image \in BOOLEAN
    /\ runs \in 0..MaxRuns /\ fills \in 0..MaxFills

\* Docker may be there before, with its daemon up.  The host may be joined although
\* a plan exists: rule 2 can be overridden and reads /etc/krb5.conf differently.
Init ==
    /\ host \in HostFacts
    /\ record \in {"never", "there"}
    /\ pc = "idle" /\ inBuild = TRUE /\ failing = FALSE /\ reason = "none"
    /\ succeeded = FALSE
    /\ key = FALSE
    /\ cli \in BOOLEAN /\ daemon = cli
    /\ dir = FALSE /\ conf = "none" /\ image = FALSE
    /\ runs = 0 /\ fills = 0

------------------------------------------------------------------------------
(* Steps of the script *)

Goes(step) == pc' = step /\ UNCHANGED <<inBuild, failing, reason, succeeded, runs>>
Ends(how) ==
    /\ pc' = "idle"
    /\ reason' = how
    /\ succeeded' = (succeeded \/ how = "ok")
    /\ UNCHANGED <<inBuild, failing, runs>>

\* require_root: without root nothing happens.
Start ==
    /\ pc = "idle" /\ runs < MaxRuns
    /\ runs' = runs + 1
    /\ \/ pc' = "domain" /\ reason' = "none"
       \/ UNCHANGED pc /\ reason' = "root"
    /\ inBuild' \in BOOLEAN /\ failing' \in BOOLEAN
    /\ UNCHANGED <<world, system, succeeded, fills>>

VerifyNotDomainJoined ==
    /\ pc = "domain"
    /\ IF Refused(host) THEN Ends("joined") ELSE Goes("hostname")
    /\ UNCHANGED <<world, system, fills>>

\* Mutant: a hostname that does not resolve is only reported.
WarnHostname ==
    /\ pc = "hostname"
    /\ Goes("docker")
    /\ UNCHANGED <<world, system, fills>>

VerifyHostnameResolves ==
    /\ pc = "hostname"
    /\ IF resolves THEN Goes("docker") ELSE Ends("unresolved")
    /\ UNCHANGED <<world, system, fills>>

\* Mutant: docker is installed whether it is there or not.
ReinstallDocker ==
    /\ pc = "docker"
    /\ CASE host.distro \in {"ubuntu", "debian"} -> Goes("key")
         [] host.distro = "rhel" -> Goes("dnf")
         [] OTHER -> Ends("distro")
    /\ UNCHANGED <<world, system, fills>>

EnsureDocker ==
    /\ pc = "docker"
    /\ IF cli THEN Goes("dir")
       ELSE CASE host.distro \in {"ubuntu", "debian"} -> Goes("key")
              [] host.distro = "rhel" -> Goes("dnf")
              [] OTHER -> Ends("distro")
    /\ UNCHANGED <<world, system, fills>>

\* gpg --dearmor -o asks before it replaces a file that is already there.
DearmorKey ==
    /\ pc = "key"
    /\ \/ key' = TRUE /\ Goes("apt")
       \/ key /\ UNCHANGED key /\ Ends("command")
    /\ UNCHANGED <<world, cli, daemon, dir, conf, image, fills>>

\* The repository is that of Ubuntu, which knows no release of Debian: apt-get
\* update fails on it.  The package starts its daemon.
AptInstall ==
    /\ pc = "apt"
    /\ IF host.distro = "ubuntu"
       THEN cli' = TRUE /\ daemon' = TRUE /\ Goes("dir")
       ELSE UNCHANGED <<cli, daemon>> /\ Ends("command")
    /\ UNCHANGED <<world, key, dir, conf, image, fills>>

DnfInstall ==
    /\ pc = "dnf"
    /\ cli' = TRUE
    /\ Goes("enable")
    /\ UNCHANGED <<world, key, daemon, dir, conf, image, fills>>

EnableDocker ==
    /\ pc = "enable"
    /\ daemon' = TRUE
    /\ Goes("dir")
    /\ UNCHANGED <<world, key, cli, dir, conf, image, fills>>

\* Mutant: main goes on with a function that is not there.
MakeConfigDirMisnamed ==
    /\ pc = "dir"
    /\ dir' = TRUE
    /\ Goes("place_config")
    /\ UNCHANGED <<world, docker, conf, image, fills>>

MakeConfigDir ==
    /\ pc = "dir"
    /\ dir' = TRUE
    /\ Goes("config")
    /\ UNCHANGED <<world, docker, conf, image, fills>>

\* Mutant: a config that is there is left alone.
CopyMissingConfig ==
    /\ pc = "config"
    /\ conf' = IF inBuild /\ conf = "none" THEN "generated" ELSE conf
    /\ Goes("image")
    /\ UNCHANGED <<world, docker, dir, image, fills>>

\* if [[ -f scripted-config.yaml ]]
CopyConfig ==
    /\ pc = "config"
    /\ conf' = IF inBuild THEN "generated" ELSE conf
    /\ Goes("image")
    /\ UNCHANGED <<world, docker, dir, image, fills>>

\* docker pull needs the daemon.
PullDngImage ==
    /\ pc = "image"
    /\ IF daemon THEN image' = TRUE /\ Ends("ok")
       ELSE UNCHANGED image /\ Ends("command")
    /\ UNCHANGED <<world, docker, dir, conf, fills>>

------------------------------------------------------------------------------
(* What goes wrong *)

\* What a command that fails or is cut short may leave behind: a keyring, part of
\* the packages (the daemon's depends on the command's), half a file.
Partial ==
    /\ key' \in (IF pc = "key" THEN {key, TRUE} ELSE {key})
    /\ cli' \in (IF pc \in {"apt", "dnf"} THEN {cli, TRUE} ELSE {cli})
    /\ daemon' \in (IF pc \in {"apt", "enable"} /\ cli' THEN {daemon, TRUE} ELSE {daemon})
    /\ conf' \in (IF pc = "config" /\ inBuild THEN {conf, "torn"} ELSE {conf})
    /\ UNCHANGED <<dir, image>>

\* A mirror, a disk or a daemon fails a command and set -e the script.
CommandFails ==
    /\ failing /\ pc \in {"key", "apt", "dnf", "enable", "dir", "config", "image"}
    /\ Partial
    /\ Ends("command")
    /\ UNCHANGED <<world, fills>>

\* Ctrl-C, a lost session, a reset of the host.
Killed ==
    /\ failing /\ pc # "idle"
    /\ Partial
    /\ Ends("killed")
    /\ UNCHANGED <<world, fills>>

------------------------------------------------------------------------------
(* The operator *)

\* At any moment of a run.
Publish ==
    /\ ~resolves
    /\ record' = IF record = "never" THEN "there" ELSE "back"
    /\ UNCHANGED <<host, run, system, fills>>

\* The record is taken back, or the host's resolver no longer finds it.
Withdraw ==
    /\ resolves /\ record' = "gone"
    /\ UNCHANGED <<host, run, system, fills>>

FillConfig ==
    /\ pc = "idle" /\ conf = "generated" /\ fills < MaxFills
    /\ conf' = "filled" /\ fills' = fills + 1
    /\ UNCHANGED <<world, run, docker, dir, image>>

Terminated == pc = "idle" /\ runs = MaxRuns /\ UNCHANGED vars

Next ==
    \/ Start
    \/ VerifyNotDomainJoined \/ VerifyHostnameResolves \/ EnsureDocker
    \/ DearmorKey \/ AptInstall \/ DnfInstall \/ EnableDocker
    \/ MakeConfigDir \/ CopyConfig \/ PullDngImage
    \/ CommandFails \/ Killed
    \/ Publish \/ Withdraw \/ FillConfig
    \/ Terminated

Spec == Init /\ [][Next]_vars

------------------------------------------------------------------------------
\* However often runs are cut short before, a run ends well only with docker in
\* place and its daemon up, the directory made, the image pulled and, started in
\* the output directory, a whole config (set -e, ensure_docker's early return).
SuccessMeansReady ==
    reason = "ok" => /\ cli /\ daemon /\ dir /\ image
                     /\ inBuild => conf \in {"generated", "filled"}

\* Neither docker nor /etc/dng is touched on a host the script takes for
\* domain-joined, or before the hostname has ever resolved (main's order of checks).
ChecksComeFirst ==
    Refused(host) \/ record = "never" =>
        ~key /\ (cli => daemon) /\ ~dir /\ conf = "none" /\ ~image

\* After one run has ended well every later one does, unless the environment
\* fails it, it lacks root or the hostname's record was withdrawn, whatever failed
\* before and in between: a partial installation does not come back (install.sh is
\* to be idempotent).
SuccessLasts ==
    succeeded /\ ~failing /\ pc = "idle" =>
        reason \in {"ok", "root"} \/ (reason = "unresolved" /\ record \in {"gone", "back"})

\* runbook.md.j2:35: the installer is idempotent.  A config that was filled in is
\* still there after the next run that nothing disturbs.
ConfigKept == [][~failing /\ conf = "filled" => conf' = "filled"]_vars

\* installer.sh.j2:2: idempotent installer.  Past its checks, a run that nothing
\* disturbs ends well whatever earlier runs left behind.
UndisturbedSucceeds == ~failing => reason # "command"
==============================================================================
