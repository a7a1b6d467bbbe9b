------------------------------- MODULE Firewall -------------------------------
(***************************************************************************)
(* The host's firewall, from discovery/firewall.py, which asks its tools   *)
(* one after the other, to firewall.sh (templates/firewall-*.sh.j2), whose *)
(* commands change it one after the other, are run again with later plans  *)
(* and may stop anywhere.  Services may be started or stopped while the    *)
(* probe runs; the operator may add a rule of his own between runs.  How   *)
(* ufw and firewalld treat their rules is modelled as the scripts use it.  *)
(***************************************************************************)
EXTENDS Rendering, FiniteSets

CONSTANTS
    HostTools,      \* the tools a host may have
    PriorRules,     \* ufw rule lists a host may have before
    PriorZones,     \* what its firewalld may admit before
    MaxScriptRuns,  \* bound: runs of firewall.sh
    MaxChanges      \* bound: services started or stopped and rules added by hand

Tool == {"firewalld", "ufw", "iptables"}
Port == {22, 443, 3389, 8443}
Client == Addr \union {"elsewhere"}
\* Accesses are by tcp.  A rule is written for one port of tcp, as those of the
\* scripts are, or in another way that ufw tells apart from that: for any protocol,
\* for a range or all ports, by an application profile.  limit lets in like allow,
\* reject keeps out like deny.
UfwRule ==
    [action : {"allow", "deny"}, from : SUBSET Client, ports : SUBSET Port,
     written : {"port/tcp", "otherwise"}]
\* Ports of the public zone, sources of the trusted one, which takes everything.
Zones == [ports : SUBSET Port, sources : SUBSET Addr]

ASSUME AddrAssumption == "elsewhere" \notin Addr
ASSUME PriorAssumption ==
    HostTools \subseteq Tool /\ PriorRules \subseteq Seq(UfwRule) /\ PriorZones \subseteq Zones
ASSUME FirewallBounds == MaxScriptRuns \in Nat /\ MaxChanges \in Nat

VARIABLES
    installed,  \* the tools on the host
    active,     \* those that filter
    disturbed,  \* a command of the probe failed, or a service changed under it
    filtered,   \* some tool filtered at some moment of the probe
    found,      \* snapshot.firewall
    pc,         \* the tool the probe asks, or the step firewall.sh is at, or idle
    plan,       \* what the script that runs or ran last was generated for
    todo,       \* its networks not yet admitted
    base,       \* the ufw rules when it started
    finished,   \* it ran to its end
    closed,     \* some script has
    rules, default,        \* ufw: rules in their order, policy for what matches none
    permanent, runtime,    \* firewalld: what it is to admit after a reload, and now
    asked,      \* the accesses scripts were started for or the operator added
    scriptRuns, changes

probe == <<disturbed, filtered, found>>
script == <<plan, todo, base, finished, closed, asked, scriptRuns>>
ufw == <<rules, default>>
firewalld == <<permanent, runtime>>
vars == <<installed, active, probe, pc, script, ufw, firewalld, changes>>

Probing == pc \in Tool
ZoneLets(z, s, p) == s \in z.sources \/ p \in z.ports

Init ==
    /\ installed \in SUBSET HostTools /\ active \in SUBSET installed
    /\ disturbed = FALSE /\ filtered = (active # {})
    /\ found = {} /\ pc = "firewalld"
    /\ plan = [cidrs |-> {}, rdp |-> FALSE] /\ todo = {} /\ base = <<>>
    /\ finished = FALSE /\ closed = FALSE
    /\ rules \in (IF "ufw" \in installed THEN PriorRules ELSE {<<>>})
    /\ default \in (IF "ufw" \in installed THEN {"allow", "deny"} ELSE {"deny"})
    /\ permanent \in (IF "firewalld" \in installed THEN PriorZones ELSE {[ports |-> {}, sources |-> {}]})
    /\ runtime \in (IF "firewalld" \in active THEN PriorZones ELSE {permanent})
    \* What the operator has made permanent, and not yet reloaded, was asked for.
    /\ asked = {a \in Client \X Port :
                   ZoneLets(permanent, a[1], a[2]) /\ ~ZoneLets(runtime, a[1], a[2])}
    /\ scriptRuns = 0 /\ changes = 0

------------------------------------------------------------------------------
(* The probe.  A command fails that takes longer than 3 s, or needs root. *)

Finds(kind, isActive) == found' = {[kind |-> kind, active |-> isActive]} /\ pc' = "idle"
Tries(tool) == pc' = tool /\ UNCHANGED found
ReadsOnly ==
    UNCHANGED <<installed, active, filtered, script, ufw, firewalld, changes>>

\* Mutant: a firewalld that is installed counts as active.
ProbeInstalledFirewalld ==
    /\ pc = "firewalld" /\ ReadsOnly /\ UNCHANGED disturbed
    /\ IF "firewalld" \in installed THEN Finds("firewalld", TRUE) ELSE Tries("ufw")

\* Mutant: a firewall-cmd that fails is passed over, as ufw is.
ProbeFirewalldFallsThrough ==
    /\ pc = "firewalld" /\ ReadsOnly
    /\ IF "firewalld" \in installed
       THEN \/ Finds("firewalld", "firewalld" \in active) /\ UNCHANGED disturbed
            \/ Tries("ufw") /\ disturbed' = TRUE
       ELSE Tries("ufw") /\ UNCHANGED disturbed

\* _probe_firewalld: installed, it answers for the host whatever its state is.
ProbeFirewalld ==
    /\ pc = "firewalld" /\ ReadsOnly
    /\ IF "firewalld" \in installed
       THEN \/ Finds("firewalld", "firewalld" \in active) /\ UNCHANGED disturbed
            \/ Finds("firewalld", FALSE) /\ disturbed' = TRUE
       ELSE Tries("ufw") /\ UNCHANGED disturbed

\* Mutant: whatever ufw status says is taken for an active ufw.
ProbeUfwAlwaysActive ==
    /\ pc = "ufw" /\ ReadsOnly
    /\ IF "ufw" \in installed
       THEN \/ Finds("ufw", TRUE) /\ UNCHANGED disturbed
            \/ Tries("iptables") /\ disturbed' = TRUE
       ELSE Tries("iptables") /\ UNCHANGED disturbed

\* _probe_ufw: if ufw status fails, the next tool is asked.
ProbeUfw ==
    /\ pc = "ufw" /\ ReadsOnly
    /\ IF "ufw" \in installed
       THEN \/ Finds("ufw", "ufw" \in active) /\ UNCHANGED disturbed
            \/ Tries("iptables") /\ disturbed' = TRUE
       ELSE Tries("iptables") /\ UNCHANGED disturbed

\* _probe_iptables: the rules of ufw are iptables rules.
ProbeIptables ==
    /\ pc = "iptables" /\ ReadsOnly
    /\ IF "iptables" \in installed
       THEN \/ Finds("iptables", active # {}) /\ UNCHANGED disturbed
            \/ Finds("none", FALSE) /\ disturbed' = TRUE
       ELSE Finds("none", FALSE) /\ UNCHANGED disturbed

ServiceChanges ==
    /\ Probing \/ scriptRuns = 0
    /\ changes < MaxChanges /\ changes' = changes + 1
    /\ \E t \in installed :
          /\ active' = IF t \in active THEN active \ {t} ELSE active \union {t}
          /\ runtime' = IF t = "firewalld" THEN permanent ELSE runtime
    /\ IF Probing THEN disturbed' = TRUE /\ filtered' = (filtered \/ active' # {})
       ELSE UNCHANGED <<disturbed, filtered>>
    /\ UNCHANGED <<installed, found, pc, script, ufw, permanent>>

------------------------------------------------------------------------------
(* Who gets through *)

Matches(r, s, p) == s \in r.from /\ p \in r.ports
\* The first rule that matches decides.
UfwLets(s, p) ==
    IF \E i \in DOMAIN rules : Matches(rules[i], s, p)
    THEN \E i \in DOMAIN rules :
            /\ Matches(rules[i], s, p) /\ rules[i].action = "allow"
            /\ \A k \in 1..i-1 : ~Matches(rules[k], s, p)
    ELSE default = "allow"
FirewalldLets(s, p) == ZoneLets(runtime, s, p)
Reaches(s, p) ==
    /\ "ufw" \in active => UfwLets(s, p)
    /\ "firewalld" \in active => FirewalldLets(s, p)

\* ufw keeps a rule in its place and changes its action, or adds it at the end.
Same(q, r) == q.from = r.from /\ q.ports = r.ports /\ q.written = r.written
Added(rs, r) ==
    IF \E i \in DOMAIN rs : Same(rs[i], r)
    THEN [i \in DOMAIN rs |-> IF Same(rs[i], r) THEN r ELSE rs[i]]
    ELSE Append(rs, r)
UfwAdd(r) == rules' = Added(rules, r)
Match(action, from, port) ==
    [action |-> action, from |-> from, ports |-> {port}, written |-> "port/tcp"]

------------------------------------------------------------------------------
(* firewall.sh *)

Template == FirewallTemplate([snapshot |-> [firewall |-> found]])

\* What a script is to open: 443, the admin port for its networks (a source of the
\* trusted zone is let in everywhere), and 3389 for the RDP/SMB variant.
Asks(p) ==
    (Client \X {443})
    \union (p.cidrs \X (IF Template = "firewalld" THEN Port ELSE {8443}))
    \union (IF p.rdp THEN Client \X {3389} ELSE {})

\* Mutant: a run takes up the networks the last one did not get to.
StartTakesUp ==
    /\ pc = "idle" /\ scriptRuns < MaxScriptRuns
    /\ scriptRuns' = scriptRuns + 1 /\ finished' = FALSE
    /\ plan' \in [cidrs : SUBSET Addr, rdp : BOOLEAN]
    /\ todo' = todo \union plan'.cidrs /\ base' = rules
    /\ \/ pc' = "idle" /\ UNCHANGED asked
       \/ Template \in installed /\ pc' = "https" /\ asked' = asked \union Asks(plan')
    /\ UNCHANGED <<installed, active, probe, closed, ufw, firewalld, changes>>

\* The stub exits at once; so does a script without its tool or without root.
Start ==
    /\ pc = "idle" /\ scriptRuns < MaxScriptRuns
    /\ scriptRuns' = scriptRuns + 1 /\ finished' = FALSE
    /\ plan' \in [cidrs : SUBSET Addr, rdp : BOOLEAN]
    /\ todo' = plan'.cidrs /\ base' = rules
    /\ \/ pc' = "idle" /\ UNCHANGED asked
       \/ Template \in installed /\ pc' = "https" /\ asked' = asked \union Asks(plan')
    /\ UNCHANGED <<installed, active, probe, closed, ufw, firewalld, changes>>

ByUfw == Template = "ufw" /\ UNCHANGED permanent
\* Without its daemon firewall-cmd fails.
ByFirewalld == Template = "firewalld" /\ "firewalld" \in active /\ UNCHANGED rules
Adds ==
    UNCHANGED <<installed, active, probe, plan, base, finished, closed, asked, scriptRuns,
                default, runtime, changes>>

\* Mutant: the deny is put before the networks it is to spare.
AllowHttpsDenyFirst ==
    /\ pc = "https" /\ pc' = "admin"
    /\ \/ ByUfw /\ UfwAdd(Match("deny", Client, 8443))
       \/ ByFirewalld /\ permanent' = [permanent EXCEPT !.ports = @ \union {443}]
    /\ Adds /\ UNCHANGED todo

AllowHttps ==
    /\ pc = "https" /\ pc' = "admin"
    /\ \/ ByUfw /\ UfwAdd(Match("allow", Client, 443))
       \/ ByFirewalld /\ permanent' = [permanent EXCEPT !.ports = @ \union {443}]
    /\ Adds /\ UNCHANGED todo

\* Mutant: the admin port is opened in the zone, not for the network.
AllowAdminPublic ==
    /\ pc = "admin" /\ UNCHANGED pc
    /\ \E c \in todo :
          /\ todo' = todo \ {c}
          /\ \/ ByUfw /\ UfwAdd(Match("allow", {c}, 8443))
             \/ ByFirewalld /\ permanent' = [permanent EXCEPT !.ports = @ \union {8443}]
    /\ Adds

\* One network after the other.  That firewalld also opens the port in the trusted
\* zone, which takes everything as it is, changes nothing.
AllowAdmin ==
    /\ pc = "admin" /\ UNCHANGED pc
    /\ \E c \in todo :
          /\ todo' = todo \ {c}
          /\ \/ ByUfw /\ UfwAdd(Match("allow", {c}, 8443))
             \/ ByFirewalld /\ permanent' = [permanent EXCEPT !.sources = @ \union {c}]
    /\ Adds

AllowRdp ==
    /\ pc = "admin" /\ todo = {} /\ pc' = "close"
    /\ IF plan.rdp
       THEN \/ ByUfw /\ UfwAdd(Match("allow", Client, 3389))
            \/ ByFirewalld /\ permanent' = [permanent EXCEPT !.ports = @ \union {3389}]
       ELSE UNCHANGED <<rules, permanent>>
    /\ Adds /\ UNCHANGED todo

\* Mutant: ufw is enabled without the deny.
DenyNothing ==
    /\ pc = "close" /\ ByUfw /\ pc' = "enable"
    /\ Adds /\ UNCHANGED <<rules, todo>>

DenyAdmin ==
    /\ pc = "close" /\ ByUfw /\ pc' = "enable"
    /\ UfwAdd(Match("deny", Client, 8443))
    /\ Adds /\ UNCHANGED todo

Finishes ==
    /\ pc' = "idle" /\ finished' = TRUE /\ closed' = TRUE
    /\ UNCHANGED <<installed, probe, plan, todo, base, asked, scriptRuns, ufw, permanent, changes>>

Enable == pc = "enable" /\ active' = active \union {"ufw"} /\ Finishes /\ UNCHANGED runtime

Reload == pc = "close" /\ ByFirewalld /\ runtime' = permanent /\ Finishes /\ UNCHANGED active

\* A command fails (set -e), or the script is killed.
Stops ==
    /\ pc \in {"https", "admin", "close", "enable"} /\ pc' = "idle"
    /\ UNCHANGED <<installed, active, probe, script, ufw, firewalld, changes>>

\* What the comments of the scripts advise where no network is configured.
AdmitByHand(c) ==
    \/ /\ Template = "ufw" /\ UfwAdd(Match("allow", {c}, 8443)) /\ UNCHANGED permanent
       /\ asked' = asked \union {<<c, 8443>>}
    \/ /\ Template = "firewalld" /\ UNCHANGED rules
       /\ permanent' = [permanent EXCEPT !.sources = @ \union {c}]
       /\ asked' = asked \union ({c} \X Port)

AllowByHand ==
    /\ pc = "idle" /\ changes < MaxChanges /\ changes' = changes + 1
    /\ \E c \in Addr : AdmitByHand(c)
    /\ UNCHANGED <<installed, active, probe, pc, plan, todo, base, finished, closed,
                   scriptRuns, default, runtime>>

\* A restarted daemon reads what is permanent, at any moment of a script too.
FirewalldRestarts ==
    /\ ~Probing /\ scriptRuns > 0 /\ "firewalld" \in active
    /\ changes < MaxChanges /\ changes' = changes + 1
    /\ runtime' = permanent
    /\ UNCHANGED <<installed, active, probe, pc, script, ufw, permanent>>

ProbeNext == ProbeFirewalld \/ ProbeUfw \/ ProbeIptables \/ ServiceChanges
ScriptNext ==
    \/ Start \/ AllowHttps \/ AllowAdmin \/ AllowRdp \/ DenyAdmin \/ Enable \/ Reload
    \/ Stops \/ AllowByHand \/ FirewalldRestarts
Ends == pc = "idle" /\ scriptRuns = MaxScriptRuns /\ UNCHANGED vars

Next == ProbeNext \/ ScriptNext \/ Ends
Spec == Init /\ [][Next]_vars

------------------------------------------------------------------------------
TypeOK ==
    /\ installed \subseteq Tool /\ active \subseteq installed
    /\ {disturbed, filtered, finished, closed} \subseteq BOOLEAN
    /\ found \in Optional([kind : FirewallKind, active : BOOLEAN])
    /\ pc \in Tool \union {"idle", "https", "admin", "close", "enable"}
    /\ plan \in [cidrs : SUBSET Addr, rdp : BOOLEAN] /\ todo \subseteq plan.cidrs
    /\ {rules, base} \subseteq Seq(UfwRule) /\ default \in {"allow", "deny"}
    /\ permanent \in Zones /\ runtime \in Zones
    /\ asked \subseteq Client \X Port
    /\ scriptRuns \in 0..MaxScriptRuns /\ changes \in 0..MaxChanges

\* firewall.py:1, hard_stops.py:60-68: rule 1 takes the word of the probe.  It lets a
\* host with a public address pass on a filter that was there at some moment of
\* the probe, however services and commands came and went; and if nothing
\* disturbs it, on a host with one tool it sees exactly whether that tool filters.
RuleOneGrounded ==
    LET blocks == FirewallBlocks([firewall |-> found]) IN
    ~Probing =>
        /\ blocks => filtered
        /\ ~disturbed /\ Cardinality(installed) <= 1 /\ changes = 0 /\ scriptRuns = 0 =>
              (blocks <=> active # {})

\* No command of any run, finished or not, first or repeated, lets anyone reach a
\* port but those some script was to admit, or the operator by a rule of his own or
\* by a permanent change he had not reloaded: not between two commands of a script,
\* nor when a reload or a restart brings into force what an earlier one left.
OnlyAskedOpens ==
    [][scriptRuns > 0 =>
          \A s \in Client, p \in Port : Reaches(s, p)' /\ ~Reaches(s, p) => <<s, p>> \in asked']_vars

\* firewall-ufw.sh.j2:38-39: once a script for ufw has run to its end, the admin port
\* is closed to everyone not asked for, whatever policy and rules the host had and
\* whatever later runs are cut short; but for an allow of the host's own that ufw
\* takes for another rule than the deny, and keeps before it.
DenyAll == Match("deny", Client, 8443)
AdminPortCloses ==
    closed /\ Template = "ufw" /\ Reaches("elsewhere", 8443) =>
        \E i \in DOMAIN rules :
            /\ rules[i].action = "allow" /\ Matches(rules[i], "elsewhere", 8443)
            /\ ~Same(rules[i], DenyAll)

\* The rule of rs that decides on c is none of c's own: it keeps c out, or it is
\* the one the script's deny takes the place of.
ShutOut(rs, c) ==
    \E i \in DOMAIN rs :
        /\ Matches(rs[i], c, 8443) /\ \A k \in 1..i-1 : ~Matches(rs[k], c, 8443)
        /\ ~Same(rs[i], Match("allow", {c}, 8443))
        /\ rs[i].action = "deny" \/ Same(rs[i], DenyAll)
\* firewall-ufw.sh.j2:21, firewall-firewalld.sh.j2:21: a run that ends admits every
\* network of its plan, whatever rules the host had and whatever earlier runs left
\* half done, but for one that the rules of ufw it started with shut out; unless
\* both tools filter the host.
AdminsAdmitted ==
    finished =>
        \/ {"ufw", "firewalld"} \subseteq active
        \/ \A c \in plan.cidrs :
               Reaches(c, 8443) \/ (Template = "ufw" /\ ShutOut(base, c))

\* A script that ends never leaves two of ufw and firewalld filtering where there was
\* one: firewalld is asked first and hides an ufw (firewall.py:67).
NoSecondFirewall ==
    [][finished' /\ ~finished /\ {"ufw", "firewalld"} \subseteq active' => active' = active]_vars

\* firewall-ufw.sh.j2:21: "restricted to admin CIDRs only".
AdminCidrsReach == finished => \A c \in plan.cidrs : Reaches(c, 8443)
===============================================================================
