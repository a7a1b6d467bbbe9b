--------------------------- MODULE FirewallProofs ---------------------------
(***************************************************************************)
(* The host's firewall from the probe to repeated scripts, for any         *)
(* networks, any rules and ports a host had before, and any number of      *)
(* script runs and changes.                                                *)
(***************************************************************************)
EXTENDS Firewall, FiniteSetTheorems, WellFoundedInduction, TLAPS

\* The steps of the probe and of the scripts are different things.
ScriptStep == {"https", "admin", "close", "enable"}
Changing == AllowHttps \/ AllowAdmin \/ AllowRdp \/ DenyAdmin

\* A rule is added at the end or takes the place of the one for the same access.
Replaced(r) ==
    /\ Len(rules') = Len(rules)
    /\ \A i \in 1..Len(rules) :
          /\ Same(rules'[i], rules[i])
          /\ rules'[i] = IF Same(rules[i], r) THEN r ELSE rules[i]
    /\ \E i \in 1..Len(rules) : Same(rules[i], r)
Appended(r) ==
    /\ Len(rules') = Len(rules) + 1 /\ rules'[Len(rules) + 1] = r
    /\ \A i \in 1..Len(rules) : rules'[i] = rules[i]
    /\ \A i \in 1..Len(rules) : ~Same(rules[i], r)
LEMMA UfwAddCases ==
    ASSUME NEW r \in UfwRule, rules \in Seq(UfwRule), UfwAdd(r)
    PROVE  /\ rules' \in Seq(UfwRule) /\ Len(rules) \in Nat
           /\ DOMAIN rules = 1..Len(rules) /\ DOMAIN rules' = 1..Len(rules')
           /\ Replaced(r) \/ Appended(r)
<1>1. DOMAIN rules = 1..Len(rules) /\ Len(rules) \in Nat
  OBVIOUS
<1>2. CASE \E i \in DOMAIN rules : Same(rules[i], r)
  <2>1. rules' = [i \in DOMAIN rules |-> IF Same(rules[i], r) THEN r ELSE rules[i]]
    BY <1>2 DEF UfwAdd, Added
  <2>2. rules' = [i \in 1..Len(rules) |-> IF Same(rules[i], r) THEN r ELSE rules[i]]
    BY <1>1, <2>1
  <2>3. \A i \in 1..Len(rules) : rules[i] \in UfwRule
    OBVIOUS
  <2>4. rules' \in Seq(UfwRule) /\ Len(rules') = Len(rules)
    BY <1>1, <2>2, <2>3
  <2>5. \A k \in 1..Len(rules) : Same(rules'[k], rules[k])
    BY <2>2 DEF Same
  <2> QED BY <1>1, <1>2, <2>2, <2>4, <2>5 DEF Replaced
<1>3. CASE ~\E i \in DOMAIN rules : Same(rules[i], r)
  <2>1. rules' = Append(rules, r)
    BY <1>3 DEF UfwAdd, Added
  <2>2. rules' \in Seq(UfwRule) /\ Len(rules') = Len(rules) + 1
    BY <1>1, <2>1
  <2>3. rules'[Len(rules) + 1] = r /\ \A i \in 1..Len(rules) : rules'[i] = rules[i]
    BY <1>1, <2>1
  <2> QED BY <1>1, <1>3, <2>2, <2>3 DEF Appended
<1> QED BY <1>2, <1>3

\* The rules the scripts and the operator add are rules.
LEMMA RuleTypes ==
    /\ \A a \in {"allow", "deny"}, p \in Port : Match(a, Client, p) \in UfwRule
    /\ \A a \in {"allow", "deny"}, c \in Addr, p \in Port : Match(a, {c}, p) \in UfwRule
BY DEF Match, UfwRule, Client

\* What a command of a script leaves alone.
LEMMA CommandLeaves ==
    ASSUME Changing
    PROVE  /\ UNCHANGED <<installed, active, disturbed, filtered, found, plan, base, finished, closed,
                         asked, scriptRuns, default, runtime, changes>>
           /\ pc' \in {"admin", "close", "enable"}
<1>1. UNCHANGED <<installed, active, disturbed, filtered, found, plan, base, finished, closed,
                  asked, scriptRuns, default, runtime, changes>>
  BY DEF Changing, AllowHttps, AllowAdmin, AllowRdp, DenyAdmin, Adds, probe
<1>2. pc' \in {"admin", "close", "enable"}
  BY DEF Changing, AllowHttps, AllowAdmin, AllowRdp, DenyAdmin
<1> QED BY <1>1, <1>2

\* What the command that admits a network does, and what the operator does by hand.
Admit(c) == Match("allow", {c}, 8443)
Trusting(z, c) == [z EXCEPT !.sources = @ \union {c}]
LEMMA AdminCommand ==
    ASSUME AllowAdmin
    PROVE  \E c \in todo :
              /\ todo' = todo \ {c}
              /\ \/ Template = "ufw" /\ rules' = Added(rules, Admit(c)) /\ permanent' = permanent
                 \/ Template = "firewalld" /\ rules' = rules /\ permanent' = Trusting(permanent, c)
<1>1. PICK c \in todo :
              /\ todo' = todo \ {c}
              /\ \/ ByUfw /\ UfwAdd(Match("allow", {c}, 8443))
                 \/ ByFirewalld /\ permanent' = [permanent EXCEPT !.sources = @ \union {c}]
  BY DEF AllowAdmin
<1>2. \/ Template = "ufw" /\ rules' = Added(rules, Admit(c)) /\ permanent' = permanent
      \/ Template = "firewalld" /\ rules' = rules /\ permanent' = Trusting(permanent, c)
  BY <1>1 DEF ByUfw, ByFirewalld, UfwAdd, Admit, Trusting
<1> QED BY <1>1, <1>2
LEMMA HandCommand ==
    ASSUME AllowByHand
    PROVE  \E c \in Addr :
              \/ /\ Template = "ufw" /\ rules' = Added(rules, Admit(c)) /\ permanent' = permanent
                 /\ asked' = asked \union {<<c, 8443>>}
              \/ /\ Template = "firewalld" /\ rules' = rules /\ permanent' = Trusting(permanent, c)
                 /\ asked' = asked \union ({c} \X Port)
<1>1. PICK c \in Addr : AdmitByHand(c)
  BY DEF AllowByHand
<1>2. \/ /\ Template = "ufw" /\ rules' = Added(rules, Admit(c)) /\ permanent' = permanent
         /\ asked' = asked \union {<<c, 8443>>}
      \/ /\ Template = "firewalld" /\ rules' = rules /\ permanent' = Trusting(permanent, c)
         /\ asked' = asked \union ({c} \X Port)
  BY <1>1 DEF AdmitByHand, UfwAdd, Admit, Trusting
<1> QED BY <1>2

\* A network is added to the sources of a zone.
LEMMA TrustingTypes ==
    ASSUME NEW z \in Zones, NEW c \in Addr
    PROVE  /\ Trusting(z, c) \in Zones
           /\ Trusting(z, c).ports = z.ports /\ Trusting(z, c).sources = z.sources \union {c}
BY DEF Trusting, Zones

\* What a script asks for is asked of clients and ports.
LEMMA AsksTypes ==
    ASSUME NEW p \in [cidrs : SUBSET Addr, rdp : BOOLEAN]
    PROVE  Asks(p) \subseteq Client \X Port
BY DEF Asks, Client, Port

\* The probe ends with a finding of its type.
LEMMA FindTypes ==
    ASSUME NEW kind \in FirewallKind, NEW isActive \in BOOLEAN
    PROVE  {[kind |-> kind, active |-> isActive]} \in Optional([kind : FirewallKind, active : BOOLEAN])
BY DEF Optional

\* What the probe leaves alone.
LEMMA ProbeStep ==
    ASSUME TypeOK, ProbeFirewalld \/ ProbeUfw \/ ProbeIptables
    PROVE  TypeOK'
<1>1. /\ UNCHANGED <<installed, active, filtered, plan, todo, base, finished, closed, asked,
                     scriptRuns, rules, default, permanent, runtime, changes>>
      /\ disturbed' \in {disturbed, TRUE} /\ pc' \in Tool \union {"idle"}
  BY DEF ProbeFirewalld, ProbeUfw, ProbeIptables, ReadsOnly, Finds, Tries, script, ufw,
         firewalld, Tool
<1>2. \/ UNCHANGED found
      \/ \E kind \in FirewallKind, isActive \in BOOLEAN :
            found' = {[kind |-> kind, active |-> isActive]}
  <2>1. {"firewalld", "ufw", "iptables", "none"} \subseteq FirewallKind
    BY DEF FirewallKind
  <2>2. {"firewalld" \in active, "ufw" \in active, active # {}, FALSE} \subseteq BOOLEAN
    OBVIOUS
  <2>3. CASE ProbeFirewalld
    BY <2>1, <2>2, <2>3 DEF ProbeFirewalld, Finds, Tries
  <2>4. CASE ProbeUfw
    BY <2>1, <2>2, <2>4 DEF ProbeUfw, Finds, Tries
  <2>5. CASE ProbeIptables
    BY <2>1, <2>2, <2>5 DEF ProbeIptables, Finds, Tries
  <2> QED BY <2>3, <2>4, <2>5
<1>3. found' \in Optional([kind : FirewallKind, active : BOOLEAN])
  BY <1>2, FindTypes DEF TypeOK
<1> QED BY <1>1, <1>3 DEF TypeOK

\* Whatever is added is a rule, a port or a source.
LEMMA AddStep ==
    ASSUME TypeOK, Changing
    PROVE  TypeOK'
<1>1. /\ UNCHANGED <<installed, active, disturbed, filtered, found, plan, base, finished, closed,
                     asked, scriptRuns, default, runtime, changes>>
      /\ pc' \in {"admin", "close", "enable"}
  BY CommandLeaves
<1>4. todo' \subseteq todo
  <2>1. CASE AllowAdmin
    BY <2>1, AdminCommand
  <2>2. CASE AllowHttps \/ AllowRdp \/ DenyAdmin
    BY <2>2 DEF AllowHttps, AllowRdp, DenyAdmin
  <2> QED BY <2>1, <2>2 DEF Changing
<1>2. rules' \in Seq(UfwRule)
  <2>1. \/ UNCHANGED rules \/ UfwAdd(Match("allow", Client, 443)) \/ UfwAdd(Match("allow", Client, 3389))
        \/ UfwAdd(Match("deny", Client, 8443))
        \/ \E c \in todo : rules' = Added(rules, Admit(c))
    <3>1. CASE AllowAdmin
      BY <3>1, AdminCommand
    <3>2. CASE AllowHttps \/ AllowRdp \/ DenyAdmin
      BY <3>2 DEF AllowHttps, AllowRdp, DenyAdmin, ByFirewalld
    <3> QED BY <3>1, <3>2 DEF Changing
  <2>2. todo \subseteq Addr /\ rules \in Seq(UfwRule)
    BY DEF TypeOK
  <2>3. {443, 3389, 8443} \subseteq Port
    BY DEF Port
  <2>4. ASSUME NEW r \in UfwRule, UfwAdd(r) PROVE rules' \in Seq(UfwRule)
    BY <2>2, <2>4, UfwAddCases
  <2>5. /\ {Match("allow", Client, 443), Match("allow", Client, 3389), Match("deny", Client, 8443)} \subseteq UfwRule
        /\ \A c \in todo : Admit(c) \in UfwRule
    BY <2>2, <2>3, RuleTypes DEF Admit
  <2>6. \A r \in UfwRule : rules' = Added(rules, r) => rules' \in Seq(UfwRule)
    BY <2>4 DEF UfwAdd
  <2> QED BY <2>1, <2>2, <2>5, <2>6 DEF UfwAdd
<1>3. permanent' \in Zones
  <2>1. todo \subseteq Addr /\ permanent \in Zones
    BY DEF TypeOK
  <2>2. \/ UNCHANGED permanent
        \/ \E p \in Port : permanent' = [permanent EXCEPT !.ports = @ \union {p}]
        \/ \E c \in todo : permanent' = Trusting(permanent, c)
    <3>1. CASE AllowAdmin
      BY <3>1, AdminCommand
    <3>2. CASE AllowHttps \/ AllowRdp \/ DenyAdmin
      BY <3>2 DEF AllowHttps, AllowRdp, DenyAdmin, ByUfw, Port
    <3> QED BY <3>1, <3>2 DEF Changing
  <2>3. \A p \in Port : [permanent EXCEPT !.ports = @ \union {p}] \in Zones
    BY <2>1 DEF Zones
  <2> QED BY <2>1, <2>2, <2>3, TrustingTypes
<1> QED BY <1>1, <1>2, <1>3, <1>4 DEF TypeOK

\* A script past its checks has its tool, and only ufw is ever enabled.
ToolThere ==
    /\ pc \in ScriptStep => Template \in installed
    /\ pc = "enable" => Template = "ufw"

\* What a script starts with, and what its end, wherever it is, leaves.
LEMMA RunStep ==
    ASSUME TypeOK, ToolThere, Start \/ Enable \/ Reload \/ Stops
    PROVE  TypeOK'
<1>1. CASE Start
  <2>1. plan' \in [cidrs : SUBSET Addr, rdp : BOOLEAN] /\ todo' = plan'.cidrs
    BY <1>1 DEF Start
  <2>2. asked' \in {asked, asked \union Asks(plan')} /\ pc' \in {"idle", "https"}
    BY <1>1 DEF Start
  <2>3. asked' \subseteq Client \X Port
    BY <2>1, <2>2, AsksTypes DEF TypeOK
  <2>4. scriptRuns' \in 0..MaxScriptRuns /\ finished' = FALSE /\ base' = rules
    BY <1>1, FirewallBounds DEF Start, TypeOK
  <2>5. UNCHANGED <<installed, active, disturbed, filtered, found, closed, rules, default,
                    permanent, runtime, changes>>
    BY <1>1 DEF Start, probe, ufw, firewalld
  <2> QED BY <2>1, <2>2, <2>3, <2>4, <2>5 DEF TypeOK
<1>2. CASE Enable \/ Reload
  <2>1. /\ UNCHANGED <<installed, disturbed, filtered, found, plan, todo, base, asked, scriptRuns,
                       rules, default, permanent, changes>>
        /\ pc' = "idle" /\ finished' = TRUE /\ closed' = TRUE
    BY <1>2 DEF Enable, Reload, Finishes, probe, ufw
  <2>2. runtime' \in {runtime, permanent}
    BY <1>2 DEF Enable, Reload
  <2>3. active' \subseteq installed
    BY <1>2 DEF Enable, Reload, TypeOK, ToolThere, ScriptStep
  <2> QED BY <2>1, <2>2, <2>3 DEF TypeOK
<1>3. CASE Stops
  BY <1>3 DEF Stops, TypeOK, probe, script, ufw, firewalld
<1> QED BY <1>1, <1>2, <1>3

\* Services and rules change within their types.
LEMMA ChangeStep ==
    ASSUME TypeOK, ServiceChanges \/ AllowByHand \/ FirewalldRestarts
    PROVE  TypeOK'
<1>1. changes' \in 0..MaxChanges
  BY FirewallBounds DEF ServiceChanges, AllowByHand, FirewalldRestarts, TypeOK
<1>2. CASE ServiceChanges
  <2>1. /\ UNCHANGED <<installed, found, pc, plan, todo, base, finished, closed, asked,
                       scriptRuns, rules, default, permanent>>
        /\ active' \subseteq installed /\ runtime' \in {runtime, permanent}
    BY <1>2 DEF ServiceChanges, TypeOK, script, ufw
  <2>2. {disturbed', filtered'} \subseteq BOOLEAN
    BY <1>2 DEF ServiceChanges, TypeOK
  <2> QED BY <1>1, <2>1, <2>2 DEF TypeOK
<1>3. CASE AllowByHand
  <2>1. PICK c \in Addr :
          \/ /\ rules' = Added(rules, Admit(c)) /\ permanent' = permanent
             /\ asked' = asked \union {<<c, 8443>>}
          \/ /\ rules' = rules /\ permanent' = Trusting(permanent, c)
             /\ asked' = asked \union ({c} \X Port)
    BY <1>3, HandCommand
  <2>2. rules' \in Seq(UfwRule)
    <3>1. 8443 \in Port /\ rules \in Seq(UfwRule)
      BY DEF Port, TypeOK
    <3>2. Admit(c) \in UfwRule
      BY <3>1, RuleTypes DEF Admit
    <3> QED BY <2>1, <3>1, <3>2, UfwAddCases DEF UfwAdd
  <2>3. permanent' \in Zones
    BY <2>1, TrustingTypes DEF TypeOK
  <2>4. asked' \subseteq Client \X Port
    BY <2>1 DEF TypeOK, Client, Port
  <2>5. UNCHANGED <<installed, active, disturbed, filtered, found, pc, plan, todo, base, finished,
                    closed, scriptRuns, default, runtime>>
    BY <1>3 DEF AllowByHand, probe
  <2> QED BY <1>1, <2>2, <2>3, <2>4, <2>5 DEF TypeOK
<1>4. CASE FirewalldRestarts
  BY <1>1, <1>4 DEF FirewalldRestarts, TypeOK, probe, script, ufw
<1> QED BY <1>2, <1>3, <1>4

\* A step belongs to one of these four.
LEMMA NextCases ==
    [Next]_vars =>
        \/ ProbeFirewalld \/ ProbeUfw \/ ProbeIptables
        \/ Changing
        \/ Start \/ Enable \/ Reload \/ Stops
        \/ ServiceChanges \/ AllowByHand \/ FirewalldRestarts
        \/ UNCHANGED vars
BY DEF Next, ProbeNext, ScriptNext, Ends, Changing

\* A script stops at once without its tool, and no step removes one.
LEMMA ToolStep == ToolThere /\ [Next]_vars => ToolThere'
<1> SUFFICES ASSUME ToolThere, [Next]_vars PROVE ToolThere'
  OBVIOUS
<1> USE DEF ToolThere, ScriptStep
<1>1. CASE ProbeFirewalld \/ ProbeUfw \/ ProbeIptables
  BY <1>1 DEF ProbeFirewalld, ProbeUfw, ProbeIptables, Finds, Tries
<1>2. found' = found => Template' = Template
  BY DEF Template
<1>3. CASE Changing
  <2>1. UNCHANGED <<installed, found>> /\ pc \in ScriptStep
    BY <1>3 DEF Changing, AllowHttps, AllowAdmin, AllowRdp, DenyAdmin, Adds, probe
  <2>2. pc' = "enable" => Template = "ufw"
    BY <1>3 DEF Changing, AllowHttps, AllowAdmin, AllowRdp, DenyAdmin, ByUfw
  <2> QED BY <1>2, <2>1, <2>2
<1>4. CASE Start
  <2>1. UNCHANGED <<installed, found>>
    BY <1>4 DEF Start, probe
  <2>2. pc' = "idle" \/ (pc' = "https" /\ Template \in installed)
    BY <1>4 DEF Start
  <2> QED BY <1>2, <2>1, <2>2
<1>5. CASE Enable \/ Reload \/ Stops
  BY <1>5 DEF Enable, Reload, Finishes, Stops
<1>6. CASE ServiceChanges \/ AllowByHand \/ FirewalldRestarts \/ UNCHANGED vars
  <2>1. UNCHANGED <<installed, found, pc>>
    BY <1>6 DEF ServiceChanges, AllowByHand, FirewalldRestarts, vars, probe
  <2> QED BY <1>2, <2>1
<1> QED BY <1>1, <1>3, <1>4, <1>5, <1>6, NextCases

\* The host, its rules and what scripts and probe remember keep their types, for any
\* number of runs.
THEOREM TypeCorrect == Spec => []TypeOK
<1>1. Init => TypeOK
  <2> SUFFICES ASSUME Init PROVE TypeOK
    OBVIOUS
  <2>1. rules \in Seq(UfwRule) /\ default \in {"allow", "deny"}
    <3>1. <<>> \in Seq(UfwRule)
      OBVIOUS
    <3>2. rules \in PriorRules \/ rules = <<>>
      BY DEF Init
    <3>3. default \in {"allow", "deny"}
      BY DEF Init
    <3> QED BY <3>1, <3>2, <3>3, PriorAssumption
  <2>2. permanent \in Zones /\ runtime \in Zones
    <3>1. [ports |-> {}, sources |-> {}] \in Zones
      BY DEF Zones
    <3>2. permanent \in PriorZones \/ permanent = [ports |-> {}, sources |-> {}]
      BY DEF Init
    <3>3. runtime \in PriorZones \/ runtime = permanent
      BY DEF Init
    <3> QED BY <3>1, <3>2, <3>3, PriorAssumption
  <2>3. found \in Optional([kind : FirewallKind, active : BOOLEAN])
    BY DEF Init, Optional
  <2>4. pc = "firewalld" /\ base = <<>> /\ base \in Seq(UfwRule)
    BY DEF Init
  <2>5. /\ installed \subseteq Tool /\ active \subseteq installed
        /\ {disturbed, filtered, finished, closed} \subseteq BOOLEAN
        /\ plan \in [cidrs : SUBSET Addr, rdp : BOOLEAN] /\ todo = {}
        /\ scriptRuns = 0 /\ changes = 0
    BY PriorAssumption DEF Init
  <2>6. asked \subseteq Client \X Port
    BY DEF Init
  <2> QED BY <2>1, <2>2, <2>3, <2>4, <2>5, <2>6, FirewallBounds DEF TypeOK, Tool
<1>2. TypeOK /\ UNCHANGED vars => TypeOK'
  BY DEF TypeOK, vars, probe, script, ufw, firewalld
<1>3. Init => ToolThere
  BY DEF Init, ToolThere, ScriptStep
<1>4. TypeOK /\ ToolThere /\ [Next]_vars => TypeOK'
  BY <1>2, NextCases, ProbeStep, AddStep, RunStep, ChangeStep
<1> QED BY <1>1, <1>3, <1>4, ToolStep, PTL DEF Spec

------------------------------------------------------------------------------
\* The probe asks ufw and iptables only on hosts without firewalld; scripts start
\* after the probe.
OrderInv ==
    /\ Probing => scriptRuns = 0 /\ found = {} /\ ~closed /\ ~finished
    /\ pc \in {"ufw", "iptables"} => "firewalld" \notin installed
    /\ pc \in ScriptStep \/ closed => scriptRuns > 0
    /\ finished => pc = "idle" /\ closed
    /\ Template = "ufw" => "firewalld" \notin installed

\* The template follows the finding.
LEMMA TemplateOf ==
    ASSUME NEW fs
    PROVE  LET T == FirewallTemplate([snapshot |-> [firewall |-> fs]]) IN
           /\ fs = {} => T = "unsupported"
           /\ T \in {"ufw", "firewalld"} => \E f \in fs : f.kind = T
<1> DEFINE c == [snapshot |-> [firewall |-> fs]]
           known == {f.kind : f \in c.snapshot.firewall} \intersect {"ufw", "firewalld"}
<1>1. FirewallTemplate(c) = IF known = {} THEN "unsupported" ELSE CHOOSE k \in known : TRUE
  BY DEF FirewallTemplate
<1>2. known # {} => (CHOOSE k \in known : TRUE) \in known
  OBVIOUS
<1>3. c.snapshot.firewall = fs
  OBVIOUS
<1>4. (fs = {} => known = {}) /\ \A k \in known : \E f \in fs : f.kind = k
  BY <1>3
<1> HIDE DEF known, c
<1>5. /\ fs = {} => FirewallTemplate(c) = "unsupported"
      /\ FirewallTemplate(c) \in {"ufw", "firewalld"} =>
            \E f \in fs : f.kind = FirewallTemplate(c)
  BY <1>1, <1>2, <1>4
<1> QED BY <1>5 DEF c

\* The probe keeps its order, and a script runs only when it has ended.
LEMMA OrderStep == TypeOK /\ OrderInv /\ [Next]_vars => OrderInv'
<1> SUFFICES ASSUME TypeOK, OrderInv, [Next]_vars PROVE OrderInv'
  OBVIOUS
<1> USE DEF OrderInv, Probing, Tool, ScriptStep
<1>1. found' = found => Template' = Template
  BY DEF Template
<1>2. (found' = {} => Template' = "unsupported")
      /\ (Template' \in {"ufw", "firewalld"} => \E f \in found' : f.kind = Template')
  BY TemplateOf DEF Template
<1>3. CASE ProbeFirewalld
  <2>1. UNCHANGED <<installed, scriptRuns, closed, finished>> /\ pc = "firewalld"
    BY <1>3 DEF ProbeFirewalld, ReadsOnly, script
  <2>2. \/ pc' = "idle" /\ \E a : found' = {[kind |-> "firewalld", active |-> a]}
        \/ pc' = "ufw" /\ found' = found /\ "firewalld" \notin installed
    BY <1>3 DEF ProbeFirewalld, Finds, Tries
  <2> QED BY <1>1, <1>2, <2>1, <2>2
<1>4. CASE ProbeUfw \/ ProbeIptables
  <2>1. UNCHANGED <<installed, scriptRuns, closed, finished>> /\ pc \in {"ufw", "iptables"}
    BY <1>4 DEF ProbeUfw, ProbeIptables, ReadsOnly, script
  <2>2. pc' = "idle" \/ (pc' = "iptables" /\ found' = found)
    BY <1>4 DEF ProbeUfw, ProbeIptables, Finds, Tries
  <2> QED BY <1>1, <2>1, <2>2
<1>5. CASE Changing
  <2>1. UNCHANGED <<installed, scriptRuns, closed, finished, found>> /\ pc \in ScriptStep
        /\ pc' \in ScriptStep
    BY <1>5 DEF Changing, AllowHttps, AllowAdmin, AllowRdp, DenyAdmin, Adds, probe
  <2> QED BY <1>1, <2>1
<1>6. CASE Start
  <2>1. UNCHANGED <<installed, closed, found>> /\ ~finished' /\ pc' \in {"idle", "https"}
        /\ scriptRuns' = scriptRuns + 1 /\ scriptRuns \in Nat
    BY <1>6, FirewallBounds DEF Start, probe, TypeOK
  <2> QED BY <1>1, <2>1
<1>7. CASE Enable \/ Reload
  <2>1. UNCHANGED <<installed, scriptRuns, found>> /\ closed' /\ pc' = "idle" /\ pc \in ScriptStep
    BY <1>7 DEF Enable, Reload, Finishes, probe
  <2> QED BY <1>1, <2>1
<1>8. CASE Stops
  <2>1. UNCHANGED <<installed, scriptRuns, found, closed, finished>> /\ pc' = "idle"
    BY <1>8 DEF Stops, probe, script
  <2> QED BY <1>1, <2>1
<1>9. CASE ServiceChanges \/ AllowByHand \/ FirewalldRestarts \/ UNCHANGED vars
  <2>1. UNCHANGED <<installed, scriptRuns, found, closed, finished, pc>>
    BY <1>9 DEF ServiceChanges, AllowByHand, FirewalldRestarts, vars, probe, script
  <2> QED BY <1>1, <2>1
<1> QED BY <1>3, <1>4, <1>5, <1>6, <1>7, <1>8, <1>9, NextCases

\* Nothing has been found before the probe, and no script has run.
LEMMA OrderCorrect == Spec => []OrderInv
<1>1. Init => OrderInv
  <2>1. found = {} => Template = "unsupported"
    BY TemplateOf DEF Template
  <2> QED BY <2>1 DEF Init, OrderInv, Probing, Tool, ScriptStep
<1> QED BY <1>1, OrderStep, TypeCorrect, PTL DEF Spec

\* firewall.sh never turns a second firewall on: ufw is enabled only where firewalld,
\* which the probe asks first, is not installed (firewall.py:67).
THEOREM OneFirewall == Spec => NoSecondFirewall
<1>1. TypeOK /\ ToolThere /\ OrderInv /\ [Next]_vars
      => [finished' /\ ~finished /\ {"ufw", "firewalld"} \subseteq active' => active' = active]_vars
  <2> SUFFICES ASSUME TypeOK, ToolThere, OrderInv, [Next]_vars, finished', ~finished,
                      {"ufw", "firewalld"} \subseteq active'
               PROVE  active' = active
    OBVIOUS
  <2>1. CASE Enable
    <3>1. active' = active \union {"ufw"} /\ Template = "ufw"
      BY <2>1 DEF Enable, ToolThere
    <3>2. "firewalld" \in installed
      BY <3>1 DEF TypeOK
    <3> QED BY <3>1, <3>2 DEF OrderInv
  <2>2. CASE Reload
    BY <2>2 DEF Reload
  <2>3. CASE ~(Enable \/ Reload)
    <3>1. CASE ProbeFirewalld \/ ProbeUfw \/ ProbeIptables
      BY <3>1 DEF ProbeFirewalld, ProbeUfw, ProbeIptables, ReadsOnly
    <3>2. CASE Changing
      <4>1. Adds
        BY <3>2 DEF Changing, AllowHttps, AllowAdmin, AllowRdp, DenyAdmin
      <4> QED BY <4>1 DEF Adds
    <3>3. CASE Start \/ Stops
      BY <3>3 DEF Start, Stops
    <3>4. CASE ServiceChanges \/ FirewalldRestarts \/ UNCHANGED vars
      <4>1. UNCHANGED finished
        BY <3>4 DEF ServiceChanges, FirewalldRestarts, script, vars
      <4> QED BY <4>1
    <3>5. CASE AllowByHand
      BY <3>5 DEF AllowByHand
    <3> QED BY <2>3, <3>1, <3>2, <3>3, <3>4, <3>5, NextCases
  <2> QED BY <2>1, <2>2, <2>3
<1>2. Init => ToolThere
  BY DEF Init, ToolThere, ScriptStep
<1> QED BY <1>1, <1>2, TypeCorrect, ToolStep, OrderCorrect, PTL DEF Spec, NoSecondFirewall

------------------------------------------------------------------------------
\* What the probe knows while nothing disturbs it, and what it may say at all.
Single == \A x, y \in installed : x = y
Blocks == FirewallBlocks([firewall |-> found])
GroundInv ==
    /\ Probing /\ active # {} => filtered
    /\ Blocks => filtered
    /\ ~disturbed /\ pc = "iptables" => "ufw" \notin installed
    /\ ~Probing /\ ~disturbed /\ Single /\ changes = 0 /\ scriptRuns = 0 =>
          (Blocks <=> active # {})

\* A finding blocks if it names an active tool.
LEMMA BlocksOf ==
    /\ ~FirewallBlocks([firewall |-> {}])
    /\ \A kind : ~FirewallBlocks([firewall |-> {[kind |-> kind, active |-> FALSE]}])
    /\ \A kind, a : a = TRUE /\ kind # "none" =>
          FirewallBlocks([firewall |-> {[kind |-> kind, active |-> a]}])
<1>1. ~FirewallBlocks([firewall |-> {}])
  BY DEF FirewallBlocks
<1>2. \A kind : ~FirewallBlocks([firewall |-> {[kind |-> kind, active |-> FALSE]}])
  BY DEF FirewallBlocks
<1>3. \A kind : kind # "none" => FirewallBlocks([firewall |-> {[kind |-> kind, active |-> TRUE]}])
  BY DEF FirewallBlocks
<1> QED BY <1>1, <1>2, <1>3

\* Each command of the cascade keeps the finding grounded.
LEMMA GroundStep == TypeOK /\ OrderInv /\ GroundInv /\ [Next]_vars => GroundInv'
<1> SUFFICES ASSUME TypeOK, OrderInv, GroundInv, [Next]_vars PROVE GroundInv'
  OBVIOUS
<1> USE DEF GroundInv, Probing, Tool
<1>1. found' = found => Blocks' = Blocks
  BY DEF Blocks
<1>3. active \subseteq installed /\ installed \subseteq {"firewalld", "ufw", "iptables"}
  BY DEF TypeOK
<1>4. ASSUME ProbeFirewalld \/ ProbeUfw \/ ProbeIptables
      PROVE  UNCHANGED <<installed, active, filtered, changes, scriptRuns>> /\ Single' = Single
  BY <1>4 DEF ProbeFirewalld, ProbeUfw, ProbeIptables, ReadsOnly, script, Single
<1>5. CASE ProbeFirewalld
  <2>1. pc = "firewalld" /\ found = {}
    BY <1>5 DEF ProbeFirewalld, OrderInv
  <2>2. \/ /\ pc' = "idle" /\ found' = {[kind |-> "firewalld", active |-> "firewalld" \in active]}
           /\ "firewalld" \in installed
        \/ pc' = "idle" /\ found' = {[kind |-> "firewalld", active |-> FALSE]} /\ disturbed'
        \/ pc' = "ufw" /\ found' = found
    BY <1>5 DEF ProbeFirewalld, Finds, Tries
  <2>3. Single /\ "firewalld" \in installed => (active # {} <=> "firewalld" \in active)
    BY <1>3 DEF Single
  <2>4. CASE pc' = "ufw" /\ found' = found
    BY <1>1, <1>4, <1>5, <2>1, <2>4
  <2>5. CASE pc' = "idle" /\ found' = {[kind |-> "firewalld", active |-> FALSE]} /\ disturbed'
    <3>1. ~Blocks'
      BY <2>5, BlocksOf DEF Blocks
    <3> QED BY <2>5, <3>1
  <2>6. CASE /\ pc' = "idle" /\ found' = {[kind |-> "firewalld", active |-> "firewalld" \in active]}
             /\ "firewalld" \in installed
    <3>1. "firewalld" \in active => Blocks'
      BY <2>6, BlocksOf DEF Blocks
    <3>2. "firewalld" \notin active => Blocks' = FALSE
      <4>1. ASSUME "firewalld" \notin active PROVE found' = {[kind |-> "firewalld", active |-> FALSE]}
        <5>1. ("firewalld" \in active) = FALSE
          BY <4>1
        <5>2. [kind |-> "firewalld", active |-> "firewalld" \in active] = [kind |-> "firewalld", active |-> FALSE]
          BY <5>1
        <5> QED BY <2>6, <5>2
      <4>2. found' = {[kind |-> "firewalld", active |-> FALSE]} => ~Blocks'
        BY BlocksOf DEF Blocks
      <4> QED BY <4>1, <4>2
    <3> QED BY <1>4, <1>5, <2>1, <2>3, <2>6, <3>1, <3>2
  <2> QED BY <2>2, <2>4, <2>5, <2>6
<1>6. CASE ProbeUfw
  <2>1. pc = "ufw" /\ found = {}
    BY <1>6 DEF ProbeUfw, OrderInv
  <2>2. \/ /\ pc' = "idle" /\ found' = {[kind |-> "ufw", active |-> "ufw" \in active]}
           /\ "ufw" \in installed
        \/ pc' = "iptables" /\ found' = found /\ ("ufw" \notin installed \/ disturbed')
    BY <1>6 DEF ProbeUfw, Finds, Tries
  <2>3. Single /\ "ufw" \in installed => (active # {} <=> "ufw" \in active)
    BY <1>3 DEF Single
  <2>4. CASE pc' = "iptables" /\ found' = found /\ ("ufw" \notin installed \/ disturbed')
    BY <1>1, <1>4, <1>6, <2>1, <2>4
  <2>5. CASE /\ pc' = "idle" /\ found' = {[kind |-> "ufw", active |-> "ufw" \in active]}
             /\ "ufw" \in installed
    <3>1. "ufw" \in active => Blocks'
      BY <2>5, BlocksOf DEF Blocks
    <3>2. "ufw" \notin active => Blocks' = FALSE
      <4>1. ASSUME "ufw" \notin active PROVE found' = {[kind |-> "ufw", active |-> FALSE]}
        <5>1. ("ufw" \in active) = FALSE
          BY <4>1
        <5>2. [kind |-> "ufw", active |-> "ufw" \in active] = [kind |-> "ufw", active |-> FALSE]
          BY <5>1
        <5> QED BY <2>5, <5>2
      <4>2. found' = {[kind |-> "ufw", active |-> FALSE]} => ~Blocks'
        BY BlocksOf DEF Blocks
      <4> QED BY <4>1, <4>2
    <3> QED BY <1>4, <1>6, <2>1, <2>3, <2>5, <3>1, <3>2
  <2> QED BY <2>2, <2>4, <2>5
<1>7. CASE ProbeIptables
  <2>1. pc = "iptables" /\ found = {} /\ "firewalld" \notin installed
    BY <1>7 DEF ProbeIptables, OrderInv
  <2>2. /\ pc' = "idle"
        /\ \/ found' = {[kind |-> "iptables", active |-> active # {}]}
           \/ found' = {[kind |-> "none", active |-> FALSE]} /\ disturbed'
           \/ /\ found' = {[kind |-> "none", active |-> FALSE]}
              /\ "iptables" \notin installed /\ (disturbed' <=> disturbed)
    BY <1>7 DEF ProbeIptables, Finds
  <2>3. ~disturbed /\ "iptables" \notin installed => active = {}
    BY <1>3, <2>1
  <2>4. CASE found' = {[kind |-> "iptables", active |-> active # {}]}
    <3>1. Blocks' <=> active # {}
      BY <2>4, BlocksOf DEF Blocks
    <3> QED BY <1>4, <1>7, <2>1, <2>2, <3>1
  <2>5. CASE found' = {[kind |-> "none", active |-> FALSE]} /\ disturbed'
    <3>1. ~Blocks'
      BY <2>5, BlocksOf DEF Blocks
    <3> QED BY <2>2, <2>5, <3>1
  <2>6. CASE /\ found' = {[kind |-> "none", active |-> FALSE]}
             /\ "iptables" \notin installed /\ (disturbed' <=> disturbed)
    <3>1. ~Blocks'
      BY <2>6, BlocksOf DEF Blocks
    <3> QED BY <1>4, <1>7, <2>2, <2>3, <2>6, <3>1
  <2> QED BY <2>2, <2>4, <2>5, <2>6
<1>8. CASE ServiceChanges
  <2>1. UNCHANGED <<installed, found, pc, scriptRuns>> /\ changes' = changes + 1 /\ changes \in Nat
    BY <1>8, FirewallBounds DEF ServiceChanges, script, TypeOK
  <2>2. IF Probing THEN disturbed' = TRUE /\ filtered' = (filtered \/ active' # {})
        ELSE UNCHANGED <<disturbed, filtered>>
    BY <1>8 DEF ServiceChanges, Probing
  <2>3. /\ filtered => filtered'
        /\ Probing => disturbed' /\ (active' # {} => filtered')
    BY <2>2
  <2>4. Probing' <=> Probing
    BY <2>1
  <2>5. changes' # 0
    BY <2>1
  <2>6. ~disturbed' /\ pc' = "iptables" => FALSE
    BY <2>1, <2>3
  <2> QED BY <1>1, <2>1, <2>3, <2>4, <2>5, <2>6
<1>9. CASE Changing \/ Enable \/ Reload \/ Stops
  <2>1. UNCHANGED <<installed, found, disturbed, filtered, scriptRuns>> /\ pc \in ScriptStep
        /\ pc' \notin Tool
    BY <1>9 DEF Changing, AllowHttps, AllowAdmin, AllowRdp, DenyAdmin, Adds, Enable, Reload,
       Finishes, Stops, probe, script, ScriptStep
  <2>2. scriptRuns > 0 /\ scriptRuns \in Nat
    BY <2>1, FirewallBounds DEF OrderInv, TypeOK
  <2> QED BY <1>1, <2>1, <2>2
<1>10. CASE Start
  <2>1. UNCHANGED <<found, disturbed, filtered>> /\ pc' \notin Tool /\ scriptRuns' = scriptRuns + 1
        /\ scriptRuns \in Nat
    BY <1>10, FirewallBounds DEF Start, probe, TypeOK
  <2> QED BY <1>1, <2>1
<1>11. CASE AllowByHand
  <2>1. UNCHANGED <<found, disturbed, filtered, pc>> /\ pc = "idle" /\ changes' = changes + 1
        /\ changes \in Nat
    BY <1>11, FirewallBounds DEF AllowByHand, probe, TypeOK
  <2> QED BY <1>1, <2>1
<1>12. CASE UNCHANGED vars
  BY <1>1, <1>12 DEF vars, probe, script, Single
<1>13. CASE FirewalldRestarts
  <2>1. UNCHANGED <<found, disturbed, filtered, pc, scriptRuns>> /\ ~Probing /\ scriptRuns > 0
    BY <1>13 DEF FirewalldRestarts, probe, script, Probing
  <2>2. scriptRuns \in Nat
    BY FirewallBounds DEF TypeOK
  <2> QED BY <1>1, <2>1, <2>2
<1> QED BY <1>5, <1>6, <1>7, <1>8, <1>9, <1>10, <1>11, <1>12, <1>13, NextCases

\* A set of tools with one element at most.
LEMMA OneTool ==
    ASSUME installed \subseteq Tool, Cardinality(installed) <= 1
    PROVE  Single
<1>1. IsFiniteSet(Tool)
  <2>1. IsFiniteSet({}) /\ IsFiniteSet({} \union {"firewalld"})
    BY FS_EmptySet, FS_AddElement
  <2>2. IsFiniteSet(({} \union {"firewalld"}) \union {"ufw"})
    BY <2>1, FS_AddElement
  <2>3. IsFiniteSet((({} \union {"firewalld"}) \union {"ufw"}) \union {"iptables"})
    BY <2>2, FS_AddElement
  <2>4. Tool = (({} \union {"firewalld"}) \union {"ufw"}) \union {"iptables"}
    BY DEF Tool
  <2> QED BY <2>3, <2>4
<1>2. IsFiniteSet(installed)
  BY <1>1, FS_Subset
<1>3. Cardinality(installed) \in Nat
  BY <1>2, FS_CardinalityType
<1>4. CASE Cardinality(installed) = 0
  BY <1>2, <1>4, FS_EmptySet DEF Single
<1>5. CASE Cardinality(installed) = 1
  <2>1. PICK x : installed = {x}
    BY <1>2, <1>5, FS_Singleton
  <2> QED BY <2>1 DEF Single
<1> QED BY <1>3, <1>4, <1>5

\* Rule 1 takes the word of a probe that saw a filter, and that is right on a host with
\* one tool which nothing disturbs (firewall.py:62-76, hard_stops.py:60-68).
THEOREM RuleOne == Spec => []RuleOneGrounded
<1>1. Init => GroundInv
  BY BlocksOf DEF Init, GroundInv, Probing, Tool, Blocks
<1>2. TypeOK /\ GroundInv => RuleOneGrounded
  BY OneTool DEF TypeOK, GroundInv, RuleOneGrounded, Blocks
<1> QED BY <1>1, <1>2, GroundStep, TypeCorrect, OrderCorrect, PTL DEF Spec

------------------------------------------------------------------------------
\* A set of positions has a first one.
Below == {q \in Nat \X Nat : q[1] < q[2]}
LEMMA FirstPosition ==
    ASSUME NEW S \in SUBSET Nat, S # {}
    PROVE  \E x \in S : \A y \in S : x <= y
<1>1. IsWellFoundedOn(Below, Nat)
  <2>1. OpToRel(<, Nat) = Below
    BY DEF OpToRel, Below
  <2> QED BY <2>1, NatLessThanWellFounded
<1>2. PICK x \in S : \A y \in S : <<y, x>> \notin Below
  BY <1>1, WFMin
<1>3. \A y \in S : <<y, x>> \in Below <=> y < x
  BY DEF Below
<1>4. \A y \in S : y \in Nat /\ x \in Nat
  OBVIOUS
<1>5. \A y \in S : ~(y < x)
  BY <1>2, <1>3
<1> QED BY <1>4, <1>5

\* ufw lets an access through that no added rule is for only if it did before.
LEMMA UfwOpens ==
    ASSUME rules \in Seq(UfwRule), NEW r \in UfwRule, UfwAdd(r), default' = default,
           NEW s, NEW p, UfwLets(s, p)', ~UfwLets(s, p)
    PROVE  r.action = "allow" /\ Matches(r, s, p)
<1> SUFFICES ASSUME ~(r.action = "allow" /\ Matches(r, s, p)) PROVE FALSE
  OBVIOUS
<1> DEFINE n == Len(rules)
<1>1. DOMAIN rules = 1..n /\ n \in Nat /\ DOMAIN rules' = 1..Len(rules')
  BY UfwAddCases
<1>2. CASE Replaced(r)
  <2>1. \A i \in 1..n : Matches(rules'[i], s, p) <=> Matches(rules[i], s, p)
    BY <1>2 DEF Replaced, Matches, Same
  <2>2. \A i \in 1..n : Matches(rules[i], s, p) /\ rules'[i].action = "allow" => rules[i].action = "allow"
    BY <1>2 DEF Replaced, Matches, Same
  <2>3. Len(rules') = n
    BY <1>2 DEF Replaced
  <2> QED BY <1>1, <2>1, <2>2, <2>3 DEF UfwLets
<1>3. CASE Appended(r)
  <2> USE <1>3 DEF Appended
  <2>1. CASE \E i \in 1..n : Matches(rules[i], s, p)
    <3>1. \E i \in 1..n + 1 : Matches(rules'[i], s, p)
      BY <1>1, <1>3, <2>1
    <3>2. PICK i \in 1..n + 1 : /\ Matches(rules'[i], s, p) /\ rules'[i].action = "allow"
                                /\ \A k \in 1..i-1 : ~Matches(rules'[k], s, p)
      BY <1>1, <1>3, <3>1 DEF UfwLets
    <3>3. i \in 1..n
      BY <1>1, <1>3, <3>2
    <3>4. \A k \in 1..i-1 : k \in 1..n
      BY <1>1, <3>3
    <3> QED BY <1>1, <1>3, <2>1, <3>2, <3>3, <3>4 DEF UfwLets
  <2>2. CASE ~\E i \in 1..n : Matches(rules[i], s, p)
    <3>1. default # "allow"
      BY <1>1, <2>2 DEF UfwLets
    <3>2. PICK i \in 1..n + 1 : Matches(rules'[i], s, p) /\ rules'[i].action = "allow"
      BY <1>1, <1>3, <3>1 DEF UfwLets
    <3>3. i = n + 1
      BY <1>1, <1>3, <2>2, <3>2
    <3> QED BY <1>3, <3>2, <3>3
  <2> QED BY <2>1, <2>2
<1> QED BY <1>2, <1>3, UfwAddCases

\* The rule that ufw's deny for the admin port is, and those it takes for the same.
ForAll(r) == Same(r, DenyAll)
Denied ==
    /\ \E i \in DOMAIN rules : ForAll(rules[i])
    /\ \A i \in DOMAIN rules : ForAll(rules[i]) => rules[i].action = "deny"

\* The rules for the admin port, and what they are.
LEMMA AdminRules ==
    /\ \A c \in Addr : LET r == Match("allow", {c}, 8443) IN
          r \in UfwRule /\ r.action = "allow" /\ ~ForAll(r) /\ Matches(r, c, 8443)
    /\ DenyAll \in UfwRule /\ DenyAll.action = "deny" /\ ForAll(DenyAll)
    /\ Matches(DenyAll, "elsewhere", 8443)
<1>1. 8443 \in Port
  BY DEF Port
<1>2. \A c \in Addr : {c} # Client
  BY AddrAssumption DEF Client
<1>3. "elsewhere" \in Client
  BY DEF Client
<1> QED BY <1>1, <1>2, <1>3, RuleTypes DEF Match, ForAll, Same, DenyAll, Matches

\* Once the deny for everyone has been added, there is no allow written like it.
LEMMA DeniedMade ==
    ASSUME rules \in Seq(UfwRule), UfwAdd(DenyAll)
    PROVE  Denied'
<1>1. PICK r \in UfwRule : UfwAdd(r) /\ r = DenyAll /\ ForAll(r) /\ r.action = "deny"
  BY AdminRules
<1>2. /\ Len(rules) \in Nat /\ DOMAIN rules' = 1..Len(rules')
      /\ Replaced(r) \/ Appended(r)
  BY <1>1, UfwAddCases
<1>3. CASE Replaced(r)
  <2>1. \E i \in 1..Len(rules') : ForAll(rules'[i])
    BY <1>1, <1>3 DEF Replaced
  <2>2. \A i \in 1..Len(rules') : ForAll(rules'[i]) => ForAll(rules[i])
    BY <1>3 DEF Replaced, ForAll, Same
  <2>3. \A i \in 1..Len(rules') : ForAll(rules'[i]) => rules'[i].action = "deny"
    BY <1>1, <1>3, <2>2 DEF Replaced, ForAll
  <2> QED BY <1>2, <2>1, <2>3 DEF Denied
<1>4. CASE Appended(r)
  <2>1. Len(rules') = Len(rules) + 1 /\ rules'[Len(rules) + 1] = r
    BY <1>4 DEF Appended
  <2>2. \A i \in 1..Len(rules) : ~ForAll(rules'[i])
    BY <1>1, <1>4 DEF Appended, ForAll
  <2>3. \A i \in 1..Len(rules') : i \in 1..Len(rules) \/ i = Len(rules) + 1
    BY <1>2, <2>1
  <2>4. Len(rules) + 1 \in 1..Len(rules')
    BY <1>2, <2>1
  <2> QED BY <1>1, <1>2, <2>1, <2>2, <2>3, <2>4 DEF Denied
<1> QED BY <1>2, <1>3, <1>4

\* Another rule leaves the deny as it is.
LEMMA OthersKept ==
    ASSUME rules \in Seq(UfwRule), NEW r \in UfwRule, UfwAdd(r), ~ForAll(r), Denied
    PROVE  Denied'
<1>1. /\ Len(rules) \in Nat /\ DOMAIN rules = 1..Len(rules) /\ DOMAIN rules' = 1..Len(rules')
      /\ Replaced(r) \/ Appended(r)
  BY UfwAddCases
<1>2. CASE Replaced(r)
  <2>1. Len(rules') = Len(rules) /\ \A i \in 1..Len(rules) : ForAll(rules'[i]) <=> ForAll(rules[i])
    BY <1>2 DEF Replaced, ForAll, Same
  <2>2. \A i \in 1..Len(rules) : ForAll(rules[i]) => ~Same(rules[i], r)
    BY DEF ForAll, Same
  <2>3. \A i \in 1..Len(rules) : ForAll(rules[i]) => rules'[i] = rules[i]
    BY <1>2, <2>2 DEF Replaced
  <2> QED BY <1>1, <2>1, <2>3 DEF Denied
<1>3. CASE Appended(r)
  <2>1. /\ Len(rules') = Len(rules) + 1 /\ ~ForAll(rules'[Len(rules) + 1])
        /\ \A i \in 1..Len(rules) : rules'[i] = rules[i]
    BY <1>3 DEF Appended
  <2>2. \A i \in 1..Len(rules') : i \in 1..Len(rules) \/ i = Len(rules) + 1
    BY <1>1, <2>1
  <2>3. \A i \in 1..Len(rules) : i \in 1..Len(rules')
    BY <1>1, <2>1
  <2> QED BY <1>1, <2>1, <2>2, <2>3 DEF Denied
<1> QED BY <1>1, <1>2, <1>3

\* Beside such a deny, a client without a rule of its own gets through by an allow
\* that is written in another way, or not at all.
LEMMA DeniedCloses ==
    ASSUME rules \in Seq(UfwRule), Denied, UfwLets("elsewhere", 8443)
    PROVE  \E i \in DOMAIN rules :
              /\ rules[i].action = "allow" /\ Matches(rules[i], "elsewhere", 8443)
              /\ ~Same(rules[i], DenyAll)
<1>1. \E i \in DOMAIN rules : Matches(rules[i], "elsewhere", 8443)
  BY AdminRules DEF Denied, ForAll, Same, Matches
<1>2. PICK i \in DOMAIN rules : Matches(rules[i], "elsewhere", 8443) /\ rules[i].action = "allow"
  BY <1>1 DEF UfwLets
<1>3. ~ForAll(rules[i])
  BY <1>2 DEF Denied
<1> QED BY <1>2, <1>3 DEF ForAll

------------------------------------------------------------------------------
\* The rule of rs that decides on c and the admin port.
Deciding(rs, c, i) ==
    /\ i \in DOMAIN rs /\ Matches(rs[i], c, 8443)
    /\ \A k \in 1..i-1 : ~Matches(rs[k], c, 8443)
\* It admits c, and the script's deny does not take its place.
Way(c) == \E i \in DOMAIN rules :
    Deciding(rules, c, i) /\ rules[i].action = "allow" /\ ~ForAll(rules[i])

\* A rule that is added takes the place of one for the same accesses, or the last.
LEMMA DecidingKept ==
    ASSUME rules \in Seq(UfwRule), NEW r \in UfwRule, UfwAdd(r), NEW c, NEW i \in DOMAIN rules
    PROVE  i \in DOMAIN rules' /\ (Deciding(rules', c, i) <=> Deciding(rules, c, i))
<1>1. /\ Len(rules) \in Nat /\ DOMAIN rules = 1..Len(rules) /\ DOMAIN rules' = 1..Len(rules')
      /\ Replaced(r) \/ Appended(r)
  BY UfwAddCases
<1>2. \A k \in 1..Len(rules) : k \in DOMAIN rules' /\ (Matches(rules'[k], c, 8443) <=> Matches(rules[k], c, 8443))
  <2>1. CASE Replaced(r)
    BY <1>1, <2>1 DEF Replaced, Matches, Same
  <2>2. CASE Appended(r)
    BY <1>1, <2>2 DEF Appended
  <2> QED BY <1>1, <2>1, <2>2
<1>3. i \in 1..Len(rules) /\ \A k \in 1..i-1 : k \in 1..Len(rules)
  BY <1>1
<1> QED BY <1>1, <1>2, <1>3 DEF Deciding

\* Neither an allow nor the deny takes a way away.
LEMMA WayKept ==
    ASSUME rules \in Seq(UfwRule), NEW r \in UfwRule, UfwAdd(r), NEW c, Way(c),
           r.action = "allow" \/ ForAll(r)
    PROVE  Way(c)'
<1>1. PICK i \in DOMAIN rules : Deciding(rules, c, i) /\ rules[i].action = "allow" /\ ~ForAll(rules[i])
  BY DEF Way
<1>2. i \in DOMAIN rules' /\ Deciding(rules', c, i)
  BY <1>1, DecidingKept
<1>3. rules'[i] = rules[i] \/ (rules'[i] = r /\ Same(rules[i], r))
  BY UfwAddCases DEF Replaced, Appended
<1>4. Same(rules[i], r) => ~ForAll(r)
  BY <1>1 DEF ForAll, Same
<1> QED BY <1>1, <1>2, <1>3, <1>4 DEF Way

\* An allow that is not for everyone shuts nobody out.
LEMMA ShutOutKept ==
    ASSUME rules \in Seq(UfwRule), NEW r \in UfwRule, UfwAdd(r), NEW c,
           r.action = "allow", ~ForAll(r), ~ShutOut(rules, c)
    PROVE  ~ShutOut(rules', c)
<1> SUFFICES ASSUME ShutOut(rules', c) PROVE FALSE
  OBVIOUS
<1>1. PICK i \in DOMAIN rules' : /\ Deciding(rules', c, i)
                                 /\ ~Same(rules'[i], Match("allow", {c}, 8443))
                                 /\ rules'[i].action = "deny" \/ ForAll(rules'[i])
  BY DEF ShutOut, Deciding, ForAll
<1>2. /\ Len(rules) \in Nat /\ DOMAIN rules = 1..Len(rules) /\ DOMAIN rules' = 1..Len(rules')
      /\ Replaced(r) \/ Appended(r)
  BY UfwAddCases
<1>3. rules'[i] # r
  BY <1>1
<1>4. i \in DOMAIN rules /\ rules'[i] = rules[i]
  <2>1. CASE Replaced(r)
    BY <1>2, <1>3, <2>1 DEF Replaced
  <2>2. CASE Appended(r)
    <3>1. i \in 1..Len(rules) \/ i = Len(rules) + 1
      BY <1>2, <2>2 DEF Appended
    <3> QED BY <1>2, <1>3, <2>2, <3>1 DEF Appended
  <2> QED BY <1>2, <2>1, <2>2
<1>5. Deciding(rules, c, i)
  BY <1>1, <1>4, DecidingKept
<1> QED BY <1>1, <1>4, <1>5 DEF ShutOut, Deciding, ForAll

\* Adding its allow makes a way for a network that no rule shuts out.
LEMMA WayMade ==
    ASSUME rules \in Seq(UfwRule), NEW c \in Addr, UfwAdd(Match("allow", {c}, 8443)),
           ~ShutOut(rules, c)
    PROVE  Way(c)'
<1>1. PICK r \in UfwRule : /\ r = Match("allow", {c}, 8443) /\ UfwAdd(r) /\ r.action = "allow"
                           /\ ~ForAll(r) /\ Matches(r, c, 8443)
  BY AdminRules
<1>2. /\ Len(rules) \in Nat /\ DOMAIN rules = 1..Len(rules) /\ DOMAIN rules' = 1..Len(rules')
      /\ Replaced(r) \/ Appended(r)
  BY <1>1, UfwAddCases
<1> DEFINE S == {k \in 1..Len(rules) : Matches(rules[k], c, 8443)}
<1>3. CASE S # {}
  <2>1. PICK i \in S : \A k \in S : i <= k
    <3>1. S \in SUBSET Nat
      BY <1>2
    <3> HIDE DEF S
    <3> QED BY <1>3, <3>1, FirstPosition
  <2>2. i \in 1..Len(rules) /\ Matches(rules[i], c, 8443)
    BY <2>1
  <2>3. \A k \in 1..i-1 : k \in 1..Len(rules) /\ k < i
    BY <1>2, <2>2
  <2>4. \A k \in 1..i-1 : ~Matches(rules[k], c, 8443)
    BY <1>2, <2>1, <2>2, <2>3
  <2>5. Deciding(rules, c, i)
    BY <1>2, <2>2, <2>4 DEF Deciding
  <2>6. Deciding(rules', c, i) /\ i \in DOMAIN rules'
    BY <1>1, <1>2, <2>2, <2>5, DecidingKept
  <2>7. Same(rules[i], r) \/ (rules[i].action # "deny" /\ ~ForAll(rules[i]))
    <3>1. i \in DOMAIN rules
      BY <1>2, <2>2
    <3> SUFFICES ASSUME ~Same(rules[i], r), rules[i].action = "deny" \/ ForAll(rules[i])
                 PROVE  ShutOut(rules, c)
      OBVIOUS
    <3> QED BY <1>1, <2>2, <2>4, <3>1 DEF ShutOut, ForAll
  <2>8. rules[i].action \in {"allow", "deny"}
    <3>1. rules[i] \in UfwRule
      BY <2>2
    <3> QED BY <3>1 DEF UfwRule
  <2>9. rules'[i] = r \/ (rules'[i] = rules[i] /\ ~Same(rules[i], r))
    <3>1. CASE Replaced(r)
      BY <2>2, <3>1 DEF Replaced
    <3>2. CASE Appended(r)
      BY <2>2, <3>2 DEF Appended
    <3> QED BY <1>2, <3>1, <3>2
  <2> QED BY <1>1, <2>6, <2>7, <2>8, <2>9 DEF Way
<1>4. CASE S = {}
  <2>1. \A k \in 1..Len(rules) : ~Matches(rules[k], c, 8443)
    BY <1>4
  <2>2. \A k \in 1..Len(rules) : ~Same(rules[k], r)
    BY <1>1, <2>1 DEF Same, Matches
  <2>3. Appended(r)
    <3>1. ~Replaced(r)
      BY <2>2 DEF Replaced
    <3> QED BY <1>2, <3>1
  <2>4. /\ Len(rules') = Len(rules) + 1 /\ rules'[Len(rules) + 1] = r
        /\ \A k \in 1..Len(rules) : rules'[k] = rules[k]
    BY <2>3 DEF Appended
  <2>5. Len(rules) + 1 \in DOMAIN rules' /\ (Len(rules) + 1) - 1 = Len(rules)
    BY <1>2, <2>4
  <2>6. Deciding(rules', c, Len(rules) + 1)
    BY <1>1, <2>1, <2>4, <2>5 DEF Deciding
  <2> QED BY <1>1, <2>4, <2>5, <2>6 DEF Way
<1> QED BY <1>3, <1>4

------------------------------------------------------------------------------
\* What a command or the operator does to the rules of ufw.
LEMMA RuleAdded ==
    ASSUME TypeOK, Changing \/ AllowByHand
    PROVE  \/ UNCHANGED rules
           \/ UfwAdd(DenyAll) /\ DenyAdmin
           \/ /\ Template = "ufw" /\ ~DenyAdmin
              /\ \E r \in UfwRule : /\ UfwAdd(r) /\ r.action = "allow" /\ ~ForAll(r)
<1>1. \A p \in {443, 3389} : LET r == Match("allow", Client, p) IN
         r \in UfwRule /\ r.action = "allow" /\ ~ForAll(r)
  <2> SUFFICES ASSUME NEW p \in {443, 3389}
               PROVE  /\ Match("allow", Client, p) \in UfwRule
                      /\ Match("allow", Client, p).action = "allow"
                      /\ ~ForAll(Match("allow", Client, p))
    OBVIOUS
  <2>1. p \in Port /\ {p} # {8443}
    <3>1. p \in Port /\ p # 8443
      BY DEF Port
    <3> QED BY <3>1
  <2>2. Match("allow", Client, p) \in UfwRule
    BY <2>1, RuleTypes
  <2> QED BY <2>1, <2>2 DEF Match, ForAll, Same, DenyAll
<1>2. todo \subseteq Addr
  BY DEF TypeOK
<1>3. DenyAdmin <=> DenyAdmin /\ pc = "close" /\ pc' = "enable"
  BY DEF DenyAdmin
<1>9. \A c \in Addr : Admit(c) \in UfwRule /\ Admit(c).action = "allow" /\ ~ForAll(Admit(c))
  BY AdminRules DEF Admit
<1>4. CASE DenyAdmin
  BY <1>4 DEF DenyAdmin, DenyAll
<1>5. CASE AllowHttps
  <2>1. ~DenyAdmin
    BY <1>3, <1>5 DEF AllowHttps
  <2> QED BY <1>1, <1>5, <2>1 DEF AllowHttps, ByUfw, ByFirewalld
<1>6. CASE AllowAdmin
  <2>1. ~DenyAdmin
    BY <1>3, <1>6 DEF AllowAdmin
  <2>2. UNCHANGED rules \/ (Template = "ufw" /\ \E c \in Addr : rules' = Added(rules, Admit(c)))
    BY <1>2, <1>6, AdminCommand
  <2> QED BY <2>1, <2>2, <1>9 DEF UfwAdd
<1>7. CASE AllowRdp
  <2>1. ~DenyAdmin
    BY <1>3, <1>7 DEF AllowRdp
  <2> QED BY <1>1, <1>7, <2>1 DEF AllowRdp, ByUfw, ByFirewalld
<1>8. CASE AllowByHand
  <2>1. ~DenyAdmin
    BY <1>3, <1>8 DEF AllowByHand
  <2>2. UNCHANGED rules \/ (Template = "ufw" /\ \E c \in Addr : rules' = Added(rules, Admit(c)))
    BY <1>8, HandCommand
  <2> QED BY <2>1, <2>2, <1>9 DEF UfwAdd
<1> QED BY <1>4, <1>5, <1>6, <1>7, <1>8 DEF Changing

\* The deny is there from DenyAdmin on, and a run that ends has turned ufw on.
CloseInv ==
    /\ pc = "enable" => Denied
    /\ closed /\ Template = "ufw" => Denied /\ "ufw" \in active

\* Nothing takes the deny back, neither a later run nor one cut short.
LEMMA CloseStep == TypeOK /\ ToolThere /\ OrderInv /\ CloseInv /\ [Next]_vars => CloseInv'
<1> SUFFICES ASSUME TypeOK, ToolThere, OrderInv, CloseInv, [Next]_vars PROVE CloseInv'
  OBVIOUS
<1>1. found' = found => Template' = Template
  BY DEF Template
<1>2. rules' = rules => (Denied' <=> Denied)
  BY DEF Denied
<1>3. rules \in Seq(UfwRule)
  BY DEF TypeOK
<1>4. CASE Changing \/ AllowByHand
  <2>1. UNCHANGED <<found, active, closed>>
    BY <1>4 DEF Changing, AllowHttps, AllowAdmin, AllowRdp, DenyAdmin, Adds, AllowByHand, probe
  <2>2. pc' = "enable" => DenyAdmin
    BY <1>4 DEF Changing, AllowHttps, AllowAdmin, AllowRdp, AllowByHand
  <2>3. DenyAdmin => UfwAdd(DenyAll)
    BY DEF DenyAdmin, DenyAll
  <2>4. DenyAdmin => Denied'
    BY <1>3, <2>3, DeniedMade
  <2>5. Denied => Denied'
    BY <1>2, <1>3, <1>4, <2>4, RuleAdded, OthersKept
  <2> QED BY <1>1, <2>1, <2>2, <2>4, <2>5 DEF CloseInv
<1>5. CASE Start \/ Stops
  <2>1. UNCHANGED <<found, active, closed, rules>> /\ pc' # "enable"
    BY <1>5 DEF Start, Stops, probe, script, ufw
  <2> QED BY <1>1, <1>2, <2>1 DEF CloseInv
<1>6. CASE Enable
  <2>1. UNCHANGED <<found, rules>> /\ pc' = "idle" /\ pc = "enable" /\ "ufw" \in active'
    BY <1>6 DEF Enable, Finishes, probe, ufw
  <2> QED BY <1>1, <1>2, <2>1 DEF CloseInv
<1>7. CASE Reload
  <2>1. UNCHANGED found /\ pc' = "idle" /\ Template = "firewalld"
    BY <1>7 DEF Reload, Finishes, ByFirewalld, probe
  <2> QED BY <1>1, <2>1 DEF CloseInv
<1>8. CASE ProbeFirewalld \/ ProbeUfw \/ ProbeIptables
  <2>1. ~closed /\ closed' = closed /\ pc' # "enable"
    BY <1>8 DEF ProbeFirewalld, ProbeUfw, ProbeIptables, Finds, Tries, ReadsOnly, script, OrderInv,
       Probing, Tool
  <2> QED BY <2>1 DEF CloseInv
<1>9. CASE ServiceChanges
  <2>1. ~closed /\ ~(pc = "enable")
    BY <1>9 DEF ServiceChanges, OrderInv, Probing, Tool, ScriptStep
  <2>2. closed' = closed /\ pc' = pc
    BY <1>9 DEF ServiceChanges, script
  <2> QED BY <2>1, <2>2 DEF CloseInv
<1>10. CASE UNCHANGED vars
  <2>1. UNCHANGED <<found, active, closed, rules, pc>>
    BY <1>10 DEF vars, probe, script, ufw
  <2> QED BY <1>1, <1>2, <2>1 DEF CloseInv
<1>11. CASE FirewalldRestarts
  <2>1. UNCHANGED <<found, active, closed, rules, pc>>
    BY <1>11 DEF FirewalldRestarts, probe, script, ufw
  <2> QED BY <1>1, <1>2, <2>1 DEF CloseInv
<1> QED BY <1>4, <1>5, <1>6, <1>7, <1>8, <1>9, <1>10, <1>11, NextCases

\* Nothing is denied or closed before the first script.
LEMMA CloseCorrect == Spec => []CloseInv
<1>1. Init => CloseInv
  BY DEF Init, CloseInv
<1>2. Init => ToolThere
  BY DEF Init, ToolThere, ScriptStep
<1> QED BY <1>1, <1>2, CloseStep, ToolStep, TypeCorrect, OrderCorrect, PTL DEF Spec

\* After a run of the ufw script that ended, whoever was not asked for reaches the
\* admin port by an allow of the host's own that is written in another way than the
\* deny, or not at all, for any rules and policy the host had (firewall-ufw.sh.j2:38-39).
THEOREM AdminPortShut == Spec => []AdminPortCloses
<1>1. TypeOK /\ CloseInv => AdminPortCloses
  <2> SUFFICES ASSUME TypeOK, CloseInv, closed, Template = "ufw", Reaches("elsewhere", 8443)
               PROVE  \E i \in DOMAIN rules :
                         /\ rules[i].action = "allow" /\ Matches(rules[i], "elsewhere", 8443)
                         /\ ~Same(rules[i], DenyAll)
    BY DEF AdminPortCloses
  <2>1. Denied /\ "ufw" \in active
    BY DEF CloseInv
  <2>2. UfwLets("elsewhere", 8443)
    BY <2>1 DEF Reaches
  <2>3. rules \in Seq(UfwRule)
    BY DEF TypeOK
  <2> QED BY <2>1, <2>2, <2>3, DeniedCloses
<1> QED BY <1>1, TypeCorrect, CloseCorrect, PTL

------------------------------------------------------------------------------
\* The script at work was asked for what it opens, and so was every permanent opening
\* that a reload has yet to bring into force.
AskInv ==
    /\ pc \in ScriptStep => Asks(plan) \subseteq asked
    /\ \A s \in Client, p \in Port :
          ZoneLets(permanent, s, p) /\ ~ZoneLets(runtime, s, p) => <<s, p>> \in asked

\* What a plan asks for, by template.
LEMMA AskedByPlan ==
    ASSUME TypeOK, NEW S, Asks(plan) \subseteq S
    PROVE  /\ Client \X {443} \subseteq S
           /\ plan.rdp => Client \X {3389} \subseteq S
           /\ Template = "firewalld" => \A c \in todo : {c} \X Port \subseteq S
           /\ Template = "ufw" => \A c \in todo : <<c, 8443>> \in S
<1>1. todo \subseteq plan.cidrs
  BY DEF TypeOK
<1>2. /\ Client \X {443} \subseteq Asks(plan)
      /\ plan.rdp => Client \X {3389} \subseteq Asks(plan)
      /\ Template = "firewalld" => plan.cidrs \X Port \subseteq Asks(plan)
      /\ Template = "ufw" => plan.cidrs \X {8443} \subseteq Asks(plan)
  BY DEF Asks
<1> QED BY <1>1, <1>2

\* The accesses a rule admits.
AskedRule(r, S) ==
    r.action = "allow" => \A s \in Client, p \in Port : Matches(r, s, p) => <<s, p>> \in S
LEMMA AskedRules ==
    ASSUME NEW S
    PROVE  /\ \A p \in {443, 3389} : Client \X {p} \subseteq S => AskedRule(Match("allow", Client, p), S)
           /\ \A c \in Addr : <<c, 8443>> \in S => AskedRule(Match("allow", {c}, 8443), S)
           /\ AskedRule(Match("deny", Client, 8443), S)
<1>1. ASSUME NEW p \in {443, 3389}, Client \X {p} \subseteq S
      PROVE  AskedRule(Match("allow", Client, p), S)
  BY <1>1 DEF AskedRule, Match, Matches
<1>2. ASSUME NEW c \in Addr, <<c, 8443>> \in S
      PROVE  AskedRule(Match("allow", {c}, 8443), S)
  <2>1. \A s, p : Matches(Match("allow", {c}, 8443), s, p) => p = 8443 /\ s = c
    BY DEF Match, Matches
  <2> QED BY <1>2, <2>1 DEF AskedRule
<1>3. AskedRule(Match("deny", Client, 8443), S)
  BY DEF AskedRule, Match
<1> QED BY <1>1, <1>2, <1>3

\* Every command adds what was asked for, and no more.
LEMMA Adding ==
    ASSUME TypeOK, AskInv, Changing \/ AllowByHand
    PROVE  /\ UNCHANGED <<found, active, runtime, default, scriptRuns, plan>>
           /\ asked \subseteq asked'
           /\ UNCHANGED rules \/ \E r \in UfwRule : UfwAdd(r) /\ AskedRule(r, asked')
           /\ \A s \in Client, p \in Port :
                 ZoneLets(permanent', s, p) /\ ~ZoneLets(permanent, s, p) => <<s, p>> \in asked'
<1> DEFINE Allow(from, p) == rules' = Added(rules, Match("allow", from, p)) /\ AskedRule(Match("allow", from, p), asked')
           Open(p) == permanent' = [permanent EXCEPT !.ports = @ \union {p}] /\ Client \X {p} \subseteq asked'
           Trust(c) == permanent' = Trusting(permanent, c) /\ {c} \X Port \subseteq asked'
           ByRule == UNCHANGED rules \/ (\E p \in {443, 3389} : Allow(Client, p))
                     \/ (\E c \in Addr : Allow({c}, 8443)) \/ UfwAdd(Match("deny", Client, 8443))
           ByZone == UNCHANGED permanent \/ (\E p \in Port : Open(p)) \/ (\E c \in Addr : Trust(c))
<1>1. {443, 3389, 8443} \subseteq Port /\ todo \subseteq Addr /\ permanent \in Zones
  BY DEF Port, TypeOK
<1>2. UNCHANGED <<found, active, runtime, default, scriptRuns, plan>> /\ asked \subseteq asked'
  <2>1. CASE Changing
    BY <2>1, CommandLeaves
  <2>2. CASE AllowByHand
    <3>1. asked \subseteq asked'
      <4>1. PICK c \in Addr : asked' = asked \union {<<c, 8443>>} \/ asked' = asked \union ({c} \X Port)
        BY <2>2, HandCommand
      <4> QED BY <4>1
    <3> QED BY <2>2, <3>1 DEF AllowByHand, probe
  <2> QED BY <2>1, <2>2
<1>3. Changing => asked' = asked /\ Asks(plan) \subseteq asked
  BY DEF Changing, AllowHttps, AllowAdmin, AllowRdp, DenyAdmin, Adds, AskInv, ScriptStep
<1>4. ByRule /\ ByZone
  <2>1. CASE AllowHttps
    <3>1. Client \X {443} \subseteq asked'
      BY <1>3, <2>1, AskedByPlan DEF Changing
    <3>2. \/ UfwAdd(Match("allow", Client, 443)) /\ UNCHANGED permanent
          \/ UNCHANGED rules /\ permanent' = [permanent EXCEPT !.ports = @ \union {443}]
      BY <2>1 DEF AllowHttps, ByUfw, ByFirewalld
    <3>3. AskedRule(Match("allow", Client, 443), asked')
      BY <3>1, AskedRules
    <3> QED BY <1>1, <3>1, <3>2, <3>3 DEF UfwAdd
  <2>2. CASE AllowAdmin
    <3>1. PICK c \in todo :
             \/ Template = "ufw" /\ rules' = Added(rules, Admit(c)) /\ permanent' = permanent
             \/ Template = "firewalld" /\ rules' = rules /\ permanent' = Trusting(permanent, c)
      BY <2>2, AdminCommand
    <3>2. /\ Template = "ufw" => <<c, 8443>> \in asked'
          /\ Template = "firewalld" => {c} \X Port \subseteq asked'
      BY <1>3, <2>2, AskedByPlan DEF Changing
    <3>3. c \in Addr
      BY <1>1
    <3>4. Template = "ufw" => AskedRule(Match("allow", {c}, 8443), asked')
      BY <3>2, <3>3, AskedRules
    <3>5. CASE Template = "ufw"
      <4>1. Allow({c}, 8443) /\ UNCHANGED permanent
        BY <3>1, <3>4, <3>5 DEF Admit
      <4> QED BY <3>3, <4>1
    <3>6. CASE Template = "firewalld"
      <4>1. UNCHANGED rules /\ Trust(c)
        BY <3>1, <3>2, <3>6
      <4> QED BY <3>3, <4>1
    <3> QED BY <3>1, <3>5, <3>6
  <2>3. CASE AllowRdp
    <3>1. plan.rdp => Client \X {3389} \subseteq asked'
      BY <1>3, <2>3, AskedByPlan DEF Changing
    <3>2. \/ UNCHANGED <<rules, permanent>>
          \/ plan.rdp /\ UfwAdd(Match("allow", Client, 3389)) /\ UNCHANGED permanent
          \/ plan.rdp /\ UNCHANGED rules /\ permanent' = [permanent EXCEPT !.ports = @ \union {3389}]
      BY <2>3 DEF AllowRdp, ByUfw, ByFirewalld
    <3>3. plan.rdp => AskedRule(Match("allow", Client, 3389), asked')
      BY <3>1, AskedRules
    <3> QED BY <1>1, <3>1, <3>2, <3>3 DEF UfwAdd
  <2>4. CASE DenyAdmin
    BY <2>4 DEF DenyAdmin, ByUfw
  <2>5. CASE AllowByHand
    <3>1. PICK c \in Addr :
             \/ /\ rules' = Added(rules, Admit(c)) /\ permanent' = permanent
                /\ asked' = asked \union {<<c, 8443>>}
             \/ /\ rules' = rules /\ permanent' = Trusting(permanent, c)
                /\ asked' = asked \union ({c} \X Port)
      BY <2>5, HandCommand
    <3>2. <<c, 8443>> \in asked' => AskedRule(Match("allow", {c}, 8443), asked')
      BY AskedRules
    <3>3. \/ Allow({c}, 8443) /\ UNCHANGED permanent
          \/ UNCHANGED rules /\ Trust(c)
      BY <3>1, <3>2 DEF Admit
    <3> QED BY <3>3
  <2> HIDE DEF ByRule, ByZone
  <2> QED BY <2>1, <2>2, <2>3, <2>4, <2>5 DEF Changing
<1>5. UNCHANGED rules \/ \E r \in UfwRule : UfwAdd(r) /\ AskedRule(r, asked')
  <2>1. \A p \in {443, 3389} : Match("allow", Client, p) \in UfwRule
    BY <1>1, RuleTypes
  <2>2. \A c \in Addr : Match("allow", {c}, 8443) \in UfwRule
    BY <1>1, RuleTypes
  <2>3. Match("deny", Client, 8443) \in UfwRule /\ AskedRule(Match("deny", Client, 8443), asked')
    BY <1>1, RuleTypes, AskedRules
  <2>4. CASE UNCHANGED rules
    BY <2>4
  <2>5. CASE \E p \in {443, 3389} : Allow(Client, p)
    BY <2>1, <2>5 DEF UfwAdd
  <2>6. CASE \E c \in Addr : Allow({c}, 8443)
    BY <2>2, <2>6 DEF UfwAdd
  <2>7. CASE UfwAdd(Match("deny", Client, 8443))
    BY <2>3, <2>7
  <2>8. ByRule
    <3> HIDE DEF ByRule, ByZone
    <3> QED BY <1>4
  <2> QED BY <2>4, <2>5, <2>6, <2>7, <2>8
<1>6. ASSUME NEW s \in Client, NEW p \in Port, ZoneLets(permanent', s, p), ~ZoneLets(permanent, s, p)
      PROVE  <<s, p>> \in asked'
  <2>1. ASSUME NEW q \in Port, Open(q) PROVE <<s, p>> \in asked'
    <3>1. p \in permanent.ports \union {q} \/ s \in permanent.sources
      BY <1>1, <1>6, <2>1 DEF Zones, ZoneLets
    <3>2. p = q
      BY <1>6, <3>1 DEF ZoneLets
    <3> QED BY <2>1, <3>2
  <2>2. ASSUME NEW c \in Addr, Trust(c) PROVE <<s, p>> \in asked'
    <3>1. p \in permanent.ports \/ s \in permanent.sources \union {c}
      BY <1>1, <1>6, <2>2, TrustingTypes DEF ZoneLets
    <3>2. s = c
      BY <1>6, <3>1 DEF ZoneLets
    <3> QED BY <2>2, <3>2
  <2>3. permanent' # permanent
    BY <1>6
  <2> QED BY <1>4, <2>1, <2>2, <2>3
<1> QED BY <1>2, <1>5, <1>6

LEMMA AskStep == TypeOK /\ OrderInv /\ AskInv /\ [Next]_vars => AskInv'
<1> SUFFICES ASSUME TypeOK, OrderInv, AskInv, [Next]_vars PROVE AskInv'
  OBVIOUS
<1>1. ASSUME found' = found, plan' = plan PROVE Asks(plan)' = Asks(plan)
  BY <1>1 DEF Asks, Template
<1>2. CASE Changing \/ AllowByHand
  <2>1. pc' \in ScriptStep => pc \in ScriptStep
    BY <1>2 DEF Changing, AllowHttps, AllowAdmin, AllowRdp, DenyAdmin, AllowByHand, ScriptStep
  <2>2. pc' \in ScriptStep => Asks(plan)' \subseteq asked'
    BY <1>1, <1>2, <2>1, Adding DEF AskInv
  <2>3. \A s \in Client, p \in Port :
           ZoneLets(permanent', s, p) /\ ~ZoneLets(runtime', s, p) => <<s, p>> \in asked'
    BY <1>2, Adding DEF AskInv
  <2> QED BY <2>2, <2>3 DEF AskInv
<1>3. CASE Start
  <2>1. /\ UNCHANGED <<found, permanent, runtime>> /\ asked \subseteq asked'
        /\ pc' = "https" => Asks(plan') \subseteq asked'
    BY <1>3 DEF Start, probe, firewalld
  <2>2. pc' \in {"idle", "https"}
    BY <1>3 DEF Start
  <2>3. pc' \in ScriptStep => Asks(plan)' \subseteq asked'
    BY <2>1, <2>2 DEF ScriptStep, Asks, Template
  <2> QED BY <2>1, <2>3 DEF AskInv
<1>4. CASE Enable \/ Stops
  <2>1. UNCHANGED <<permanent, runtime, asked>> /\ pc' = "idle"
    BY <1>4 DEF Enable, Finishes, Stops, script, firewalld
  <2> QED BY <2>1 DEF AskInv, ScriptStep
<1>5. CASE Reload
  <2>1. permanent' = permanent /\ runtime' = permanent /\ pc' = "idle"
    BY <1>5 DEF Reload, Finishes
  <2> QED BY <2>1 DEF AskInv, ScriptStep
<1>6. CASE ProbeFirewalld \/ ProbeUfw \/ ProbeIptables
  <2>1. UNCHANGED <<permanent, runtime, asked>> /\ pc' \notin ScriptStep
    BY <1>6 DEF ProbeFirewalld, ProbeUfw, ProbeIptables, Finds, Tries, ReadsOnly, script, firewalld,
       ScriptStep
  <2> QED BY <2>1 DEF AskInv
<1>7. CASE ServiceChanges
  <2>1. UNCHANGED <<permanent, asked, plan, found, pc>> /\ runtime' \in {runtime, permanent}
    BY <1>7 DEF ServiceChanges, script
  <2> QED BY <1>1, <2>1 DEF AskInv
<1>8. CASE UNCHANGED vars
  <2>1. UNCHANGED <<permanent, runtime, asked, plan, found, pc>>
    BY <1>8 DEF vars, probe, script, firewalld
  <2> QED BY <1>1, <2>1 DEF AskInv
<1>9. CASE FirewalldRestarts
  <2>1. UNCHANGED <<permanent, asked, plan, found, pc>> /\ runtime' = permanent
    BY <1>9 DEF FirewalldRestarts, probe, script
  <2> QED BY <1>1, <2>1 DEF AskInv
<1> QED BY <1>2, <1>3, <1>4, <1>5, <1>6, <1>7, <1>8, <1>9, NextCases

\* Before the probe, what is permanent and not in force is the operator's.
LEMMA AskCorrect == Spec => []AskInv
<1>1. Init => AskInv
  <2> SUFFICES ASSUME Init PROVE AskInv
    OBVIOUS
  <2>1. pc = "firewalld"
    BY DEF Init
  <2>2. asked = {a \in Client \X Port :
                     ZoneLets(permanent, a[1], a[2]) /\ ~ZoneLets(runtime, a[1], a[2])}
    BY DEF Init
  <2>3. \A s \in Client, p \in Port :
           ZoneLets(permanent, s, p) /\ ~ZoneLets(runtime, s, p) => <<s, p>> \in asked
    <3> SUFFICES ASSUME NEW s \in Client, NEW p \in Port, ZoneLets(permanent, s, p), ~ZoneLets(runtime, s, p)
                 PROVE  <<s, p>> \in asked
      OBVIOUS
    <3>1. <<s, p>> \in Client \X Port /\ <<s, p>>[1] = s /\ <<s, p>>[2] = p
      OBVIOUS
    <3> QED BY <2>2, <3>1
  <2> QED BY <2>1, <2>3 DEF AskInv, ScriptStep
<1> QED BY <1>1, AskStep, TypeCorrect, OrderCorrect, PTL DEF Spec

\* Nobody gets to a port by a command of any run but those some script was started for
\* or the operator let in (both firewall scripts, from their first to their last line).
THEOREM OnlyAsked == Spec => OnlyAskedOpens
<1>1. ASSUME TypeOK, OrderInv, AskInv, [Next]_vars, scriptRuns > 0,
             NEW s \in Client, NEW p \in Port, Reaches(s, p)', ~Reaches(s, p)
      PROVE  <<s, p>> \in asked'
  <2>1. CASE Changing \/ AllowByHand
    <3>1. UNCHANGED <<active, runtime>>
      BY <1>1, <2>1, Adding
    <3>2. FirewalldLets(s, p)' <=> FirewalldLets(s, p)
      BY <3>1 DEF FirewalldLets, ZoneLets
    <3>3. UfwLets(s, p)' /\ ~UfwLets(s, p)
      BY <1>1, <3>1, <3>2 DEF Reaches
    <3>4. rules' # rules
      <4>1. default' = default
        BY <1>1, <2>1, Adding
      <4> QED BY <3>3, <4>1 DEF UfwLets
    <3>5. PICK r \in UfwRule : UfwAdd(r) /\ AskedRule(r, asked')
      BY <1>1, <2>1, <3>4, Adding
    <3>6. rules \in Seq(UfwRule) /\ default' = default
      BY <1>1, <2>1, Adding DEF TypeOK
    <3>7. r.action = "allow" /\ Matches(r, s, p)
      BY <3>3, <3>5, <3>6, UfwOpens
    <3> QED BY <3>5, <3>7 DEF AskedRule
  <2>2. CASE Reload \/ FirewalldRestarts
    <3>1. UNCHANGED <<active, rules, default, asked>> /\ runtime' = permanent
      BY <2>2 DEF Reload, Finishes, FirewalldRestarts, script, ufw
    <3>2. UfwLets(s, p)' <=> UfwLets(s, p)
      BY <3>1 DEF UfwLets
    <3>3. FirewalldLets(s, p)' /\ ~FirewalldLets(s, p)
      BY <1>1, <3>1, <3>2 DEF Reaches
    <3>4. ~ZoneLets(runtime, s, p)
      BY <3>3 DEF FirewalldLets
    <3>5. ZoneLets(permanent, s, p)
      BY <3>1, <3>3 DEF FirewalldLets
    <3> QED BY <1>1, <3>1, <3>4, <3>5 DEF AskInv
  <2>3. CASE Enable
    <3>1. UNCHANGED <<rules, default, runtime>> /\ active \subseteq active'
      BY <2>3 DEF Enable, Finishes, ufw
    <3>2. (UfwLets(s, p)' <=> UfwLets(s, p)) /\ (FirewalldLets(s, p)' <=> FirewalldLets(s, p))
      BY <3>1 DEF UfwLets, FirewalldLets, ZoneLets
    <3> QED BY <1>1, <3>1, <3>2 DEF Reaches
  <2>4. CASE Start \/ Stops \/ UNCHANGED vars
    <3>1. UNCHANGED <<active, rules, default, runtime>>
      BY <2>4 DEF Start, Stops, vars, ufw, firewalld
    <3>2. (UfwLets(s, p)' <=> UfwLets(s, p)) /\ (FirewalldLets(s, p)' <=> FirewalldLets(s, p))
      BY <3>1 DEF UfwLets, FirewalldLets, ZoneLets
    <3> QED BY <1>1, <3>1, <3>2 DEF Reaches
  <2>5. CASE ProbeFirewalld \/ ProbeUfw \/ ProbeIptables \/ ServiceChanges
    <3>1. scriptRuns = 0
      BY <1>1, <2>5 DEF ProbeFirewalld, ProbeUfw, ProbeIptables, ServiceChanges, OrderInv, Probing, Tool
    <3> QED BY <1>1, <3>1
  <2> QED BY <1>1, <2>1, <2>2, <2>3, <2>4, <2>5, NextCases
<1>2. TypeOK /\ OrderInv /\ AskInv /\ [Next]_vars
      => [scriptRuns > 0 =>
            \A s \in Client, p \in Port : Reaches(s, p)' /\ ~Reaches(s, p) => <<s, p>> \in asked']_vars
  BY <1>1
<1> QED BY <1>2, TypeCorrect, OrderCorrect, AskCorrect, PTL DEF Spec, OnlyAskedOpens

------------------------------------------------------------------------------
\* The networks of the plan that are done with have a way, unless ufw's rules shut them
\* out when the script started, and those yet to be done are not shut out since; or
\* they are sources of firewalld's trusted zone.
AtWork == pc \in ScriptStep \/ finished
AdmitInv ==
    /\ pc \in {"close", "enable"} \/ finished => todo = {}
    /\ pc = "https" => todo = plan.cidrs
    /\ finished => Template \in {"ufw", "firewalld"}
    /\ Template = "ufw" /\ AtWork =>
          \A c \in plan.cidrs : ~ShutOut(base, c) => IF c \in todo THEN ~ShutOut(rules, c) ELSE Way(c)
    /\ Template = "firewalld" =>
          /\ AtWork => \A c \in plan.cidrs : c \notin todo => c \in permanent.sources
          /\ finished => plan.cidrs \subseteq runtime.sources /\ "firewalld" \in active

\* Neither a command nor the operator takes a way away, and only the deny shuts out.
LEMMA AdmissionKept ==
    ASSUME TypeOK, Changing \/ AllowByHand
    PROVE  /\ \A c : Way(c) => Way(c)'
           /\ ~DenyAdmin => \A c : ~ShutOut(rules, c) => ~ShutOut(rules', c)
<1>1. rules \in Seq(UfwRule)
  BY DEF TypeOK
<1>2. CASE UNCHANGED rules
  BY <1>2 DEF Way, Deciding
<1>3. CASE UfwAdd(DenyAll) /\ DenyAdmin
  <2>1. PICK r \in UfwRule : UfwAdd(r) /\ ForAll(r)
    BY <1>3, AdminRules
  <2>2. ASSUME NEW c, Way(c) PROVE Way(c)'
    BY <1>1, <2>1, <2>2, WayKept
  <2> QED BY <1>3, <2>2
<1>4. CASE \E r \in UfwRule : UfwAdd(r) /\ r.action = "allow" /\ ~ForAll(r)
  <2>1. PICK r \in UfwRule : UfwAdd(r) /\ r.action = "allow" /\ ~ForAll(r)
    BY <1>4
  <2>2. ASSUME NEW c, Way(c) PROVE Way(c)'
    BY <1>1, <2>1, <2>2, WayKept
  <2>3. ASSUME NEW c, ~ShutOut(rules, c) PROVE ~ShutOut(rules', c)
    BY <1>1, <2>1, <2>3, ShutOutKept
  <2> QED BY <2>2, <2>3
<1> QED BY <1>2, <1>3, <1>4, RuleAdded

LEMMA AdmitStep ==
    TypeOK /\ ToolThere /\ OrderInv /\ AdmitInv /\ [Next]_vars => AdmitInv'
<1> SUFFICES ASSUME TypeOK, ToolThere, OrderInv, AdmitInv, [Next]_vars PROVE AdmitInv'
  OBVIOUS
<1>1. /\ found' = found => Template' = Template
      /\ rules' = rules => \A c : Way(c)' <=> Way(c)
  BY DEF Template, Way, Deciding
<1>2. todo \subseteq plan.cidrs /\ plan.cidrs \subseteq Addr /\ rules \in Seq(UfwRule) /\ permanent \in Zones
  BY DEF TypeOK
<1>3. CASE Changing
  <2>1. /\ UNCHANGED <<found, base, plan, finished, runtime, active>> /\ ~finished
        /\ pc \in ScriptStep /\ pc' \in ScriptStep
    BY <1>3 DEF Changing, AllowHttps, AllowAdmin, AllowRdp, DenyAdmin, Adds, probe, OrderInv, ScriptStep
  <2>2. /\ pc' # "https" /\ (pc' = "enable" <=> DenyAdmin)
        /\ pc \in {"https", "admin", "close"}
    BY <1>3 DEF Changing, AllowHttps, AllowAdmin, AllowRdp, DenyAdmin
  <2>3. pc' \in {"close", "enable"} => todo' = {}
    BY <1>3 DEF Changing, AllowHttps, AllowAdmin, AllowRdp, DenyAdmin, AdmitInv
  <2>4. \/ todo' = todo
        \/ \E c \in todo : /\ todo' = todo \ {c}
                           /\ \/ Template = "ufw" /\ rules' = Added(rules, Admit(c))
                              \/ Template = "firewalld" /\ permanent' = Trusting(permanent, c)
    <3>1. CASE AllowAdmin
      BY <3>1, AdminCommand
    <3>2. CASE AllowHttps \/ AllowRdp \/ DenyAdmin
      BY <3>2 DEF AllowHttps, AllowRdp, DenyAdmin
    <3> QED BY <1>3, <3>1, <3>2 DEF Changing
  <2>5. permanent.sources \subseteq permanent'.sources
    <3>1. CASE AllowAdmin
      <4>1. PICK c \in todo : permanent' = permanent \/ permanent' = Trusting(permanent, c)
        BY <3>1, AdminCommand
      <4> QED BY <1>2, <4>1, TrustingTypes
    <3>2. CASE AllowHttps \/ AllowRdp \/ DenyAdmin
      BY <1>2, <3>2 DEF AllowHttps, AllowRdp, DenyAdmin, ByUfw, Zones
    <3> QED BY <1>3, <3>1, <3>2 DEF Changing
  <2>6. ASSUME Template = "ufw", NEW c \in plan.cidrs, ~ShutOut(base, c)
        PROVE  IF c \in todo' THEN ~ShutOut(rules', c) ELSE Way(c)'
    <3>1. IF c \in todo THEN ~ShutOut(rules, c) ELSE Way(c)
      BY <2>1, <2>6 DEF AdmitInv, AtWork
    <3>2. CASE c \notin todo
      <4>1. c \notin todo'
        BY <2>4, <3>2
      <4>2. Way(c)'
        BY <1>3, <3>1, <3>2, AdmissionKept
      <4> QED BY <4>1, <4>2
    <3>3. CASE c \in todo /\ c \in todo'
      <4>1. ~DenyAdmin
        BY <2>2, <2>3, <3>3
      <4>2. ~ShutOut(rules', c)
        BY <1>3, <3>1, <3>3, <4>1, AdmissionKept
      <4> QED BY <3>3, <4>2
    <3>4. CASE c \in todo /\ c \notin todo'
      <4>1. UfwAdd(Match("allow", {c}, 8443)) /\ c \in Addr
        <5>1. PICK d \in todo : todo' = todo \ {d} /\ rules' = Added(rules, Admit(d))
          BY <2>4, <2>6, <3>4
        <5>2. d = c
          BY <3>4, <5>1
        <5> QED BY <1>2, <5>1, <5>2 DEF UfwAdd, Admit
      <4>2. Way(c)'
        BY <1>2, <3>1, <3>4, <4>1, WayMade
      <4> QED BY <3>4, <4>2
    <3> QED BY <3>2, <3>3, <3>4
  <2>7. ASSUME Template = "firewalld"
        PROVE  \A c \in plan.cidrs : c \notin todo' => c \in permanent'.sources
    <3>1. \A c \in plan.cidrs : c \notin todo => c \in permanent'.sources
      BY <2>1, <2>5, <2>7 DEF AdmitInv, AtWork
    <3>2. ASSUME NEW c \in todo, c \notin todo' PROVE c \in permanent'.sources
      BY <1>2, <2>4, <2>7, <3>2, TrustingTypes
    <3> QED BY <3>1, <3>2
  <2> QED BY <1>1, <2>1, <2>2, <2>3, <2>6, <2>7 DEF AdmitInv, AtWork
<1>4. CASE AllowByHand
  <2>1. UNCHANGED <<found, base, plan, todo, finished, runtime, active, pc>> /\ pc = "idle"
    BY <1>4 DEF AllowByHand, probe
  <2>2. ~DenyAdmin
    BY <2>1 DEF DenyAdmin
  <2>3. permanent.sources \subseteq permanent'.sources
    BY <1>2, <1>4 DEF AllowByHand, AdmitByHand, Zones
  <2>4. \A c : (Way(c) => Way(c)') /\ (~ShutOut(rules, c) => ~ShutOut(rules', c))
    BY <1>4, <2>2, AdmissionKept
  <2> QED BY <1>1, <2>1, <2>3, <2>4 DEF AdmitInv, AtWork, ScriptStep
<1>5. CASE Start
  <2>1. /\ found' = found /\ rules' = rules /\ base' = rules /\ todo' = plan'.cidrs
        /\ finished' = FALSE /\ pc' \in {"idle", "https"}
    BY <1>5 DEF Start, probe, ufw
  <2> QED BY <2>1 DEF AdmitInv, AtWork
<1>6. CASE Stops
  <2>1. ~finished /\ finished' = finished /\ pc' = "idle"
    BY <1>6 DEF Stops, script, OrderInv
  <2> QED BY <2>1 DEF AdmitInv, AtWork, ScriptStep
<1>7. CASE Enable
  <2>1. /\ UNCHANGED <<found, base, rules, plan, todo>> /\ pc = "enable" /\ pc' = "idle"
    BY <1>7 DEF Enable, Finishes, probe, ufw
  <2>2. Template = "ufw" /\ todo = {}
    BY <2>1 DEF ToolThere, AdmitInv
  <2>3. AtWork
    BY <2>1 DEF AtWork, ScriptStep
  <2> QED BY <1>1, <2>1, <2>2, <2>3 DEF AdmitInv
<1>8. CASE Reload
  <2>1. /\ UNCHANGED <<found, permanent, plan, todo, active>> /\ runtime' = permanent
        /\ pc = "close" /\ pc' = "idle" /\ Template = "firewalld" /\ "firewalld" \in active
    BY <1>8 DEF Reload, ByFirewalld, Finishes, probe
  <2>2. todo = {}
    BY <2>1 DEF AdmitInv
  <2>3. \A c \in plan.cidrs : c \in permanent.sources
    BY <2>1, <2>2 DEF AdmitInv, AtWork, ScriptStep
  <2> QED BY <1>1, <2>1, <2>2, <2>3 DEF AdmitInv
<1>9. CASE ProbeFirewalld \/ ProbeUfw \/ ProbeIptables \/ ServiceChanges
  <2>1. ~finished /\ finished' = finished /\ pc' \notin ScriptStep
    BY <1>9 DEF ProbeFirewalld, ProbeUfw, ProbeIptables, ServiceChanges, ReadsOnly, Finds, Tries,
       script, OrderInv, Probing, Tool, ScriptStep
  <2> QED BY <2>1 DEF AdmitInv, AtWork, ScriptStep
<1>10. CASE UNCHANGED vars
  <2>1. UNCHANGED <<found, base, rules, plan, todo, finished, permanent, runtime, active, pc>>
    BY <1>10 DEF vars, probe, script, ufw, firewalld
  <2> QED BY <1>1, <2>1 DEF AdmitInv, AtWork
<1>11. CASE FirewalldRestarts
  <2>1. UNCHANGED <<found, base, rules, plan, todo, finished, permanent, active, pc>>
        /\ runtime' = permanent
    BY <1>11 DEF FirewalldRestarts, probe, script, ufw
  <2>2. Template = "firewalld" /\ finished => plan.cidrs \subseteq permanent.sources
    BY DEF AdmitInv, AtWork
  <2> QED BY <1>1, <2>1, <2>2 DEF AdmitInv, AtWork
<1> QED BY <1>3, <1>4, <1>5, <1>6, <1>7, <1>8, <1>9, <1>10, <1>11, NextCases

\* Before the first script there is nobody to admit.
LEMMA AdmitCorrect == Spec => []AdmitInv
<1>1. Init => AdmitInv
  BY DEF Init, AdmitInv, AtWork, ScriptStep
<1>2. Init => ToolThere
  BY DEF Init, ToolThere, ScriptStep
<1> QED BY <1>1, <1>2, AdmitStep, ToolStep, TypeCorrect, OrderCorrect, PTL DEF Spec

\* A run that ends admits every network of its plan, whatever rules the host had and
\* whatever earlier runs left half done, but for one that the rules it started with shut
\* out, or a second tool that filters (firewall-ufw.sh.j2:21, firewall-firewalld.sh.j2:21).
THEOREM Admitted == Spec => []AdminsAdmitted
<1>1. TypeOK /\ OrderInv /\ AdmitInv => AdminsAdmitted
  <2> SUFFICES ASSUME TypeOK, OrderInv, AdmitInv, finished, ~({"ufw", "firewalld"} \subseteq active),
                      NEW c \in plan.cidrs, ~(Template = "ufw" /\ ShutOut(base, c))
               PROVE  Reaches(c, 8443)
    BY DEF AdminsAdmitted
  <2>1. todo = {} /\ Template \in {"ufw", "firewalld"} /\ AtWork
    BY DEF AdmitInv, AtWork
  <2>2. CASE Template = "ufw"
    <3>1. "firewalld" \notin active
      BY <2>2 DEF OrderInv, TypeOK
    <3>2. Way(c)
      BY <2>1, <2>2 DEF AdmitInv
    <3>3. UfwLets(c, 8443)
      BY <3>2 DEF Way, Deciding, UfwLets
    <3> QED BY <3>1, <3>3 DEF Reaches
  <2>3. CASE Template = "firewalld"
    <3>1. "firewalld" \in active /\ c \in runtime.sources
      BY <2>3 DEF AdmitInv
    <3>2. "ufw" \notin active
      BY <3>1
    <3> QED BY <3>1, <3>2 DEF Reaches, FirewalldLets, ZoneLets
  <2> QED BY <2>1, <2>2, <2>3
<1> QED BY <1>1, TypeCorrect, OrderCorrect, AdmitCorrect, PTL
==============================================================================
