------------------------------- MODULE MC_Host -------------------------------
EXTENDS Firewall, TimeSync, Resolution

MCAddr == {"lan", "vpn"}
MCVersion == {<<3, 3, 0>>}

\* The admin port open to all, by the rule the script replaces or by one for any
\* protocol; one network shut out, by such a rule or with only ssh let in; nothing.
Written(action, from, ports) ==
    [action |-> action, from |-> from, ports |-> ports, written |-> "otherwise"]
MCPriorRules ==
    {<<>>, <<Match("allow", Client, 8443)>>,
     <<Match("deny", {"lan"}, 8443), Written("allow", Client, {8443})>>,
     <<Match("allow", Client, 22), Written("deny", {"lan"}, Port)>>}
MCNoRules == {<<>>}
\* Where one is permanent and the other in force, a port was closed and a network
\* trusted, or the other way round, and nothing was reloaded.
MCPriorZones ==
    {[ports |-> {22, 8443}, sources |-> {}], [ports |-> {22}, sources |-> {"vpn"}]}

MCNow == {2000, 99500, 100100}
MCSkew == {-351, -250, 0, 250, 351}

MCResolvers == <<"1.1.1.1", "8.8.8.8", "9.9.9.9">>
MCTextOrder == <<"lan", "vpn">>

\* Firewall, TimeSync and Resolution share no variable and no property reads two of
\* them, so one is followed at a time while the others have not begun.
FirewallRests == pc = "firewalld" /\ installed = {} /\ UNCHANGED vars
ClockRests == at = "idle" /\ now = 2000 /\ skew = 0 /\ UNCHANGED clock
LookupRests == replies = NoReplies /\ earlier = {} /\ UNCHANGED lookups

HostInit ==
    /\ Init /\ ClockInit /\ LookupInit
    \* The script for firewalld leaves the rules of ufw alone.
    /\ "firewalld" \in installed => rules = <<>>
    /\ installed = {} \/ (now = 2000 /\ skew = 0)
HostNext ==
    \/ Next /\ ClockRests /\ LookupRests
    \/ ClockNext /\ FirewallRests /\ LookupRests
    \/ LookupNext /\ FirewallRests /\ ClockRests
HostSpec == HostInit /\ [][HostNext]_<<vars, clock, lookups>>
==============================================================================
