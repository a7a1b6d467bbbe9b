------------------------------ MODULE HardStops ------------------------------
(***************************************************************************)
(* validation/hard_stops.py: the seven rules that may refuse a DngConfig,  *)
(* and the flags that silence three of them.                               *)
(***************************************************************************)
EXTENDS Models

------------------------------------------------------------------------------
(* The rules: each holds of the configurations it stops. *)

FirewallBlocks(s) == \E f \in s.firewall : f.active /\ f.kind # "none"
AdminPort(c) ==
    /\ \E ip \in c.snapshot.egress_public_ip : ip \in c.snapshot.interfaces
    /\ ~FirewallBlocks(c.snapshot)

DomainJoined(c) == c.snapshot.domain_joined

WildcardForRdpSmb(c) ==
    c.answers.deployment_scope = "web_ssh_rdp_smb" /\ ~c.answers.wildcard_cert

\* Mutant: a clock that is behind is not stopped.
TimeOffsetOneSided(c) == \E t \in c.snapshot.offset : t > 300

TimeOffset(c) == \E t \in c.snapshot.offset : t > 300 \/ t < -300

\* Python orders tuples by their first difference, a proper prefix first.
TupleLess(u, v) ==
    \/ \E i \in DOMAIN u \intersect DOMAIN v :
          u[i] < v[i] /\ \A k \in 1..i-1 : u[k] = v[k]
    \/ Len(u) < Len(v) /\ \A k \in DOMAIN u : u[k] = v[k]
DngVersion(c) == TupleLess(c.dng_version_minimum, <<3, 3, 0>>)

LbTrustedProxies(c) == \E lb \in c.answers.load_balancer : lb.trusted_proxies = {}

\* The records are those of the hostname that was inspected.
HostnameResolves(c) == c.snapshot.a_records = <<>> /\ c.snapshot.aaaa_records = {}

\* int() of a part that is no number ends validate_plan with a ValueError.
Raises(c) == c.dng_version_minimum = <<>>

BlockRule ==
    {"wildcard_required_for_rdp_smb", "dng_version_minimum",
     "lb_requires_trusted_proxies", "public_hostname_must_resolve"}
OverrideFlag ==
    [admin_port_must_be_private |-> "--allow-public-admin",
     host_must_not_be_domain_joined |-> "--allow-domain-joined",
     time_offset_within_30s |-> "--skip-time-check"]
OverridableRule == DOMAIN OverrideFlag
Flag == {OverrideFlag[r] : r \in OverridableRule}
Rule == BlockRule \union OverridableRule

Violations(c) ==
    {r \in Rule :
        \/ r = "admin_port_must_be_private" /\ AdminPort(c)
        \/ r = "host_must_not_be_domain_joined" /\ DomainJoined(c)
        \/ r = "wildcard_required_for_rdp_smb" /\ WildcardForRdpSmb(c)
        \/ r = "time_offset_within_30s" /\ TimeOffset(c)
        \/ r = "dng_version_minimum" /\ DngVersion(c)
        \/ r = "lb_requires_trusted_proxies" /\ LbTrustedProxies(c)
        \/ r = "public_hostname_must_resolve" /\ HostnameResolves(c)}

\* Mutant: any override flag drops every overridable violation.
ValidatePlanAnyFlag(c, overrides) ==
    {r \in Violations(c) : ~(r \in OverridableRule /\ overrides # {})}

\* validate_plan: a violation is dropped only by the flag of its own rule.
ValidatePlan(c, overrides) ==
    {r \in Violations(c) : ~(r \in OverridableRule /\ OverrideFlag[r] \in overrides)}
==============================================================================
