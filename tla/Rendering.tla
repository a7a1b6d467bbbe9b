------------------------------ MODULE Rendering ------------------------------
(***************************************************************************)
(* generators/ and templates/: what each artifact tells whoever follows    *)
(* it, as functions of the DngConfig it is rendered from.  Layout, wording *)
(* and the quoting filters of templates/__init__.py are left out.          *)
(***************************************************************************)
EXTENDS HardStops, Functions

------------------------------------------------------------------------------
(* dns-records.md and dns-records.json *)

\* The hostname, its wildcard, the challenges of both, what is delegated to the
\* DNS container, and one name for each seed application.
Named(what) == <<what, 0>>
SeedNames(a) ==
    {<<"web", i>> : i \in 1..a.web_apps} \union {<<"rdp", i>> : i \in 1..a.rdp_relays}
BaseNames(a) == {Named("host")} \union IF a.wildcard_cert THEN {Named("wildcard")} ELSE {}
LetsEncrypt(a) == a.tls_strategy = "lets_encrypt_dns01"
ChallengeNames(a) ==
    IF LetsEncrypt(a)
    THEN {<<"acme", n[1]>> : n \in BaseNames(a)}
    ELSE {}

Records(type, names, values) == [type : {type}, name : names, value : values]

\* _resolved_ips, or a placeholder where no resolver returned an A record.
Unset == "<set to DNG host public IP>"
Targets(s) == IF s.a_records = <<>> THEN <<Unset>> ELSE s.a_records

\* The rows of the seed applications have a placeholder of their own, always.
SeedUnset == "<DNG host public IP>"
MdRecords(c) ==
    Records("A", BaseNames(c.answers), Range(Targets(c.snapshot)))
    \union Records("TXT", ChallengeNames(c.answers), {"<set by ACME client>"})
    \union Records("A", SeedNames(c.answers), {SeedUnset})

\* Mutant: the wildcard has no challenge of its own.
JsonRecordsOneChallenge(c) ==
    LET target == {Targets(c.snapshot)[1]} IN
    Records("A", BaseNames(c.answers) \union SeedNames(c.answers), target)
    \union Records("TXT", {n \in ChallengeNames(c.answers) : n[2] = "host"},
                   {"<set by ACME client>"})

\* The JSON form has the first address only.
JsonRecords(c) ==
    LET target == {Targets(c.snapshot)[1]} IN
    Records("A", BaseNames(c.answers) \union SeedNames(c.answers), target)
    \union Records("TXT", ChallengeNames(c.answers), {"<set by ACME client>"})

\* The NS delegation, which the markdown form alone asks for.
Delegates(c) == c.requires_extra_dns_container

------------------------------------------------------------------------------
(* scripted-config.yaml *)

\* application_relays is there for the RDP/SMB variant alone.
Stubs(c) ==
    {n \in SeedNames(c.answers) : n[1] = "rdp" => c.requires_extra_dns_container}
RelaySection(c) == c.requires_extra_dns_container

Source(c) == IF LetsEncrypt(c.answers) THEN "letsencrypt" ELSE "own"
\* The bodies of ssl_cert that are to be pasted.
Markers(c) ==
    IF Source(c) = "letsencrypt" THEN {}
    ELSE {"cert", "key"} \union IF c.answers.tls_strategy = "internal_ca" THEN {"chain"} ELSE {}
\* The bodies each stub asks to be copied from there.
CopiedBodies(c) == IF Stubs(c) = {} THEN {} ELSE {"cert", "key"}

------------------------------------------------------------------------------
(* firewall.sh *)

\* _template_name: only these two have commands; the stub for the others tells
\* what to do and fails.
FirewallTemplate(c) ==
    LET known == {f.kind : f \in c.snapshot.firewall} \intersect {"ufw", "firewalld"} IN
    IF known = {} THEN "unsupported" ELSE CHOOSE k \in known : TRUE

\* Mutant: the port follows the answer, not the derived field.
NamesRdpPortByScope(c) == c.answers.deployment_scope = "web_ssh_rdp_smb"

\* 3389, opened by the script or named in the stub.
NamesRdpPort(c) == c.requires_extra_dns_container

------------------------------------------------------------------------------
(* RUNBOOK.md *)

\* Mutant: only A records count.
ResolvedByA(c) == c.snapshot.a_records # <<>>

\* Discovery found an address.
Resolved(c) == c.snapshot.a_records # <<>> \/ c.snapshot.aaaa_records # {}
WarnsOfRecords(c) == ~Resolved(c)
\* Mutant: the chain is forgotten.
PasteStepNoChain(c) == IF LetsEncrypt(c.answers) THEN {} ELSE {"cert", "key"}

\* Step 3
PasteStep(c) ==
    CASE c.answers.tls_strategy = "lets_encrypt_dns01" -> {}
      [] c.answers.tls_strategy = "internal_ca" -> {"cert", "key", "chain"}
      [] OTHER -> {"cert", "key"}
\* The rules its summary ticks; rule 1 is not among them.
Ticked(c) ==
    {"host_must_not_be_domain_joined", "time_offset_within_30s", "dng_version_minimum"}
    \union (IF Resolved(c) THEN {"public_hostname_must_resolve"} ELSE {})
    \union (IF c.answers.deployment_scope = "web_ssh_rdp_smb"
            THEN {"wildcard_required_for_rdp_smb"} ELSE {})
    \union (IF c.answers.load_balancer # {} THEN {"lb_requires_trusted_proxies"} ELSE {})
==============================================================================
