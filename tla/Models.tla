-------------------------------- MODULE Models --------------------------------
(***************************************************************************)
(* models/: what the rules, the interview and the generators tell apart    *)
(* in a snapshot, in the answers and in the DngConfig made of both.  A     *)
(* Python Optional (and a NotDetected) is a set of at most one element;    *)
(* addresses and networks are model values; clock offsets are in tenths of *)
(* a second.                                                               *)
(***************************************************************************)
EXTENDS Integers, Sequences

CONSTANTS
    Host,       \* public hostnames
    Addr,       \* IP addresses and proxy networks
    Offset,     \* measured clock offsets, in tenths of a second
    Version     \* DNG versions, as sequences of numbers; <<>> is one int() rejects

ASSUME OffsetAssumption == Offset \subseteq Int
ASSUME VersionAssumption == Version \subseteq Seq(Nat)

Optional(S) == {{}} \union {{x} : x \in S}
Scope == {"web_ssh", "web_ssh_rdp_smb"}
TlsStrategy == {"existing_bundle", "lets_encrypt_dns01", "internal_ca"}
FirewallKind == {"firewalld", "ufw", "iptables", "none"}

\* What the rules and the generators read of an EnvironmentSnapshot.  The records
\* are those all resolvers returned for hostname_planned: the A records in their
\* order, each once.
Snapshot ==
    [hostname_planned : Host, egress_public_ip : Optional(Addr), interfaces : SUBSET Addr,
     firewall : Optional([kind : FirewallKind, active : BOOLEAN]),
     domain_joined : BOOLEAN, offset : Optional(Offset),
     a_records : Seq(Addr), aaaa_records : SUBSET Addr]

\* What they read of InterviewAnswers.  Of the seed applications only how many are
\* stubbed: web_apps stands for the SSH relays too, which are rendered alike.
Answers ==
    [deployment_scope : Scope, public_hostname : Host, tls_strategy : TlsStrategy,
     wildcard_cert : BOOLEAN, load_balancer : Optional([trusted_proxies : SUBSET Addr]),
     web_apps : Nat, rdp_relays : Nat]

DngConfig ==
    [snapshot : Snapshot, answers : Answers,
     requires_extra_dns_container : BOOLEAN, dng_version_minimum : Version]

DNG_MIN_VERSION == <<3, 3, 0>>
ASSUME FloorAssumption == DNG_MIN_VERSION \in Version

BuildConfig(snapshot, answers) ==
    [snapshot |-> snapshot, answers |-> answers,
     requires_extra_dns_container |-> answers.deployment_scope = "web_ssh_rdp_smb",
     dng_version_minimum |-> DNG_MIN_VERSION]

\* DngConfig.model_validate: pydantic refuses an empty trusted_proxies.
Loadable(c) == \A lb \in c.answers.load_balancer : lb.trusted_proxies # {}

\* What the validators of the questions leave of the answers an interview may
\* assemble (questions.py); a plan edited by hand need not satisfy it.
Coherent(a) ==
    /\ a.deployment_scope = "web_ssh_rdp_smb" => a.wildcard_cert
    /\ a.rdp_relays > 0 => a.deployment_scope = "web_ssh_rdp_smb"
    /\ \A lb \in a.load_balancer : lb.trusted_proxies # {}
===============================================================================
