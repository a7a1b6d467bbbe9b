----------------------------- MODULE MC_Pipeline -----------------------------
EXTENDS Deliverables

MCHost == {"dng.example.com", "new.example.com"}
MCAddr == {"public", "proxy", "public6"}
MCOffset == {-301, 300}
MCVersion == {<<3, 3, 0>>, <<3, 3>>, <<>>}

Clean ==
    [hostname_planned |-> "dng.example.com", egress_public_ip |-> {"public"}, interfaces |-> {},
     firewall |-> {}, domain_joined |-> FALSE, offset |-> {300},
     a_records |-> <<"public", "proxy">>, aaaa_records |-> {}]
\* An exposed admin port, and a hostname with an IPv6 address only.
Exposed == [Clean EXCEPT !.interfaces = {"public"}, !.a_records = <<>>, !.aaaa_records = {"public6"},
                         !.firewall = {[kind |-> "ufw", active |-> FALSE]}]
Joined == [Clean EXCEPT !.domain_joined = TRUE, !.offset = {-301}]
Unresolved == [Clean EXCEPT !.a_records = <<>>, !.egress_public_ip = {}, !.offset = {}]
MCObserved == {Exposed, Joined, Unresolved}

WebSsh ==
    [deployment_scope |-> "web_ssh", public_hostname |-> "dng.example.com",
     tls_strategy |-> "lets_encrypt_dns01", wildcard_cert |-> FALSE,
     load_balancer |-> {[trusted_proxies |-> {"proxy"}]}, web_apps |-> 1, rdp_relays |-> 0]
Rdp ==
    [deployment_scope |-> "web_ssh_rdp_smb", public_hostname |-> "dng.example.com",
     tls_strategy |-> "internal_ca", wildcard_cert |-> TRUE,
     load_balancer |-> {}, web_apps |-> 1, rdp_relays |-> 1]
MCGiven == {WebSsh, Rdp}
\* A hostname other than the one that was inspected.
MCGivenOther == {[WebSsh EXCEPT !.public_hostname = "new.example.com"], Rdp}

MCArtifacts == <<"scripted-config.yaml", "install.sh">>
=============================================================================
