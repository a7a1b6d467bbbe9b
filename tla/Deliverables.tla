----------------------------- MODULE Deliverables -----------------------------
(***************************************************************************)
(* The commands composed with what they render: how the artifacts an       *)
(* operator finds in the output directory fit each other and the rules.    *)
(* An artifact is whole in the file and says what Rendering makes of the   *)
(* configuration it was written from.                                      *)
(***************************************************************************)
EXTENDS Pipeline, Rendering

\* The configurations behind the artifacts of a directory nobody was interrupted in.
Delivered == IF broken THEN {} ELSE {art[n].of.config : n \in {m \in Name : art[m].is = "whole"}}

NamesOf(records) == {<<r.type, r.name>> : r \in records}

\* dns_records.py:3-5: both forms describe the same record set.  Whatever plan the
\* directory is of, they ask for the same names, and the JSON form for no address
\* that the markdown form does not give the hostname (NS, which has no row of its
\* own there, and the values of the seed names aside).
RecordSetsAgree ==
    \A c, d \in Delivered :
        /\ NamesOf(MdRecords(c)) = NamesOf(JsonRecords(d))
        /\ \A r \in JsonRecords(d) : r.name \in BaseNames(d.answers) => r \in MdRecords(c)

\* dns-records.md.j2:67: the seed names are stubs in the scripted config.  The
\* relay section, the RDP port and the delegation go together even after edits;
\* from plans nobody edited they go with the scope, and every name with a record
\* has its stub.
RelaysAgree ==
    \A c, d \in Delivered :
        /\ RelaySection(c) = NamesRdpPort(d) /\ NamesRdpPort(c) = Delegates(d)
        /\ edits = 0 =>
              /\ SeedNames(c.answers) = Stubs(d)
              /\ RelaySection(c) <=> d.answers.deployment_scope = "web_ssh_rdp_smb"

\* runbook.md.j2:58-76: the runbook has pasted what the scripted config has markers
\* for.  Every base name has its challenge if that config asks Let's Encrypt for a
\* certificate, otherwise what the stubs copy has been pasted.
CertificateStepsAgree ==
    \A c, d \in Delivered :
        /\ PasteStep(c) = Markers(d)
        /\ IF Source(c) = "letsencrypt"
           THEN \A n \in BaseNames(c.answers) : <<"TXT", <<"acme", n[1]>>>> \in NamesOf(JsonRecords(d))
           ELSE CopiedBodies(c) \subseteq PasteStep(d)

\* runbook.py:25: rule 7 looks at the records once more through the runbook's
\* eyes.  No generated runbook warns of missing records or calls the rule
\* overridden, and what it ticks holds or was overridden by its own flag.
SummaryEarned ==
    \A n \in Name : art[n].is = "whole" =>
        LET c == art[n].of.config IN
        /\ ~WarnsOfRecords(c)
        /\ \A r \in Ticked(c) \intersect Violations(c) :
               r \in OverridableRule /\ OverrideFlag[r] \in art[n].of.flags
===============================================================================
