------------------------------ MODULE Resolution ------------------------------
(***************************************************************************)
(* discovery/dns.py: what the probe makes of the resolvers' answers for    *)
(* the planned hostname, which arrive in any order and may be lost, empty, *)
(* arranged anew each time or not the others', and what rule 7 and the DNS *)
(* records say of it.  The host may be inspected a second time.            *)
(***************************************************************************)
EXTENDS Rendering, FiniteSets

CONSTANTS
    Resolvers,  \* _PUBLIC_RESOLVERS, in their order
    TextOrder   \* the addresses in the order of their text

ASSUME ResolversAssumption == Resolvers \in Seq(Range(Resolvers)) /\ Resolvers # <<>>
ASSUME TextOrderAssumption ==
    /\ TextOrder \in Seq(Addr) /\ IsInjective(TextOrder)
    /\ \A x \in Addr : \E i \in DOMAIN TextOrder : TextOrder[i] = x

VARIABLES
    replies,    \* what the queries have come back with, by type and resolver
    dns,        \* snapshot.dns, when the probe has ended
    earlier     \* of an earlier inspection: the record sets it met, and its targets

lookups == <<replies, dns, earlier>>

Asked == {"A", "AAAA"} \X DOMAIN Resolvers
Arrangements(S) == {s \in [1..Cardinality(S) -> S] : Range(s) = S}
\* NXDOMAIN, a timeout and a refusal are empty.
Answer == UNION {Arrangements(S) : S \in SUBSET Addr}
NoReplies == [q \in {} |-> <<>>]

\* What lies in S of a sequence, in its order.  Not SelectSeq, which takes its test
\* as an operator.
Within(s, S) ==
    LET kept[i \in 0..Len(s)] ==
            IF i = 0 THEN <<>>
            ELSE IF s[i] \in S THEN Append(kept[i-1], s[i]) ELSE kept[i-1]
    IN  kept[Len(s)]

LookupInit == replies = NoReplies /\ dns = {} /\ earlier = {}

\* Mutant: the records stay in the order of the answer.
QueryAsAnswered(answer) == answer

\* _query
Query(answer) == Within(TextOrder, Range(answer))

\* The queries are gathered: they run at once and end in any order.
Reply ==
    /\ \E q \in Asked \ DOMAIN replies, answer \in Answer :
          replies' = [p \in DOMAIN replies \union {q} |->
                         IF p = q THEN Query(answer) ELSE replies[p]]
    /\ UNCHANGED <<dns, earlier>>

\* The records by resolver, in the order the resolvers are listed.
Found(type) == [i \in DOMAIN Resolvers |-> replies[<<type, i>>]]

\* Mutant: only the first resolver is looked at.
FirstAOfFirst(lists) == {lists[1][k] : k \in DOMAIN lists[1] \intersect {1}}

\* probe: the address whose name is looked up.
FirstA(lists) ==
    {lists[i][1] : i \in {j \in DOMAIN lists : /\ lists[j] # <<>>
                                              /\ \A k \in 1..j-1 : lists[k] = <<>>}}

\* Mutant: what the first resolver returned stands for all.
MergedOfFirst(lists) == lists[1]

\* _resolved_ips: each address once, as the resolvers and their answers come.
Merged(lists) ==
    LET ips[i \in 0..Len(lists)] ==
            IF i = 0 THEN <<>>
            ELSE ips[i-1] \o Within(lists[i], Addr \ Range(ips[i-1]))
    IN  ips[Len(lists)]

\* probe ends: snapshot.dns as Models has it, and the address of the reverse lookup.
Resolve ==
    /\ DOMAIN replies = Asked /\ dns = {}
    /\ dns' = {[a_records |-> Merged(Found("A")), aaaa_records |-> UNION {Range(rs) : rs \in Range(Found("AAAA"))},
                reverse_of |-> FirstA(Found("A"))]}
    /\ UNCHANGED <<replies, earlier>>

\* What the resolvers that answered hold for the records of the hostname.
RecordSets == {Range(rs) : rs \in Range(Found("A"))} \ {{}}

\* The host is inspected once more; twice, as a bound.
InspectAgain ==
    /\ earlier = {} /\ replies' = NoReplies /\ dns' = {}
    /\ \E d \in dns : earlier' = {[records |-> RecordSets, targets |-> Targets(d)]}

InspectedTwice == dns # {} /\ earlier # {} /\ UNCHANGED lookups

LookupNext == Reply \/ Resolve \/ InspectAgain \/ InspectedTwice
LookupSpec == LookupInit /\ [][LookupNext]_lookups

------------------------------------------------------------------------------
Silent == \A q \in DOMAIN replies : replies[q] = <<>>

\* hard_stops.py:169-175, runbook.py:25: one answer of one resolver, for either type,
\* is enough for rule 7 and for the runbook, whatever else is lost; an answer
\* that is lost never makes a hostname resolve.
OneAnswerSuffices ==
    \A d \in dns :
        /\ HostnameResolves([snapshot |-> d]) <=> Silent
        /\ WarnsOfRecords([snapshot |-> d]) <=> Silent

\* dns.py:34: where the resolvers agree on the records, the artifacts give the same
\* addresses in the same order however the answers rotate and whichever are
\* lost, as long as one gets through: two inspections render alike.
TargetStable ==
    \A d \in dns, e \in earlier :
        RecordSets = e.records /\ Cardinality(RecordSets) = 1 => Targets(d) = e.targets

\* dns.py:73-77, dns_records.py:27-34: the reverse name in the snapshot is that of the
\* address dns-records.json gives the hostname, also where the resolvers
\* disagree or the first of them is silent.
PtrOfTarget ==
    \A d \in dns : d.reverse_of = IF d.a_records = <<>> THEN {} ELSE {Targets(d)[1]}
===============================================================================
