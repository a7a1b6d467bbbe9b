---------------------------- MODULE MC_Discovery ----------------------------
EXTENDS Discovery, Probes, SequencesExt

MCRequired == AllRequired \intersect Probe
MCSelfAbsent == CanBeAbsent \intersect Probe
MCStages == [p \in Probe |-> StagesOf[p]]
CallsOfFirst(p) == [k \in DOMAIN MCStages[p][1].calls |-> <<p, 1, k>>]
MCFirstJobs ==
    FlattenSeq([i \in DOMAIN SubmitOrder |->
                   IF SubmitOrder[i] \in Probe THEN CallsOfFirst(SubmitOrder[i]) ELSE <<>>])

\* The instances meet the hypothesis under which no probe is starved of workers.
ASSUME PunctualAssumption == Punctual
=============================================================================
