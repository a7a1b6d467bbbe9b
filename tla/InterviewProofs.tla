--------------------------- MODULE InterviewProofs ---------------------------
(***************************************************************************)
(* What an interview that ends returns, for any provider, any hostnames    *)
(* and any counts.                                                         *)
(***************************************************************************)
EXTENDS Interview, TLAPS

\* The questions are eight different ones; the scope comes first.
LEMMA Questions ==
    /\ Len(ORDERED_QUESTIONS) = 8
    /\ \A i, k \in 1..8 : ORDERED_QUESTIONS[i] = ORDERED_QUESTIONS[k] => i = k
    /\ ORDERED_QUESTIONS[1] = "deployment_scope"
    /\ \A i \in 1..8 : ORDERED_QUESTIONS[i] \in Question
BY DEF ORDERED_QUESTIONS, Question

\* What run() knows after each question: the answers kept are those of the
\* questions passed, each of the right shape and valid next to the others.
Kept == {ORDERED_QUESTIONS[i] : i \in 1..at - 1}
RunInv ==
    /\ at \in 1..9
    /\ prior = [q \in Kept |-> prior[q]]
    /\ AnswersStayValid
    /\ status \in {"asking", "rejected", "raised", "done"}
    /\ status # "done" => at <= 8
    /\ status = "done" => at = 9

\* The only earlier answer a validator looks at is the scope, which the answer to
\* a later question leaves as it was.
LEMMA StaysValid ==
    ASSUME NEW p, NEW r, NEW q, NEW a,
           RdpScope(p) <=> RdpScope(r),
           Valid(q, a, p)
    PROVE  Valid(q, a, r)
BY DEF Valid

\* One turn of the loop in run(): a kept answer is valid, and the earlier answers
\* stay valid next to it.
LEMMA KeepStep ==
    ASSUME RunInv, status = "asking", NEW a \in Raw(Current), Keep(a)
    PROVE  RunInv'
<1> USE Questions DEF RunInv, Current
<1>1. at \in 1..8
  OBVIOUS
<1>2. CASE ~Valid(Current, a, prior)
  BY <1>2 DEF Keep, Kept, AnswersStayValid
<1>3. CASE Valid(Current, a, prior)
  <2>1. /\ at' = at + 1
        /\ prior' = [q \in Kept \union {Current} |-> IF q = Current THEN a ELSE prior[q]]
        /\ status' = IF at = 8 THEN "done" ELSE "asking"
    BY <1>3 DEF Keep
  <2>2. Kept' = Kept \union {Current} /\ Current \notin Kept
    BY <1>1, <2>1 DEF Kept
  <2>3. \A q \in Kept : prior'[q] = prior[q]
    BY <2>1, <2>2
  <2>4. prior'[Current] = a
    BY <2>1
  <2>6. \A q \in Kept' : Valid(q, prior'[q], prior')
    <3>1. CASE at = 1
      <4>1. Kept' = {"deployment_scope"} /\ Current = "deployment_scope"
        BY <2>2, <3>1 DEF Kept
      <4> QED BY <1>3, <2>4, <4>1 DEF Valid
    <3>2. CASE at # 1
      <4>1. "deployment_scope" \in Kept
        BY <1>1, <3>2 DEF Kept
      <4>2. RdpScope(prior) <=> RdpScope(prior')
        BY <2>1, <2>2, <2>3, <4>1 DEF RdpScope
      <4>3. \A q \in Kept : Valid(q, prior[q], prior)
        BY DEF AnswersStayValid
      <4>4. \A q \in Kept : Valid(q, prior'[q], prior')
        BY <2>3, <4>2, <4>3, StaysValid
      <4>5. Valid(Current, prior'[Current], prior')
        BY <1>3, <2>4, <4>2, StaysValid
      <4> QED BY <2>2, <4>4, <4>5
    <3> QED BY <3>1, <3>2
  <2>7. prior' = [q \in Kept' |-> prior'[q]]
    BY <2>1, <2>2
  <2> QED BY <1>1, <2>1, <2>6, <2>7 DEF AnswersStayValid
<1> QED BY <1>2, <1>3

\* The loop of run() keeps RunInv, for any provider (engine.py:47-58).
LEMMA RunInvariant == Spec => []RunInv
<1>1. Init => RunInv
  BY Questions DEF Init, RunInv, Kept, AnswersStayValid
<1>2. RunInv /\ [Next]_vars => RunInv'
  <2> SUFFICES ASSUME RunInv, [Next]_vars PROVE RunInv'
    OBVIOUS
  <2>1. CASE Ask
    <3>1. status = "asking"
      BY <2>1 DEF Ask
    <3>2. PICK a \in Raw(Current) : Keep(a)
      BY <2>1 DEF Ask
    <3> QED BY <3>1, <3>2, KeepStep
  <2>2. CASE Skip
    <3>1. status = "asking" /\ Keep(Default(Current, prior))
      BY <2>2 DEF Skip
    <3>2. Current = "wildcard_cert"
      BY <2>2 DEF Skip, Applies
    <3>3. Default(Current, prior) \in Raw(Current)
      BY <3>2 DEF Default, Raw, Shape, RdpScope
    <3> QED BY <3>1, <3>3, KeepStep
  <2>3. CASE ProviderRaises
    BY <2>3 DEF ProviderRaises, RunInv, Kept, AnswersStayValid
  <2>4. CASE UNCHANGED vars
    BY <2>4 DEF vars, RunInv, Kept, AnswersStayValid
  <2> QED BY <2>1, <2>2, <2>3, <2>4 DEF Next, Terminated
<1> QED BY <1>1, <1>2, PTL DEF Spec

\* No validator depends on a question asked later (engine.py:50-57).
THEOREM StayingValid == Spec => []AnswersStayValid
<1>1. RunInv => AnswersStayValid
  BY DEF RunInv
<1> QED BY <1>1, RunInvariant, PTL

\* The answers an interview returns are coherent whatever the provider did: what
\* Pipeline assumes of the answers it is given (engine.py:58).
THEOREM Coherence == Spec => []AnswersCoherent
<1>1. RunInv => AnswersCoherent
  <2> SUFFICES ASSUME RunInv, status = "done" PROVE Assembled \in Answers /\ Coherent(Assembled)
    BY DEF AnswersCoherent
  <2>1. DOMAIN prior = {"deployment_scope", "idp", "public_hostname", "tls_strategy",
                        "wildcard_cert", "load_balancer", "internal_dns", "seed_apps"}
    BY DEF RunInv, Kept, ORDERED_QUESTIONS
  <2>2. \A q \in DOMAIN prior : prior[q] \in Shape(q) /\ Valid(q, prior[q], prior)
    BY <2>1 DEF RunInv, AnswersStayValid, Valid
  <2>3. prior["deployment_scope"] \in Scope
    BY <2>1, <2>2 DEF Valid, Shape
  <2>4. prior["public_hostname"] \in Host
    BY <2>1, <2>2 DEF Valid, Shape
  <2>5. prior["wildcard_cert"] \in BOOLEAN /\ (RdpScope(prior) => prior["wildcard_cert"])
    BY <2>1, <2>2 DEF Valid, Shape
  <2>6. prior["load_balancer"] \in LoadBalancer
    BY <2>1, <2>2 DEF Shape
  <2>7. prior["load_balancer"] \in Optional([trusted_proxies : SUBSET Addr])
        /\ \A lb \in prior["load_balancer"] : lb.trusted_proxies # {}
    <3>1. \A x \in [trusted_proxies : (SUBSET Addr) \ {{}}] :
             x \in [trusted_proxies : SUBSET Addr] /\ x.trusted_proxies # {}
      OBVIOUS
    <3> QED BY <2>6, <3>1 DEF LoadBalancer, Optional
  <2>8. prior["seed_apps"] \in SeedApps
        /\ (prior["seed_apps"].rdp_relays > 0 => RdpScope(prior))
    BY <2>1, <2>2 DEF Valid, Shape
  <2>9. prior["seed_apps"].web_apps \in Nat /\ prior["seed_apps"].rdp_relays \in Nat
    <3>1. \A n \in Count : Stubs(n) \in Nat
      BY CountAssumption DEF Stubs
    <3>2. prior["seed_apps"] \in [web_apps : Nat, rdp_relays : Nat]
      BY <2>8, <3>1 DEF SeedApps
    <3> QED BY <3>2
  <2>10. RdpScope(prior) <=> prior["deployment_scope"] = "web_ssh_rdp_smb"
    BY <2>1 DEF RdpScope
  <2>11. Assembled \in Answers
    <3>1. prior["tls_strategy"] \in TlsStrategy
      BY <2>1, <2>2 DEF Shape
    <3> QED BY <2>3, <2>4, <2>5, <2>7, <2>9, <3>1 DEF Assembled, Answers
  <2>12. Coherent(Assembled)
    BY <2>5, <2>7, <2>8, <2>10 DEF Assembled, Coherent
  <2> QED BY <2>11, <2>12
<1> QED BY <1>1, RunInvariant, PTL
\* The answers kept are those of the questions passed, each of its question's
\* shape, and only a finished interview has passed them all (engine.py:47-58).
THEOREM TypeCorrect == Spec => []TypeOK
<1>1. RunInv => TypeOK
  <2> SUFFICES ASSUME RunInv PROVE TypeOK
    OBVIOUS
  <2>1. DOMAIN prior = Kept
    BY DEF RunInv
  <2>2. \A q \in Kept : prior[q] \in Shape(q)
    BY <2>1 DEF RunInv, AnswersStayValid, Valid
  <2> QED BY <2>1, <2>2, Questions DEF RunInv, Kept, TypeOK
<1> QED BY <1>1, RunInvariant, PTL

\* Of what prompt.py offers for any question, whatever was answered before, run()
\* refuses a hostname without a dot and nothing else (prompt.py, engine.py:50-57).
THEOREM Prompting == Spec => []PromptsRejectOnlyHostnames
<1> DEFINE Proposed == IF Applies(Current, prior) THEN Offered(Current, prior)
                       ELSE {Default(Current, prior)}
<1>1. ASSUME RunInv, status = "asking", Current # "public_hostname", NEW a \in Proposed
      PROVE  Valid(Current, a, prior)
  <2>1. CASE Current = "wildcard_cert"
    BY <1>1, <2>1 DEF Applies, Offered, Default, Shape, Valid, RdpScope
  <2>2. CASE Current = "seed_apps"
    <3>1. a \in SeedApps /\ (RdpScope(prior) \/ a.rdp_relays = 0)
      BY <1>1, <2>2 DEF Applies, Offered, Shape
    <3> QED BY <2>2, <3>1 DEF Shape, Valid
  <2>3. CASE Current \notin {"public_hostname", "wildcard_cert", "seed_apps"}
    <3>1. a \in Shape(Current)
      BY <1>1, <2>3 DEF Applies, Offered
    <3> QED BY <2>3, <3>1 DEF Valid
  <2> QED BY <1>1, <2>1, <2>2, <2>3
<1>2. RunInv => PromptsRejectOnlyHostnames
  BY <1>1 DEF PromptsRejectOnlyHostnames
<1> QED BY <1>2, RunInvariant, PTL
==============================================================================
