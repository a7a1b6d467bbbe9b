------------------------------ MODULE Interview ------------------------------
(***************************************************************************)
(* interview/: engine.run asks the eight questions in order.  A question   *)
(* that does not apply is answered by its default; every answer passes its *)
(* validator in the context of the earlier ones before it is kept.  The    *)
(* provider may be any callable (the tests script theirs); the prompts of  *)
(* prompt.py are one that offers fewer answers.                            *)
(***************************************************************************)
EXTENDS Models, FiniteSets

CONSTANTS
    Planned,      \* snapshot.hostname_planned
    Typed,        \* hostnames that may be typed; those in Host have a dot
    Count,        \* numbers of seed applications that may be typed, as int() reads them
    Other         \* any other value or type of value a provider may return

ASSUME PlannedAssumption == Planned \in Host /\ Host \subseteq Typed
ASSUME CountAssumption == Count \subseteq Int

VARIABLES
    at,       \* the question in turn
    prior,    \* the answers kept so far, by question id
    status

vars == <<at, prior, status>>

\* Mutant: the certificate is asked about before the scope.
WildcardFirst ==
    <<"wildcard_cert", "deployment_scope", "idp", "public_hostname", "tls_strategy",
      "load_balancer", "internal_dns", "seed_apps">>

ORDERED_QUESTIONS ==
    <<"deployment_scope", "idp", "public_hostname", "tls_strategy",
      "wildcard_cert", "load_balancer", "internal_dns", "seed_apps">>
Question == {ORDERED_QUESTIONS[i] : i \in DOMAIN ORDERED_QUESTIONS}

Idp == {"duo_sso", "okta", "entra_id", "adfs", "generic_saml"}
InternalDns == {"split_horizon", "internal_only", "none"}
LoadBalancer == Optional([trusted_proxies : (SUBSET Addr) \ {{}}])
Stubs(n) == IF n > 0 THEN n ELSE 0
SeedApps == [web_apps : {Stubs(n) : n \in Count}, rdp_relays : {Stubs(n) : n \in Count}]

\* prior.get("deployment_scope") == "web_ssh_rdp_smb"
RdpScope(p) == "deployment_scope" \in DOMAIN p /\ p["deployment_scope"] = "web_ssh_rdp_smb"

Default(q, p) == IF q = "wildcard_cert" THEN RdpScope(p) ELSE Planned
Applies(q, p) == q = "wildcard_cert" => ~RdpScope(p)

\* What each validator lets in by itself: the choices, a string, an object of the model.
Shape(q) ==
    CASE q = "deployment_scope" -> Scope
      [] q = "idp" -> Idp
      [] q = "public_hostname" -> Typed
      [] q = "tls_strategy" -> TlsStrategy
      [] q = "wildcard_cert" -> BOOLEAN
      [] q = "load_balancer" -> LoadBalancer
      [] q = "internal_dns" -> InternalDns
      [] q = "seed_apps" -> SeedApps
\* Any provider may return anything.
Raw(q) == Shape(q) \union {Other}

\* Mutant: RDP relays are accepted for any scope.
ValidAnyRelays(q, a, p) ==
    /\ a \in Shape(q)
    /\ q = "public_hostname" => a \in Host
    /\ q = "wildcard_cert" /\ RdpScope(p) => a

\* Mutant: no validator looks at the type of the answer.
ValidAnyType(q, a, p) ==
    a \in Shape(q) =>
        /\ q = "public_hostname" => a \in Host
        /\ q = "wildcard_cert" /\ RdpScope(p) => a
        /\ q = "seed_apps" /\ a.rdp_relays > 0 => RdpScope(p)

\* validate_answer: a hostname has a dot, RDP/SMB its wildcard, RDP relays that scope.
Valid(q, a, p) ==
    /\ a \in Shape(q)
    /\ q = "public_hostname" => a \in Host
    /\ q = "wildcard_cert" /\ RdpScope(p) => a
    /\ q = "seed_apps" /\ a.rdp_relays > 0 => RdpScope(p)

\* Mutant: the number of RDP relays is asked for in every scope.
OfferedRelays(q, p) == Shape(q)

\* questionary_provider: a prompt builds the object it is asked for, and the number
\* of RDP relays is asked for only where the scope has them.
Offered(q, p) ==
    IF q = "seed_apps" /\ ~RdpScope(p) THEN {s \in SeedApps : s.rdp_relays = 0} ELSE Shape(q)

Init ==
    /\ at = 1
    /\ prior = [q \in {} |-> {}]
    /\ status = "asking"

Current == ORDERED_QUESTIONS[at]

\* validate_answer, then the answer is kept; the last one completes the answers.
Keep(a) ==
    IF Valid(Current, a, prior)
    THEN /\ prior' = [q \in DOMAIN prior \union {Current} |->
                          IF q = Current THEN a ELSE prior[q]]
         /\ at' = at + 1
         /\ status' = IF at = Len(ORDERED_QUESTIONS) THEN "done" ELSE "asking"
    ELSE status' = "rejected" /\ UNCHANGED <<prior, at>>

Ask ==
    /\ status = "asking" /\ Applies(Current, prior)
    /\ \E a \in Raw(Current) : Keep(a)

Skip ==
    /\ status = "asking" /\ ~Applies(Current, prior)
    /\ Keep(Default(Current, prior))

\* The provider raises instead of answering: Ctrl-C at a prompt, a network that
\* ip_network refuses, a number that int() refuses.
ProviderRaises ==
    /\ status = "asking" /\ Applies(Current, prior)
    /\ status' = "raised"
    /\ UNCHANGED <<at, prior>>

Terminated == status # "asking" /\ UNCHANGED vars

Next == Ask \/ Skip \/ ProviderRaises \/ Terminated

Spec == Init /\ [][Next]_vars

------------------------------------------------------------------------------
\* InterviewAnswers.model_validate(prior)
Assembled ==
    [deployment_scope |-> prior["deployment_scope"], public_hostname |-> prior["public_hostname"],
     tls_strategy |-> prior["tls_strategy"], wildcard_cert |-> prior["wildcard_cert"],
     load_balancer |-> prior["load_balancer"],
     web_apps |-> prior["seed_apps"].web_apps, rdp_relays |-> prior["seed_apps"].rdp_relays]

TypeOK ==
    /\ at \in 1..Len(ORDERED_QUESTIONS) + 1
    /\ DOMAIN prior = {ORDERED_QUESTIONS[i] : i \in 1..at - 1}
    /\ \A q \in DOMAIN prior : prior[q] \in Shape(q)
    /\ status \in {"asking", "rejected", "raised", "done"}
    /\ status # "done" => at <= Len(ORDERED_QUESTIONS)

\* Whatever values, of whatever types, the provider answers, the answers of a finished interview fit each
\* other: RDP/SMB has its wildcard, and RDP relays need that scope although
\* SeedApps itself accepts them (answers.py:94-95, engine.py:50-58).
AnswersCoherent == status = "done" => Assembled \in Answers /\ Coherent(Assembled)

\* An answer that was valid in the context of the earlier ones stays valid in the
\* context of all of them: no validator depends on a question asked later.
AnswersStayValid == \A q \in DOMAIN prior : Valid(q, prior[q], prior)

\* Wherever an interview has got to, what prompt.py offers for the next question,
\* or the default of one that is skipped, passes its validator, unless it is a
\* hostname without a dot: the other refusals come before, from the prompt.
PromptsRejectOnlyHostnames ==
    status = "asking" /\ Current # "public_hostname" =>
        \A a \in (IF Applies(Current, prior) THEN Offered(Current, prior)
                  ELSE {Default(Current, prior)}) :
            Valid(Current, a, prior)
==============================================================================
