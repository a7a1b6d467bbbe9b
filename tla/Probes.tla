------------------------------- MODULE Probes -------------------------------
(***************************************************************************)
(* The eight probes of discovery/, as Discovery runs them: what each one   *)
(* hands to the executor, how long that may take, and which timeouts of    *)
(* its own it has.  Times are the constants of the source, in seconds.     *)
(***************************************************************************)
EXTENDS Naturals, Sequences

CONSTANTS
    Lookup,     \* longest getaddrinfo of the host's resolver (not the program's)
    Url         \* how many endpoints network and duo try one after the other

AllProbes == {"system", "docker", "network", "dns", "tls", "time_sync", "firewall", "duo"}
AllRequired == {"system", "network", "dns", "tls", "duo"}
CanBeAbsent == {"docker", "time_sync"}

Threads(calls) == <<[calls |-> calls, timeout |-> 0, mayReturn |-> TRUE]>>
Await(calls, t, r) == [calls |-> calls, timeout |-> t, mayReturn |-> r]

\* getenforce, then realm list, 2 s each.
SystemStages == Threads(<<2 + 2>>)
\* docker version, --version, compose version and info, 5 s each.
DockerStages == Threads(<<5 + 5 + 5 + 5>>)
\* Reading the local tables takes no time, asking route for the default interface
\* 2 s (on macOS; Linux reads /proc/net/route); then one GET after the other, of
\* which the first good answer is the egress address.
NetworkStages == Threads(<<0, 0, 2>>) \o [i \in 1..Url |-> Await(<<Lookup>>, 4, TRUE)]
\* Three resolvers at once, then the PTR of the first address, if any.
DnsStages == <<Await(<<>>, 3, TRUE), Await(<<>>, 3, TRUE)>>
\* Connecting to 127.0.0.1:443, then the handshake.
TlsStages == Threads(<<3 + 3>>)
\* chronyc, ntpq and timedatectl, 2 s each; the NTP query looks its server up
\* inside sendto, before the 3 s it waits for the answer.
TimeSyncStages == Threads(<<2 + 2 + 2 + Lookup + 3>>)
\* firewall-cmd answers for itself; else ufw, then iptables, 3 s each.
FirewallStages == Threads(<<3 + 3>>)
\* HEAD of every endpoint in turn.
DuoStages == [i \in 1..Url |-> Await(<<Lookup>>, 4, FALSE)]

StagesOf ==
    [system |-> SystemStages, docker |-> DockerStages, network |-> NetworkStages,
     dns |-> DnsStages, tls |-> TlsStages, time_sync |-> TimeSyncStages,
     firewall |-> FirewallStages, duo |-> DuoStages]

\* The order in which the tasks reach the executor: network's three calls are
\* tasks of a gather, which run after every probe has been started once, and
\* so is the lookup of duo's first request.
SubmitOrder == <<"system", "docker", "tls", "time_sync", "firewall", "network", "duo">>
=============================================================================
