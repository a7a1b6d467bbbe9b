------------------------------- MODULE TimeSync -------------------------------
(***************************************************************************)
(* discovery/time_sync.py: one exchange with an NTP server step by step,   *)
(* the offset it yields, in tenths of a second, and what rule 4 makes of   *)
(* it.  The name of the server is looked up inside sendto, after the first *)
(* timestamp was taken (line 27); the host's clock may be set while the    *)
(* query is out.                                                           *)
(***************************************************************************)
EXTENDS HardStops

CONSTANTS
    Now,        \* true times at which a query starts, since the epoch of NTP
    Skew,       \* by how much the host's clock may be ahead
    Delay,      \* durations of a lookup or of a packet's way
    Era,        \* where the seconds field of a timestamp wraps
    Wait,       \* _NTP_TIMEOUT_S, for the answer alone
    Budget      \* what the aggregator gives the probe, lookup and all

ASSUME ClockAssumption ==
    Now \subseteq Nat /\ Skew \subseteq Int /\ Delay \subseteq Nat
ASSUME WaitAssumption == Wait \in Nat /\ Budget \in Nat
\* Neither end of the era is near enough to be taken for an offset of 30 s.
ASSUME EraAssumption ==
    /\ Era \in Nat /\ Era > 1000 + 2 * Budget
    /\ \A n \in Now : n > 1000 + 2 * Budget /\ n < 2 * Era - Budget
    /\ \A s \in Skew : s > -500 /\ s < 500

VARIABLES
    now,        \* true time
    skew,       \* by how much the host's clock is ahead of it
    skews,      \* and has been since the first timestamp
    at,         \* how far the exchange is
    start, t1,  \* when it began, truly and by the host's clock
    sent,       \* when the packet left, its server looked up
    served,     \* when the server stamped its answer
    synced,     \* whether the server had a time of its own
    stamp,      \* the transmit timestamp of the answer
    offset      \* snapshot.time_sync.offset_seconds

clock == <<now, skew, skews, at, start, t1, sent, served, synced, stamp, offset>>

ClockInit ==
    /\ now \in Now /\ skew \in Skew /\ skews = {} /\ at = "idle"
    /\ start = 0 /\ t1 = 0 /\ sent = 0 /\ served = 0 /\ synced = FALSE /\ stamp = 0
    /\ offset = {}

TakeT1 ==
    /\ at = "idle" /\ at' = "lookup"
    /\ start' = now /\ t1' = now + skew /\ skews' = {skew}
    /\ UNCHANGED <<now, skew, sent, served, synced, stamp, offset>>

LookUp ==
    /\ at = "lookup" /\ at' = "out"
    /\ \E d \in Delay : now' = now + d
    /\ sent' = now'
    /\ UNCHANGED <<skew, skews, start, t1, served, synced, stamp, offset>>

\* A server without a time of its own sends zeros.
Serve ==
    /\ at = "out" /\ at' = "back"
    /\ \E d \in Delay : now' = now + d
    /\ served' = now' /\ synced' \in BOOLEAN
    /\ stamp' = IF synced' THEN now' % Era ELSE 0
    /\ UNCHANGED <<skew, skews, start, t1, sent, offset>>

\* Mutant: the way there is not halved.
OffsetFromT1(t4) == stamp - t1

\* _query_ntp_offset, the midpoint estimate
MidpointOffset(t4) == stamp - (t1 + t4) \div 2

\* recvfrom waits for Wait; a probe over its budget has been given up.
Receive ==
    /\ at = "back" /\ at' = "done"
    /\ \E d \in Delay : now' = now + d
    /\ offset' = IF now' - sent <= Wait /\ now' - start <= Budget
                 THEN {MidpointOffset(now' + skew)} ELSE {}
    /\ UNCHANGED <<skew, skews, start, t1, sent, served, synced, stamp>>

\* No such name, no route, or a packet is lost.
Lose ==
    /\ at \in {"lookup", "out", "back"} /\ at' = "done"
    /\ UNCHANGED <<now, skew, skews, start, t1, sent, served, synced, stamp, offset>>

\* Somebody sets the host's clock while the query is out; once, as a bound.
SetClock ==
    /\ at \in {"lookup", "out", "back"} /\ skews = {skew}
    /\ skew' \in Skew \ skews /\ skews' = skews \union {skew'}
    /\ UNCHANGED <<now, at, start, t1, sent, served, synced, stamp, offset>>

Measured == at = "done" /\ UNCHANGED clock

ClockNext == TakeT1 \/ LookUp \/ Serve \/ Receive \/ Lose \/ SetClock \/ Measured
ClockSpec == ClockInit /\ [][ClockNext]_clock

------------------------------------------------------------------------------
StoppedBy(t) == TimeOffset([snapshot |-> [offset |-> t]])

\* MVP_BUILD_PLAN.md:258: a measured clock that has been more than 35 s off in one
\* direction all through the query is stopped, and one that stayed within 25 s is
\* not.  The lookup sits between the timestamps, so the margin is half of the
\* budget, not half of the 3 s the answer may take.
RuleFourJudges ==
    offset # {} /\ synced /\ served < Era =>
        LET half == (Budget + 1) \div 2 IN
        /\ \/ \A s \in skews : s > 300 + half
           \/ \A s \in skews : s < -300 - half
           => StoppedBy(offset)
        /\ (\A s \in skews : s >= -300 + half /\ s <= 300 - half) => ~StoppedBy(offset)

\* time_sync.py:35-38: the wrap of 2036 and a server that sends zeros fail closed.
\* Such an answer never makes a clock look right, whichever way it is off.
WrongStampStops ==
    offset # {} /\ (~synced \/ served >= Era) => StoppedBy(offset)
===============================================================================
