------------------------------ MODULE Deadlines ------------------------------
(***************************************************************************)
(* Deadlines as the database sees them.  Times are stored and compared as   *)
(* text in Go's RFC3339Nano layout, which drops a fraction's trailing zeros *)
(* and, if nothing is left, its point; and SQLite compares bytes, in which  *)
(* "." < digits < "Z".  So the order of two texts of one second need not be *)
(* the order of the times.  Here a run's lease is claimed, renewed and      *)
(* found expired (internal/run/coordinator.go) by such texts.               *)
(*                                                                         *)
(* A second has Base * Base ticks, the fraction two digits to base Base.    *)
(***************************************************************************)
EXTENDS Integers, Sequences

CONSTANTS
    Base,       \* 10 in the code, with up to nine digits
    TTL,        \* leaseTTL, in ticks
    MaxClock    \* bound: the last tick

VARIABLES
    clock,
    expires,   \* the time lease_expires_at was formatted from
    renewed,   \* when it was
    status,    \* "queued", "running", "recovering"
    renewing   \* the holder's renewer is running

vars == <<clock, expires, renewed, status, renewing>>

Second == Base * Base

\* The bytes behind the seconds, in their order: "." is -1, "Z" is Base.
Fraction(t) ==
    LET high == (t % Second) \div Base
        low == t % Base
    IN  IF low # 0 THEN <<-1, high, low, Base>>
        ELSE IF high # 0 THEN <<-1, high, Base>>
        ELSE <<Base>>

FractionBefore(a, b) ==
    \E i \in DOMAIN a \cap DOMAIN b :
        /\ a[i] < b[i]
        /\ \A j \in DOMAIN a \cap DOMAIN b : j < i => a[j] = b[j]

\* Fault: the seconds are not padded to two digits, so that 9 follows 10.
TextBeforeUnpadded(a, b) ==
    LET digits(t) == IF t \div Second < Base THEN <<t \div Second, -2>>
                     ELSE <<(t \div Second) \div Base, (t \div Second) % Base>>
    IN  IF digits(a) # digits(b) THEN FractionBefore(digits(a), digits(b))
        ELSE FractionBefore(Fraction(a), Fraction(b))

\* SQLite's text comparison of two times: the seconds have a fixed width.
TextBefore(a, b) ==
    IF a \div Second # b \div Second THEN a \div Second < b \div Second
    ELSE FractionBefore(Fraction(a), Fraction(b))

\* lease_expires_at <= now, as RecoverOrphans asks; Claim asks for its contrary.
SeenExpired == ~TextBefore(clock, expires)

Init ==
    /\ clock \in 0 .. MaxClock
    /\ expires = clock /\ renewed = clock
    /\ status = "queued"
    /\ renewing = FALSE

\* Claim's UPDATE.
Claim ==
    /\ status \in {"queued", "recovering"}
    /\ status' = "running" /\ renewing' = TRUE
    /\ renewed' = clock /\ expires' = clock + TTL
    /\ UNCHANGED clock

RenewIsDue == renewing /\ clock - renewed >= TTL \div 3

\* Renew: the ticker of executeRun fires every TTL / 3.
Renew ==
    /\ RenewIsDue
    /\ IF status = "running"
       THEN renewed' = clock /\ expires' = clock + TTL /\ UNCHANGED renewing
       ELSE renewing' = FALSE /\ UNCHANGED <<renewed, expires>>
    /\ UNCHANGED <<clock, status>>

\* The holder's process dies.
Die ==
    /\ renewing /\ renewing' = FALSE
    /\ UNCHANGED <<clock, expires, renewed, status>>

RecoverOrphans ==
    /\ status = "running" /\ SeenExpired
    /\ status' = "recovering"
    /\ UNCHANGED <<clock, expires, renewed, renewing>>

\* Time passes; a renewer that is running keeps up with its ticker.
Tick ==
    /\ clock < MaxClock /\ ~RenewIsDue
    /\ clock' = clock + 1
    /\ UNCHANGED <<expires, renewed, status, renewing>>

Next == Claim \/ Renew \/ Die \/ RecoverOrphans \/ Tick

Spec == Init /\ [][Next]_vars

\* Times and a run's status.
TypeOK ==
    /\ clock \in 0 .. MaxClock /\ renewed \in 0 .. MaxClock
    /\ expires \in 0 .. MaxClock + TTL
    /\ status \in {"queued", "running", "recovering"}
    /\ renewing \in BOOLEAN

\* The texts are wrong by less than a second, which the lease has to spare: a
\* renewed lease is never seen expired, by the recovery scan or by a sibling's
\* claim, and one that is a second past its deadline always is
\* (coordinator.go:149, coordinator.go:349).
LeaseExpiryIsRead ==
    status = "running" =>
        /\ renewing => ~SeenExpired
        /\ clock >= expires + Second => SeenExpired
=============================================================================
