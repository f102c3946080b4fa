----------------------------- MODULE RateLimit -----------------------------
(***************************************************************************)
(* JobRateLimitGuard: INCR of the counter of a user, and EXPIRE by the     *)
(* request that made it.  The key exists from the INCR, its time to live   *)
(* from the EXPIRE; a gateway that dies between the two leaves a key that  *)
(* never goes away.                                                        *)
(***************************************************************************)
EXTENDS Integers

CONSTANTS
    Submitters,     \* concurrent submissions of the user
    Limit,          \* JOB_RATE_LIMIT_PER_HOUR
    Window,         \* WINDOW_SECONDS, in ticks
    MaxCount        \* bound on the counter, which stays there

ASSUME LimitAssumption == Limit \in Nat /\ Window \in Nat \ {0} /\ MaxCount \in Nat /\ MaxCount > Limit /\ MaxCount > 1

VARIABLES
    counter,        \* the key: its value, 0 if there is none, and ttl, Forever before EXPIRE
    submitter,      \* the submissions
    admitted,       \* submissions let through since the key came into being
    orphaned        \* the gateway died between INCR and EXPIRE of this key

limitVars == <<counter, submitter, admitted, orphaned>>

Forever == 0
NoKey == [n |-> 0, ttl |-> Forever]

LimitTypeOK ==
    /\ counter \in [n : 0..MaxCount, ttl : 0..Window]
    /\ submitter \in [Submitters -> {"incr", "expire", "check", "over"}]
    /\ admitted \in Nat /\ orphaned \in BOOLEAN

LimitInit ==
    /\ counter = NoKey
    /\ submitter = [s \in Submitters |-> "incr"]
    /\ admitted = 0 /\ orphaned = FALSE

Submits(s, from, to) == submitter[s] = from /\ submitter' = [submitter EXCEPT ![s] = to]

Counted == IF counter.n < MaxCount THEN counter.n + 1 ELSE MaxCount

\* Mutant: the limit is inclusive.
AdmitsOneMore(n) == n <= Limit + 1

Admits(n) == n <= Limit

\* Mutant: every request starts the window again.
IncrAndExpire(s) ==
    /\ counter' = [n |-> Counted, ttl |-> Window]
    /\ Submits(s, "incr", "over")
    /\ admitted' = IF Admits(counter'.n) THEN admitted + 1 ELSE admitted
    /\ UNCHANGED orphaned

\* INCR; a count other than 1 is decided at once.
Incr(s) ==
    /\ counter' = [counter EXCEPT !.n = Counted]
    /\ Submits(s, "incr", IF counter'.n = 1 THEN "expire" ELSE "over")
    /\ admitted' = IF counter'.n > 1 /\ Admits(counter'.n) THEN admitted + 1 ELSE admitted
    /\ UNCHANGED orphaned

\* EXPIRE by the first request of the window.
Expire(s) ==
    /\ Submits(s, "expire", "over")
    /\ counter' = [counter EXCEPT !.ttl = Window]
    /\ admitted' = IF Admits(1) THEN admitted + 1 ELSE admitted
    /\ UNCHANGED orphaned

GatewayDies(s) ==
    /\ Submits(s, "expire", "over")
    /\ orphaned' = TRUE
    /\ UNCHANGED <<counter, admitted>>

\* The user submits again.
SubmitAgain(s) == Submits(s, "over", "incr") /\ UNCHANGED <<counter, admitted, orphaned>>

\* Time passes; a key whose time is up is gone.
SecondsPass ==
    /\ counter.ttl # Forever
    /\ IF counter.ttl = 1
       THEN counter' = NoKey /\ admitted' = 0 /\ orphaned' = FALSE
       ELSE counter' = [counter EXCEPT !.ttl = @ - 1] /\ UNCHANGED <<admitted, orphaned>>
    /\ UNCHANGED submitter

LimitNext ==
    SecondsPass \/ \E s \in Submitters : Incr(s) \/ Expire(s) \/ GatewayDies(s) \/ SubmitAgain(s)

LimitSpec == LimitInit /\ [][LimitNext]_limitVars

(***************************************************************************)
(* Properties                                                              *)
(***************************************************************************)
\* Concurrent submissions get no more than the limit through in a window.
WindowCapped == admitted <= Limit

\* A user at the limit is let in again however often they try meanwhile, unless
\* the gateway died before the window of the key had begun.
BlockedIsFreed == counter.n > Limit ~> counter.n = 0 \/ orphaned
=============================================================================
