----------------------------- MODULE RateLimiter -----------------------------
(***************************************************************************)
(* contracts/soroban/src/rate_limiter.rs: transfers are counted per user   *)
(* and for everybody in windows of a day, a week and a month, limits       *)
(* depend on the user's risk, tenure and whitelisting, and a breach starts *)
(* a cooldown.  Calls are atomic; a call that returns Err changes nothing, *)
(* a rejected one returns Ok and keeps what the breach wrote.              *)
(*                                                                         *)
(* Limits are a function of the window, in value and in count.  Lifetime   *)
(* totals, breach counts and trip counts, which nothing decides on, are    *)
(* left out.                                                               *)
(***************************************************************************)
EXTENDS LedgerClock, Sequences, FiniteSets, Functions

CONSTANTS
    Sender,         \* the users
    Values,         \* amounts that are transferred
    Length,         \* of each window: DAY_SECS, WEEK_SECS, MONTH_SECS
    GlobalValues,   \* global limits, by window
    LimitSets,      \* limits the admin sets, for a user or by default
    RiskScores,
    Reductions,     \* basis points of an emergency reduction
    Cooldowns,
    Tenure, Bonus, MaxBonus,  \* GRADUATED_TENURE_SECS, _BONUS_BPS, MAX_GRADUATED_BONUS_BPS
    MaxDays,        \* MAX_USAGE_HISTORY
    MaxEvents       \* bound of the model on the calls that are logged

Window == {"daily", "weekly", "monthly"}
Shared == {"daily", "weekly"}
Limits == [value : [Window -> Nat], count : [Window -> Nat]]

ASSUME LimiterAssumption ==
    /\ Values \subseteq Nat \ {0}
    /\ Length \in [Window -> Nat \ {0}]
    /\ GlobalValues \subseteq [Shared -> Nat \ {0}]
    /\ LimitSets \subseteq Limits
    /\ RiskScores \subseteq 0 .. 10000 /\ Reductions \subseteq 1 .. 10000
    /\ Cooldowns \subseteq Nat /\ Tenure \in Nat \ {0}
    /\ Bonus \in Nat /\ MaxBonus \in Nat /\ MaxDays \in Nat \ {0} /\ MaxEvents \in Nat

VARIABLES
    usage,      \* UserUsage by user, NoUsage before the first write
    total,      \* GlobalUsage
    days,       \* UserHistory by user
    custom,     \* UserLimits by user, NoLimits without
    defaults,   \* DefaultLimits
    cap,        \* GlobalLimits
    trusted,    \* Whitelist
    factor,     \* adjustment_factor_bps by user
    cooldown,   \* CooldownDuration
    halted,     \* EmergencyMode and whether the circuit breaker has tripped
    log         \* transfers, breaches and cleared cooldowns (history)

limiterVars == <<usage, total, days, custom, defaults, cap, trusted, factor,
                 cooldown, halted, log>>
settings == <<custom, defaults, cap, trusted, factor, cooldown, halted>>

NoUsage == [windows |-> <<>>, until |-> 0, first |-> 0]
NoLimits == [value |-> <<>>, count |-> <<>>]
Fresh == [value |-> 0, count |-> 0, start |-> now]

LimiterInit ==
    /\ usage = [u \in Sender |-> NoUsage] /\ total = [w \in Shared |-> Fresh]
    /\ days = [u \in Sender |-> <<>>]
    /\ custom = [u \in Sender |-> NoLimits] /\ defaults \in LimitSets
    /\ cap \in GlobalValues /\ trusted = {}
    /\ factor = [u \in Sender |-> 10000]
    /\ cooldown \in Cooldowns
    /\ halted = [emergency |-> FALSE, tripped |-> FALSE] /\ log = <<>>

get_or_init_usage(u) ==
    IF usage[u] # NoUsage THEN usage[u]
    ELSE [windows |-> [w \in Window |-> Fresh], until |-> 0, first |-> now]

\* Mutant: the counters restart and the window does not.
decayed_usage_OldStart(used, w) ==
    IF now >= used.start + Length[w] THEN [used EXCEPT !.value = 0, !.count = 0] ELSE used

decayed_usage(used, w) == IF now >= used.start + Length[w] THEN Fresh ELSE used

\* compute_effective_limits; the tenure bonus needs a stored usage.
effective(u) ==
    LET base == IF custom[u] # NoLimits THEN custom[u] ELSE defaults
        times == IF u \in trusted THEN 2 ELSE 1
        intervals == (now - usage[u].first) \div Tenure
        earned == IF intervals * Bonus < MaxBonus THEN intervals * Bonus ELSE MaxBonus
        bonus == IF usage[u] = NoUsage THEN 0 ELSE earned
        scaled(n) == (((n * times * factor[u]) \div 10000) * (10000 + bonus)) \div 10000
    IN [value |-> [w \in Window |->
            IF scaled(base.value[w]) < 1 THEN 1 ELSE scaled(base.value[w])],
        count |-> [w \in Window |-> base.count[w] * times]]

-----------------------------------------------------------------------------
(* Transfers.                                                               *)

Open(u) ==
    ~halted.emergency /\ ~halted.tripped /\ get_or_init_usage(u).until <= now

Decayed(u) == [w \in Window |-> decayed_usage(get_or_init_usage(u).windows[w], w)]
DecayedTotal == [w \in Shared |-> decayed_usage(total[w], w)]

\* check_limit: counts are looked at for the day only.
check_limit(u, n) ==
    /\ Open(u)
    /\ \A w \in Window : n <= effective(u).value[w] - Decayed(u)[w].value
    /\ Decayed(u)["daily"].count < effective(u).count["daily"]

Exceeds(u, n) == \E w \in Window :
    \/ Decayed(u)[w].value + n > effective(u).value[w]
    \/ Decayed(u)[w].count + 1 > effective(u).count[w]

ExceedsTotal(n) == \E w \in Shared : DecayedTotal[w].value + n > cap[w]

Added(used, n) == [used EXCEPT !.value = @ + n, !.count = @ + 1]

\* record_history
Recorded(u, n) ==
    LET day == now \div Length["daily"]
        h == days[u]
        today == [day |-> day, value |-> n, count |-> 1]
    IN IF h # <<>> /\ h[Len(h)].day = day
       THEN [h EXCEPT ![Len(h)].value = @ + n, ![Len(h)].count = @ + 1]
       ELSE Append(IF Len(h) >= MaxDays THEN Tail(h) ELSE h, today)

Logged(kind, u, n, until) ==
    /\ Len(log) < MaxEvents
    /\ log' = Append(log, [kind |-> kind, user |-> u, value |-> n, at |-> now,
                           until |-> until, limit |-> effective(u).value])

\* handle_breach: the cooldown is stored with the windows as they decayed.
breach(u, n) ==
    /\ Open(u) /\ Exceeds(u, n)
    /\ usage' = [usage EXCEPT ![u] = [windows |-> Decayed(u), until |-> now + cooldown,
                                      first |-> get_or_init_usage(u).first]]
    /\ Logged("breach", u, n, now + cooldown)
    /\ UNCHANGED <<total, days, settings>>

\* A transfer within every limit; one above a global limit changes nothing.
transfer(u, n) ==
    /\ Open(u) /\ ~Exceeds(u, n) /\ ~ExceedsTotal(n)
    /\ usage' = [usage EXCEPT ![u] =
           [windows |-> [w \in Window |-> Added(Decayed(u)[w], n)],
            until |-> get_or_init_usage(u).until, first |-> get_or_init_usage(u).first]]
    /\ total' = [w \in Shared |-> Added(DecayedTotal[w], n)]
    /\ days' = [days EXCEPT ![u] = Recorded(u, n)]
    /\ Logged("transfer", u, n, 0)
    /\ UNCHANGED settings

consume_limit(u, n) == breach(u, n) \/ transfer(u, n)

-----------------------------------------------------------------------------
(* Administration.                                                          *)

clear_cooldown(u) ==
    /\ usage' = [usage EXCEPT ![u] = [get_or_init_usage(u) EXCEPT !.until = 0]]
    /\ Logged("clear", u, 0, 0)
    /\ UNCHANGED <<total, days, settings>>

update_user_limit(u, limits) ==
    /\ limits.value["daily"] > 0 /\ limits.value["daily"] <= limits.value["weekly"]
    /\ limits.value["weekly"] <= limits.value["monthly"]
    /\ custom' = [custom EXCEPT ![u] = limits]
    /\ UNCHANGED <<usage, total, days, defaults, cap, trusted, factor, cooldown, halted, log>>

update_default_limits(limits) ==
    /\ \A w \in Window : limits.value[w] > 0
    /\ defaults' = limits
    /\ UNCHANGED <<usage, total, days, custom, cap, trusted, factor, cooldown, halted, log>>

emergency_reduce_limits(bps) ==
    /\ defaults' = [defaults EXCEPT !.value = [w \in Window |->
           LET less == (@[w] * (10000 - bps)) \div 10000 IN IF less < 1 THEN 1 ELSE less]]
    /\ UNCHANGED <<usage, total, days, custom, cap, trusted, factor, cooldown, halted, log>>

update_global_limit(values) ==
    /\ cap' = values
    /\ UNCHANGED <<usage, total, days, custom, defaults, trusted, factor, cooldown, halted, log>>

\* add_to_whitelist and remove_from_whitelist
set_whitelisted(u) ==
    /\ trusted' \in {trusted \cup {u}, trusted \ {u}}
    /\ UNCHANGED <<usage, total, days, custom, defaults, cap, factor, cooldown, halted, log>>

\* From 120 % at a score of 2000 down to 50 % at 7000.
calculate_adjustment_factor(score) ==
    IF score <= 2000 THEN 12000 ELSE IF score >= 7000 THEN 5000
    ELSE 12000 - ((score - 2000) * 7000) \div 5000

update_risk_score(u, score) ==
    /\ factor' = [factor EXCEPT ![u] = calculate_adjustment_factor(score)]
    /\ UNCHANGED <<usage, total, days, custom, defaults, cap, trusted, cooldown, halted, log>>

set_cooldown_duration(secs) ==
    /\ cooldown' = secs
    /\ UNCHANGED <<usage, total, days, custom, defaults, cap, trusted, factor, halted, log>>

\* set_emergency_mode, update_anomaly_score and reset_circuit_breaker; a score
\* below the threshold changes nothing but the score.
set_halted(which, on) ==
    /\ halted' = [halted EXCEPT ![which] = on]
    /\ UNCHANGED <<usage, total, days, custom, defaults, cap, trusted, factor, cooldown, log>>

LimiterAdmin ==
    \/ \E u \in Sender :
          \/ set_whitelisted(u)
          \/ \E limits \in LimitSets : update_user_limit(u, limits)
          \/ \E score \in RiskScores : update_risk_score(u, score)
    \/ \E limits \in LimitSets : update_default_limits(limits)
    \/ \E bps \in Reductions : emergency_reduce_limits(bps)
    \/ \E values \in GlobalValues : update_global_limit(values)
    \/ \E secs \in Cooldowns : set_cooldown_duration(secs)
    \/ \E which \in {"emergency", "tripped"}, on \in BOOLEAN : set_halted(which, on)

LimiterCalls ==
    \E u \in Sender : clear_cooldown(u) \/ \E n \in Values : consume_limit(u, n)

LimiterNext == (LimiterCalls \/ LimiterAdmin) /\ UNCHANGED now

\* The limiter and the ledger's clock by themselves.
LimiterSpec ==
    /\ ClockInit /\ LimiterInit
    /\ [][LimiterNext \/ (Tick /\ UNCHANGED limiterVars)]_<<now, limiterVars>>

-----------------------------------------------------------------------------
(* Properties.                                                              *)

\* The positions in the log of transfers, and what they come to.
IsSent(i, u) == log[i].kind = "transfer" /\ log[i].user = u
Sent(u, from, to) == {i \in DOMAIN log : IsSent(i, u) /\ log[i].at \in from .. to}
SentByAll(from) == {i \in DOMAIN log : log[i].kind = "transfer" /\ log[i].at >= from}
SentOn(u, day) == {i \in DOMAIN log : IsSent(i, u) /\ log[i].at \div Length["daily"] = day}
Amount == [i \in DOMAIN log |-> log[i].value]
Sum(positions) == SumFunctionOnSet(Amount, positions)

\* A value and a count are those of the transfers at some positions.
Accounts(used, positions) ==
    used.value = Sum(positions) /\ used.count = Cardinality(positions)

\* Usage is what was transferred since its window began, of one user or of
\* all, over any breaches, decays and changes of the limits; and a user's
\* history has the last days with transfers and their sums.
UsageIsTransfers ==
    /\ \A u \in Sender : usage[u] # NoUsage => \A w \in Window :
          Accounts(usage[u].windows[w], Sent(u, usage[u].windows[w].start, now))
    /\ \A w \in Shared : Accounts(total[w], SentByAll(total[w].start))
    /\ \A u \in Sender : \A i \in DOMAIN days[u] :
          /\ Accounts(days[u][i], SentOn(u, days[u][i].day))
          /\ i > 1 => days[u][i - 1].day < days[u][i].day

\* The windows do not roll, they start anew; so a span as long as a window
\* may see twice what the window allows, and whenever it begins it never sees
\* more than twice the highest limit that was in force in it.
SpansAreBounded ==
    \A u \in Sender, w \in Window, t \in 0 .. now :
        LET span == Sent(u, t, t + Length[w] - 1) IN
        span # {} => \E i \in span : Sum(span) <= 2 * log[i].limit[w]

\* "Cooldown periods after limit breaches": a user who breached a limit
\* transfers nothing until the cooldown of then is over or was cleared,
\* whatever became of limits, whitelist and the duration.
CooldownsHold ==
    \A i, j \in DOMAIN log :
        /\ i < j /\ log[i].kind = "breach" /\ log[j].kind = "transfer"
        /\ log[i].user = log[j].user /\ log[j].at < log[i].until
        => \E k \in i .. j : log[k].kind = "clear" /\ log[k].user = log[i].user

\* What consume_limit would take, check_limit has allowed.
CheckAgrees ==
    \A u \in Sender, n \in Values :
        Open(u) /\ ~Exceeds(u, n) /\ ~ExceedsTotal(n) => check_limit(u, n)

\* The rate limiter as a whole: accounts, spans, cooldowns and checks.
LimiterSound ==
    UsageIsTransfers /\ SpansAreBounded /\ CooldownsHold /\ CheckAgrees
=============================================================================
