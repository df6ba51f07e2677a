----------------------------- MODULE AnchorNode -----------------------------
(***************************************************************************)
(* /invoke of an Anchor Node (nps-nwp/src/anchor_server.rs) with its       *)
(* reputation gate (reputation_policy.rs): requests that run at the same   *)
(* time share the evaluator's two caches and the rate limiter.  An         *)
(* evaluation reads the clock once, before it asks the reputation log, and *)
(* goes on with that reading when the answer comes, however late.          *)
(*                                                                         *)
(* A severity is its rank; a time is a number of ticks.  The log, the      *)
(* limiter and the invoke handler are outside this code: the log only      *)
(* grows, the limiter admits Slots requests of a consumer at a time.       *)
(***************************************************************************)
EXTENDS Naturals, Sequences, FiniteSets

CONSTANTS
    Agents,            \* consumer NIDs
    Tasks,             \* requests the host handles at the same time
    Actions,           \* action id -> [async, cost]
    Budgets,           \* values of the X-NWP-Budget header (0: none)
    CgnLimit,          \* AnchorNodeOptions.cgn_limit
    BanOn, RejectOn, ThrottleOn,  \* ReputationPolicy: sequences of rules
    MinAssurance,      \* ReputationPolicy.min_assurance_level
    CacheTtl, BanTtl,  \* ReputationPolicy.cache_ttl_seconds, ban_ttl_seconds
    DenyUnavailable,   \* ReputationPolicy.on_log_unavailable = "deny"
    Sources,           \* ReputationPolicy.log_sources: how many
    Slots,             \* the limiter: requests of one consumer at a time
    Incidents,         \* what the log can say: [incident, severity] records
    MaxTime,           \* bound: ticks
    MaxEntries,        \* bound: log entries per agent
    MaxRequests        \* bound: requests

Rule == [incident : STRING, severity : Nat, at_least : BOOLEAN, within : Nat,
         count : Nat]

ASSUME AnchorNodeAssumption ==
    /\ IsFiniteSet(Tasks)
    /\ BanOn \in Seq(Rule) /\ RejectOn \in Seq(Rule) /\ ThrottleOn \in Seq(Rule)
    /\ CacheTtl \in Nat /\ BanTtl \in Nat /\ Sources \in Nat
    /\ Slots \in Nat /\ MaxTime \in Nat \ {0} /\ MaxEntries \in Nat
    /\ DenyUnavailable \in BOOLEAN

VARIABLES
    now,          \* the clock
    log,          \* the reputation log: agent -> entries
    query_cache,  \* agent -> [entries, expiry], or Uncached
    ban_cache,    \* agent -> when its ban ends (0: none)
    in_use,       \* the limiter: agent -> slots taken
    task,         \* what each task is doing
    requests,     \* history: requests taken
    leaked        \* history: agent -> slots kept by handlers that panicked

vars == <<now, log, query_cache, ban_cache, in_use, task, requests, leaked>>

Uncached == [entries |-> <<>>, expiry |-> 0]
Idle == [pc |-> "idle"]

-----------------------------------------------------------------------------
(***************************************************************************)
(* Rules and budgets.                                                      *)
(***************************************************************************)

\* rule_matches: incident, severity ("minor" or ">=minor") and age.
RuleMatches(rule, entry, at) ==
    /\ rule.incident \in {"*", entry.incident}
    /\ IF rule.at_least THEN entry.severity >= rule.severity
                        ELSE entry.severity = rule.severity
    /\ rule.within > 0 => at <= entry.at + rule.within

\* first_matching_rule finds one in a choice of the entries: count of them
\* match, at least one.
SomeMatchAmong(rules, entries, choice, at) ==
    \E i \in DOMAIN rules :
        LET hits == { k \in choice : RuleMatches(rules[i], entries[k], at) }
            needed == IF rules[i].count = 0 THEN 1 ELSE rules[i].count
        IN  Cardinality(hits) >= needed

SomeRuleMatches(rules, entries, at) ==
    SomeMatchAmong(rules, entries, DOMAIN entries, at)

\* read_effective_budget: the smaller of the two limits that are set.
EffectiveBudget(budget) ==
    CASE CgnLimit = 0 -> budget
      [] budget = 0   -> CgnLimit
      [] OTHER        -> IF budget < CgnLimit THEN budget ELSE CgnLimit

\* The estimate of the action is over the budget; 0 means no limit.
OverBudget(budget, cost) ==
    LET b == EffectiveBudget(budget) IN b > 0 /\ cost > b

\* DefaultReputationPolicyEvaluator::evaluate, steps 4 to 7.
Verdict(entries, at) ==
    CASE SomeRuleMatches(BanOn, entries, at)      -> "ban"
      [] SomeRuleMatches(RejectOn, entries, at)   -> "reject"
      [] SomeRuleMatches(ThrottleOn, entries, at) -> "throttle"
      [] OTHER                                    -> "accept"

-----------------------------------------------------------------------------
(***************************************************************************)
(* The steps of a request.                                                 *)
(***************************************************************************)

\* What the task does once the evaluator has entries: steps 4 to 7 of
\* evaluate, and apply_reputation.
Judged(t, entries, available) ==
    LET verdict == IF ~available /\ DenyUnavailable THEN "reject"
                   ELSE Verdict(entries, task[t].now)
        agent == task[t].agent
    IN  /\ ban_cache' = IF verdict = "ban"
                        THEN [ban_cache EXCEPT ![agent] = task[t].now + BanTtl]
                        ELSE ban_cache
        /\ task' = [task EXCEPT ![t] =
                      IF verdict = "accept"
                      THEN [task[t] EXCEPT !.pc = "admitted",
                                           !.available = available]
                      ELSE Idle]

\* handle and handle_invoke up to the evaluator: a request whose action is
\* unknown, or asks an action that has no async form for one, is answered
\* at once and leaves no trace; otherwise the clock is read, and assurance,
\* the ban cache and the query cache are looked at without a pause.
Invoke(t, agent, action, isAsync, budget, assurance) ==
    /\ task[t] = Idle
    /\ requests < MaxRequests
    /\ requests' = requests + 1
    /\ IF \/ action \notin DOMAIN Actions
          \/ isAsync /\ ~Actions[action].async
          \/ assurance < MinAssurance
          \/ ban_cache[agent] > now
       THEN UNCHANGED task
       ELSE task' = [task EXCEPT ![t] =
              [pc |-> "lookup", agent |-> agent, now |-> now,
               over |-> OverBudget(budget, Actions[action].cost), source |-> 1,
               entries |-> <<>>, available |-> TRUE]]
    /\ UNCHANGED <<now, log, query_cache, ban_cache, in_use, leaked>>

\* fetch_entries: a cached answer that has not expired is used.
CacheHit(t) ==
    /\ task[t].pc = "lookup"
    /\ CacheTtl > 0
    /\ query_cache[task[t].agent].expiry > task[t].now
    /\ Judged(t, query_cache[task[t].agent].entries, TRUE)
    /\ UNCHANGED <<now, log, query_cache, in_use, requests, leaked>>

\* fetch_entries: the next log source is asked.
AskSource(t) ==
    /\ \/ task[t].pc = "asking"
       \/ /\ task[t].pc = "lookup"
          /\ CacheTtl = 0 \/ query_cache[task[t].agent].expiry <= task[t].now
    /\ task[t].source <= Sources
    /\ task' = [task EXCEPT ![t].pc = "asked"]
    /\ UNCHANGED <<now, log, query_cache, ban_cache, in_use, requests, leaked>>

\* The source reads the log; the answer is on its way.
SourceReads(t) ==
    /\ task[t].pc = "asked"
    /\ task' = [task EXCEPT ![t] = [@ EXCEPT !.pc = "answered",
                                             !.entries = log[task[t].agent]]]
    /\ UNCHANGED <<now, log, query_cache, ban_cache, in_use, requests, leaked>>

\* The expiry counted from when the answer came.
CacheExpiry_Faulty(t) == now + CacheTtl
\* The expiry is counted from when the evaluation began.
CacheExpiry(t) == task[t].now + CacheTtl

\* fetch_entries: the answer replaces what the cache holds.
AnswerArrives(t) ==
    /\ task[t].pc = "answered"
    /\ query_cache' =
         IF CacheTtl > 0
         THEN [query_cache EXCEPT ![task[t].agent] =
                 [entries |-> task[t].entries, expiry |-> CacheExpiry(t)]]
         ELSE query_cache
    /\ Judged(t, task[t].entries, TRUE)
    /\ UNCHANGED <<now, log, in_use, requests, leaked>>

\* fetch_entries: the query failed, before or after the log was read.
SourceFails(t) ==
    /\ task[t].pc \in {"asked", "answered"}
    /\ task' = [task EXCEPT ![t] = [task[t] EXCEPT !.pc = "asking", !.source = @ + 1,
                                                   !.entries = <<>>]]
    /\ UNCHANGED <<now, log, query_cache, ban_cache, in_use, requests, leaked>>

\* fetch_entries: no source answered, the cache is used however old it is.
NoSource(t) ==
    /\ \/ task[t].pc = "asking"
       \/ /\ task[t].pc = "lookup"
          /\ CacheTtl = 0 \/ query_cache[task[t].agent].expiry <= task[t].now
    /\ task[t].source > Sources
    /\ Judged(t, query_cache[task[t].agent].entries, FALSE)
    /\ UNCHANGED <<now, log, query_cache, in_use, requests, leaked>>

\* handle_invoke after the gate: the budget, then the limiter.
Admit(t) ==
    /\ task[t].pc = "admitted"
    /\ LET agent == task[t].agent
       IN  IF task[t].over \/ in_use[agent] >= Slots
           THEN task' = [task EXCEPT ![t] = Idle] /\ UNCHANGED in_use
           ELSE /\ in_use' = [in_use EXCEPT ![agent] = @ + 1]
                /\ task' = [task EXCEPT ![t].pc = "running"]
    /\ UNCHANGED <<now, log, query_cache, ban_cache, requests, leaked>>

\* The slot kept when the action is done.
SlotsAfter_Faulty(t) == in_use
\* release of the consumer's slot.
SlotsAfter(t) == [in_use EXCEPT ![task[t].agent] = @ - 1]

\* The handler returns, a result or an error, for a synchronous and for an
\* asynchronous call alike (the handler runs inline), and the slot is free.
Finish(t) ==
    /\ task[t].pc = "running"
    /\ in_use' = SlotsAfter(t)
    /\ task' = [task EXCEPT ![t] = Idle]
    /\ UNCHANGED <<now, log, query_cache, ban_cache, requests, leaked>>

\* The handler panics: the unwinding leaves handle_invoke between try_acquire
\* and release, and nothing else gives the slot back.
Panic(t) ==
    /\ task[t].pc = "running"
    /\ task' = [task EXCEPT ![t] = Idle]
    /\ leaked' = [leaked EXCEPT ![task[t].agent] = @ + 1]
    /\ UNCHANGED <<now, log, query_cache, ban_cache, in_use, requests>>

-----------------------------------------------------------------------------
\* Somebody reports an incident to the log.
Report(agent, what) ==
    /\ Len(log[agent]) < MaxEntries
    /\ log' = [log EXCEPT ![agent] =
                 Append(@, [incident |-> what.incident,
                            severity |-> what.severity, at |-> now])]
    /\ UNCHANGED <<now, query_cache, ban_cache, in_use, task, requests, leaked>>

Tick ==
    /\ now < MaxTime
    /\ now' = now + 1
    /\ UNCHANGED <<log, query_cache, ban_cache, in_use, task, requests, leaked>>

Init ==
    /\ now = 1
    /\ log = [a \in Agents |-> <<>>]
    /\ query_cache = [a \in Agents |-> Uncached]
    /\ ban_cache = [a \in Agents |-> 0]
    /\ in_use = [a \in Agents |-> 0]
    /\ task = [t \in Tasks |-> Idle]
    /\ requests = 0
    /\ leaked = [a \in Agents |-> 0]

TaskStep(t) ==
    \/ CacheHit(t) \/ AskSource(t) \/ SourceReads(t) \/ AnswerArrives(t)
    \/ SourceFails(t) \/ NoSource(t) \/ Admit(t) \/ Finish(t)
    \/ Panic(t)

Next ==
    \/ \E t \in Tasks, a \in Agents, act \in DOMAIN Actions \cup {"unknown"},
          isAsync \in BOOLEAN, b \in Budgets, level \in {0, MinAssurance} :
         Invoke(t, a, act, isAsync, b, level)
    \/ \E t \in Tasks : TaskStep(t)
    \/ \E a \in Agents, what \in Incidents : Report(a, what)
    \/ Tick

Spec == Init /\ [][Next]_vars

-----------------------------------------------------------------------------
TypeOK ==
    /\ now \in 1..MaxTime
    /\ \A a \in Agents :
         /\ Len(log[a]) <= MaxEntries
         /\ query_cache[a].expiry \in 0..(MaxTime + CacheTtl)
         /\ ban_cache[a] \in 0..(MaxTime + BanTtl)
         /\ in_use[a] \in 0..Slots
         /\ leaked[a] \in 0..Slots
    /\ \A t \in Tasks :
         task[t].pc \in {"idle", "lookup", "asking", "asked", "answered",
                         "admitted", "running"}

\* A report is heard within cache_ttl_seconds: a request whose evaluation
\* began that long after the log held enough to ban or reject its sender is
\* not admitted on the log's word, whatever answers overtook each other on
\* their way into the query cache.
ReportsHeard ==
    \A t \in Tasks :
        (task[t].pc \in {"admitted", "running"} /\ task[t].available) =>
            LET entries == log[task[t].agent]
                old == { k \in DOMAIN entries : /\ entries[k].at + CacheTtl <= task[t].now
                                                /\ entries[k].at < task[t].now }
            IN  /\ ~SomeMatchAmong(BanOn, entries, old, task[t].now)
                /\ ~SomeMatchAmong(RejectOn, entries, old, task[t].now)

\* The limiter's count of a consumer is the number of its requests whose
\* handler runs and of those whose handler panicked: every path on which the
\* handler returns, synchronous or not, with a result or an error, frees the
\* slot, and none frees one twice or one that a refused request never took.
\* A panic keeps its slot for good (no drop guard holds it), so that a
\* consumer whose handlers panicked as often as it has slots is refused from
\* then on.
SlotsMatchRunning ==
    \A a \in Agents :
        in_use[a] = leaked[a]
                    + Cardinality({ t \in Tasks :
                                      task[t].pc = "running" /\ task[t].agent = a })
=============================================================================
