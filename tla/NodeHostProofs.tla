--------------------------- MODULE NodeHostProofs ---------------------------
(***************************************************************************)
(* Machine-checked proofs about the node hosts.                            *)
(*                                                                         *)
(* Part 1, AnchorNode: for any finite set of tasks, any agents, rules,     *)
(* lifetimes and log sources, and without the bounds on requests, time and *)
(* log entries that the model checker needs (the proofs hold for every     *)
(* value of them).                                                         *)
(*                                                                         *)
(* Part 2, Bridge: for any nodes, configurations, requests and inputs that *)
(* the assumptions of Bridge allow.                                        *)
(***************************************************************************)
EXTENDS AnchorNode, Bridge, FiniteSetTheorems, WellFoundedInduction, SequenceTheorems, TLAPS

-----------------------------------------------------------------------------
(* The inductive invariant.                                                 *)

LogEntry == [incident : {w.incident : w \in Incidents},
             severity : {w.severity : w \in Incidents}, at : Nat]

Busy == [pc : {"lookup", "asking", "asked", "answered", "admitted", "running"},
         agent : Agents, now : Nat, over : BOOLEAN, source : Nat,
         entries : Seq(LogEntry), available : BOOLEAN]

Types ==
    /\ now \in Nat
    /\ log \in [Agents -> Seq(LogEntry)]
    /\ query_cache \in [Agents -> [entries : Seq(LogEntry), expiry : Nat]]
    /\ ban_cache \in [Agents -> Nat]
    /\ in_use \in [Agents -> Nat] /\ leaked \in [Agents -> Nat]
    /\ task \in [Tasks -> {Idle} \cup Busy]

\* What the bounds of TypeOK come from.
Bounds ==
    /\ now \in 1..MaxTime
    /\ \A a \in Agents :
         /\ Len(log[a]) <= MaxEntries
         /\ query_cache[a].expiry <= now + CacheTtl
         /\ ban_cache[a] <= now + BanTtl
         /\ in_use[a] <= Slots

\* Nothing in the log, and no reading of the clock, is ahead of the clock.
Clock ==
    /\ \A a \in Agents : \A k \in 1..Len(log[a]) : log[a][k].at <= now
    /\ \A t \in Tasks : task[t] # Idle => task[t].now <= now

\* An answer is the log as it was at some time.
Prefix(entries, a) ==
    /\ Len(entries) <= Len(log[a])
    /\ \A k \in 1..Len(entries) : entries[k] = log[a][k]

\* What is cached held every report that is cache_ttl older than its expiry ...
Caches ==
    \A a \in Agents :
        /\ Prefix(query_cache[a].entries, a)
        /\ \A k \in 1..Len(log[a]) :
              log[a][k].at + CacheTtl < query_cache[a].expiry =>
                  k <= Len(query_cache[a].entries)

\* ... because an answer holds every report older than the evaluation.
Answers ==
    \A t \in Tasks : task[t].pc = "answered" =>
        /\ Prefix(task[t].entries, task[t].agent)
        /\ \A k \in 1..Len(log[task[t].agent]) :
              log[task[t].agent][k].at < task[t].now => k <= Len(task[t].entries)

IndInv == Types /\ Bounds /\ Clock /\ Caches /\ Answers /\ ReportsHeard /\ SlotsMatchRunning

-----------------------------------------------------------------------------
(* Rules.                                                                   *)

\* The indexes of an agent's log that were old when an evaluation began.
Old(a, at) == { k \in DOMAIN log[a] : log[a][k].at + CacheTtl <= at /\ log[a][k].at < at }

\* A task is not admitted over reports that were old when it began.
Heard(r) ==
    (r.pc \in {"admitted", "running"} /\ r.available) =>
        /\ ~SomeMatchAmong(BanOn, log[r.agent], Old(r.agent, r.now), r.now)
        /\ ~SomeMatchAmong(RejectOn, log[r.agent], Old(r.agent, r.now), r.now)

\* ReportsHeard, task by task.
LEMMA HeardEach == ReportsHeard <=> \A t \in Tasks : Heard(task[t])
  BY DEF ReportsHeard, Heard, Old

\* first_matching_rule is monotone: a rule that enough of some entries match is
\* matched by enough of more entries.
LEMMA MatchMonotone ==
    ASSUME NEW rules \in Seq(Rule), NEW e1, NEW e2, NEW S, NEW T, NEW at,
           IsFiniteSet(T), S \subseteq T, \A k \in S : e1[k] = e2[k],
           SomeMatchAmong(rules, e1, S, at)
    PROVE  SomeMatchAmong(rules, e2, T, at)
<1> DEFINE Hits(i, e, C) == { k \in C : RuleMatches(rules[i], e[k], at) }
           Needed(i) == IF rules[i].count = 0 THEN 1 ELSE rules[i].count
<1>1. PICK i \in DOMAIN rules : Cardinality(Hits(i, e1, S)) >= Needed(i)
  BY DEF SomeMatchAmong
<1>2. Needed(i) \in Nat
  <2>1. rules[i] \in Rule
    OBVIOUS
  <2>2. rules[i].count \in Nat
    BY <2>1 DEF Rule
  <2> QED
    BY <2>2
<1>3. \A k \in S : RuleMatches(rules[i], e1[k], at) => RuleMatches(rules[i], e2[k], at)
  OBVIOUS
<1>4. Hits(i, e1, S) \subseteq Hits(i, e2, T)
  BY <1>3
<1>5. IsFiniteSet(Hits(i, e2, T))
  <2>1. Hits(i, e2, T) \in SUBSET T
    OBVIOUS
  <2> HIDE DEF Hits
  <2> QED
    BY <2>1, FS_Subset
<1> HIDE DEF Hits, Needed
<1>6. /\ IsFiniteSet(Hits(i, e1, S))
      /\ Cardinality(Hits(i, e1, S)) <= Cardinality(Hits(i, e2, T))
  BY <1>4, <1>5, FS_Subset
<1>7. Cardinality(Hits(i, e1, S)) \in Nat /\ Cardinality(Hits(i, e2, T)) \in Nat
  BY <1>5, <1>6, FS_CardinalityType
<1>8. Cardinality(Hits(i, e2, T)) >= Needed(i)
  BY <1>1, <1>2, <1>6, <1>7
<1> QED
  BY <1>8 DEF SomeMatchAmong, Hits, Needed

\* An evaluation that finds no rule matched in an answer that holds every old
\* report finds none matched by the old reports.
LEMMA NoneMissed ==
    ASSUME Types, NEW a \in Agents, NEW entries \in Seq(LogEntry), NEW at \in Nat,
           Prefix(entries, a), \A k \in Old(a, at) : k <= Len(entries),
           NEW rules \in Seq(Rule), ~SomeRuleMatches(rules, entries, at)
    PROVE  ~SomeMatchAmong(rules, log[a], Old(a, at), at)
<1>1. DOMAIN entries = 1..Len(entries) /\ Len(entries) \in Nat
  OBVIOUS
<1>2. IsFiniteSet(DOMAIN entries)
  BY <1>1, FS_Interval
<1>3. log[a] \in Seq(LogEntry)
  BY DEF Types
<1>4. Old(a, at) \subseteq DOMAIN entries
  BY <1>1, <1>3 DEF Old
<1>5. \A k \in Old(a, at) : log[a][k] = entries[k]
  BY <1>1, <1>4 DEF Prefix
<1> QED
  BY <1>2, <1>4, <1>5, MatchMonotone DEF SomeRuleMatches

-----------------------------------------------------------------------------
(* A step of one task.                                                      *)

\* A step that replaces what one task is doing, and does right by the caches and
\* the slots, keeps the invariant.
LEMMA TaskChange ==
    ASSUME IndInv, NEW t \in Tasks, NEW r \in {Idle} \cup Busy,
           task' = [task EXCEPT ![t] = r], UNCHANGED <<now, log>>,
           query_cache' \in [Agents -> [entries : Seq(LogEntry), expiry : Nat]],
           ban_cache' \in [Agents -> Nat], in_use' \in [Agents -> Nat],
           leaked' \in [Agents -> Nat],
           Bounds', Caches', SlotsMatchRunning', Heard(r),
           r # Idle => r.now <= now,
           r.pc = "answered" =>
              /\ Prefix(r.entries, r.agent)
              /\ \A k \in 1..Len(log[r.agent]) : log[r.agent][k].at < r.now => k <= Len(r.entries)
    PROVE  IndInv'
<1>1. Types'
  BY DEF IndInv, Types
<1>2. task'[t] = r /\ \A u \in Tasks \ {t} : task'[u] = task[u]
  BY DEF IndInv, Types
<1>3. Clock'
  BY <1>2 DEF IndInv, Clock
<1>4. Answers'
  <2>1. \A e, a : Prefix(e, a)' <=> Prefix(e, a)
    BY DEF Prefix
  <2> QED
    BY <1>2, <2>1 DEF IndInv, Answers, Prefix
<1>5. ReportsHeard'
  <2>1. ASSUME NEW u \in Tasks PROVE Heard(task[u])'
    <3>1. CASE u = t
      BY <1>2, <3>1 DEF Heard, Old
    <3>2. CASE u # t
      <4>1. Heard(task[u])
        BY HeardEach DEF IndInv
      <4> QED
        BY <1>2, <3>2, <4>1 DEF Heard, Old
    <3> QED
      BY <3>1, <3>2
  <2> QED
    BY <2>1 DEF ReportsHeard, Heard, Old
<1> QED
  BY <1>1, <1>3, <1>4, <1>5 DEF IndInv

\* A step of a task that neither was running nor runs leaves the slots right.
LEMMA SlotsStill ==
    ASSUME IndInv, NEW t \in Tasks, NEW r, task' = [task EXCEPT ![t] = r],
           task[t].pc # "running", r.pc # "running", in_use' = in_use, leaked' = leaked
    PROVE  SlotsMatchRunning'
<1>1. task'[t] = r /\ \A u \in Tasks \ {t} : task'[u] = task[u]
  BY DEF IndInv, Types
<1>2. ASSUME NEW a \in Agents
      PROVE  {u \in Tasks : task'[u].pc = "running" /\ task'[u].agent = a} =
             {u \in Tasks : task[u].pc = "running" /\ task[u].agent = a}
  BY <1>1
<1> QED
  BY <1>2 DEF IndInv, SlotsMatchRunning

-----------------------------------------------------------------------------
(* The actions.                                                             *)

\* The initial state satisfies the invariant: nothing is cached or running.
LEMMA InitInv == Init => IndInv
<1> SUFFICES ASSUME Init PROVE IndInv
  OBVIOUS
<1>1. Types
  BY DEF Init, Types, Uncached
<1>2. Bounds
  BY AnchorNodeAssumption DEF Init, Bounds, Uncached
<1>3. Clock /\ Answers
  BY DEF Init, Clock, Answers, Idle
<1>4. Caches
  BY DEF Init, Caches, Prefix, Uncached
<1>5. ReportsHeard
  BY DEF Init, ReportsHeard, Idle
<1>6. SlotsMatchRunning
  <2> SUFFICES ASSUME NEW a \in Agents
               PROVE  in_use[a] = leaked[a] + Cardinality({ t \in Tasks :
                                    task[t].pc = "running" /\ task[t].agent = a })
    BY DEF SlotsMatchRunning
  <2>1. { t \in Tasks : task[t].pc = "running" /\ task[t].agent = a } = {}
    BY DEF Init, Idle
  <2>2. in_use[a] = 0 /\ leaked[a] = 0
    BY DEF Init
  <2> QED
    BY <2>1, <2>2, FS_EmptySet
<1> QED
  BY <1>1, <1>2, <1>3, <1>4, <1>5, <1>6 DEF IndInv

\* A request that gets as far as the evaluator begins with the clock it reads.
LEMMA InvokeInv ==
    ASSUME IndInv, NEW t \in Tasks, NEW agent \in Agents, NEW action, NEW isAsync,
           NEW budget, NEW level, Invoke(t, agent, action, isAsync, budget, level)
    PROVE  IndInv'
<1>1. UNCHANGED <<now, log, query_cache, ban_cache, in_use, leaked>> /\ task[t] = Idle
  BY DEF Invoke
<1>2. CASE UNCHANGED task
  BY <1>1, <1>2, ZenonT(20) DEF IndInv, Types, Bounds, Clock, Caches, Answers, Prefix, ReportsHeard,
                    SlotsMatchRunning
<1>3. CASE task' # task
  <2> DEFINE over == OverBudget(budget, Actions[action].cost)
             r == [pc |-> "lookup", agent |-> agent, now |-> now, over |-> over,
                   source |-> 1, entries |-> <<>>, available |-> TRUE]
  <2>1. task' = [task EXCEPT ![t] = r]
    BY <1>3 DEF Invoke
  <2>2. over \in BOOLEAN
    BY DEF OverBudget
  <2> HIDE DEF over
  <2>3. r \in Busy /\ r.pc = "lookup" /\ r.now = now
    BY <2>2 DEF Busy, IndInv, Types
  <2> HIDE DEF r
  <2>4. SlotsMatchRunning'
    <3>1. task[t].pc # "running" /\ r.pc # "running" /\ in_use' = in_use /\ leaked' = leaked
      BY <1>1, <2>3 DEF Idle
    <3> QED
      BY <2>1, <3>1, SlotsStill
  <2>5. Bounds' /\ Caches'
    BY <1>1 DEF IndInv, Bounds, Caches, Prefix
  <2>6. Heard(r) /\ r.now <= now
    BY <2>3 DEF Heard, IndInv, Types
  <2> QED
    <3>1. /\ query_cache' \in [Agents -> [entries : Seq(LogEntry), expiry : Nat]]
          /\ ban_cache' \in [Agents -> Nat] /\ in_use' \in [Agents -> Nat]
          /\ leaked' \in [Agents -> Nat]
      BY <1>1 DEF IndInv, Types
    <3> QED
      BY <1>1, <2>1, <2>3, <2>4, <2>5, <2>6, <3>1, TaskChange
<1> QED
  BY <1>2, <1>3

\* A step on the way to an answer: only the task changes.
LEMMA AskingInv ==
    ASSUME IndInv, NEW t \in Tasks, AskSource(t) \/ SourceReads(t) \/ SourceFails(t)
    PROVE  IndInv'
<1>1. task[t] \in Busy /\ task[t].pc \notin {"idle", "running"}
  BY DEF IndInv, Types, Idle, Busy, AskSource, SourceReads, SourceFails
<1>2. /\ UNCHANGED <<now, log, query_cache, ban_cache, in_use, leaked>>
      /\ log[task[t].agent] \in Seq(LogEntry) /\ task[t].source \in Nat
      /\ task[t].now <= now /\ now \in Nat
  BY <1>1 DEF AskSource, SourceReads, SourceFails, IndInv, Types, Busy, Clock, Idle
<1>3. PICK r \in Busy :
          /\ task' = [task EXCEPT ![t] = r]
          /\ r.pc \in {"asked", "answered", "asking"} /\ r.now = task[t].now
          /\ r.pc = "answered" => r.entries = log[task[t].agent] /\ r.agent = task[t].agent
  <2>1. CASE AskSource(t)
    <3> DEFINE r == [task[t] EXCEPT !.pc = "asked"]
    <3>1. task' = [task EXCEPT ![t] = r]
      BY <2>1 DEF AskSource
    <3>2. r \in Busy /\ r.pc = "asked" /\ r.now = task[t].now
      BY <1>1 DEF Busy
    <3> QED
      BY <3>1, <3>2
  <2>2. CASE SourceReads(t)
    <3> DEFINE r == [task[t] EXCEPT !.pc = "answered", !.entries = log[task[t].agent]]
    <3>1. task' = [task EXCEPT ![t] = r]
      BY <2>2 DEF SourceReads
    <3>2. r \in Busy /\ r.pc = "answered" /\ r.now = task[t].now
          /\ r.entries = log[task[t].agent] /\ r.agent = task[t].agent
      BY <1>1, <1>2 DEF Busy
    <3> QED
      BY <3>1, <3>2
  <2>3. CASE SourceFails(t)
    <3> DEFINE r == [task[t] EXCEPT !.pc = "asking", !.source = @ + 1, !.entries = <<>>]
    <3>1. task' = [task EXCEPT ![t] = r]
      BY <2>3 DEF SourceFails
    <3>2. r \in Busy /\ r.pc = "asking" /\ r.now = task[t].now
      <4>1. task[t].source + 1 \in Nat /\ <<>> \in Seq(LogEntry)
        BY <1>2
      <4> QED
        BY <1>1, <4>1 DEF Busy
    <3> QED
      BY <3>1, <3>2
  <2> QED
    BY <2>1, <2>2, <2>3
<1>4. SlotsMatchRunning'
  BY <1>1, <1>2, <1>3, SlotsStill
<1>5. Bounds' /\ Caches'
  BY <1>2 DEF IndInv, Bounds, Caches, Prefix
<1>6. Heard(r)
  BY <1>3 DEF Heard
<1>7. r.pc = "answered" =>
         /\ Prefix(r.entries, r.agent)
         /\ \A k \in 1..Len(log[r.agent]) : log[r.agent][k].at < r.now => k <= Len(r.entries)
  BY <1>2, <1>3 DEF Prefix
<1>8. Types /\ r.now <= now
  BY <1>2, <1>3 DEF IndInv
<1> QED
  BY <1>2, <1>3, <1>4, <1>5, <1>6, <1>7, <1>8, TaskChange DEF Types

\* Every entry of a log has a time.
LEMMA EntryTimes ==
    ASSUME NEW s \in Seq(LogEntry)
    PROVE  \A k \in 1..Len(s) : s[k].at \in Nat
<1>1. \A k \in 1..Len(s) : s[k] \in LogEntry
  OBVIOUS
<1> QED
  BY <1>1 DEF LogEntry

\* An evaluation that accepts found no rule to ban or to reject by.
LEMMA AcceptFoundNone ==
    ASSUME NEW entries, NEW at, Verdict(entries, at) = "accept"
    PROVE  ~SomeRuleMatches(BanOn, entries, at) /\ ~SomeRuleMatches(RejectOn, entries, at)
  BY DEF Verdict

\* The rest of an evaluation keeps the invariant, if what it judges by is an
\* answer that holds every old report, or is not the log's word.
LEMMA JudgedInv ==
    ASSUME IndInv, NEW t \in Tasks, NEW entries \in Seq(LogEntry), NEW available \in BOOLEAN,
           task[t].pc \in {"lookup", "asking", "answered"}, Judged(t, entries, available),
           UNCHANGED <<now, log, in_use, leaked>>,
           query_cache' \in [Agents -> [entries : Seq(LogEntry), expiry : Nat]],
           \A a \in Agents : query_cache'[a].expiry <= now + CacheTtl, Caches',
           available => /\ Prefix(entries, task[t].agent)
                        /\ \A k \in Old(task[t].agent, task[t].now) : k <= Len(entries)
    PROVE  IndInv'
<1> DEFINE old == task[t]
           verdict == IF ~available /\ DenyUnavailable THEN "reject"
                      ELSE Verdict(entries, old.now)
           r == IF verdict = "accept"
                THEN [old EXCEPT !.pc = "admitted", !.available = available] ELSE Idle
<1>1. /\ old \in Busy /\ old.agent \in Agents /\ old.now \in Nat /\ old.now <= now
      /\ old.pc # "running" /\ now \in Nat
  BY DEF IndInv, Types, Clock, Idle, Busy
<1>2. task' = [task EXCEPT ![t] = r]
  BY DEF Judged
<1>3. /\ ban_cache' \in [Agents -> Nat]
      /\ \A a \in Agents : ban_cache'[a] <= now + BanTtl
  <2>0. BanTtl \in Nat
    BY AnchorNodeAssumption
  <2>1. ban_cache' = ban_cache \/ ban_cache' = [ban_cache EXCEPT ![old.agent] = old.now + BanTtl]
    BY DEF Judged
  <2>2. /\ ban_cache \in [Agents -> Nat]
        /\ \A a \in Agents : ban_cache[a] <= now + BanTtl
    BY DEF IndInv, Types, Bounds
  <2>3. /\ old.now + BanTtl \in Nat /\ old.now + BanTtl <= now + BanTtl
        /\ old.agent \in Agents
    BY <1>1, <2>0
  <2>4. CASE ban_cache' = ban_cache
    BY <2>2, <2>4
  <2>5. CASE ban_cache' = [ban_cache EXCEPT ![old.agent] = old.now + BanTtl]
    <3> HIDE DEF old
    <3> QED
      BY <2>2, <2>3, <2>5
  <2> QED
    BY <2>1, <2>4, <2>5
<1>4. Bounds'
  BY <1>3 DEF IndInv, Bounds
<1>5. r \in {Idle} \cup Busy
  BY <1>1 DEF Busy
<1>6. r.pc \in {"idle", "admitted"}
  BY <1>1, <1>5 DEF Busy, Idle
<1>7. r # Idle => r = [old EXCEPT !.pc = "admitted", !.available = available]
  OBVIOUS
<1>8. r # Idle => /\ r.agent = old.agent /\ r.now = old.now /\ r.available = available
  BY <1>1, <1>7 DEF Busy
<1>9. Heard(r)
  <2>1. CASE r = Idle
    BY <2>1 DEF Heard, Idle
  <2>2. CASE r # Idle /\ ~available
    BY <1>8, <2>2 DEF Heard
  <2>3. CASE r # Idle /\ available
    <3>1. ~SomeRuleMatches(BanOn, entries, old.now) /\ ~SomeRuleMatches(RejectOn, entries, old.now)
      BY <2>3, AcceptFoundNone
    <3>2. /\ ~SomeMatchAmong(BanOn, log[old.agent], Old(old.agent, old.now), old.now)
          /\ ~SomeMatchAmong(RejectOn, log[old.agent], Old(old.agent, old.now), old.now)
      <4>1. Types
        BY DEF IndInv
      <4>2. BanOn \in Seq(Rule) /\ RejectOn \in Seq(Rule)
        BY AnchorNodeAssumption
      <4>3. Prefix(entries, old.agent) /\ \A k \in Old(old.agent, old.now) : k <= Len(entries)
        BY <2>3
      <4> HIDE DEF old, r, verdict
      <4> QED
        BY <1>1, <3>1, <4>1, <4>2, <4>3, NoneMissed
    <3> HIDE DEF old, r, verdict
    <3> QED
      BY <1>8, <2>3, <3>2 DEF Heard
  <2> QED
    BY <2>1, <2>2, <2>3
<1> HIDE DEF r
<1>10. SlotsMatchRunning'
  <2>1. task[t].pc # "running" /\ r.pc # "running" /\ in_use' = in_use /\ leaked' = leaked
    BY <1>1, <1>6
  <2> QED
    BY <1>2, <2>1, SlotsStill
<1>11. in_use' \in [Agents -> Nat] /\ leaked' \in [Agents -> Nat]
  BY DEF IndInv, Types
<1>12. r # Idle => r.now <= now
  BY <1>1, <1>8
<1> QED
  BY <1>2, <1>3, <1>4, <1>5, <1>6, <1>9, <1>10, <1>11, <1>12, TaskChange

\* A cached answer that has not expired holds every report that was old when
\* this evaluation began.
LEMMA CacheHitInv ==
    ASSUME IndInv, NEW t \in Tasks, CacheHit(t)
    PROVE  IndInv'
<1> DEFINE a == task[t].agent
           entries == query_cache[a].entries
<1>1. a \in Agents /\ task[t].pc = "lookup" /\ task[t].now \in Nat
  BY DEF CacheHit, IndInv, Types, Idle, Busy
<1>2. /\ entries \in Seq(LogEntry) /\ query_cache[a].expiry \in Nat
      /\ log[a] \in Seq(LogEntry)
  BY <1>1 DEF IndInv, Types
<1>3. /\ Prefix(entries, a)
      /\ \A k \in 1..Len(log[a]) : log[a][k].at + CacheTtl < query_cache[a].expiry => k <= Len(entries)
  BY <1>1 DEF IndInv, Caches
<1>4. \A k \in Old(a, task[t].now) : k <= Len(entries)
  <2>1. query_cache[a].expiry > task[t].now
    BY DEF CacheHit
  <2>2. \A k \in 1..Len(log[a]) : log[a][k].at \in Nat
    BY <1>2, EntryTimes
  <2>3. DOMAIN log[a] = 1..Len(log[a]) /\ CacheTtl \in Nat
    BY <1>2, AnchorNodeAssumption
  <2> HIDE DEF a, entries
  <2> QED
    BY <1>1, <1>2, <1>3, <2>1, <2>2, <2>3 DEF Old
<1>5. UNCHANGED <<now, log, in_use, leaked, query_cache>> /\ Judged(t, entries, TRUE)
  BY DEF CacheHit
<1>6. /\ query_cache' \in [Agents -> [entries : Seq(LogEntry), expiry : Nat]]
      /\ \A b \in Agents : query_cache'[b].expiry <= now + CacheTtl
      /\ Caches'
  BY <1>5 DEF IndInv, Types, Bounds, Caches, Prefix
<1> QED
  BY <1>1, <1>2, <1>3, <1>4, <1>5, <1>6, JudgedInv

\* An answer replaces the cache and lives from when its evaluation began, so
\* it holds every report that is cache_ttl older than its expiry.
LEMMA AnswerArrivesInv ==
    ASSUME IndInv, NEW t \in Tasks, AnswerArrives(t)
    PROVE  IndInv'
<1> DEFINE a == task[t].agent
           entries == task[t].entries
           fresh == [entries |-> entries, expiry |-> task[t].now + CacheTtl]
<1>0. CacheTtl \in Nat
  BY AnchorNodeAssumption
<1>1. /\ a \in Agents /\ task[t].pc = "answered" /\ task[t].now \in Nat
      /\ entries \in Seq(LogEntry) /\ task[t].now <= now /\ now \in Nat
  BY DEF AnswerArrives, IndInv, Types, Idle, Busy, Clock
<1>2. log[a] \in Seq(LogEntry)
  BY <1>1 DEF IndInv, Types
<1>3. /\ Prefix(entries, a)
      /\ \A k \in 1..Len(log[a]) : log[a][k].at < task[t].now => k <= Len(entries)
  BY <1>1 DEF IndInv, Answers
<1>4. \A k \in 1..Len(log[a]) : log[a][k].at \in Nat
  BY <1>2, EntryTimes
<1>5. \A k \in Old(a, task[t].now) : k <= Len(entries)
  BY <1>2, <1>3 DEF Old
<1>6. UNCHANGED <<now, log, in_use, leaked>> /\ Judged(t, entries, TRUE)
  BY DEF AnswerArrives
<1>7. query_cache' = query_cache \/ query_cache' = [query_cache EXCEPT ![a] = fresh]
  BY DEF AnswerArrives, CacheExpiry
<1>8. /\ query_cache \in [Agents -> [entries : Seq(LogEntry), expiry : Nat]]
      /\ \A b \in Agents : query_cache[b].expiry <= now + CacheTtl
      /\ Caches
  BY DEF IndInv, Types, Bounds
<1>9. fresh \in [entries : Seq(LogEntry), expiry : Nat] /\ fresh.expiry <= now + CacheTtl
  BY <1>0, <1>1
<1>10. \A k \in 1..Len(log[a]) : log[a][k].at + CacheTtl < fresh.expiry => k <= Len(fresh.entries)
  <2> SUFFICES ASSUME NEW k \in 1..Len(log[a]),
                      log[a][k].at + CacheTtl < task[t].now + CacheTtl
               PROVE  k <= Len(entries)
    OBVIOUS
  <2>1. log[a][k].at \in Nat
    BY <1>4
  <2>2. log[a][k].at < task[t].now
    BY <1>0, <1>1, <2>1, SMTT(20)
  <2> QED
    BY <1>3, <2>2
<1>11. fresh.entries = entries
  OBVIOUS
<1> HIDE DEF a, entries, fresh
<1>12. CASE query_cache' = query_cache
  <2>1. Caches'
    BY <1>6, <1>8, <1>12 DEF Caches, Prefix
  <2> QED
    BY <1>1, <1>3, <1>5, <1>6, <1>8, <1>12, <2>1, JudgedInv DEF a
<1>13. CASE query_cache' = [query_cache EXCEPT ![a] = fresh]
  <2>1. /\ query_cache'[a] = fresh
        /\ \A b \in Agents : b # a => query_cache'[b] = query_cache[b]
        /\ query_cache' \in [Agents -> [entries : Seq(LogEntry), expiry : Nat]]
    BY <1>1, <1>8, <1>9, <1>13
  <2>2. \A b \in Agents : query_cache'[b].expiry <= now + CacheTtl
    BY <1>8, <1>9, <2>1
  <2>3. Caches'
    <3> SUFFICES ASSUME NEW b \in Agents
                 PROVE  /\ Prefix(query_cache[b].entries, b)'
                        /\ \A k \in 1..Len(log'[b]) :
                              log'[b][k].at + CacheTtl < query_cache'[b].expiry =>
                                  k <= Len(query_cache'[b].entries)
      BY DEF Caches
    <3>1. CASE b = a
      BY <1>3, <1>6, <1>10, <1>11, <2>1, <3>1 DEF Prefix
    <3>2. CASE b # a
      BY <1>6, <1>8, <2>1, <3>2 DEF Caches, Prefix
    <3> QED
      BY <3>1, <3>2
  <2> QED
    BY <1>1, <1>3, <1>5, <1>6, <2>1, <2>2, <2>3, JudgedInv DEF a
<1> QED
  BY <1>7, <1>12, <1>13

\* Without an answer the evaluation goes by what is cached, however old, and
\* does not claim the log's word for it.
LEMMA NoSourceInv ==
    ASSUME IndInv, NEW t \in Tasks, NoSource(t)
    PROVE  IndInv'
<1>1. task[t].agent \in Agents /\ task[t].pc \in {"lookup", "asking"}
  BY DEF NoSource, IndInv, Types, Idle, Busy
<1>2. query_cache[task[t].agent].entries \in Seq(LogEntry)
  BY <1>1 DEF IndInv, Types
<1>3. /\ UNCHANGED <<now, log, in_use, leaked, query_cache>>
      /\ Judged(t, query_cache[task[t].agent].entries, FALSE)
  BY DEF NoSource
<1>4. /\ query_cache' \in [Agents -> [entries : Seq(LogEntry), expiry : Nat]]
      /\ \A b \in Agents : query_cache'[b].expiry <= now + CacheTtl
      /\ Caches'
  BY <1>3 DEF IndInv, Types, Bounds, Caches, Prefix
<1> QED
  BY <1>1, <1>2, <1>3, <1>4, JudgedInv

\* The tasks of an agent whose handler runs.
Running(a) == {u \in Tasks : task[u].pc = "running" /\ task[u].agent = a}

\* There are finitely many of them, and the limiter counts them with those
\* that panicked.
LEMMA RunningCounted ==
    ASSUME IndInv, NEW a \in Agents
    PROVE  /\ IsFiniteSet(Running(a)) /\ Cardinality(Running(a)) \in Nat
           /\ in_use[a] = leaked[a] + Cardinality(Running(a))
           /\ in_use[a] \in Nat /\ leaked[a] \in Nat
<1>1. Running(a) \in SUBSET Tasks /\ IsFiniteSet(Tasks)
  BY AnchorNodeAssumption DEF Running
<1>2. IsFiniteSet(Running(a))
  BY <1>1, FS_Subset
<1> QED
  BY <1>2, FS_CardinalityType DEF IndInv, SlotsMatchRunning, Running, Types

\* The slot is taken as the handler begins, and only when one is free.
LEMMA AdmitInv ==
    ASSUME IndInv, NEW t \in Tasks, Admit(t)
    PROVE  IndInv'
<1> DEFINE a == task[t].agent
           r == [task[t] EXCEPT !.pc = "running"]
<1>1. /\ task[t] \in Busy /\ a \in Agents /\ task[t].pc = "admitted" /\ task[t].now <= now
      /\ UNCHANGED <<now, log, query_cache, ban_cache, leaked>>
  BY DEF Admit, IndInv, Types, Idle, Busy, Clock
<1>2. /\ query_cache' \in [Agents -> [entries : Seq(LogEntry), expiry : Nat]]
      /\ ban_cache' \in [Agents -> Nat] /\ in_use \in [Agents -> Nat]
      /\ leaked' \in [Agents -> Nat] /\ Caches'
  BY <1>1 DEF IndInv, Types, Caches, Prefix
<1>3. CASE task' = [task EXCEPT ![t] = Idle] /\ in_use' = in_use
  <2>1. Heard(Idle) /\ Idle.pc # "answered" /\ Idle.pc # "running"
    BY DEF Heard, Idle
  <2>2. SlotsMatchRunning'
    BY <1>1, <1>3, <2>1, SlotsStill
  <2>3. Bounds' /\ in_use' \in [Agents -> Nat]
    BY <1>1, <1>2, <1>3 DEF IndInv, Bounds
  <2> QED
    BY <1>1, <1>2, <1>3, <2>1, <2>2, <2>3, TaskChange
<1>4. CASE /\ in_use[a] < Slots /\ in_use' = [in_use EXCEPT ![a] = @ + 1]
           /\ task' = [task EXCEPT ![t] = r]
  <2>1. /\ r \in Busy /\ r.pc = "running" /\ r.agent = a /\ r.now = task[t].now
        /\ r.available = task[t].available
    BY <1>1 DEF Busy
  <2> HIDE DEF a, r
  <2>2. Heard(r)
    <3>1. Heard(task[t])
      BY HeardEach DEF IndInv
    <3> QED
      BY <1>1, <2>1, <3>1 DEF Heard, a
  <2>3. task'[t] = r /\ \A u \in Tasks \ {t} : task'[u] = task[u]
    BY <1>4 DEF IndInv, Types
  <2>4. /\ in_use' \in [Agents -> Nat] /\ in_use'[a] = in_use[a] + 1
        /\ \A b \in Agents \ {a} : in_use'[b] = in_use[b]
    BY <1>1, <1>2, <1>4
  <2>5. Bounds'
    <3>1. in_use'[a] <= Slots
      BY <1>1, <1>2, <1>4, <2>4, AnchorNodeAssumption
    <3> QED
      BY <1>1, <2>4, <3>1 DEF IndInv, Bounds
  <2>6. SlotsMatchRunning'
    <3> SUFFICES ASSUME NEW b \in Agents PROVE in_use'[b] = leaked'[b] + Cardinality(Running(b)')
      BY DEF SlotsMatchRunning, Running
    <3>1. /\ IsFiniteSet(Running(b)) /\ Cardinality(Running(b)) \in Nat
          /\ in_use[b] = leaked[b] + Cardinality(Running(b)) /\ leaked'[b] = leaked[b]
          /\ leaked[b] \in Nat
      BY <1>1, RunningCounted
    <3>2. CASE b = a
      <4>1. Running(b)' = Running(b) \cup {t} /\ t \notin Running(b)
        BY <1>1, <2>1, <2>3, <3>2 DEF Running
      <4>2. Cardinality(Running(b)') = Cardinality(Running(b)) + 1
        BY <3>1, <4>1, FS_AddElement
      <4> QED
        BY <2>4, <3>1, <3>2, <4>2
    <3>3. CASE b # a
      <4>1. Running(b)' = Running(b)
        BY <1>1, <2>1, <2>3, <3>3 DEF Running
      <4> QED
        BY <2>4, <3>1, <3>3, <4>1
    <3> QED
      BY <3>2, <3>3
  <2>7. r.pc # "answered" /\ r.now <= now
    BY <1>1, <2>1
  <2> QED
    BY <1>1, <1>2, <1>4, <2>1, <2>2, <2>4, <2>5, <2>6, <2>7, TaskChange
<1> QED
  <2>1. in_use[a] \in Nat /\ Slots \in Nat
    BY <1>1, <1>2, AnchorNodeAssumption
  <2>2. in_use[a] >= Slots \/ in_use[a] < Slots
    BY <2>1
  <2> QED
    BY <1>3, <1>4, <2>2 DEF Admit

\* A handler that ends is one running task less, of its agent only.
LEMMA RunningLess ==
    ASSUME IndInv, NEW t \in Tasks, task[t].pc = "running", task' = [task EXCEPT ![t] = Idle],
           NEW a \in Agents, a = task[t].agent
    PROVE  /\ Cardinality(Running(a)') \in Nat
           /\ Cardinality(Running(a)') = Cardinality(Running(a)) - 1
           /\ \A b \in Agents \ {a} : Running(b)' = Running(b)
<1>1. task'[t] = Idle /\ \A u \in Tasks \ {t} : task'[u] = task[u]
  BY DEF IndInv, Types
<1>2. Idle.pc = "idle"
  BY DEF Idle
<1>3. \A b, u : u \in Running(b)' <=> u \in Tasks /\ task'[u].pc = "running" /\ task'[u].agent = b
  BY DEF Running
<1>4. \A b, u : u \in Running(b) <=> u \in Tasks /\ task[u].pc = "running" /\ task[u].agent = b
  BY DEF Running
<1>5. \A u \in Tasks : task'[u].pc = "running" <=> task[u].pc = "running" /\ u # t
  BY <1>1, <1>2
<1>6. \A u \in Tasks : u # t => task'[u].agent = task[u].agent
  BY <1>1
<1>7. Running(a)' = Running(a) \ {t}
  <2>1. \A u : u \in Running(a)' <=> u \in Running(a) /\ u # t
    BY <1>3, <1>4, <1>5, <1>6
  <2> QED
    BY <2>1
<1>8. ASSUME NEW b \in Agents \ {a} PROVE Running(b)' = Running(b)
  <2>1. t \notin Running(b)
    BY <1>4
  <2>2. \A u : u \in Running(b)' <=> u \in Running(b)
    BY <1>3, <1>4, <1>5, <1>6, <2>1
  <2> QED
    BY <2>2
<1>9. IsFiniteSet(Running(a)) /\ Cardinality(Running(a)) \in Nat /\ t \in Running(a)
  BY <1>4, RunningCounted
<1>10. /\ IsFiniteSet(Running(a) \ {t})
       /\ Cardinality(Running(a) \ {t}) = Cardinality(Running(a)) - 1
  BY <1>9, FS_RemoveElement
<1>11. Cardinality(Running(a) \ {t}) \in Nat
  BY <1>10, FS_CardinalityType
<1> QED
  BY <1>7, <1>8, <1>10, <1>11

\* The slot is freed as the handler returns.
LEMMA FinishInv ==
    ASSUME IndInv, NEW t \in Tasks, Finish(t)
    PROVE  IndInv'
<1>1. PICK a \in Agents :
      /\ a = task[t].agent /\ task[t].pc = "running" /\ task' = [task EXCEPT ![t] = Idle]
      /\ UNCHANGED <<now, log, query_cache, ban_cache, leaked>>
      /\ in_use' = [in_use EXCEPT ![a] = @ - 1]
  <2>1. task[t].agent \in Agents /\ task[t].pc = "running"
    BY DEF Finish, IndInv, Types, Idle, Busy
  <2>2. in_use' = [in_use EXCEPT ![task[t].agent] = in_use[task[t].agent] - 1]
    BY DEF Finish, SlotsAfter
  <2>3. task' = [task EXCEPT ![t] = Idle] /\ UNCHANGED <<now, log, query_cache, ban_cache, leaked>>
    BY DEF Finish
  <2> QED
    BY <2>1, <2>2, <2>3
<1>2. /\ query_cache' \in [Agents -> [entries : Seq(LogEntry), expiry : Nat]]
      /\ ban_cache' \in [Agents -> Nat] /\ in_use \in [Agents -> Nat]
      /\ leaked' \in [Agents -> Nat] /\ Caches'
  BY <1>1 DEF IndInv, Types, Caches, Prefix
<1>3. /\ in_use'[a] = in_use[a] - 1 /\ in_use' \in [Agents -> Int]
      /\ \A b \in Agents \ {a} : in_use'[b] = in_use[b]
  BY <1>1, <1>2
<1>4. /\ Cardinality(Running(a)') \in Nat
      /\ Cardinality(Running(a)') = Cardinality(Running(a)) - 1
      /\ \A b \in Agents \ {a} : Running(b)' = Running(b)
  BY <1>1, RunningLess
<1>5. ASSUME NEW b \in Agents
      PROVE  /\ in_use'[b] = leaked'[b] + Cardinality(Running(b)')
             /\ in_use'[b] \in Nat /\ in_use'[b] <= in_use[b]
  <2>1. /\ in_use[b] = leaked[b] + Cardinality(Running(b)) /\ Cardinality(Running(b)) \in Nat
        /\ in_use[b] \in Nat /\ leaked[b] \in Nat /\ leaked'[b] = leaked[b]
    BY <1>1, RunningCounted
  <2>2. CASE b = a
    BY <1>3, <1>4, <2>1, <2>2
  <2>3. CASE b # a
    BY <1>3, <1>4, <2>1, <2>3
  <2> QED
    BY <2>2, <2>3
<1>6. in_use' \in [Agents -> Nat]
  BY <1>3, <1>5
<1>7. Bounds'
  <2>1. \A b \in Agents : in_use'[b] <= Slots
    <3>1. \A b \in Agents : in_use[b] <= Slots /\ in_use[b] \in Nat
      BY <1>2 DEF IndInv, Bounds
    <3>2. Slots \in Nat
      BY AnchorNodeAssumption
    <3> QED
      BY <1>5, <3>1, <3>2
  <2> QED
    BY <1>1, <2>1 DEF IndInv, Bounds
<1>8. SlotsMatchRunning'
  BY <1>5 DEF SlotsMatchRunning, Running
<1>9. Heard(Idle) /\ Idle.pc # "answered"
  BY DEF Heard, Idle
<1> QED
  BY <1>1, <1>2, <1>6, <1>7, <1>8, <1>9, TaskChange

\* The slot of a handler that panics is counted as leaked.
LEMMA PanicInv ==
    ASSUME IndInv, NEW t \in Tasks, Panic(t)
    PROVE  IndInv'
<1>1. PICK a \in Agents :
      /\ a = task[t].agent /\ task[t].pc = "running" /\ task' = [task EXCEPT ![t] = Idle]
      /\ UNCHANGED <<now, log, query_cache, ban_cache, in_use>>
      /\ leaked' = [leaked EXCEPT ![a] = leaked[a] + 1]
  <2>1. task[t].agent \in Agents /\ task[t].pc = "running"
    BY DEF Panic, IndInv, Types, Idle, Busy
  <2> QED
    BY <2>1 DEF Panic
<1>2. /\ query_cache' \in [Agents -> [entries : Seq(LogEntry), expiry : Nat]]
      /\ ban_cache' \in [Agents -> Nat] /\ in_use' \in [Agents -> Nat]
      /\ leaked \in [Agents -> Nat] /\ Bounds' /\ Caches'
  BY <1>1 DEF IndInv, Types, Bounds, Caches, Prefix
<1>3. /\ leaked'[a] = leaked[a] + 1 /\ leaked' \in [Agents -> Nat]
      /\ \A b \in Agents \ {a} : leaked'[b] = leaked[b]
  BY <1>1, <1>2
<1>4. /\ Cardinality(Running(a)') \in Nat
      /\ Cardinality(Running(a)') = Cardinality(Running(a)) - 1
      /\ \A b \in Agents \ {a} : Running(b)' = Running(b)
  BY <1>1, RunningLess
<1>5. ASSUME NEW b \in Agents PROVE in_use'[b] = leaked'[b] + Cardinality(Running(b)')
  <2>1. /\ in_use[b] = leaked[b] + Cardinality(Running(b)) /\ Cardinality(Running(b)) \in Nat
        /\ in_use'[b] = in_use[b] /\ leaked[b] \in Nat
    BY <1>1, RunningCounted
  <2>2. CASE b = a
    BY <1>3, <1>4, <2>1, <2>2
  <2>3. CASE b # a
    BY <1>3, <1>4, <2>1, <2>3
  <2> QED
    BY <2>2, <2>3
<1>6. SlotsMatchRunning'
  BY <1>5 DEF SlotsMatchRunning, Running
<1>7. Heard(Idle) /\ Idle.pc # "answered"
  BY DEF Heard, Idle
<1> QED
  BY <1>1, <1>2, <1>3, <1>6, <1>7, TaskChange

\* A report is as new as the clock: older than no evaluation under way, and not
\* yet due in any cache.
LEMMA ReportInv ==
    ASSUME IndInv, NEW a \in Agents, NEW what \in Incidents, Report(a, what)
    PROVE  IndInv'
<1> DEFINE e == [incident |-> what.incident, severity |-> what.severity, at |-> now]
<1>0. CacheTtl \in Nat /\ MaxEntries \in Nat
  BY AnchorNodeAssumption
<1>1. /\ log' = [log EXCEPT ![a] = Append(log[a], e)] /\ Len(log[a]) < MaxEntries
      /\ UNCHANGED <<now, query_cache, ban_cache, in_use, task, leaked>>
  BY DEF Report
<1>2. e \in LogEntry /\ e.at = now /\ now \in Nat /\ \A b \in Agents : log[b] \in Seq(LogEntry)
  BY DEF LogEntry, IndInv, Types
<1> HIDE DEF e
<1>3. /\ log' \in [Agents -> Seq(LogEntry)] /\ log'[a] = Append(log[a], e)
      /\ \A b \in Agents \ {a} : log'[b] = log[b]
  BY <1>1, <1>2 DEF IndInv, Types
<1>4. /\ Len(log'[a]) = Len(log[a]) + 1 /\ log'[a][Len(log[a]) + 1] = e
      /\ \A k \in 1..Len(log[a]) : log'[a][k] = log[a][k]
  BY <1>2, <1>3
<1>5. \A b \in Agents :
         /\ Len(log[b]) \in Nat /\ Len(log'[b]) \in Nat /\ Len(log[b]) <= Len(log'[b])
         /\ \A k \in 1..Len(log[b]) : log'[b][k] = log[b][k]
         /\ \A k \in 1..Len(log'[b]) : k \in 1..Len(log[b]) \/ log'[b][k].at = now
  <2> TAKE b \in Agents
  <2>1. Len(log[b]) \in Nat
    BY <1>2
  <2>2. CASE b = a
    <3>1. \A k \in 1..(Len(log[a]) + 1) : k \in 1..Len(log[a]) \/ k = Len(log[a]) + 1
      BY <2>1, <2>2
    <3>2. log'[a][Len(log[a]) + 1].at = now
      BY <1>2, <1>4
    <3> QED
      BY <1>4, <2>1, <2>2, <3>1, <3>2
  <2>3. CASE b # a
    BY <1>3, <2>1, <2>3
  <2> QED
    BY <2>2, <2>3
<1>6. Types'
  BY <1>1, <1>3 DEF IndInv, Types
<1>7. Bounds'
  BY <1>0, <1>1, <1>2, <1>3, <1>4 DEF IndInv, Bounds
<1>8. Clock'
  BY <1>1, <1>2, <1>5 DEF IndInv, Clock
<1>9. ASSUME NEW b \in Agents, NEW s \in Seq(LogEntry), Prefix(s, b) PROVE Prefix(s, b)'
  <2>1. Len(s) \in Nat
    BY <1>9
  <2> QED
    BY <1>5, <1>9, <2>1 DEF Prefix
<1>10. Caches'
  <2> SUFFICES ASSUME NEW b \in Agents
               PROVE  /\ Prefix(query_cache[b].entries, b)'
                      /\ \A k \in 1..Len(log'[b]) :
                            log'[b][k].at + CacheTtl < query_cache'[b].expiry =>
                                k <= Len(query_cache'[b].entries)
    BY DEF Caches
  <2>1. /\ query_cache[b].entries \in Seq(LogEntry) /\ query_cache[b].expiry \in Nat
        /\ query_cache[b].expiry <= now + CacheTtl
    BY DEF IndInv, Types, Bounds
  <2>2. /\ Prefix(query_cache[b].entries, b)
        /\ \A k \in 1..Len(log[b]) : log[b][k].at + CacheTtl < query_cache[b].expiry =>
                                k <= Len(query_cache[b].entries)
    BY DEF IndInv, Caches
  <2>3. Prefix(query_cache[b].entries, b)'
    BY <1>1, <1>9, <2>1, <2>2 DEF Prefix
  <2>4. ASSUME NEW k \in 1..Len(log'[b]), log'[b][k].at + CacheTtl < query_cache[b].expiry
        PROVE  k <= Len(query_cache[b].entries)
    <3>1. ~(log'[b][k].at = now)
      BY <1>0, <1>2, <2>1, <2>4
    <3>2. k \in 1..Len(log[b])
      BY <1>5, <2>4, <3>1
    <3>3. log'[b][k] = log[b][k]
      BY <1>5, <3>2
    <3> QED
      BY <2>2, <2>4, <3>2, <3>3
  <2> QED
    BY <1>1, <2>3, <2>4
<1>11. Answers'
  <2> SUFFICES ASSUME NEW t \in Tasks, task[t].pc = "answered"
               PROVE  /\ Prefix(task[t].entries, task[t].agent)'
                      /\ \A k \in 1..Len(log'[task[t].agent]) :
                            log'[task[t].agent][k].at < task[t].now => k <= Len(task[t].entries)
    BY <1>1 DEF Answers
  <2>1. /\ task[t].agent \in Agents /\ task[t].entries \in Seq(LogEntry)
        /\ task[t].now \in Nat /\ task[t].now <= now
    BY DEF IndInv, Types, Clock, Idle, Busy
  <2>2. /\ Prefix(task[t].entries, task[t].agent)
        /\ \A k \in 1..Len(log[task[t].agent]) :
              log[task[t].agent][k].at < task[t].now => k <= Len(task[t].entries)
    BY DEF IndInv, Answers
  <2>3. Prefix(task[t].entries, task[t].agent)'
    BY <1>1, <1>9, <2>1, <2>2 DEF Prefix
  <2>4. ASSUME NEW k \in 1..Len(log'[task[t].agent]), log'[task[t].agent][k].at < task[t].now
        PROVE  k <= Len(task[t].entries)
    <3>1. ~(log'[task[t].agent][k].at = now)
      BY <1>2, <2>1, <2>4
    <3>2. k \in 1..Len(log[task[t].agent])
      BY <1>5, <2>1, <2>4, <3>1
    <3>3. log'[task[t].agent][k] = log[task[t].agent][k]
      BY <1>5, <2>1, <3>2
    <3> QED
      BY <2>2, <2>4, <3>2, <3>3
  <2> QED
    BY <2>3, <2>4
<1>12. ReportsHeard'
  <2> SUFFICES ASSUME NEW t \in Tasks PROVE Heard(task[t])'
    BY DEF ReportsHeard, Heard, Old
  <2>1. Heard(task[t])
    BY HeardEach DEF IndInv
  <2>2. CASE ~(task[t].pc \in {"admitted", "running"} /\ task[t].available)
    BY <1>1, <2>2 DEF Heard
  <2>3. CASE task[t].pc \in {"admitted", "running"} /\ task[t].available
    <3>1. PICK b \in Agents, n \in Nat : b = task[t].agent /\ n = task[t].now /\ n <= now
      <4>1. task[t] \in Busy
        BY <2>3 DEF IndInv, Types, Idle
      <4>2. task[t].agent \in Agents /\ task[t].now \in Nat
        BY <4>1 DEF Busy
      <4>3. task[t].now <= now
        BY <2>3 DEF IndInv, Clock, Idle
      <4> QED
        BY <4>2, <4>3
    <3>2. /\ DOMAIN log[b] = 1..Len(log[b]) /\ DOMAIN log'[b] = 1..Len(log'[b])
      BY <1>2, <1>3, <3>1
    <3>3. Old(b, n)' = Old(b, n)
      <4>1. ASSUME NEW k \in 1..Len(log'[b]), log'[b][k].at < n PROVE k \in 1..Len(log[b])
        <5>1. ~(log'[b][k].at = now)
          BY <1>2, <3>1, <4>1
        <5> QED
          BY <1>5, <4>1, <5>1
      <4>2. \A k \in 1..Len(log[b]) : k \in 1..Len(log'[b]) /\ log'[b][k] = log[b][k]
        BY <1>5, <3>1
      <4>3. Old(b, n)' = { k \in 1..Len(log'[b]) : log'[b][k].at + CacheTtl <= n /\ log'[b][k].at < n }
        BY <3>2 DEF Old
      <4>4. Old(b, n) = { k \in 1..Len(log[b]) : log[b][k].at + CacheTtl <= n /\ log[b][k].at < n }
        BY <3>2 DEF Old
      <4> QED
        BY <4>1, <4>2, <4>3, <4>4
    <3>4. Old(b, n) \in SUBSET (1..Len(log[b])) /\ IsFiniteSet(1..Len(log[b]))
      <4>1. Old(b, n) \in SUBSET (1..Len(log[b]))
        BY <3>2 DEF Old
      <4>2. Len(log[b]) \in Nat
        BY <1>5, <3>1
      <4> QED
        BY <4>1, <4>2, FS_Interval
    <3>5. IsFiniteSet(Old(b, n))
      BY <3>4, FS_Subset
    <3>6. \A k \in Old(b, n) : log'[b][k] = log[b][k]
      BY <1>5, <3>1, <3>4
    <3>7. BanOn \in Seq(Rule) /\ RejectOn \in Seq(Rule)
      BY AnchorNodeAssumption
    <3>8. /\ ~SomeMatchAmong(BanOn, log[b], Old(b, n), n)
          /\ ~SomeMatchAmong(RejectOn, log[b], Old(b, n), n)
      BY <2>1, <2>3, <3>1 DEF Heard
    <3>9. /\ ~SomeMatchAmong(BanOn, log'[b], Old(b, n), n)
          /\ ~SomeMatchAmong(RejectOn, log'[b], Old(b, n), n)
      BY <3>5, <3>6, <3>7, <3>8, MatchMonotone
    <3> QED
      BY <1>1, <3>1, <3>3, <3>9 DEF Heard
  <2> QED
    BY <2>2, <2>3
<1>13. SlotsMatchRunning'
  BY <1>1 DEF IndInv, SlotsMatchRunning
<1> QED
  BY <1>6, <1>7, <1>8, <1>10, <1>11, <1>12, <1>13 DEF IndInv

\* Time passes.
LEMMA TickInv ==
    ASSUME IndInv, Tick
    PROVE  IndInv'
<1>0. MaxTime \in Nat /\ CacheTtl \in Nat /\ BanTtl \in Nat
  BY AnchorNodeAssumption
<1>1. /\ now' = now + 1 /\ now < MaxTime /\ now \in Nat
      /\ UNCHANGED <<log, query_cache, ban_cache, in_use, task, leaked>>
  BY DEF Tick, IndInv, Types
<1>2. Types'
  BY <1>1 DEF IndInv, Types
<1>3. Bounds'
  BY <1>0, <1>1 DEF IndInv, Types, Bounds
<1>4. Clock'
  <2>1. \A a \in Agents : \A k \in 1..Len(log[a]) : log[a][k].at \in Nat
    BY EntryTimes DEF IndInv, Types
  <2>2. \A t \in Tasks : task[t] # Idle => task[t].now \in Nat
    BY DEF IndInv, Types, Busy
  <2> QED
    BY <1>1, <2>1, <2>2 DEF IndInv, Clock
<1>5. Caches' /\ Answers' /\ ReportsHeard' /\ SlotsMatchRunning'
  BY <1>1 DEF IndInv, Caches, Answers, Prefix, ReportsHeard, SlotsMatchRunning
<1> QED
  BY <1>2, <1>3, <1>4, <1>5 DEF IndInv

\* No step of the node, the log or the clock breaks the invariant.
LEMMA StepInv == IndInv /\ [Next]_vars => IndInv'
<1> SUFFICES ASSUME IndInv, [Next]_vars PROVE IndInv'
  OBVIOUS
<1>1. ASSUME NEW t \in Tasks, TaskStep(t) PROVE IndInv'
  BY <1>1, CacheHitInv, AskingInv, AnswerArrivesInv, NoSourceInv, AdmitInv, FinishInv,
     PanicInv DEF TaskStep
<1>2. ASSUME NEW t \in Tasks, NEW a \in Agents, NEW act, NEW isAsync, NEW b, NEW level,
             Invoke(t, a, act, isAsync, b, level)
      PROVE  IndInv'
  BY <1>2, InvokeInv
<1>3. ASSUME NEW a \in Agents, NEW what \in Incidents, Report(a, what) PROVE IndInv'
  BY <1>3, ReportInv
<1>4. CASE UNCHANGED vars
  BY <1>4 DEF IndInv, Types, Bounds, Clock, Caches, Answers, Prefix, ReportsHeard,
              SlotsMatchRunning, vars
<1> QED
  BY <1>1, <1>2, <1>3, <1>4, TickInv DEF Next

-----------------------------------------------------------------------------
(* The theorems.                                                            *)

\* The inductive invariant holds in every reachable state.
THEOREM Inductive == Spec => []IndInv
  BY InitInv, StepInv, PTL DEF Spec

\* The clock, the log, the caches, the limiter and the tasks keep their types
\* and stay inside their bounds.
THEOREM TypeCorrect == Spec => []TypeOK
<1>1. IndInv => TypeOK
  <2> SUFFICES ASSUME IndInv PROVE TypeOK
    OBVIOUS
  <2>0. MaxTime \in Nat /\ CacheTtl \in Nat /\ BanTtl \in Nat /\ Slots \in Nat
    BY AnchorNodeAssumption
  <2>1. ASSUME NEW a \in Agents
        PROVE  /\ Len(log[a]) <= MaxEntries
               /\ query_cache[a].expiry \in 0..(MaxTime + CacheTtl)
               /\ ban_cache[a] \in 0..(MaxTime + BanTtl)
               /\ in_use[a] \in 0..Slots
               /\ leaked[a] \in 0..Slots
    <3>1. /\ in_use[a] = leaked[a] + Cardinality(Running(a)) /\ Cardinality(Running(a)) \in Nat
          /\ leaked[a] \in Nat
      BY RunningCounted
    <3>2. in_use[a] \in 0..Slots
      BY <2>0 DEF IndInv, Types, Bounds
    <3>3. leaked[a] \in 0..Slots
      BY <2>0, <3>1, <3>2
    <3> QED
      BY <2>0, <3>2, <3>3 DEF IndInv, Types, Bounds
  <2>2. ASSUME NEW t \in Tasks
        PROVE  task[t].pc \in {"idle", "lookup", "asking", "asked", "answered",
                               "admitted", "running"}
    BY DEF IndInv, Types, Idle, Busy
  <2> QED
    BY <2>1, <2>2 DEF TypeOK, IndInv, Bounds
<1> QED
  BY <1>1, Inductive, PTL

\* A report is heard within cache_ttl_seconds: nobody is admitted on the log's
\* word whom old reports ban or reject, whatever order the answers of concurrent
\* evaluations reach the query cache in.
THEOREM ReportsHeardHolds == Spec => []ReportsHeard
<1>1. IndInv => ReportsHeard
  BY DEF IndInv
<1> QED
  BY <1>1, Inductive, PTL

\* The limiter's count of a consumer is the number of its requests whose handler
\* runs and of those whose handler panicked: no other way through handle_invoke
\* keeps a slot.
THEOREM SlotsMatchRunningHolds == Spec => []SlotsMatchRunning
<1>1. IndInv => SlotsMatchRunning
  BY DEF IndInv
<1> QED
  BY <1>1, Inductive, PTL

-----------------------------------------------------------------------------
(***************************************************************************)
(* Part 2: Bridge.                                                         *)
(***************************************************************************)
(* What a scan has learnt of the nodes it has passed.                       *)

\* A request that names, or leaves open, the tool it wants.
Resolves(in) == in.method \in {"tools/call", "tasks/send"}

\* The tools of the first k nodes.
Before(k) == {p \in Offers : p[1] <= k}

\* What was collected are candidates; as long as every node was seen as it is,
\* they are all the candidates of the nodes passed, and none was to be taken at
\* once.
Learnt(in, found, k, unsure) ==
    /\ \E S : found \in Seq(S)
    /\ \A m \in DOMAIN found : Collected(in, found[m])
    /\ ~unsure =>
          /\ \A m \in DOMAIN found : \E p \in Before(k) : found[m] = ToolAt(p)
          /\ \A p \in Before(k) :
                /\ ~TakenAtOnce(in, ToolAt(p))
                /\ Collected(in, ToolAt(p)) => \E m \in DOMAIN found : found[m] = ToolAt(p)
          /\ \A p, s \in Before(k) :
                p # s /\ Collected(in, ToolAt(p)) /\ Collected(in, ToolAt(s)) => Len(found) >= 2

\* A request as a record with all its fields.
Fields == {"pc", "input", "i", "fetching", "found", "tool", "answer"}
Whole(q) == q = [f \in Fields |-> q[f]]

\* What a scan is for.
Scannable(in) ==
    in.path = "grpc" \/ NeedsTools(in) \/ in.method \in {"resources/list", "resources/read"}

\* What a request knows at each of its steps.
ReqInv(q, unsure) ==
    /\ Whole(q) /\ q.i \in 1..Len(host.backends)
    /\ q.pc = "idle" => q.i = 1 /\ q.found = <<>> /\ ~q.fetching
    /\ q.pc # "idle" => q.input \in Inputs
    /\ q.pc \notin {"idle", "done"} => Refuses(q.input) = "none"
    /\ q.pc \in {"scan", "offer", "listing"} =>
          /\ Scannable(q.input)
          /\ Resolves(q.input) => Learnt(q.input, q.found, q.i - 1, unsure)
    /\ q.pc \in {"offer", "listing"} => q.input.path = "grpc" \/ NeedsTools(q.input)
    /\ q.pc = "listing" /\ ~unsure => IsInvokable(Nodes[host.backends[q.i]].role)
    /\ q.pc = "check" => ~IsCall(q.input)
    /\ q.pc \in {"call", "awaiting"} /\ IsCall(q.input) => Names(q.input, q.tool, unsure)

\* What a request may run, and what has been run for it.
Allowed(q, unsure) == Refuses(q.input) = "none" /\ Names(q.input, q.tool, unsure)

RunInv(q, unsure, sent, done) ==
    /\ q.pc \notin {"awaiting", "done"} => done = <<>> /\ ~sent
    /\ sent => done = <<>> /\ Allowed(q, unsure)
    /\ done # <<>> => done = <<q.tool>> /\ Allowed(q, unsure)

Sound(q, unsure, sent, done) == ReqInv(q, unsure) /\ RunInv(q, unsure, sent, done)

BridgeInv ==
    /\ host \in Hosts
    /\ \E S : req \in [Requests -> S]
    /\ \E S : ran \in [Requests -> S]
    /\ pending \in [Requests -> BOOLEAN] /\ disturbed \in [Requests -> BOOLEAN]
    /\ \A r \in Requests : Sound(req[r], disturbed[r], pending[r], ran[r])

-----------------------------------------------------------------------------
(* Facts about numbers.                                                     *)

LEMMA Up ==
    ASSUME NEW n \in Nat, NEW P, 0 \in P, \A i \in 0..(n - 1) : i \in P => i + 1 \in P
    PROVE  0..n \subseteq P
<1> DEFINE Bad == {i \in 0..n : i \notin P}
<1> SUFFICES ASSUME Bad # {} PROVE FALSE
  OBVIOUS
<1>1. IsWellFoundedOn(OpToRel(<, Nat), Nat)
  BY NatLessThanWellFounded
<1>2. Bad \subseteq Nat
  OBVIOUS
<1>3. PICK m \in Bad : \A y \in Bad : ~(<<y, m>> \in OpToRel(<, Nat))
  <2> HIDE DEF Bad
  <2> QED
    BY <1>1, <1>2, WFMin
<1>4. m # 0 /\ m - 1 \in 0..n /\ m - 1 < m
  OBVIOUS
<1>5. m - 1 \notin Bad
  BY <1>2, <1>3, <1>4 DEF OpToRel
<1> QED
  BY <1>4, <1>5

LEMMA MinIn ==
    ASSUME NEW S, S \subseteq Nat, S # {}
    PROVE  Min(S) \in S
<1>1. IsWellFoundedOn(OpToRel(<, Nat), Nat)
  BY NatLessThanWellFounded
<1>2. PICK m \in S : \A y \in S : ~(<<y, m>> \in OpToRel(<, Nat))
  BY <1>1, WFMin
<1>3. \A y \in S : ~(y < m)
  BY <1>2 DEF OpToRel
<1>4. \A y \in S : m <= y
  BY <1>3
<1> QED
  BY <1>4 DEF Min

-----------------------------------------------------------------------------
(* What is collected of the tools of one node.                              *)

\* The stages of the collection.
Stages(g, in, tools) ==
    /\ g = [k \in 0..Len(tools) |-> g[k]]
    /\ g[0] = <<>>
    /\ \A k \in 1..Len(tools) :
          g[k] = IF Collected(in, tools[k]) THEN Append(g[k - 1], tools[k]) ELSE g[k - 1]

LEMMA StagesExist ==
    ASSUME NEW in, NEW S, NEW tools \in Seq(S)
    PROVE  \E g : Stages(g, in, tools)
<1> DEFINE n == Len(tools)
           Next1(s, k) == IF Collected(in, tools[k]) THEN Append(s, tools[k]) ELSE s
           Has(k) == \E g : /\ g = [j \in 0..k |-> g[j]] /\ g[0] = <<>>
                            /\ \A j \in 1..k : g[j] = Next1(g[j - 1], j)
           P == {k \in 0..n : Has(k)}
<1>0. n \in Nat
  OBVIOUS
<1> HIDE DEF n, Next1
<1>1. 0 \in P
  <2> DEFINE g0 == [j \in 0..0 |-> <<>>]
  <2>1. g0 = [j \in 0..0 |-> g0[j]] /\ g0[0] = <<>> /\ \A j \in 1..0 : g0[j] = Next1(g0[j - 1], j)
    OBVIOUS
  <2> HIDE DEF g0
  <2> QED
    BY <1>0, <2>1
<1>2. ASSUME NEW k \in 0..(n - 1), k \in P PROVE k + 1 \in P
  <2>1. PICK g : /\ g = [j \in 0..k |-> g[j]] /\ g[0] = <<>>
                 /\ \A j \in 1..k : g[j] = Next1(g[j - 1], j)
    BY <1>2
  <2> DEFINE h == [j \in 0..(k + 1) |-> IF j <= k THEN g[j] ELSE Next1(g[k], k + 1)]
  <2>2. k \in Nat /\ k + 1 \in 0..n
    BY <1>0
  <2>3. h = [j \in 0..(k + 1) |-> h[j]]
    OBVIOUS
  <2>4. h[k + 1] = Next1(g[k], k + 1) /\ \A j \in 0..k : h[j] = g[j]
    BY <2>2
  <2> HIDE DEF h
  <2>5. h[0] = <<>>
    BY <2>1, <2>2, <2>4
  <2>6. ASSUME NEW j \in 1..(k + 1) PROVE h[j] = Next1(h[j - 1], j)
    <3>1. CASE j = k + 1
      <4>1. j - 1 = k /\ k \in 0..k
        BY <2>2, <3>1
      <4> QED
        BY <2>4, <3>1, <4>1
    <3>2. CASE j # k + 1
      <4>1. j \in 1..k /\ j \in 0..k /\ j - 1 \in 0..k
        BY <2>2, <3>2
      <4> QED
        BY <2>1, <2>4, <4>1
    <3> QED
      BY <3>1, <3>2
  <2>7. Has(k + 1)
    BY <2>3, <2>5, <2>6
  <2>8. k + 1 \in 0..n
    BY <2>2
  <2> HIDE DEF Has
  <2> QED
    BY <2>7, <2>8
<1>3. 0..n \subseteq P
  <2> HIDE DEF P
  <2> QED
    BY <1>0, <1>1, <1>2, Up
<1>4. Has(n)
  <2>1. n \in 0..n
    BY <1>0
  <2> HIDE DEF Has
  <2>2. \A k \in P : Has(k)
    OBVIOUS
  <2> HIDE DEF P
  <2> QED
    BY <1>3, <2>1, <2>2
<1> QED
  BY <1>4 DEF Stages, n, Next1

LEMMA CollectStages ==
    ASSUME NEW in, NEW S, NEW tools \in Seq(S)
    PROVE  \E g : Stages(g, in, tools) /\ Collect(in, tools) = g[Len(tools)]
<1> DEFINE n == Len(tools)
           G(g) == [k \in 0..n |->
                       IF k = 0 THEN <<>>
                       ELSE IF Collected(in, tools[k]) THEN Append(g[k - 1], tools[k])
                       ELSE g[k - 1]]
           f == CHOOSE g : g = G(g)
<1>0. n \in Nat
  OBVIOUS
<1>1. PICK g : Stages(g, in, tools)
  BY StagesExist
<1>2. g = G(g)
  <2>1. \A k \in 0..n : g[k] = G(g)[k]
    <3> SUFFICES ASSUME NEW k \in 0..n PROVE g[k] = G(g)[k]
      OBVIOUS
    <3>1. CASE k = 0
      BY <1>1, <3>1 DEF Stages
    <3>2. CASE k # 0
      <4>1. k \in 1..n
        BY <1>0, <3>2
      <4>2. g[k] = IF Collected(in, tools[k]) THEN Append(g[k - 1], tools[k]) ELSE g[k - 1]
        BY <1>1, <4>1 DEF Stages
      <4> QED
        BY <3>2, <4>2
    <3> QED
      BY <3>1, <3>2
  <2>2. g = [k \in 0..n |-> g[k]]
    BY <1>1 DEF Stages
  <2>3. G(g) = [k \in 0..n |-> G(g)[k]]
    OBVIOUS
  <2> HIDE DEF G
  <2>4. [k \in 0..n |-> g[k]] = [k \in 0..n |-> G(g)[k]]
    BY <2>1
  <2> QED
    BY <2>2, <2>3, <2>4
<1>3. f = G(f)
  <2> HIDE DEF G
  <2> QED
    BY <1>2
<1>4. Collect(in, tools) = f[n]
  BY DEF Collect
<1> HIDE DEF f
<1>5. Stages(f, in, tools)
  <2>1. f = [k \in 0..n |-> f[k]]
    BY <1>3
  <2>2. \A k \in 0..n : f[k] = G(f)[k]
    BY <1>3
  <2>3. f[0] = <<>>
    BY <1>0, <2>2
  <2>4. \A k \in 1..n : f[k] = IF Collected(in, tools[k]) THEN Append(f[k - 1], tools[k]) ELSE f[k - 1]
    <3> TAKE k \in 1..n
    <3>1. k \in 0..n /\ k # 0
      BY <1>0
    <3> QED
      BY <2>2, <3>1
  <2> QED
    BY <2>1, <2>3, <2>4 DEF Stages
<1> QED
  BY <1>4, <1>5


\* What is collected are the candidates among the tools, each of them, and as
\* many as there are.
LEMMA CollectFacts ==
    ASSUME NEW in, NEW S, NEW tools \in Seq(S)
    PROVE  /\ Collect(in, tools) \in Seq(S)
           /\ \A m \in DOMAIN Collect(in, tools) :
                 \E j \in DOMAIN tools : /\ Collected(in, tools[j])
                                        /\ Collect(in, tools)[m] = tools[j]
           /\ \A j \in DOMAIN tools : Collected(in, tools[j]) =>
                 \E m \in DOMAIN Collect(in, tools) : Collect(in, tools)[m] = tools[j]
           /\ \A i, j \in DOMAIN tools :
                 i # j /\ Collected(in, tools[i]) /\ Collected(in, tools[j]) =>
                     Len(Collect(in, tools)) >= 2
<1> DEFINE n == Len(tools)
           Is(j) == Collected(in, tools[j])
<1>0. n \in Nat /\ DOMAIN tools = 1..n
  OBVIOUS
<1>1. PICK g : Stages(g, in, tools) /\ Collect(in, tools) = g[n]
  BY CollectStages
<1>2. g[0] = <<>> /\ \A k \in 1..n : g[k] = IF Is(k) THEN Append(g[k - 1], tools[k]) ELSE g[k - 1]
  BY <1>1 DEF Stages
<1> HIDE DEF n, Is
<1> DEFINE Good(c, k) ==
               /\ c \in Seq(S)
               /\ \A m \in 1..Len(c) : \E j \in 1..k : Is(j) /\ c[m] = tools[j]
               /\ \A j \in 1..k : Is(j) => \E m \in 1..Len(c) : c[m] = tools[j]
               /\ \A i, j \in 1..k : i # j /\ Is(i) /\ Is(j) => Len(c) >= 2
           P == {k \in 0..n : Good(g[k], k)}
<1>3. 0 \in P
  <2>1. <<>> \in Seq(S) /\ Len(<<>>) = 0
    OBVIOUS
  <2>2. Good(<<>>, 0)
    BY <2>1
  <2>3. 0 \in 0..n
    BY <1>0
  <2> HIDE DEF Good
  <2> QED
    BY <1>2, <2>2, <2>3
<1>4. ASSUME NEW k \in 0..(n - 1), k \in P PROVE k + 1 \in P
  <2>1. k \in Nat /\ k + 1 \in 1..n /\ (k + 1) - 1 = k /\ k + 1 \in 0..n
    BY <1>0
  <2> DEFINE c == g[k]
             t == tools[k + 1]
             e == g[k + 1]
  <2>2. Good(c, k)
    BY <1>4
  <2>3. t \in S
    BY <1>0, <2>1
  <2>4. e = IF Is(k + 1) THEN Append(c, t) ELSE c
    BY <1>2, <2>1
  <2> HIDE DEF c, t, e
  <2>5. CASE ~Is(k + 1)
    <3>1. e = c
      BY <2>4, <2>5
    <3>2. \A j \in 1..(k + 1) : Is(j) => j \in 1..k
      BY <2>1, <2>5
    <3>3. 1..k \subseteq 1..(k + 1)
      BY <2>1
    <3>4. Good(c, k + 1)
      BY <2>2, <3>2, <3>3
    <3> QED
      BY <2>1, <3>1, <3>4 DEF e
  <2>6. CASE Is(k + 1)
    <3> DEFINE l == Len(c)
    <3>1. l \in Nat
      BY <2>2
    <3>2. e = Append(c, t)
      BY <2>4, <2>6
    <3>3. /\ e \in Seq(S) /\ Len(e) = l + 1 /\ e[l + 1] = t
          /\ \A m \in 1..l : e[m] = c[m]
      BY <2>2, <2>3, <3>2
    <3> HIDE DEF l
    <3>4. ASSUME NEW m \in 1..(l + 1)
          PROVE  \E j \in 1..(k + 1) : Is(j) /\ e[m] = tools[j]
      <4>1. CASE m = l + 1
        <5>1. e[m] = tools[k + 1] /\ k + 1 \in 1..(k + 1)
          BY <2>1, <3>3, <4>1 DEF t
        <5> QED
          BY <2>6, <5>1
      <4>2. CASE m # l + 1
        <5>1. m \in 1..l
          BY <3>1, <4>2
        <5>2. PICK j \in 1..k : Is(j) /\ c[m] = tools[j]
          BY <2>2, <5>1 DEF l
        <5>3. j \in 1..(k + 1)
          BY <2>1
        <5> QED
          BY <3>3, <5>1, <5>2, <5>3
      <4> QED
        BY <4>1, <4>2
    <3>5. ASSUME NEW j \in 1..(k + 1), Is(j)
          PROVE  \E m \in 1..(l + 1) : e[m] = tools[j]
      <4>1. CASE j = k + 1
        <5>1. e[l + 1] = tools[j] /\ l + 1 \in 1..(l + 1)
          BY <3>1, <3>3, <4>1 DEF t
        <5> QED
          BY <5>1
      <4>2. CASE j # k + 1
        <5>1. j \in 1..k
          BY <2>1, <4>2
        <5>2. PICK m \in 1..l : c[m] = tools[j]
          BY <2>2, <3>5, <5>1 DEF l
        <5>3. m \in 1..(l + 1)
          BY <3>1
        <5> QED
          BY <3>3, <5>2, <5>3
      <4> QED
        BY <4>1, <4>2
    <3>6. ASSUME NEW i \in 1..(k + 1), NEW j \in 1..(k + 1), i # j, Is(i), Is(j)
          PROVE  l + 1 >= 2
      <4>1. i \in 1..k \/ j \in 1..k
        BY <2>1, <3>6
      <4>2. \E m \in 1..l : TRUE
        BY <2>2, <3>6, <4>1 DEF l
      <4> QED
        BY <3>1, <4>2
    <3>7. Good(e, k + 1)
      BY <3>3, <3>4, <3>5, <3>6
    <3> QED
      BY <2>1, <3>7 DEF e
  <2> QED
    BY <2>5, <2>6
<1>5. 0..n \subseteq P
  <2> HIDE DEF P
  <2> QED
    BY <1>0, <1>3, <1>4, Up
<1>6. Good(g[n], n)
  <2> HIDE DEF Good
  <2>1. n \in P
    BY <1>0, <1>5
  <2> QED
    BY <2>1
<1> DEFINE c == Collect(in, tools)
<1>7. Good(c, n)
  BY <1>1, <1>6
<1>8. DOMAIN c = 1..Len(c)
  BY <1>7
<1> HIDE DEF c
<1>9. /\ c \in Seq(S)
      /\ \A m \in DOMAIN c : \E j \in DOMAIN tools : Is(j) /\ c[m] = tools[j]
      /\ \A j \in DOMAIN tools : Is(j) => \E m \in DOMAIN c : c[m] = tools[j]
      /\ \A i, j \in DOMAIN tools : i # j /\ Is(i) /\ Is(j) => Len(c) >= 2
  BY <1>0, <1>7, <1>8
<1> QED
  BY <1>9 DEF c, Is


-----------------------------------------------------------------------------
(* The tools offered, node by node.                                         *)

LEMMA OffersAre ==
    ASSUME host \in Hosts, NEW p
    PROVE  p \in Offers <=>
              \E i \in 1..Len(host.backends) : \E j \in DOMAIN Nodes[host.backends[i]].actions :
                  p = <<i, j>> /\ IsInvokable(Nodes[host.backends[i]].role)
<1>1. host.backends \in Seq(DOMAIN Nodes)
  BY BridgeAssumption
<1>2. DOMAIN host.backends = 1..Len(host.backends)
  BY <1>1
<1> QED
  BY <1>2 DEF Offers

LEMMA Members ==
    ASSUME NEW A, NEW s \in Seq(A)
    PROVE  /\ Len(s) \in Nat /\ DOMAIN s = 1..Len(s)
           /\ \A j \in 1..Len(s) : s[j] \in A
OBVIOUS

LEMMA Built ==
    ASSUME NEW A, NEW n \in Nat, NEW s, s = [j \in 1..n |-> s[j]], \A j \in 1..n : s[j] \in A
    PROVE  s \in Seq(A) /\ DOMAIN s = 1..n
OBVIOUS

LEMMA Wider ==
    ASSUME NEW A, NEW B, A \subseteq B, NEW s \in Seq(A)
    PROVE  s \in Seq(B)
<1>1. Len(s) \in Nat /\ \A j \in 1..Len(s) : s[j] \in B
  BY Members
<1>2. s = [j \in 1..Len(s) |-> s[j]]
  OBVIOUS
<1> QED
  BY <1>1, <1>2, Built

\* The tools of a node are those at its place.
LEMMA ToolsThere ==
    ASSUME host \in Hosts, NEW i \in 1..Len(host.backends)
    PROVE  /\ host.backends[i] \in DOMAIN Nodes
           /\ ToolsOf(host.backends[i]) \in Seq([node : DOMAIN Nodes, action : Seq(STRING)])
           /\ DOMAIN ToolsOf(host.backends[i]) = DOMAIN Nodes[host.backends[i]].actions
           /\ \A j \in DOMAIN ToolsOf(host.backends[i]) :
                 ToolAt(<<i, j>>) = ToolsOf(host.backends[i])[j]
<1> DEFINE b == host.backends[i]
           as == Nodes[b].actions
           ts == ToolsOf(b)
           T == [node : DOMAIN Nodes, action : Seq(STRING)]
<1>1. host.backends \in Seq(DOMAIN Nodes)
  BY BridgeAssumption
<1>2. b \in DOMAIN Nodes
  BY <1>1
<1> HIDE DEF b
<1>3. as \in Seq(Seq(STRING))
  BY <1>2, BridgeAssumption
<1>4. ts = [j \in DOMAIN as |-> [node |-> b, action |-> as[j]]]
  BY DEF ToolsOf
<1> HIDE DEF as
<1>5. Len(as) \in Nat /\ DOMAIN as = 1..Len(as) /\ \A j \in 1..Len(as) : as[j] \in Seq(STRING)
  BY <1>3, Members
<1>6. ts \in Seq(T) /\ DOMAIN ts = DOMAIN as
  <2> HIDE DEF ts
  <2>1. ts = [j \in 1..Len(as) |-> ts[j]]
    BY <1>4, <1>5
  <2>2. \A j \in 1..Len(as) : ts[j] \in T
    <3> TAKE j \in 1..Len(as)
    <3>1. ts[j] = [node |-> b, action |-> as[j]]
      BY <1>4, <1>5
    <3>2. PICK v \in Seq(STRING) : v = as[j]
      BY <1>5
    <3>3. [node |-> b, action |-> v] \in T
      BY <1>2
    <3> QED
      BY <3>1, <3>2, <3>3
  <2> HIDE DEF T
  <2> QED
    BY <1>5, <2>1, <2>2, Built
<1>7. \A j : ToolAt(<<i, j>>) = ts[j]
  BY DEF ToolAt, b
<1> QED
  BY <1>2, <1>6, <1>7 DEF b, as

\* Up to a node there are the tools before it and, if it has any, its own.
LEMMA BeforeNext ==
    ASSUME host \in Hosts, NEW i \in 1..Len(host.backends), NEW p
    PROVE  p \in Before(i) <=>
              \/ p \in Before(i - 1)
              \/ /\ IsInvokable(Nodes[host.backends[i]].role)
                 /\ \E j \in DOMAIN ToolsOf(host.backends[i]) : p = <<i, j>>
<1>1. host.backends \in Seq(DOMAIN Nodes)
  BY BridgeAssumption
<1>2. Len(host.backends) \in Nat /\ i \in Nat
  BY <1>1
<1>3. DOMAIN ToolsOf(host.backends[i]) = DOMAIN Nodes[host.backends[i]].actions
  BY ToolsThere
<1>4. ASSUME p \in Before(i)
      PROVE  \/ p \in Before(i - 1)
             \/ /\ IsInvokable(Nodes[host.backends[i]].role)
                /\ \E j \in DOMAIN ToolsOf(host.backends[i]) : p = <<i, j>>
  <2>1. p \in Offers /\ p[1] <= i
    BY <1>4 DEF Before
  <2>2. PICK k \in 1..Len(host.backends) : \E j \in DOMAIN Nodes[host.backends[k]].actions :
           p = <<k, j>> /\ IsInvokable(Nodes[host.backends[k]].role)
    BY <2>1, OffersAre
  <2>3. p[1] = k /\ k \in Nat
    BY <1>2, <2>2
  <2>4. CASE k = i
    BY <1>3, <2>2, <2>4
  <2>5. CASE k # i
    <3>1. p[1] <= i - 1
      BY <1>2, <2>1, <2>3, <2>5
    <3> QED
      BY <2>1, <3>1 DEF Before
  <2> QED
    BY <2>4, <2>5
<1>5. ASSUME p \in Before(i - 1) PROVE p \in Before(i)
  <2>1. p \in Offers /\ p[1] <= i - 1
    BY <1>5 DEF Before
  <2>2. PICK k \in 1..Len(host.backends) : \E j \in DOMAIN Nodes[host.backends[k]].actions :
           p = <<k, j>> /\ IsInvokable(Nodes[host.backends[k]].role)
    BY <2>1, OffersAre
  <2>3. p[1] = k /\ k \in Nat
    BY <1>2, <2>2
  <2>4. p[1] <= i
    BY <1>2, <2>1, <2>3
  <2> QED
    BY <2>1, <2>4 DEF Before
<1>6. ASSUME IsInvokable(Nodes[host.backends[i]].role),
             NEW j \in DOMAIN ToolsOf(host.backends[i]), p = <<i, j>>
      PROVE  p \in Before(i)
  <2>1. p \in Offers
    BY <1>3, <1>6, OffersAre
  <2>2. p[1] = i /\ i <= i
    BY <1>2, <1>6
  <2> QED
    BY <2>1, <2>2 DEF Before
<1> QED
  BY <1>4, <1>5, <1>6

LEMMA BeforeFirst ==
    ASSUME host \in Hosts
    PROVE  Before(0) = {} /\ Before(Len(host.backends)) = Offers
<1>1. host.backends \in Seq(DOMAIN Nodes)
  BY BridgeAssumption
<1>2. \A p \in Offers : p[1] \in 1..Len(host.backends)
  <2> TAKE p \in Offers
  <2>1. PICK k \in 1..Len(host.backends) : \E j \in DOMAIN Nodes[host.backends[k]].actions :
           p = <<k, j>> /\ IsInvokable(Nodes[host.backends[k]].role)
    BY OffersAre
  <2> QED
    BY <2>1
<1>3. Len(host.backends) \in Nat
  BY <1>1
<1>4. \A p \in Offers : ~(p[1] <= 0) /\ p[1] <= Len(host.backends)
  BY <1>2, <1>3
<1> QED
  BY <1>4 DEF Before


-----------------------------------------------------------------------------
(* A scan learns of one node more.                                          *)

\* The node has been seen as it is, or something has not been.
LEMMA LearntMore ==
    ASSUME host \in Hosts, NEW in, NEW found, NEW i \in 1..Len(host.backends),
           NEW unsure, Learnt(in, found, i - 1, unsure),
           NEW S, NEW tools \in Seq(S),
           ~unsure => tools = IF IsInvokable(Nodes[host.backends[i]].role)
                              THEN ToolsOf(host.backends[i]) ELSE <<>>,
           \A j \in DOMAIN tools : ~TakenAtOnce(in, tools[j])
    PROVE  Learnt(in, found \o Collect(in, tools), i, unsure)
<1> DEFINE c == Collect(in, tools)
           new == found \o c
<1>1. PICK F : found \in Seq(F)
  BY DEF Learnt
<1>2. /\ c \in Seq(S)
      /\ \A m \in DOMAIN c : \E j \in DOMAIN tools : Collected(in, tools[j]) /\ c[m] = tools[j]
      /\ \A j \in DOMAIN tools : Collected(in, tools[j]) => \E m \in DOMAIN c : c[m] = tools[j]
      /\ \A k, j \in DOMAIN tools :
            k # j /\ Collected(in, tools[k]) /\ Collected(in, tools[j]) => Len(c) >= 2
  BY CollectFacts
<1> HIDE DEF c
<1>3. /\ Len(found) \in Nat /\ DOMAIN found = 1..Len(found)
      /\ Len(c) \in Nat /\ DOMAIN c = 1..Len(c)
      /\ \E G : new \in Seq(G)
      /\ Len(new) = Len(found) + Len(c) /\ DOMAIN new = 1..(Len(found) + Len(c))
      /\ \A m \in DOMAIN found : new[m] = found[m]
      /\ \A m \in DOMAIN c : new[Len(found) + m] = c[m]
  <2>1. PICK G : found \in Seq(G) /\ c \in Seq(G)
    <3>1. found \in Seq(F \cup S) /\ c \in Seq(F \cup S)
      BY <1>1, <1>2, Wider
    <3> QED
      BY <3>1
  <2>2. new \in Seq(G)
    BY <2>1
  <2> QED
    BY <2>1, <2>2
<1> HIDE DEF new
<1>4. \A m \in DOMAIN new : (m \in DOMAIN found /\ new[m] = found[m])
                           \/ \E l \in DOMAIN c : new[m] = c[l]
  <2> TAKE m \in DOMAIN new
  <2>1. CASE m <= Len(found)
    BY <1>3, <2>1
  <2>2. CASE ~(m <= Len(found))
    <3>1. PICK a \in Nat, b \in Nat : a = Len(found) /\ b = Len(c)
      BY <1>3
    <3>2. m \in 1..(a + b) /\ DOMAIN c = 1..b
      BY <1>3, <3>1
    <3>3. m - a \in 1..b /\ a + (m - a) = m
      BY <2>2, <3>1, <3>2
    <3>4. new[a + (m - a)] = c[m - a]
      BY <1>3, <3>1, <3>2, <3>3
    <3> QED
      BY <3>2, <3>3, <3>4
  <2> QED
    BY <2>1, <2>2
<1>5. /\ \A m \in DOMAIN found : \E l \in DOMAIN new : new[l] = found[m]
      /\ \A m \in DOMAIN c : \E l \in DOMAIN new : new[l] = c[m]
  <2>1. \A m \in DOMAIN found : m \in DOMAIN new
    BY <1>3
  <2>2. \A m \in DOMAIN c : Len(found) + m \in DOMAIN new
    BY <1>3
  <2> QED
    BY <1>3, <2>1, <2>2
<1>6. \A m \in DOMAIN new : Collected(in, new[m])
  BY <1>2, <1>4 DEF Learnt
<1>7. ASSUME ~unsure
      PROVE  /\ \A m \in DOMAIN new : \E p \in Before(i) : new[m] = ToolAt(p)
             /\ \A p \in Before(i) :
                   /\ ~TakenAtOnce(in, ToolAt(p))
                   /\ Collected(in, ToolAt(p)) => \E m \in DOMAIN new : new[m] = ToolAt(p)
             /\ \A p, s \in Before(i) :
                   p # s /\ Collected(in, ToolAt(p)) /\ Collected(in, ToolAt(s)) => Len(new) >= 2
  <2> DEFINE inv == IsInvokable(Nodes[host.backends[i]].role)
             Of(j) == <<i, j>>
  <2>1. /\ \A m \in DOMAIN found : \E p \in Before(i - 1) : found[m] = ToolAt(p)
        /\ \A p \in Before(i - 1) :
              /\ ~TakenAtOnce(in, ToolAt(p))
              /\ Collected(in, ToolAt(p)) => \E m \in DOMAIN found : found[m] = ToolAt(p)
        /\ \A p, s \in Before(i - 1) :
              p # s /\ Collected(in, ToolAt(p)) /\ Collected(in, ToolAt(s)) => Len(found) >= 2
    BY <1>7 DEF Learnt
  <2>2. \A p : p \in Before(i) <=>
              p \in Before(i - 1) \/ (inv /\ \E j \in DOMAIN ToolsOf(host.backends[i]) : p = Of(j))
    BY BeforeNext
  <2>3. inv => tools = ToolsOf(host.backends[i])
    BY <1>7
  <2>4. ~inv => DOMAIN tools = {}
    <3> HIDE DEF inv
    <3>1. ~inv => tools = <<>>
      BY <1>7 DEF inv
    <3> QED
      BY <3>1
  <2>5. \A j \in DOMAIN ToolsOf(host.backends[i]) : ToolAt(Of(j)) = ToolsOf(host.backends[i])[j]
    BY ToolsThere
  <2>6. \A p : p \in Before(i) <=> p \in Before(i - 1) \/ \E j \in DOMAIN tools : p = Of(j)
    BY <2>2, <2>3, <2>4
  <2>7. \A j \in DOMAIN tools : ToolAt(Of(j)) = tools[j]
    BY <2>3, <2>4, <2>5
  <2> HIDE DEF inv, Of
  <2>8. \A m \in DOMAIN new : \E p \in Before(i) : new[m] = ToolAt(p)
    <3> TAKE m \in DOMAIN new
    <3>1. CASE m \in DOMAIN found /\ new[m] = found[m]
      BY <2>1, <2>6, <3>1
    <3>2. CASE \E l \in DOMAIN c : new[m] = c[l]
      <4>1. PICK l \in DOMAIN c : new[m] = c[l]
        BY <3>2
      <4>2. PICK j \in DOMAIN tools : c[l] = tools[j]
        BY <1>2
      <4> QED
        BY <2>6, <2>7, <4>1, <4>2
    <3> QED
      BY <1>4, <3>1, <3>2
  <2>9. ASSUME NEW p \in Before(i)
        PROVE  /\ ~TakenAtOnce(in, ToolAt(p))
               /\ Collected(in, ToolAt(p)) => \E m \in DOMAIN new : new[m] = ToolAt(p)
    <3>1. CASE p \in Before(i - 1)
      BY <1>5, <2>1, <3>1
    <3>2. CASE \E j \in DOMAIN tools : p = Of(j)
      <4>1. PICK j \in DOMAIN tools : p = Of(j)
        BY <3>2
      <4>2. ToolAt(p) = tools[j]
        BY <2>7, <4>1
      <4> QED
        BY <1>2, <1>5, <4>2
    <3> QED
      BY <2>6, <3>1, <3>2
  <2>10. ASSUME NEW p \in Before(i), NEW s \in Before(i), p # s,
                Collected(in, ToolAt(p)), Collected(in, ToolAt(s))
         PROVE  Len(new) >= 2
    <3>1. \A x \in Before(i) : Collected(in, ToolAt(x)) /\ x \in Before(i - 1) => Len(found) >= 1
      BY <1>3, <2>1
    <3>2. \A x \in Before(i) : Collected(in, ToolAt(x)) /\ x \notin Before(i - 1) => Len(c) >= 1
      <4> SUFFICES ASSUME NEW x \in Before(i), Collected(in, ToolAt(x)), x \notin Before(i - 1)
                   PROVE  Len(c) >= 1
        OBVIOUS
      <4>1. PICK j \in DOMAIN tools : x = Of(j)
        BY <2>6
      <4>2. \E m \in DOMAIN c : c[m] = tools[j]
        BY <1>2, <2>7, <4>1
      <4> QED
        BY <1>3, <4>2
    <3>3. CASE p \in Before(i - 1) /\ s \in Before(i - 1)
      BY <1>3, <2>1, <2>10, <3>3
    <3>4. CASE p \notin Before(i - 1) /\ s \notin Before(i - 1)
      <4>1. PICK j \in DOMAIN tools : p = Of(j)
        BY <2>6, <3>4
      <4>2. PICK k \in DOMAIN tools : s = Of(k)
        BY <2>6, <3>4
      <4>3. j # k /\ Collected(in, tools[j]) /\ Collected(in, tools[k])
        BY <2>7, <2>10, <4>1, <4>2
      <4>4. Len(c) >= 2
        BY <1>2, <4>3
      <4> QED
        BY <1>3, <4>4
    <3>5. CASE (p \in Before(i - 1)) # (s \in Before(i - 1))
      <4>1. Len(found) >= 1 /\ Len(c) >= 1
        BY <2>10, <3>1, <3>2, <3>5
      <4> QED
        BY <1>3, <4>1
    <3> QED
      BY <3>3, <3>4, <3>5
  <2> QED
    BY <2>8, <2>9, <2>10
<1>8. \E G : new \in Seq(G)
  BY <1>3
<1>9. Learnt(in, new, i, unsure)
  BY <1>6, <1>7, <1>8 DEF Learnt
<1> QED
  BY <1>9 DEF new, c

\* What is not sure teaches less.
LEMMA LearntLess ==
    ASSUME NEW in, NEW found, NEW k, NEW a, NEW b, Learnt(in, found, k, a), a => b
    PROVE  Learnt(in, found, k, b)
BY DEF Learnt

-----------------------------------------------------------------------------
(* What the checks made on arrival leave.                                   *)

LEMMA Passed ==
    ASSUME NEW n \in Nat, NEW checks, DOMAIN checks = 1..n,
           \A i \in 1..n : checks[i][2] # "none", FirstRefusal(checks) = "none"
    PROVE  \A i \in 1..n : ~checks[i][1]
<1> DEFINE failed == {i \in DOMAIN checks : checks[i][1]}
<1>1. failed \subseteq Nat /\ failed \subseteq 1..n
  OBVIOUS
<1>2. failed # {} => Min(failed) \in failed
  <2> HIDE DEF failed
  <2> QED
    BY <1>1, MinIn
<1>3. FirstRefusal(checks) = IF failed = {} THEN "none" ELSE checks[Min(failed)][2]
  BY DEF FirstRefusal
<1>4. failed = {}
  <2> HIDE DEF failed
  <2> QED
    BY <1>1, <1>2, <1>3
<1> QED
  BY <1>4

\* The methods of a request that is let in.
Kind(in) ==
    \/ in.path = "grpc" /\ in.method \in GrpcMethods
    \/ in.path = "mcp" /\ in.method \in McpMethods
    \/ in.path = "a2a" /\ in.method = "tasks/send"
    \/ in.path = "card" /\ in.method = ""

LEMMA Kinds ==
    ASSUME NEW in \in Inputs, Refuses(in) = "none"
    PROVE  Kind(in)
<1>1. (in.path = "grpc" => in.method \in GrpcMethods) /\ (in.path = "card" => in.method = "")
  BY BridgeAssumption
<1>2. CASE in.path = "grpc"
  BY <1>1, <1>2 DEF Kind
<1>3. CASE in.path # "grpc"
  <2>1. HostRefuses(in) = "none"
    BY <1>3 DEF Refuses
  <2> DEFINE a1 == in.path \notin {"mcp", "a2a", "card"}
             a2 == in.verb # (IF in.path = "card" THEN "GET" ELSE "POST")
             a3 == AuthGate(in)
             a4 == in.path # "card" /\ in.big
             a5 == in.path # "card" /\ in.body = "junk"
             hs == << <<a1, "404">>, <<a2, "405">>, <<a3, "401">>, <<a4, "413">>,
                      <<a5, "invalid_params">> >>
  <2>2. FirstRefusal(hs) = "none"
    BY <2>1 DEF HostRefuses
  <2>3. DOMAIN hs = 1..5 /\ (\A i \in 1..5 : hs[i][2] # "none") /\ hs[1][1] = a1
    <3> HIDE DEF a1, a2, a3, a4, a5
    <3> QED
      OBVIOUS
  <2>4. ~a1
    <3> HIDE DEF hs, a1
    <3>1. 5 \in Nat /\ 1 \in 1..5
      OBVIOUS
    <3>2. \A i \in 1..5 : ~hs[i][1]
      BY <2>2, <2>3, <3>1, Passed
    <3> QED
      BY <2>3, <3>1, <3>2
  <2>5. CASE in.path = "mcp"
    <3>1. McpRefuses(in) = "none"
      BY <2>1, <2>5 DEF Refuses
    <3> DEFINE b1 == ~ServesInbound("mcp")
               b2 == in.method \notin McpMethods
               b3 == ~in.complete
               ms == << <<b1, "method_not_found">>, <<b2, "method_not_found">>,
                        <<b3, "invalid_params">> >>
    <3>2. FirstRefusal(ms) = "none"
      BY <3>1 DEF McpRefuses
    <3>3. DOMAIN ms = 1..3 /\ (\A i \in 1..3 : ms[i][2] # "none") /\ ms[2][1] = b2
      <4> HIDE DEF b1, b2, b3
      <4> QED
        OBVIOUS
    <3>4. ~b2
      <4> HIDE DEF ms, b2
      <4>1. 3 \in Nat /\ 2 \in 1..3
        OBVIOUS
      <4>2. \A i \in 1..3 : ~ms[i][1]
        BY <3>2, <3>3, <4>1, Passed
      <4> QED
        BY <3>3, <4>1, <4>2
    <3> QED
      BY <2>5, <3>4 DEF Kind
  <2>6. CASE in.path = "a2a"
    <3>1. A2aRefuses(in) = "none"
      BY <2>1, <2>6 DEF Refuses
    <3> DEFINE b1 == ~ServesInbound("a2a")
               b2 == in.method # "tasks/send"
               b3 == ~in.complete
               ms == << <<b1, "method_not_found">>, <<b2, "method_not_found">>,
                        <<b3, "invalid_params">> >>
    <3>2. FirstRefusal(ms) = "none"
      BY <3>1 DEF A2aRefuses
    <3>3. DOMAIN ms = 1..3 /\ (\A i \in 1..3 : ms[i][2] # "none") /\ ms[2][1] = b2
      <4> HIDE DEF b1, b2, b3
      <4> QED
        OBVIOUS
    <3>4. ~b2
      <4> HIDE DEF ms, b2
      <4>1. 3 \in Nat /\ 2 \in 1..3
        OBVIOUS
      <4>2. \A i \in 1..3 : ~ms[i][1]
        BY <3>2, <3>3, <4>1, Passed
      <4> QED
        BY <3>3, <4>1, <4>2
    <3> QED
      BY <2>6, <3>4 DEF Kind
  <2> QED
    BY <1>1, <2>4, <2>5, <2>6 DEF Kind
<1> QED
  BY <1>2, <1>3

\* What requests of each kind may, and may not, ask for.
LEMMA KindsDiffer ==
    ASSUME NEW in, Kind(in)
    PROVE  /\ in.path = "grpc" => ~Resolves(in) /\ (IsCall(in) <=> in.method = "invoke")
           /\ in.path # "grpc" => in.method # "invoke"
           /\ in.method \notin {"initialize", "ping"} => Scannable(in)
           /\ IsCall(in) <=> Resolves(in) \/ in.method = "invoke"
           /\ Resolves(in) => NeedsTools(in)
           /\ in.path = "grpc" => ~NeedsTools(in)
           /\ in.path = "grpc" \/ NeedsTools(in) =>
                 in.method \notin {"resources/list", "resources/read"}
BY DEF Kind, Resolves, IsCall, Scannable, NeedsTools, ListsTools, GrpcMethods, McpMethods

-----------------------------------------------------------------------------
(* A request goes on.                                                       *)

\* A request that was let in.
Base(q) ==
    /\ Whole(q) /\ q.i \in 1..Len(host.backends)
    /\ q.input \in Inputs /\ Refuses(q.input) = "none"

LEMMA BaseOf ==
    ASSUME NEW q, NEW d, ReqInv(q, d), q.pc \notin {"idle", "done"}
    PROVE  Base(q) /\ Kind(q.input)
<1>1. Base(q)
  BY DEF ReqInv, Base
<1> QED
  BY <1>1, Kinds DEF Base

LEMMA DoneKept ==
    ASSUME NEW q, NEW d, Whole(q), q.i \in 1..Len(host.backends), q.input \in Inputs, NEW a
    PROVE  /\ ReqInv(Done(q, a), d)
           /\ Done(q, a).pc = "done" /\ Done(q, a).input = q.input /\ Done(q, a).tool = q.tool
<1> DEFINE e == Done(q, a)
<1>1. /\ Whole(e) /\ e.pc = "done" /\ e.input = q.input /\ e.tool = q.tool /\ e.i = q.i
  BY DEF Whole, Fields, Done
<1> HIDE DEF e
<1>2. ReqInv(e, d)
  BY <1>1 DEF ReqInv
<1> QED
  BY <1>1, <1>2 DEF e

\* A call may be made of a tool the request names.
LEMMA ChosenKept ==
    ASSUME NEW q, NEW d, Base(q), NEW t, Names(q.input, t, d)
    PROVE  ReqInv(Chosen(q, t), d)
<1> DEFINE e == Chosen(q, t)
<1>1. /\ Whole(e) /\ e.pc = "call" /\ e.input = q.input /\ e.tool = t /\ e.i = q.i
  BY DEF Whole, Fields, Chosen, Base
<1> HIDE DEF e
<1>2. ReqInv(e, d)
  BY <1>1 DEF ReqInv, Base
<1> QED
  BY <1>2 DEF e

\* A scan that has passed every node knows all the candidates there are.
LEMMA OnlyCandidate ==
    ASSUME host \in Hosts, NEW in, NEW found, NEW d,
           Learnt(in, found, Len(host.backends), d), Len(found) = 1,
           \/ in.method = "tools/call"
           \/ in.method = "tasks/send" /\ in.name = <<>>
    PROVE  Names(in, found[1], d)
<1> DEFINE t == found[1]
<1>1. Before(Len(host.backends)) = Offers
  BY BeforeFirst
<1>2. 1 \in DOMAIN found
  BY Members DEF Learnt
<1>3. Collected(in, t)
  BY <1>2 DEF Learnt
<1>4. ~d => /\ \E p \in Offers : t = ToolAt(p)
            /\ \A p \in Offers : ~TakenAtOnce(in, ToolAt(p))
            /\ \A p, s \in Offers :
                  p # s /\ Collected(in, ToolAt(p)) /\ Collected(in, ToolAt(s)) => Len(found) >= 2
  BY <1>1, <1>2 DEF Learnt
<1> HIDE DEF t
<1>5. ~d => \E p \in Offers : /\ t = ToolAt(p)
                              /\ \A s \in Offers : s # p => ~Collected(in, ToolAt(s))
  BY <1>3, <1>4
<1>6. CASE in.method = "tools/call"
  <2>1. BareMatch(t, in.name)
    BY <1>3, <1>6 DEF Collected
  <2>2. ~d => Unrivalled(in, t)
    <3> SUFFICES ASSUME ~d, NEW s \in Offers, ToolAt(s) # t
                 PROVE  ~BareMatch(ToolAt(s), in.name) /\ in.name # Encode(ToolAt(s))
      BY DEF Unrivalled
    <3>1. ~Collected(in, ToolAt(s))
      BY <1>5
    <3>2. ~TakenAtOnce(in, ToolAt(s))
      BY <1>4
    <3> QED
      BY <1>6, <3>1, <3>2 DEF Collected, TakenAtOnce
  <2>3. Names(in, t, d)
    BY <1>6, <2>1, <2>2 DEF Names
  <2> QED
    BY <2>3 DEF t
<1>7. CASE in.method = "tasks/send" /\ in.name = <<>>
  <2>1. \A s : Collected(in, s)
    BY <1>7 DEF Collected
  <2>2. ~d => OnlyOne
    BY <1>5, <2>1 DEF OnlyOne
  <2>3. Names(in, t, d)
    BY <1>7, <2>2 DEF Names
  <2> QED
    BY <2>3 DEF t
<1> QED
  BY <1>6, <1>7

LEMMA EndOfScanKept ==
    ASSUME host \in Hosts, NEW q, NEW d, Base(q),
           Resolves(q.input) => Learnt(q.input, q.found, Len(host.backends), d)
    PROVE  ReqInv(EndOfScan(q), d)
<1> DEFINE in == q.input
<1>1. \A a : ReqInv(Done(q, a), d)
  BY DoneKept DEF Base
<1>2. ASSUME in.method = "tools/call" \/ (in.method = "tasks/send" /\ in.name = <<>>),
             Len(q.found) = 1
      PROVE  ReqInv(Chosen(q, q.found[1]), d)
  <2>1. Learnt(in, q.found, Len(host.backends), d)
    BY <1>2 DEF Resolves
  <2>2. Names(in, q.found[1], d)
    BY <1>2, <2>1, OnlyCandidate
  <2> QED
    BY <2>2, ChosenKept
<1>3. \/ \E a : EndOfScan(q) = Done(q, a)
      \/ /\ EndOfScan(q) = Chosen(q, q.found[1])
         /\ in.method = "tools/call" \/ (in.method = "tasks/send" /\ in.name = <<>>)
         /\ Len(q.found) = 1
  BY DEF EndOfScan
<1> QED
  BY <1>1, <1>2, <1>3

LEMMA NextBackendKept ==
    ASSUME host \in Hosts, NEW q, NEW d, Base(q), Scannable(q.input),
           Resolves(q.input) => Learnt(q.input, q.found, q.i, d)
    PROVE  ReqInv(NextBackend(q), d)
<1>1. Len(host.backends) \in Nat
  <2>1. host.backends \in Seq(DOMAIN Nodes)
    BY BridgeAssumption
  <2> QED
    BY <2>1
<1>2. q.i \in 1..Len(host.backends)
  BY DEF Base
<1>3. CASE q.i < Len(host.backends)
  <2> DEFINE e == [q EXCEPT !.i = @ + 1, !.pc = "scan"]
  <2>1. /\ Whole(e) /\ e.pc = "scan" /\ e.input = q.input /\ e.i = q.i + 1
        /\ e.found = q.found
    BY DEF Whole, Fields, Base
  <2>2. NextBackend(q) = e
    BY <1>3 DEF NextBackend
  <2> HIDE DEF e
  <2>3. e.i \in 1..Len(host.backends) /\ e.i - 1 = q.i
    BY <1>1, <1>2, <1>3, <2>1
  <2>4. ReqInv(e, d)
    BY <2>1, <2>3 DEF ReqInv, Base
  <2> QED
    BY <2>2, <2>4
<1>4. CASE ~(q.i < Len(host.backends))
  <2>1. q.i = Len(host.backends)
    BY <1>1, <1>2, <1>4
  <2>2. NextBackend(q) = EndOfScan(q)
    BY <1>4 DEF NextBackend
  <2>3. ReqInv(EndOfScan(q), d)
    BY <2>1, EndOfScanKept
  <2> QED
    BY <2>2, <2>3
<1> QED
  BY <1>3, <1>4

\* An RPC has its node.
LEMMA WithNodeKept ==
    ASSUME host \in Hosts, NEW q, NEW d, Base(q), q.input.path = "grpc",
           q.input.name = host.backends[q.i] \/ SoleBackend(q.input)
    PROVE  ReqInv(WithNode(q), d)
<1> DEFINE in == q.input
           b == host.backends[q.i]
           e == WithNode(q)
<1>1. host.backends \in Seq(DOMAIN Nodes)
  BY BridgeAssumption
<1>2. Kind(in) /\ ~Resolves(in) /\ (IsCall(in) <=> in.method = "invoke") /\ in.method \in GrpcMethods
  <2>1. Kind(in)
    BY Kinds DEF Base
  <2> QED
    BY <2>1, KindsDiffer DEF Kind
<1>3. in.name = b \/ host.backends = <<b>>
  <2>1. SoleBackend(in) => Len(host.backends) = 1 /\ q.i = 1
    BY DEF SoleBackend, Base
  <2>2. Len(host.backends) = 1 => host.backends = <<host.backends[1]>>
    BY <1>1
  <2> QED
    BY <2>1, <2>2
<1>4. /\ Whole(e) /\ e.input = in /\ e.i = q.i /\ e.found = q.found
      /\ e.tool = [node |-> b, action |-> in.action]
      /\ e.pc = CASE in.method = "invoke" -> "call" [] in.method = "actions" -> "offer"
                  [] OTHER -> "check"
  BY DEF Whole, Fields, Base, WithNode
<1>5. in.method = "invoke" => Names(in, e.tool, d)
  <2>1. e.tool.node = b /\ e.tool.action = in.action
    BY <1>4
  <2> HIDE DEF e, b
  <2> QED
    BY <1>3, <2>1 DEF Names
<1> HIDE DEF e
<1>6. ReqInv(e, d)
  BY <1>2, <1>4, <1>5 DEF ReqInv, Base, Scannable
<1> QED
  BY <1>6 DEF e

-----------------------------------------------------------------------------
(* A request learns of a node.                                              *)

\* The tools of the node, or fewer if something was not seen as it is.
Told(q, tools, unsure) ==
    /\ \E S : tools \in Seq(S)
    /\ ~unsure => tools = IF IsInvokable(Nodes[host.backends[q.i]].role)
                          THEN ToolsOf(host.backends[q.i]) ELSE <<>>

\* A scan at a node.
At(q, unsure) ==
    /\ Base(q) /\ Scannable(q.input)
    /\ Resolves(q.input) => Learnt(q.input, q.found, q.i - 1, unsure)

LEMMA WithToolsKept ==
    ASSUME host \in Hosts, NEW q, NEW d, At(q, d), NEW tools, Told(q, tools, d)
    PROVE  ReqInv(WithTools(q, tools), d)
<1> DEFINE in == q.input
           matches == {k \in DOMAIN tools : TakenAtOnce(in, tools[k])}
<1>1. PICK S : tools \in Seq(S)
  BY DEF Told
<1>2. CASE in.path = "grpc"
  <2>1. WithTools(q, tools) = Done(q, Answer("ok", "none", tools))
    BY <1>2 DEF WithTools
  <2> QED
    BY <2>1, DoneKept DEF At, Base
<1>3. CASE in.path # "grpc" /\ matches # {}
  <2>1. WithTools(q, tools) = Chosen(q, tools[Min(matches)])
    BY <1>3 DEF WithTools
  <2>2. Min(matches) \in matches
    <3>1. matches \subseteq Nat
      BY <1>1
    <3> HIDE DEF matches
    <3> QED
      BY <1>3, <3>1, MinIn
  <2>3. PICK t : t = tools[Min(matches)]
    OBVIOUS
  <2>4. TakenAtOnce(in, t)
    BY <2>2, <2>3
  <2>5. Names(in, t, d)
    BY <2>4 DEF TakenAtOnce, Names
  <2>6. ReqInv(Chosen(q, t), d)
    BY <2>5, ChosenKept DEF At
  <2> QED
    BY <2>1, <2>3, <2>6
<1>4. CASE in.path # "grpc" /\ matches = {}
  <2> DEFINE new == q.found \o Collect(in, tools)
             e == [q EXCEPT !.found = new]
  <2>1. WithTools(q, tools) = NextBackend(e)
    <3>1. [q EXCEPT !.found = @ \o Collect(in, tools)] = e
      BY DEF At, Base, Whole, Fields
    <3> HIDE DEF e
    <3> QED
      BY <1>4, <3>1 DEF WithTools
  <2>2. Resolves(in) => Learnt(in, new, q.i, d)
    <3> SUFFICES ASSUME Resolves(in) PROVE Learnt(in, new, q.i, d)
      OBVIOUS
    <3>1. Learnt(in, q.found, q.i - 1, d) /\ q.i \in 1..Len(host.backends)
      BY DEF At, Base
    <3>2. \A j \in DOMAIN tools : ~TakenAtOnce(in, tools[j])
      BY <1>4
    <3>3. ~d => tools = IF IsInvokable(Nodes[host.backends[q.i]].role)
                        THEN ToolsOf(host.backends[q.i]) ELSE <<>>
      BY DEF Told
    <3> QED
      BY <1>1, <3>1, <3>2, <3>3, LearntMore
  <2> HIDE DEF new
  <2>3. Whole(e) /\ e.input = in /\ e.i = q.i /\ e.found = new
    BY DEF At, Base, Whole, Fields
  <2> HIDE DEF e
  <2>4. Base(e) /\ Scannable(e.input)
    BY <2>3 DEF At, Base
  <2>5. ReqInv(NextBackend(e), d)
    BY <2>2, <2>3, <2>4, NextBackendKept
  <2> QED
    BY <2>1, <2>5
<1> QED
  BY <1>2, <1>3, <1>4

\* A node that is not invokable adds nothing.
LEMMA LearntSame ==
    ASSUME host \in Hosts, NEW in, NEW found, NEW i \in 1..Len(host.backends),
           NEW d, Learnt(in, found, i - 1, d),
           ~d => ~IsInvokable(Nodes[host.backends[i]].role)
    PROVE  Learnt(in, found, i, d)
<1> DEFINE tools == <<>>
<1>1. tools \in Seq({}) /\ DOMAIN tools = {}
  OBVIOUS
<1>2. ~d => tools = IF IsInvokable(Nodes[host.backends[i]].role)
                    THEN ToolsOf(host.backends[i]) ELSE <<>>
  OBVIOUS
<1> HIDE DEF tools
<1>3. Learnt(in, found \o Collect(in, tools), i, d)
  BY <1>1, <1>2, LearntMore
<1>4. Collect(in, tools) \in Seq({})
  BY <1>1, CollectFacts
<1>5. Collect(in, tools) = <<>>
  BY <1>4
<1>6. PICK F : found \in Seq(F)
  BY DEF Learnt
<1>7. found \o <<>> = found
  BY <1>6
<1> QED
  BY <1>3, <1>5, <1>7

\* The role was read as it is, or something was not.
Saw(q, role, unsure) == ~unsure => role = Nodes[host.backends[q.i]].role

LEMMA NextAfterRole ==
    ASSUME host \in Hosts, NEW q, NEW d, At(q, d), NEW role, Saw(q, role, d),
           ~IsInvokable(role) \/ ~Resolves(q.input)
    PROVE  ReqInv(NextBackend(q), d)
<1>1. Resolves(q.input) => Learnt(q.input, q.found, q.i, d)
  <2> SUFFICES ASSUME Resolves(q.input) PROVE Learnt(q.input, q.found, q.i, d)
    OBVIOUS
  <2>1. q.i \in 1..Len(host.backends) /\ Learnt(q.input, q.found, q.i - 1, d)
    BY DEF At, Base
  <2>2. ~d => ~IsInvokable(Nodes[host.backends[q.i]].role)
    BY DEF Saw
  <2> QED
    BY <2>1, <2>2, LearntSame
<1> QED
  BY <1>1, NextBackendKept DEF At

LEMMA ScannedKept ==
    ASSUME host \in Hosts, NEW q, NEW d, At(q, d), NEW role, Saw(q, role, d)
    PROVE  ReqInv(Scanned(q, role), d)
<1> DEFINE in == q.input
<1>1. /\ in.path = "grpc" => ~Resolves(in)
      /\ in.path # "grpc" => in.method # "invoke"
      /\ IsCall(in) <=> Resolves(in) \/ in.method = "invoke"
      /\ Resolves(in) => NeedsTools(in)
      /\ in.path = "grpc" => ~NeedsTools(in)
      /\ in.path = "grpc" \/ NeedsTools(in) =>
            in.method \notin {"resources/list", "resources/read"}
      /\ Scannable(in)
  <2>1. Kind(in)
    BY Kinds DEF At, Base
  <2> QED
    BY <2>1, KindsDiffer DEF At
<1>2. CASE in.path = "grpc"
  <2>1. Scanned(q, role) = ResolveBackend(q)
    BY <1>1, <1>2 DEF Scanned
  <2>2. CASE in.name = host.backends[q.i]
    <3>1. ReqInv(WithNode(q), d)
      BY <1>2, <2>2, WithNodeKept DEF At
    <3> QED
      BY <2>1, <2>2, <3>1 DEF ResolveBackend
  <2>3. CASE in.name # host.backends[q.i]
    <3>1. ReqInv(NextBackend(q), d)
      BY <1>1, <1>2, NextAfterRole
    <3> QED
      BY <2>1, <2>3, <3>1 DEF ResolveBackend
  <2> QED
    BY <2>2, <2>3
<1>3. CASE in.path # "grpc" /\ NeedsTools(in)
  <2>1. Scanned(q, role) = IF IsInvokable(role) THEN [q EXCEPT !.pc = "offer"] ELSE NextBackend(q)
    BY <1>1, <1>3 DEF Scanned
  <2>2. CASE IsInvokable(role)
    <3> DEFINE e == [q EXCEPT !.pc = "offer"]
    <3>1. Whole(e) /\ e.pc = "offer" /\ e.input = in /\ e.i = q.i /\ e.found = q.found
      BY DEF Whole, Fields, At, Base
    <3>2. Scanned(q, role) = e
      BY <2>1, <2>2
    <3> HIDE DEF e
    <3>3. ReqInv(e, d)
      BY <1>3, <3>1 DEF ReqInv, At, Base
    <3> QED
      BY <3>2, <3>3
  <2>3. CASE ~IsInvokable(role)
    <3>1. ReqInv(NextBackend(q), d)
      BY <2>3, NextAfterRole
    <3> QED
      BY <2>1, <2>3, <3>1
  <2> QED
    BY <2>2, <2>3
<1>4. CASE in.path # "grpc" /\ ~NeedsTools(in) /\ in.method = "resources/list"
  <2> DEFINE e == [q EXCEPT !.found = Append(@, Resource(q))]
  <2>1. Scanned(q, role) = NextBackend(IF IsQueryable(role) THEN e ELSE q)
    BY <1>4 DEF Scanned, ListResources
  <2>2. ~Resolves(in)
    BY <1>1, <1>4
  <2>3. At(e, d) /\ Saw(e, role, d) /\ e.input = in
    <3>1. Whole(e) /\ e.input = in /\ e.i = q.i
      BY DEF Whole, Fields, At, Base
    <3> HIDE DEF e
    <3> QED
      BY <2>2, <3>1 DEF At, Base, Saw
  <2> HIDE DEF e
  <2>4. ReqInv(NextBackend(q), d)
    BY <2>2, NextAfterRole
  <2>5. ReqInv(NextBackend(e), d)
    BY <2>2, <2>3, NextAfterRole
  <2> QED
    BY <2>1, <2>4, <2>5
<1>5. CASE in.path # "grpc" /\ ~NeedsTools(in) /\ in.method = "resources/read"
  <2> DEFINE e == [q EXCEPT !.pc = "check", !.tool = Resource(q)]
  <2>1. Scanned(q, role) = e \/ Scanned(q, role) = NextBackend(q)
    <3>1. in.method # "resources/list"
      BY <1>5
    <3> QED
      BY <1>5, <3>1 DEF Scanned, FindQueryable
  <2>2. ~Resolves(in) /\ ~IsCall(in)
    BY <1>1, <1>5
  <2>3. ReqInv(NextBackend(q), d)
    BY <2>2, NextAfterRole
  <2>4. Whole(e) /\ e.input = in /\ e.i = q.i /\ e.pc = "check"
    BY DEF Whole, Fields, At, Base
  <2> HIDE DEF e
  <2>5. ReqInv(e, d)
    BY <2>2, <2>4 DEF ReqInv, At, Base
  <2> QED
    BY <2>1, <2>3, <2>5
<1> QED
  BY <1>1, <1>2, <1>3, <1>4, <1>5 DEF Scannable

LEMMA CheckedKept ==
    ASSUME NEW q, NEW d, Base(q), ~IsCall(q.input), NEW role
    PROVE  ReqInv(Checked(q, role), d)
<1> DEFINE e == [q EXCEPT !.pc = "call"]
<1>1. Checked(q, role) = e \/ \E a : Checked(q, role) = Done(q, a)
  BY DEF Checked
<1>2. Whole(e) /\ e.input = q.input /\ e.i = q.i /\ e.pc = "call"
  BY DEF Whole, Fields, Base
<1> HIDE DEF e
<1>3. ReqInv(e, d)
  BY <1>2 DEF ReqInv, Base
<1>4. \A a : ReqInv(Done(q, a), d)
  BY DoneKept DEF Base
<1> QED
  BY <1>1, <1>3, <1>4

LEMMA OfferedKept ==
    ASSUME host \in Hosts, NEW q, NEW d, At(q, d), q.input.path = "grpc" \/ NeedsTools(q.input),
           NEW role, Saw(q, role, d)
    PROVE  ReqInv(Offered(q, role), d)
<1> DEFINE node == host.backends[q.i]
           e == [q EXCEPT !.pc = "listing"]
<1>0. q.i \in 1..Len(host.backends)
  BY DEF At, Base
<1>1. CASE ~IsInvokable(role)
  <2>1. Told(q, <<>>, d)
    <3>1. <<>> \in Seq({})
      OBVIOUS
    <3>2. ~d => ~IsInvokable(Nodes[host.backends[q.i]].role)
      BY <1>1 DEF Saw
    <3> QED
      BY <3>1, <3>2 DEF Told
  <2>2. ReqInv(WithTools(q, <<>>), d)
    BY <2>1, WithToolsKept
  <2> QED
    BY <1>1, <2>2 DEF Offered
<1>2. CASE IsInvokable(role) /\ Nodes[node].http
  <2>1. Offered(q, role) = e
    BY <1>2 DEF Offered
  <2>2. Whole(e) /\ e.input = q.input /\ e.i = q.i /\ e.pc = "listing" /\ e.found = q.found
    BY DEF Whole, Fields, At, Base
  <2>3. ~d => IsInvokable(Nodes[host.backends[q.i]].role)
    BY <1>2 DEF Saw
  <2> HIDE DEF e
  <2>4. ReqInv(e, d)
    BY <2>2, <2>3 DEF ReqInv, At, Base
  <2> QED
    BY <2>1, <2>4
<1>3. CASE IsInvokable(role) /\ ~Nodes[node].http
  <2>1. Told(q, ToolsOf(node), d)
    <3>1. \E S : ToolsOf(node) \in Seq(S)
      BY <1>0, ToolsThere
    <3>2. ~d => IsInvokable(Nodes[host.backends[q.i]].role)
      BY <1>3 DEF Saw
    <3> QED
      BY <3>1, <3>2 DEF Told
  <2>2. ReqInv(WithTools(q, ToolsOf(node)), d)
    BY <2>1, WithToolsKept
  <2> QED
    BY <1>3, <2>2 DEF Offered
<1> QED
  BY <1>1, <1>2, <1>3

\* Whatever a request asks a node's role for, it goes on soundly.
LEMMA WithRoleKept ==
    ASSUME host \in Hosts, NEW q, NEW d, ReqInv(q, d), q.pc \in {"scan", "check", "offer"},
           NEW more, d => more, NEW role, Saw(q, role, more)
    PROVE  ReqInv(WithRole(q, role), more)
<1> DEFINE e == [q EXCEPT !.fetching = FALSE]
<1>1. /\ Whole(e) /\ e.input = q.input /\ e.i = q.i /\ e.pc = q.pc /\ e.found = q.found
  BY DEF Whole, Fields, ReqInv
<1>2. WithRole(q, role) = CASE q.pc = "scan"  -> Scanned(e, role)
                            [] q.pc = "check" -> Checked(e, role)
                            [] q.pc = "offer" -> Offered(e, role)
  BY DEF WithRole
<1> HIDE DEF e
<1>3. Base(e)
  BY <1>1, BaseOf DEF Base
<1>4. Saw(e, role, more)
  BY <1>1 DEF Saw
<1>5. q.pc \in {"scan", "offer"} => At(e, more)
  <2> SUFFICES ASSUME q.pc \in {"scan", "offer"} PROVE At(e, more)
    OBVIOUS
  <2>1. Scannable(q.input) /\ (Resolves(q.input) => Learnt(q.input, q.found, q.i - 1, d))
    BY DEF ReqInv
  <2>2. Resolves(q.input) => Learnt(q.input, q.found, q.i - 1, more)
    BY <2>1, LearntLess
  <2> QED
    BY <1>1, <1>3, <2>1, <2>2 DEF At
<1>6. CASE q.pc = "scan"
  BY <1>2, <1>4, <1>5, <1>6, ScannedKept
<1>7. CASE q.pc = "check"
  <2>1. ~IsCall(e.input)
    BY <1>1, <1>7 DEF ReqInv
  <2> QED
    BY <1>2, <1>3, <1>7, <2>1, CheckedKept
<1>8. CASE q.pc = "offer"
  <2>1. e.input.path = "grpc" \/ NeedsTools(e.input)
    BY <1>1, <1>8 DEF ReqInv
  <2> QED
    BY <1>2, <1>4, <1>5, <1>8, <2>1, OfferedKept
<1> QED
  BY <1>6, <1>7, <1>8

-----------------------------------------------------------------------------
(* The steps.                                                               *)

\* The configuration does not change, and no more does what it makes sound.
LEMMA HostKept ==
    ASSUME host' = host, NEW q, NEW d, NEW p, NEW u, Sound(q, d, p, u)
    PROVE  Sound(q, d, p, u)'
<1>1. \A in : AuthGate(in)' <=> AuthGate(in)
  BY DEF AuthGate
<1>2. \A c : ServesInbound(c)' <=> ServesInbound(c)
  BY DEF ServesInbound
<1>3. \A in : HostRefuses(in)' = HostRefuses(in)
  BY <1>1 DEF HostRefuses
<1>4. \A in : /\ McpRefuses(in)' = McpRefuses(in)
              /\ A2aRefuses(in)' = A2aRefuses(in)
              /\ GrpcRefuses(in)' = GrpcRefuses(in)
  BY <1>2 DEF McpRefuses, A2aRefuses, GrpcRefuses
<1>5. \A in : Refuses(in)' = Refuses(in)
  BY <1>3, <1>4 DEF Refuses
<1>6. \A s : ToolAt(s)' = ToolAt(s)
  BY DEF ToolAt
<1>7. Offers' = Offers
  BY DEF Offers
<1>8. \A in, t : Names(in, t, d)' <=> Names(in, t, d)
  <2>1. \A in, t : Unrivalled(in, t)' <=> Unrivalled(in, t)
    BY <1>6, <1>7 DEF Unrivalled
  <2>2. OnlyOne' <=> OnlyOne
    BY <1>7 DEF OnlyOne
  <2> QED
    BY <2>1, <2>2 DEF Names
<1>9. \A k : Before(k)' = Before(k)
  BY <1>7 DEF Before
<1>10. \A in, f, k : Learnt(in, f, k, d)' <=> Learnt(in, f, k, d)
  BY <1>6, <1>9 DEF Learnt
<1>11. ReqInv(q, d)'
  BY <1>5, <1>8, <1>10 DEF Sound, ReqInv
<1>12. RunInv(q, d, p, u)'
  BY <1>5, <1>8 DEF Sound, RunInv, Allowed
<1> QED
  BY <1>11, <1>12 DEF Sound

\* One entry may have changed.
Becomes(new, old, r, v) == (new = old /\ v = old[r]) \/ new = [old EXCEPT ![r] = v]

LEMMA OneChanges ==
    ASSUME NEW A, NEW S, NEW old \in [A -> S], NEW r \in A, NEW v, NEW new, Becomes(new, old, r, v)
    PROVE  /\ new[r] = v /\ \A s \in A : s # r => new[s] = old[s]
           /\ \A T : S \subseteq T /\ v \in T => new \in [A -> T]
BY DEF Becomes

LEMMA OneStays ==
    ASSUME NEW A, NEW S, NEW old \in [A -> S], NEW r \in A, NEW v \in S, NEW new,
           Becomes(new, old, r, v)
    PROVE  new[r] = v /\ (\A s \in A : s # r => new[s] = old[s]) /\ new \in [A -> S]
BY DEF Becomes

\* A step of one request, to where its own state is sound.
LEMMA StepKept ==
    ASSUME BridgeInv, host' = host, NEW r \in Requests,
           NEW q, NEW d \in BOOLEAN, NEW p \in BOOLEAN, NEW u,
           Becomes(req', req, r, q), Becomes(disturbed', disturbed, r, d),
           Becomes(pending', pending, r, p), Becomes(ran', ran, r, u),
           Sound(q, d, p, u)
    PROVE  BridgeInv'
<1>1. PICK S : req \in [Requests -> S]
  BY DEF BridgeInv
<1>2. PICK R : ran \in [Requests -> R]
  BY DEF BridgeInv
<1>3. pending \in [Requests -> BOOLEAN] /\ disturbed \in [Requests -> BOOLEAN] /\ host \in Hosts
  BY DEF BridgeInv
<1>4. req'[r] = q /\ (\A s \in Requests : s # r => req'[s] = req[s])
      /\ \E T : req' \in [Requests -> T]
  <2>1. S \subseteq S \cup {q} /\ q \in S \cup {q}
    OBVIOUS
  <2>2. \A T : S \subseteq T /\ q \in T => req' \in [Requests -> T]
    BY <1>1, OneChanges
  <2>3. req' \in [Requests -> S \cup {q}]
    BY <2>1, <2>2
  <2>4. req'[r] = q /\ \A s \in Requests : s # r => req'[s] = req[s]
    BY <1>1, OneChanges
  <2> QED
    BY <2>3, <2>4
<1>5. ran'[r] = u /\ (\A s \in Requests : s # r => ran'[s] = ran[s])
      /\ \E T : ran' \in [Requests -> T]
  <2>1. R \subseteq R \cup {u} /\ u \in R \cup {u}
    OBVIOUS
  <2>2. \A T : R \subseteq T /\ u \in T => ran' \in [Requests -> T]
    BY <1>2, OneChanges
  <2>3. ran' \in [Requests -> R \cup {u}]
    BY <2>1, <2>2
  <2>4. ran'[r] = u /\ \A s \in Requests : s # r => ran'[s] = ran[s]
    BY <1>2, OneChanges
  <2> QED
    BY <2>3, <2>4
<1>6. pending'[r] = p /\ (\A s \in Requests : s # r => pending'[s] = pending[s])
      /\ pending' \in [Requests -> BOOLEAN]
  <2>1. PICK B : B = BOOLEAN
    OBVIOUS
  <2>2. pending \in [Requests -> B] /\ p \in B
    BY <1>3, <2>1
  <2>3. pending' \in [Requests -> B]
    BY <2>2, OneStays
  <2>4. pending'[r] = p /\ \A s \in Requests : s # r => pending'[s] = pending[s]
    BY <2>2, OneStays
  <2> QED
    BY <2>1, <2>3, <2>4
<1>7. disturbed'[r] = d /\ (\A s \in Requests : s # r => disturbed'[s] = disturbed[s])
      /\ disturbed' \in [Requests -> BOOLEAN]
  <2>1. PICK B : B = BOOLEAN
    OBVIOUS
  <2>2. disturbed \in [Requests -> B] /\ d \in B
    BY <1>3, <2>1
  <2>3. disturbed' \in [Requests -> B]
    BY <2>2, OneStays
  <2>4. disturbed'[r] = d /\ \A s \in Requests : s # r => disturbed'[s] = disturbed[s]
    BY <2>2, OneStays
  <2> QED
    BY <2>1, <2>3, <2>4
<1>8. ASSUME NEW s \in Requests
      PROVE  Sound(req[s], disturbed[s], pending[s], ran[s])'
  <2>1. CASE s = r
    <3>1. Sound(q, d, p, u)'
      BY HostKept
    <3> QED
      BY <1>4, <1>5, <1>6, <1>7, <2>1, <3>1
  <2>2. CASE s # r
    <3>1. PICK q0, d0, p0, u0 : q0 = req[s] /\ d0 = disturbed[s] /\ p0 = pending[s] /\ u0 = ran[s]
      OBVIOUS
    <3>2. Sound(q0, d0, p0, u0)
      BY <3>1 DEF BridgeInv
    <3>3. Sound(q0, d0, p0, u0)'
      BY <3>2, HostKept
    <3> QED
      BY <1>4, <1>5, <1>6, <1>7, <2>2, <3>1, <3>3
  <2> QED
    BY <2>1, <2>2
<1>9. host' \in Hosts
  BY <1>3
<1> QED
  BY <1>4, <1>5, <1>6, <1>7, <1>8, <1>9 DEF BridgeInv

\* A request before its step.
LEMMA StateOf ==
    ASSUME BridgeInv, NEW r \in Requests
    PROVE  /\ host \in Hosts /\ req[r] = req[r]
           /\ disturbed[r] \in BOOLEAN /\ pending[r] \in BOOLEAN
           /\ Sound(req[r], disturbed[r], pending[r], ran[r])
           /\ (\E S : req \in [Requests -> S]) /\ (\E S : ran \in [Requests -> S])
           /\ pending \in [Requests -> BOOLEAN] /\ disturbed \in [Requests -> BOOLEAN]
BY DEF BridgeInv

\* What a request may be found to be, by names that stand for it in a proof.
Is(r, q, d, p, u) ==
    /\ q = req[r] /\ d = disturbed[r] /\ p = pending[r] /\ u = ran[r]
    /\ Sound(q, d, p, u)

LEMMA StateIs ==
    ASSUME BridgeInv, NEW r \in Requests
    PROVE  host \in Hosts /\ \E q, u : \E d, p \in BOOLEAN : Is(r, q, d, p, u)
BY DEF BridgeInv, Is

\* Nothing has run for a request that has not made its call.
LEMMA NothingRan ==
    ASSUME NEW q, NEW d, NEW p, NEW u, Sound(q, d, p, u), q.pc \notin {"awaiting", "done"},
           NEW e, NEW more, ReqInv(e, more)
    PROVE  u = <<>> /\ ~p /\ Sound(e, more, p, u)
<1>1. u = <<>> /\ ~p
  BY DEF Sound, RunInv
<1> QED
  BY <1>1 DEF Sound, RunInv

LEMMA SeesKept ==
    ASSUME BridgeInv, NEW r \in Requests, AsksRole(r), NEW role, Sees(r, role),
           host' = host, pending' = pending, ran' = ran
    PROVE  BridgeInv'
<1>1. host \in Hosts /\ \E q, u : \E d, p \in BOOLEAN : Is(r, q, d, p, u)
  BY StateIs
<1>2. PICK q, u : \E d, p \in BOOLEAN : Is(r, q, d, p, u)
  BY <1>1
<1>3. PICK d \in BOOLEAN, p \in BOOLEAN : Is(r, q, d, p, u)
  BY <1>2
<1>4. PICK m \in BOOLEAN : m = (d \/ role # Nodes[host.backends[q.i]].role)
  OBVIOUS
<1>5. PICK e : e = WithRole(q, role)
  OBVIOUS
<1>6. ReqInv(q, d) /\ q.pc \in {"scan", "check", "offer"} /\ Sound(q, d, p, u)
  BY <1>3 DEF Is, Sound, AsksRole
<1>7. (d => m) /\ Saw(q, role, m)
  BY <1>4 DEF Saw
<1>8. ReqInv(e, m)
  BY <1>1, <1>5, <1>6, <1>7, WithRoleKept
<1>9. Sound(e, m, p, u)
  BY <1>6, <1>8, NothingRan
<1>10. /\ Becomes(req', req, r, e)
       /\ Becomes(disturbed', disturbed, r, m)
       /\ Becomes(pending', pending, r, p)
       /\ Becomes(ran', ran, r, u)
  BY <1>3, <1>4, <1>5 DEF Becomes, Sees, SetReq, Is, Node
<1> QED
  BY <1>9, <1>10, StepKept

LEMMA DescribeKept ==
    ASSUME BridgeInv, NEW r \in Requests, Describe(r)
    PROVE  BridgeInv'
<1>1. AsksRole(r) /\ host' = host /\ pending' = pending /\ ran' = ran
  BY DEF Describe
<1>2. \/ \E role : Sees(r, role)
      \/ SetReq(r, [req[r] EXCEPT !.fetching = TRUE]) /\ disturbed' = disturbed
  BY DEF Describe
<1>3. CASE \E role : Sees(r, role)
  BY <1>1, <1>3, SeesKept
<1>4. CASE SetReq(r, [req[r] EXCEPT !.fetching = TRUE]) /\ disturbed' = disturbed
  <2>1. host \in Hosts /\ \E q, u : \E d, p \in BOOLEAN : Is(r, q, d, p, u)
    BY StateIs
  <2>2. PICK q, u : \E d, p \in BOOLEAN : Is(r, q, d, p, u)
    BY <2>1
  <2>3. PICK d \in BOOLEAN, p \in BOOLEAN : Is(r, q, d, p, u)
    BY <2>2
  <2>4. PICK e : e = [q EXCEPT !.fetching = TRUE]
    OBVIOUS
  <2>5. ReqInv(q, d) /\ q.pc \in {"scan", "check", "offer"} /\ Sound(q, d, p, u)
    BY <1>1, <2>3 DEF Is, Sound, AsksRole
  <2>6. /\ Whole(e) /\ e.input = q.input /\ e.i = q.i /\ e.pc = q.pc /\ e.found = q.found
        /\ e.tool = q.tool
    BY <2>4, <2>5 DEF Whole, Fields, ReqInv
  <2>7. ReqInv(e, d)
    BY <2>5, <2>6 DEF ReqInv
  <2>8. Sound(e, d, p, u)
    BY <2>5, <2>7, NothingRan
  <2>9. /\ Becomes(req', req, r, e)
        /\ Becomes(disturbed', disturbed, r, d)
        /\ Becomes(pending', pending, r, p)
        /\ Becomes(ran', ran, r, u)
    BY <1>1, <1>4, <2>3, <2>4 DEF Becomes, SetReq, Is
  <2> QED
    BY <1>1, <2>8, <2>9, StepKept
<1> QED
  BY <1>2, <1>3, <1>4

LEMMA ReceiveManifestKept ==
    ASSUME BridgeInv, NEW r \in Requests, ReceiveManifest(r)
    PROVE  BridgeInv'
<1>1. AsksRole(r) /\ host' = host /\ pending' = pending /\ ran' = ran
  BY DEF ReceiveManifest
<1>2. \E role : Sees(r, role)
  BY DEF ReceiveManifest
<1> QED
  BY <1>1, <1>2, SeesKept

LEMMA ReceiveActionsKept ==
    ASSUME BridgeInv, NEW r \in Requests, ReceiveActions(r)
    PROVE  BridgeInv'
<1>1. host \in Hosts /\ \E q, u : \E d, p \in BOOLEAN : Is(r, q, d, p, u)
  BY StateIs
<1>2. PICK q, u : \E d, p \in BOOLEAN : Is(r, q, d, p, u)
  BY <1>1
<1>3. PICK d \in BOOLEAN, p \in BOOLEAN : Is(r, q, d, p, u)
  BY <1>2
<1>4. PICK arrived \in BOOLEAN :
         /\ SetReq(r, WithTools(req[r], IF arrived THEN ToolsOf(Node(r)) ELSE <<>>))
         /\ disturbed' = [disturbed EXCEPT ![r] = @ \/ ~arrived]
  BY DEF ReceiveActions
<1>5. host' = host /\ pending' = pending /\ ran' = ran /\ req[r].pc = "listing"
  BY DEF ReceiveActions
<1>6. PICK m \in BOOLEAN : m = (d \/ ~arrived)
  OBVIOUS
<1>7. PICK tools : tools = IF arrived THEN ToolsOf(host.backends[q.i]) ELSE <<>>
  OBVIOUS
<1>8. PICK e : e = WithTools(q, tools)
  OBVIOUS
<1>9. ReqInv(q, d) /\ q.pc = "listing" /\ Sound(q, d, p, u)
  BY <1>3, <1>5 DEF Is, Sound
<1>10. Base(q) /\ Scannable(q.input)
  BY <1>9, BaseOf DEF ReqInv
<1>11. At(q, m)
  <2>1. Resolves(q.input) => Learnt(q.input, q.found, q.i - 1, d)
    BY <1>9 DEF ReqInv
  <2>2. Resolves(q.input) => Learnt(q.input, q.found, q.i - 1, m)
    BY <1>6, <2>1, LearntLess
  <2> QED
    BY <1>10, <2>2 DEF At
<1>12. Told(q, tools, m)
  <2>1. \E S : ToolsOf(host.backends[q.i]) \in Seq(S)
    BY <1>1, <1>10, ToolsThere DEF Base
  <2>2. <<>> \in Seq({})
    OBVIOUS
  <2>3. ~m => arrived /\ IsInvokable(Nodes[host.backends[q.i]].role)
    BY <1>6, <1>9 DEF ReqInv
  <2> QED
    BY <1>7, <2>1, <2>2, <2>3 DEF Told
<1>13. ReqInv(e, m)
  BY <1>1, <1>8, <1>11, <1>12, WithToolsKept
<1>14. Sound(e, m, p, u)
  BY <1>9, <1>13, NothingRan
<1>15. /\ Becomes(req', req, r, e)
       /\ Becomes(disturbed', disturbed, r, m)
       /\ Becomes(pending', pending, r, p)
       /\ Becomes(ran', ran, r, u)
  BY <1>3, <1>4, <1>5, <1>6, <1>7, <1>8 DEF Becomes, SetReq, Is, Node
<1> QED
  BY <1>5, <1>14, <1>15, StepKept

LEMMA LearntNothing ==
    ASSUME host \in Hosts, NEW in, NEW d
    PROVE  Learnt(in, <<>>, 0, d)
<1>1. Before(0) = {}
  BY BeforeFirst
<1>2. <<>> \in Seq({}) /\ DOMAIN <<>> = {}
  OBVIOUS
<1> QED
  BY <1>1, <1>2 DEF Learnt

\* A request starts soundly.
LEMMA Arrives ==
    ASSUME host \in Hosts, NEW q, NEW d, ReqInv(q, d), q.pc = "idle", NEW in \in Inputs, NEW e,
           e = [q EXCEPT !.input = in, !.pc = "scan"]
    PROVE  ReqInv(IF Refuses(in) # "none" THEN Done(e, Refusal(Refuses(in)))
                  ELSE IF in.method \in {"initialize", "ping"}
                  THEN Done(e, Answer("ok", "none", <<>>))
                  ELSE IF SoleBackend(in) THEN WithNode(e)
                  ELSE e, d)
<1>1. Whole(e) /\ e.input = in /\ e.i = 1 /\ q.i = 1 /\ e.pc = "scan" /\ e.found = <<>>
      /\ e.i \in 1..Len(host.backends)
  BY DEF Whole, Fields, ReqInv
<1>2. \A a : ReqInv(Done(e, a), d)
  BY <1>1, DoneKept
<1>3. ASSUME Refuses(in) = "none" PROVE Base(e) /\ Kind(in)
  BY <1>1, <1>3, Kinds DEF Base
<1>4. ASSUME Refuses(in) = "none", SoleBackend(in) PROVE ReqInv(WithNode(e), d)
  <2>1. in.path = "grpc"
    BY <1>4 DEF SoleBackend
  <2> QED
    BY <1>1, <1>3, <1>4, <2>1, WithNodeKept
<1>5. ASSUME Refuses(in) = "none", in.method \notin {"initialize", "ping"} PROVE ReqInv(e, d)
  <2>1. Scannable(in)
    BY <1>3, <1>5, KindsDiffer
  <2>2. Learnt(in, e.found, e.i - 1, d)
    <3>1. e.i - 1 = 0
      BY <1>1
    <3> QED
      BY <1>1, <3>1, LearntNothing
  <2> QED
    BY <1>1, <1>5, <2>1, <2>2 DEF ReqInv
<1> QED
  BY <1>2, <1>4, <1>5

LEMMA ArriveKept ==
    ASSUME BridgeInv, NEW r \in Requests, Arrive(r)
    PROVE  BridgeInv'
<1>1. host \in Hosts /\ \E q, u : \E d, p \in BOOLEAN : Is(r, q, d, p, u)
  BY StateIs
<1>2. PICK q, u : \E d, p \in BOOLEAN : Is(r, q, d, p, u)
  BY <1>1
<1>3. PICK d \in BOOLEAN, p \in BOOLEAN : Is(r, q, d, p, u)
  BY <1>2
<1> DEFINE Next1(e, in) == IF Refuses(in) # "none" THEN Done(e, Refusal(Refuses(in)))
                           ELSE IF in.method \in {"initialize", "ping"}
                           THEN Done(e, Answer("ok", "none", <<>>))
                           ELSE IF SoleBackend(in) THEN WithNode(e)
                           ELSE e
<1>4. PICK in \in Inputs : SetReq(r, Next1([req[r] EXCEPT !.input = in, !.pc = "scan"], in))
  BY DEF Arrive
<1>5. host' = host /\ pending' = pending /\ ran' = ran /\ disturbed' = disturbed
      /\ req[r].pc = "idle"
  BY DEF Arrive
<1>6. PICK e : e = [q EXCEPT !.input = in, !.pc = "scan"]
  OBVIOUS
<1>7. PICK n : n = Next1(e, in)
  OBVIOUS
<1>8. ReqInv(q, d) /\ q.pc = "idle" /\ Sound(q, d, p, u)
  BY <1>3, <1>5 DEF Is, Sound
<1>9. ReqInv(n, d)
  BY <1>1, <1>6, <1>7, <1>8, Arrives
<1> HIDE DEF Next1
<1>10. Sound(n, d, p, u)
  BY <1>8, <1>9, NothingRan
<1>11. /\ Becomes(req', req, r, n)
       /\ Becomes(disturbed', disturbed, r, d)
       /\ Becomes(pending', pending, r, p)
       /\ Becomes(ran', ran, r, u)
  BY <1>3, <1>4, <1>5, <1>6, <1>7 DEF Becomes, SetReq, Is
<1> QED
  BY <1>5, <1>10, <1>11, StepKept

\* What a request may run it may still run when it is done.
LEMMA DoneSound ==
    ASSUME NEW q, NEW d, NEW p, NEW u, Sound(q, d, p, u), q.pc # "idle", NEW a,
           NEW p2, p2 => p
    PROVE  Sound(Done(q, a), d, p2, u)
<1>1. PICK e : e = Done(q, a)
  OBVIOUS
<1>2. ReqInv(e, d) /\ e.pc = "done" /\ e.input = q.input /\ e.tool = q.tool
  BY <1>1, DoneKept DEF Sound, ReqInv
<1>3. RunInv(e, d, p2, u)
  BY <1>2 DEF Sound, RunInv, Allowed
<1> QED
  BY <1>1, <1>2, <1>3 DEF Sound

\* A call that may be made may have run.
LEMMA CallSound ==
    ASSUME NEW q, NEW d, NEW p, NEW u, Sound(q, d, p, u), q.pc = "call"
    PROVE  /\ u = <<>> /\ ~p
           /\ \A a : Sound(Done(q, a), d, p, u)
           /\ IsCall(q.input) => Allowed(q, d)
           /\ IsCall(q.input) => \A a : Sound(Done(q, a), d, p, <<q.tool>>)
<1>1. u = <<>> /\ ~p
  BY DEF Sound, RunInv
<1>2. \A a : Sound(Done(q, a), d, p, u)
  BY DoneSound
<1>3. IsCall(q.input) => Allowed(q, d)
  BY DEF Sound, ReqInv, Allowed
<1>4. ASSUME IsCall(q.input), NEW a PROVE Sound(Done(q, a), d, p, <<q.tool>>)
  <2>1. PICK e : e = Done(q, a)
    OBVIOUS
  <2>2. ReqInv(e, d) /\ e.pc = "done" /\ e.input = q.input /\ e.tool = q.tool
    BY <2>1, DoneKept DEF Sound, ReqInv
  <2>3. RunInv(e, d, p, <<q.tool>>)
    BY <1>1, <1>3, <1>4, <2>2 DEF RunInv, Allowed
  <2> QED
    BY <2>1, <2>2, <2>3 DEF Sound
<1> QED
  BY <1>1, <1>2, <1>3, <1>4

LEMMA CallLocalKept ==
    ASSUME BridgeInv, NEW r \in Requests, CallLocal(r)
    PROVE  BridgeInv'
<1>1. host \in Hosts /\ \E q, u : \E d, p \in BOOLEAN : Is(r, q, d, p, u)
  BY StateIs
<1>2. PICK q, u : \E d, p \in BOOLEAN : Is(r, q, d, p, u)
  BY <1>1
<1>3. PICK d \in BOOLEAN, p \in BOOLEAN : Is(r, q, d, p, u)
  BY <1>2
<1>4. host' = host /\ pending' = pending /\ disturbed' = disturbed /\ req[r].pc = "call"
  BY DEF CallLocal
<1>5. /\ \E status : SetReq(r, Done(req[r], Project(req[r], status)))
      /\ ran' = ran \/ (IsCall(req[r].input) /\ Ran(r))
  BY DEF CallLocal
<1>6. PICK a : req' = [req EXCEPT ![r] = Done(q, a)]
  BY <1>3, <1>5 DEF Is, SetReq
<1>7. Sound(q, d, p, u) /\ q.pc = "call"
  BY <1>3, <1>4 DEF Is
<1>8. PICK e : e = Done(q, a)
  OBVIOUS
<1>9. u = <<>> /\ Sound(e, d, p, u) /\ (IsCall(q.input) => Sound(e, d, p, <<q.tool>>))
  BY <1>7, <1>8, CallSound
<1>10. /\ Becomes(req', req, r, e)
       /\ Becomes(disturbed', disturbed, r, d)
       /\ Becomes(pending', pending, r, p)
  BY <1>3, <1>4, <1>6, <1>8 DEF Becomes, Is
<1>11. CASE ran' = ran
  <2>1. Becomes(ran', ran, r, u)
    BY <1>3, <1>11 DEF Becomes, Is
  <2> QED
    BY <1>4, <1>9, <1>10, <2>1, StepKept
<1>12. CASE IsCall(req[r].input) /\ Ran(r)
  <2>1. PICK t : t = q.tool
    OBVIOUS
  <2>2. Append(u, t) = <<t>>
    BY <1>9
  <2>3. Becomes(ran', ran, r, <<t>>)
    BY <1>3, <1>12, <2>1, <2>2 DEF Becomes, Is, Ran
  <2>4. Sound(e, d, p, <<t>>)
    BY <1>3, <1>9, <1>12, <2>1 DEF Is
  <2> QED
    BY <1>4, <1>10, <2>3, <2>4, StepKept
<1> QED
  BY <1>5, <1>11, <1>12

LEMMA CallRemoteKept ==
    ASSUME BridgeInv, NEW r \in Requests, CallRemote(r)
    PROVE  BridgeInv'
<1>1. host \in Hosts /\ \E q, u : \E d, p \in BOOLEAN : Is(r, q, d, p, u)
  BY StateIs
<1>2. PICK q, u : \E d, p \in BOOLEAN : Is(r, q, d, p, u)
  BY <1>1
<1>3. PICK d \in BOOLEAN, p \in BOOLEAN : Is(r, q, d, p, u)
  BY <1>2
<1>4. host' = host /\ ran' = ran /\ disturbed' = disturbed /\ req[r].pc = "call"
  BY DEF CallRemote
<1>5. PICK e : e = [q EXCEPT !.pc = "awaiting"]
  OBVIOUS
<1>6. PICK p2 \in BOOLEAN : p2 = (IsCall(q.input) /\ Runnable(q.tool))
  OBVIOUS
<1>7. Sound(q, d, p, u) /\ q.pc = "call"
  BY <1>3, <1>4 DEF Is
<1>8. /\ Whole(e) /\ e.input = q.input /\ e.i = q.i /\ e.pc = "awaiting" /\ e.tool = q.tool
  BY <1>5, <1>7 DEF Whole, Fields, ReqInv, Sound
<1>9. ReqInv(e, d)
  BY <1>7, <1>8 DEF ReqInv, Sound
<1>10. u = <<>> /\ (p2 => Allowed(q, d))
  BY <1>6, <1>7, CallSound
<1>11. Sound(e, d, p2, u)
  BY <1>8, <1>9, <1>10 DEF Sound, RunInv, Allowed
<1>12. /\ Becomes(req', req, r, e)
       /\ Becomes(disturbed', disturbed, r, d)
       /\ Becomes(pending', pending, r, p2)
       /\ Becomes(ran', ran, r, u)
  BY <1>3, <1>4, <1>5, <1>6 DEF Becomes, Is, CallRemote, SetReq
<1> QED
  BY <1>4, <1>11, <1>12, StepKept

LEMMA NodeRunsKept ==
    ASSUME BridgeInv, NEW r \in Requests, NodeRuns(r)
    PROVE  BridgeInv'
<1>1. host \in Hosts /\ \E q, u : \E d, p \in BOOLEAN : Is(r, q, d, p, u)
  BY StateIs
<1>2. PICK q, u : \E d, p \in BOOLEAN : Is(r, q, d, p, u)
  BY <1>1
<1>3. PICK d \in BOOLEAN, p \in BOOLEAN : Is(r, q, d, p, u)
  BY <1>2
<1>4. host' = host /\ req' = req /\ disturbed' = disturbed /\ pending[r]
  BY DEF NodeRuns
<1>5. Sound(q, d, p, u) /\ p
  BY <1>3, <1>4 DEF Is
<1>6. u = <<>> /\ Allowed(q, d) /\ ReqInv(q, d) /\ q.pc \in {"awaiting", "done"}
  BY <1>5 DEF Sound, RunInv
<1>7. PICK t : t = q.tool
  OBVIOUS
<1>8. Append(u, t) = <<t>>
  BY <1>6
<1>9. Sound(q, d, FALSE, <<t>>)
  BY <1>6, <1>7 DEF Sound, RunInv
<1>10. /\ Becomes(req', req, r, q)
       /\ Becomes(disturbed', disturbed, r, d)
       /\ Becomes(pending', pending, r, FALSE)
       /\ Becomes(ran', ran, r, <<t>>)
  BY <1>3, <1>4, <1>7, <1>8 DEF Becomes, Is, NodeRuns, Ran
<1> QED
  BY <1>4, <1>9, <1>10, StepKept

LEMMA ReceiveAnswerKept ==
    ASSUME BridgeInv, NEW r \in Requests, ReceiveAnswer(r)
    PROVE  BridgeInv'
<1>1. host \in Hosts /\ \E q, u : \E d, p \in BOOLEAN : Is(r, q, d, p, u)
  BY StateIs
<1>2. PICK q, u : \E d, p \in BOOLEAN : Is(r, q, d, p, u)
  BY <1>1
<1>3. PICK d \in BOOLEAN, p \in BOOLEAN : Is(r, q, d, p, u)
  BY <1>2
<1>4. host' = host /\ ran' = ran /\ disturbed' = disturbed /\ req[r].pc = "awaiting"
  BY DEF ReceiveAnswer
<1>5. /\ \E status : SetReq(r, Done(req[r], Project(req[r], status)))
      /\ pending' = pending \/ pending' = [pending EXCEPT ![r] = FALSE]
  BY DEF ReceiveAnswer
<1>6. PICK a : req' = [req EXCEPT ![r] = Done(q, a)]
  BY <1>3, <1>5 DEF Is, SetReq
<1>7. Sound(q, d, p, u) /\ q.pc = "awaiting"
  BY <1>3, <1>4 DEF Is
<1>8. PICK e : e = Done(q, a)
  OBVIOUS
<1>9. Sound(e, d, p, u) /\ Sound(e, d, FALSE, u)
  BY <1>7, <1>8, DoneSound
<1>10. /\ Becomes(req', req, r, e)
       /\ Becomes(disturbed', disturbed, r, d)
       /\ Becomes(ran', ran, r, u)
       /\ Becomes(pending', pending, r, p) \/ Becomes(pending', pending, r, FALSE)
  BY <1>3, <1>4, <1>5, <1>6, <1>8 DEF Becomes, Is
<1> QED
  BY <1>4, <1>9, <1>10, StepKept

LEMMA DispatchTimeoutKept ==
    ASSUME BridgeInv, NEW r \in Requests, DispatchTimeout(r)
    PROVE  BridgeInv'
<1>1. host \in Hosts /\ \E q, u : \E d, p \in BOOLEAN : Is(r, q, d, p, u)
  BY StateIs
<1>2. PICK q, u : \E d, p \in BOOLEAN : Is(r, q, d, p, u)
  BY <1>1
<1>3. PICK d \in BOOLEAN, p \in BOOLEAN : Is(r, q, d, p, u)
  BY <1>2
<1>4. host' = host /\ ran' = ran /\ disturbed' = disturbed /\ pending' = pending /\ Waits(r)
  BY DEF DispatchTimeout
<1>5. PICK a : req' = [req EXCEPT ![r] = Done(q, a)]
  BY <1>3 DEF Is, SetReq, DispatchTimeout
<1>6. Sound(q, d, p, u) /\ q.pc # "idle"
  BY <1>3, <1>4 DEF Is, Waits, Sound, ReqInv
<1>7. PICK e : e = Done(q, a)
  OBVIOUS
<1>8. Sound(e, d, p, u)
  BY <1>6, <1>7, DoneSound
<1>9. /\ Becomes(req', req, r, e)
      /\ Becomes(disturbed', disturbed, r, d)
      /\ Becomes(ran', ran, r, u)
      /\ Becomes(pending', pending, r, p)
  BY <1>3, <1>4, <1>5, <1>7 DEF Becomes, Is
<1> QED
  BY <1>4, <1>8, <1>9, StepKept

-----------------------------------------------------------------------------
LEMMA InitSound ==
    ASSUME BridgeInit
    PROVE  BridgeInv
<1> DEFINE q == [pc |-> "idle", input |-> NoInput, i |-> 1, fetching |-> FALSE,
                 found |-> <<>>, tool |-> [node |-> <<>>, action |-> <<>>],
                 answer |-> NoAnswer]
<1>1. /\ host \in Hosts /\ req = [r \in Requests |-> q]
      /\ pending = [r \in Requests |-> FALSE] /\ ran = [r \in Requests |-> <<>>]
      /\ disturbed = [r \in Requests |-> FALSE]
  BY DEF BridgeInit
<1>2. 1 \in 1..Len(host.backends)
  <2>1. host.backends \in Seq(DOMAIN Nodes) /\ host.backends # <<>>
    BY <1>1, BridgeAssumption
  <2> QED
    BY <2>1
<1>3. Whole(q) /\ q.i = 1 /\ q.pc = "idle" /\ q.found = <<>> /\ ~q.fetching
  BY DEF Whole, Fields
<1> HIDE DEF q
<1>4. ReqInv(q, FALSE)
  BY <1>2, <1>3 DEF ReqInv
<1>5. Sound(q, FALSE, FALSE, <<>>)
  BY <1>3, <1>4 DEF Sound, RunInv
<1>6. (\E S : req \in [Requests -> S]) /\ (\E S : ran \in [Requests -> S])
  <2>1. req \in [Requests -> {q}] /\ ran \in [Requests -> {<<>>}]
    BY <1>1
  <2> QED
    BY <2>1
<1> QED
  BY <1>1, <1>5, <1>6 DEF BridgeInv

LEMMA StutterKept ==
    ASSUME BridgeInv, UNCHANGED bridge
    PROVE  BridgeInv'
<1>1. host' = host /\ req' = req /\ pending' = pending /\ ran' = ran /\ disturbed' = disturbed
  BY DEF bridge
<1>2. ASSUME NEW s \in Requests
      PROVE  Sound(req[s], disturbed[s], pending[s], ran[s])'
  <2>1. PICK q, d, p, u : q = req[s] /\ d = disturbed[s] /\ p = pending[s] /\ u = ran[s]
    OBVIOUS
  <2>2. Sound(q, d, p, u)
    BY <2>1 DEF BridgeInv
  <2>3. Sound(q, d, p, u)'
    BY <1>1, <2>2, HostKept
  <2> QED
    BY <1>1, <2>1, <2>3
<1> QED
  BY <1>1, <1>2 DEF BridgeInv

\* What the Bridge knows of each request stays true: the names it has collected
\* are those of the nodes it has passed, as far as these showed themselves, and
\* the call it makes is of a tool that the request names.
THEOREM BridgeInductive == BridgeSpec => []BridgeInv
<1>1. BridgeInit => BridgeInv
  BY InitSound
<1>2. BridgeInv /\ [BridgeNext]_bridge => BridgeInv'
  <2> SUFFICES ASSUME BridgeInv, [BridgeNext]_bridge PROVE BridgeInv'
    OBVIOUS
  <2>1. CASE UNCHANGED bridge
    BY <2>1, StutterKept
  <2>2. ASSUME NEW r \in Requests, Arrive(r) \/ BridgeStep(r) \/ NodeStep(r)
        PROVE  BridgeInv'
    <3>1. CASE Arrive(r)
      BY <3>1, ArriveKept
    <3>2. CASE Describe(r)
      BY <3>2, DescribeKept
    <3>3. CASE CallLocal(r)
      BY <3>3, CallLocalKept
    <3>4. CASE CallRemote(r)
      BY <3>4, CallRemoteKept
    <3>5. CASE DispatchTimeout(r)
      BY <3>5, DispatchTimeoutKept
    <3>6. CASE ReceiveManifest(r)
      BY <3>6, ReceiveManifestKept
    <3>7. CASE ReceiveActions(r)
      BY <3>7, ReceiveActionsKept
    <3>8. CASE NodeRuns(r)
      BY <3>8, NodeRunsKept
    <3>9. CASE ReceiveAnswer(r)
      BY <3>9, ReceiveAnswerKept
    <3> QED
      BY <2>2, <3>1, <3>2, <3>3, <3>4, <3>5, <3>6, <3>7, <3>8, <3>9 DEF BridgeStep, NodeStep
  <2> QED
    BY <2>1, <2>2 DEF BridgeNext
<1> QED
  BY <1>1, <1>2, PTL DEF BridgeSpec

\* An action runs at most once for a request, only for one that was let in, and
\* only where the request names it (mcp.rs resolve_tool, a2a.rs resolve_skill,
\* grpc.rs resolve_backend), for any nodes, configurations, requests and inputs.
THEOREM ToolsRunAsAskedHolds == BridgeSpec => []ToolsRunAsAsked
<1>1. BridgeInv => ToolsRunAsAsked
  <2> SUFFICES ASSUME BridgeInv, NEW r \in Requests, ran[r] # <<>>
               PROVE  /\ Len(ran[r]) = 1 /\ Refuses(req[r].input) = "none"
                      /\ Names(req[r].input, ran[r][1], disturbed[r])
    BY DEF ToolsRunAsAsked
  <2>1. RunInv(req[r], disturbed[r], pending[r], ran[r])
    BY DEF BridgeInv, Sound
  <2>2. ran[r] = <<req[r].tool>> /\ Allowed(req[r], disturbed[r])
    BY <2>1 DEF RunInv
  <2>3. Len(ran[r]) = 1 /\ ran[r][1] = req[r].tool
    BY <2>2
  <2> QED
    BY <2>2, <2>3 DEF Allowed
<1> QED
  BY <1>1, BridgeInductive, PTL

=============================================================================
