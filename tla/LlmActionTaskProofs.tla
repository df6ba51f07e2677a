------------------------ MODULE LlmActionTaskProofs ------------------------
(***************************************************************************)
(* Machine-checked proofs about LlmActionTask, for any number of calls and *)
(* keys: who wins a reservation, what an answer says of it, and what the   *)
(* runner leaves behind.                                                   *)
(***************************************************************************)
EXTENDS LlmActionTask, TLAPS

-----------------------------------------------------------------------------
(* The inductive invariant, call by call.                                   *)

\* Points of the worker before it has a reservation, and before the guard of
\* one it has may be committed.
NotReserved == {"idle", "reserve"}
Undecided == {"register", "registerAbort", "inner", "check", "settle", "source",
              "recheck", "commit", "abort", "aborting"}

\* Guard and reservation: the guard says who is responsible for the
\* reservation, and whoever moved it out of "active" is on its way to the store.
GuardInv(c) ==
    /\ resv[c] = "committed" <=> guard[c] = "committed"
    /\ resv[c] = "aborted" => guard[c] = "aborted"
    /\ guard[c] = "none" <=> resv[c] = "none"
    /\ guard[c] = "committing" <=> worker[c] = "committing"
    /\ (guard[c] = "aborted" /\ resv[c] = "held") <=>
           (firing[c] = "aborting" \/ worker[c] \in {"aborting", "registerAbort"})
    /\ ~(firing[c] = "aborting" /\ worker[c] \in {"aborting", "registerAbort"})
    /\ worker[c] \in NotReserved => guard[c] = "none"
    /\ worker[c] \in Undecided => guard[c] \in {"active", "aborted"}

\* Cancellation and listener: as long as the guard is active somebody will
\* still abort it when cancel() is called.
SignalInv(c) ==
    /\ cancelled[c] <=> firing[c] # "no"
    /\ listener[c] => firing[c] \in {"no", "swapped"}
    /\ worker[c] \in NotReserved \cup {"register"} =>
           ~listener[c] /\ firing[c] # "taken"
    /\ worker[c] = "register" => guard[c] = "active"
    /\ (guard[c] = "active" /\ worker[c] # "register" /\ firing[c] \in {"no", "swapped"}) =>
           listener[c]
    /\ (guard[c] = "active" /\ firing[c] = "fired") => worker[c] = "register"

\* What the worker is going to say, and has said, of the reservation.
OutcomeInv(c) ==
    /\ worker[c] \in {"recheck", "commit", "committing"} => outcome[c] = "ok"
    /\ worker[c] \in {"abort", "aborting"} => outcome[c] # "ok"
    /\ worker[c] \in {"abort", "aborting", "send"} => outcome[c] # "none"
    /\ worker[c] = "send" => (outcome[c] = "ok" <=> guard[c] = "committed")
    /\ channel[c] \in {"ok", "stopped", "err", "dropped"} => worker[c] = "done"
    /\ channel[c] = "ok" => guard[c] = "committed"
    /\ channel[c] \in {"stopped", "dropped"} => guard[c] # "committed"
    /\ (channel[c] = "stream" /\ handler[c] = "recv") =>
           worker[c] = "done" /\ guard[c] \in {"active", "aborted"}

\* Which threads exist, and the status they leave.
TaskInv(c) ==
    /\ handler[c] \in {"lookup", "create", "key", "insert", "spawn"} =>
           worker[c] = "idle" /\ channel[c] = "empty" /\ runner[c] = "idle"
    /\ runner[c] # "idle" => handler[c] = "done"
    /\ runner[c] = "start" => worker[c] = "idle" /\ channel[c] = "empty"
    /\ handler[c] = "cache" => channel[c] \in {"ok", "stopped"}
    /\ runner[c] = "complete" \/ status[c] = "completed" =>
           channel[c] \in {"ok", "stopped"}
    /\ handler[c] \in {"lookup", "create"} => status[c] = "absent"
    /\ handler[c] \in {"key", "insert", "spawn"} \/ runner[c] # "idle" =>
           status[c] # "absent"
    /\ runner[c] \in {"idle", "start"} => status[c] # "running"
    /\ canceller[c] = "store" => status[c] # "absent"
    /\ canceller[c] \in {"signal", "firing", "done"} => status[c] \in Terminal
    /\ (/\ cancelled[c]
        /\ \/ handler[c] \in {"lookup", "create", "key", "insert", "spawn"}
           \/ runner[c] \in {"start", "loop"}) => status[c] \in Terminal
    /\ runner[c] \in {"cleanup", "done"} => status[c] \in Terminal
    /\ runner[c] = "done" => ~handle[c]

CallInv(c) == GuardInv(c) /\ SignalInv(c) /\ OutcomeInv(c) /\ TaskInv(c)

IndInv == TypeOK /\ \A c \in Calls : CallInv(c)

-----------------------------------------------------------------------------
(* A step of one call's threads leaves the other calls alone.               *)

\* Nothing of what the invariant reads of a call has changed.
Same(d) ==
    /\ status'[d] = status[d] /\ handle'[d] = handle[d]
    /\ handler'[d] = handler[d] /\ runner'[d] = runner[d]
    /\ worker'[d] = worker[d] /\ canceller'[d] = canceller[d]
    /\ outcome'[d] = outcome[d] /\ channel'[d] = channel[d]
    /\ cancelled'[d] = cancelled[d] /\ listener'[d] = listener[d]
    /\ firing'[d] = firing[d] /\ guard'[d] = guard[d] /\ resv'[d] = resv[d]

\* The threads of one call.
CallStep(c) ==
    \/ HandlerStep(c) \/ RunnerStep(c) \/ CancelStep(c)
    \/ FiringStep(c) \/ InnerStep(c) \/ SourceStep(c) \/ WorkerStep(c)

\* A call none of whose threads has moved keeps its part of the invariant.
LEMMA SameKeeps ==
    ASSUME NEW d \in Calls, CallInv(d), Same(d)
    PROVE  CallInv(d)'
<1>1. GuardInv(d)'
  BY DEF Same, CallInv, GuardInv
<1>2. SignalInv(d)'
  BY DEF Same, CallInv, SignalInv
<1>3. OutcomeInv(d)'
  BY DEF Same, CallInv, OutcomeInv
<1>4. TaskInv(d)'
  BY DEF Same, CallInv, TaskInv
<1> QED
  BY <1>1, <1>2, <1>3, <1>4 DEF CallInv

\* The handler of the request (action_server.rs:783-1089) keeps the call's part
\* of the invariant and touches no other call.
LEMMA HandlerKeeps ==
    ASSUME TypeOK, NEW c \in Calls, CallInv(c), HandlerStep(c)
    PROVE  TypeOK' /\ CallInv(c)' /\ \A d \in Calls \ {c} : Same(d)
<1> USE DEF request, host, signal, context, work, Mode, Terminal
<1> DEFINE Others == \A d \in Calls \ {c} : Same(d)
<1>1. CASE Lookup(c)
  <2>1. TypeOK'
    BY <1>1 DEF TypeOK, CallInv, OutcomeInv, Lookup
  <2>2. Others
    BY <1>1 DEF TypeOK, Same, Lookup
  <2>3. GuardInv(c)' /\ SignalInv(c)'
    BY <1>1 DEF TypeOK, CallInv, GuardInv, SignalInv, OutcomeInv, TaskInv, NotReserved, Undecided,
               Lookup
  <2>4. OutcomeInv(c)'
    BY <1>1 DEF TypeOK, CallInv, GuardInv, OutcomeInv, TaskInv, NotReserved,
               Undecided, Lookup
  <2>5. TaskInv(c)'
    BY <1>1 DEF TypeOK, CallInv, TaskInv, SignalInv, OutcomeInv, Lookup
  <2> QED
    BY <2>1, <2>2, <2>3, <2>4, <2>5 DEF CallInv
<1>2. CASE CreateTask(c)
  <2>1. TypeOK'
    BY <1>2 DEF TypeOK, CallInv, OutcomeInv, CreateTask
  <2>2. Others
    BY <1>2 DEF TypeOK, Same, CreateTask
  <2>3. GuardInv(c)' /\ SignalInv(c)'
    BY <1>2 DEF TypeOK, CallInv, GuardInv, SignalInv, OutcomeInv, TaskInv, NotReserved, Undecided,
               CreateTask
  <2>4. OutcomeInv(c)'
    BY <1>2 DEF TypeOK, CallInv, GuardInv, OutcomeInv, TaskInv, NotReserved,
               Undecided, CreateTask
  <2>5. TaskInv(c)'
    BY <1>2 DEF TypeOK, CallInv, TaskInv, SignalInv, OutcomeInv, CreateTask
  <2> QED
    BY <2>1, <2>2, <2>3, <2>4, <2>5 DEF CallInv
<1>3. CASE StoreKey(c)
  <2>1. TypeOK'
    BY <1>3 DEF TypeOK, CallInv, OutcomeInv, StoreKey, TryStore
  <2>2. Others
    BY <1>3 DEF TypeOK, Same, StoreKey, TryStore
  <2>3. GuardInv(c)' /\ SignalInv(c)'
    BY <1>3 DEF TypeOK, CallInv, GuardInv, SignalInv, OutcomeInv, TaskInv, NotReserved, Undecided,
               StoreKey, TryStore
  <2>4. OutcomeInv(c)'
    BY <1>3 DEF TypeOK, CallInv, GuardInv, OutcomeInv, TaskInv, NotReserved,
               Undecided, StoreKey, TryStore
  <2>5. TaskInv(c)'
    BY <1>3 DEF TypeOK, CallInv, TaskInv, SignalInv, OutcomeInv, StoreKey, TryStore
  <2> QED
    BY <2>1, <2>2, <2>3, <2>4, <2>5 DEF CallInv
<1>4. CASE InsertHandle(c)
  <2>1. TypeOK'
    BY <1>4 DEF TypeOK, CallInv, OutcomeInv, InsertHandle
  <2>2. Others
    BY <1>4 DEF TypeOK, Same, InsertHandle
  <2>3. GuardInv(c)' /\ SignalInv(c)'
    BY <1>4 DEF TypeOK, CallInv, GuardInv, SignalInv, OutcomeInv, TaskInv, NotReserved, Undecided,
               InsertHandle
  <2>4. OutcomeInv(c)'
    BY <1>4 DEF TypeOK, CallInv, GuardInv, OutcomeInv, TaskInv, NotReserved,
               Undecided, InsertHandle
  <2>5. TaskInv(c)'
    BY <1>4 DEF TypeOK, CallInv, TaskInv, SignalInv, OutcomeInv, InsertHandle
  <2> QED
    BY <2>1, <2>2, <2>3, <2>4, <2>5 DEF CallInv
<1>5. CASE SpawnRunner(c)
  <2>1. TypeOK'
    BY <1>5 DEF TypeOK, CallInv, OutcomeInv, SpawnRunner
  <2>2. Others
    BY <1>5 DEF TypeOK, Same, SpawnRunner
  <2>3. GuardInv(c)' /\ SignalInv(c)'
    BY <1>5 DEF TypeOK, CallInv, GuardInv, SignalInv, OutcomeInv, TaskInv, NotReserved, Undecided,
               SpawnRunner
  <2>4. OutcomeInv(c)'
    BY <1>5 DEF TypeOK, CallInv, GuardInv, OutcomeInv, TaskInv, NotReserved,
               Undecided, SpawnRunner
  <2>5. TaskInv(c)'
    BY <1>5 DEF TypeOK, CallInv, TaskInv, SignalInv, OutcomeInv, SpawnRunner
  <2> QED
    BY <2>1, <2>2, <2>3, <2>4, <2>5 DEF CallInv
<1>6. CASE SyncReceive(c)
  <2>1. TypeOK'
    BY <1>6 DEF TypeOK, CallInv, OutcomeInv, SyncReceive
  <2>2. Others
    BY <1>6 DEF TypeOK, Same, SyncReceive
  <2>3. GuardInv(c)' /\ SignalInv(c)'
    BY <1>6 DEF TypeOK, CallInv, GuardInv, SignalInv, OutcomeInv, TaskInv, NotReserved, Undecided,
               SyncReceive
  <2>4. OutcomeInv(c)'
    BY <1>6 DEF TypeOK, CallInv, GuardInv, OutcomeInv, TaskInv, NotReserved,
               Undecided, SyncReceive
  <2>5. TaskInv(c)'
    BY <1>6 DEF TypeOK, CallInv, TaskInv, SignalInv, OutcomeInv, SyncReceive
  <2> QED
    BY <2>1, <2>2, <2>3, <2>4, <2>5 DEF CallInv
<1>7. CASE WriteStream(c)
  <2>1. TypeOK'
    BY <1>7 DEF TypeOK, CallInv, OutcomeInv, WriteStream
  <2>2. Others
    BY <1>7 DEF TypeOK, Same, WriteStream
  <2>3. GuardInv(c)' /\ SignalInv(c)'
    BY <1>7 DEF TypeOK, CallInv, GuardInv, SignalInv, OutcomeInv, TaskInv, NotReserved, Undecided,
               WriteStream
  <2>4. OutcomeInv(c)'
    BY <1>7 DEF TypeOK, CallInv, GuardInv, OutcomeInv, TaskInv, NotReserved,
               Undecided, WriteStream
  <2>5. TaskInv(c)'
    BY <1>7 DEF TypeOK, CallInv, TaskInv, SignalInv, OutcomeInv, WriteStream
  <2> QED
    BY <2>1, <2>2, <2>3, <2>4, <2>5 DEF CallInv
<1>8. CASE StreamWritten(c)
  <2>1. TypeOK'
    BY <1>8 DEF TypeOK, CallInv, OutcomeInv, StreamWritten
  <2>2. Others
    BY <1>8 DEF TypeOK, Same, StreamWritten
  <2>3. GuardInv(c)' /\ SignalInv(c)'
    BY <1>8 DEF TypeOK, CallInv, GuardInv, SignalInv, OutcomeInv, TaskInv, NotReserved, Undecided,
               StreamWritten
  <2>4. OutcomeInv(c)'
    BY <1>8 DEF TypeOK, CallInv, GuardInv, OutcomeInv, TaskInv, NotReserved,
               Undecided, StreamWritten
  <2>5. TaskInv(c)'
    BY <1>8 DEF TypeOK, CallInv, TaskInv, SignalInv, OutcomeInv, StreamWritten
  <2> QED
    BY <2>1, <2>2, <2>3, <2>4, <2>5 DEF CallInv
<1>9. CASE SyncCache(c)
  <2>1. TypeOK'
    BY <1>9 DEF TypeOK, CallInv, OutcomeInv, SyncCache, TryStore
  <2>2. Others
    BY <1>9 DEF TypeOK, Same, SyncCache, TryStore
  <2>3. GuardInv(c)' /\ SignalInv(c)'
    BY <1>9 DEF TypeOK, CallInv, GuardInv, SignalInv, OutcomeInv, TaskInv, NotReserved, Undecided,
               SyncCache, TryStore
  <2>4. OutcomeInv(c)'
    BY <1>9 DEF TypeOK, CallInv, GuardInv, OutcomeInv, TaskInv, NotReserved,
               Undecided, SyncCache, TryStore
  <2>5. TaskInv(c)'
    BY <1>9 DEF TypeOK, CallInv, TaskInv, SignalInv, OutcomeInv, SyncCache, TryStore
  <2> QED
    BY <2>1, <2>2, <2>3, <2>4, <2>5 DEF CallInv
<1>10. CASE SyncGivesUp(c)
  <2>1. TypeOK'
    BY <1>10 DEF TypeOK, CallInv, OutcomeInv, SyncGivesUp, Swap, AfterSwap
  <2>2. Others
    BY <1>10 DEF TypeOK, Same, SyncGivesUp, Swap, AfterSwap
  <2>3. GuardInv(c)' /\ SignalInv(c)'
    BY <1>10 DEF TypeOK, CallInv, GuardInv, SignalInv, OutcomeInv, TaskInv, NotReserved, Undecided,
               SyncGivesUp, Swap, AfterSwap
  <2>4. OutcomeInv(c)'
    BY <1>10 DEF TypeOK, CallInv, GuardInv, OutcomeInv, TaskInv, NotReserved,
               Undecided, SyncGivesUp, Swap, AfterSwap
  <2>5. TaskInv(c)'
    BY <1>10 DEF TypeOK, CallInv, TaskInv, SignalInv, OutcomeInv, SyncGivesUp, Swap, AfterSwap
  <2> QED
    BY <2>1, <2>2, <2>3, <2>4, <2>5 DEF CallInv
<1>11. CASE SyncReplies(c)
  <2>1. TypeOK'
    BY <1>11 DEF TypeOK, CallInv, OutcomeInv, SyncReplies
  <2>2. Others
    BY <1>11 DEF TypeOK, Same, SyncReplies
  <2>3. GuardInv(c)' /\ SignalInv(c)'
    BY <1>11 DEF TypeOK, CallInv, GuardInv, SignalInv, OutcomeInv, TaskInv, NotReserved, Undecided,
               SyncReplies
  <2>4. OutcomeInv(c)'
    BY <1>11 DEF TypeOK, CallInv, GuardInv, OutcomeInv, TaskInv, NotReserved,
               Undecided, SyncReplies
  <2>5. TaskInv(c)'
    BY <1>11 DEF TypeOK, CallInv, TaskInv, SignalInv, OutcomeInv, SyncReplies
  <2> QED
    BY <2>1, <2>2, <2>3, <2>4, <2>5 DEF CallInv
<1> QED
  BY <1>1, <1>2, <1>3, <1>4, <1>5, <1>6, <1>7, <1>8, <1>9, <1>10, <1>11 DEF HandlerStep

\* The runner of an async task (action_server.rs:1091-1163).
LEMMA RunnerKeeps ==
    ASSUME TypeOK, NEW c \in Calls, CallInv(c), RunnerStep(c)
    PROVE  TypeOK' /\ CallInv(c)' /\ \A d \in Calls \ {c} : Same(d)
<1> USE DEF request, host, signal, context, work, Mode, Terminal
<1> DEFINE Others == \A d \in Calls \ {c} : Same(d)
<1>1. CASE RunnerStarts(c)
  <2>1. TypeOK'
    <3>1. CASE status[c] = "pending"
      BY <1>1, <3>1, SMTT(20) DEF TypeOK, RunnerStarts
    <3>2. CASE ~(status[c] = "pending")
      BY <1>1, <3>2 DEF TypeOK, RunnerStarts
    <3> QED
      BY <3>1, <3>2
  <2>2. Others
    BY <1>1 DEF TypeOK, Same, RunnerStarts
  <2>3. GuardInv(c)' /\ SignalInv(c)'
    BY <1>1 DEF TypeOK, CallInv, GuardInv, SignalInv, OutcomeInv, TaskInv, NotReserved, Undecided,
               RunnerStarts
  <2>4. OutcomeInv(c)'
    BY <1>1 DEF TypeOK, CallInv, GuardInv, OutcomeInv, TaskInv, NotReserved,
               Undecided, RunnerStarts
  <2>5. TaskInv(c)'
    BY <1>1 DEF TypeOK, CallInv, TaskInv, SignalInv, OutcomeInv, RunnerStarts
  <2> QED
    BY <2>1, <2>2, <2>3, <2>4, <2>5 DEF CallInv
<1>2. CASE RunnerSeesCancel(c)
  <2>1. TypeOK'
    BY <1>2 DEF TypeOK, CallInv, OutcomeInv, RunnerSeesCancel
  <2>2. Others
    BY <1>2 DEF TypeOK, Same, RunnerSeesCancel
  <2>3. GuardInv(c)' /\ SignalInv(c)'
    BY <1>2 DEF TypeOK, CallInv, GuardInv, SignalInv, OutcomeInv, TaskInv, NotReserved, Undecided,
               RunnerSeesCancel
  <2>4. OutcomeInv(c)'
    BY <1>2 DEF TypeOK, CallInv, GuardInv, OutcomeInv, TaskInv, NotReserved,
               Undecided, RunnerSeesCancel
  <2>5. TaskInv(c)'
    BY <1>2 DEF TypeOK, CallInv, TaskInv, SignalInv, OutcomeInv, RunnerSeesCancel
  <2> QED
    BY <2>1, <2>2, <2>3, <2>4, <2>5 DEF CallInv
<1>3. CASE RunnerDeadline(c)
  <2>1. TypeOK'
    BY <1>3 DEF TypeOK, CallInv, OutcomeInv, RunnerDeadline, Swap, AfterSwap
  <2>2. Others
    BY <1>3 DEF TypeOK, Same, RunnerDeadline, Swap, AfterSwap
  <2>3. GuardInv(c)' /\ SignalInv(c)'
    BY <1>3 DEF TypeOK, CallInv, GuardInv, SignalInv, OutcomeInv, TaskInv, NotReserved, Undecided,
               RunnerDeadline, Swap, AfterSwap
  <2>4. OutcomeInv(c)'
    BY <1>3 DEF TypeOK, CallInv, GuardInv, OutcomeInv, TaskInv, NotReserved,
               Undecided, RunnerDeadline, Swap, AfterSwap
  <2>5. TaskInv(c)'
    BY <1>3 DEF TypeOK, CallInv, TaskInv, SignalInv, OutcomeInv, RunnerDeadline, Swap, AfterSwap
  <2> QED
    BY <2>1, <2>2, <2>3, <2>4, <2>5 DEF CallInv
<1>4. CASE RunnerDeadlineFired(c)
  <2>1. TypeOK'
    BY <1>4 DEF TypeOK, CallInv, OutcomeInv, RunnerDeadlineFired
  <2>2. Others
    BY <1>4 DEF TypeOK, Same, RunnerDeadlineFired
  <2>3. GuardInv(c)' /\ SignalInv(c)'
    BY <1>4 DEF TypeOK, CallInv, GuardInv, SignalInv, OutcomeInv, TaskInv, NotReserved, Undecided,
               RunnerDeadlineFired
  <2>4. OutcomeInv(c)'
    BY <1>4 DEF TypeOK, CallInv, GuardInv, OutcomeInv, TaskInv, NotReserved,
               Undecided, RunnerDeadlineFired
  <2>5. TaskInv(c)'
    BY <1>4 DEF TypeOK, CallInv, TaskInv, SignalInv, OutcomeInv, RunnerDeadlineFired
  <2> QED
    BY <2>1, <2>2, <2>3, <2>4, <2>5 DEF CallInv
<1>5. CASE RunnerReceives(c)
  <2>1. TypeOK'
    BY <1>5 DEF TypeOK, CallInv, OutcomeInv, RunnerReceives
  <2>2. Others
    BY <1>5 DEF TypeOK, Same, RunnerReceives
  <2>3. GuardInv(c)' /\ SignalInv(c)'
    BY <1>5 DEF TypeOK, CallInv, GuardInv, SignalInv, OutcomeInv, TaskInv, NotReserved, Undecided,
               RunnerReceives
  <2>4. OutcomeInv(c)'
    BY <1>5 DEF TypeOK, CallInv, GuardInv, OutcomeInv, TaskInv, NotReserved,
               Undecided, RunnerReceives
  <2>5. TaskInv(c)'
    BY <1>5 DEF TypeOK, CallInv, TaskInv, SignalInv, OutcomeInv, RunnerReceives
  <2> QED
    BY <2>1, <2>2, <2>3, <2>4, <2>5 DEF CallInv
<1>6. CASE RunnerDisconnected(c)
  <2>1. TypeOK'
    BY <1>6 DEF TypeOK, CallInv, OutcomeInv, RunnerDisconnected
  <2>2. Others
    BY <1>6 DEF TypeOK, Same, RunnerDisconnected
  <2>3. GuardInv(c)' /\ SignalInv(c)'
    BY <1>6 DEF TypeOK, CallInv, GuardInv, SignalInv, OutcomeInv, TaskInv, NotReserved, Undecided,
               RunnerDisconnected
  <2>4. OutcomeInv(c)'
    BY <1>6 DEF TypeOK, CallInv, GuardInv, OutcomeInv, TaskInv, NotReserved,
               Undecided, RunnerDisconnected
  <2>5. TaskInv(c)'
    BY <1>6 DEF TypeOK, CallInv, TaskInv, SignalInv, OutcomeInv, RunnerDisconnected
  <2> QED
    BY <2>1, <2>2, <2>3, <2>4, <2>5 DEF CallInv
<1>7. CASE RunnerSettles(c)
  <2>1. TypeOK'
    BY <1>7 DEF TypeOK, CallInv, OutcomeInv, RunnerSettles, Settle
  <2>2. Others
    BY <1>7 DEF TypeOK, Same, RunnerSettles, Settle
  <2>3. GuardInv(c)' /\ SignalInv(c)'
    BY <1>7 DEF TypeOK, CallInv, GuardInv, SignalInv, OutcomeInv, TaskInv, NotReserved, Undecided,
               RunnerSettles, Settle
  <2>4. OutcomeInv(c)'
    BY <1>7 DEF TypeOK, CallInv, GuardInv, OutcomeInv, TaskInv, NotReserved,
               Undecided, RunnerSettles, Settle
  <2>5. TaskInv(c)'
    BY <1>7 DEF TypeOK, CallInv, TaskInv, SignalInv, OutcomeInv, RunnerSettles, Settle
  <2> QED
    BY <2>1, <2>2, <2>3, <2>4, <2>5 DEF CallInv
<1>8. CASE RunnerCleanup(c)
  <2>1. TypeOK'
    BY <1>8 DEF TypeOK, CallInv, OutcomeInv, RunnerCleanup
  <2>2. Others
    BY <1>8 DEF TypeOK, Same, RunnerCleanup
  <2>3. GuardInv(c)' /\ SignalInv(c)'
    BY <1>8 DEF TypeOK, CallInv, GuardInv, SignalInv, OutcomeInv, TaskInv, NotReserved, Undecided,
               RunnerCleanup
  <2>4. OutcomeInv(c)'
    BY <1>8 DEF TypeOK, CallInv, GuardInv, OutcomeInv, TaskInv, NotReserved,
               Undecided, RunnerCleanup
  <2>5. TaskInv(c)'
    BY <1>8 DEF TypeOK, CallInv, TaskInv, SignalInv, OutcomeInv, RunnerCleanup
  <2> QED
    BY <2>1, <2>2, <2>3, <2>4, <2>5 DEF CallInv
<1> QED
  BY <1>1, <1>2, <1>3, <1>4, <1>5, <1>6, <1>7, <1>8 DEF RunnerStep

\* The handler of system.task.cancel (action_server.rs:1232-1298).
LEMMA CancelKeeps ==
    ASSUME TypeOK, NEW c \in Calls, CallInv(c), CancelStep(c)
    PROVE  TypeOK' /\ CallInv(c)' /\ \A d \in Calls \ {c} : Same(d)
<1> USE DEF request, host, signal, context, work, Mode, Terminal
<1> DEFINE Others == \A d \in Calls \ {c} : Same(d)
<1>1. CASE CancelLookup(c)
  <2>1. TypeOK'
    BY <1>1 DEF TypeOK, CallInv, OutcomeInv, CancelLookup
  <2>2. Others
    BY <1>1 DEF TypeOK, Same, CancelLookup
  <2>3. GuardInv(c)' /\ SignalInv(c)'
    BY <1>1 DEF TypeOK, CallInv, GuardInv, SignalInv, OutcomeInv, TaskInv, NotReserved, Undecided,
               CancelLookup
  <2>4. OutcomeInv(c)'
    BY <1>1 DEF TypeOK, CallInv, GuardInv, OutcomeInv, TaskInv, NotReserved,
               Undecided, CancelLookup
  <2>5. TaskInv(c)'
    BY <1>1 DEF TypeOK, CallInv, TaskInv, SignalInv, OutcomeInv, CancelLookup
  <2> QED
    BY <2>1, <2>2, <2>3, <2>4, <2>5 DEF CallInv
<1>2. CASE CancelStore(c)
  <2>1. TypeOK'
    BY <1>2 DEF TypeOK, CallInv, OutcomeInv, CancelStore, Settle
  <2>2. Others
    BY <1>2 DEF TypeOK, Same, CancelStore, Settle
  <2>3. GuardInv(c)' /\ SignalInv(c)'
    BY <1>2 DEF TypeOK, CallInv, GuardInv, SignalInv, OutcomeInv, TaskInv, NotReserved, Undecided,
               CancelStore, Settle
  <2>4. OutcomeInv(c)'
    BY <1>2 DEF TypeOK, CallInv, GuardInv, OutcomeInv, TaskInv, NotReserved,
               Undecided, CancelStore, Settle
  <2>5. TaskInv(c)'
    BY <1>2 DEF TypeOK, CallInv, TaskInv, SignalInv, OutcomeInv, CancelStore, Settle
  <2> QED
    BY <2>1, <2>2, <2>3, <2>4, <2>5 DEF CallInv
<1>3. CASE CancelSignal(c)
  <2>1. TypeOK'
    <3>1. CASE handle[c]
      <4>1. /\ cancelled' = [cancelled EXCEPT ![c] = TRUE]
            /\ firing' = [firing EXCEPT ![c] = IF cancelled[c] THEN @ ELSE "swapped"]
            /\ canceller' = [canceller EXCEPT ![c] = IF cancelled[c] THEN "done" ELSE "firing"]
            /\ UNCHANGED <<mode, key, idem, status, handle, handler, runner, worker,
                           outcome, channel, listener, guard, resv>>
        BY <1>3, <3>1 DEF CancelSignal, Swap, AfterSwap
      <4> QED
        BY <4>1 DEF TypeOK
    <3>2. CASE ~(handle[c])
      <4>1. /\ canceller' = [canceller EXCEPT ![c] = "done"]
            /\ UNCHANGED <<mode, key, idem, status, handle, handler, runner, worker,
                           outcome, channel, cancelled, listener,
                           firing, guard, resv>>
        BY <1>3, <3>2 DEF CancelSignal, Swap, AfterSwap
      <4> QED
        BY <4>1 DEF TypeOK
    <3> QED
      BY <3>1, <3>2
  <2>2. Others
    BY <1>3 DEF TypeOK, Same, CancelSignal, Swap, AfterSwap
  <2>3. GuardInv(c)' /\ SignalInv(c)'
    BY <1>3 DEF TypeOK, CallInv, GuardInv, SignalInv, OutcomeInv, TaskInv, NotReserved, Undecided,
               CancelSignal, Swap, AfterSwap
  <2>4. OutcomeInv(c)'
    BY <1>3 DEF TypeOK, CallInv, GuardInv, OutcomeInv, TaskInv, NotReserved,
               Undecided, CancelSignal, Swap, AfterSwap
  <2>5. TaskInv(c)'
    BY <1>3 DEF TypeOK, CallInv, TaskInv, SignalInv, OutcomeInv, CancelSignal, Swap, AfterSwap
  <2> QED
    BY <2>1, <2>2, <2>3, <2>4, <2>5 DEF CallInv
<1>4. CASE CancelReplies(c)
  <2>1. TypeOK'
    BY <1>4 DEF TypeOK, CallInv, OutcomeInv, CancelReplies
  <2>2. Others
    BY <1>4 DEF TypeOK, Same, CancelReplies
  <2>3. GuardInv(c)' /\ SignalInv(c)'
    BY <1>4 DEF TypeOK, CallInv, GuardInv, SignalInv, OutcomeInv, TaskInv, NotReserved, Undecided,
               CancelReplies
  <2>4. OutcomeInv(c)'
    BY <1>4 DEF TypeOK, CallInv, GuardInv, OutcomeInv, TaskInv, NotReserved,
               Undecided, CancelReplies
  <2>5. TaskInv(c)'
    BY <1>4 DEF TypeOK, CallInv, TaskInv, SignalInv, OutcomeInv, CancelReplies
  <2> QED
    BY <2>1, <2>2, <2>3, <2>4, <2>5 DEF CallInv
<1> QED
  BY <1>1, <1>2, <1>3, <1>4 DEF CancelStep

\* The listeners that the winner of cancel() runs (action_server.rs:187-245).
LEMMA FiringKeeps ==
    ASSUME TypeOK, NEW c \in Calls, CallInv(c), FiringStep(c)
    PROVE  TypeOK' /\ CallInv(c)' /\ \A d \in Calls \ {c} : Same(d)
<1> USE DEF request, host, signal, context, work, Mode, Terminal
<1> DEFINE Others == \A d \in Calls \ {c} : Same(d)
<1>1. CASE TakeListeners(c)
  <2>1. TypeOK'
    BY <1>1 DEF TypeOK, CallInv, OutcomeInv, TakeListeners
  <2>2. Others
    BY <1>1 DEF TypeOK, Same, TakeListeners
  <2>3. GuardInv(c)' /\ SignalInv(c)'
    BY <1>1 DEF TypeOK, CallInv, GuardInv, SignalInv, OutcomeInv, TaskInv, NotReserved, Undecided,
               TakeListeners
  <2>4. OutcomeInv(c)'
    BY <1>1 DEF TypeOK, CallInv, GuardInv, OutcomeInv, TaskInv, NotReserved,
               Undecided, TakeListeners
  <2>5. TaskInv(c)'
    BY <1>1 DEF TypeOK, CallInv, TaskInv, SignalInv, OutcomeInv, TakeListeners
  <2> QED
    BY <2>1, <2>2, <2>3, <2>4, <2>5 DEF CallInv
<1>2. CASE RunListener(c)
  <2>1. TypeOK'
    BY <1>2 DEF TypeOK, CallInv, OutcomeInv, RunListener
  <2>2. Others
    BY <1>2 DEF TypeOK, Same, RunListener
  <2>3. GuardInv(c)' /\ SignalInv(c)'
    BY <1>2 DEF TypeOK, CallInv, GuardInv, SignalInv, OutcomeInv, TaskInv, NotReserved, Undecided,
               RunListener
  <2>4. OutcomeInv(c)'
    BY <1>2 DEF TypeOK, CallInv, GuardInv, OutcomeInv, TaskInv, NotReserved,
               Undecided, RunListener
  <2>5. TaskInv(c)'
    BY <1>2 DEF TypeOK, CallInv, TaskInv, SignalInv, OutcomeInv, RunListener
  <2> QED
    BY <2>1, <2>2, <2>3, <2>4, <2>5 DEF CallInv
<1>3. CASE ListenerAborts(c)
  <2>1. TypeOK'
    BY <1>3 DEF TypeOK, CallInv, OutcomeInv, ListenerAborts
  <2>2. Others
    BY <1>3 DEF TypeOK, Same, ListenerAborts
  <2>3. GuardInv(c)' /\ SignalInv(c)'
    BY <1>3 DEF TypeOK, CallInv, GuardInv, SignalInv, OutcomeInv, TaskInv, NotReserved, Undecided,
               ListenerAborts
  <2>4. OutcomeInv(c)'
    BY <1>3 DEF TypeOK, CallInv, GuardInv, OutcomeInv, TaskInv, NotReserved,
               Undecided, ListenerAborts
  <2>5. TaskInv(c)'
    BY <1>3 DEF TypeOK, CallInv, TaskInv, SignalInv, OutcomeInv, ListenerAborts
  <2> QED
    BY <2>1, <2>2, <2>3, <2>4, <2>5 DEF CallInv
<1> QED
  BY <1>1, <1>2, <1>3 DEF FiringStep

\* The inner provider, which answers, fails or panics
\* (llm_action_server.rs:269-285).
LEMMA InnerKeeps ==
    ASSUME TypeOK, NEW c \in Calls, CallInv(c), InnerStep(c)
    PROVE  TypeOK' /\ CallInv(c)' /\ \A d \in Calls \ {c} : Same(d)
<1> USE DEF request, host, signal, context, work, Mode, Terminal
<1> DEFINE Others == \A d \in Calls \ {c} : Same(d)
<1>1. CASE \E answer \in {"ok", "err"} : InnerReturns(c, answer)
  <2>1. TypeOK'
    BY <1>1 DEF TypeOK, CallInv, OutcomeInv, InnerReturns, Goto
  <2>2. Others
    BY <1>1 DEF TypeOK, Same, InnerReturns, Goto
  <2>3. GuardInv(c)' /\ SignalInv(c)'
    BY <1>1 DEF TypeOK, CallInv, GuardInv, SignalInv, OutcomeInv, TaskInv, NotReserved, Undecided,
               InnerReturns, Goto
  <2>4. OutcomeInv(c)'
    BY <1>1 DEF TypeOK, CallInv, GuardInv, OutcomeInv, TaskInv, NotReserved,
               Undecided, InnerReturns, Goto
  <2>5. TaskInv(c)'
    BY <1>1 DEF TypeOK, CallInv, TaskInv, SignalInv, OutcomeInv, InnerReturns, Goto
  <2> QED
    BY <2>1, <2>2, <2>3, <2>4, <2>5 DEF CallInv
<1>2. CASE InnerPanics(c)
  <2>1. TypeOK'
    BY <1>2 DEF TypeOK, CallInv, OutcomeInv, InnerPanics, Goto
  <2>2. Others
    BY <1>2 DEF TypeOK, Same, InnerPanics, Goto
  <2>3. GuardInv(c)' /\ SignalInv(c)'
    BY <1>2 DEF TypeOK, CallInv, GuardInv, SignalInv, OutcomeInv, TaskInv, NotReserved, Undecided,
               InnerPanics, Goto
  <2>4. OutcomeInv(c)'
    BY <1>2 DEF TypeOK, CallInv, GuardInv, OutcomeInv, TaskInv, NotReserved,
               Undecided, InnerPanics, Goto
  <2>5. TaskInv(c)'
    BY <1>2 DEF TypeOK, CallInv, TaskInv, SignalInv, OutcomeInv, InnerPanics, Goto
  <2> QED
    BY <2>1, <2>2, <2>3, <2>4, <2>5 DEF CallInv
<1> QED
  BY <1>1, <1>2 DEF InnerStep

\* The source of a stream, run by write_stream (llm_action_server.rs:388-541).
LEMMA SourceKeeps ==
    ASSUME TypeOK, NEW c \in Calls, CallInv(c), SourceStep(c)
    PROVE  TypeOK' /\ CallInv(c)' /\ \A d \in Calls \ {c} : Same(d)
<1> USE DEF request, host, signal, context, work, Mode, Terminal
<1> DEFINE Others == \A d \in Calls \ {c} : Same(d)
<1>1. CASE \E verdict \in {"ok", "stopped", "err"} : SourceEnds(c, verdict)
  <2>1. TypeOK'
    BY <1>1 DEF TypeOK, CallInv, OutcomeInv, SourceEnds, Goto
  <2>2. Others
    BY <1>1 DEF TypeOK, Same, SourceEnds, Goto
  <2>3. GuardInv(c)' /\ SignalInv(c)'
    BY <1>1 DEF TypeOK, CallInv, GuardInv, SignalInv, OutcomeInv, TaskInv, NotReserved, Undecided,
               SourceEnds, Goto
  <2>4. OutcomeInv(c)'
    BY <1>1 DEF TypeOK, CallInv, GuardInv, OutcomeInv, TaskInv, NotReserved,
               Undecided, SourceEnds, Goto
  <2>5. TaskInv(c)'
    BY <1>1 DEF TypeOK, CallInv, TaskInv, SignalInv, OutcomeInv, SourceEnds, Goto
  <2> QED
    BY <2>1, <2>2, <2>3, <2>4, <2>5 DEF CallInv
<1>2. CASE SourceDropsError(c)
  <2>1. TypeOK'
    BY <1>2 DEF TypeOK, CallInv, OutcomeInv, SourceDropsError, Goto
  <2>2. Others
    BY <1>2 DEF TypeOK, Same, SourceDropsError, Goto
  <2>3. GuardInv(c)' /\ SignalInv(c)'
    BY <1>2 DEF TypeOK, CallInv, GuardInv, SignalInv, OutcomeInv, TaskInv, NotReserved, Undecided,
               SourceDropsError, Goto
  <2>4. OutcomeInv(c)'
    BY <1>2 DEF TypeOK, CallInv, GuardInv, OutcomeInv, TaskInv, NotReserved,
               Undecided, SourceDropsError, Goto
  <2>5. TaskInv(c)'
    BY <1>2 DEF TypeOK, CallInv, TaskInv, SignalInv, OutcomeInv, SourceDropsError, Goto
  <2> QED
    BY <2>1, <2>2, <2>3, <2>4, <2>5 DEF CallInv
<1>3. CASE SourcePanics(c)
  <2>1. TypeOK'
    BY <1>3 DEF TypeOK, CallInv, OutcomeInv, SourcePanics, Goto
  <2>2. Others
    BY <1>3 DEF TypeOK, Same, SourcePanics, Goto
  <2>3. GuardInv(c)' /\ SignalInv(c)'
    BY <1>3 DEF TypeOK, CallInv, GuardInv, SignalInv, OutcomeInv, TaskInv, NotReserved, Undecided,
               SourcePanics, Goto
  <2>4. OutcomeInv(c)'
    BY <1>3 DEF TypeOK, CallInv, GuardInv, OutcomeInv, TaskInv, NotReserved,
               Undecided, SourcePanics, Goto
  <2>5. TaskInv(c)'
    BY <1>3 DEF TypeOK, CallInv, TaskInv, SignalInv, OutcomeInv, SourcePanics, Goto
  <2> QED
    BY <2>1, <2>2, <2>3, <2>4, <2>5 DEF CallInv
<1> QED
  BY <1>1, <1>2, <1>3 DEF SourceStep

\* The worker with its ReservationGuard (llm_action_server.rs:204-386, 694-757).
LEMMA WorkerKeeps ==
    ASSUME TypeOK, NEW c \in Calls, CallInv(c), WorkerStep(c)
    PROVE  TypeOK' /\ CallInv(c)' /\ \A d \in Calls \ {c} : Same(d)
<1> USE DEF request, host, signal, context, work, Mode, Terminal
<1> DEFINE Others == \A d \in Calls \ {c} : Same(d)
<1>1. CASE Reserve(c)
  <2>1. TypeOK'
    BY <1>1 DEF TypeOK, CallInv, OutcomeInv, Reserve, Goto
  <2>2. Others
    BY <1>1 DEF TypeOK, Same, Reserve, Goto
  <2>3. GuardInv(c)' /\ SignalInv(c)'
    BY <1>1 DEF TypeOK, CallInv, GuardInv, SignalInv, OutcomeInv, TaskInv, NotReserved, Undecided,
               Reserve, Goto
  <2>4. OutcomeInv(c)'
    BY <1>1 DEF TypeOK, CallInv, GuardInv, OutcomeInv, TaskInv, NotReserved,
               Undecided, Reserve, Goto
  <2>5. TaskInv(c)'
    BY <1>1 DEF TypeOK, CallInv, TaskInv, SignalInv, OutcomeInv, Reserve, Goto
  <2> QED
    BY <2>1, <2>2, <2>3, <2>4, <2>5 DEF CallInv
<1>2. CASE ReserveRefused(c)
  <2>1. TypeOK'
    BY <1>2 DEF TypeOK, CallInv, OutcomeInv, ReserveRefused, Goto
  <2>2. Others
    BY <1>2 DEF TypeOK, Same, ReserveRefused, Goto
  <2>3. GuardInv(c)' /\ SignalInv(c)'
    BY <1>2 DEF TypeOK, CallInv, GuardInv, SignalInv, OutcomeInv, TaskInv, NotReserved, Undecided,
               ReserveRefused, Goto
  <2>4. OutcomeInv(c)'
    BY <1>2 DEF TypeOK, CallInv, GuardInv, OutcomeInv, TaskInv, NotReserved,
               Undecided, ReserveRefused, Goto
  <2>5. TaskInv(c)'
    BY <1>2 DEF TypeOK, CallInv, TaskInv, SignalInv, OutcomeInv, ReserveRefused, Goto
  <2> QED
    BY <2>1, <2>2, <2>3, <2>4, <2>5 DEF CallInv
<1>3. CASE Register(c)
  <2>1. TypeOK'
    <3>1. CASE cancelled[c]
      <4>1. /\ guard' = [guard EXCEPT ![c] = "aborted"]
            /\ worker' = [worker EXCEPT ![c] = "registerAbort"]
            /\ UNCHANGED <<mode, key, idem, status, handle, handler, runner,
                           canceller, outcome, channel, cancelled,
                           listener, firing, resv>>
        BY <1>3, <3>1 DEF Register, Goto
      <4> QED
        BY <4>1 DEF TypeOK
    <3>2. CASE ~(cancelled[c])
      <4>1. /\ listener' = [listener EXCEPT ![c] = TRUE]
            /\ worker' = [worker EXCEPT ![c] = "inner"]
            /\ UNCHANGED <<mode, key, idem, status, handle, handler, runner,
                           canceller, outcome, channel, cancelled,
                           firing, guard, resv>>
        BY <1>3, <3>2 DEF Register, Goto
      <4> QED
        BY <4>1 DEF TypeOK
    <3> QED
      BY <3>1, <3>2
  <2>2. Others
    BY <1>3 DEF TypeOK, Same, Register, Goto
  <2>3. GuardInv(c)' /\ SignalInv(c)'
    BY <1>3 DEF TypeOK, CallInv, GuardInv, SignalInv, OutcomeInv, TaskInv, NotReserved, Undecided,
               Register, Goto
  <2>4. OutcomeInv(c)'
    BY <1>3 DEF TypeOK, CallInv, GuardInv, OutcomeInv, TaskInv, NotReserved,
               Undecided, Register, Goto
  <2>5. TaskInv(c)'
    BY <1>3 DEF TypeOK, CallInv, TaskInv, SignalInv, OutcomeInv, Register, Goto
  <2> QED
    BY <2>1, <2>2, <2>3, <2>4, <2>5 DEF CallInv
<1>4. CASE CheckCancelled(c)
  <2>1. TypeOK'
    BY <1>4 DEF TypeOK, CallInv, OutcomeInv, CheckCancelled, Goto
  <2>2. Others
    BY <1>4 DEF TypeOK, Same, CheckCancelled, Goto
  <2>3. GuardInv(c)' /\ SignalInv(c)'
    BY <1>4 DEF TypeOK, CallInv, GuardInv, SignalInv, OutcomeInv, TaskInv, NotReserved, Undecided,
               CheckCancelled, Goto
  <2>4. OutcomeInv(c)'
    BY <1>4 DEF TypeOK, CallInv, GuardInv, OutcomeInv, TaskInv, NotReserved,
               Undecided, CheckCancelled, Goto
  <2>5. TaskInv(c)'
    BY <1>4 DEF TypeOK, CallInv, TaskInv, SignalInv, OutcomeInv, CheckCancelled, Goto
  <2> QED
    BY <2>1, <2>2, <2>3, <2>4, <2>5 DEF CallInv
<1>5. CASE \E verdict \in {"ok", "stopped", "err"} : JudgePayload(c, verdict)
  <2>1. TypeOK'
    BY <1>5 DEF TypeOK, CallInv, OutcomeInv, JudgePayload, Goto
  <2>2. Others
    BY <1>5 DEF TypeOK, Same, JudgePayload, Goto
  <2>3. GuardInv(c)' /\ SignalInv(c)'
    BY <1>5 DEF TypeOK, CallInv, GuardInv, SignalInv, OutcomeInv, TaskInv, NotReserved, Undecided,
               JudgePayload, Goto
  <2>4. OutcomeInv(c)'
    BY <1>5 DEF TypeOK, CallInv, GuardInv, OutcomeInv, TaskInv, NotReserved,
               Undecided, JudgePayload, Goto
  <2>5. TaskInv(c)'
    BY <1>5 DEF TypeOK, CallInv, TaskInv, SignalInv, OutcomeInv, JudgePayload, Goto
  <2> QED
    BY <2>1, <2>2, <2>3, <2>4, <2>5 DEF CallInv
<1>6. CASE GuardCommit(c)
  <2>1. TypeOK'
    <3>1. CASE guard[c] = "active"
      <4>1. /\ guard' = [guard EXCEPT ![c] = "committing"]
            /\ worker' = [worker EXCEPT ![c] = "committing"]
            /\ UNCHANGED <<mode, key, idem, status, handle, handler, runner,
                           canceller, outcome, channel, cancelled,
                           listener, firing, resv>>
        BY <1>6, <3>1 DEF GuardCommit, Goto
      <4> QED
        BY <4>1 DEF TypeOK
    <3>2. CASE ~(guard[c] = "active")
      <4>1. /\ outcome' = [outcome EXCEPT ![c] = "err"]
            /\ worker' = [worker EXCEPT ![c] = "send"]
            /\ UNCHANGED <<mode, key, idem, status, handle, handler, runner,
                           canceller, channel, cancelled, listener,
                           firing, guard, resv>>
        BY <1>6, <3>2 DEF GuardCommit, Goto
      <4> QED
        BY <4>1 DEF TypeOK
    <3> QED
      BY <3>1, <3>2
  <2>2. Others
    BY <1>6 DEF TypeOK, Same, GuardCommit, Goto
  <2>3. GuardInv(c)' /\ SignalInv(c)'
    BY <1>6 DEF TypeOK, CallInv, GuardInv, SignalInv, OutcomeInv, TaskInv, NotReserved, Undecided,
               GuardCommit, Goto
  <2>4. OutcomeInv(c)'
    BY <1>6 DEF TypeOK, CallInv, GuardInv, OutcomeInv, TaskInv, NotReserved,
               Undecided, GuardCommit, Goto
  <2>5. TaskInv(c)'
    BY <1>6 DEF TypeOK, CallInv, TaskInv, SignalInv, OutcomeInv, GuardCommit, Goto
  <2> QED
    BY <2>1, <2>2, <2>3, <2>4, <2>5 DEF CallInv
<1>7. CASE StoreCommits(c)
  <2>1. TypeOK'
    BY <1>7 DEF TypeOK, CallInv, OutcomeInv, StoreCommits, Goto
  <2>2. Others
    BY <1>7 DEF TypeOK, Same, StoreCommits, Goto
  <2>3. GuardInv(c)' /\ SignalInv(c)'
    BY <1>7 DEF TypeOK, CallInv, GuardInv, SignalInv, OutcomeInv, TaskInv, NotReserved, Undecided,
               StoreCommits, Goto
  <2>4. OutcomeInv(c)'
    BY <1>7 DEF TypeOK, CallInv, GuardInv, OutcomeInv, TaskInv, NotReserved,
               Undecided, StoreCommits, Goto
  <2>5. TaskInv(c)'
    BY <1>7 DEF TypeOK, CallInv, TaskInv, SignalInv, OutcomeInv, StoreCommits, Goto
  <2> QED
    BY <2>1, <2>2, <2>3, <2>4, <2>5 DEF CallInv
<1>8. CASE StoreCommitFails(c)
  <2>1. TypeOK'
    BY <1>8 DEF TypeOK, CallInv, OutcomeInv, StoreCommitFails, Goto
  <2>2. Others
    BY <1>8 DEF TypeOK, Same, StoreCommitFails, Goto
  <2>3. GuardInv(c)' /\ SignalInv(c)'
    BY <1>8 DEF TypeOK, CallInv, GuardInv, SignalInv, OutcomeInv, TaskInv, NotReserved, Undecided,
               StoreCommitFails, Goto
  <2>4. OutcomeInv(c)'
    BY <1>8 DEF TypeOK, CallInv, GuardInv, OutcomeInv, TaskInv, NotReserved,
               Undecided, StoreCommitFails, Goto
  <2>5. TaskInv(c)'
    BY <1>8 DEF TypeOK, CallInv, TaskInv, SignalInv, OutcomeInv, StoreCommitFails, Goto
  <2> QED
    BY <2>1, <2>2, <2>3, <2>4, <2>5 DEF CallInv
<1>9. CASE OfferStream(c)
  <2>1. TypeOK'
    BY <1>9 DEF TypeOK, CallInv, OutcomeInv, OfferStream, Goto
  <2>2. Others
    BY <1>9 DEF TypeOK, Same, OfferStream, Goto
  <2>3. GuardInv(c)' /\ SignalInv(c)'
    BY <1>9 DEF TypeOK, CallInv, GuardInv, SignalInv, OutcomeInv, TaskInv, NotReserved, Undecided,
               OfferStream, Goto
  <2>4. OutcomeInv(c)'
    BY <1>9 DEF TypeOK, CallInv, GuardInv, OutcomeInv, TaskInv, NotReserved,
               Undecided, OfferStream, Goto
  <2>5. TaskInv(c)'
    BY <1>9 DEF TypeOK, CallInv, TaskInv, SignalInv, OutcomeInv, OfferStream, Goto
  <2> QED
    BY <2>1, <2>2, <2>3, <2>4, <2>5 DEF CallInv
<1>10. CASE NoStream(c)
  <2>1. TypeOK'
    BY <1>10 DEF TypeOK, CallInv, OutcomeInv, NoStream, Goto
  <2>2. Others
    BY <1>10 DEF TypeOK, Same, NoStream, Goto
  <2>3. GuardInv(c)' /\ SignalInv(c)'
    BY <1>10 DEF TypeOK, CallInv, GuardInv, SignalInv, OutcomeInv, TaskInv, NotReserved, Undecided,
               NoStream, Goto
  <2>4. OutcomeInv(c)'
    BY <1>10 DEF TypeOK, CallInv, GuardInv, OutcomeInv, TaskInv, NotReserved,
               Undecided, NoStream, Goto
  <2>5. TaskInv(c)'
    BY <1>10 DEF TypeOK, CallInv, TaskInv, SignalInv, OutcomeInv, NoStream, Goto
  <2> QED
    BY <2>1, <2>2, <2>3, <2>4, <2>5 DEF CallInv
<1>11. CASE GuardAbort(c)
  <2>1. TypeOK'
    BY <1>11 DEF TypeOK, CallInv, OutcomeInv, GuardAbort, Goto
  <2>2. Others
    BY <1>11 DEF TypeOK, Same, GuardAbort, Goto
  <2>3. GuardInv(c)' /\ SignalInv(c)'
    BY <1>11 DEF TypeOK, CallInv, GuardInv, SignalInv, OutcomeInv, TaskInv, NotReserved, Undecided,
               GuardAbort, Goto
  <2>4. OutcomeInv(c)'
    BY <1>11 DEF TypeOK, CallInv, GuardInv, OutcomeInv, TaskInv, NotReserved,
               Undecided, GuardAbort, Goto
  <2>5. TaskInv(c)'
    BY <1>11 DEF TypeOK, CallInv, TaskInv, SignalInv, OutcomeInv, GuardAbort, Goto
  <2> QED
    BY <2>1, <2>2, <2>3, <2>4, <2>5 DEF CallInv
<1>12. CASE StoreAborts(c)
  <2>1. TypeOK'
    BY <1>12 DEF TypeOK, CallInv, OutcomeInv, StoreAborts, Goto
  <2>2. Others
    BY <1>12 DEF TypeOK, Same, StoreAborts, Goto
  <2>3. GuardInv(c)' /\ SignalInv(c)'
    BY <1>12 DEF TypeOK, CallInv, GuardInv, SignalInv, OutcomeInv, TaskInv, NotReserved, Undecided,
               StoreAborts, Goto
  <2>4. OutcomeInv(c)'
    BY <1>12 DEF TypeOK, CallInv, GuardInv, OutcomeInv, TaskInv, NotReserved,
               Undecided, StoreAborts, Goto
  <2>5. TaskInv(c)'
    BY <1>12 DEF TypeOK, CallInv, TaskInv, SignalInv, OutcomeInv, StoreAborts, Goto
  <2> QED
    BY <2>1, <2>2, <2>3, <2>4, <2>5 DEF CallInv
<1>13. CASE Send(c)
  <2>1. TypeOK'
    BY <1>13 DEF TypeOK, CallInv, OutcomeInv, Send, Goto
  <2>2. Others
    BY <1>13 DEF TypeOK, Same, Send, Goto
  <2>3. GuardInv(c)' /\ SignalInv(c)'
    BY <1>13 DEF TypeOK, CallInv, GuardInv, SignalInv, OutcomeInv, TaskInv, NotReserved, Undecided,
               Send, Goto
  <2>4. OutcomeInv(c)'
    BY <1>13 DEF TypeOK, CallInv, GuardInv, OutcomeInv, TaskInv, NotReserved,
               Undecided, Send, Goto
  <2>5. TaskInv(c)'
    BY <1>13 DEF TypeOK, CallInv, TaskInv, SignalInv, OutcomeInv, Send, Goto
  <2> QED
    BY <2>1, <2>2, <2>3, <2>4, <2>5 DEF CallInv
<1>14. CASE \E failure \in BOOLEAN : StreamCloses(c, failure)
  <2>1. TypeOK'
    BY <1>14 DEF TypeOK, CallInv, OutcomeInv, StreamCloses, Goto
  <2>2. Others
    BY <1>14 DEF TypeOK, Same, StreamCloses, Goto
  <2>3. GuardInv(c)' /\ SignalInv(c)'
    BY <1>14 DEF TypeOK, CallInv, GuardInv, SignalInv, OutcomeInv, TaskInv, NotReserved, Undecided,
               StreamCloses, Goto
  <2>4. OutcomeInv(c)'
    BY <1>14 DEF TypeOK, CallInv, GuardInv, OutcomeInv, TaskInv, NotReserved,
               Undecided, StreamCloses, Goto
  <2>5. TaskInv(c)'
    BY <1>14 DEF TypeOK, CallInv, TaskInv, SignalInv, OutcomeInv, StreamCloses, Goto
  <2> QED
    BY <2>1, <2>2, <2>3, <2>4, <2>5 DEF CallInv
<1> QED
  BY <1>1, <1>2, <1>3, <1>4, <1>5, <1>6, <1>7, <1>8, <1>9, <1>10, <1>11, <1>12, <1>13, <1>14 DEF WorkerStep

-----------------------------------------------------------------------------
(* The theorems.                                                            *)

\* The initial state satisfies the invariant: no thread has started.
LEMMA IndInvInit == Init => IndInv
<1> SUFFICES ASSUME Init PROVE IndInv
  OBVIOUS
<1>1. TypeOK
  BY DEF Init, TypeOK, Mode, Terminal
<1>2. \A c \in Calls : GuardInv(c) /\ SignalInv(c)
  BY DEF Init, GuardInv, SignalInv, NotReserved, Undecided
<1>3. \A c \in Calls : OutcomeInv(c) /\ TaskInv(c)
  BY DEF Init, OutcomeInv, TaskInv, Terminal
<1> QED
  BY <1>1, <1>2, <1>3 DEF IndInv, CallInv

\* Every step keeps the invariant, whichever thread of whichever call takes it.
LEMMA IndInvStep == IndInv /\ [Next]_vars => IndInv'
<1> SUFFICES ASSUME IndInv, [Next]_vars PROVE IndInv'
  OBVIOUS
<1>1. ASSUME NEW c \in Calls, CallStep(c)
      PROVE  IndInv'
  <2>1. TypeOK /\ CallInv(c)
    BY DEF IndInv
  <2>2. TypeOK' /\ CallInv(c)' /\ \A d \in Calls \ {c} : Same(d)
    BY <1>1, <2>1, HandlerKeeps, RunnerKeeps, CancelKeeps, FiringKeeps, InnerKeeps,
       SourceKeeps, WorkerKeeps DEF CallStep
  <2>3. \A d \in Calls \ {c} : CallInv(d)'
    BY <2>2, SameKeeps DEF IndInv
  <2> QED
    BY <2>2, <2>3 DEF IndInv
<1>2. ASSUME NEW k \in Keys, ExpireKey(k)
      PROVE  IndInv'
  <2> USE DEF request, signal, context, work
  <2>1. TypeOK'
    BY <1>2 DEF ExpireKey, IndInv, TypeOK
  <2>2. \A d \in Calls : Same(d)
    BY <1>2 DEF ExpireKey, Same
  <2> QED
    BY <2>1, <2>2, SameKeeps DEF IndInv
<1>3. CASE UNCHANGED vars
  <2>1. TypeOK' /\ \A d \in Calls : Same(d)
    BY <1>3 DEF vars, IndInv, TypeOK, Same
  <2> QED
    BY <2>1, SameKeeps DEF IndInv
<1> QED
  BY <1>1, <1>2, <1>3 DEF Next, CallStep

\* The invariant holds in every reachable state.
THEOREM Inductive == Spec => []IndInv
  BY IndInvInit, IndInvStep, PTL DEF Spec

\* Every thread stays at a point of its code and every shared variable keeps a
\* value the code can give it, for any number of calls and keys.
THEOREM TypeCorrect == Spec => []TypeOK
<1>1. IndInv => TypeOK
  BY DEF IndInv
<1> QED
  BY <1>1, Inductive, PTL

\* A reservation is settled once, by whoever won the ReservationGuard, and a
\* completed task or a cached answer carries a receipt exactly when that was
\* the commit (llm_action_server.rs:694-757; action_server.rs:1034-1146).
THEOREM GuardDecidesHolds == Spec => []GuardDecides
<1>1. IndInv => GuardDecides
  <2> SUFFICES ASSUME IndInv, NEW c \in Calls
               PROVE  GuardDecides!(c)
    BY DEF GuardDecides
  <2>1. GuardInv(c) /\ OutcomeInv(c) /\ TaskInv(c) /\ TypeOK
    BY DEF IndInv, CallInv
  <2> QED
    BY <2>1 DEF GuardInv, OutcomeInv, TaskInv, TypeOK, GuardDecides
<1> QED
  BY <1>1, Inductive, PTL

\* When the runner of an async task is gone, the task is terminal and its
\* cancellation handle is removed, on every way out (action_server.rs:1091-1163).
THEOREM RunnerLeavesNothingHolds == Spec => []RunnerLeavesNothing
<1>1. IndInv => RunnerLeavesNothing
  BY DEF IndInv, CallInv, TaskInv, RunnerLeavesNothing
<1> QED
  BY <1>1, Inductive, PTL

\* The four steps that write a task's status, all of its own call.
LEMMA StatusWriters ==
    ASSUME TypeOK, [Next]_vars, NEW c \in Calls, status'[c] # status[c]
    PROVE  CreateTask(c) \/ RunnerStarts(c) \/ RunnerSettles(c) \/ CancelStore(c)
<1> USE DEF host
<1>1. ~UNCHANGED vars /\ ~UNCHANGED status
  BY DEF vars
<1>2. ~\E k \in Keys : ExpireKey(k)
  BY <1>1 DEF ExpireKey
<1>3. PICK d \in Calls : CallStep(d)
  BY <1>1, <1>2 DEF Next, CallStep
<1>4. HandlerStep(d) => CreateTask(d)
  BY <1>1 DEF HandlerStep, Lookup, StoreKey, InsertHandle, SpawnRunner, SyncReceive,
              WriteStream, StreamWritten, SyncCache, SyncGivesUp, SyncReplies
<1>5. RunnerStep(d) => RunnerStarts(d) \/ RunnerSettles(d)
  BY <1>1 DEF RunnerStep, RunnerSeesCancel, RunnerDeadline, RunnerDeadlineFired,
              RunnerReceives, RunnerDisconnected, RunnerCleanup
<1>6. CancelStep(d) => CancelStore(d)
  BY <1>1 DEF CancelStep, CancelLookup, CancelSignal, CancelReplies
<1>7. ~InnerStep(d) /\ ~SourceStep(d) /\ ~FiringStep(d)
  BY <1>1 DEF InnerStep, InnerReturns, InnerPanics, SourceStep, SourceEnds,
              SourceDropsError, SourcePanics, FiringStep, TakeListeners, RunListener,
              ListenerAborts
<1>8. ~WorkerStep(d)
  BY <1>1 DEF WorkerStep, Reserve, ReserveRefused, Register, CheckCancelled, JudgePayload,
              GuardCommit, StoreCommits, StoreCommitFails, OfferStream, NoStream,
              GuardAbort, StoreAborts, Send, StreamCloses
<1>9. CreateTask(d) \/ RunnerStarts(d) \/ RunnerSettles(d) \/ CancelStore(d)
  BY <1>3, <1>4, <1>5, <1>6, <1>7, <1>8 DEF CallStep
<1>10. d # c => status'[c] = status[c]
  BY <1>9 DEF CreateTask, RunnerStarts, RunnerSettles, CancelStore, Settle, TypeOK
<1> QED
  BY <1>9, <1>10

\* A terminal status is never overwritten: not by a runner that finishes after
\* a cancel request, not by a cancel request that arrives after the runner, and
\* not by the creation of the task, which always finds its record absent
\* (action_server.rs:424-466).
THEOREM TerminalFinalHolds == Spec => TerminalFinal
<1>1. ASSUME IndInv, [Next]_vars, NEW c \in Calls, status[c] \in Terminal,
             status'[c] # status[c]
      PROVE  FALSE
  <2>1. TypeOK /\ TaskInv(c)
    BY <1>1 DEF IndInv, CallInv
  <2>2. CreateTask(c) \/ RunnerStarts(c) \/ RunnerSettles(c) \/ CancelStore(c)
    BY <1>1, <2>1, StatusWriters
  <2>3. ~CreateTask(c)
    BY <1>1, <2>1 DEF CreateTask, TaskInv, Terminal
  <2>4. ~RunnerStarts(c)
    BY <1>1 DEF RunnerStarts, Terminal
  <2> QED
    BY <1>1, <2>1, <2>2, <2>3, <2>4 DEF RunnerSettles, CancelStore, Settle, TypeOK
<1>2. IndInv /\ [Next]_vars =>
        [\A c \in Calls : status[c] \in Terminal => status'[c] = status[c]]_vars
  BY <1>1
<1> QED
  BY <1>2, Inductive, PTL DEF Spec, TerminalFinal

\* The seven steps that write a ReservationGuard, all of its own call.
LEMMA GuardWriters ==
    ASSUME TypeOK, [Next]_vars, NEW c \in Calls, guard'[c] # guard[c]
    PROVE  \/ RunListener(c) \/ Reserve(c) \/ Register(c) \/ GuardCommit(c)
           \/ StoreCommits(c) \/ StoreCommitFails(c) \/ GuardAbort(c)
<1> USE DEF context
<1>1. ~UNCHANGED vars /\ ~UNCHANGED guard
  BY DEF vars
<1>2. ~\E k \in Keys : ExpireKey(k)
  BY <1>1 DEF ExpireKey
<1>3. PICK d \in Calls : CallStep(d)
  BY <1>1, <1>2 DEF Next, CallStep
<1>4. ~HandlerStep(d)
  BY <1>1 DEF HandlerStep, Lookup, CreateTask, StoreKey, InsertHandle, SpawnRunner,
              SyncReceive, WriteStream, StreamWritten, SyncCache, SyncGivesUp, SyncReplies
<1>5. ~RunnerStep(d)
  BY <1>1 DEF RunnerStep, RunnerStarts, RunnerSeesCancel, RunnerDeadline,
              RunnerDeadlineFired, RunnerReceives, RunnerDisconnected, RunnerSettles,
              RunnerCleanup
<1>6. ~CancelStep(d) /\ ~InnerStep(d) /\ ~SourceStep(d)
  BY <1>1 DEF CancelStep, CancelLookup, CancelStore, CancelSignal, CancelReplies,
              InnerStep, InnerReturns, InnerPanics, SourceStep, SourceEnds,
              SourceDropsError, SourcePanics
<1>7. \/ RunListener(d) \/ Reserve(d) \/ Register(d) \/ GuardCommit(d)
      \/ StoreCommits(d) \/ StoreCommitFails(d) \/ GuardAbort(d)
  BY <1>1, <1>3, <1>4, <1>5, <1>6
  DEF CallStep, FiringStep, TakeListeners, ListenerAborts, WorkerStep, ReserveRefused,
      CheckCancelled, JudgePayload, OfferStream, NoStream, StoreAborts, Send, StreamCloses
<1>8. d # c => guard'[c] = guard[c]
  BY <1>7 DEF RunListener, Reserve, Register, GuardCommit, StoreCommits,
              StoreCommitFails, GuardAbort, TypeOK
<1> QED
  BY <1>7, <1>8

\* Once cancel() has returned, nothing commits the reservation that was not
\* already being committed: commit needs an active guard, and a guard that is
\* still active then belongs to a worker that has not registered its abort yet
\* and will find the call cancelled (llm_action_server.rs:286-289, 362-365, 736-752).
THEOREM NoCommitAfterCancelHolds == Spec => NoCommitAfterCancel
<1>1. ASSUME IndInv, [Next]_vars, NEW c \in Calls, firing[c] = "fired",
             guard[c] \notin {"committing", "committed"}
      PROVE  guard'[c] \notin {"committing", "committed"}
  <2> USE DEF request, host, signal, context, work
  <2>1. TypeOK /\ GuardInv(c) /\ SignalInv(c)
    BY <1>1 DEF IndInv, CallInv
  <2>2. CASE guard'[c] = guard[c]
    BY <1>1, <2>2
  <2>3. CASE guard'[c] # guard[c]
    <3>1. \/ RunListener(c) \/ Reserve(c) \/ Register(c) \/ GuardCommit(c)
          \/ StoreCommits(c) \/ StoreCommitFails(c) \/ GuardAbort(c)
      BY <1>1, <2>1, <2>3, GuardWriters
    <3>2. ~GuardCommit(c)
      BY <1>1, <2>1, <2>3 DEF GuardCommit, SignalInv, TypeOK
    <3>3. ~StoreCommits(c)
      BY <1>1, <2>1 DEF StoreCommits, GuardInv
    <3> QED
      BY <1>1, <2>1, <3>1, <3>2, <3>3
      DEF RunListener, Reserve, Register, StoreCommitFails, GuardAbort, TypeOK
  <2> QED
    BY <2>2, <2>3
<1>2. IndInv /\ [Next]_vars =>
        [\A c \in Calls :
            (firing[c] = "fired" /\ guard[c] \notin {"committing", "committed"}) =>
                guard'[c] \notin {"committing", "committed"}]_vars
  BY <1>1
<1> QED
  BY <1>2, Inductive, PTL DEF Spec, NoCommitAfterCancel
============================================================================
