-------------------- MODULE CheckoutStateMachineProofs --------------------
(***************************************************************************)
(* Proofs about CheckoutStateMachine, for every number of quotes, carts,   *)
(* users, keys and request threads: its types; what its locks, bindings    *)
(* and answers guarantee; what the transition table guarantees although    *)
(* rows are read without a lock and locks can be lost; and that the        *)
(* handlers implement QuoteLifecycle as long as no key is past its 24      *)
(* hours.                                                                  *)
(***************************************************************************)
EXTENDS CheckoutStateMachine, FiniteSetTheorems, TLAPS

-----------------------------------------------------------------------------
(* The inductive invariant of type correctness                             *)

\* The places of a transition() request, and those where it has a key.
TransitionPlaces == {"gate", "purge", "reload", "decide", "advance",
                     "refresh", "summary", "lookup", "insert", "overwrite"}

KeyPlaces == {"gate", "purge", "lookup", "insert", "overwrite"}

\* Which request a worker has at each place, and what it has decided there.
Control(w) ==
    /\ pc[w] # "idle" => req[w] \in Requests
    /\ pc[w] \in TransitionPlaces => req[w].op = "transition"
    /\ pc[w] \in KeyPlaces => req[w].key # None
    /\ pc[w] \in {"advance", "refuse", "order"} => plan[w] \in Statuses

\* The threads and the row locks they hold.
ThreadsOK ==
    /\ lock \in [Sessions -> Workers \union {None}]
    /\ pc \in [Workers -> Places]
    /\ req \in [Workers -> Requests \union {None}]
    /\ seen \in [Workers -> [status : Statuses \union {None}, version : Nat]]
    /\ plan \in [Workers -> Statuses \union {None}]
    /\ out \in [Workers -> Outcomes \union {None}]
    /\ \A w \in Workers : Control(w)

\* The database, the world and the history.
DataOK ==
    /\ status \in [Sessions -> Statuses]
    /\ version \in [Sessions -> Nat]
    /\ cartStatus \in [Carts -> {"ACTIVE", "CHECKED_OUT"}]
    /\ orders \in [Sessions -> Nat]
    /\ idem \in [Keys \X Actions -> Records]
    /\ late \in [Sessions -> BOOLEAN]
    /\ drifted \in [Sessions -> BOOLEAN]
    /\ visited \in [Sessions -> SUBSET Statuses]
    /\ effects \subseteq Sessions \X Actions \X (Keys \union {None})

ControlInv == ThreadsOK /\ DataOK

-----------------------------------------------------------------------------
(* Requests and the table                                                  *)

\* What a request carries, whichever kind it is.
LEMMA RequestFields ==
    ASSUME NEW r \in Requests
    PROVE  /\ r.op \in {"transition", "get", "order"}
           /\ r.session \in Sessions
           /\ r.key \in Keys \union {None}
           /\ r.caller \in Users \union {None}
           /\ r.quote \in Sessions \union {None}
           /\ r.op = "transition" => r.action \in Actions
           /\ r.op # "transition" => r.key = None
  BY ConstantsAssumption
     DEF Requests, TransitionRequests, GetRequests, OrderRequests

\* Where the table leads is a status.
LEMMA TargetsAreStatuses == \A a \in Actions : TargetOf(a) \in Statuses
  BY DEF Actions, TargetOf, Statuses

\* The user an idempotency record belongs to.
LEMMA EffectiveUserType ==
    ASSUME NEW r \in Requests
    PROVE  EffectiveUser(r) \in Users \union {None}
  BY RequestFields, ConstantsAssumption DEF EffectiveUser

-----------------------------------------------------------------------------
(* What the building blocks of the handlers preserve                       *)

\* Ending a request leaves the threads in order.
LEMMA FinishKeepsThreads ==
    ASSUME ThreadsOK, NEW w \in Workers, NEW o \in Outcomes, Finish(w, o),
           pc[w] # "idle"
    PROVE  ThreadsOK'
  <1> USE DEF ThreadsOK, Finish, GoTo, ReleaseLocks
  <1>1. /\ lock' \in [Sessions -> Workers \union {None}]
        /\ pc' \in [Workers -> Places]
        /\ req' \in [Workers -> Requests \union {None}]
        /\ seen' \in [Workers -> [status : Statuses \union {None}, version : Nat]]
        /\ plan' \in [Workers -> Statuses \union {None}]
        /\ out' \in [Workers -> Outcomes \union {None}]
    BY DEF Places, Unloaded
  <1>2. ASSUME NEW v \in Workers PROVE Control(v)'
    <2>1. CASE v = w
      BY <2>1 DEF Control, TransitionPlaces, KeyPlaces, Places
    <2>2. CASE v # w
      BY <2>2 DEF Control
    <2>3. QED
      BY <2>1, <2>2
  <1>3. QED
    BY <1>1, <1>2

\* Going from one place to the next leaves the threads in order, if the place
\* suits the request and the decision that were made.
LEMMA GoToKeepsThreads ==
    ASSUME ThreadsOK, NEW w \in Workers, NEW p \in Places, GoTo(w, p),
           pc[w] # "idle", UNCHANGED <<req, out>>,
           lock' \in [Sessions -> Workers \union {None}],
           seen' \in [Workers -> [status : Statuses \union {None}, version : Nat]],
           plan' \in [Workers -> Statuses \union {None}],
           \A v \in Workers : v # w => plan'[v] = plan[v],
           p \in TransitionPlaces => req[w].op = "transition",
           p \in KeyPlaces => req[w].key # None,
           p \in {"advance", "refuse", "order"} => plan'[w] \in Statuses
    PROVE  ThreadsOK'
  <1> USE DEF ThreadsOK, GoTo
  <1>1. pc' \in [Workers -> Places]
    OBVIOUS
  <1>2. ASSUME NEW v \in Workers PROVE Control(v)'
    <2>1. CASE v = w
      BY <2>1 DEF Control
    <2>2. CASE v # w
      BY <2>2 DEF Control
    <2>3. QED
      BY <2>1, <2>2
  <1>3. QED
    BY <1>1, <1>2

\* Commit and rollback keep the locks well formed.
LEMMA ReleaseKeepsLocks ==
    ASSUME ThreadsOK, NEW w \in Workers, ReleaseLocks(w)
    PROVE  lock' \in [Sessions -> Workers \union {None}]
  BY DEF ThreadsOK, ReleaseLocks

\* The row is loaded with the types it has.
LEMMA LoadKeepsSeen ==
    ASSUME ThreadsOK, DataOK, NEW w \in Workers, NEW s \in Sessions, Load(w, s)
    PROVE  seen' \in [Workers -> [status : Statuses \union {None}, version : Nat]]
  BY DEF ThreadsOK, DataOK, Load

\* Writing a status leaves the two variables it touches well formed.
LEMMA SetStatusKeepsTypes ==
    ASSUME DataOK, NEW s \in Sessions, NEW st \in Statuses, SetStatus(s, st)
    PROVE  /\ status' \in [Sessions -> Statuses]
           /\ visited' \in [Sessions -> SUBSET Statuses]
  BY DEF DataOK, SetStatus

-----------------------------------------------------------------------------
(* Type correctness, action by action                                      *)

LEMMA ControlInit == Init => ControlInv
  <1> SUFFICES ASSUME Init PROVE ControlInv
    OBVIOUS
  <1>1. ThreadsOK
    BY DEF Init, ThreadsOK, Control, TransitionPlaces, KeyPlaces, Unloaded,
           Places
  <1>2. DataOK
    BY ConstantsAssumption
       DEF Init, DataOK, Statuses, StaleRecord, NoRecord, Records
  <1>3. QED
    BY <1>1, <1>2 DEF ControlInv

LEMMA LockRowControl ==
    ASSUME ControlInv, NEW w \in Workers, LockRow(w)
    PROVE  ControlInv'
  <1> USE DEF LockRow
  <1>1. ThreadsOK /\ DataOK /\ pc[w] # "idle" /\ req[w] \in Requests
    BY DEF ControlInv, ThreadsOK, Control
  <1>2. ThreadsOK'
    <2>1. CASE Finish(w, "denied")
      BY <1>1, <2>1, FinishKeepsThreads DEF Outcomes
    <2>2. CASE ~Finish(w, "denied")
      <3>1. PICK p \in {"decide", "gate"} :
               /\ GoTo(w, p) /\ Load(w, req[w].session)
               /\ p = "gate" => req[w].key # None
               /\ lock' = [lock EXCEPT ![req[w].session] = w]
               /\ UNCHANGED <<req, plan, out>>
        BY <2>2
      <3>2. seen' \in [Workers -> [status : Statuses \union {None}, version : Nat]]
        BY <1>1, <3>1, RequestFields, LoadKeepsSeen
      <3>3. lock' \in [Sessions -> Workers \union {None}]
        BY <1>1, <3>1 DEF ThreadsOK
      <3>4. QED
        BY <1>1, <3>1, <3>2, <3>3, GoToKeepsThreads
           DEF Places, TransitionPlaces, KeyPlaces, ThreadsOK
    <2>3. QED
      BY <2>1, <2>2
  <1>3. DataOK'
    BY <1>1 DEF DataOK, world, hist
  <1>4. QED
    BY <1>2, <1>3 DEF ControlInv

LEMMA CheckIdempotencyControl ==
    ASSUME ControlInv, NEW w \in Workers, CheckIdempotency(w)
    PROVE  ControlInv'
  <1> USE DEF CheckIdempotency
  <1>1. ThreadsOK /\ DataOK /\ pc[w] # "idle" /\ req[w] \in Requests
    BY DEF ControlInv, ThreadsOK, Control
  <1>2. ThreadsOK'
    <2>1. CASE \E o \in {"conflict", "denied", "replayed"} : Finish(w, o)
      BY <1>1, <2>1, FinishKeepsThreads DEF Outcomes
    <2>2. CASE \E p \in {"decide", "purge"} :
                 GoTo(w, p) /\ UNCHANGED <<lock, req, seen, plan, out>>
      BY <1>1, <2>2, GoToKeepsThreads DEF Control, Places, TransitionPlaces, KeyPlaces, ThreadsOK
    <2>3. QED
      BY <2>1, <2>2
  <1>3. DataOK'
    BY <1>1 DEF DataOK, world, hist
  <1>4. QED
    BY <1>2, <1>3 DEF ControlInv

LEMMA PurgeRecordControl ==
    ASSUME ControlInv, NEW w \in Workers, PurgeRecord(w)
    PROVE  ControlInv'
  <1> USE DEF PurgeRecord
  <1>1. ThreadsOK /\ DataOK /\ pc[w] # "idle" /\ req[w] \in Requests
    BY DEF ControlInv, ThreadsOK, Control
  <1>2. ThreadsOK'
    BY <1>1, ReleaseKeepsLocks, GoToKeepsThreads DEF Control, Places, TransitionPlaces, KeyPlaces, ThreadsOK
  <1>3. DataOK'
    <2>1. RecordOf(req[w]) \in Keys \X Actions
      BY <1>1, RequestFields
         DEF ThreadsOK, Control, KeyPlaces, TransitionPlaces, RecordOf
    <2>2. idem' \in [Keys \X Actions -> Records]
      BY <1>1, <2>1 DEF DataOK, Records, NoRecord
    <2>3. QED
      BY <1>1, <2>2 DEF DataOK, world, hist
  <1>4. QED
    BY <1>2, <1>3 DEF ControlInv

LEMMA ReloadRowControl ==
    ASSUME ControlInv, NEW w \in Workers, ReloadRow(w)
    PROVE  ControlInv'
  <1> USE DEF ReloadRow
  <1>1. ThreadsOK /\ DataOK /\ pc[w] # "idle" /\ req[w] \in Requests
    BY DEF ControlInv, ThreadsOK, Control
  <1>2. ThreadsOK'
    BY <1>1, RequestFields, LoadKeepsSeen, GoToKeepsThreads
       DEF Control, db, Places, TransitionPlaces, KeyPlaces, ThreadsOK
  <1>3. DataOK'
    BY <1>1 DEF DataOK, db, world, hist
  <1>4. QED
    BY <1>2, <1>3 DEF ControlInv

LEMMA DecideControl ==
    ASSUME ControlInv, NEW w \in Workers, Decide(w)
    PROVE  ControlInv'
  <1> USE DEF Decide
  <1>1. ThreadsOK /\ DataOK /\ pc[w] # "idle" /\ req[w] \in Requests
    BY DEF ControlInv, ThreadsOK, Control
  <1>2. ThreadsOK'
    <2>1. CASE Finish(w, "rejected")
      BY <1>1, <2>1, FinishKeepsThreads DEF Outcomes
    <2>2. CASE ~Finish(w, "rejected")
      <3>1. PICK p \in {"refuse", "summary", "advance"},
                 st \in {"EXPIRED", "INVALID", TargetOf(req[w].action)} :
               /\ plan' = [plan EXCEPT ![w] = st]
               /\ GoTo(w, p)
               /\ UNCHANGED <<lock, req, seen, out>>
        BY <2>2
      <3>2. req[w].op = "transition" /\ st \in Statuses
        BY <1>1, RequestFields, TargetsAreStatuses
           DEF ThreadsOK, Control, TransitionPlaces, Statuses
      <3>3. QED
        BY <1>1, <3>1, <3>2, GoToKeepsThreads DEF Places, TransitionPlaces, KeyPlaces, ThreadsOK
    <2>3. QED
      BY <2>1, <2>2
  <1>3. DataOK'
    BY <1>1 DEF DataOK, world, hist
  <1>4. QED
    BY <1>2, <1>3 DEF ControlInv

LEMMA RefuseControl ==
    ASSUME ControlInv, NEW w \in Workers, Refuse(w)
    PROVE  ControlInv'
  <1> USE DEF Refuse
  <1>1. ThreadsOK /\ DataOK /\ pc[w] # "idle" /\ req[w] \in Requests
    BY DEF ControlInv, ThreadsOK, Control
  <1>2. ThreadsOK'
    BY <1>1, FinishKeepsThreads DEF Outcomes
  <1>3. DataOK'
    <2>1. plan[w] \in Statuses /\ req[w].session \in Sessions
      BY <1>1, RequestFields DEF ThreadsOK, Control
    <2>2. QED
      BY <1>1, <2>1, SetStatusKeepsTypes DEF DataOK, world
  <1>4. QED
    BY <1>2, <1>3 DEF ControlInv

LEMMA CommitTransitionControl ==
    ASSUME ControlInv, NEW w \in Workers, CommitTransition(w)
    PROVE  ControlInv'
  <1> USE DEF CommitTransition
  <1>1. ThreadsOK /\ DataOK /\ pc[w] # "idle" /\ req[w] \in Requests
    BY DEF ControlInv, ThreadsOK, Control
  <1>2. ThreadsOK'
    BY <1>1, ReleaseKeepsLocks, GoToKeepsThreads DEF Control, Places, TransitionPlaces, KeyPlaces, ThreadsOK
  <1>3. DataOK'
    <2>1. /\ plan[w] \in Statuses /\ req[w].session \in Sessions
          /\ req[w].action \in Actions /\ req[w].key \in Keys \union {None}
          /\ seen[w].version \in Nat
      BY <1>1, RequestFields DEF ThreadsOK, Control, TransitionPlaces
    <2>2. version' \in [Sessions -> Nat]
      BY <1>1, <2>1 DEF DataOK
    <2>3. effects' \subseteq Sessions \X Actions \X (Keys \union {None})
      BY <1>1, <2>1 DEF DataOK
    <2>4. QED
      BY <1>1, <2>1, <2>2, <2>3, SetStatusKeepsTypes DEF DataOK, world
  <1>4. QED
    BY <1>2, <1>3 DEF ControlInv

LEMMA RefreshRowControl ==
    ASSUME ControlInv, NEW w \in Workers, RefreshRow(w)
    PROVE  ControlInv'
  <1> USE DEF RefreshRow
  <1>1. ThreadsOK /\ DataOK /\ pc[w] # "idle" /\ req[w] \in Requests
    BY DEF ControlInv, ThreadsOK, Control
  <1>2. ThreadsOK'
    <2>1. CASE Finish(w, "ok")
      BY <1>1, <2>1, FinishKeepsThreads DEF Outcomes
    <2>2. CASE ~Finish(w, "ok")
      <3>1. PICK p \in {"expire", "lookup"} :
               /\ GoTo(w, p) /\ UNCHANGED <<lock, req, seen, plan, out>>
               /\ p = "lookup" => req[w].key # None
        BY <2>2 DEF AfterSummary
      <3>2. QED
        BY <1>1, <3>1, GoToKeepsThreads DEF Control, Places, TransitionPlaces, KeyPlaces, ThreadsOK
    <2>3. QED
      BY <2>1, <2>2
  <1>3. DataOK'
    BY <1>1 DEF DataOK, world, hist
  <1>4. QED
    BY <1>2, <1>3 DEF ControlInv

LEMMA SelfLoopSummaryControl ==
    ASSUME ControlInv, NEW w \in Workers, SelfLoopSummary(w)
    PROVE  ControlInv'
  <1> USE DEF SelfLoopSummary
  <1>1. ThreadsOK /\ DataOK /\ pc[w] # "idle" /\ req[w] \in Requests
    BY DEF ControlInv, ThreadsOK, Control
  <1>2. ThreadsOK'
    <2>1. CASE Finish(w, "ok")
      BY <1>1, <2>1, FinishKeepsThreads DEF Outcomes
    <2>2. CASE ~Finish(w, "ok")
      <3>1. PICK p \in {"expire", "lookup"} :
               /\ GoTo(w, p) /\ UNCHANGED <<lock, req, seen, plan, out>>
               /\ p = "lookup" => req[w].key # None
        BY <2>2 DEF AfterSummary
      <3>2. QED
        BY <1>1, <3>1, GoToKeepsThreads DEF Control, Places, TransitionPlaces, KeyPlaces, ThreadsOK
    <2>3. QED
      BY <2>1, <2>2
  <1>3. DataOK'
    BY <1>1 DEF DataOK, world, hist
  <1>4. QED
    BY <1>2, <1>3 DEF ControlInv

LEMMA ExpireRowControl ==
    ASSUME ControlInv, NEW w \in Workers, ExpireRow(w)
    PROVE  ControlInv'
  <1> USE DEF ExpireRow
  <1>1. ThreadsOK /\ DataOK /\ pc[w] # "idle" /\ req[w] \in Requests
    BY DEF ControlInv, ThreadsOK, Control
  <1>2. ThreadsOK'
    <2>1. CASE req[w].key = None
      BY <1>1, <2>1, FinishKeepsThreads DEF Outcomes
    <2>2. CASE req[w].key # None
      BY <1>1, <2>2, RequestFields, ReleaseKeepsLocks, GoToKeepsThreads
         DEF Control, Places, TransitionPlaces, KeyPlaces, ThreadsOK
    <2>3. QED
      BY <2>1, <2>2
  <1>3. DataOK'
    BY <1>1, RequestFields, SetStatusKeepsTypes DEF DataOK, world, Statuses
  <1>4. QED
    BY <1>2, <1>3 DEF ControlInv

LEMMA LookupRecordControl ==
    ASSUME ControlInv, NEW w \in Workers, LookupRecord(w)
    PROVE  ControlInv'
  <1> USE DEF LookupRecord
  <1>1. ThreadsOK /\ DataOK /\ pc[w] # "idle" /\ req[w] \in Requests
    BY DEF ControlInv, ThreadsOK, Control
  <1>2. ThreadsOK'
    BY <1>1, GoToKeepsThreads DEF Control, db, Places, TransitionPlaces, KeyPlaces, ThreadsOK
  <1>3. DataOK'
    BY <1>1 DEF DataOK, db, world, hist
  <1>4. QED
    BY <1>2, <1>3 DEF ControlInv

LEMMA InsertRecordControl ==
    ASSUME ControlInv, NEW w \in Workers, InsertRecord(w)
    PROVE  ControlInv'
  <1> USE DEF InsertRecord
  <1>1. ThreadsOK /\ DataOK /\ pc[w] # "idle" /\ req[w] \in Requests
    BY DEF ControlInv, ThreadsOK, Control
  <1>2. ThreadsOK'
    BY <1>1, FinishKeepsThreads DEF Outcomes
  <1>3. DataOK'
    <2>1. RecordOf(req[w]) \in Keys \X Actions
      BY <1>1, RequestFields
         DEF ThreadsOK, Control, KeyPlaces, TransitionPlaces, RecordOf
    <2>2. [state |-> "completed", quote |-> req[w].quote,
           owner |-> EffectiveUser(req[w]), session |-> req[w].session,
           result |-> plan[w]] \in Records
      BY <1>1, RequestFields, EffectiveUserType DEF ThreadsOK, Records
    <2>3. idem' \in [Keys \X Actions -> Records]
      BY <1>1, <2>1, <2>2 DEF DataOK
    <2>4. QED
      BY <1>1, <2>3 DEF DataOK, world, hist
  <1>4. QED
    BY <1>2, <1>3 DEF ControlInv

LEMMA OverwriteRecordControl ==
    ASSUME ControlInv, NEW w \in Workers, OverwriteRecord(w)
    PROVE  ControlInv'
  <1> USE DEF OverwriteRecord
  <1>1. ThreadsOK /\ DataOK /\ pc[w] # "idle" /\ req[w] \in Requests
    BY DEF ControlInv, ThreadsOK, Control
  <1>2. ThreadsOK'
    BY <1>1, FinishKeepsThreads DEF Outcomes
  <1>3. DataOK'
    <2>1. RecordOf(req[w]) \in Keys \X Actions
      BY <1>1, RequestFields
         DEF ThreadsOK, Control, KeyPlaces, TransitionPlaces, RecordOf
    <2>2. idem[RecordOf(req[w])] \in Records
      BY <1>1, <2>1 DEF DataOK
    <2>3. /\ EffectiveUser(req[w]) \in Users \union {None}
          /\ req[w].session \in Sessions
          /\ plan[w] \in Statuses \union {None}
      BY <1>1, RequestFields, EffectiveUserType DEF ThreadsOK
    <2>4. PICK rec \in Records :
             idem' = [idem EXCEPT ![RecordOf(req[w])] = rec]
      BY <2>2, <2>3 DEF Records
    <2>5. QED
      BY <1>1, <2>1, <2>4 DEF DataOK, world, hist
  <1>4. QED
    BY <1>2, <1>3 DEF ControlInv

LEMMA ReadSessionControl ==
    ASSUME ControlInv, NEW w \in Workers, ReadSession(w)
    PROVE  ControlInv'
  <1> USE DEF ReadSession
  <1>1. ThreadsOK /\ DataOK /\ pc[w] # "idle" /\ req[w] \in Requests
    BY DEF ControlInv, ThreadsOK, Control
  <1>2. ThreadsOK'
    <2>1. CASE \E o \in {"denied", "ok"} : Finish(w, o)
      BY <1>1, <2>1, FinishKeepsThreads DEF Outcomes
    <2>2. CASE /\ GoTo(w, "expire")
               /\ UNCHANGED <<lock, req, seen, plan, out>>
      BY <1>1, <2>2, GoToKeepsThreads DEF Places, TransitionPlaces, KeyPlaces, ThreadsOK
    <2>3. QED
      BY <2>1, <2>2
  <1>3. DataOK'
    BY <1>1 DEF DataOK, world, hist
  <1>4. QED
    BY <1>2, <1>3 DEF ControlInv

LEMMA CheckOrderableControl ==
    ASSUME ControlInv, NEW w \in Workers, CheckOrderable(w)
    PROVE  ControlInv'
  <1> USE DEF CheckOrderable
  <1>1. ThreadsOK /\ DataOK /\ pc[w] # "idle" /\ req[w] \in Requests
    BY DEF ControlInv, ThreadsOK, Control
  <1>2. ThreadsOK'
    <2>1. CASE Finish(w, "rejected")
      BY <1>1, <2>1, FinishKeepsThreads DEF Outcomes
    <2>2. CASE ~Finish(w, "rejected")
      <3>1. PICK p \in {"refuse", "order"}, st \in {"EXPIRED", "COMPLETED"} :
               /\ plan' = [plan EXCEPT ![w] = st]
               /\ GoTo(w, p)
               /\ UNCHANGED <<lock, req, seen, out>>
        BY <2>2
      <3>2. QED
        BY <1>1, <3>1, GoToKeepsThreads DEF Statuses, Places, TransitionPlaces, KeyPlaces, ThreadsOK
    <2>3. QED
      BY <2>1, <2>2
  <1>3. DataOK'
    BY <1>1 DEF DataOK, world, hist
  <1>4. QED
    BY <1>2, <1>3 DEF ControlInv

LEMMA PlaceOrderControl ==
    ASSUME ControlInv, NEW w \in Workers, PlaceOrder(w)
    PROVE  ControlInv'
  <1> USE DEF PlaceOrder
  <1>1. ThreadsOK /\ DataOK /\ pc[w] # "idle" /\ req[w] \in Requests
    BY DEF ControlInv, ThreadsOK, Control
  <1>2. ThreadsOK'
    BY <1>1, FinishKeepsThreads DEF Outcomes
  <1>3. DataOK'
    <2>1. /\ plan[w] \in Statuses /\ req[w].session \in Sessions
          /\ CartOf[req[w].session] \in Carts
      BY <1>1, RequestFields, ConstantsAssumption DEF ThreadsOK, Control
    <2>2. QED
      BY <1>1, <2>1, SetStatusKeepsTypes DEF DataOK, world
  <1>4. QED
    BY <1>2, <1>3 DEF ControlInv

LEMMA ReplyControl ==
    ASSUME ControlInv, NEW w \in Workers, Reply(w)
    PROVE  ControlInv'
  <1> USE DEF Reply
  <1>1. ThreadsOK /\ DataOK /\ pc[w] # "idle" /\ req[w] \in Requests
    BY DEF ControlInv, ThreadsOK, Control
  <1>2. ThreadsOK'
    BY <1>1
       DEF ThreadsOK, GoTo, ReleaseLocks, Control, TransitionPlaces, KeyPlaces,
           Places, Unloaded, db
  <1>3. DataOK'
    BY <1>1 DEF DataOK, db, world, hist
  <1>4. QED
    BY <1>2, <1>3 DEF ControlInv

LEMMA CrashControl ==
    ASSUME ControlInv, NEW w \in Workers, Crash(w)
    PROVE  ControlInv'
  <1> USE DEF Crash
  <1>1. ThreadsOK /\ DataOK /\ pc[w] # "idle" /\ req[w] \in Requests
    BY DEF ControlInv, ThreadsOK, Control
  <1>2. ThreadsOK'
    BY <1>1
       DEF ThreadsOK, GoTo, ReleaseLocks, Control, TransitionPlaces, KeyPlaces,
           Places, Unloaded, db
  <1>3. DataOK'
    BY <1>1 DEF DataOK, world, hist
  <1>4. QED
    BY <1>2, <1>3 DEF ControlInv

LEMMA SubmitControl ==
    ASSUME ControlInv, NEW w \in Workers, Submit(w)
    PROVE  ControlInv'
  <1> USE DEF Submit
  <1>1. ThreadsOK /\ DataOK
    BY DEF ControlInv
  <1>2. ThreadsOK'
    BY <1>1
       DEF ThreadsOK, GoTo, ReleaseLocks, Control, TransitionPlaces, KeyPlaces,
           Places, Unloaded, db
  <1>3. DataOK'
    BY <1>1 DEF DataOK, db, world, hist
  <1>4. QED
    BY <1>2, <1>3 DEF ControlInv

\* Every step of the system keeps the invariant.
LEMMA ControlStep == ControlInv /\ [Next]_vars => ControlInv'
  <1> SUFFICES ASSUME ControlInv, [Next]_vars PROVE ControlInv'
    OBVIOUS
  <1>1. ASSUME NEW w \in Workers, Submit(w) \/ Handle(w) \/ Crash(w)
        PROVE  ControlInv'
    BY <1>1, LockRowControl,
       CheckIdempotencyControl,
       PurgeRecordControl,
       ReloadRowControl,
       DecideControl,
       RefuseControl,
       CommitTransitionControl,
       RefreshRowControl,
       SelfLoopSummaryControl,
       ExpireRowControl,
       LookupRecordControl,
       InsertRecordControl,
       OverwriteRecordControl,
       ReadSessionControl,
       CheckOrderableControl,
       PlaceOrderControl,
       ReplyControl,
       CrashControl,
       SubmitControl
       DEF Handle
  <1>2. ASSUME NEW s \in Sessions, Elapse(s) \/ Drift(s) PROVE ControlInv'
    BY <1>2
       DEF Elapse, Drift, ControlInv, ThreadsOK, DataOK, Control, db, local, hist
  <1>3. CASE UNCHANGED vars
    BY <1>3 DEF vars, ControlInv, ThreadsOK, DataOK, Control
  <1>4. QED
    BY <1>1, <1>2, <1>3 DEF Next

\* Every variable keeps its type, whatever the requests and the crashes.
THEOREM TypeCorrect == Spec => []TypeOK
  <1>1. ControlInv => TypeOK
    BY DEF ControlInv, ThreadsOK, DataOK, TypeOK
  <1>2. QED
    BY <1>1, ControlInit, ControlStep, PTL DEF Spec

-----------------------------------------------------------------------------
(* The row lock                                                            *)

\* LockProtectsTheRow is inductive together with the control invariant: who
\* writes a row has its lock or nobody has, and who writes lets go.
LockInv == ControlInv /\ LockProtectsTheRow

LEMMA LockInit == Init => LockProtectsTheRow
  BY ConstantsAssumption DEF Init, LockProtectsTheRow

\* A step of w that leaves the other threads, their locks and the rows they
\* have locked alone has only to answer for the locks of w.
LEMMA OthersStayProtected ==
    ASSUME LockInv, NEW w \in Workers,
           \A v \in Workers :
              v # w => /\ pc'[v] = pc[v] /\ req'[v] = req[v]
                       /\ seen'[v] = seen[v],
           \A s \in Sessions :
              lock'[s] \in {lock[s], None, w},
           \A s \in Sessions :
              lock[s] \notin {w, None} =>
                 status'[s] = status[s] /\ version'[s] = version[s],
           \A s \in Sessions :
              lock'[s] = w =>
                 /\ pc'[w] \in HoldingPlaces
                 /\ req'[w].op = "transition" /\ req'[w].session = s
                 /\ seen'[w] = [status |-> status'[s], version |-> version'[s]]
    PROVE  LockProtectsTheRow'
  <1> SUFFICES ASSUME NEW s \in Sessions, NEW v \in Workers, lock'[s] = v
               PROVE  /\ pc'[v] \in HoldingPlaces
                      /\ req'[v].op = "transition" /\ req'[v].session = s
                      /\ seen'[v] = [status |-> status'[s],
                                     version |-> version'[s]]
    BY DEF LockProtectsTheRow, HoldingPlaces
  <1>1. CASE v = w
    BY <1>1
  <1>2. CASE v # w
    <2>1. lock[s] = v /\ v # None
      BY <1>2, ConstantsAssumption
    <2>2. QED
      BY <1>2, <2>1 DEF LockInv, LockProtectsTheRow
  <1>3. QED
    BY <1>1, <1>2

\* Threads other than w are where they were after a step of w.
LEMMA EndingKeepsProtection ==
    ASSUME LockInv, NEW w \in Workers, NEW o \in Outcomes, Finish(w, o),
           \A s \in Sessions :
              lock[s] \notin {w, None} =>
                 status'[s] = status[s] /\ version'[s] = version[s]
    PROVE  LockProtectsTheRow'
  <1>1. \A s \in Sessions : lock'[s] \in {lock[s], None} /\ lock'[s] # w
    BY ConstantsAssumption DEF Finish, ReleaseLocks
  <1>2. QED
    BY <1>1, OthersStayProtected
       DEF Finish, GoTo, LockInv, ControlInv, ThreadsOK

\* A step of w from one place where locks are held to another.
LEMMA MovingKeepsProtection ==
    ASSUME LockInv, NEW w \in Workers, NEW p \in Places, GoTo(w, p),
           UNCHANGED <<status, version, lock, req, seen>>,
           pc[w] \in HoldingPlaces => p \in HoldingPlaces
    PROVE  LockProtectsTheRow'
  BY OthersStayProtected
     DEF GoTo, LockInv, ControlInv, ThreadsOK, LockProtectsTheRow

LEMMA SubmitLock ==
    ASSUME LockInv, NEW w \in Workers, Submit(w)
    PROVE  LockProtectsTheRow'
  BY OthersStayProtected
     DEF Submit, GoTo, db, LockInv, ControlInv, ThreadsOK, LockProtectsTheRow,
         HoldingPlaces


LEMMA ReplyLock ==
    ASSUME LockInv, NEW w \in Workers, Reply(w)
    PROVE  LockProtectsTheRow'
  BY OthersStayProtected
     DEF Reply, GoTo, db, LockInv, ControlInv, ThreadsOK, LockProtectsTheRow,
         HoldingPlaces


LEMMA CrashLock ==
    ASSUME LockInv, NEW w \in Workers, Crash(w)
    PROVE  LockProtectsTheRow'
  <1>1. \A s \in Sessions : lock'[s] \in {lock[s], None} /\ lock'[s] # w
    BY ConstantsAssumption DEF Crash, ReleaseLocks
  <1>2. QED
    BY <1>1, OthersStayProtected
       DEF Crash, GoTo, LockInv, ControlInv, ThreadsOK


LEMMA LockRowLock ==
    ASSUME LockInv, NEW w \in Workers, LockRow(w)
    PROVE  LockProtectsTheRow'
  <1>1. CASE Finish(w, "denied")
    BY <1>1, EndingKeepsProtection DEF LockRow, Outcomes
  <1>2. CASE ~Finish(w, "denied")
    <2>1. req[w] \in Requests /\ req[w].session \in Sessions
      BY RequestFields
         DEF LockRow, LockInv, ControlInv, ThreadsOK, Control
    <2>2. PICK p \in {"decide", "gate"} : GoTo(w, p)
      BY <1>2 DEF LockRow
    <2>3. /\ lock' = [lock EXCEPT ![req[w].session] = w]
          /\ Load(w, req[w].session) /\ UNCHANGED <<req, status, version>>
          /\ req[w].op = "transition"
      BY <1>2 DEF LockRow
    <2>4. \A s \in Sessions : lock'[s] = w => s = req[w].session
      BY <2>3 DEF LockRow, LockInv, LockProtectsTheRow, HoldingPlaces,
                  ControlInv, ThreadsOK
    <2>5. QED
      BY <2>1, <2>2, <2>3, <2>4, OthersStayProtected
         DEF GoTo, Load, LockInv, ControlInv, ThreadsOK, HoldingPlaces
  <1>3. QED
    BY <1>1, <1>2


LEMMA CheckIdempotencyLock ==
    ASSUME LockInv, NEW w \in Workers, CheckIdempotency(w)
    PROVE  LockProtectsTheRow'
  <1>1. CASE \E o \in {"conflict", "denied", "replayed"} : Finish(w, o)
    BY <1>1, EndingKeepsProtection DEF CheckIdempotency, Outcomes
  <1>2. CASE \E p \in {"decide", "purge"} :
               GoTo(w, p) /\ UNCHANGED <<lock, req, seen, plan, out>>
    BY <1>2, MovingKeepsProtection
       DEF CheckIdempotency, Places, HoldingPlaces
  <1>3. QED
    BY <1>1, <1>2 DEF CheckIdempotency


LEMMA PurgeRecordLock ==
    ASSUME LockInv, NEW w \in Workers, PurgeRecord(w)
    PROVE  LockProtectsTheRow'
  <1>1. \A s \in Sessions : lock'[s] \in {lock[s], None} /\ lock'[s] # w
    BY ConstantsAssumption DEF PurgeRecord, ReleaseLocks
  <1>2. QED
    BY <1>1, OthersStayProtected
       DEF PurgeRecord, GoTo, LockInv, ControlInv, ThreadsOK


LEMMA ReloadRowLock ==
    ASSUME LockInv, NEW w \in Workers, ReloadRow(w)
    PROVE  LockProtectsTheRow'
  BY OthersStayProtected
     DEF ReloadRow, GoTo, Load, db, LockInv, ControlInv, ThreadsOK,
         LockProtectsTheRow, HoldingPlaces


LEMMA DecideLock ==
    ASSUME LockInv, NEW w \in Workers, Decide(w)
    PROVE  LockProtectsTheRow'
  <1>1. CASE Finish(w, "rejected")
    BY <1>1, EndingKeepsProtection DEF Decide, Outcomes
  <1>2. CASE \E p \in {"refuse", "summary", "advance"} :
               GoTo(w, p) /\ UNCHANGED <<lock, req, seen, out>>
    BY <1>2, MovingKeepsProtection DEF Decide, Places, HoldingPlaces
  <1>3. QED
    BY <1>1, <1>2 DEF Decide


LEMMA RefuseLock ==
    ASSUME LockInv, NEW w \in Workers, Refuse(w)
    PROVE  LockProtectsTheRow'
  <1>1. \A s \in Sessions :
           lock[s] \notin {w, None} => status'[s] = status[s]
    BY DEF Refuse, MayWrite, SetStatus, LockInv, ControlInv, DataOK
  <1>2. QED
    BY <1>1, EndingKeepsProtection DEF Refuse, Outcomes


LEMMA PlaceOrderLock ==
    ASSUME LockInv, NEW w \in Workers, PlaceOrder(w)
    PROVE  LockProtectsTheRow'
  <1>1. \A s \in Sessions :
           lock[s] \notin {w, None} => status'[s] = status[s]
    BY DEF PlaceOrder, MayWrite, SetStatus, LockInv, ControlInv, DataOK
  <1>2. QED
    BY <1>1, EndingKeepsProtection DEF PlaceOrder, Outcomes


LEMMA CommitTransitionLock ==
    ASSUME LockInv, NEW w \in Workers, CommitTransition(w)
    PROVE  LockProtectsTheRow'
  <1>1. \A s \in Sessions :
           lock[s] \notin {w, None} =>
              status'[s] = status[s] /\ version'[s] = version[s]
    BY DEF CommitTransition, MayWrite, SetStatus, LockInv, ControlInv, DataOK
  <1>2. \A s \in Sessions : lock'[s] \in {lock[s], None} /\ lock'[s] # w
    BY ConstantsAssumption DEF CommitTransition, ReleaseLocks
  <1>3. QED
    BY <1>1, <1>2, OthersStayProtected
       DEF CommitTransition, GoTo, LockInv, ControlInv, ThreadsOK


LEMMA RefreshRowLock ==
    ASSUME LockInv, NEW w \in Workers, RefreshRow(w)
    PROVE  LockProtectsTheRow'
  <1>1. CASE Finish(w, "ok")
    BY <1>1, EndingKeepsProtection DEF RefreshRow, Outcomes
  <1>2. CASE \E p \in {"expire", "lookup"} :
               GoTo(w, p) /\ UNCHANGED <<lock, req, seen, plan, out>>
    BY <1>2, MovingKeepsProtection DEF RefreshRow, Places, HoldingPlaces
  <1>3. QED
    BY <1>1, <1>2 DEF RefreshRow, AfterSummary


LEMMA SelfLoopSummaryLock ==
    ASSUME LockInv, NEW w \in Workers, SelfLoopSummary(w)
    PROVE  LockProtectsTheRow'
  <1>1. CASE Finish(w, "ok")
    BY <1>1, EndingKeepsProtection DEF SelfLoopSummary, Outcomes
  <1>2. CASE \E p \in {"expire", "lookup"} :
               GoTo(w, p) /\ UNCHANGED <<lock, req, seen, plan, out>>
    BY <1>2, MovingKeepsProtection DEF SelfLoopSummary, Places, HoldingPlaces
  <1>3. QED
    BY <1>1, <1>2 DEF SelfLoopSummary, AfterSummary


LEMMA ExpireRowLock ==
    ASSUME LockInv, NEW w \in Workers, ExpireRow(w)
    PROVE  LockProtectsTheRow'
  <1>1. \A s \in Sessions :
           lock[s] \notin {w, None} =>
              status'[s] = status[s] /\ version'[s] = version[s]
    BY DEF ExpireRow, MayWrite, SetStatus, LockInv, ControlInv, DataOK
  <1>2. CASE Finish(w, "ok")
    BY <1>1, <1>2, EndingKeepsProtection DEF Outcomes
  <1>3. CASE /\ GoTo(w, "lookup") /\ ReleaseLocks(w)
             /\ UNCHANGED <<req, seen, plan, out>>
    <2>1. \A s \in Sessions : lock'[s] \in {lock[s], None} /\ lock'[s] # w
      BY <1>3, ConstantsAssumption DEF ReleaseLocks
    <2>2. QED
      BY <1>1, <1>3, <2>1, OthersStayProtected
         DEF GoTo, LockInv, ControlInv, ThreadsOK
  <1>4. QED
    BY <1>2, <1>3 DEF ExpireRow


LEMMA LookupRecordLock ==
    ASSUME LockInv, NEW w \in Workers, LookupRecord(w)
    PROVE  LockProtectsTheRow'
  BY MovingKeepsProtection DEF LookupRecord, Places, HoldingPlaces, db


LEMMA InsertRecordLock ==
    ASSUME LockInv, NEW w \in Workers, InsertRecord(w)
    PROVE  LockProtectsTheRow'
  BY EndingKeepsProtection DEF InsertRecord, Outcomes


LEMMA OverwriteRecordLock ==
    ASSUME LockInv, NEW w \in Workers, OverwriteRecord(w)
    PROVE  LockProtectsTheRow'
  BY EndingKeepsProtection DEF OverwriteRecord, Outcomes


LEMMA ReadSessionLock ==
    ASSUME LockInv, NEW w \in Workers, ReadSession(w)
    PROVE  LockProtectsTheRow'
  <1>1. CASE \E o \in {"denied", "ok"} : Finish(w, o)
    BY <1>1, EndingKeepsProtection DEF ReadSession, Outcomes
  <1>2. CASE /\ GoTo(w, "expire")
             /\ UNCHANGED <<lock, req, seen, plan, out>>
    BY <1>2, MovingKeepsProtection DEF ReadSession, Places, HoldingPlaces
  <1>3. QED
    BY <1>1, <1>2 DEF ReadSession


LEMMA CheckOrderableLock ==
    ASSUME LockInv, NEW w \in Workers, CheckOrderable(w)
    PROVE  LockProtectsTheRow'
  <1>1. CASE Finish(w, "rejected")
    BY <1>1, EndingKeepsProtection DEF CheckOrderable, Outcomes
  <1>2. CASE \E p \in {"refuse", "order"} :
               GoTo(w, p) /\ UNCHANGED <<lock, req, seen, out>>
    BY <1>2, MovingKeepsProtection DEF CheckOrderable, Places, HoldingPlaces
  <1>3. QED
    BY <1>1, <1>2 DEF CheckOrderable


\* Every step keeps the row protected.
LEMMA LockStep == LockInv /\ [Next]_vars => LockProtectsTheRow'
  <1> SUFFICES ASSUME LockInv, [Next]_vars PROVE LockProtectsTheRow'
    OBVIOUS
  <1>1. ASSUME NEW w \in Workers, Submit(w) \/ Handle(w) \/ Crash(w)
        PROVE  LockProtectsTheRow'
    BY <1>1, SubmitLock,
       ReplyLock,
       CrashLock,
       LockRowLock,
       CheckIdempotencyLock,
       PurgeRecordLock,
       ReloadRowLock,
       DecideLock,
       RefuseLock,
       PlaceOrderLock,
       CommitTransitionLock,
       RefreshRowLock,
       SelfLoopSummaryLock,
       ExpireRowLock,
       LookupRecordLock,
       InsertRecordLock,
       OverwriteRecordLock,
       ReadSessionLock,
       CheckOrderableLock
       DEF Handle
  <1>2. ASSUME NEW s \in Sessions, Elapse(s) \/ Drift(s)
        PROVE  LockProtectsTheRow'
    BY <1>2 DEF Elapse, Drift, LockInv, LockProtectsTheRow, db, local
  <1>3. CASE UNCHANGED vars
    BY <1>3 DEF vars, LockInv, LockProtectsTheRow
  <1>4. QED
    BY <1>1, <1>2, <1>3 DEF Next

\* While transition() holds the row lock, nothing comes between what it has
\* read of the row and what it writes.
THEOREM LockProtects == Spec => []LockProtectsTheRow
  <1>1. Init => LockInv
    BY ControlInit, LockInit DEF LockInv
  <1>2. LockInv /\ [Next]_vars => LockInv'
    BY ControlStep, LockStep DEF LockInv
  <1>3. LockInv => LockProtectsTheRow
    BY DEF LockInv
  <1>4. QED
    BY <1>1, <1>2, <1>3, PTL DEF Spec

-----------------------------------------------------------------------------
(* Decisions and the lifecycle                                             *)

\* What a worker has decided rests on a status that its session has had.
Decision(w) ==
    /\ pc[w] \in {"gate", "decide"} =>
          seen[w].status \in visited[req[w].session]
    /\ pc[w] = "advance" =>
          /\ plan[w] = TargetOf(req[w].action)
          /\ \E st \in visited[req[w].session] :
                req[w].action \in AllowedActions(st)
    /\ pc[w] = "refuse" => plan[w] \in {"EXPIRED", "INVALID"}
    /\ pc[w] = "order" => plan[w] = "COMPLETED"

\* The history knows the present, and payment has followed authorization.
HistoryOK ==
    /\ \A s \in Sessions : status[s] \in visited[s]
    /\ PaymentFollowsAuthorization

PathOK == HistoryOK /\ \A w \in Workers : Decision(w)

PathInv == ControlInv /\ PathOK

-----------------------------------------------------------------------------
(* The table                                                               *)

\* The only edges into the statuses of the payment path.
LEMMA PaymentEdges ==
    ASSUME NEW st, NEW a \in AllowedActions(st)
    PROVE  /\ TargetOf(a) = "AUTHORIZED" => st = "AUTHORIZATION_REQUIRED"
           /\ TargetOf(a) = "PAYMENT_PENDING" => st = "AUTHORIZED"
           /\ TargetOf(a) = "PAID" => st = "PAYMENT_PENDING"
           /\ TargetOf(a) = "ORDER_PENDING" => st = "PAID"
  BY DEF AllowedActions, TargetOf

\* A status that permits anything is not terminal.
LEMMA LiveStatusesOnly ==
    ASSUME NEW st, NEW a \in AllowedActions(st)
    PROVE  st \notin TERMINAL_STATES
  BY DEF AllowedActions, TERMINAL_STATES

-----------------------------------------------------------------------------
(* The history                                                             *)

\* A status outside the payment path can be written at any time.
LEMMA HarmlessWrites ==
    ASSUME PathInv, NEW s \in Sessions,
           NEW st \in {"EXPIRED", "INVALID", "COMPLETED"}, SetStatus(s, st)
    PROVE  HistoryOK'
  BY DEF PathInv, PathOK, HistoryOK, ControlInv, DataOK, SetStatus,
         PaymentFollowsAuthorization

\* An edge of the table from a status the session has had.
LEMMA TableWrites ==
    ASSUME PathInv, NEW s \in Sessions, NEW st \in visited[s],
           NEW a \in AllowedActions(st), SetStatus(s, TargetOf(a))
    PROVE  HistoryOK'
  BY PaymentEdges
     DEF PathInv, PathOK, HistoryOK, ControlInv, DataOK, SetStatus,
         PaymentFollowsAuthorization

LEMMA NoWrites ==
    ASSUME PathInv, UNCHANGED <<status, visited>>
    PROVE  HistoryOK'
  BY DEF PathInv, PathOK, HistoryOK, PaymentFollowsAuthorization

\* The other threads' decisions stand, because the history only grows.
LEMMA OthersStayDecided ==
    ASSUME PathInv, NEW w \in Workers,
           \A v \in Workers :
              v # w => /\ pc'[v] = pc[v] /\ req'[v] = req[v]
                       /\ seen'[v] = seen[v] /\ plan'[v] = plan[v],
           \A s \in Sessions : visited[s] \subseteq visited'[s],
           Decision(w)', HistoryOK'
    PROVE  PathOK'
  <1>1. ASSUME NEW v \in Workers, v # w PROVE Decision(v)'
    <2>1. pc[v] # "idle" => req[v].session \in Sessions
      BY RequestFields DEF PathInv, ControlInv, ThreadsOK, Control
    <2>2. QED
      BY <1>1, <2>1 DEF Decision, PathInv, PathOK
  <1>2. QED
    BY <1>1 DEF PathOK

\* Steps to places where nothing rests on a decision.
QuietPlaces == {"idle", "begin", "purge", "reload", "refresh", "summary",
                "expire", "lookup", "insert", "overwrite", "done"}

LEMMA QuietSteps ==
    ASSUME PathInv, NEW w \in Workers, NEW p \in QuietPlaces, GoTo(w, p),
           \A s \in Sessions : visited[s] \subseteq visited'[s],
           \A v \in Workers :
              v # w => /\ req'[v] = req[v] /\ seen'[v] = seen[v]
                       /\ plan'[v] = plan[v],
           HistoryOK'
    PROVE  PathOK'
  <1>1. Decision(w)'
    BY DEF GoTo, Decision, QuietPlaces, PathInv, ControlInv, ThreadsOK
  <1>2. QED
    BY <1>1, OthersStayDecided DEF GoTo, PathInv, ControlInv, ThreadsOK

LEMMA EndingIsQuiet ==
    ASSUME PathInv, NEW w \in Workers, NEW o, Finish(w, o),
           \A s \in Sessions : visited[s] \subseteq visited'[s], HistoryOK'
    PROVE  PathOK'
  BY QuietSteps DEF Finish, QuietPlaces, PathInv, ControlInv, ThreadsOK

-----------------------------------------------------------------------------
(* The handlers                                                            *)

LEMMA PathInit == Init => PathOK
  BY DEF Init, PathOK, HistoryOK, PaymentFollowsAuthorization, Decision

\* Handlers that write no status and take no decision.
LEMMA QuietPath ==
    ASSUME PathInv, NEW w \in Workers,
           \/ Submit(w) \/ Reply(w) \/ Crash(w) \/ PurgeRecord(w)
           \/ RefreshRow(w) \/ SelfLoopSummary(w) \/ LookupRecord(w)
           \/ InsertRecord(w) \/ OverwriteRecord(w) \/ ReadSession(w)
    PROVE  PathOK'
  <1>1. UNCHANGED <<status, visited>>
    BY DEF Submit, Reply, Crash, PurgeRecord, RefreshRow, SelfLoopSummary,
           LookupRecord, InsertRecord, OverwriteRecord, ReadSession, db, hist
  <1>2. HistoryOK' /\ \A s \in Sessions : visited[s] \subseteq visited'[s]
    BY <1>1, NoWrites
  <1>3. CASE \E p \in QuietPlaces :
                /\ GoTo(w, p)
                /\ \A v \in Workers :
                      v # w => /\ req'[v] = req[v] /\ seen'[v] = seen[v]
                               /\ plan'[v] = plan[v]
    BY <1>2, <1>3, QuietSteps
  <1>4. CASE \E o \in Outcomes : Finish(w, o)
    BY <1>2, <1>4, EndingIsQuiet
  <1>5. CASE Submit(w) \/ Reply(w) \/ Crash(w) \/ PurgeRecord(w)
    BY <1>3, <1>5
       DEF Submit, Reply, Crash, PurgeRecord, QuietPlaces, PathInv,
           ControlInv, ThreadsOK
  <1>6. CASE RefreshRow(w) \/ SelfLoopSummary(w) \/ ReadSession(w)
    BY <1>3, <1>4, <1>6
       DEF RefreshRow, SelfLoopSummary, AfterSummary, ReadSession,
           QuietPlaces, Outcomes
  <1>7. CASE LookupRecord(w) \/ InsertRecord(w) \/ OverwriteRecord(w)
    BY <1>3, <1>4, <1>7
       DEF LookupRecord, InsertRecord, OverwriteRecord, QuietPlaces, Outcomes
  <1>8. QED
    BY <1>5, <1>6, <1>7

LEMMA LockRowPath ==
    ASSUME PathInv, NEW w \in Workers, LockRow(w)
    PROVE  PathOK'
  <1>1. HistoryOK' /\ \A s \in Sessions : visited[s] \subseteq visited'[s]
    BY NoWrites DEF LockRow, hist
  <1>2. CASE Finish(w, "denied")
    BY <1>1, <1>2, EndingIsQuiet
  <1>3. CASE ~Finish(w, "denied")
    <2>1. PICK p \in {"decide", "gate"} : GoTo(w, p)
      BY <1>3 DEF LockRow
    <2>2. Load(w, req[w].session) /\ UNCHANGED <<req, plan, visited>>
      BY <1>3 DEF LockRow, hist
    <2>3. req[w].session \in Sessions
      BY RequestFields
         DEF LockRow, PathInv, ControlInv, ThreadsOK, Control
    <2>4. Decision(w)'
      BY <2>1, <2>2, <2>3
         DEF Decision, GoTo, Load, PathInv, PathOK, HistoryOK, ControlInv,
             ThreadsOK
    <2>5. QED
      BY <1>1, <2>1, <2>2, <2>4, OthersStayDecided
         DEF GoTo, Load, PathInv, ControlInv, ThreadsOK
  <1>4. QED
    BY <1>2, <1>3

LEMMA CheckIdempotencyPath ==
    ASSUME PathInv, NEW w \in Workers, CheckIdempotency(w)
    PROVE  PathOK'
  <1>1. HistoryOK' /\ \A s \in Sessions : visited[s] \subseteq visited'[s]
    BY NoWrites DEF CheckIdempotency, hist
  <1>2. CASE \E o \in {"conflict", "denied", "replayed"} : Finish(w, o)
    BY <1>1, <1>2, EndingIsQuiet
  <1>3. CASE \E p \in {"decide", "purge"} :
                GoTo(w, p) /\ UNCHANGED <<lock, req, seen, plan, out>>
    <2>1. Decision(w)'
      BY <1>3
         DEF CheckIdempotency, Decision, GoTo, PathInv, PathOK, ControlInv,
             ThreadsOK, hist
    <2>2. QED
      BY <1>1, <1>3, <2>1, OthersStayDecided
         DEF GoTo, PathInv, ControlInv, ThreadsOK
  <1>4. QED
    BY <1>2, <1>3 DEF CheckIdempotency

LEMMA ReloadRowPath ==
    ASSUME PathInv, NEW w \in Workers, ReloadRow(w)
    PROVE  PathOK'
  <1>1. HistoryOK' /\ \A s \in Sessions : visited[s] \subseteq visited'[s]
    BY NoWrites DEF ReloadRow, db, hist
  <1>2. req[w].session \in Sessions
    BY RequestFields DEF ReloadRow, PathInv, ControlInv, ThreadsOK, Control
  <1>3. Decision(w)'
    BY <1>2
       DEF ReloadRow, Decision, GoTo, Load, PathInv, PathOK, HistoryOK,
           ControlInv, ThreadsOK, hist
  <1>4. QED
    BY <1>1, <1>3, OthersStayDecided
       DEF ReloadRow, GoTo, Load, PathInv, ControlInv, ThreadsOK

LEMMA DecidePath ==
    ASSUME PathInv, NEW w \in Workers, Decide(w)
    PROVE  PathOK'
  <1>1. HistoryOK' /\ \A s \in Sessions : visited[s] \subseteq visited'[s]
    BY NoWrites DEF Decide, hist
  <1>2. CASE Finish(w, "rejected")
    BY <1>1, <1>2, EndingIsQuiet
  <1>3. CASE ~Finish(w, "rejected")
    <2>1. PICK p \in {"refuse", "summary", "advance"},
               st \in {"EXPIRED", "INVALID", TargetOf(req[w].action)} :
             /\ plan' = [plan EXCEPT ![w] = st]
             /\ GoTo(w, p)
             /\ UNCHANGED <<lock, req, seen, out>>
             /\ p = "refuse" => st \in {"EXPIRED", "INVALID"}
             /\ p = "advance" =>
                   /\ st = TargetOf(req[w].action)
                   /\ req[w].action \in AllowedActions(seen[w].status)
      BY <1>3 DEF Decide
    <2>2. seen[w].status \in visited[req[w].session] /\ visited' = visited
      BY DEF Decide, PathInv, PathOK, Decision, hist
    <2>3. Decision(w)'
      BY <2>1, <2>2 DEF Decision, GoTo, PathInv, ControlInv, ThreadsOK
    <2>4. QED
      BY <1>1, <2>1, <2>3, OthersStayDecided
         DEF GoTo, PathInv, ControlInv, ThreadsOK
  <1>4. QED
    BY <1>2, <1>3

LEMMA CheckOrderablePath ==
    ASSUME PathInv, NEW w \in Workers, CheckOrderable(w)
    PROVE  PathOK'
  <1>1. HistoryOK' /\ \A s \in Sessions : visited[s] \subseteq visited'[s]
    BY NoWrites DEF CheckOrderable, hist
  <1>2. CASE Finish(w, "rejected")
    BY <1>1, <1>2, EndingIsQuiet
  <1>3. CASE ~Finish(w, "rejected")
    <2>1. PICK p \in {"refuse", "order"} :
             /\ plan' = [plan EXCEPT ![w] = IF p = "order" THEN "COMPLETED"
                                                           ELSE "EXPIRED"]
             /\ GoTo(w, p)
             /\ UNCHANGED <<lock, req, seen, out>>
      BY <1>3 DEF CheckOrderable
    <2>2. Decision(w)'
      BY <2>1 DEF Decision, GoTo, PathInv, ControlInv, ThreadsOK
    <2>3. QED
      BY <1>1, <2>1, <2>2, OthersStayDecided
         DEF GoTo, PathInv, ControlInv, ThreadsOK
  <1>4. QED
    BY <1>2, <1>3

\* The handlers that write a status.
LEMMA SetStatusGrows ==
    ASSUME PathInv, NEW s \in Sessions, NEW st, SetStatus(s, st)
    PROVE  \A x \in Sessions : visited[x] \subseteq visited'[x]
  BY DEF SetStatus, PathInv, ControlInv, DataOK

LEMMA WritingPath ==
    ASSUME PathInv, NEW w \in Workers,
           Refuse(w) \/ CommitTransition(w) \/ ExpireRow(w) \/ PlaceOrder(w)
    PROVE  PathOK'
  <1>1. req[w].session \in Sessions
    BY RequestFields
       DEF Refuse, CommitTransition, ExpireRow, PlaceOrder, PathInv,
           ControlInv, ThreadsOK, Control
  <1>2. Decision(w)
    BY DEF PathInv, PathOK
  <1>3. CASE Refuse(w)
    <2>1. HistoryOK'
      BY <1>1, <1>2, <1>3, HarmlessWrites DEF Refuse, Decision
    <2>2. QED
      BY <1>1, <1>3, <2>1, SetStatusGrows, EndingIsQuiet DEF Refuse
  <1>4. CASE CommitTransition(w)
    <2>1. HistoryOK'
      BY <1>1, <1>2, <1>4, TableWrites DEF CommitTransition, Decision
    <2>2. QED
      BY <1>1, <1>4, <2>1, SetStatusGrows, QuietSteps
         DEF CommitTransition, QuietPlaces
  <1>5. CASE ExpireRow(w)
    <2>1. /\ HistoryOK'
          /\ \A x \in Sessions : visited[x] \subseteq visited'[x]
      BY <1>1, <1>5, HarmlessWrites, SetStatusGrows DEF ExpireRow
    <2>2. CASE Finish(w, "ok")
      BY <2>1, <2>2, EndingIsQuiet
    <2>3. CASE GoTo(w, "lookup") /\ UNCHANGED <<req, seen, plan, out>>
      BY <2>1, <2>3, QuietSteps DEF QuietPlaces
    <2>4. QED
      BY <1>5, <2>2, <2>3 DEF ExpireRow
  <1>6. CASE PlaceOrder(w)
    <2>1. HistoryOK'
      BY <1>1, <1>2, <1>6, HarmlessWrites DEF PlaceOrder, Decision
    <2>2. QED
      BY <1>1, <1>6, <2>1, SetStatusGrows, EndingIsQuiet DEF PlaceOrder
  <1>7. QED
    BY <1>3, <1>4, <1>5, <1>6

LEMMA PathStep == PathInv /\ [Next]_vars => PathOK'
  <1> SUFFICES ASSUME PathInv, [Next]_vars PROVE PathOK'
    OBVIOUS
  <1>1. ASSUME NEW w \in Workers, Submit(w) \/ Handle(w) \/ Crash(w)
        PROVE  PathOK'
    BY <1>1, QuietPath, LockRowPath, CheckIdempotencyPath, ReloadRowPath,
       DecidePath, CheckOrderablePath, WritingPath
       DEF Handle
  <1>2. ASSUME NEW s \in Sessions, Elapse(s) \/ Drift(s)
        PROVE  PathOK'
    <2>1. UNCHANGED <<status, visited, pc, req, seen, plan>>
      BY <1>2 DEF Elapse, Drift, db, local, hist
    <2>2. QED
      BY <2>1, NoWrites DEF PathInv, PathOK, Decision
  <1>3. CASE UNCHANGED vars
    BY <1>3, NoWrites DEF vars, PathInv, PathOK, Decision
  <1>4. QED
    BY <1>1, <1>2, <1>3 DEF Next

\* No interleaving, crash or lost lock brings a session to payment without
\* authorization.
THEOREM PaymentIsAuthorized == Spec => []PaymentFollowsAuthorization
  <1>1. Init => PathInv
    BY ControlInit, PathInit DEF PathInv
  <1>2. PathInv /\ [Next]_vars => PathInv'
    BY ControlStep, PathStep DEF PathInv
  <1>3. PathInv => PaymentFollowsAuthorization
    BY DEF PathInv, PathOK, HistoryOK
  <1>4. QED
    BY <1>1, <1>2, <1>3, PTL DEF Spec

-----------------------------------------------------------------------------
(* The handlers implement QuoteLifecycle                                   *)

\* With no record past its 24 hours the row lock is never lost before the
\* commit, so that what a worker has decided still follows from the row.
Standing(w) ==
    /\ pc[w] \notin {"purge", "reload"}
    /\ pc[w] \in {"gate", "decide", "advance"} => lock[req[w].session] = w
    /\ pc[w] = "advance" =>
          /\ plan[w] = TargetOf(req[w].action)
          /\ req[w].action \in AllowedActions(seen[w].status)
          /\ plan[w] # seen[w].status
    /\ pc[w] = "refuse" =>
          \/ plan[w] = "EXPIRED" /\ late[req[w].session]
          \/ /\ plan[w] = "INVALID" /\ lock[req[w].session] = w
             /\ seen[w].status \notin TERMINAL_STATES
    /\ pc[w] = "order" => plan[w] = "COMPLETED"
    /\ pc[w] = "expire" => late[req[w].session]

NoStale == \A x \in Keys \X Actions : idem[x].state # "stale"

StandingOK == NoStale /\ \A w \in Workers : Standing(w)

StandingInv == LockInv /\ StandingOK

LEMMA StandingInit == StaleRecords = {} /\ Init => StandingOK
  BY DEF Init, StandingOK, Standing, NoStale, NoRecord

\* A step of w leaves the other threads' decisions standing.
LEMMA OthersStayStanding ==
    ASSUME StandingInv, NEW w \in Workers,
           \A v \in Workers :
              v # w => /\ pc'[v] = pc[v] /\ req'[v] = req[v]
                       /\ seen'[v] = seen[v] /\ plan'[v] = plan[v],
           \A s \in Sessions : lock[s] \notin {w, None} => lock'[s] = lock[s],
           UNCHANGED late, Standing(w)'
    PROVE  \A v \in Workers : Standing(v)'
  <1> SUFFICES ASSUME NEW v \in Workers, v # w PROVE Standing(v)'
    OBVIOUS
  <1>1. pc[v] # "idle" => req[v].session \in Sessions
    BY RequestFields DEF StandingInv, LockInv, ControlInv, ThreadsOK, Control
  <1>2. QED
    BY <1>1, ConstantsAssumption DEF Standing, StandingInv, StandingOK

LEMMA EndingStands ==
    ASSUME StandingInv, NEW w \in Workers, NEW o, Finish(w, o), UNCHANGED late
    PROVE  \A v \in Workers : Standing(v)'
  <1>1. Standing(w)'
    BY DEF Finish, GoTo, Standing, StandingInv, LockInv, ControlInv, ThreadsOK
  <1>2. QED
    BY <1>1, OthersStayStanding
       DEF Finish, GoTo, ReleaseLocks, StandingInv, LockInv, ControlInv,
           ThreadsOK

\* Steps to places where nothing more is decided.
LEMMA MovingStands ==
    ASSUME StandingInv, NEW w \in Workers,
           NEW p \in {"idle", "begin", "refresh", "summary", "lookup",
                      "insert", "overwrite", "done"},
           GoTo(w, p), UNCHANGED late,
           \A s \in Sessions : lock[s] \notin {w, None} => lock'[s] = lock[s],
           \A v \in Workers :
              v # w => /\ req'[v] = req[v] /\ seen'[v] = seen[v]
                       /\ plan'[v] = plan[v]
    PROVE  \A v \in Workers : Standing(v)'
  <1>1. Standing(w)'
    BY DEF GoTo, Standing, StandingInv, LockInv, ControlInv, ThreadsOK
  <1>2. QED
    BY <1>1, OthersStayStanding
       DEF GoTo, StandingInv, LockInv, ControlInv, ThreadsOK

\* An expiry is written because the deadline has passed.
LEMMA ExpiringStands ==
    ASSUME StandingInv, NEW w \in Workers, GoTo(w, "expire"),
           late[req[w].session],
           UNCHANGED <<late, lock, req, seen, plan>>
    PROVE  \A v \in Workers : Standing(v)'
  <1>1. Standing(w)'
    BY DEF GoTo, Standing, StandingInv, LockInv, ControlInv, ThreadsOK
  <1>2. QED
    BY <1>1, OthersStayStanding
       DEF GoTo, StandingInv, LockInv, ControlInv, ThreadsOK

LEMMA StandingThreads ==
    ASSUME StandingInv, NEW w \in Workers, Submit(w) \/ Handle(w) \/ Crash(w)
    PROVE  \A v \in Workers : Standing(v)'
  <1>0. /\ Standing(w) /\ NoStale
        /\ pc \in [Workers -> Places] /\ plan \in [Workers -> Statuses \union {None}]
        /\ lock \in [Sessions -> Workers \union {None}]
        /\ pc[w] # "idle" => req[w] \in Requests
    BY DEF StandingInv, StandingOK, LockInv, ControlInv, ThreadsOK, Control
  <1>1. CASE Submit(w) \/ Reply(w) \/ Crash(w)
    BY <1>1, MovingStands
       DEF Submit, Reply, Crash, GoTo, ReleaseLocks, StandingInv, LockInv,
           ControlInv, ThreadsOK, db, world
  <1>2. CASE LockRow(w)
    <2>1. CASE Finish(w, "denied")
      BY <1>2, <2>1, EndingStands DEF LockRow, world
    <2>2. CASE ~Finish(w, "denied")
      <3>1. PICK p \in {"decide", "gate"} : GoTo(w, p)
        BY <1>2, <2>2 DEF LockRow
      <3>2. /\ Load(w, req[w].session) /\ UNCHANGED <<req, plan, late>>
            /\ lock' = [lock EXCEPT ![req[w].session] = w]
            /\ lock[req[w].session] = None
        BY <1>2, <2>2 DEF LockRow, RowIsFree, world
      <3>3. req[w].session \in Sessions
        BY <1>0, <1>2, RequestFields DEF LockRow
      <3>4. Standing(w)'
        BY <1>0, <3>1, <3>2, <3>3 DEF Standing, GoTo
      <3>5. QED
        BY <1>0, <3>1, <3>2, <3>3, <3>4, OthersStayStanding
           DEF GoTo, Load, StandingInv, LockInv, ControlInv, ThreadsOK
    <2>3. QED
      BY <2>1, <2>2
  <1>3. CASE CheckIdempotency(w)
    <2>1. CASE \E o \in {"conflict", "denied", "replayed"} : Finish(w, o)
      BY <1>3, <2>1, EndingStands DEF CheckIdempotency, world
    <2>2. CASE /\ idem[RecordOf(req[w])].state \in {"none", "stale"}
               /\ GoTo(w, IF idem[RecordOf(req[w])].state = "none"
                            THEN "decide" ELSE "purge")
               /\ UNCHANGED <<lock, req, seen, plan, out>>
      <3>1. RecordOf(req[w]) \in Keys \X Actions
        BY <1>0, <1>3, RequestFields
           DEF CheckIdempotency, StandingInv, LockInv, ControlInv, ThreadsOK,
               Control, KeyPlaces, TransitionPlaces, RecordOf
      <3>2. GoTo(w, "decide")
        BY <1>0, <2>2, <3>1 DEF NoStale
      <3>3. Standing(w)'
        BY <1>0, <1>3, <2>2, <3>2 DEF CheckIdempotency, Standing, GoTo, world
      <3>4. QED
        BY <1>0, <1>3, <2>2, <3>2, <3>3, OthersStayStanding
           DEF CheckIdempotency, GoTo, world, StandingInv, LockInv,
               ControlInv, ThreadsOK
    <2>3. QED
      BY <1>3, <2>1, <2>2 DEF CheckIdempotency
  <1>4. CASE PurgeRecord(w) \/ ReloadRow(w)
    BY <1>0, <1>4 DEF PurgeRecord, ReloadRow, Standing
  <1>5. CASE Decide(w)
    <2>1. CASE Finish(w, "rejected")
      BY <1>5, <2>1, EndingStands DEF Decide, world
    <2>2. CASE ~Finish(w, "rejected")
      <3>1. PICK p \in {"refuse", "summary", "advance"},
                 st \in {"EXPIRED", "INVALID", TargetOf(req[w].action)} :
               /\ plan' = [plan EXCEPT ![w] = st]
               /\ GoTo(w, p)
               /\ UNCHANGED <<lock, req, seen, out>>
               /\ p = "refuse" =>
                     \/ st = "EXPIRED" /\ late[req[w].session]
                     \/ /\ st = "INVALID"
                        /\ req[w].action \in AllowedActions(seen[w].status)
               /\ p = "advance" =>
                     /\ st = TargetOf(req[w].action)
                     /\ st # seen[w].status
                     /\ req[w].action \in AllowedActions(seen[w].status)
        BY <1>5, <2>2 DEF Decide
      <3>2. lock[req[w].session] = w /\ UNCHANGED late
        BY <1>0, <1>5 DEF Decide, Standing, world
      <3>3. p = "refuse" /\ st = "INVALID" =>
               seen[w].status \notin TERMINAL_STATES
        BY <3>1, LiveStatusesOnly
      <3>4. Standing(w)'
        BY <1>0, <3>1, <3>2, <3>3 DEF Standing, GoTo
      <3>5. QED
        BY <1>0, <3>1, <3>2, <3>4, OthersStayStanding DEF GoTo
    <2>3. QED
      BY <2>1, <2>2
  <1>6. CASE Refuse(w) \/ InsertRecord(w) \/ OverwriteRecord(w) \/ PlaceOrder(w)
    BY <1>6, EndingStands
       DEF Refuse, InsertRecord, OverwriteRecord, PlaceOrder, world
  <1>7. CASE CommitTransition(w)
    BY <1>0, <1>7, MovingStands DEF CommitTransition, ReleaseLocks, world
  <1>8. CASE RefreshRow(w) \/ SelfLoopSummary(w)
    <2>1. CASE Finish(w, "ok")
      BY <1>8, <2>1, EndingStands DEF RefreshRow, SelfLoopSummary, world
    <2>2. CASE GoTo(w, "lookup") /\ UNCHANGED <<lock, req, seen, plan, out>>
      BY <1>8, <2>2, MovingStands DEF RefreshRow, SelfLoopSummary, world
    <2>3. CASE /\ GoTo(w, "expire") /\ late[req[w].session]
               /\ UNCHANGED <<lock, req, seen, plan, out>>
      BY <1>8, <2>3, ExpiringStands DEF RefreshRow, SelfLoopSummary, world
    <2>4. QED
      BY <1>8, <2>1, <2>2, <2>3 DEF RefreshRow, SelfLoopSummary, AfterSummary
  <1>9. CASE ExpireRow(w)
    <2>1. CASE Finish(w, "ok")
      BY <1>9, <2>1, EndingStands DEF ExpireRow, world
    <2>2. CASE /\ GoTo(w, "lookup") /\ ReleaseLocks(w)
               /\ UNCHANGED <<req, seen, plan, out>>
      BY <1>0, <1>9, <2>2, MovingStands DEF ExpireRow, ReleaseLocks, world
    <2>3. QED
      BY <1>9, <2>1, <2>2 DEF ExpireRow
  <1>10. CASE LookupRecord(w)
    BY <1>10, MovingStands DEF LookupRecord, db, world
  <1>11. CASE ReadSession(w)
    <2>1. CASE \E o \in {"denied", "ok"} : Finish(w, o)
      BY <1>11, <2>1, EndingStands DEF ReadSession, world
    <2>2. CASE /\ GoTo(w, "expire") /\ late[req[w].session]
               /\ UNCHANGED <<lock, req, seen, plan, out>>
      BY <1>11, <2>2, ExpiringStands DEF ReadSession, world
    <2>3. QED
      BY <1>11, <2>1, <2>2 DEF ReadSession
  <1>12. CASE CheckOrderable(w)
    <2>1. CASE Finish(w, "rejected")
      BY <1>12, <2>1, EndingStands DEF CheckOrderable, world
    <2>2. CASE ~Finish(w, "rejected")
      <3>1. PICK p \in {"refuse", "order"} :
               /\ plan' = [plan EXCEPT ![w] = IF p = "order" THEN "COMPLETED"
                                                             ELSE "EXPIRED"]
               /\ GoTo(w, p)
               /\ p = "refuse" => late[req[w].session]
               /\ UNCHANGED <<lock, req, seen, out, late>>
        BY <1>12, <2>2 DEF CheckOrderable, world
      <3>2. Standing(w)'
        BY <1>0, <3>1 DEF Standing, GoTo
      <3>3. QED
        BY <1>0, <3>1, <3>2, OthersStayStanding DEF GoTo
    <2>3. QED
      BY <2>1, <2>2
  <1>13. QED
    BY <1>1, <1>2, <1>3, <1>4, <1>5, <1>6, <1>7, <1>8, <1>9, <1>10, <1>11,
       <1>12
    DEF Handle

\* Records are made and renewed with 24 hours to live.
LEMMA NoneGoesStale ==
    ASSUME StandingInv, [Next]_vars
    PROVE  NoStale'
  <1> USE DEF StandingInv, StandingOK, NoStale
  <1>1. idem \in [Keys \X Actions -> Records]
    BY DEF LockInv, ControlInv, DataOK
  <1>2. CASE UNCHANGED idem
    BY <1>2
  <1>3. ASSUME NEW w \in Workers, PurgeRecord(w) PROVE NoStale'
    BY <1>3 DEF Standing, PurgeRecord
  <1>4. ASSUME NEW w \in Workers, InsertRecord(w) PROVE NoStale'
    BY <1>1, <1>4 DEF InsertRecord
  <1>5. ASSUME NEW w \in Workers, OverwriteRecord(w) PROVE NoStale'
    BY <1>1, <1>5 DEF OverwriteRecord
  <1>6. ASSUME NEW w \in Workers,
               \/ Submit(w) \/ Crash(w) \/ LockRow(w) \/ CheckIdempotency(w)
               \/ ReloadRow(w) \/ Decide(w) \/ Refuse(w)
               \/ CommitTransition(w) \/ RefreshRow(w) \/ SelfLoopSummary(w)
               \/ ExpireRow(w) \/ LookupRecord(w) \/ ReadSession(w)
               \/ CheckOrderable(w) \/ PlaceOrder(w) \/ Reply(w)
        PROVE  UNCHANGED idem
    BY <1>6
       DEF Submit, Crash, LockRow, CheckIdempotency, ReloadRow, Decide,
           Refuse, CommitTransition, RefreshRow, SelfLoopSummary, ExpireRow,
           LookupRecord, ReadSession, CheckOrderable, PlaceOrder, Reply, db
  <1>7. ASSUME NEW s \in Sessions, Elapse(s) \/ Drift(s)
        PROVE  UNCHANGED idem
    BY <1>7 DEF Elapse, Drift, db
  <1>8. QED
    BY <1>2, <1>3, <1>4, <1>5, <1>6, <1>7 DEF Next, Handle, vars

LEMMA StandingStep == StandingInv /\ [Next]_vars => StandingOK'
  <1> SUFFICES ASSUME StandingInv, [Next]_vars PROVE StandingOK'
    OBVIOUS
  <1>1. ASSUME NEW s \in Sessions, Elapse(s) \/ Drift(s),
               NEW w \in Workers
        PROVE  Standing(w)'
    <2>1. /\ UNCHANGED <<pc, req, seen, plan, lock>>
          /\ \A x \in Sessions : late[x] => late'[x]
      BY <1>1
         DEF Elapse, Drift, db, local, StandingInv, LockInv, ControlInv, DataOK
    <2>2. pc[w] # "idle" => req[w].session \in Sessions
      BY RequestFields DEF StandingInv, LockInv, ControlInv, ThreadsOK, Control
    <2>3. QED
      BY <2>1, <2>2 DEF StandingInv, StandingOK, Standing
  <1>2. CASE UNCHANGED vars
    BY <1>2 DEF vars, StandingInv, StandingOK, Standing, NoStale
  <1>3. QED
    BY <1>1, <1>2, StandingThreads, NoneGoesStale DEF Next, StandingOK

\* The instance reads the same table.
LEMMA SameTable ==
    /\ Lifecycle!Actions = Actions
    /\ Lifecycle!TERMINAL_STATES = TERMINAL_STATES
    /\ \A a : Lifecycle!TargetOf(a) = TargetOf(a)
    /\ \A st : Lifecycle!AllowedActions(st) = AllowedActions(st)
  BY DEF Lifecycle!Actions, Actions, Lifecycle!TERMINAL_STATES,
         TERMINAL_STATES, Lifecycle!TargetOf, TargetOf,
         Lifecycle!AllowedActions, AllowedActions

\* The handlers that write the row take a step of the lifecycle.
LEMMA WritersAdvance ==
    ASSUME StandingInv, NEW w \in Workers,
           Refuse(w) \/ CommitTransition(w) \/ ExpireRow(w) \/ PlaceOrder(w)
    PROVE  Lifecycle!LifecycleNext
  <1> DEFINE s == req[w].session
  <1>1. /\ s \in Sessions /\ Standing(w)
        /\ CommitTransition(w) => req[w].action \in Actions
    BY RequestFields
       DEF Refuse, CommitTransition, ExpireRow, PlaceOrder, StandingInv,
           StandingOK, LockInv, ControlInv, ThreadsOK, Control,
           TransitionPlaces
  <1>2. /\ status \in [Sessions -> Statuses] /\ version \in [Sessions -> Nat]
        /\ lock[s] = w => seen[w] = [status |-> status[s],
                                     version |-> version[s]]
    BY <1>1
       DEF StandingInv, LockInv, ControlInv, DataOK, LockProtectsTheRow
  <1>3. CASE Refuse(w)
    <2>1. CASE plan[w] = "EXPIRED"
      <3>1. Lifecycle!Lapse(s)
        BY <1>1, <1>3, <2>1
           DEF Refuse, SetStatus, Standing, world, Lifecycle!Lapse
      <3>2. QED
        BY <1>1, <3>1 DEF Lifecycle!LifecycleNext
    <2>2. CASE plan[w] # "EXPIRED"
      <3>1. plan[w] = "INVALID" /\ status[s] \notin TERMINAL_STATES
        BY <1>1, <1>2, <1>3, <2>2 DEF Refuse, Standing
      <3>2. Lifecycle!Invalidate(s)
        BY <1>1, <1>3, <3>1, SameTable
           DEF Refuse, SetStatus, world, Lifecycle!Invalidate
      <3>3. QED
        BY <1>1, <3>2 DEF Lifecycle!LifecycleNext
    <2>3. QED
      BY <2>1, <2>2
  <1>4. CASE CommitTransition(w)
    <2>1. /\ seen[w] = [status |-> status[s], version |-> version[s]]
          /\ plan[w] = TargetOf(req[w].action) /\ plan[w] # status[s]
          /\ req[w].action \in AllowedActions(status[s])
      BY <1>1, <1>2, <1>4 DEF CommitTransition, Standing
    <2>2. Lifecycle!Advance(s)
      <3> DEFINE a == req[w].action
      <3>1. /\ a \in Lifecycle!Actions
            /\ a \in Lifecycle!AllowedActions(status[s])
            /\ plan[w] = Lifecycle!TargetOf(a) /\ plan[w] # status[s]
        BY <1>1, <1>4, <2>1, SameTable
      <3>2. /\ status' = [status EXCEPT ![s] = plan[w]]
            /\ version' = [version EXCEPT ![s] = version[s] + 1]
            /\ UNCHANGED <<late, orders>>
        BY <1>4, <2>1 DEF CommitTransition, SetStatus, world
      <3>3. QED
        BY <3>1, <3>2 DEF Lifecycle!Advance
    <2>3. QED
      BY <1>1, <2>2 DEF Lifecycle!LifecycleNext
  <1>5. CASE ExpireRow(w)
    <2>1. Lifecycle!Lapse(s)
      BY <1>1, <1>5 DEF ExpireRow, SetStatus, Standing, world, Lifecycle!Lapse
    <2>2. QED
      BY <1>1, <2>1 DEF Lifecycle!LifecycleNext
  <1>6. CASE PlaceOrder(w)
    <2>1. Lifecycle!Sell(s)
      BY <1>1, <1>6
         DEF PlaceOrder, SetStatus, Standing, world, Lifecycle!Sell
    <2>2. QED
      BY <1>1, <2>1 DEF Lifecycle!LifecycleNext
  <1>7. QED
    BY <1>3, <1>4, <1>5, <1>6

LEMMA LifecycleStep ==
    StandingInv /\ [Next]_vars => [Lifecycle!LifecycleNext]_(Lifecycle!rowvars)
  <1> SUFFICES ASSUME StandingInv, [Next]_vars
               PROVE  \/ Lifecycle!LifecycleNext
                      \/ UNCHANGED <<status, version, late, orders>>
    BY DEF Lifecycle!rowvars
  <1>1. ASSUME NEW w \in Workers,
               \/ Submit(w) \/ Crash(w) \/ LockRow(w) \/ CheckIdempotency(w)
               \/ PurgeRecord(w) \/ ReloadRow(w) \/ Decide(w)
               \/ RefreshRow(w) \/ SelfLoopSummary(w) \/ LookupRecord(w)
               \/ InsertRecord(w) \/ OverwriteRecord(w) \/ ReadSession(w)
               \/ CheckOrderable(w) \/ Reply(w)
        PROVE  UNCHANGED <<status, version, late, orders>>
    BY <1>1
       DEF Submit, Crash, LockRow, CheckIdempotency, PurgeRecord, ReloadRow,
           Decide, RefreshRow, SelfLoopSummary, LookupRecord, InsertRecord,
           OverwriteRecord, ReadSession, CheckOrderable, Reply, db, world
  <1>2. ASSUME NEW s \in Sessions, Elapse(s)
        PROVE  Lifecycle!LifecycleNext
    BY <1>2 DEF Elapse, db, Lifecycle!LifecycleNext, Lifecycle!Deadline
  <1>3. ASSUME NEW s \in Sessions, Drift(s)
        PROVE  UNCHANGED <<status, version, late, orders>>
    BY <1>3 DEF Drift, db
  <1>4. CASE UNCHANGED vars
    BY <1>4 DEF vars
  <1>5. QED
    BY <1>1, <1>2, <1>3, <1>4, WritersAdvance DEF Next, Handle

\* As long as no idempotency record is past its 24 hours, what concurrent
\* requests, expiries, orders and crashes do to a session is a lifecycle.
THEOREM Refinement ==
    ASSUME StaleRecords = {}
    PROVE  Spec => ImplementsLifecycle
  <1>1. Init => StandingInv /\ Lifecycle!LifecycleInit
    BY ControlInit, LockInit, StandingInit
       DEF StandingInv, LockInv, Init, Lifecycle!LifecycleInit
  <1>2. StandingInv /\ [Next]_vars => StandingInv'
    BY ControlStep, LockStep, StandingStep DEF StandingInv, LockInv
  <1>3. QED
    BY <1>1, <1>2, LifecycleStep, PTL
       DEF Spec, ImplementsLifecycle, Lifecycle!LifecycleSpec

-----------------------------------------------------------------------------
(* Replays: what is recorded was true, and stays with its owner            *)

\* The places of a request that has its answer, and those of a request that
\* the access control has let through.
AnswerPlaces == {"refresh", "summary", "lookup", "insert", "overwrite"}

AdmittedPlaces == AnswerPlaces \union
    {"gate", "purge", "reload", "decide", "advance", "expire"}

\* The status a request is going to report is one its session has had.
Answer(w) ==
    /\ \/ pc[w] \in AnswerPlaces
       \/ pc[w] = "expire" /\ req[w].op = "transition"
       => plan[w] \in visited[req[w].session]
    /\ pc[w] \in AdmittedPlaces => AccessAllowed(req[w])

\* A record reports what was true, and its owner may see its session.
RecordOK(rec) ==
    rec.state = "completed" =>
        /\ rec.session \in Sessions
        /\ rec.result \in visited[rec.session]
        /\ Owner[rec.session] \in {rec.owner, None}

ReplayOK ==
    /\ \A x \in Keys \X Actions : RecordOK(idem[x])
    /\ \A w \in Workers : Answer(w)

ReplayInv == PathInv /\ ReplayOK

LEMMA ReplayInit == Init => ReplayOK
  BY DEF Init, ReplayOK, RecordOK, Answer, NoRecord, StaleRecord,
         AnswerPlaces, AdmittedPlaces

\* Statuses are only ever added to the history.
LEMMA HistoryGrows ==
    ASSUME PathInv, [Next]_vars
    PROVE  \A s \in Sessions : visited[s] \subseteq visited'[s]
  <1>1. CASE UNCHANGED visited
    BY <1>1
  <1>2. ASSUME NEW w \in Workers,
               Refuse(w) \/ CommitTransition(w) \/ ExpireRow(w) \/ PlaceOrder(w)
        PROVE  \A s \in Sessions : visited[s] \subseteq visited'[s]
    <2>1. req[w].session \in Sessions
      BY <1>2, RequestFields
         DEF Refuse, CommitTransition, ExpireRow, PlaceOrder, PathInv,
             ControlInv, ThreadsOK, Control
    <2>2. QED
      BY <1>2, <2>1, SetStatusGrows
         DEF Refuse, CommitTransition, ExpireRow, PlaceOrder
  <1>3. ASSUME NEW w \in Workers,
               \/ Submit(w) \/ Crash(w) \/ LockRow(w) \/ CheckIdempotency(w)
               \/ PurgeRecord(w) \/ ReloadRow(w) \/ Decide(w)
               \/ RefreshRow(w) \/ SelfLoopSummary(w) \/ LookupRecord(w)
               \/ InsertRecord(w) \/ OverwriteRecord(w) \/ ReadSession(w)
               \/ CheckOrderable(w) \/ Reply(w)
        PROVE  UNCHANGED visited
    BY <1>3
       DEF Submit, Crash, LockRow, CheckIdempotency, PurgeRecord, ReloadRow,
           Decide, RefreshRow, SelfLoopSummary, LookupRecord, InsertRecord,
           OverwriteRecord, ReadSession, CheckOrderable, Reply, hist
  <1>4. ASSUME NEW s \in Sessions, Elapse(s) \/ Drift(s)
        PROVE  UNCHANGED visited
    BY <1>4 DEF Elapse, Drift, hist
  <1>5. QED
    BY <1>1, <1>2, <1>3, <1>4 DEF Next, Handle, vars

\* A step of w leaves what the other threads will answer true.
LEMMA OthersStayTrue ==
    ASSUME ReplayInv, NEW w \in Workers,
           \A v \in Workers :
              v # w => /\ pc'[v] = pc[v] /\ req'[v] = req[v]
                       /\ plan'[v] = plan[v],
           \A s \in Sessions : visited[s] \subseteq visited'[s],
           Answer(w)'
    PROVE  \A v \in Workers : Answer(v)'
  <1> SUFFICES ASSUME NEW v \in Workers, v # w PROVE Answer(v)'
    OBVIOUS
  <1>1. pc[v] # "idle" => req[v].session \in Sessions
    BY RequestFields DEF ReplayInv, PathInv, ControlInv, ThreadsOK, Control
  <1>2. QED
    BY <1>1 DEF Answer, AnswerPlaces, AdmittedPlaces, AccessAllowed,
                ReplayInv, ReplayOK

\* Going on with an answer that is already true, or without any.
LEMMA MovingStaysTrue ==
    ASSUME ReplayInv, NEW w \in Workers, NEW p \in Places, GoTo(w, p),
           \A v \in Workers :
              v # w => req'[v] = req[v] /\ plan'[v] = plan[v],
           \A s \in Sessions : visited[s] \subseteq visited'[s],
           \/ p \notin AdmittedPlaces
           \/ /\ UNCHANGED <<req, plan>>
              /\ AccessAllowed(req[w])
              /\ \/ p \in AnswerPlaces
                 \/ p = "expire" /\ req[w].op = "transition"
                 => plan[w] \in visited'[req[w].session]
    PROVE  \A v \in Workers : Answer(v)'
  <1>1. Answer(w)'
    BY DEF GoTo, Answer, AccessAllowed, AnswerPlaces, AdmittedPlaces,
           ReplayInv, PathInv, ControlInv, ThreadsOK
  <1>2. QED
    BY <1>1, OthersStayTrue
       DEF GoTo, ReplayInv, PathInv, ControlInv, ThreadsOK

LEMMA EndingStaysTrue ==
    ASSUME ReplayInv, NEW w \in Workers, NEW o, Finish(w, o),
           \A s \in Sessions : visited[s] \subseteq visited'[s]
    PROVE  \A v \in Workers : Answer(v)'
  BY MovingStaysTrue
     DEF Finish, AdmittedPlaces, AnswerPlaces, Places, ReplayInv, PathInv,
         ControlInv, ThreadsOK

\* The handlers that answer, or take a decision towards an answer.
LEMMA AnsweringThreads ==
    ASSUME ReplayInv, NEW w \in Workers, Submit(w) \/ Handle(w) \/ Crash(w)
    PROVE  \A v \in Workers : Answer(v)'
  <1>0. /\ Answer(w) /\ Decision(w)
        /\ pc[w] # "idle" => req[w].session \in Sessions
        /\ pc[w] \in TransitionPlaces => req[w].op = "transition"
        /\ \A s \in Sessions : visited[s] \subseteq visited'[s]
        /\ pc \in [Workers -> Places]
        /\ plan \in [Workers -> Statuses \union {None}]
        /\ visited \in [Sessions -> SUBSET Statuses]
    BY HistoryGrows, RequestFields
       DEF ReplayInv, ReplayOK, PathInv, PathOK, ControlInv, ThreadsOK,
           DataOK, Control, Next
  <1>1. CASE Submit(w) \/ Reply(w) \/ Crash(w)
    BY <1>0, <1>1, MovingStaysTrue
       DEF Submit, Reply, Crash, Places, AdmittedPlaces, AnswerPlaces,
           ReplayInv, PathInv, ControlInv, ThreadsOK
  <1>2. CASE \E o \in Outcomes : Finish(w, o)
    BY <1>0, <1>2, EndingStaysTrue
  <1>3. CASE LockRow(w)
    BY <1>0, <1>2, <1>3, MovingStaysTrue
       DEF LockRow, Places, AnswerPlaces, Outcomes
  <1>4. CASE CheckIdempotency(w)
    BY <1>0, <1>2, <1>4, MovingStaysTrue
       DEF CheckIdempotency, Places, AnswerPlaces, AdmittedPlaces, Outcomes,
           Answer
  <1>5. CASE PurgeRecord(w) \/ ReloadRow(w)
    BY <1>0, <1>5, MovingStaysTrue
       DEF PurgeRecord, ReloadRow, Places, AnswerPlaces, AdmittedPlaces,
           Answer
  <1>6. CASE Decide(w)
    <2>1. CASE ~Finish(w, "rejected")
      <3>1. PICK p \in {"refuse", "summary", "advance"} :
               /\ GoTo(w, p) /\ UNCHANGED <<req, visited>>
               /\ \E st : plan' = [plan EXCEPT ![w] = st]
               /\ p = "summary" =>
                     /\ seen[w].status = TargetOf(req[w].action)
                     /\ plan' = [plan EXCEPT ![w] = seen[w].status]
        BY <1>6, <2>1 DEF Decide, hist
      <3>2. AccessAllowed(req[w]) /\ seen[w].status \in visited[req[w].session]
        BY <1>0, <1>6 DEF Decide, Answer, AdmittedPlaces, Decision
      <3>3. Answer(w)'
        BY <1>0, <3>1, <3>2
           DEF Answer, GoTo, AnswerPlaces, AdmittedPlaces, AccessAllowed
      <3>4. QED
        BY <1>0, <3>1, <3>3, OthersStayTrue DEF GoTo
    <2>2. QED
      BY <1>2, <2>1 DEF Outcomes
  <1>7. CASE Refuse(w) \/ InsertRecord(w) \/ OverwriteRecord(w) \/ PlaceOrder(w)
    BY <1>2, <1>7
       DEF Refuse, InsertRecord, OverwriteRecord, PlaceOrder, Outcomes
  <1>8. CASE CommitTransition(w)
    <2>1. plan[w] \in visited'[req[w].session]
      BY <1>0, <1>8 DEF CommitTransition, SetStatus
    <2>2. QED
      BY <1>0, <1>8, <2>1, MovingStaysTrue
         DEF CommitTransition, Places, AnswerPlaces, AdmittedPlaces, Answer
  <1>9. CASE RefreshRow(w) \/ SelfLoopSummary(w) \/ LookupRecord(w)
    <2>1. AccessAllowed(req[w]) /\ plan[w] \in visited'[req[w].session]
      BY <1>0, <1>9
         DEF RefreshRow, SelfLoopSummary, LookupRecord, Answer, AnswerPlaces,
             AdmittedPlaces
    <2>2. CASE \E p \in {"expire", "lookup", "insert", "overwrite"} :
                  GoTo(w, p) /\ UNCHANGED <<req, plan>>
      BY <1>0, <2>1, <2>2, MovingStaysTrue DEF Places
    <2>3. QED
      BY <1>2, <1>9, <2>2
         DEF RefreshRow, SelfLoopSummary, LookupRecord, AfterSummary, Outcomes
  <1>10. CASE ExpireRow(w)
    <2>1. CASE /\ req[w].key # None /\ GoTo(w, "lookup")
               /\ UNCHANGED <<req, plan>>
      <3>1. req[w].op = "transition"
        BY <1>10, <2>1, RequestFields
           DEF ExpireRow, ReplayInv, PathInv, ControlInv, ThreadsOK, Control
      <3>2. AccessAllowed(req[w]) /\ plan[w] \in visited'[req[w].session]
        BY <1>0, <1>10, <3>1 DEF ExpireRow, Answer, AdmittedPlaces
      <3>3. QED
        BY <1>0, <2>1, <3>2, MovingStaysTrue DEF Places
    <2>2. QED
      BY <1>2, <1>10, <2>1 DEF ExpireRow, Outcomes
  <1>11. CASE ReadSession(w)
    BY <1>0, <1>2, <1>11, MovingStaysTrue
       DEF ReadSession, Places, AnswerPlaces, Outcomes
  <1>12. CASE CheckOrderable(w)
    <2>1. CASE ~Finish(w, "rejected")
      <3>1. PICK p \in {"refuse", "order"} :
               /\ GoTo(w, p) /\ UNCHANGED req
               /\ \E st : plan' = [plan EXCEPT ![w] = st]
        BY <1>12, <2>1 DEF CheckOrderable
      <3>2. QED
        BY <1>0, <3>1, MovingStaysTrue
           DEF Places, AnswerPlaces, AdmittedPlaces
    <2>2. QED
      BY <1>2, <2>1 DEF Outcomes
  <1>13. QED
    BY <1>1, <1>3, <1>4, <1>5, <1>6, <1>7, <1>8, <1>9, <1>10, <1>11, <1>12
       DEF Handle

\* Who may see a session is who its record is made for.
LEMMA RecorderMaySee ==
    ASSUME NEW r \in Requests, AccessAllowed(r)
    PROVE  /\ Owner[r.session] \in {EffectiveUser(r), None}
           /\ EffectiveUser(r) = None => Owner[r.session] = None
  BY DEF AccessAllowed, EffectiveUser

\* The handlers that write a record.
LEMMA RecordsStayTrue ==
    ASSUME ReplayInv, [Next]_vars
    PROVE  \A x \in Keys \X Actions : RecordOK(idem[x])'
  <1>0. /\ \A s \in Sessions : visited[s] \subseteq visited'[s]
        /\ idem \in [Keys \X Actions -> Records]
        /\ \A x \in Keys \X Actions : RecordOK(idem[x])
    BY HistoryGrows DEF ReplayInv, ReplayOK, PathInv, ControlInv, DataOK
  <1>1. ASSUME NEW x \in Keys \X Actions, idem'[x] = idem[x]
        PROVE  RecordOK(idem[x])'
    BY <1>0, <1>1 DEF RecordOK
  <1>2. ASSUME NEW w \in Workers, PurgeRecord(w),
               NEW x \in Keys \X Actions, idem'[x] # idem[x]
        PROVE  RecordOK(idem[x])'
    BY <1>0, <1>2 DEF PurgeRecord, RecordOK, NoRecord
  <1>3. ASSUME NEW w \in Workers, InsertRecord(w) \/ OverwriteRecord(w),
               NEW x \in Keys \X Actions, idem'[x] # idem[x]
        PROVE  RecordOK(idem[x])'
    <2> DEFINE r == req[w]
    <2>1. /\ r \in Requests /\ r.session \in Sessions
          /\ AccessAllowed(r) /\ plan[w] \in visited[r.session]
      BY <1>3, RequestFields
         DEF InsertRecord, OverwriteRecord, ReplayInv, ReplayOK, Answer,
             AnswerPlaces, AdmittedPlaces, PathInv, ControlInv, ThreadsOK,
             Control
    <2>2. /\ Owner[r.session] \in {EffectiveUser(r), None}
          /\ EffectiveUser(r) = None => Owner[r.session] = None
      BY <2>1, RecorderMaySee
    <2>3. /\ idem'[x].session = r.session /\ idem'[x].result = plan[w]
          /\ idem'[x].owner = EffectiveUser(r) \/ EffectiveUser(r) = None
          /\ UNCHANGED visited
      <3>1. CASE InsertRecord(w)
        BY <1>0, <1>3, <3>1 DEF InsertRecord, hist
      <3>2. CASE OverwriteRecord(w)
        BY <1>0, <1>3, <3>2 DEF OverwriteRecord, hist
      <3>3. QED
        BY <1>3, <3>1, <3>2
    <2>4. QED
      BY <1>0, <2>1, <2>2, <2>3 DEF RecordOK
  <1>4. ASSUME NEW w \in Workers,
               \/ Submit(w) \/ Crash(w) \/ LockRow(w) \/ CheckIdempotency(w)
               \/ ReloadRow(w) \/ Decide(w) \/ Refuse(w)
               \/ CommitTransition(w) \/ RefreshRow(w) \/ SelfLoopSummary(w)
               \/ ExpireRow(w) \/ LookupRecord(w) \/ ReadSession(w)
               \/ CheckOrderable(w) \/ PlaceOrder(w) \/ Reply(w)
        PROVE  UNCHANGED idem
    BY <1>4
       DEF Submit, Crash, LockRow, CheckIdempotency, ReloadRow, Decide,
           Refuse, CommitTransition, RefreshRow, SelfLoopSummary, ExpireRow,
           LookupRecord, ReadSession, CheckOrderable, PlaceOrder, Reply, db
  <1>5. ASSUME NEW s \in Sessions, Elapse(s) \/ Drift(s)
        PROVE  UNCHANGED idem
    BY <1>5 DEF Elapse, Drift, db
  <1>6. QED
    BY <1>1, <1>2, <1>3, <1>4, <1>5 DEF Next, Handle, vars

LEMMA ReplayStep == ReplayInv /\ [Next]_vars => ReplayOK'
  <1> SUFFICES ASSUME ReplayInv, [Next]_vars PROVE ReplayOK'
    OBVIOUS
  <1>1. ASSUME NEW s \in Sessions, Elapse(s) \/ Drift(s)
        PROVE  \A w \in Workers : Answer(w)'
    BY <1>1 DEF Elapse, Drift, local, hist, ReplayInv, ReplayOK, Answer,
                AccessAllowed
  <1>2. CASE UNCHANGED vars
    <2>1. UNCHANGED <<idem, pc, req, plan, visited>>
      BY <1>2 DEF vars
    <2>2. \A w \in Workers : Answer(w)'
      BY <2>1 DEF ReplayInv, ReplayOK, Answer, AccessAllowed
    <2>3. QED
      BY <1>2, <2>2, RecordsStayTrue DEF ReplayOK
  <1>3. QED
    BY <1>1, <1>2, AnsweringThreads, RecordsStayTrue DEF Next, ReplayOK

\* What holds of the records and of the answers on their way to them.
LEMMA ReplayInvariant == Spec => []ReplayInv
  <1>1. Init => ReplayInv
    BY ControlInit, PathInit, ReplayInit DEF PathInv, ReplayInv
  <1>2. ReplayInv /\ [Next]_vars => ReplayInv'
    BY ControlStep, PathStep, ReplayStep DEF PathInv, ReplayInv
  <1>3. QED
    BY <1>1, <1>2, PTL DEF Spec

\* A response kept for replay was true of the session it is about, whatever
\* came between the commit of the transition and that of its record.
THEOREM ReplaysAreTrue == Spec => []ReplaysTellTheTruth
  <1>1. ReplayInv => ReplaysTellTheTruth
    BY DEF ReplayInv, ReplayOK, RecordOK, ReplaysTellTheTruth
  <1>2. QED
    BY <1>1, ReplayInvariant, PTL

\* A request has no outcome before it is done.
Pending == \A w \in Workers : pc[w] # "done" => out[w] = None

LEMMA StaysPending == ControlInv /\ Pending /\ [Next]_vars => Pending'
  <1> SUFFICES ASSUME ControlInv, Pending, [Next]_vars,
                      NEW v \in Workers, pc'[v] # "done"
               PROVE  out'[v] = None
    BY DEF Pending
  <1>0. /\ pc \in [Workers -> Places] /\ out \in [Workers -> Outcomes \union {None}]
        /\ pc[v] # "done" => out[v] = None
    BY DEF ControlInv, ThreadsOK, Pending
  <1>1. ASSUME NEW w \in Workers, NEW o, Finish(w, o)
        PROVE  out'[v] = None
    BY <1>0, <1>1 DEF Finish, GoTo
  <1>2. ASSUME NEW w \in Workers, NEW p, GoTo(w, p), UNCHANGED out,
               pc[w] # "done"
        PROVE  out'[v] = None
    BY <1>0, <1>2 DEF GoTo
  <1>3. ASSUME NEW w \in Workers, Submit(w) \/ Reply(w) \/ Crash(w)
        PROVE  out'[v] = None
    BY <1>0, <1>3 DEF Submit, Reply, Crash, GoTo
  <1>4. ASSUME NEW w \in Workers,
               LockRow(w) \/ CheckIdempotency(w) \/ PurgeRecord(w) \/ ReloadRow(w)
        PROVE  out'[v] = None
    BY <1>1, <1>2, <1>4 DEF LockRow, CheckIdempotency, PurgeRecord, ReloadRow
  <1>5. ASSUME NEW w \in Workers, Decide(w) \/ Refuse(w) \/ CommitTransition(w)
        PROVE  out'[v] = None
    BY <1>1, <1>2, <1>5 DEF Decide, Refuse, CommitTransition
  <1>6. ASSUME NEW w \in Workers,
               RefreshRow(w) \/ SelfLoopSummary(w) \/ ExpireRow(w)
        PROVE  out'[v] = None
    BY <1>1, <1>2, <1>6
       DEF RefreshRow, SelfLoopSummary, ExpireRow, AfterSummary
  <1>7. ASSUME NEW w \in Workers,
               LookupRecord(w) \/ InsertRecord(w) \/ OverwriteRecord(w)
        PROVE  out'[v] = None
    BY <1>1, <1>2, <1>7 DEF LookupRecord, InsertRecord, OverwriteRecord
  <1>8. ASSUME NEW w \in Workers,
               ReadSession(w) \/ CheckOrderable(w) \/ PlaceOrder(w)
        PROVE  out'[v] = None
    BY <1>1, <1>2, <1>8 DEF ReadSession, CheckOrderable, PlaceOrder
  <1>9. ASSUME \/ \E s \in Sessions : Elapse(s) \/ Drift(s)
               \/ UNCHANGED vars
        PROVE  out'[v] = None
    BY <1>0, <1>9 DEF Elapse, Drift, local, vars
  <1>10. QED
    BY <1>3, <1>4, <1>5, <1>6, <1>7, <1>8, <1>9 DEF Next, Handle

\* Only check_idempotency replays.
LEMMA OnlyTheGateReplays ==
    ASSUME ControlInv, Pending, [Next]_vars, NEW w \in Workers,
           pc[w] = "gate", out'[w] = "replayed"
    PROVE  LET rec == idem[RecordOf(req[w])] IN
              rec.state = "completed" /\ ~Foreign(rec, req[w])
  <1>0. /\ out[w] = None /\ None # "replayed"
        /\ out \in [Workers -> Outcomes \union {None}]
    BY OutcomesAssumption DEF Pending, ControlInv, ThreadsOK, Outcomes
  <1>1. ASSUME NEW v \in Workers, Handle(v), v # w
        PROVE  UNCHANGED <<out[w]>>
    <2>1. \/ \E o : out' = [out EXCEPT ![v] = o]
          \/ UNCHANGED out
      BY <1>1
         DEF Handle, Finish, Reply, LockRow, CheckIdempotency, PurgeRecord,
             ReloadRow, Decide, Refuse, CommitTransition, RefreshRow,
             SelfLoopSummary, AfterSummary, ExpireRow, LookupRecord,
             InsertRecord, OverwriteRecord, ReadSession, CheckOrderable,
             PlaceOrder
    <2>2. QED
      BY <1>0, <1>1, <2>1
  <1>2. ASSUME NEW v \in Workers, Submit(v) \/ Crash(v)
        PROVE  out'[w] = None
    BY <1>0, <1>2 DEF Submit, Crash
  <1>3. ASSUME \/ \E s \in Sessions : Elapse(s) \/ Drift(s)
               \/ UNCHANGED vars
        PROVE  UNCHANGED out
    BY <1>3 DEF Elapse, Drift, local, vars
  <1>4. Handle(w)
    BY <1>0, <1>1, <1>2, <1>3 DEF Next
  <1>5. CheckIdempotency(w)
    BY <1>4
       DEF Handle, Reply, LockRow, PurgeRecord, ReloadRow, Decide, Refuse,
           CommitTransition, RefreshRow, SelfLoopSummary, ExpireRow,
           LookupRecord, InsertRecord, OverwriteRecord, ReadSession,
           CheckOrderable, PlaceOrder
  <1>6. QED
    BY <1>0, <1>5 DEF CheckIdempotency, Finish

\* Nobody who can be told apart is replayed a response about a quote of
\* somebody else, although records are looked up without the quote.
THEOREM ReplaysStayWithOwner == Spec => ReplayStaysWithOwner
  <1>1. ASSUME ReplayInv, Pending, [Next]_vars, NEW w \in Workers,
               pc[w] = "gate", out'[w] = "replayed",
               EffectiveUser(req[w]) # None
        PROVE  Owner[idem[RecordOf(req[w])].session]
                  \in {EffectiveUser(req[w]), None}
    <2> DEFINE rec == idem[RecordOf(req[w])]
    <2>1. RecordOf(req[w]) \in Keys \X Actions
      BY <1>1, RequestFields
         DEF RecordOf, ReplayInv, PathInv, ControlInv, ThreadsOK, Control,
             KeyPlaces, TransitionPlaces
    <2>2. rec.state = "completed" /\ ~Foreign(rec, req[w])
      BY <1>1, OnlyTheGateReplays DEF ReplayInv, PathInv
    <2>3. Owner[rec.session] \in {rec.owner, None}
      BY <1>1, <2>1, <2>2 DEF ReplayInv, ReplayOK, RecordOK
    <2>4. QED
      BY <1>1, <2>2, <2>3 DEF Foreign
  <1>2. Init => Pending
    BY DEF Init, Pending
  <1>3. ReplayInv /\ Pending /\ [Next]_vars => Pending'
    BY StaysPending DEF ReplayInv, PathInv
  <1>4. ReplayInv /\ Pending /\ [Next]_vars =>
           [\A w \in Workers :
              (pc[w] = "gate" /\ out'[w] = "replayed") =>
                LET u == EffectiveUser(req[w])
                    about == idem[RecordOf(req[w])].session
                IN  u # None => Owner[about] \in {u, None}]_vars
    BY <1>1
  <1>5. QED
    BY <1>2, <1>3, <1>4, ReplayInvariant, PTL DEF ReplayStaysWithOwner, Spec

-----------------------------------------------------------------------------
(* The version counts the transitions                                      *)

\* How far along the table a status is; nothing leads out of the last ones.
RankOf(st) ==
    CASE st = "QUOTE_VALID"            -> 1
      [] st = "AUTHORIZATION_REQUIRED" -> 2
      [] st = "AUTHORIZED"             -> 3
      [] st = "PAYMENT_PENDING"        -> 4
      [] st = "PAID"                   -> 5
      [] st = "ORDER_PENDING"          -> 6
      [] st \in TERMINAL_STATES        -> 7
      [] OTHER                         -> 0

\* Where each action leads, by rank.
LEMMA RanksOfTargets ==
    /\ RankOf(TargetOf("VALIDATE_QUOTE")) = 1
    /\ RankOf(TargetOf("REQUEST_AUTHORIZATION")) = 2
    /\ RankOf(TargetOf("AUTHORIZE")) = 3
    /\ RankOf(TargetOf("INITIATE_PAYMENT")) = 4
    /\ RankOf(TargetOf("CONFIRM_PAYMENT")) = 5
    /\ RankOf(TargetOf("SUBMIT_ORDER")) = 6
    /\ \A a \in {"COMPLETE", "CANCEL", "FAIL", "INVALIDATE"} :
          RankOf(TargetOf(a)) = 7
  BY DEF TargetOf, RankOf, TERMINAL_STATES

\* The table has no cycle but the self-loops.
LEMMA TableClimbs ==
    ASSUME NEW st, NEW a \in AllowedActions(st), TargetOf(a) # st
    PROVE  RankOf(st) < RankOf(TargetOf(a))
  <1>1. CASE st \in {"QUOTE_CREATED", "PENDING"}
    <2>1. RankOf(st) = 0
      BY <1>1 DEF RankOf, TERMINAL_STATES
    <2>2. QED
      BY <1>1, <2>1, RanksOfTargets DEF AllowedActions
  <1>2. CASE st = "QUOTE_VALID"
    <2>1. TargetOf("VALIDATE_QUOTE") = "QUOTE_VALID"
      BY DEF TargetOf
    <2>2. RankOf(st) = 1
      BY <1>2, <2>1, RanksOfTargets
    <2>3. a \in {"REQUEST_AUTHORIZATION", "CANCEL", "INVALIDATE", "FAIL"}
      BY <1>2, <2>1 DEF AllowedActions
    <2>4. QED
      BY <2>2, <2>3, RanksOfTargets
  <1>3. CASE st = "AUTHORIZATION_REQUIRED"
    BY <1>3, RanksOfTargets DEF AllowedActions, RankOf
  <1>4. CASE st = "AUTHORIZED"
    BY <1>4, RanksOfTargets DEF AllowedActions, RankOf
  <1>5. CASE st = "PAYMENT_PENDING"
    BY <1>5, RanksOfTargets DEF AllowedActions, RankOf
  <1>6. CASE st = "PAID"
    BY <1>6, RanksOfTargets DEF AllowedActions, RankOf
  <1>7. CASE st = "ORDER_PENDING"
    BY <1>7, RanksOfTargets DEF AllowedActions, RankOf
  <1>8. QED
    BY <1>1, <1>2, <1>3, <1>4, <1>5, <1>6, <1>7 DEF AllowedActions

LEMMA RanksEnd ==
    /\ \A st : RankOf(st) \in 0 .. 7
    /\ \A st \in {"EXPIRED", "INVALID", "COMPLETED"} : RankOf(st) = 7
  BY DEF RankOf, TERMINAL_STATES

\* What has been committed on a session is not ahead of its status.
CountOK ==
    /\ IsFiniteSet(effects)
    /\ \A e \in effects : RankOf(TargetOf(e[2])) <= RankOf(status[e[1]])
    /\ VersionCountsTransitions

CountInv == StandingInv /\ CountOK

LEMMA CountInit == Init => CountOK
  <1> SUFFICES ASSUME Init PROVE CountOK
    OBVIOUS
  <1>1. /\ effects = {}
        /\ \A s \in Sessions : EffectsOn(s) = {} /\ version[s] = 1
    BY DEF Init, EffectsOn
  <1>2. QED
    BY <1>1, FS_EmptySet DEF CountOK, VersionCountsTransitions

\* Steps that commit no transition only move a session on.
LEMMA NothingCounted ==
    ASSUME CountInv, UNCHANGED <<effects, version>>,
           \A s \in Sessions :
              \/ status'[s] = status[s]
              \/ status'[s] \in {"EXPIRED", "INVALID", "COMPLETED"}
    PROVE  CountOK'
  <1>1. ASSUME NEW e \in effects
        PROVE  RankOf(TargetOf(e[2])) <= RankOf(status'[e[1]])
    <2>1. e[1] \in Sessions
      BY DEF CountInv, StandingInv, LockInv, ControlInv, DataOK
    <2>2. RankOf(TargetOf(e[2])) <= RankOf(status[e[1]])
      BY DEF CountInv, CountOK
    <2>3. QED
      BY <2>1, <2>2, RanksEnd
  <1>2. QED
    BY <1>1 DEF CountInv, CountOK, VersionCountsTransitions, EffectsOn

\* The same action with the same key is committed on a session once: when it
\* is committed, the session moves beyond all that was committed before.
LEMMA CommitIsCounted ==
    ASSUME CountInv, NEW w \in Workers, CommitTransition(w)
    PROVE  CountOK'
  <1> DEFINE s == req[w].session
             a == req[w].action
             e == <<s, a, req[w].key>>
  <1>1. /\ s \in Sessions /\ a \in Actions
        /\ status \in [Sessions -> Statuses] /\ version \in [Sessions -> Nat]
        /\ effects \subseteq Sessions \X Actions \X (Keys \union {None})
    BY RequestFields
       DEF CommitTransition, CountInv, StandingInv, LockInv, ControlInv,
           ThreadsOK, DataOK, Control, TransitionPlaces
  <1>2. Standing(w) /\ pc[w] = "advance"
    BY DEF CommitTransition, CountInv, StandingInv, StandingOK
  <1>3. seen[w] = [status |-> status[s], version |-> version[s]]
    BY <1>1, <1>2
       DEF Standing, CountInv, StandingInv, LockInv, LockProtectsTheRow
  <1>4. /\ a \in AllowedActions(status[s]) /\ TargetOf(a) # status[s]
        /\ plan[w] = TargetOf(a)
    BY <1>2, <1>3 DEF Standing
  <1>5. /\ status' = [status EXCEPT ![s] = TargetOf(a)]
        /\ version' = [version EXCEPT ![s] = version[s] + 1]
        /\ effects' = effects \union {e}
    BY <1>1, <1>3, <1>4 DEF CommitTransition, SetStatus
  <1>6. RankOf(status[s]) < RankOf(TargetOf(a))
    BY <1>4, TableClimbs
  <1>7. \A f \in effects : RankOf(TargetOf(f[2])) <= RankOf(status[f[1]])
    BY DEF CountInv, CountOK
  <1>8. e \notin effects
    BY <1>6, <1>7, RanksEnd
  <1>9. ASSUME NEW f \in effects'
        PROVE  RankOf(TargetOf(f[2])) <= RankOf(status'[f[1]])
    <2>1. CASE f = e
      BY <1>1, <1>5, <2>1, RanksEnd
    <2>2. CASE f \in effects
      <3>1. RankOf(TargetOf(f[2])) <= RankOf(status[f[1]]) /\ f[1] \in Sessions
        BY <1>1, <1>7, <2>2
      <3>2. RankOf(status[f[1]]) <= RankOf(status'[f[1]])
        BY <1>1, <1>5, <1>6, <3>1, RanksEnd
      <3>3. QED
        BY <3>1, <3>2, RanksEnd
    <2>3. QED
      BY <1>5, <2>1, <2>2
  <1>10. ASSUME NEW x \in Sessions
         PROVE  version'[x] = 1 + Cardinality(EffectsOn(x)')
    <2>0. version[x] = 1 + Cardinality(EffectsOn(x)) /\ IsFiniteSet(effects)
      BY DEF CountInv, CountOK, VersionCountsTransitions
    <2>1. CASE x = s
      <3>1. EffectsOn(x)' = EffectsOn(x) \union {e} /\ e \notin EffectsOn(x)
        BY <1>5, <1>8, <2>1 DEF EffectsOn
      <3>2. IsFiniteSet(EffectsOn(x))
        BY <2>0, FS_Subset DEF EffectsOn
      <3>3. /\ Cardinality(EffectsOn(x)') = Cardinality(EffectsOn(x)) + 1
            /\ Cardinality(EffectsOn(x)) \in Nat
        BY <3>1, <3>2, FS_AddElement, FS_CardinalityType
      <3>4. version'[x] = version[x] + 1
        BY <1>1, <1>5, <2>1
      <3>5. QED
        BY <2>0, <3>3, <3>4
    <2>2. CASE x # s
      <3>1. EffectsOn(x)' = EffectsOn(x)
        BY <1>5, <2>2 DEF EffectsOn
      <3>2. QED
        BY <1>1, <1>5, <2>0, <2>2, <3>1
    <2>3. QED
      BY <2>1, <2>2
  <1>11. IsFiniteSet(effects')
    BY <1>5, FS_AddElement DEF CountInv, CountOK
  <1>12. QED
    BY <1>9, <1>10, <1>11 DEF CountOK, VersionCountsTransitions

LEMMA CountStep == CountInv /\ [Next]_vars => CountOK'
  <1> SUFFICES ASSUME CountInv, [Next]_vars PROVE CountOK'
    OBVIOUS
  <1>1. ASSUME NEW w \in Workers, Refuse(w) \/ ExpireRow(w) \/ PlaceOrder(w)
        PROVE  CountOK'
    <2>1. Standing(w) /\ status \in [Sessions -> Statuses]
      BY DEF CountInv, StandingInv, StandingOK, LockInv, ControlInv, DataOK
    <2>2. \E st \in {"EXPIRED", "INVALID", "COMPLETED"} :
             SetStatus(req[w].session, st)
      BY <1>1, <2>1 DEF Refuse, ExpireRow, PlaceOrder, Standing
    <2>3. UNCHANGED <<effects, version>>
      BY <1>1 DEF Refuse, ExpireRow, PlaceOrder
    <2>4. QED
      BY <2>1, <2>2, <2>3, NothingCounted DEF SetStatus
  <1>2. ASSUME NEW w \in Workers,
               \/ Submit(w) \/ Crash(w) \/ LockRow(w) \/ CheckIdempotency(w)
               \/ PurgeRecord(w) \/ ReloadRow(w) \/ Decide(w)
               \/ RefreshRow(w) \/ SelfLoopSummary(w) \/ LookupRecord(w)
               \/ InsertRecord(w) \/ OverwriteRecord(w) \/ ReadSession(w)
               \/ CheckOrderable(w) \/ Reply(w)
        PROVE  UNCHANGED <<status, version, effects>>
    BY <1>2
       DEF Submit, Crash, LockRow, CheckIdempotency, PurgeRecord, ReloadRow,
           Decide, RefreshRow, SelfLoopSummary, LookupRecord, InsertRecord,
           OverwriteRecord, ReadSession, CheckOrderable, Reply, db, hist
  <1>3. ASSUME \/ \E s \in Sessions : Elapse(s) \/ Drift(s)
               \/ UNCHANGED vars
        PROVE  UNCHANGED <<status, version, effects>>
    BY <1>3 DEF Elapse, Drift, db, hist, vars
  <1>4. CASE UNCHANGED <<status, version, effects>>
    BY <1>4, NothingCounted
  <1>5. QED
    BY <1>1, <1>2, <1>3, <1>4, CommitIsCounted DEF Next, Handle

\* As long as no idempotency record is past its 24 hours, the version says
\* how many transitions were committed: none is lost under a concurrent one
\* and none is committed twice.
THEOREM VersionCounts ==
    ASSUME StaleRecords = {}
    PROVE  Spec => []VersionCountsTransitions
  <1>1. Init => CountInv
    BY ControlInit, LockInit, StandingInit, CountInit
       DEF CountInv, StandingInv, LockInv
  <1>2. CountInv /\ [Next]_vars => CountInv'
    BY ControlStep, LockStep, StandingStep, CountStep
       DEF CountInv, StandingInv, LockInv
  <1>3. CountInv => VersionCountsTransitions
    BY DEF CountInv, CountOK
  <1>4. QED
    BY <1>1, <1>2, <1>3, PTL DEF Spec
=============================================================================
