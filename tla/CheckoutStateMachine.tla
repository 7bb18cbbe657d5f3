----------------------- MODULE CheckoutStateMachine -----------------------
(***************************************************************************)
(* Concurrent requests against checkout sessions that prepare_checkout has *)
(* already persisted:                                                      *)
(*   "transition"  CheckoutStateMachine.transition (row lock, idempotency  *)
(*                 gate, revalidation, commit, summary, idempotency record)*)
(*   "get"         CheckoutService.get_checkout_session                    *)
(*   "order"       OrderService.create_order                               *)
(* Each request runs in a worker thread with a database transaction of its *)
(* own (get_db_session).  The database is PostgreSQL at READ COMMITTED: a  *)
(* statement sees the rows committed before it, SELECT ... FOR UPDATE and  *)
(* UPDATE wait for the row lock, commit and rollback release it.  An       *)
(* action is one stretch of code between two points where another          *)
(* transaction can be seen.                                                *)
(***************************************************************************)
EXTENDS Naturals, FiniteSets, TransitionTable

CONSTANTS Sessions,      \* checkout sessions (quotes)
          Carts,         \* carts
          CartOf,        \* CartOf[s]: CheckoutSessionModel.cart_id
          Users,         \* shopping sessions of users (X-Session-ID)
          Owner,         \* Owner[s]: CheckoutSessionModel.session_id, or None
          Workers,       \* request threads
          Keys,          \* Idempotency-Key values
          StaleRecords,  \* <<key, action>>: records older than their 24 hours
          Offered,       \* the actions clients ask for
          Bodies,        \* the request.quote_id values clients send
          Ops,           \* the kinds of request clients send
          Events,        \* what happens around them: "elapse", "drift"
          None           \* "no value"

ASSUME ConstantsAssumption ==
    /\ CartOf \in [Sessions -> Carts]
    /\ Owner \in [Sessions -> Users \union {None}]
    /\ StaleRecords \subseteq Keys \X Actions
    /\ Offered \subseteq Actions
    /\ Bodies \subseteq Sessions \union {None}
    /\ Ops \subseteq {"transition", "get", "order"}
    /\ None \notin Sessions \union Workers \union Users \union Keys
                     \union Statuses \union Actions

VARIABLES
    \* the database
    status,      \* status[s]: CheckoutSessionModel.status
    version,     \* version[s]: CheckoutSessionModel.version
    lock,        \* lock[s]: the worker whose transaction holds the row lock
    cartStatus,  \* cartStatus[c]: CartModel.status
    orders,      \* orders[s]: how many OrderModel rows were made from s
    idem,        \* idem[k, a]: CheckoutIdempotencyRecordModel of that key
    \* the world
    late,        \* late[s]: the clock has passed expires_at
    drifted,     \* drifted[s]: some other live precondition of s fails
    \* the request threads
    pc,          \* where the worker is in its handler
    req,         \* the request it serves
    seen,        \* the row as its ORM session has it loaded
    plan,        \* the status it has decided on
    out,         \* how the request ended
    \* history, read by the properties only
    visited,     \* visited[s]: the statuses s has had
    effects      \* <<s, action, key>>: transitions that were committed

db    == <<status, version, lock, cartStatus, orders, idem>>
world == <<late, drifted>>
local == <<pc, req, seen, plan, out>>
hist  == <<visited, effects>>
vars  == <<status, version, lock, cartStatus, orders, idem, late, drifted,
           pc, req, seen, plan, out, visited, effects>>

-----------------------------------------------------------------------------
(* Requests, records and the type invariant                                *)

\* request.quote_id is the part of the body that a fingerprint tells apart
\* and that validate_quote_bindings compares.
TransitionRequests ==
    [op : {"transition"}, session : Sessions, action : Offered,
     key : Keys \union {None}, caller : Users \union {None},
     quote : Bodies]

GetRequests ==
    [op : {"get"}, session : Sessions, action : {None}, key : {None},
     caller : Users \union {None}, quote : {None}]

OrderRequests ==
    [op : {"order"}, session : Sessions, action : {None}, key : {None},
     caller : {None}, quote : {None}]

Requests ==
    {r \in TransitionRequests \union GetRequests \union OrderRequests :
        r.op \in Ops}

NoRecord == [state |-> "none", quote |-> None, owner |-> None,
             session |-> None, result |-> None]

StaleRecord == [NoRecord EXCEPT !.state = "stale"]

Records ==
    [state : {"none", "stale", "completed"}, quote : Sessions \union {None},
     owner : Users \union {None}, session : Sessions \union {None},
     result : Statuses \union {None}]

Unloaded == [status |-> None, version |-> 0]

Outcomes == {"ok", "replayed", "denied", "conflict", "rejected", "expired",
             "invalid", "error"}

ASSUME OutcomesAssumption == None \notin Outcomes

Places ==
    {"idle", "begin", "gate", "purge", "reload", "decide", "advance",
     "refuse", "refresh", "summary", "expire", "lookup", "insert",
     "overwrite", "order", "done"}

\* Every variable has values of its type.
TypeOK ==
    /\ status \in [Sessions -> Statuses]
    /\ version \in [Sessions -> Nat]
    /\ lock \in [Sessions -> Workers \union {None}]
    /\ cartStatus \in [Carts -> {"ACTIVE", "CHECKED_OUT"}]
    /\ orders \in [Sessions -> Nat]
    /\ idem \in [Keys \X Actions -> Records]
    /\ late \in [Sessions -> BOOLEAN]
    /\ drifted \in [Sessions -> BOOLEAN]
    /\ pc \in [Workers -> Places]
    /\ req \in [Workers -> Requests \union {None}]
    /\ seen \in [Workers -> [status : Statuses \union {None}, version : Nat]]
    /\ plan \in [Workers -> Statuses \union {None}]
    /\ out \in [Workers -> Outcomes \union {None}]
    /\ visited \in [Sessions -> SUBSET Statuses]
    /\ effects \subseteq Sessions \X Actions \X (Keys \union {None})

Init ==
    /\ status = [s \in Sessions |-> "PENDING"]
    /\ version = [s \in Sessions |-> 1]
    /\ lock = [s \in Sessions |-> None]
    /\ cartStatus = [c \in Carts |-> "ACTIVE"]
    /\ orders = [s \in Sessions |-> 0]
    /\ idem = [x \in Keys \X Actions |->
                 IF x \in StaleRecords THEN StaleRecord ELSE NoRecord]
    /\ late = [s \in Sessions |-> FALSE]
    /\ drifted = [s \in Sessions |-> FALSE]
    /\ pc = [w \in Workers |-> "idle"]
    /\ req = [w \in Workers |-> None]
    /\ seen = [w \in Workers |-> Unloaded]
    /\ plan = [w \in Workers |-> None]
    /\ out = [w \in Workers |-> None]
    /\ visited = [s \in Sessions |-> {"PENDING"}]
    /\ effects = {}

-----------------------------------------------------------------------------
(* Faulty variants of the operators below: what a property is sensitive to *)

\* with_for_update() is forgotten.
RowNeverWaits(s) == TRUE

\* The UPDATE of another transaction is overwritten, not waited for.
MayAlwaysWrite(w, s) == TRUE

\* The transaction is left open when the request ends.
KeepLocks(w) == UNCHANGED lock

\* A row without a version does not count as version 1.
LoadUnversioned(w, s) ==
    seen' = [seen EXCEPT ![w] = [status |-> status[s], version |-> None]]

\* The new status is never flushed.
DropStatus(s, st) == UNCHANGED <<status, visited>>

\* Keys are not bound to users.
NeverForeign(rec, r) == FALSE

-----------------------------------------------------------------------------
(* What the handlers share                                                 *)

\* SELECT ... FOR UPDATE goes through: no transaction has the row locked.
RowIsFree(s) == lock[s] = None

\* UPDATE goes through: nobody else's transaction has the row locked.
MayWrite(w, s) == lock[s] \in {w, None}

\* Commit, rollback and the end of the request release what w has locked.
ReleaseLocks(w) ==
    lock' = [s \in Sessions |-> IF lock[s] = w THEN None ELSE lock[s]]

GoTo(w, place) == pc' = [pc EXCEPT ![w] = place]

\* The request ends: the database session is closed and the outcome known.
Finish(w, outcome) ==
    /\ GoTo(w, "done")
    /\ out' = [out EXCEPT ![w] = outcome]
    /\ seen' = [seen EXCEPT ![w] = Unloaded]
    /\ plan' = [plan EXCEPT ![w] = None]
    /\ ReleaseLocks(w)
    /\ UNCHANGED req

\* The ORM session reads the row as it is now.
Load(w, s) ==
    seen' = [seen EXCEPT ![w] = [status |-> status[s], version |-> version[s]]]

SetStatus(s, st) ==
    /\ status' = [status EXCEPT ![s] = st]
    /\ visited' = [visited EXCEPT ![s] = @ \union {st}]

\* validate_horizontal_access: either side may be absent.
AccessAllowed(r) ==
    \/ r.caller = None
    \/ Owner[r.session] = None
    \/ r.caller = Owner[r.session]

\* validate_quote_bindings, for the quote_id of the body.
BindingsHold(r) == r.quote \in {None, r.session}

\* The idempotency record of a request: unique by key and operation, whatever
\* quote the request is about.
RecordOf(r) == <<r.key, r.action>>

\* effective_session_id: who an idempotency record belongs to.
EffectiveUser(r) == IF r.caller # None THEN r.caller ELSE Owner[r.session]

\* The record was made for another user: both are known and differ.
Foreign(rec, r) ==
    /\ EffectiveUser(r) # None
    /\ rec.owner # None
    /\ rec.owner # EffectiveUser(r)

\* _validate_preconditions: the cart is still active, and staleness, the
\* merchant, the products, prices, stock and shipping option have not drifted.
PreconditionsHold(s) == cartStatus[CartOf[s]] = "ACTIVE" /\ ~drifted[s]

-----------------------------------------------------------------------------
(* Clients                                                                 *)

Submit(w) ==
    /\ pc[w] = "idle"
    /\ \E r \in Requests : req' = [req EXCEPT ![w] = r]
    /\ GoTo(w, "begin")
    /\ UNCHANGED <<db, world, seen, plan, out, hist>>

\* The client has its answer; the thread goes back to the pool.
Reply(w) ==
    /\ pc[w] = "done"
    /\ GoTo(w, "idle")
    /\ req' = [req EXCEPT ![w] = None]
    /\ out' = [out EXCEPT ![w] = None]
    /\ UNCHANGED <<db, world, seen, plan, hist>>

\* The process dies or the connection drops: what was committed stays, the
\* open transaction is rolled back, and the client never hears the outcome.
Crash(w) ==
    /\ pc[w] # "idle"
    /\ GoTo(w, "idle")
    /\ req' = [req EXCEPT ![w] = None]
    /\ seen' = [seen EXCEPT ![w] = Unloaded]
    /\ plan' = [plan EXCEPT ![w] = None]
    /\ out' = [out EXCEPT ![w] = None]
    /\ ReleaseLocks(w)
    /\ UNCHANGED <<status, version, cartStatus, orders, idem, world, hist>>

-----------------------------------------------------------------------------
(* CheckoutStateMachine.transition                                         *)

\* Row lock and load, then access control and bindings.
LockRow(w) ==
    LET r == req[w] IN
    /\ pc[w] = "begin" /\ r.op = "transition"
    /\ RowIsFree(r.session)
    /\ \/ /\ AccessAllowed(r) /\ BindingsHold(r)
          /\ lock' = [lock EXCEPT ![r.session] = w]
          /\ Load(w, r.session)
          /\ GoTo(w, IF r.key = None THEN "decide" ELSE "gate")
          /\ UNCHANGED <<req, plan, out>>
       \/ /\ ~(AccessAllowed(r) /\ BindingsHold(r))
          /\ Finish(w, "denied")
    /\ UNCHANGED <<status, version, cartStatus, orders, idem, world, hist>>

\* check_idempotency: no record, a record past its 24 hours, another body,
\* another user, or the recorded response of an earlier request.
CheckIdempotency(w) ==
    LET r   == req[w]
        rec == idem[RecordOf(r)]
    IN
    /\ pc[w] = "gate"
    /\ \/ /\ rec.state \in {"none", "stale"}
          /\ GoTo(w, IF rec.state = "none" THEN "decide" ELSE "purge")
          /\ UNCHANGED <<lock, req, seen, plan, out>>
       \/ /\ rec.state = "completed"
          /\ rec.quote # r.quote
          /\ Finish(w, "conflict")
       \/ /\ rec.state = "completed"
          /\ rec.quote = r.quote /\ Foreign(rec, r)
          /\ Finish(w, "denied")
       \/ /\ rec.state = "completed"
          /\ rec.quote = r.quote /\ ~Foreign(rec, r)
          /\ Finish(w, "replayed")
    /\ UNCHANGED <<status, version, cartStatus, orders, idem, world, hist>>

\* check_idempotency deletes the stale record and commits.  That commit is
\* the end of the transaction that took the row lock.
PurgeRecord(w) ==
    LET x == RecordOf(req[w]) IN
    /\ pc[w] = "purge"
    /\ idem' = [idem EXCEPT ![x] = IF @.state = "stale" THEN NoRecord ELSE @]
    /\ ReleaseLocks(w)
    /\ GoTo(w, "reload")
    /\ UNCHANGED <<status, version, cartStatus, orders, world, req, seen,
                   plan, out, hist>>

\* The commit expired the loaded row, so session.status is read again, by a
\* plain SELECT.
ReloadRow(w) ==
    /\ pc[w] = "reload"
    /\ Load(w, req[w].session)
    /\ GoTo(w, "decide")
    /\ UNCHANGED <<db, world, req, plan, out, hist>>

\* Expiry, then the table, then the self-loop, then the revalidation.
Decide(w) ==
    LET r == req[w]
        current == seen[w].status
        target  == TargetOf(r.action)
        expired == current \notin TERMINAL_STATES /\ late[r.session]
        allowed == r.action \in AllowedActions(current)
        revalidates == r.action \in ForwardActions
        WillWrite(st, place) ==
            /\ plan' = [plan EXCEPT ![w] = st]
            /\ GoTo(w, place)
            /\ UNCHANGED <<lock, req, seen, out>>
    IN
    /\ pc[w] = "decide"
    /\ \/ expired /\ WillWrite("EXPIRED", "refuse")
       \/ ~expired /\ ~allowed /\ Finish(w, "rejected")
       \/ ~expired /\ allowed /\ current = target
            /\ WillWrite(target, "summary")
       \/ /\ ~expired /\ allowed /\ current # target
          /\ revalidates /\ ~PreconditionsHold(r.session)
          /\ WillWrite("INVALID", "refuse")
       \/ /\ ~expired /\ allowed /\ current # target
          /\ revalidates => PreconditionsHold(r.session)
          /\ WillWrite(target, "advance")
    /\ UNCHANGED <<status, version, cartStatus, orders, idem, world, hist>>

\* The status column alone is written, and the request fails: an expired or
\* invalidated session in transition(), an expired one in create_order().
Refuse(w) ==
    LET s == req[w].session IN
    /\ pc[w] = "refuse"
    /\ MayWrite(w, s)
    /\ SetStatus(s, plan[w])
    /\ Finish(w, IF plan[w] = "EXPIRED" THEN "expired" ELSE "invalid")
    /\ UNCHANGED <<version, cartStatus, orders, idem, world, effects>>

\* Status and version are written from the row as it was loaded.
CommitTransition(w) ==
    LET s == req[w].session IN
    /\ pc[w] = "advance"
    /\ MayWrite(w, s)
    /\ SetStatus(s, plan[w])
    /\ version' = [version EXCEPT ![s] = seen[w].version + 1]
    /\ effects' = effects \union {<<s, req[w].action, req[w].key>>}
    /\ ReleaseLocks(w)
    /\ GoTo(w, "refresh")
    /\ UNCHANGED <<cartStatus, orders, idem, world, req, seen, plan, out>>

\* After the answer is built: keyed requests go on to record it.
AfterSummary(w) ==
    IF req[w].key = None
      THEN Finish(w, "ok")
      ELSE GoTo(w, "lookup") /\ UNCHANGED <<lock, req, seen, plan, out>>

\* db.refresh, then _build_summary: a session past its deadline is going to
\* be marked EXPIRED, whatever its status.
RefreshRow(w) ==
    LET s == req[w].session IN
    /\ pc[w] = "refresh"
    /\ \/ /\ late[s] /\ status[s] # "EXPIRED"
          /\ GoTo(w, "expire")
          /\ UNCHANGED <<lock, req, seen, plan, out>>
       \/ ~(late[s] /\ status[s] # "EXPIRED") /\ AfterSummary(w)
    /\ UNCHANGED <<status, version, cartStatus, orders, idem, world, hist>>

\* _build_summary for a self-loop, with the row as it is already loaded.
SelfLoopSummary(w) ==
    LET s == req[w].session IN
    /\ pc[w] = "summary"
    /\ \/ /\ late[s]
          /\ GoTo(w, "expire")
          /\ UNCHANGED <<lock, req, seen, plan, out>>
       \/ ~late[s] /\ AfterSummary(w)
    /\ UNCHANGED <<status, version, cartStatus, orders, idem, world, hist>>

\* get_checkout_session writes EXPIRED over the row and commits.
ExpireRow(w) ==
    LET s == req[w].session IN
    /\ pc[w] = "expire"
    /\ MayWrite(w, s)
    /\ SetStatus(s, "EXPIRED")
    /\ \/ req[w].key = None /\ Finish(w, "ok")
       \/ /\ req[w].key # None
          /\ GoTo(w, "lookup")
          /\ ReleaseLocks(w)
          /\ UNCHANGED <<req, seen, plan, out>>
    /\ UNCHANGED <<version, cartStatus, orders, idem, world, effects>>

-----------------------------------------------------------------------------
(* CheckoutSecurityService.record_idempotency_success, in a transaction    *)
(* that follows the commit of the transition itself                        *)

LookupRecord(w) ==
    LET rec == idem[RecordOf(req[w])] IN
    /\ pc[w] = "lookup"
    /\ GoTo(w, IF rec.state = "none" THEN "insert" ELSE "overwrite")
    /\ UNCHANGED <<db, world, req, seen, plan, out, hist>>

\* A row of the same key and operation inserted meanwhile violates
\* uq_idempotency_key_operation, and the request ends with that error.
InsertRecord(w) ==
    LET r == req[w]
        x == RecordOf(r)
    IN
    /\ pc[w] = "insert"
    /\ \/ /\ idem[x].state = "none"
          /\ idem' = [idem EXCEPT ![x] =
                        [state |-> "completed", quote |-> r.quote,
                         owner |-> EffectiveUser(r), session |-> r.session,
                         result |-> plan[w]]]
          /\ Finish(w, "ok")
       \/ /\ idem[x].state # "none"
          /\ Finish(w, "error")
          /\ UNCHANGED idem
    /\ UNCHANGED <<status, version, cartStatus, orders, world, hist>>

\* An existing record takes the new response and owner and keeps the
\* fingerprint of the body it was created for.
OverwriteRecord(w) ==
    LET r   == req[w]
        rec == idem[RecordOf(r)]
    IN
    /\ pc[w] = "overwrite"
    /\ idem' = [idem EXCEPT ![RecordOf(r)] =
                  [state |-> "completed", quote |-> rec.quote,
                   owner |-> IF EffectiveUser(r) # None
                               THEN EffectiveUser(r) ELSE rec.owner,
                   session |-> r.session, result |-> plan[w]]]
    /\ Finish(w, "ok")
    /\ UNCHANGED <<status, version, cartStatus, orders, world, hist>>

-----------------------------------------------------------------------------
(* CheckoutService.get_checkout_session and OrderService.create_order      *)

ReadSession(w) ==
    LET r == req[w] IN
    /\ pc[w] = "begin" /\ r.op = "get"
    /\ \/ ~AccessAllowed(r) /\ Finish(w, "denied")
       \/ /\ AccessAllowed(r)
          /\ late[r.session] /\ status[r.session] # "EXPIRED"
          /\ GoTo(w, "expire")
          /\ UNCHANGED <<lock, req, seen, plan, out>>
       \/ /\ AccessAllowed(r)
          /\ ~(late[r.session] /\ status[r.session] # "EXPIRED")
          /\ Finish(w, "ok")
    /\ UNCHANGED <<status, version, cartStatus, orders, idem, world, hist>>

\* The session is read without a lock; only PENDING ones can be ordered.
CheckOrderable(w) ==
    LET s == req[w].session
        Continue(place, st) ==
            /\ GoTo(w, place)
            /\ plan' = [plan EXCEPT ![w] = st]
            /\ UNCHANGED <<lock, req, seen, out>>
    IN
    /\ pc[w] = "begin" /\ req[w].op = "order"
    /\ \/ status[s] # "PENDING" /\ Finish(w, "rejected")
       \/ status[s] = "PENDING" /\ late[s] /\ Continue("refuse", "EXPIRED")
       \/ status[s] = "PENDING" /\ ~late[s] /\ Continue("order", "COMPLETED")
    /\ UNCHANGED <<status, version, cartStatus, orders, idem, world, hist>>

\* One commit: the order, the session COMPLETED, the cart CHECKED_OUT.
PlaceOrder(w) ==
    LET s == req[w].session IN
    /\ pc[w] = "order"
    /\ MayWrite(w, s)
    /\ orders' = [orders EXCEPT ![s] = @ + 1]
    /\ SetStatus(s, plan[w])
    /\ cartStatus' = [cartStatus EXCEPT ![CartOf[s]] = "CHECKED_OUT"]
    /\ Finish(w, "ok")
    /\ UNCHANGED <<version, idem, world, effects>>

-----------------------------------------------------------------------------
(* The world                                                               *)

\* Fifteen minutes have passed since the quote was made.
Elapse(s) ==
    /\ "elapse" \in Events
    /\ ~late[s]
    /\ late' = [late EXCEPT ![s] = TRUE]
    /\ UNCHANGED <<db, drifted, local, hist>>

\* The cart, a price, stock, a product, the merchant or the shipping option
\* changes, so that the live revalidation starts or stops failing.
Drift(s) ==
    /\ "drift" \in Events
    /\ drifted' = [drifted EXCEPT ![s] = ~@]
    /\ UNCHANGED <<db, late, local, hist>>

-----------------------------------------------------------------------------
(* The specification                                                       *)

\* One step of the handler that worker w is running.
Handle(w) ==
    \/ LockRow(w) \/ CheckIdempotency(w) \/ PurgeRecord(w) \/ ReloadRow(w)
    \/ Decide(w) \/ Refuse(w) \/ CommitTransition(w) \/ RefreshRow(w)
    \/ SelfLoopSummary(w) \/ ExpireRow(w) \/ LookupRecord(w)
    \/ InsertRecord(w) \/ OverwriteRecord(w) \/ ReadSession(w)
    \/ CheckOrderable(w) \/ PlaceOrder(w) \/ Reply(w)

Next ==
    \/ \E w \in Workers : Submit(w) \/ Handle(w) \/ Crash(w)
    \/ \E s \in Sessions : Elapse(s) \/ Drift(s)

Spec == Init /\ [][Next]_vars

\* A thread that can run does run, and PostgreSQL serves the waiters of a row
\* lock in the order they came, so that a lock which is free again and again
\* is obtained: strong fairness of every handler.  Clients owe nothing, and a
\* process may crash or not.
FairSpec == Spec /\ \A w \in Workers : SF_vars(Handle(w))

-----------------------------------------------------------------------------
(* Properties that hold                                                    *)

\* While a transition holds the row lock, what it has loaded is what is in
\* the row: nothing the unlocked handlers do can come between its SELECT FOR
\* UPDATE and its commit (checkout_state_machine.py:139-142).
HoldingPlaces == {"gate", "purge", "decide", "advance", "refuse", "summary",
                  "expire", "lookup", "insert", "overwrite"}

LockProtectsTheRow ==
    \A s \in Sessions, w \in Workers :
        lock[s] = w =>
            /\ pc[w] \in HoldingPlaces
            /\ req[w].op = "transition" /\ req[w].session = s
            /\ seen[w] = [status |-> status[s], version |-> version[s]]

\* The version says how many transitions were committed: none is lost under
\* a concurrent one, none is counted or applied twice, and no write outside
\* the table is counted (checkout_state_machine.py:249-254).  The exception
\* is a request whose key has a record older than its 24 hours.
EffectsOn(s) == {e \in effects : e[1] = s}

VersionCountsTransitions ==
    \A s \in Sessions : version[s] = 1 + Cardinality(EffectsOn(s))

\* A session that was ever waiting for payment, paid or being ordered has
\* been through AUTHORIZATION_REQUIRED and AUTHORIZED, whatever raced with it
\* on the way and however often a lock was lost (TRANSITION_TABLE).
PaymentFollowsAuthorization ==
    \A s \in Sessions :
        /\ "AUTHORIZED" \in visited[s] =>
              "AUTHORIZATION_REQUIRED" \in visited[s]
        /\ "PAYMENT_PENDING" \in visited[s] => "AUTHORIZED" \in visited[s]
        /\ "PAID" \in visited[s] => "PAYMENT_PENDING" \in visited[s]
        /\ "ORDER_PENDING" \in visited[s] => "PAID" \in visited[s]

\* A response kept for replay was true when it was recorded: the session it
\* is about has been in the status it reports, even if the process died or
\* other requests moved the session on before the record was committed
\* (checkout_state_machine.py:284-295).
ReplaysTellTheTruth ==
    \A x \in Keys \X Actions :
        idem[x].state = "completed" =>
            idem[x].result \in visited[idem[x].session]

\* A client that names its session, or whose quote names one, is never
\* replayed the response about a quote of another user, although keys are
\* looked up without the quote they were used for
\* (checkout_security_service.py:75-78, 110-119).
ReplayStaysWithOwner ==
    [][\A w \in Workers :
          (pc[w] = "gate" /\ out'[w] = "replayed") =>
              LET u == EffectiveUser(req[w])
                  about == idem[RecordOf(req[w])].session
              IN  u # None => Owner[about] \in {u, None}]_vars

\* The checkout code implements the lifecycle it promises.
Lifecycle == INSTANCE QuoteLifecycle
ImplementsLifecycle == Lifecycle!LifecycleSpec

\* Every request is answered, or its process has died: no handler waits for
\* a row lock for ever and none leaves with one.
EveryRequestIsAnswered ==
    \A w \in Workers : pc[w] = "begin" ~> pc[w] = "idle"

-----------------------------------------------------------------------------
(* Claims of the repository that the code does not keep                    *)

\* "Guarantees terminal state immutability" (checkout_state_machine.py:4).
TerminalStatesAreFinal ==
    [][\A s \in Sessions :
          status[s] \in TERMINAL_STATES => status'[s] = status[s]]_vars

\* "Monotonically Increment Version" (checkout_state_machine.py:249).
VersionNeverDecreases ==
    [][\A s \in Sessions : version'[s] >= version[s]]_vars

\* "replayed requests with identical keys return cached authoritative
\* responses" (models.py:581): a request whose key and action have already
\* taken effect on this quote is not turned away by the table.
RetryIsReplayed ==
    \A w \in Workers :
        (pc[w] = "done" /\ out[w] = "rejected" /\ req[w].key # None) =>
            <<req[w].session, req[w].action, req[w].key>> \notin effects

\* "Transforms a validated CheckoutSession into a confirmed merchant Order"
\* (order_service.py:56): one session, one order.
OneOrderPerSession == \A s \in Sessions : orders[s] <= 1

=============================================================================
