---------------------------- MODULE SessionStore ----------------------------
(***************************************************************************)
(* SessionService: shopping sessions and tasks live in PostgreSQL, and a   *)
(* state of each session in Redis, or in the process when Redis does not   *)
(* answer.  The sessions router is asynchronous with synchronous bodies:   *)
(* its handlers run one at a time on the event loop.  Agent runs use the   *)
(* same tables from pool threads: the pipeline through SessionService, the *)
(* graph directly, without the cached state.                               *)
(***************************************************************************)
EXTENDS Naturals, Sequences, FiniteSets, SequencesExt

CONSTANTS
    Users,
    Given,        \* session ids that callers make up
    Fresh,        \* session ids that generate_uuid returns
    Loop,         \* the event loop thread
    Pool,         \* threads that run agents
    MaxTasks,     \* how many tasks are ever inserted
    Statuses,     \* session statuses that callers write
    Outcomes,     \* final statuses of a graph run
    Requests,     \* what callers ask for
    None

SessionIds == Given \union Fresh
TaskIds    == 1..MaxTasks
Threads    == Pool \union {Loop}
Stores     == {"redis", "memory"}

CreateRequests == [op : {"create"}, user : Users]
UpdateRequests == [op : {"update"}, session : SessionIds, status : Statuses \union {None}]
DeleteRequests == [op : {"delete"}, session : SessionIds]
TaskRequests   == [op : {"task"}, session : SessionIds]
RunRequests    == [op : {"run"}, user : Users, session : SessionIds \union {None}]
GraphRequests  ==
    [op : {"graph"}, user : Users, session : SessionIds \union {None}, outcome : Outcomes]
LoopRequests == CreateRequests \union UpdateRequests \union DeleteRequests \union TaskRequests
PoolRequests == RunRequests \union GraphRequests

\* Every operation a caller may name is one the routers have.
ASSUME RequestsAssumption == \A r \in Requests : r \in LoopRequests \union PoolRequests
ASSUME LoopAssumption == Loop \notin Pool /\ None \notin SessionIds
ASSUME BoundAssumption == MaxTasks \in Nat

SessionRows == [user : Users, status : Statuses \union Outcomes \union {"ACTIVE"}]
States      == [status : Statuses \union Outcomes \union {"ACTIVE", None}, tasks : Seq(TaskIds)]

ASSUME NoneAssumption == None \notin SessionRows \union States \union {"ACTIVE"}

VARIABLES
    users,        \* users
    session,      \* shopping_sessions
    tasks,        \* tasks[s]: the shopping_tasks of s, by creation
    inserted,     \* how many tasks were ever inserted
    used,         \* session ids that exist or existed
    link,         \* where _init_connection decided to keep the states
    cache,        \* agent_state:{session_id} in each store, as long as it lives
    pc, req,
    mine,         \* the session that a thread works on
    held,         \* the cached state it has read, or is about to write
    round,        \* how often a graph run has persisted
    written,      \* history: statuses and tasks committed for a session
    apart         \* history: sessions whose two copies may differ

sessionVars == <<users, session, tasks, inserted, used, link, cache, pc, req,
                 mine, held, round, written, apart>>
rows  == <<users, session, tasks, inserted, used>>
local == <<req, mine, held, round>>

\* current_state = ... or {}
Blank == [status |-> None, tasks |-> <<>>]

SessionTypeOK ==
    /\ users \subseteq Users
    /\ \A s \in SessionIds : session[s] = None \/ session[s] \in SessionRows
    /\ \A s \in SessionIds : tasks[s] \in Seq(TaskIds) /\ (tasks[s] # <<>> => session[s] # None)
    /\ inserted \in 0..MaxTasks
    /\ {s \in SessionIds : session[s] # None} \subseteq used
    /\ link \in Stores
    /\ \A st \in Stores, s \in SessionIds : cache[st][s] = None \/ cache[st][s] \in States
    /\ pc \in [Threads -> {"idle", "user", "adduser", "insert", "refresh", "get", "set",
                           "drop", "think", "task", "check", "make", "note"}]
    /\ \A t \in Threads : req[t] \in Requests \union {None}
    /\ mine \in [Threads -> SessionIds \union {None}]
    /\ \A t \in Threads : held[t] \in States \union {None}
    /\ round \in [Threads -> 0..2]
    /\ \A s \in SessionIds : session[s] # None => session[s].user \in users

SessionInit ==
    /\ users = {}
    /\ session = [s \in SessionIds |-> None]
    /\ tasks = [s \in SessionIds |-> <<>>]
    /\ inserted = 0
    /\ used = {}
    /\ link \in Stores
    /\ cache = [st \in Stores |-> [s \in SessionIds |-> None]]
    /\ pc = [t \in Threads |-> "idle"]
    /\ req = [t \in Threads |-> None]
    /\ mine = [t \in Threads |-> None]
    /\ held = [t \in Threads |-> None]
    /\ round = [t \in Threads |-> 0]
    /\ written = [s \in SessionIds |-> [statuses |-> {}, tasks |-> {}]]
    /\ apart = {}

GoTo(t, label) == pc' = [pc EXCEPT ![t] = label]

\* The request is over, answered or not.
End(t) ==
    /\ GoTo(t, "idle")
    /\ req' = [req EXCEPT ![t] = None]
    /\ mine' = [mine EXCEPT ![t] = None]
    /\ held' = [held EXCEPT ![t] = None]
    /\ round' = [round EXCEPT ![t] = 0]

Op(t, op) == pc[t] # "idle" /\ req[t].op = op

\* A thread between its commit and the cache write that goes with it.
Writing(t, s) == mine[t] = s /\ pc[t] \in {"refresh", "get", "set", "drop"}
Overlap(t, s) == {x \in {s} : \E v \in Threads \ {t} : Writing(v, s)}

Commit(s, statuses, more) ==
    written' = [written EXCEPT ![s].statuses = @ \union statuses, ![s].tasks = @ \union more]

\* The loop serves one request to its end; an agent run has a pool thread.
Named(r) == IF r.op = "create" THEN None ELSE r.session

Submit(t, r) ==
    /\ pc[t] = "idle"
    /\ IF t = Loop THEN r \in LoopRequests ELSE r \in PoolRequests
    /\ Named(r) \in used \union Given \union {None}
    /\ req' = [req EXCEPT ![t] = r]
    /\ GoTo(t, CASE r.op = "create" -> "user"
                 [] r.op = "run" ->
                      IF Named(r) # None /\ session[Named(r)] # None THEN "think" ELSE "user"
                 [] r.op = "graph" -> "user"
                 [] OTHER -> "task")
    /\ mine' = [mine EXCEPT ![t] =
           IF r.op = "run" /\ Named(r) # None /\ session[Named(r)] = None THEN None ELSE Named(r)]
    /\ UNCHANGED <<rows, link, cache, held, round, written, apart>>

-----------------------------------------------------------------------------
(* ensure_user and create_session                                          *)

AfterUser(t) == IF Op(t, "graph") THEN "check" ELSE "insert"

EnsureUser(t) ==
    /\ pc[t] = "user"
    /\ GoTo(t, IF req[t].user \in users THEN AfterUser(t) ELSE "adduser")
    /\ UNCHANGED <<rows, link, cache, local, written, apart>>

\* The graph catches what _persist_session_state raises and tries again once.
Persisted(t) ==
    IF round[t] = 0
    THEN /\ round' = [round EXCEPT ![t] = 1]
         /\ GoTo(t, "user")
         /\ UNCHANGED <<req, mine, held>>
    ELSE End(t)

Fail(t) == IF Op(t, "graph") THEN Persisted(t) ELSE End(t)

\* The primary key refuses a user that another thread has inserted.
AddUser(t) ==
    /\ pc[t] = "adduser"
    /\ IF req[t].user \in users
       THEN Fail(t) /\ UNCHANGED users
       ELSE /\ users' = users \union {req[t].user}
            /\ GoTo(t, AfterUser(t))
            /\ UNCHANGED local
    /\ UNCHANGED <<session, tasks, inserted, used, link, cache, written, apart>>

NewSession(t, s, status) ==
    /\ session' = [session EXCEPT ![s] = [user |-> req[t].user, status |-> status]]
    /\ used' = used \union {s}
    /\ mine' = [mine EXCEPT ![t] = s]
    /\ Commit(s, {status}, {})

InsertSession(t) ==
    /\ pc[t] = "insert"
    /\ \E s \in Fresh \ used : NewSession(t, s, "ACTIVE")
    /\ held' = [held EXCEPT ![t] = [status |-> "ACTIVE", tasks |-> <<>>]]
    /\ GoTo(t, "refresh")
    /\ UNCHANGED <<users, tasks, inserted, link, cache, req, round, apart>>

-----------------------------------------------------------------------------
(* update_session, delete_session and create_task                          *)

AddTask(s) ==
    /\ inserted' = inserted + 1
    /\ tasks' = [tasks EXCEPT ![s] = Append(@, inserted + 1)]

Missing(t) == mine[t] = None \/ session[mine[t]] = None

NotFound(t) ==
    /\ pc[t] = "task"
    /\ Missing(t)
    /\ End(t)
    /\ UNCHANGED <<rows, link, cache, written, apart>>

UpdateSession(t) ==
    /\ pc[t] = "task" /\ Op(t, "update") /\ ~Missing(t)
    /\ LET s      == mine[t]
           status == IF req[t].status = None THEN session[s].status ELSE req[t].status
       IN /\ session' = [session EXCEPT ![s].status = status]
          /\ Commit(s, {status}, {})
          /\ held' = [held EXCEPT ![t] = [status |-> status, tasks |-> <<>>]]
          /\ apart' = apart \union Overlap(t, s)
    /\ GoTo(t, "refresh")
    /\ UNCHANGED <<users, tasks, inserted, used, link, cache, req, mine, round>>

\* The tasks of the session go with it.
DeleteSession(t) ==
    /\ pc[t] = "task" /\ Op(t, "delete") /\ ~Missing(t)
    /\ session' = [session EXCEPT ![mine[t]] = None]
    /\ tasks' = [tasks EXCEPT ![mine[t]] = <<>>]
    /\ apart' = apart \union Overlap(t, mine[t])
    /\ GoTo(t, "drop")
    /\ UNCHANGED <<users, inserted, used, link, cache, local, written>>

\* Mutant: the task is flushed and not committed.
FlushTask(t) ==
    /\ pc[t] = "task" /\ ~Missing(t)
    /\ Op(t, "task") \/ Op(t, "run")
    /\ inserted < MaxTasks
    /\ held' = [held EXCEPT ![t] = [status |-> None, tasks |-> <<inserted + 1>>]]
    /\ GoTo(t, "refresh")
    /\ UNCHANGED <<rows, link, cache, req, mine, round, written, apart>>

CreateTask(t) ==
    /\ pc[t] = "task" /\ ~Missing(t)
    /\ Op(t, "task") \/ Op(t, "run")
    /\ inserted < MaxTasks
    /\ AddTask(mine[t])
    /\ Commit(mine[t], {}, {inserted + 1})
    /\ held' = [held EXCEPT ![t] = [status |-> None, tasks |-> <<inserted + 1>>]]
    /\ apart' = apart \union Overlap(t, mine[t])
    /\ GoTo(t, "refresh")
    /\ UNCHANGED <<users, session, used, link, cache, req, mine, round>>

\* A new session has nothing to read from the cache.
IsNew(t) == held[t].status = "ACTIVE" /\ (Op(t, "create") \/ Op(t, "run"))

\* db.refresh raises when the row is gone.
Refresh(t) ==
    /\ pc[t] = "refresh"
    /\ IF session[mine[t]] = None
       THEN End(t)
       ELSE GoTo(t, IF IsNew(t) THEN "set" ELSE "get") /\ UNCHANGED local
    /\ UNCHANGED <<rows, link, cache, written, apart>>

-----------------------------------------------------------------------------
(* RedisService: a call that fails is made on the store of the process     *)

\* A call that times out may have reached Redis.
Reached == IF link = "memory" THEN {{"memory"}} ELSE {{"redis"}, {"memory"}, Stores}
Failed(reached, s) == {x \in {s} : link \notin reached \/ reached = Stores}

Put(reached, s, state) ==
    cache' = [st \in Stores |->
                 IF st \in reached THEN [cache[st] EXCEPT ![s] = state] ELSE cache[st]]

\* Both writers change their own part of what they read.
\* Mutant: the new task replaces the list.
Replaced(t, state) ==
    IF Op(t, "update")
    THEN [state EXCEPT !.status = held[t].status]
    ELSE [state EXCEPT !.tasks = held[t].tasks]

Merged(t, state) ==
    IF Op(t, "update")
    THEN [state EXCEPT !.status = held[t].status]
    ELSE [state EXCEPT !.tasks = @ \o held[t].tasks]

GetState(t) ==
    /\ pc[t] = "get"
    /\ \E st \in IF link = "memory" THEN {link} ELSE Stores :
          LET state == cache[st][mine[t]]
          IN /\ held' = [held EXCEPT ![t] = Merged(t, IF state = None THEN Blank ELSE state)]
             /\ apart' = apart \union Failed({st}, mine[t])
    /\ GoTo(t, "set")
    /\ UNCHANGED <<rows, link, cache, req, mine, round, written>>

SetState(t) ==
    /\ pc[t] = "set"
    /\ \E reached \in Reached :
          /\ Put(reached, mine[t], held[t])
          /\ apart' = apart \union Failed(reached, mine[t])
    /\ IF IsNew(t) /\ Op(t, "run")
       THEN GoTo(t, "think") /\ held' = [held EXCEPT ![t] = None] /\ UNCHANGED <<req, mine, round>>
       ELSE End(t)
    /\ UNCHANGED <<rows, link, written>>

DropState(t) ==
    /\ pc[t] = "drop"
    /\ \E reached \in Reached :
          /\ Put(reached, mine[t], None)
          /\ apart' = apart \union Failed(reached, mine[t])
    /\ End(t)
    /\ UNCHANGED <<rows, link, written>>

-----------------------------------------------------------------------------
(* Agent runs                                                              *)

\* The pipeline records its task at the end; an ambiguous query has none.
Think(t) ==
    /\ pc[t] = "think"
    /\ \/ GoTo(t, "task") /\ UNCHANGED local
       \/ End(t)
    /\ UNCHANGED <<rows, link, cache, written, apart>>

\* _persist_session_state, called by run_graph and again by run_shopping_agent.
GraphSession(t) ==
    /\ pc[t] = "check"
    /\ GoTo(t, IF Missing(t) THEN "make" ELSE "note")
    /\ UNCHANGED <<rows, link, cache, local, written, apart>>

GraphInsert(t) ==
    /\ pc[t] = "make"
    /\ IF ~Missing(t)
       THEN Fail(t) /\ UNCHANGED <<session, used, written, apart>>
       ELSE \E s \in IF mine[t] = None THEN Fresh \ used ELSE {mine[t]} :
               /\ NewSession(t, s, req[t].outcome)
               /\ apart' = apart \union {s}
               /\ GoTo(t, "note")
               /\ UNCHANGED <<req, held, round>>
    /\ UNCHANGED <<users, tasks, inserted, link, cache>>

GraphTask(t) ==
    /\ pc[t] = "note"
    /\ IF Missing(t)
       THEN UNCHANGED <<tasks, inserted, written, apart>>
       ELSE /\ inserted < MaxTasks
            /\ AddTask(mine[t])
            /\ Commit(mine[t], {}, {inserted + 1})
            /\ apart' = apart \union {mine[t]}
    /\ Persisted(t)
    /\ UNCHANGED <<users, session, used, link, cache>>

-----------------------------------------------------------------------------
(* Time and failures                                                       *)

\* Every state is set with a lifetime; an expired one is found by no reader.
\* Mutant: the state is set without a lifetime.
NeverLapses(st, s) == FALSE

Lapses(st, s) == cache[st][s] # None

Expire(st, s) ==
    /\ Lapses(st, s)
    /\ cache' = [cache EXCEPT ![st][s] = None]
    /\ apart' = apart \union {s}
    /\ UNCHANGED <<rows, link, pc, local, written>>

\* The process dies and starts again: Redis is probed anew.
Crash ==
    /\ \E t \in Threads : pc[t] # "idle"
    /\ link' \in Stores
    /\ cache' = [cache EXCEPT !["memory"] = [s \in SessionIds |-> None]]
    /\ pc' = [t \in Threads |-> "idle"]
    /\ req' = [t \in Threads |-> None]
    /\ mine' = [t \in Threads |-> None]
    /\ held' = [t \in Threads |-> None]
    /\ round' = [t \in Threads |-> 0]
    /\ apart' = apart \union used
    /\ UNCHANGED <<rows, written>>

Step(t) ==
    \/ EnsureUser(t) \/ AddUser(t) \/ InsertSession(t)
    \/ NotFound(t) \/ UpdateSession(t) \/ DeleteSession(t) \/ CreateTask(t) \/ Refresh(t)
    \/ GetState(t) \/ SetState(t) \/ DropState(t)
    \/ Think(t) \/ GraphSession(t) \/ GraphInsert(t) \/ GraphTask(t)

SessionNext ==
    \/ \E t \in Threads, r \in Requests : Submit(t, r)
    \/ \E t \in Threads : Step(t)
    \/ \E st \in Stores, s \in SessionIds : Expire(st, s)
    \/ Crash

SessionSpec ==
    /\ SessionInit /\ [][SessionNext]_sessionVars
    /\ \A st \in Stores, s \in SessionIds : WF_sessionVars(Expire(st, s))

-----------------------------------------------------------------------------
\* Redis is written after PostgreSQL: a cached state shows only a status and
\* tasks that were committed for this session, and no task twice, whatever
\* requests, failed calls and crashes come between the two writes.
CacheTrailsDatabase ==
    \A st \in Stores, s \in SessionIds :
        cache[st][s] # None =>
            /\ cache[st][s].status \in written[s].statuses \union {None}
            /\ Range(cache[st][s].tasks) \subseteq written[s].tasks
            /\ IsInjective(cache[st][s].tasks)

\* When no two requests wrote a session at the same time, no call to Redis
\* failed, nothing expired and no process died, the cached state is the row
\* and its tasks, and a deleted session has none.
SerialRequestsAgree ==
    \A s \in SessionIds \ apart :
        (\A t \in Threads : ~Writing(t, s)) =>
            cache[link][s] =
                IF session[s] = None THEN None
                ELSE [status |-> session[s].status, tasks |-> tasks[s]]

\* A task request that runs late may write the state of a deleted session
\* again.  Every state has a lifetime, so that none outlives the session for
\* ever, unless the id comes back.
DeletedStateFades ==
    \A s \in SessionIds :
        (session[s] = None) ~> (session[s] # None \/ \A st \in Stores : cache[st][s] = None)
=============================================================================
