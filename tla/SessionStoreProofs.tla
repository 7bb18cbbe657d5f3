------------------------- MODULE SessionStoreProofs -------------------------
(***************************************************************************)
(* Proofs about SessionStore, for every number of users, sessions, tasks   *)
(* and agent threads.                                                      *)
(***************************************************************************)
EXTENDS SessionStore, TLAPS

-----------------------------------------------------------------------------
(* The inductive invariant of type correctness                             *)

WritingPlaces == {"refresh", "get", "set", "drop"}

\* What a thread has at each place.
At(t) ==
    /\ pc[t] # "idle" => req[t] \in Requests
    /\ pc[t] \in {"user", "adduser"} => req[t].op \in {"create", "run", "graph"}
    /\ pc[t] = "insert" =>
          req[t].op \in {"create", "run"} /\ req[t].user \in users
    /\ pc[t] \in {"check", "make", "note"} =>
          req[t].op = "graph" /\ req[t].user \in users
    /\ pc[t] \in WritingPlaces => mine[t] \in used
    /\ pc[t] \in {"refresh", "get", "set"} => held[t] \in States
    /\ pc[t] = "drop" => Op(t, "delete")

\* The threads.
ThreadsOK ==
    /\ pc \in [Threads -> {"idle", "user", "adduser", "insert", "refresh",
                           "get", "set", "drop", "think", "task", "check",
                           "make", "note"}]
    /\ req \in [Threads -> Requests \union {None}]
    /\ mine \in [Threads -> SessionIds \union {None}]
    /\ held \in [Threads -> States \union {None}]
    /\ round \in [Threads -> 0..2]
    /\ \A t \in Threads : At(t)

\* The tables, the stores and the history.
Histories == [statuses : SUBSET (Statuses \union Outcomes \union {"ACTIVE"}),
              tasks : SUBSET (1..inserted)]

TablesOK ==
    /\ users \subseteq Users
    /\ session \in [SessionIds -> SessionRows \union {None}]
    /\ tasks \in [SessionIds -> Seq(1..inserted)]
    /\ inserted \in 0..MaxTasks
    /\ used \subseteq SessionIds
    /\ link \in Stores
    /\ cache \in [Stores -> [SessionIds -> States \union {None}]]
    /\ written \in [SessionIds -> Histories]
    /\ apart \subseteq SessionIds
    /\ \A s \in SessionIds :
          /\ session[s] # None => session[s].user \in users /\ s \in used
          /\ tasks[s] # <<>> => session[s] # None

StoreInv == ThreadsOK /\ TablesOK

\* What a thread is about to write was committed, and the number of a task
\* it has just inserted is known to no other thread and to no store.
Known(s, state) ==
    /\ state.status \in written[s].statuses \union {None}
    /\ Range(state.tasks) \subseteq written[s].tasks
    /\ IsInjective(state.tasks)

Apart(q, r) == Range(q) \intersect Range(r) = {}

Bound(t) == pc[t] \in {"refresh", "get", "set"}

Trailing(t) ==
    /\ Bound(t) => Known(mine[t], held[t])
    /\ pc[t] \in {"refresh", "get"} =>
          /\ \A st \in Stores :
                cache[st][mine[t]] # None =>
                   Apart(held[t].tasks, cache[st][mine[t]].tasks)
          /\ \A v \in Threads \ {t} :
                Bound(v) /\ mine[v] = mine[t] =>
                   Apart(held[t].tasks, held[v].tasks)

TrailOK == CacheTrailsDatabase /\ \A t \in Threads : Trailing(t)

TrailInv == StoreInv /\ TrailOK

\* A session whose copies were never pulled apart has at most one writer, who
\* brings the cached state up to the row.
Row(s) == [status |-> session[s].status, tasks |-> tasks[s]]

Catching(t, s) ==
    /\ session[s] = None <=> pc[t] = "drop"
    /\ pc[t] = "set" => held[t] = Row(s)
    /\ pc[t] = "refresh" /\ IsNew(t) => held[t] = Row(s)
    /\ pc[t] = "get" => ~IsNew(t)
    /\ pc[t] \in {"refresh", "get"} /\ ~IsNew(t) =>
          /\ cache[link][s] # None
          /\ Merged(t, cache[link][s]) = Row(s)

Agrees(s) ==
    s \notin apart =>
        /\ (\A t \in Threads : ~Writing(t, s)) =>
              cache[link][s] = IF session[s] = None THEN None ELSE Row(s)
        /\ \A t \in Threads :
              Writing(t, s) =>
                 Catching(t, s) /\ \A v \in Threads : Writing(v, s) => v = t

Unused(s) ==
    s \notin used =>
        session[s] = None /\ \A st \in Stores : cache[st][s] = None

SerialOK == \A s \in SessionIds : Agrees(s) /\ Unused(s)

SerialInv == StoreInv /\ SerialOK

-----------------------------------------------------------------------------
(* Requests and the building blocks of the handlers                        *)

\* What a request carries, whichever kind it is.
LEMMA RequestFields ==
    ASSUME NEW r \in Requests
    PROVE  /\ r.op \in {"create", "update", "delete", "task", "run", "graph"}
           /\ r.op \in {"create", "run", "graph"} => r.user \in Users
           /\ r.op = "update" => r.status \in Statuses \union {None}
           /\ r.op = "graph" => r.outcome \in Outcomes
           /\ Named(r) \in SessionIds \union {None}
  BY RequestsAssumption
     DEF LoopRequests, PoolRequests, CreateRequests, UpdateRequests,
         DeleteRequests, TaskRequests, RunRequests, GraphRequests, Named

\* Ending a request, or the second attempt of a graph, keeps the types.
LEMMA EndTypes ==
    ASSUME ThreadsOK, NEW t \in Threads, End(t)
    PROVE  /\ pc' \in [Threads -> {"idle", "user", "adduser", "insert",
                                   "refresh", "get", "set", "drop", "think",
                                   "task", "check", "make", "note"}]
           /\ req' \in [Threads -> Requests \union {None}]
           /\ mine' \in [Threads -> SessionIds \union {None}]
           /\ held' \in [Threads -> States \union {None}]
           /\ round' \in [Threads -> 0..2]
           /\ pc'[t] = "idle"
           /\ \A v \in Threads \ {t} :
                 /\ pc'[v] = pc[v] /\ req'[v] = req[v]
                 /\ mine'[v] = mine[v] /\ held'[v] = held[v]
  BY DEF End, GoTo, ThreadsOK

\* A step of t leaves the other threads where they are.
LEMMA OthersStay ==
    ASSUME ThreadsOK, NEW t \in Threads,
           \A v \in Threads \ {t} :
              /\ pc'[v] = pc[v] /\ req'[v] = req[v]
              /\ mine'[v] = mine[v] /\ held'[v] = held[v],
           users \subseteq users', used \subseteq used', At(t)'
    PROVE  \A v \in Threads : At(v)'
  BY DEF ThreadsOK, At, Op

LEMMA EndKeeps ==
    ASSUME ThreadsOK, NEW t \in Threads, End(t),
           users \subseteq users', used \subseteq used'
    PROVE  ThreadsOK'
  <1>1. At(t)'
    BY EndTypes DEF At, WritingPlaces
  <1>2. QED
    BY <1>1, EndTypes, OthersStay DEF ThreadsOK

\* A thread goes on to another place with its request.
LEMMA GoToKeeps ==
    ASSUME ThreadsOK, NEW t \in Threads, NEW p, GoTo(t, p),
           p \in {"idle", "user", "adduser", "insert", "refresh", "get",
                  "set", "drop", "think", "task", "check", "make", "note"},
           users \subseteq users', used \subseteq used', At(t)',
           UNCHANGED req,
           mine' \in [Threads -> SessionIds \union {None}],
           held' \in [Threads -> States \union {None}],
           round' \in [Threads -> 0..2],
           \A v \in Threads \ {t} : mine'[v] = mine[v] /\ held'[v] = held[v]
    PROVE  ThreadsOK'
  <1>1. /\ pc' = [pc EXCEPT ![t] = p]
        /\ pc' \in [Threads -> {"idle", "user", "adduser", "insert",
                                "refresh", "get", "set", "drop", "think",
                                "task", "check", "make", "note"}]
    BY DEF GoTo, ThreadsOK
  <1>2. \A v \in Threads : At(v)'
    BY <1>1, OthersStay DEF ThreadsOK
  <1>3. QED
    BY <1>1, <1>2 DEF ThreadsOK

\* A failed attempt of a graph starts again, or is the end.
LEMMA PersistedKeeps ==
    ASSUME ThreadsOK, NEW t \in Threads, Persisted(t), pc[t] # "idle",
           req[t].op = "graph", users \subseteq users', used \subseteq used'
    PROVE  ThreadsOK'
  <1>1. CASE End(t)
    BY <1>1, EndKeeps
  <1>2. CASE /\ round' = [round EXCEPT ![t] = 1] /\ GoTo(t, "user")
             /\ UNCHANGED <<req, mine, held>>
    <2>1. At(t)'
      BY <1>2 DEF ThreadsOK, At, GoTo, WritingPlaces
    <2>2. round' \in [Threads -> 0..2]
      BY <1>2 DEF ThreadsOK
    <2>3. QED
      BY <1>2, <2>1, <2>2, GoToKeeps DEF ThreadsOK
  <1>3. QED
    BY <1>1, <1>2 DEF Persisted

LEMMA FailKeeps ==
    ASSUME ThreadsOK, NEW t \in Threads, Fail(t), pc[t] # "idle",
           users \subseteq users', used \subseteq used'
    PROVE  ThreadsOK'
  BY EndKeeps, PersistedKeeps DEF Fail, Op

-----------------------------------------------------------------------------
(* Type correctness: the threads                                           *)

LEMMA StoreInit == SessionInit => StoreInv
  <1> SUFFICES ASSUME SessionInit PROVE StoreInv
    OBVIOUS
  <1>1. ThreadsOK
    BY DEF SessionInit, ThreadsOK, At, WritingPlaces
  <1>2. [s \in SessionIds |-> <<>>] \in [SessionIds -> Seq(1..inserted)]
    OBVIOUS
  <1>3. written \in [SessionIds -> Histories]
    BY DEF SessionInit, Histories
  <1>4. QED
    BY <1>1, <1>2, <1>3, BoundAssumption
       DEF SessionInit, StoreInv, TablesOK, Stores

LEMMA SubmitKeeps ==
    ASSUME ThreadsOK, NEW t \in Threads, NEW r \in Requests, Submit(t, r)
    PROVE  ThreadsOK'
  <1>1. PICK p \in {"user", "think", "task"} :
           /\ pc' = [pc EXCEPT ![t] = p]
           /\ p = "user" => r.op \in {"create", "run", "graph"}
    BY RequestFields DEF Submit, GoTo
  <1>2. /\ req' = [req EXCEPT ![t] = r] /\ UNCHANGED <<users, used, held, round>>
        /\ mine' \in [Threads -> SessionIds \union {None}]
        /\ \A v \in Threads \ {t} : mine'[v] = mine[v]
    BY RequestFields DEF Submit, ThreadsOK, rows
  <1>3. At(t)'
    BY <1>1, <1>2 DEF At, WritingPlaces, ThreadsOK
  <1>4. \A v \in Threads : At(v)'
    BY <1>1, <1>2, <1>3, OthersStay DEF ThreadsOK
  <1>5. QED
    BY <1>1, <1>2, <1>4 DEF ThreadsOK

LEMMA UserKeeps ==
    ASSUME StoreInv, NEW t \in Threads, EnsureUser(t) \/ AddUser(t)
    PROVE  ThreadsOK'
  <1>0. ThreadsOK /\ At(t) /\ UNCHANGED used /\ users \subseteq users'
    BY DEF StoreInv, ThreadsOK, EnsureUser, AddUser, rows
  <1>1. CASE EnsureUser(t)
    <2>1. PICK p \in {"check", "insert", "adduser"} :
             /\ GoTo(t, p)
             /\ p = "check" => req[t].op = "graph" /\ req[t].user \in users
             /\ p = "insert" => req[t].op # "graph" /\ req[t].user \in users
      BY <1>0, <1>1 DEF EnsureUser, AfterUser, Op
    <2>2. UNCHANGED <<users, used, req, mine, held, round>>
      BY <1>1 DEF EnsureUser, rows, local
    <2>3. At(t)'
      BY <1>0, <1>1, <2>1, <2>2 DEF At, WritingPlaces, GoTo, ThreadsOK, EnsureUser
    <2>4. QED
      BY <1>0, <2>1, <2>2, <2>3, GoToKeeps DEF ThreadsOK
  <1>2. CASE AddUser(t) /\ req[t].user \in users
    BY <1>0, <1>2, FailKeeps DEF AddUser
  <1>3. CASE AddUser(t) /\ req[t].user \notin users
    <2>1. PICK p \in {"check", "insert"} :
             /\ GoTo(t, p)
             /\ p = "check" => req[t].op = "graph"
             /\ p = "insert" => req[t].op # "graph"
      BY <1>0, <1>3 DEF AddUser, AfterUser, Op
    <2>2. /\ users' = users \union {req[t].user}
          /\ UNCHANGED <<used, req, mine, held, round>>
      BY <1>3 DEF AddUser, local
    <2>3. At(t)'
      BY <1>0, <1>3, <2>1, <2>2 DEF At, WritingPlaces, GoTo, ThreadsOK, AddUser
    <2>4. QED
      BY <1>0, <2>1, <2>2, <2>3, GoToKeeps DEF ThreadsOK
  <1>4. QED
    BY <1>1, <1>2, <1>3

LEMMA InsertSessionKeeps ==
    ASSUME StoreInv, NEW t \in Threads, InsertSession(t)
    PROVE  ThreadsOK'
  <1>0. ThreadsOK /\ At(t)
    BY DEF StoreInv, ThreadsOK
  <1>1. PICK s \in Fresh \ used : NewSession(t, s, "ACTIVE")
    BY DEF InsertSession
  <1>2. /\ used' = used \union {s} /\ mine' = [mine EXCEPT ![t] = s]
        /\ s \in SessionIds
    BY <1>1 DEF NewSession, SessionIds
  <1>3. /\ held' = [held EXCEPT ![t] = [status |-> "ACTIVE", tasks |-> <<>>]]
        /\ GoTo(t, "refresh") /\ UNCHANGED <<users, req, round>>
    BY DEF InsertSession
  <1>4. [status |-> "ACTIVE", tasks |-> <<>>] \in States
    BY DEF States
  <1>5. /\ mine' \in [Threads -> SessionIds \union {None}]
        /\ held' \in [Threads -> States \union {None}]
        /\ \A v \in Threads \ {t} : mine'[v] = mine[v] /\ held'[v] = held[v]
    BY <1>0, <1>2, <1>3, <1>4 DEF ThreadsOK
  <1>6. At(t)'
    BY <1>0, <1>2, <1>3, <1>4 DEF At, GoTo, ThreadsOK, InsertSession
  <1>7. QED
    BY <1>0, <1>2, <1>3, <1>5, <1>6, GoToKeeps DEF ThreadsOK

\* The state that update_session and create_task are going to merge.
LEMMA CommittingKeeps ==
    ASSUME StoreInv, NEW t \in Threads, UpdateSession(t) \/ CreateTask(t)
    PROVE  ThreadsOK'
  <1>0. ThreadsOK /\ At(t) /\ TablesOK
    BY DEF StoreInv, ThreadsOK
  <1>1. mine[t] \in SessionIds /\ session[mine[t]] \in SessionRows /\ mine[t] \in used
    BY <1>0, LoopAssumption
       DEF UpdateSession, CreateTask, Missing, ThreadsOK, TablesOK
  <1>2. PICK state \in States : held' = [held EXCEPT ![t] = state]
    <2>1. CASE UpdateSession(t)
      <3> DEFINE st == IF req[t].status = None THEN session[mine[t]].status
                                               ELSE req[t].status
      <3>1. held' = [held EXCEPT ![t] = [status |-> st, tasks |-> <<>>]]
        BY <2>1 DEF UpdateSession
      <3>2. st \in Statuses \union Outcomes \union {"ACTIVE"}
        BY <1>0, <1>1, <2>1, RequestFields
           DEF UpdateSession, Op, At, SessionRows
      <3>3. [status |-> st, tasks |-> <<>>] \in States
        BY <3>2 DEF States
      <3>4. QED
        BY <3>1, <3>3
    <2>2. CASE CreateTask(t)
      <3>1. held' = [held EXCEPT ![t] =
                       [status |-> None, tasks |-> <<inserted + 1>>]]
        BY <2>2 DEF CreateTask
      <3>2. inserted + 1 \in TaskIds
        BY <1>0, <2>2, BoundAssumption DEF CreateTask, TablesOK, TaskIds
      <3>3. <<inserted + 1>> \in Seq(TaskIds)
        BY <3>2
      <3>4. [status |-> None, tasks |-> <<inserted + 1>>] \in States
        BY <3>3 DEF States
      <3>5. QED
        BY <3>1, <3>4
    <2>3. QED
      BY <2>1, <2>2
  <1>3. GoTo(t, "refresh") /\ UNCHANGED <<users, used, req, mine, round>>
    BY DEF UpdateSession, CreateTask
  <1>4. At(t)'
    BY <1>0, <1>1, <1>2, <1>3
       DEF At, GoTo, ThreadsOK, WritingPlaces, UpdateSession, CreateTask
  <1>5. /\ held' \in [Threads -> States \union {None}]
        /\ \A v \in Threads \ {t} : held'[v] = held[v]
    BY <1>0, <1>2 DEF ThreadsOK
  <1>6. QED
    BY <1>0, <1>3, <1>4, <1>5, GoToKeeps DEF ThreadsOK

LEMMA DeleteSessionKeeps ==
    ASSUME StoreInv, NEW t \in Threads, DeleteSession(t)
    PROVE  ThreadsOK'
  <1>0. ThreadsOK /\ At(t) /\ TablesOK
    BY DEF StoreInv, ThreadsOK
  <1>1. mine[t] \in used
    BY <1>0, LoopAssumption DEF DeleteSession, Missing, ThreadsOK, TablesOK
  <1>2. /\ GoTo(t, "drop") /\ UNCHANGED <<users, used, req, mine, held, round>>
        /\ pc[t] # "idle" /\ req[t].op = "delete"
    BY DEF DeleteSession, local, Op
  <1>3. At(t)'
    BY <1>0, <1>1, <1>2 DEF At, GoTo, ThreadsOK, WritingPlaces, Op
  <1>4. QED
    BY <1>0, <1>2, <1>3, GoToKeeps DEF ThreadsOK

\* What is merged is a state.
LEMMA MergedIsState ==
    ASSUME NEW t, NEW a \in States, held[t] \in States
    PROVE  Merged(t, a) \in States
  <1> DEFINE b == held[t]
  <1>1. /\ a.status \in Statuses \union Outcomes \union {"ACTIVE", None}
        /\ b.status \in Statuses \union Outcomes \union {"ACTIVE", None}
        /\ a.tasks \in Seq(TaskIds) /\ b.tasks \in Seq(TaskIds)
        /\ a = [status |-> a.status, tasks |-> a.tasks]
    BY DEF States
  <1>2. a.tasks \o b.tasks \in Seq(TaskIds)
    BY <1>1
  <1>3. Merged(t, a) = IF Op(t, "update")
                         THEN [status |-> b.status, tasks |-> a.tasks]
                         ELSE [status |-> a.status, tasks |-> a.tasks \o b.tasks]
    <2>1. CASE Op(t, "update")
      <3>1. Merged(t, a) = [a EXCEPT !.status = b.status]
        BY <2>1 DEF Merged
      <3>2. QED
        BY <1>1, <2>1, <3>1
    <2>2. CASE ~Op(t, "update")
      <3>1. Merged(t, a) = [a EXCEPT !.tasks = a.tasks \o b.tasks]
        BY <2>2 DEF Merged
      <3>2. QED
        BY <1>1, <2>2, <3>1
    <2>3. QED
      BY <2>1, <2>2
  <1>4. QED
    BY <1>1, <1>2, <1>3 DEF States

LEMMA CacheStepKeeps ==
    ASSUME StoreInv, NEW t \in Threads,
           Refresh(t) \/ GetState(t) \/ SetState(t) \/ DropState(t)
    PROVE  ThreadsOK'
  <1>0. ThreadsOK /\ At(t) /\ TablesOK
    BY DEF StoreInv, ThreadsOK
  <1>1. CASE End(t)
    BY <1>0, <1>1, EndKeeps
       DEF Refresh, GetState, SetState, DropState, rows
  <1>2. CASE Refresh(t) /\ ~End(t)
    <2>1. PICK p \in {"set", "get"} : GoTo(t, p)
      BY <1>2 DEF Refresh
    <2>2. UNCHANGED <<users, used, req, mine, held, round>>
      BY <1>2 DEF Refresh, rows, local
    <2>3. At(t)'
      BY <1>0, <1>2, <2>1, <2>2 DEF At, GoTo, ThreadsOK, WritingPlaces, Refresh
    <2>4. QED
      BY <1>0, <2>1, <2>2, <2>3, GoToKeeps DEF ThreadsOK
  <1>3. CASE GetState(t)
    <2>1. PICK st \in Stores :
             held' = [held EXCEPT ![t] =
                        Merged(t, IF cache[st][mine[t]] = None THEN Blank
                                  ELSE cache[st][mine[t]])]
      BY <1>0, <1>3 DEF GetState, TablesOK
    <2>2. /\ mine[t] \in SessionIds /\ held[t] \in States
          /\ pc[t] = "get" /\ mine[t] \in used
      BY <1>0, <1>3 DEF GetState, At, WritingPlaces, TablesOK
    <2>3. (IF cache[st][mine[t]] = None THEN Blank ELSE cache[st][mine[t]])
             \in States
      BY <1>0, <2>2 DEF TablesOK, Blank, States
    <2>4. /\ held' \in [Threads -> States \union {None}]
          /\ held'[t] \in States
          /\ \A v \in Threads \ {t} : held'[v] = held[v]
      BY <1>0, <2>1, <2>2, <2>3, MergedIsState DEF ThreadsOK
    <2>5. GoTo(t, "set") /\ UNCHANGED <<users, used, req, mine, round>>
      BY <1>3 DEF GetState, rows
    <2>6. At(t)'
      BY <1>0, <2>2, <2>4, <2>5 DEF At, GoTo, ThreadsOK
    <2>7. QED
      BY <1>0, <2>4, <2>5, <2>6, GoToKeeps DEF ThreadsOK
  <1>4. CASE SetState(t) /\ ~End(t)
    <2>1. /\ GoTo(t, "think") /\ held' = [held EXCEPT ![t] = None]
          /\ UNCHANGED <<users, used, req, mine, round>> /\ pc[t] # "idle"
      BY <1>4 DEF SetState, rows
    <2>2. At(t)'
      BY <1>0, <2>1 DEF At, GoTo, ThreadsOK, WritingPlaces
    <2>3. QED
      BY <1>0, <2>1, <2>2, GoToKeeps DEF ThreadsOK
  <1>5. QED
    BY <1>1, <1>2, <1>3, <1>4 DEF DropState

LEMMA AgentKeeps ==
    ASSUME StoreInv, NEW t \in Threads,
           \/ NotFound(t) \/ Think(t) \/ GraphSession(t) \/ GraphInsert(t)
           \/ GraphTask(t)
    PROVE  ThreadsOK'
  <1>0. ThreadsOK /\ At(t) /\ TablesOK /\ users' = users /\ used \subseteq used'
    BY DEF StoreInv, ThreadsOK, NotFound, Think, GraphSession, GraphInsert,
           GraphTask, NewSession, rows
  <1>1. CASE End(t)
    BY <1>0, <1>1, EndKeeps
  <1>2. CASE (Think(t) \/ GraphSession(t)) /\ ~End(t)
    <2>1. PICK p \in {"task", "make", "note"} :
             /\ GoTo(t, p)
             /\ p \in {"make", "note"} => pc[t] = "check"
      BY <1>2 DEF Think, GraphSession
    <2>2. UNCHANGED <<used, req, mine, held, round>> /\ pc[t] # "idle"
      BY <1>2 DEF Think, GraphSession, rows, local
    <2>3. At(t)'
      BY <1>0, <2>1, <2>2 DEF At, GoTo, ThreadsOK, WritingPlaces
    <2>4. QED
      BY <1>0, <2>1, <2>2, <2>3, GoToKeeps DEF ThreadsOK
  <1>3. CASE GraphInsert(t) /\ ~Missing(t)
    BY <1>0, <1>3, FailKeeps DEF GraphInsert
  <1>4. CASE GraphInsert(t) /\ Missing(t)
    <2>1. PICK s \in IF mine[t] = None THEN Fresh \ used ELSE {mine[t]} :
             mine' = [mine EXCEPT ![t] = s]
      BY <1>4 DEF GraphInsert, NewSession
    <2>2. GoTo(t, "note") /\ UNCHANGED <<req, held, round>> /\ pc[t] = "make"
      BY <1>4 DEF GraphInsert
    <2>3. /\ mine' \in [Threads -> SessionIds \union {None}]
          /\ \A v \in Threads \ {t} : mine'[v] = mine[v]
      BY <1>0, <2>1 DEF ThreadsOK, SessionIds
    <2>4. At(t)'
      BY <1>0, <2>2 DEF At, GoTo, ThreadsOK, WritingPlaces
    <2>5. QED
      BY <1>0, <2>2, <2>3, <2>4, GoToKeeps DEF ThreadsOK
  <1>5. CASE GraphTask(t)
    BY <1>0, <1>5, PersistedKeeps DEF GraphTask, At
  <1>6. QED
    BY <1>1, <1>2, <1>3, <1>4, <1>5 DEF NotFound

LEMMA ThreadsStep == StoreInv /\ [SessionNext]_sessionVars => ThreadsOK'
  <1> SUFFICES ASSUME StoreInv, [SessionNext]_sessionVars PROVE ThreadsOK'
    OBVIOUS
  <1>1. ASSUME NEW st \in Stores, NEW s \in SessionIds, Expire(st, s)
        PROVE  ThreadsOK'
    BY <1>1 DEF Expire, rows, local, StoreInv, ThreadsOK, At, Op
  <1>2. CASE Crash
    BY <1>2 DEF Crash, StoreInv, ThreadsOK, At, WritingPlaces
  <1>3. CASE UNCHANGED sessionVars
    BY <1>3 DEF sessionVars, StoreInv, ThreadsOK, At, Op
  <1>4. QED
    BY <1>1, <1>2, <1>3, SubmitKeeps, UserKeeps, InsertSessionKeeps,
       CommittingKeeps, DeleteSessionKeeps, CacheStepKeeps, AgentKeeps
       DEF SessionNext, Step, StoreInv

-----------------------------------------------------------------------------
(* Type correctness: the tables                                            *)

\* With more tasks inserted, sequences and histories keep their types.
LEMMA MoreTasks ==
    ASSUME TablesOK, inserted' \in Nat, inserted <= inserted'
    PROVE  /\ \A q \in Seq(1..inserted) : q \in Seq(1..inserted')
           /\ \A h \in Histories : h \in Histories'
           /\ inserted \in Nat /\ inserted <= MaxTasks
  <1>1. inserted \in Nat /\ inserted <= MaxTasks
    BY BoundAssumption DEF TablesOK
  <1>2. 1..inserted \subseteq 1..inserted'
    BY <1>1
  <1>3. QED
    BY <1>1, <1>2 DEF Histories

\* What a commit adds to the history of a session.
LEMMA CommitTypes ==
    ASSUME TablesOK, NEW s \in SessionIds, inserted' \in Nat,
           inserted <= inserted',
           NEW A \in SUBSET (Statuses \union Outcomes \union {"ACTIVE"}),
           NEW B \in SUBSET (1..inserted'), Commit(s, A, B)
    PROVE  /\ written' \in [SessionIds -> Histories']
           /\ written'[s].statuses = written[s].statuses \union A
           /\ written'[s].tasks = written[s].tasks \union B
           /\ \A x \in SessionIds \ {s} : written'[x] = written[x]
  <1>1. written \in [SessionIds -> Histories]
    BY DEF TablesOK
  <1>2. /\ written[s] = [statuses |-> written[s].statuses,
                         tasks |-> written[s].tasks]
        /\ written[s].statuses \subseteq Statuses \union Outcomes \union {"ACTIVE"}
        /\ written[s].tasks \subseteq 1..inserted
    BY <1>1 DEF Histories
  <1>3. /\ DOMAIN written' = SessionIds
        /\ written'[s] = [statuses |-> written[s].statuses \union A,
                          tasks |-> written[s].tasks \union B]
        /\ \A x \in SessionIds \ {s} : written'[x] = written[x]
        /\ written' = [x \in SessionIds |-> written'[x]]
    BY <1>1, <1>2 DEF Commit
  <1>4. 1..inserted \subseteq 1..inserted'
    BY BoundAssumption DEF TablesOK
  <1>5. \A x \in SessionIds : written'[x] \in Histories'
    <2>1. written'[s] \in Histories'
      BY <1>2, <1>3, <1>4 DEF Histories
    <2>2. \A x \in SessionIds \ {s} : written'[x] \in Histories'
      BY <1>1, <1>3, MoreTasks
    <2>3. QED
      BY <2>1, <2>2
  <1>6. QED
    BY <1>3, <1>5

\* A row that is made or changed has a user, and its id is in use.
LEMMA RowTypes ==
    ASSUME TablesOK, NEW s \in SessionIds, NEW row \in SessionRows,
           session' = [session EXCEPT ![s] = row], row.user \in users',
           users \subseteq users', users' \subseteq Users,
           s \in used', used \subseteq used', used' \subseteq SessionIds,
           UNCHANGED tasks
    PROVE  /\ session' \in [SessionIds -> SessionRows \union {None}]
           /\ \A x \in SessionIds :
                 /\ session'[x] # None => session'[x].user \in users' /\ x \in used'
                 /\ tasks'[x] # <<>> => session'[x] # None
  BY NoneAssumption DEF TablesOK

\* What the handlers that touch neither rows nor history leave as it is.
LEMMA SameRows ==
    ASSUME TablesOK, UNCHANGED <<session, tasks, inserted, used, written>>,
           users \subseteq users', users' \subseteq Users,
           link' \in Stores, apart' \subseteq SessionIds,
           cache' \in [Stores -> [SessionIds -> States \union {None}]]
    PROVE  TablesOK'
  BY DEF TablesOK, Histories

LEMMA InsertTables ==
    ASSUME StoreInv, NEW t \in Threads, NEW s \in SessionIds,
           NEW st \in Outcomes \union {"ACTIVE"},
           pc[t] \in {"insert", "make"}, NewSession(t, s, st),
           UNCHANGED <<users, tasks, inserted, link, cache>>,
           apart' \subseteq SessionIds
    PROVE  TablesOK'
  <1>0. TablesOK /\ At(t) /\ inserted \in Nat
    BY BoundAssumption DEF StoreInv, ThreadsOK, TablesOK
  <1>1. req[t].user \in users /\ req[t].user \in Users
    BY <1>0 DEF At, TablesOK
  <1>2. [user |-> req[t].user, status |-> st] \in SessionRows
    BY <1>1 DEF SessionRows
  <1>3. /\ session' \in [SessionIds -> SessionRows \union {None}]
        /\ \A x \in SessionIds :
              /\ session'[x] # None => session'[x].user \in users' /\ x \in used'
              /\ tasks'[x] # <<>> => session'[x] # None
    <2>1. /\ session' = [session EXCEPT ![s] = [user |-> req[t].user, status |-> st]]
          /\ used' = used \union {s}
      BY DEF NewSession
    <2>2. QED
      BY <1>0, <1>1, <1>2, <2>1, RowTypes DEF TablesOK
  <1>4. written' \in [SessionIds -> Histories']
    BY <1>0, CommitTypes DEF NewSession
  <1>5. QED
    BY <1>0, <1>3, <1>4 DEF TablesOK, NewSession

LEMMA UpdateTables ==
    ASSUME StoreInv, NEW t \in Threads, UpdateSession(t)
    PROVE  TablesOK'
  <1>0. TablesOK /\ At(t) /\ inserted \in Nat
    BY BoundAssumption DEF StoreInv, ThreadsOK, TablesOK
  <1>1. /\ mine[t] \in SessionIds /\ session[mine[t]] \in SessionRows
        /\ session[mine[t]].user \in users /\ mine[t] \in used
    BY LoopAssumption
       DEF StoreInv, ThreadsOK, TablesOK, UpdateSession, Missing
  <1> DEFINE s == mine[t]
             st == IF req[t].status = None THEN session[s].status
                                           ELSE req[t].status
  <1>2. st \in Statuses \union Outcomes \union {"ACTIVE"}
    BY <1>0, <1>1, RequestFields DEF UpdateSession, Op, At, SessionRows
  <1>3. /\ session' = [session EXCEPT ![s] = [user |-> session[s].user, status |-> st]]
        /\ [user |-> session[s].user, status |-> st] \in SessionRows
        /\ Commit(s, {st}, {}) /\ UNCHANGED <<users, tasks, inserted, used, link, cache>>
        /\ apart' = apart \union Overlap(t, s)
    <2>1. session[s] = [user |-> session[s].user, status |-> session[s].status]
      BY <1>1 DEF SessionRows
    <2>2. session' = [session EXCEPT ![s].status = st]
      BY DEF UpdateSession
    <2>3. session' = [session EXCEPT ![s] = [user |-> session[s].user, status |-> st]]
      <3> HIDE DEF st
      <3>1. [session[s] EXCEPT !.status = st] = [user |-> session[s].user, status |-> st]
        BY <2>1
      <3>2. session' = [session EXCEPT ![s] = [session[s] EXCEPT !.status = st]]
        BY <2>2
      <3>3. QED
        BY <3>1, <3>2
    <2>4. QED
      BY <1>1, <1>2, <2>3 DEF UpdateSession, SessionRows
  <1>4. /\ session' \in [SessionIds -> SessionRows \union {None}]
        /\ \A x \in SessionIds :
              /\ session'[x] # None => session'[x].user \in users' /\ x \in used'
              /\ tasks'[x] # <<>> => session'[x] # None
    <2> HIDE DEF st
    <2>1. QED
      BY <1>0, <1>1, <1>3, RowTypes DEF TablesOK
  <1>5. written' \in [SessionIds -> Histories']
    <2> HIDE DEF st
    <2>1. QED
      BY <1>0, <1>1, <1>2, <1>3, CommitTypes, SMTT(30)
  <1>6. Overlap(t, s) \subseteq SessionIds
    BY <1>1 DEF Overlap
  <1>7. QED
    BY <1>0, <1>3, <1>4, <1>5, <1>6 DEF TablesOK

LEMMA DeleteTables ==
    ASSUME StoreInv, NEW t \in Threads, DeleteSession(t)
    PROVE  TablesOK'
  <1>1. mine[t] \in SessionIds
    BY LoopAssumption DEF StoreInv, ThreadsOK, DeleteSession, Missing
  <1>2. <<>> \in Seq(1..inserted) /\ Overlap(t, mine[t]) \subseteq SessionIds
    BY <1>1 DEF Overlap
  <1>3. tasks' \in [SessionIds -> Seq(1..inserted)]
    BY <1>2 DEF DeleteSession, StoreInv, TablesOK
  <1>4. QED
    BY <1>1, <1>2, <1>3 DEF DeleteSession, StoreInv, TablesOK, Histories

\* A task is inserted: what create_task and the graph share.
LEMMA TaskTables ==
    ASSUME StoreInv, NEW s \in SessionIds, session[s] # None, AddTask(s),
           inserted < MaxTasks, Commit(s, {}, {inserted + 1}),
           UNCHANGED <<users, session, used, link, cache>>,
           apart' \subseteq SessionIds
    PROVE  /\ TablesOK' /\ inserted' = inserted + 1 /\ inserted \in Nat
           /\ tasks' = [tasks EXCEPT ![s] = Append(tasks[s], inserted + 1)]
           /\ written'[s].statuses = written[s].statuses
           /\ written'[s].tasks = written[s].tasks \union {inserted + 1}
           /\ \A x \in SessionIds \ {s} : written'[x] = written[x]
  <1>0. /\ TablesOK /\ inserted \in Nat /\ inserted' = inserted + 1
        /\ inserted' \in 0..MaxTasks
    BY BoundAssumption DEF StoreInv, TablesOK, AddTask
  <1>1. /\ written' \in [SessionIds -> Histories']
        /\ written'[s].statuses = written[s].statuses
        /\ written'[s].tasks = written[s].tasks \union {inserted + 1}
        /\ \A x \in SessionIds \ {s} : written'[x] = written[x]
    <2>1. {inserted + 1} \in SUBSET (1..inserted')
      BY <1>0
    <2>2. /\ {} \in SUBSET (Statuses \union Outcomes \union {"ACTIVE"})
          /\ inserted' \in Nat /\ inserted <= inserted'
      BY <1>0
    <2>3. /\ written' \in [SessionIds -> Histories']
          /\ written'[s].statuses = written[s].statuses \union {}
          /\ written'[s].tasks = written[s].tasks \union {inserted + 1}
          /\ \A x \in SessionIds \ {s} : written'[x] = written[x]
      BY <1>0, <2>1, <2>2, CommitTypes
    <2>4. QED
      BY <2>3
  <1>2. /\ \A q \in Seq(1..inserted) : q \in Seq(1..inserted')
        /\ inserted + 1 \in 1..inserted'
    BY <1>0, MoreTasks
  <1>3. tasks' = [tasks EXCEPT ![s] = Append(tasks[s], inserted + 1)]
    BY DEF AddTask
  <1>4. Append(tasks[s], inserted + 1) \in Seq(1..inserted')
    BY <1>0, <1>2 DEF TablesOK
  <1>5. tasks' \in [SessionIds -> Seq(1..inserted')]
    BY <1>0, <1>2, <1>3, <1>4 DEF TablesOK
  <1>6. \A x \in SessionIds : tasks'[x] # <<>> => session'[x] # None
    BY <1>0, <1>3 DEF TablesOK
  <1>7. QED
    BY <1>0, <1>1, <1>3, <1>5, <1>6 DEF TablesOK

LEMMA CreateTaskTables ==
    ASSUME StoreInv, NEW t \in Threads, CreateTask(t)
    PROVE  TablesOK'
  <1>1. mine[t] \in SessionIds /\ session[mine[t]] # None
    BY LoopAssumption DEF StoreInv, ThreadsOK, CreateTask, Missing
  <1>2. apart' \subseteq SessionIds
    BY <1>1 DEF CreateTask, Overlap, StoreInv, TablesOK
  <1>3. QED
    BY <1>1, <1>2, TaskTables DEF CreateTask

LEMMA GraphTables ==
    ASSUME StoreInv, NEW t \in Threads, GraphInsert(t) \/ GraphTask(t)
    PROVE  TablesOK'
  <1>0. TablesOK /\ At(t) /\ mine[t] \in SessionIds \union {None}
    BY DEF StoreInv, ThreadsOK
  <1>1. CASE UNCHANGED <<session, tasks, inserted, used, written, apart>>
    BY <1>0, <1>1, SameRows DEF GraphInsert, GraphTask, TablesOK
  <1>2. CASE GraphInsert(t) /\ Missing(t)
    <2>1. PICK s \in IF mine[t] = None THEN Fresh \ used ELSE {mine[t]} :
             NewSession(t, s, req[t].outcome) /\ apart' = apart \union {s}
      BY <1>2 DEF GraphInsert
    <2>2. s \in SessionIds
      BY <1>0, <2>1 DEF SessionIds
    <2>3. req[t].outcome \in Outcomes
      BY <1>0, <1>2, RequestFields DEF At, GraphInsert
    <2>4. apart' \subseteq SessionIds
      BY <1>0, <2>1, <2>2 DEF TablesOK
    <2>5. QED
      BY <1>2, <2>1, <2>2, <2>3, <2>4, InsertTables DEF GraphInsert
  <1>3. CASE GraphTask(t) /\ ~Missing(t)
    <2>1. mine[t] \in SessionIds /\ session[mine[t]] # None
      BY <1>0, <1>3 DEF Missing
    <2>2. apart' \subseteq SessionIds
      BY <1>0, <1>3, <2>1 DEF GraphTask, TablesOK
    <2>3. QED
      BY <1>3, <2>1, <2>2, TaskTables DEF GraphTask
  <1>4. QED
    BY <1>1, <1>2, <1>3 DEF GraphInsert, GraphTask

\* Writing a state to the stores a call has reached.
LEMMA PutTypes ==
    ASSUME TablesOK, NEW s \in SessionIds, NEW state \in States \union {None},
           NEW reached, Put(reached, s, state)
    PROVE  /\ cache' \in [Stores -> [SessionIds -> States \union {None}]]
           /\ \A st \in Stores, x \in SessionIds :
                 cache'[st][x] = IF st \in reached /\ x = s THEN state
                                                            ELSE cache[st][x]
  BY DEF Put, TablesOK

LEMMA CacheTables ==
    ASSUME StoreInv, NEW t \in Threads, GetState(t) \/ SetState(t) \/ DropState(t)
    PROVE  TablesOK'
  <1>0. /\ TablesOK /\ At(t) /\ mine[t] \in used /\ mine[t] \in SessionIds
        /\ pc[t] # "drop" => held[t] \in States
    BY DEF StoreInv, ThreadsOK, TablesOK, At, WritingPlaces, GetState,
           SetState, DropState
  <1>1. CASE GetState(t)
    <2>1. PICK st : apart' = apart \union Failed({st}, mine[t])
      BY <1>1 DEF GetState
    <2>2. apart' \subseteq SessionIds
      BY <1>0, <2>1 DEF Failed, TablesOK
    <2>3. QED
      BY <1>0, <1>1, <2>2, SameRows DEF GetState, rows, TablesOK
  <1>2. CASE SetState(t) \/ DropState(t)
    <2>1. PICK reached \in SUBSET Stores, state \in States \union {None} :
             /\ Put(reached, mine[t], state)
             /\ apart' = apart \union Failed(reached, mine[t])
      <3>1. CASE SetState(t)
        BY <1>0, <3>1 DEF SetState, Reached, Stores
      <3>2. CASE DropState(t)
        BY <3>2 DEF DropState, Reached, Stores
      <3>3. QED
        BY <1>2, <3>1, <3>2
    <2>2. apart' \subseteq SessionIds
      BY <1>0, <2>1 DEF Failed, TablesOK
    <2>3. cache' \in [Stores -> [SessionIds -> States \union {None}]]
      BY <1>0, <2>1, PutTypes
    <2>4. QED
      BY <1>0, <1>2, <2>2, <2>3, SameRows DEF SetState, DropState, rows, TablesOK
  <1>3. QED
    BY <1>1, <1>2

LEMMA TablesStep == StoreInv /\ [SessionNext]_sessionVars => TablesOK'
  <1> SUFFICES ASSUME StoreInv, [SessionNext]_sessionVars PROVE TablesOK'
    OBVIOUS
  <1>0. TablesOK
    BY DEF StoreInv
  <1>1. ASSUME NEW t \in Threads, NEW r \in Requests, Submit(t, r)
        PROVE  TablesOK'
    BY <1>0, <1>1, SameRows DEF Submit, rows, TablesOK
  <1>2. ASSUME NEW t \in Threads,
               \/ EnsureUser(t) \/ AddUser(t) \/ NotFound(t) \/ Refresh(t)
               \/ Think(t) \/ GraphSession(t)
        PROVE  TablesOK'
    <2>1. /\ UNCHANGED <<session, tasks, inserted, used, written, link, cache, apart>>
          /\ \/ users' = users
             \/ users' = users \union {req[t].user} /\ pc[t] = "adduser"
      BY <1>2 DEF EnsureUser, AddUser, NotFound, Refresh, Think, GraphSession, rows
    <2>2. pc[t] = "adduser" => req[t].user \in Users
      BY RequestFields DEF StoreInv, ThreadsOK, At
    <2>3. QED
      BY <1>0, <2>1, <2>2, SameRows DEF TablesOK
  <1>3. ASSUME NEW t \in Threads, InsertSession(t)
        PROVE  TablesOK'
    <2>1. PICK s \in Fresh \ used : NewSession(t, s, "ACTIVE")
      BY <1>3 DEF InsertSession
    <2>2. QED
      BY <1>0, <1>3, <2>1, InsertTables DEF InsertSession, SessionIds, TablesOK
  <1>4. ASSUME NEW st \in Stores, NEW s \in SessionIds, Expire(st, s)
        PROVE  TablesOK'
    <2>1. cache' \in [Stores -> [SessionIds -> States \union {None}]]
      BY <1>0, <1>4 DEF Expire, TablesOK
    <2>2. QED
      BY <1>0, <1>4, <2>1, SameRows DEF Expire, rows, TablesOK
  <1>5. CASE Crash
    <2>1. cache' \in [Stores -> [SessionIds -> States \union {None}]]
      BY <1>0, <1>5 DEF Crash, TablesOK
    <2>2. QED
      BY <1>0, <1>5, <2>1, SameRows DEF Crash, rows, TablesOK
  <1>6. CASE UNCHANGED sessionVars
    BY <1>0, <1>6, SameRows DEF sessionVars, TablesOK
  <1>7. QED
    BY <1>1, <1>2, <1>3, <1>4, <1>5, <1>6, UpdateTables, DeleteTables,
       CreateTaskTables, GraphTables, CacheTables
       DEF SessionNext, Step

\* What is known of the threads and the tables, always.
LEMMA StoreInvariant == SessionSpec => []StoreInv
  <1>1. StoreInv /\ [SessionNext]_sessionVars => StoreInv'
    BY ThreadsStep, TablesStep DEF StoreInv
  <1>2. QED
    BY <1>1, StoreInit, PTL DEF SessionSpec

\* Every table, store and thread has values of its type, a session belongs to
\* a stored user and only a stored session has tasks.
THEOREM SessionTypes == SessionSpec => []SessionTypeOK
  <1>1. StoreInv => SessionTypeOK
    <2> SUFFICES ASSUME StoreInv PROVE SessionTypeOK
      OBVIOUS
    <2>1. ASSUME NEW s \in SessionIds
          PROVE  /\ session[s] = None \/ session[s] \in SessionRows
                 /\ tasks[s] \in Seq(TaskIds)
                 /\ tasks[s] # <<>> => session[s] # None
                 /\ session[s] # None => session[s].user \in users
      <3>1. 1..inserted \subseteq TaskIds
        BY BoundAssumption DEF StoreInv, TablesOK, TaskIds
      <3>2. \A q \in Seq(1..inserted) : q \in Seq(TaskIds)
        BY <3>1, BoundAssumption DEF TaskIds, StoreInv, TablesOK
      <3>3. QED
        BY <3>2 DEF StoreInv, TablesOK
    <2>2. \A st \in Stores, s \in SessionIds :
             cache[st][s] = None \/ cache[st][s] \in States
      BY DEF StoreInv, TablesOK
    <2>3. QED
      BY <2>1, <2>2 DEF SessionTypeOK, StoreInv, ThreadsOK, TablesOK
  <1>2. QED
    BY <1>1, StoreInvariant, PTL

-----------------------------------------------------------------------------
(* Sequences of task numbers                                               *)

LEMMA NoTasks == Range(<<>>) = {} /\ IsInjective(<<>>)
  BY DEF Range, IsInjective

LEMMA OneTask ==
    ASSUME NEW n
    PROVE  Range(<<n>>) = {n} /\ IsInjective(<<n>>)
  BY DEF Range, IsInjective

LEMMA JoinedSequences ==
    ASSUME NEW S, NEW q \in Seq(S), NEW r \in Seq(S)
    PROVE  /\ Range(q \o r) = Range(q) \union Range(r)
           /\ (IsInjective(q) /\ IsInjective(r) /\ Apart(q, r))
                 => IsInjective(q \o r)
  <1> DEFINE p == q \o r
  <1>1. /\ Len(q) \in Nat /\ Len(r) \in Nat
        /\ DOMAIN q = 1..Len(q) /\ DOMAIN r = 1..Len(r)
        /\ DOMAIN p = 1..(Len(q) + Len(r))
        /\ \A i \in 1..Len(q) : p[i] = q[i]
        /\ \A i \in 1..Len(r) : p[Len(q) + i] = r[i]
    OBVIOUS
  <1> HIDE DEF p
  <1>2. \A i \in DOMAIN p :
           \/ i \in 1..Len(q) /\ p[i] = q[i]
           \/ i - Len(q) \in 1..Len(r) /\ p[i] = r[i - Len(q)]
    BY <1>1
  <1>3. Range(p) = Range(q) \union Range(r)
    <2>1. Range(p) \subseteq Range(q) \union Range(r)
      BY <1>1, <1>2 DEF Range
    <2>2. Range(q) \subseteq Range(p)
      BY <1>1 DEF Range
    <2>3. Range(r) \subseteq Range(p)
      BY <1>1 DEF Range
    <2>4. QED
      BY <2>1, <2>2, <2>3
  <1>4. ASSUME IsInjective(q), IsInjective(r), Apart(q, r)
        PROVE  IsInjective(p)
    <2> SUFFICES ASSUME NEW i \in DOMAIN p, NEW j \in DOMAIN p, p[i] = p[j]
                 PROVE  i = j
      BY DEF IsInjective
    <2>1. \A k \in DOMAIN q, l \in DOMAIN r : q[k] # r[l]
      BY <1>4 DEF Apart, Range
    <2>2. CASE i \in 1..Len(q) /\ j \in 1..Len(q)
      BY <1>1, <1>4, <2>2 DEF IsInjective
    <2>3. CASE i - Len(q) \in 1..Len(r) /\ j - Len(q) \in 1..Len(r)
      <3>1. r[i - Len(q)] = r[j - Len(q)]
        BY <1>1, <1>2, <2>3
      <3>2. i - Len(q) = j - Len(q)
        BY <1>1, <1>4, <2>3, <3>1 DEF IsInjective
      <3>3. QED
        BY <1>1, <3>2
    <2>4. QED
      BY <1>1, <1>2, <2>1, <2>2, <2>3
  <1>5. QED
    BY <1>3, <1>4 DEF p

-----------------------------------------------------------------------------
(* The cached state trails the database                                    *)

LEMMA TrailInit == SessionInit => TrailOK
  <1> SUFFICES ASSUME SessionInit PROVE TrailOK
    OBVIOUS
  <1>1. CacheTrailsDatabase
    BY DEF SessionInit, CacheTrailsDatabase
  <1>2. \A t \in Threads : pc[t] = "idle"
    BY DEF SessionInit
  <1>3. QED
    BY <1>1, <1>2 DEF TrailOK, Trailing, Bound

\* The history only grows.
WrittenGrows ==
    \A s \in SessionIds :
        /\ written[s].statuses \subseteq written'[s].statuses
        /\ written[s].tasks \subseteq written'[s].tasks

LEMMA KnownStays ==
    ASSUME WrittenGrows, NEW s \in SessionIds, NEW state, Known(s, state)
    PROVE  /\ state.status \in written'[s].statuses \union {None}
           /\ Range(state.tasks) \subseteq written'[s].tasks
           /\ IsInjective(state.tasks)
  BY DEF WrittenGrows, Known

\* A step that brings nothing new into a store and no thread closer to one.
LEMMA TrailFades ==
    ASSUME TrailInv, WrittenGrows,
           \A v \in Threads :
              pc'[v] \in {"refresh", "get", "set"} =>
                 /\ Bound(v) /\ mine'[v] = mine[v] /\ held'[v] = held[v]
                 /\ pc'[v] \in {"refresh", "get"} => pc[v] \in {"refresh", "get"},
           \A st \in Stores, s \in SessionIds :
              cache'[st][s] \in {cache[st][s], None}
    PROVE  TrailOK'
  <1>1. CacheTrailsDatabase'
    <2> SUFFICES ASSUME NEW st \in Stores, NEW s \in SessionIds,
                        cache'[st][s] # None
                 PROVE  /\ cache'[st][s].status \in written'[s].statuses \union {None}
                        /\ Range(cache'[st][s].tasks) \subseteq written'[s].tasks
                        /\ IsInjective(cache'[st][s].tasks)
      BY DEF CacheTrailsDatabase
    <2>1. cache'[st][s] = cache[st][s] /\ Known(s, cache[st][s])
      BY DEF TrailInv, TrailOK, CacheTrailsDatabase, Known
    <2>2. QED
      BY <2>1, KnownStays
  <1>2. ASSUME NEW v \in Threads PROVE Trailing(v)'
    <2>1. Trailing(v)
      BY DEF TrailInv, TrailOK
    <2>2. Bound(v) => mine[v] \in SessionIds
      BY DEF TrailInv, StoreInv, ThreadsOK, TablesOK, At, Bound, WritingPlaces
    <2>3. Bound(v)' => Known(mine[v], held[v])'
      BY <2>1, <2>2, KnownStays DEF Trailing, Bound, Known
    <2>4. QED
      BY <2>1, <2>2, <2>3 DEF Trailing, Bound, Apart, Known
  <1>3. QED
    BY <1>1, <1>2 DEF TrailOK

\* A thread commits and goes on to the cached state, with a task that nobody
\* else knows or with none.
LEMMA TrailStarts ==
    ASSUME TrailInv, WrittenGrows, UNCHANGED cache, NEW t \in Threads,
           pc'[t] = "refresh", mine'[t] \in SessionIds,
           \A v \in Threads \ {t} :
              pc'[v] = pc[v] /\ mine'[v] = mine[v] /\ held'[v] = held[v],
           Known(mine[t], held[t])',
           Range(held'[t].tasks) \intersect 1..inserted = {}
    PROVE  TrailOK'
  <1>1. CacheTrailsDatabase'
    <2> SUFFICES ASSUME NEW st \in Stores, NEW s \in SessionIds,
                        cache[st][s] # None
                 PROVE  /\ cache[st][s].status \in written'[s].statuses \union {None}
                        /\ Range(cache[st][s].tasks) \subseteq written'[s].tasks
                        /\ IsInjective(cache[st][s].tasks)
      BY DEF CacheTrailsDatabase
    <2>1. Known(s, cache[st][s])
      BY DEF TrailInv, TrailOK, CacheTrailsDatabase, Known
    <2>2. QED
      BY <2>1, KnownStays
  <1>2. \A s \in SessionIds : written[s].tasks \subseteq 1..inserted
    BY DEF TrailInv, StoreInv, TablesOK, Histories
  <1>3. ASSUME NEW st \in Stores, cache[st][mine'[t]] # None
        PROVE  Apart(held'[t].tasks, cache[st][mine'[t]].tasks)
    <2>1. Range(cache[st][mine'[t]].tasks) \subseteq written[mine'[t]].tasks
      BY <1>3 DEF TrailInv, TrailOK, CacheTrailsDatabase
    <2>2. QED
      BY <1>2, <2>1 DEF Apart
  <1>4. ASSUME NEW v \in Threads \ {t}, Bound(v)
        PROVE  /\ mine[v] \in SessionIds /\ Known(mine[v], held[v])
               /\ Apart(held'[t].tasks, held[v].tasks)
               /\ Apart(held[v].tasks, held'[t].tasks)
    <2>1. mine[v] \in SessionIds /\ Known(mine[v], held[v])
      BY <1>4 DEF TrailInv, TrailOK, Trailing, StoreInv, ThreadsOK, TablesOK,
                  At, Bound, WritingPlaces
    <2>2. QED
      BY <1>2, <2>1 DEF Apart, Known
  <1>5. Trailing(t)'
    BY <1>3, <1>4 DEF Trailing, Bound, Apart
  <1>6. ASSUME NEW v \in Threads \ {t} PROVE Trailing(v)'
    <2>1. Trailing(v)
      BY DEF TrailInv, TrailOK
    <2>2. Bound(v)' => Known(mine[v], held[v])'
      BY <1>4, KnownStays DEF Bound, Known
    <2>3. QED
      BY <1>4, <2>1, <2>2 DEF Trailing, Bound, Apart
  <1>7. QED
    BY <1>1, <1>5, <1>6 DEF TrailOK

LEMMA TrailCommits ==
    ASSUME TrailInv, NEW t \in Threads,
           InsertSession(t) \/ UpdateSession(t) \/ CreateTask(t)
    PROVE  TrailOK'
  <1>0. StoreInv /\ ThreadsOK /\ TablesOK /\ At(t) /\ inserted \in Nat
    BY BoundAssumption DEF TrailInv, StoreInv, ThreadsOK, TablesOK
  <1>1. CASE InsertSession(t)
    <2>1. PICK s \in Fresh \ used : NewSession(t, s, "ACTIVE")
      BY <1>1 DEF InsertSession
    <2>2. /\ s \in SessionIds /\ mine' = [mine EXCEPT ![t] = s]
          /\ Commit(s, {"ACTIVE"}, {}) /\ UNCHANGED <<inserted, cache>>
          /\ held' = [held EXCEPT ![t] = [status |-> "ACTIVE", tasks |-> <<>>]]
          /\ pc' = [pc EXCEPT ![t] = "refresh"]
      BY <1>1, <2>1 DEF InsertSession, NewSession, SessionIds, GoTo
    <2>3. /\ written'[s].statuses = written[s].statuses \union {"ACTIVE"}
          /\ written'[s].tasks = written[s].tasks \union {}
          /\ \A x \in SessionIds \ {s} : written'[x] = written[x]
      <3>1. /\ inserted' \in Nat /\ inserted <= inserted'
            /\ {"ACTIVE"} \in SUBSET (Statuses \union Outcomes \union {"ACTIVE"})
            /\ {} \in SUBSET (1..inserted')
        BY <1>0, <2>2
      <3>2. QED
        BY <1>0, <2>2, <3>1, CommitTypes
    <2>4. WrittenGrows
      BY <2>2, <2>3 DEF WrittenGrows
    <2>5. /\ mine'[t] = s /\ pc'[t] = "refresh"
          /\ held'[t] = [status |-> "ACTIVE", tasks |-> <<>>]
          /\ \A v \in Threads \ {t} :
                pc'[v] = pc[v] /\ mine'[v] = mine[v] /\ held'[v] = held[v]
      BY <1>0, <2>2 DEF ThreadsOK
    <2>6. Known(mine[t], held[t])' /\ Range(held'[t].tasks) = {}
      BY <2>3, <2>5, NoTasks DEF Known
    <2>7. QED
      BY <2>2, <2>4, <2>5, <2>6, TrailStarts
  <1>2. CASE UpdateSession(t)
    <2>1. mine[t] \in SessionIds /\ session[mine[t]] \in SessionRows
      BY <1>0, <1>2, LoopAssumption
         DEF UpdateSession, Missing, ThreadsOK, TablesOK
    <2>2. PICK st \in Statuses \union Outcomes \union {"ACTIVE"} :
             /\ Commit(mine[t], {st}, {})
             /\ held' = [held EXCEPT ![t] = [status |-> st, tasks |-> <<>>]]
      BY <1>0, <1>2, <2>1, RequestFields
         DEF UpdateSession, Op, At, SessionRows
    <2>3. /\ UNCHANGED <<inserted, cache, mine>>
          /\ pc' = [pc EXCEPT ![t] = "refresh"]
      BY <1>2 DEF UpdateSession, GoTo
    <2>4. /\ written'[mine[t]].statuses = written[mine[t]].statuses \union {st}
          /\ written'[mine[t]].tasks = written[mine[t]].tasks \union {}
          /\ \A x \in SessionIds \ {mine[t]} : written'[x] = written[x]
      <3>1. /\ inserted' \in Nat /\ inserted <= inserted'
            /\ {st} \in SUBSET (Statuses \union Outcomes \union {"ACTIVE"})
            /\ {} \in SUBSET (1..inserted')
        BY <1>0, <2>3
      <3>2. QED
        BY <1>0, <2>1, <2>2, <3>1, CommitTypes
    <2>5. WrittenGrows
      BY <2>1, <2>4 DEF WrittenGrows
    <2>6. /\ mine'[t] = mine[t] /\ pc'[t] = "refresh"
          /\ held'[t] = [status |-> st, tasks |-> <<>>]
          /\ \A v \in Threads \ {t} :
                pc'[v] = pc[v] /\ mine'[v] = mine[v] /\ held'[v] = held[v]
      BY <1>0, <2>2, <2>3 DEF ThreadsOK
    <2>7. Known(mine[t], held[t])' /\ Range(held'[t].tasks) = {}
      BY <2>4, <2>6, NoTasks DEF Known
    <2>8. QED
      BY <2>1, <2>3, <2>5, <2>6, <2>7, TrailStarts
  <1>3. CASE CreateTask(t)
    <2>1. mine[t] \in SessionIds /\ session[mine[t]] # None
      BY <1>0, <1>3, LoopAssumption
         DEF CreateTask, Missing, ThreadsOK, TablesOK
    <2>2. apart' \subseteq SessionIds
      BY <1>0, <1>3, <2>1 DEF CreateTask, Overlap, TablesOK
    <2>3. /\ AddTask(mine[t]) /\ inserted < MaxTasks
          /\ Commit(mine[t], {}, {inserted + 1})
          /\ UNCHANGED <<users, session, used, link, cache, mine>>
          /\ held' = [held EXCEPT ![t] =
                        [status |-> None, tasks |-> <<inserted + 1>>]]
          /\ pc' = [pc EXCEPT ![t] = "refresh"]
      BY <1>3 DEF CreateTask, GoTo
    <2>4. /\ written'[mine[t]].statuses = written[mine[t]].statuses
          /\ written'[mine[t]].tasks = written[mine[t]].tasks \union {inserted + 1}
          /\ \A x \in SessionIds \ {mine[t]} : written'[x] = written[x]
      BY <1>0, <2>1, <2>2, <2>3, TaskTables
    <2>5. WrittenGrows
      BY <2>1, <2>4 DEF WrittenGrows
    <2>6. /\ mine'[t] = mine[t] /\ pc'[t] = "refresh"
          /\ held'[t] = [status |-> None, tasks |-> <<inserted + 1>>]
          /\ \A v \in Threads \ {t} :
                pc'[v] = pc[v] /\ mine'[v] = mine[v] /\ held'[v] = held[v]
      BY <1>0, <2>3 DEF ThreadsOK
    <2>7. Known(mine[t], held[t])' /\ Range(held'[t].tasks) = {inserted + 1}
      BY <2>4, <2>6, OneTask DEF Known
    <2>8. Range(held'[t].tasks) \intersect 1..inserted = {}
      BY <1>0, <2>7
    <2>9. QED
      BY <2>1, <2>3, <2>5, <2>6, <2>7, <2>8, TrailStarts
  <1>4. QED
    BY <1>1, <1>2, <1>3

\* What is merged with a cached state was committed, and has no task twice.
LEMMA MergedIsKnown ==
    ASSUME NEW t, NEW s, NEW a \in States, held[t] \in States,
           Known(s, a), Known(s, held[t]), Apart(a.tasks, held[t].tasks)
    PROVE  /\ Known(s, Merged(t, a))
           /\ Range(Merged(t, a).tasks)
                 \subseteq Range(a.tasks) \union Range(held[t].tasks)
  <1> DEFINE b == held[t]
  <1>1. /\ a.tasks \in Seq(TaskIds) /\ b.tasks \in Seq(TaskIds)
        /\ a = [status |-> a.status, tasks |-> a.tasks]
    BY DEF States
  <1>2. /\ Range(a.tasks \o b.tasks) = Range(a.tasks) \union Range(b.tasks)
        /\ IsInjective(a.tasks \o b.tasks)
    BY <1>1, JoinedSequences DEF Known
  <1>3. CASE Op(t, "update")
    <2>1. Merged(t, a) = [a EXCEPT !.status = b.status]
      BY <1>3 DEF Merged
    <2>2. Merged(t, a).status = b.status /\ Merged(t, a).tasks = a.tasks
      BY <1>1, <2>1
    <2>3. QED
      BY <2>2 DEF Known
  <1>4. CASE ~Op(t, "update")
    <2>1. Merged(t, a) = [a EXCEPT !.tasks = a.tasks \o b.tasks]
      BY <1>4 DEF Merged
    <2>2. /\ Merged(t, a).status = a.status
          /\ Merged(t, a).tasks = a.tasks \o b.tasks
      BY <1>1, <2>1
    <2>3. QED
      BY <1>2, <2>2 DEF Known
  <1>5. QED
    BY <1>3, <1>4

LEMMA TrailGets ==
    ASSUME TrailInv, NEW t \in Threads, GetState(t)
    PROVE  TrailOK'
  <1>0. StoreInv /\ ThreadsOK /\ TablesOK /\ At(t) /\ Trailing(t)
    BY DEF TrailInv, TrailOK, StoreInv, ThreadsOK
  <1>1. /\ mine[t] \in SessionIds /\ held[t] \in States /\ pc[t] = "get"
        /\ Known(mine[t], held[t])
    BY <1>0 DEF GetState, At, WritingPlaces, TablesOK, Trailing, Bound
  <1>2. PICK st \in Stores :
           held' = [held EXCEPT ![t] =
                      Merged(t, IF cache[st][mine[t]] = None THEN Blank
                                ELSE cache[st][mine[t]])]
    BY <1>0 DEF GetState, TablesOK
  <1> DEFINE a == IF cache[st][mine[t]] = None THEN Blank
                  ELSE cache[st][mine[t]]
  <1>3. /\ a \in States /\ Known(mine[t], a)
        /\ Apart(a.tasks, held[t].tasks)
    <2>1. CASE cache[st][mine[t]] = None
      BY <2>1, NoTasks DEF Blank, States, Known, Apart
    <2>2. CASE cache[st][mine[t]] # None
      BY <1>0, <1>1, <2>2
         DEF TablesOK, TrailInv, TrailOK, CacheTrailsDatabase, Known,
             Trailing, Apart
    <2>3. QED
      BY <2>1, <2>2
  <1>4. /\ UNCHANGED <<cache, written, mine>> /\ pc' = [pc EXCEPT ![t] = "set"]
        /\ held' = [held EXCEPT ![t] = Merged(t, a)]
    BY <1>2 DEF GetState, GoTo
  <1>5. \A v \in Threads \ {t} :
           (pc[v] \in {"refresh", "get"} /\ mine[v] = mine[t]) =>
              Apart(held[v].tasks, a.tasks) /\ Apart(held[v].tasks, held[t].tasks)
    BY <1>0, <1>1, NoTasks
       DEF TrailInv, TrailOK, Trailing, Bound, Apart, Blank
  <1> HIDE DEF a
  <1>6. /\ Known(mine[t], Merged(t, a))
        /\ Range(Merged(t, a).tasks) \subseteq Range(a.tasks) \union Range(held[t].tasks)
    BY <1>1, <1>3, MergedIsKnown
  <1>7. /\ pc'[t] = "set" /\ held'[t] = Merged(t, a) /\ mine'[t] = mine[t]
        /\ \A v \in Threads \ {t} :
              pc'[v] = pc[v] /\ mine'[v] = mine[v] /\ held'[v] = held[v]
    BY <1>0, <1>4 DEF ThreadsOK
  <1>8. CacheTrailsDatabase'
    BY <1>4 DEF TrailInv, TrailOK, CacheTrailsDatabase
  <1>9. Trailing(t)'
    BY <1>4, <1>6, <1>7 DEF Trailing, Bound, Known
  <1>10. ASSUME NEW v \in Threads \ {t} PROVE Trailing(v)'
    <2>1. Trailing(v)
      BY DEF TrailInv, TrailOK
    <2>2. (pc[v] \in {"refresh", "get"} /\ mine[v] = mine[t]) =>
             Apart(held[v].tasks, held'[t].tasks)
      BY <1>5, <1>6, <1>7 DEF Apart
    <2>3. QED
      BY <1>4, <1>7, <2>1, <2>2 DEF Trailing, Bound, Apart, Known
  <1>11. QED
    BY <1>8, <1>9, <1>10 DEF TrailOK

LEMMA TrailSets ==
    ASSUME TrailInv, NEW t \in Threads, SetState(t)
    PROVE  TrailOK'
  <1>0. StoreInv /\ ThreadsOK /\ TablesOK /\ At(t) /\ Trailing(t)
    BY DEF TrailInv, TrailOK, StoreInv, ThreadsOK
  <1>1. /\ mine[t] \in SessionIds /\ held[t] \in States
        /\ Known(mine[t], held[t]) /\ UNCHANGED written
    BY <1>0 DEF SetState, At, WritingPlaces, TablesOK, Trailing, Bound
  <1>2. PICK reached : Put(reached, mine[t], held[t])
    BY DEF SetState
  <1>3. \A st \in Stores, x \in SessionIds :
           cache'[st][x] = IF st \in reached /\ x = mine[t] THEN held[t]
                                                            ELSE cache[st][x]
    BY <1>0, <1>1, <1>2, PutTypes
  <1>4. /\ pc'[t] \in {"idle", "think"}
        /\ \A v \in Threads \ {t} :
              pc'[v] = pc[v] /\ mine'[v] = mine[v] /\ held'[v] = held[v]
    BY <1>0 DEF SetState, End, GoTo, ThreadsOK
  <1>5. CacheTrailsDatabase'
    BY <1>1, <1>3 DEF TrailInv, TrailOK, CacheTrailsDatabase, Known
  <1>6. Trailing(t)'
    BY <1>4 DEF Trailing, Bound
  <1>7. ASSUME NEW v \in Threads \ {t} PROVE Trailing(v)'
    <2>1. Trailing(v)
      BY DEF TrailInv, TrailOK
    <2>2. Bound(v) => mine[v] \in SessionIds
      BY DEF TrailInv, StoreInv, ThreadsOK, TablesOK, At, Bound, WritingPlaces
    <2>3. (pc[v] \in {"refresh", "get"} /\ mine[v] = mine[t]) =>
             Apart(held[v].tasks, held[t].tasks)
      BY <1>0, <2>1 DEF Trailing, Bound, SetState
    <2>4. QED
      BY <1>1, <1>3, <1>4, <2>1, <2>2, <2>3 DEF Trailing, Bound, Apart, Known
  <1>8. QED
    BY <1>5, <1>6, <1>7 DEF TrailOK

\* Steps that leave the stores as they are, or only forget.
LEMMA TrailStep == TrailInv /\ [SessionNext]_sessionVars => TrailOK'
  <1> SUFFICES ASSUME TrailInv, [SessionNext]_sessionVars PROVE TrailOK'
    OBVIOUS
  <1>0. StoreInv /\ ThreadsOK /\ TablesOK
    BY DEF TrailInv, StoreInv
  <1>2. ASSUME UNCHANGED <<written, cache>>, NEW t \in Threads,
               \A v \in Threads \ {t} :
                  pc'[v] = pc[v] /\ mine'[v] = mine[v] /\ held'[v] = held[v],
               \/ pc'[t] \notin {"refresh", "get", "set"}
               \/ /\ pc[t] = "refresh" /\ pc'[t] \in {"get", "set"}
                  /\ mine'[t] = mine[t] /\ held'[t] = held[t]
        PROVE  TrailOK'
    <2>1. WrittenGrows
      BY <1>2 DEF WrittenGrows
    <2>2. QED
      BY <1>2, <2>1, TrailFades DEF Bound
  <1>3. ASSUME NEW t \in Threads, NEW r \in Requests, Submit(t, r)
        PROVE  TrailOK'
    BY <1>0, <1>2, <1>3 DEF Submit, GoTo, ThreadsOK
  <1>4. ASSUME NEW t \in Threads,
               \/ EnsureUser(t) \/ AddUser(t) \/ NotFound(t) \/ Refresh(t)
               \/ Think(t) \/ GraphSession(t)
        PROVE  TrailOK'
    BY <1>0, <1>2, <1>4
       DEF EnsureUser, AfterUser, AddUser, Fail, Persisted, NotFound, Refresh,
           Think, GraphSession, End, GoTo, local, rows, ThreadsOK
  <1>5. ASSUME NEW t \in Threads, DeleteSession(t)
        PROVE  TrailOK'
    BY <1>0, <1>2, <1>5 DEF DeleteSession, GoTo, local, ThreadsOK
  <1>6. ASSUME NEW t \in Threads, DropState(t)
        PROVE  TrailOK'
    <2>1. WrittenGrows
      BY <1>6 DEF DropState, WrittenGrows
    <2>2. mine[t] \in SessionIds
      BY <1>0, <1>6 DEF DropState, ThreadsOK, At, WritingPlaces, TablesOK
    <2>3. \A st \in Stores, s \in SessionIds :
             cache'[st][s] \in {cache[st][s], None}
      BY <1>0, <1>6, <2>2, PutTypes DEF DropState
    <2>4. QED
      BY <1>0, <1>6, <2>1, <2>3, TrailFades
         DEF DropState, End, GoTo, ThreadsOK, Bound
  <1>7. ASSUME NEW t \in Threads, GraphInsert(t) \/ GraphTask(t)
        PROVE  TrailOK'
    <2>1. WrittenGrows
      <3>1. CASE UNCHANGED written
        BY <3>1 DEF WrittenGrows
      <3>2. CASE \E s \in SessionIds : \E A, B : Commit(s, A, B)
        <4>0. PICK s \in SessionIds : \E A, B : Commit(s, A, B)
          BY <3>2
        <4>1. PICK A, B : Commit(s, A, B)
          BY <4>0
        <4>2. written \in [SessionIds -> Histories]
          BY <1>0 DEF TablesOK
        <4>3. /\ written'[s].statuses = written[s].statuses \union A
              /\ written'[s].tasks = written[s].tasks \union B
              /\ \A x \in SessionIds \ {s} : written'[x] = written[x]
          BY <4>1, <4>2 DEF Commit, Histories
        <4>4. QED
          BY <4>3 DEF WrittenGrows
      <3>3. QED
        BY <1>0, <1>7, <3>1, <3>2
           DEF GraphInsert, GraphTask, NewSession, Missing, ThreadsOK,
               SessionIds
    <2>2. /\ pc'[t] \notin {"refresh", "get", "set"} /\ UNCHANGED cache
          /\ \A v \in Threads \ {t} :
                pc'[v] = pc[v] /\ mine'[v] = mine[v] /\ held'[v] = held[v]
      BY <1>0, <1>7
         DEF GraphInsert, GraphTask, NewSession, Fail, Persisted, End, GoTo,
             ThreadsOK
    <2>3. QED
      BY <2>1, <2>2, TrailFades DEF Bound
  <1>8. ASSUME NEW st \in Stores, NEW s \in SessionIds, Expire(st, s)
        PROVE  TrailOK'
    <2>1. \A x \in Stores, y \in SessionIds :
             cache'[x][y] \in {cache[x][y], None}
      BY <1>0, <1>8 DEF Expire, TablesOK
    <2>2. WrittenGrows /\ UNCHANGED <<pc, mine, held>>
      BY <1>8 DEF Expire, WrittenGrows, local
    <2>3. QED
      BY <2>1, <2>2, TrailFades DEF Bound
  <1>9. CASE Crash
    <2>1. \A x \in Stores, y \in SessionIds :
             cache'[x][y] \in {cache[x][y], None}
      BY <1>0, <1>9 DEF Crash, TablesOK
    <2>2. WrittenGrows /\ \A v \in Threads : pc'[v] = "idle"
      BY <1>9 DEF Crash, WrittenGrows
    <2>3. QED
      BY <2>1, <2>2, TrailFades DEF Bound
  <1>10. CASE UNCHANGED sessionVars
    <2>1. WrittenGrows /\ UNCHANGED <<pc, mine, held, cache>>
      BY <1>10 DEF sessionVars, WrittenGrows
    <2>2. QED
      BY <2>1, TrailFades DEF Bound
  <1>11. QED
    BY <1>3, <1>4, <1>5, <1>6, <1>7, <1>8, <1>9, <1>10, TrailCommits,
       TrailGets, TrailSets
       DEF SessionNext, Step

\* Whatever requests, failed calls and crashes come between the commit and the
\* write of the cached state, and however many threads write one session at
\* once, the cached state shows only what was committed, and no task twice.
THEOREM CacheTrails == SessionSpec => []CacheTrailsDatabase
  <1>1. SessionInit => TrailInv
    BY StoreInit, TrailInit DEF TrailInv
  <1>2. TrailInv /\ [SessionNext]_sessionVars => TrailInv'
    BY ThreadsStep, TablesStep, TrailStep DEF TrailInv, StoreInv
  <1>3. TrailInv => CacheTrailsDatabase
    BY DEF TrailInv, TrailOK
  <1>4. QED
    BY <1>1, <1>2, <1>3, PTL DEF SessionSpec

-----------------------------------------------------------------------------
(* One writer at a time keeps the two copies together                      *)

LEMMA SerialInit == SessionInit => SerialOK
  <1> SUFFICES ASSUME SessionInit, NEW s \in SessionIds
               PROVE  Agrees(s) /\ Unused(s)
    BY DEF SerialOK
  <1>1. /\ session[s] = None /\ \A st \in Stores : cache[st][s] = None
        /\ link \in Stores /\ \A t \in Threads : pc[t] = "idle"
    BY DEF SessionInit
  <1>2. QED
    BY <1>1 DEF Agrees, Unused, Writing

\* A step of t on the session m leaves the others as they are.
LEMMA SerialElsewhere ==
    ASSUME SerialInv, NEW t \in Threads, NEW m,
           \A v \in Threads \ {t} :
              /\ pc'[v] = pc[v] /\ req'[v] = req[v]
              /\ mine'[v] = mine[v] /\ held'[v] = held[v],
           UNCHANGED link, apart \subseteq apart', used \subseteq used',
           \A s \in SessionIds \ {m} :
              /\ session'[s] = session[s] /\ tasks'[s] = tasks[s]
              /\ \A st \in Stores : cache'[st][s] = cache[st][s]
              /\ ~Writing(t, s) /\ ~Writing(t, s)'
    PROVE  \A s \in SessionIds \ {m} : (Agrees(s) /\ Unused(s))'
  <1> SUFFICES ASSUME NEW s \in SessionIds \ {m}
               PROVE  (Agrees(s) /\ Unused(s))'
    OBVIOUS
  <1>1. Agrees(s) /\ Unused(s) /\ link \in Stores
    BY DEF SerialInv, SerialOK, StoreInv, TablesOK
  <1>2. \A v \in Threads : Writing(v, s)' <=> Writing(v, s)
    BY DEF Writing
  <1>3. \A v \in Threads \ {t} :
           Catching(v, s) => Catching(v, s)'
    BY <1>1, ZenonT(40) DEF Catching, Row, IsNew, Op, Merged
  <1>4. Unused(s)'
    BY <1>1 DEF Unused
  <1>5. ASSUME s \notin apart'
        PROVE  Agrees(s)'
    BY <1>1, <1>2, <1>3, <1>5 DEF Agrees, Row
  <1>6. QED
    BY <1>4, <1>5 DEF Agrees

\* Steps that touch no session.
LEMMA SerialIdle ==
    ASSUME SerialInv, NEW t \in Threads,
           \A v \in Threads \ {t} :
              /\ pc'[v] = pc[v] /\ req'[v] = req[v]
              /\ mine'[v] = mine[v] /\ held'[v] = held[v],
           UNCHANGED <<session, tasks, used, link, cache, apart>>,
           pc[t] \notin WritingPlaces, pc'[t] \notin WritingPlaces
    PROVE  SerialOK'
  <1>1. \A s \in SessionIds : ~Writing(t, s) /\ ~Writing(t, s)'
    BY DEF Writing, WritingPlaces
  <1>2. \A s \in SessionIds \ {None} : (Agrees(s) /\ Unused(s))'
    BY <1>1, SerialElsewhere
  <1>3. QED
    BY <1>2, LoopAssumption DEF SerialOK

\* The state that a row and its tasks make.
LEMMA RowIsState ==
    ASSUME TablesOK, NEW s \in SessionIds, session[s] \in SessionRows
    PROVE  Row(s) \in States
  <1>1. tasks[s] \in Seq(1..inserted) /\ 1..inserted \subseteq TaskIds
    BY BoundAssumption DEF TablesOK, TaskIds
  <1>2. tasks[s] \in Seq(TaskIds)
    BY <1>1, BoundAssumption DEF TaskIds, TablesOK
  <1>3. QED
    BY <1>2 DEF Row, States, SessionRows

\* Nobody else writes a session that stays in step after a commit.
LEMMA AloneUnlessApart ==
    ASSUME NEW t \in Threads, NEW s, s \notin apart',
           apart' = apart \union Overlap(t, s)
    PROVE  \A v \in Threads \ {t} : ~Writing(v, s)
  BY DEF Overlap

LEMMA SerialInserts ==
    ASSUME SerialInv, NEW t \in Threads, InsertSession(t)
    PROVE  SerialOK'
  <1>0. StoreInv /\ ThreadsOK /\ TablesOK /\ At(t)
    BY DEF SerialInv, StoreInv, ThreadsOK
  <1>1. PICK s \in Fresh \ used : NewSession(t, s, "ACTIVE")
    BY DEF InsertSession
  <1>2. /\ s \in SessionIds /\ s \notin used /\ used' = used \union {s}
        /\ session' = [session EXCEPT ![s] =
                         [user |-> req[t].user, status |-> "ACTIVE"]]
        /\ mine' = [mine EXCEPT ![t] = s]
        /\ held' = [held EXCEPT ![t] = [status |-> "ACTIVE", tasks |-> <<>>]]
        /\ pc' = [pc EXCEPT ![t] = "refresh"] /\ pc[t] = "insert"
        /\ UNCHANGED <<tasks, link, cache, req, apart>>
    BY <1>1 DEF InsertSession, NewSession, SessionIds, GoTo
  <1>3. /\ \A v \in Threads \ {t} :
              pc'[v] = pc[v] /\ mine'[v] = mine[v] /\ held'[v] = held[v]
        /\ pc'[t] = "refresh" /\ mine'[t] = s
        /\ held'[t] = [status |-> "ACTIVE", tasks |-> <<>>]
        /\ session'[s] = [user |-> req[t].user, status |-> "ACTIVE"]
        /\ \A x \in SessionIds \ {s} : session'[x] = session[x]
    BY <1>0, <1>2 DEF ThreadsOK, TablesOK
  <1>4. \A x \in SessionIds \ {s} : (Agrees(x) /\ Unused(x))'
    BY <1>2, <1>3, SerialElsewhere DEF Writing
  <1>5. \A v \in Threads \ {t} : ~Writing(v, s)'
    BY <1>0, <1>2, <1>3 DEF Writing, ThreadsOK, At, WritingPlaces
  <1>6. Catching(t, s)'
    <2>1. session'[s] # None
      <3>1. req[t].user \in Users
        BY <1>0, <1>2 DEF At, TablesOK
      <3>2. session'[s] \in SessionRows
        BY <1>3, <3>1 DEF SessionRows
      <3>3. QED
        BY <3>2, NoneAssumption
    <2>2. tasks[s] = <<>>
      BY <1>0, <1>2 DEF TablesOK
    <2>3. IsNew(t)'
      BY <1>0, <1>2, <1>3 DEF IsNew, Op, At
    <2>4. held'[t] = Row(s)'
      BY <1>2, <1>3, <2>2 DEF Row
    <2>5. QED
      BY <1>3, <2>1, <2>3, <2>4 DEF Catching
  <1>7. Agrees(s)' /\ Unused(s)'
    BY <1>2, <1>3, <1>5, <1>6 DEF Agrees, Unused, Writing
  <1>8. QED
    BY <1>4, <1>7 DEF SerialOK

\* update_session, delete_session and create_task, on a session of theirs.
LEMMA SerialCommits ==
    ASSUME SerialInv, NEW t \in Threads,
           UpdateSession(t) \/ DeleteSession(t) \/ CreateTask(t)
    PROVE  SerialOK'
  <1>0. StoreInv /\ ThreadsOK /\ TablesOK /\ At(t)
    BY DEF SerialInv, StoreInv, ThreadsOK
  <1>1. PICK s \in SessionIds :
        /\ s = mine[t] /\ session[s] \in SessionRows /\ s \in used
        /\ pc[t] = "task" /\ session[s] # None /\ link \in Stores
    BY <1>0, LoopAssumption
       DEF UpdateSession, DeleteSession, CreateTask, Missing, ThreadsOK,
           TablesOK
  <1>2. /\ UNCHANGED <<used, link, cache, req, mine>>
        /\ apart' = apart \union Overlap(t, s)
        /\ pc' = [pc EXCEPT ![t] = IF Op(t, "delete") THEN "drop" ELSE "refresh"]
    BY <1>1 DEF UpdateSession, DeleteSession, CreateTask, GoTo, local, Op
  <1>3. /\ \A v \in Threads \ {t} :
              pc'[v] = pc[v] /\ mine'[v] = mine[v] /\ held'[v] = held[v]
        /\ \A x \in SessionIds \ {s} :
              session'[x] = session[x] /\ tasks'[x] = tasks[x]
    BY <1>0, <1>1
       DEF UpdateSession, DeleteSession, CreateTask, GoTo, local, ThreadsOK,
           TablesOK, AddTask
  <1>4. \A x \in SessionIds \ {s} : (Agrees(x) /\ Unused(x))'
    <2>1. /\ \A v \in Threads \ {t} : req'[v] = req[v]
          /\ apart \subseteq apart' /\ used \subseteq used'
          /\ \A x \in SessionIds \ {s} :
                /\ \A st \in Stores : cache'[st][x] = cache[st][x]
                /\ ~Writing(t, x) /\ ~Writing(t, x)'
      BY <1>1, <1>2 DEF Writing
    <2>2. QED
      BY <1>2, <1>3, <2>1, SerialElsewhere
  <1>5. Unused(s)'
    BY <1>1, <1>2 DEF Unused
  <1>6. CASE s \in apart'
    BY <1>4, <1>5, <1>6 DEF SerialOK, Agrees
  <1>7. CASE s \notin apart'
    <2>1. \A v \in Threads \ {t} : ~Writing(v, s)
      BY <1>2, <1>7, AloneUnlessApart
    <2>2. ~Writing(t, s)
      BY <1>1 DEF Writing
    <2>3. cache[link][s] = Row(s)
      BY <1>1, <1>2, <1>7, <2>1, <2>2 DEF SerialInv, SerialOK, Agrees
    <2>4. Row(s) # None /\ Row(s) \in States
      <3>1. Row(s) \in States
        BY <1>0, <1>1, RowIsState
      <3>2. QED
        BY <3>1, NoneAssumption
    <2>5. Catching(t, s)'
      <3>1. CASE DeleteSession(t)
        BY <1>0, <1>1, <1>2, <3>1
           DEF DeleteSession, Op, Catching, ThreadsOK, TablesOK
      <3>2. CASE UpdateSession(t)
        <4> DEFINE st == IF req[t].status = None THEN session[s].status
                                                 ELSE req[t].status
        <4>1. /\ session' = [session EXCEPT ![s].status = st]
              /\ held' = [held EXCEPT ![t] = [status |-> st, tasks |-> <<>>]]
              /\ UNCHANGED tasks /\ req[t].op = "update"
          BY <1>1, <3>2 DEF UpdateSession, Op
        <4> HIDE DEF st
        <4>2. /\ session'[s].status = st /\ session'[s] # None
              /\ held'[t] = [status |-> st, tasks |-> <<>>]
              /\ pc'[t] = "refresh"
          <5>1. session'[s] = [session[s] EXCEPT !.status = st]
            BY <1>0, <1>1, <4>1 DEF TablesOK
          <5>2. session'[s].status = st
            BY <1>1, <5>1 DEF SessionRows
          <5>3. session'[s] # None
            <6>1. st \in Statuses \union Outcomes \union {"ACTIVE"}
              BY <1>0, <1>1, <3>2, RequestFields
                 DEF st, UpdateSession, Op, At, SessionRows
            <6>2. session'[s] \in SessionRows
              BY <1>1, <5>1, <6>1 DEF SessionRows
            <6>3. QED
              BY <6>2, NoneAssumption
          <5>4. QED
            BY <1>0, <1>2, <4>1, <5>2, <5>3 DEF ThreadsOK, Op
        <4>3. ~IsNew(t)'
          BY <1>2, <4>1 DEF IsNew, Op
        <4>4. Merged(t, cache[link][s])' = Row(s)'
          <5>1. Merged(t, cache[link][s])' = [Row(s) EXCEPT !.status = st]
            BY <1>2, <2>3, <4>1, <4>2 DEF Merged, Op
          <5>2. Row(s)' = [status |-> st, tasks |-> tasks[s]]
            BY <4>1, <4>2 DEF Row
          <5>3. [Row(s) EXCEPT !.status = st] = [status |-> st, tasks |-> tasks[s]]
            BY DEF Row
          <5>4. QED
            BY <5>1, <5>2, <5>3
        <4>5. QED
          BY <1>2, <2>3, <2>4, <4>2, <4>3, <4>4 DEF Catching
      <3>3. CASE CreateTask(t)
        <4>1. /\ tasks' = [tasks EXCEPT ![s] = Append(tasks[s], inserted + 1)]
              /\ held' = [held EXCEPT ![t] =
                            [status |-> None, tasks |-> <<inserted + 1>>]]
              /\ UNCHANGED session /\ req[t].op \in {"task", "run"}
          BY <1>1, <3>3 DEF CreateTask, AddTask, Op
        <4>2. /\ tasks'[s] = tasks[s] \o <<inserted + 1>>
              /\ held'[t] = [status |-> None, tasks |-> <<inserted + 1>>]
              /\ pc'[t] = "refresh"
          BY <1>0, <1>1, <1>2, <4>1 DEF TablesOK, ThreadsOK, Op
        <4>3. ~IsNew(t)'
          BY <4>2, NoneAssumption DEF IsNew
        <4>4. Merged(t, cache[link][s])' = Row(s)'
          <5>1. Merged(t, cache[link][s])' =
                   [Row(s) EXCEPT !.tasks = Row(s).tasks \o <<inserted + 1>>]
            <6>1. ~Op(t, "update")' /\ held'[t].tasks = <<inserted + 1>>
              BY <1>2, <4>1, <4>2 DEF Op
            <6>2. cache'[link'][s] = Row(s)
              BY <1>2, <2>3
            <6>3. Merged(t, cache[link][s])' =
                    [cache'[link'][s] EXCEPT !.tasks = @ \o held'[t].tasks]
              BY <6>1 DEF Merged
            <6>4. QED
              BY <6>1, <6>2, <6>3
          <5>2. Row(s).tasks = tasks[s]
            BY DEF Row
          <5>3. Row(s)' = [status |-> session[s].status,
                           tasks |-> tasks[s] \o <<inserted + 1>>]
            BY <4>1, <4>2 DEF Row
          <5>4. \A q : [Row(s) EXCEPT !.tasks = q] =
                          [status |-> session[s].status, tasks |-> q]
            BY DEF Row
          <5>5. QED
            BY <5>1, <5>2, <5>3, <5>4
        <4>5. QED
          BY <1>1, <1>2, <2>3, <2>4, <4>1, <4>2, <4>3, <4>4 DEF Catching
      <3>4. QED
        BY <3>1, <3>2, <3>3
    <2>6. Agrees(s)'
      <3>1. pc'[t] \in {"drop", "refresh"}
        BY <1>0, <1>2 DEF ThreadsOK
      <3>2. Writing(t, s)' /\ \A v \in Threads \ {t} : ~Writing(v, s)'
        BY <1>1, <1>2, <1>3, <2>1, <3>1 DEF Writing
      <3>3. QED
        BY <2>5, <3>2 DEF Agrees
    <2>7. QED
      BY <1>4, <1>5, <2>6 DEF SerialOK
  <1>8. QED
    BY <1>6, <1>7

\* The thread that is on its way to the cached state.
LEMMA SerialRefreshes ==
    ASSUME SerialInv, NEW t \in Threads, Refresh(t) \/ GetState(t)
    PROVE  SerialOK'
  <1>0. StoreInv /\ ThreadsOK /\ TablesOK /\ At(t)
    BY DEF SerialInv, StoreInv, ThreadsOK
  <1>1. PICK s \in SessionIds :
           s = mine[t] /\ s \in used /\ link \in Stores /\ Writing(t, s)
    BY <1>0 DEF Refresh, GetState, At, WritingPlaces, TablesOK, Writing
  <1>2. /\ UNCHANGED <<session, tasks, used, link, cache>>
        /\ apart \subseteq apart'
    BY DEF Refresh, GetState, rows
  <1>3. \A v \in Threads \ {t} :
           /\ pc'[v] = pc[v] /\ req'[v] = req[v]
           /\ mine'[v] = mine[v] /\ held'[v] = held[v]
    BY <1>0 DEF Refresh, GetState, End, GoTo, local, ThreadsOK
  <1>4. \A x \in SessionIds \ {s} : ~Writing(t, x) /\ ~Writing(t, x)'
    BY <1>0, <1>1
       DEF Refresh, GetState, End, GoTo, local, ThreadsOK, Writing
  <1>5. \A x \in SessionIds \ {s} : (Agrees(x) /\ Unused(x))'
    BY <1>2, <1>3, <1>4, SerialElsewhere
  <1>6. Unused(s)'
    BY <1>1, <1>2 DEF Unused
  <1>7. CASE s \in apart'
    BY <1>5, <1>6, <1>7 DEF SerialOK, Agrees
  <1>8. CASE s \notin apart'
    <2>1. /\ Catching(t, s)
          /\ \A v \in Threads : Writing(v, s) => v = t
      BY <1>1, <1>2, <1>8 DEF SerialInv, SerialOK, Agrees
    <2>2. \A v \in Threads \ {t} : ~Writing(v, s)'
      BY <1>3, <2>1 DEF Writing
    <2>3. Catching(t, s)' /\ Writing(t, s)'
      <3>1. CASE Refresh(t)
        <4>1. session[s] # None
          BY <2>1, <3>1 DEF Catching, Refresh
        <4>2. /\ pc' = [pc EXCEPT ![t] = IF IsNew(t) THEN "set" ELSE "get"]
              /\ UNCHANGED <<req, mine, held>> /\ pc[t] = "refresh"
          BY <1>1, <3>1, <4>1 DEF Refresh, GoTo, local
        <4>3. pc'[t] = IF IsNew(t) THEN "set" ELSE "get"
          BY <1>0, <4>2 DEF ThreadsOK
        <4>4. IsNew(t)' <=> IsNew(t)
          BY <4>2, <4>3 DEF IsNew, Op
        <4>5. \A a : Merged(t, a)' = Merged(t, a)
          BY <4>2, <4>3 DEF Merged, Op
        <4>6. Row(s)' = Row(s)
          BY <1>2 DEF Row
        <4>7. CASE IsNew(t)
          BY <1>1, <1>2, <2>1, <4>1, <4>2, <4>3, <4>6, <4>7
             DEF Catching, Writing
        <4>8. CASE ~IsNew(t)
          <5>1. cache[link][s] # None /\ Merged(t, cache[link][s]) = Row(s)
            BY <2>1, <4>2, <4>8 DEF Catching
          <5>2. Merged(t, cache[link][s])' = Row(s)'
            <6>1. /\ cache'[link'][s] = cache[link][s] /\ held'[t] = held[t]
                  /\ Op(t, "update")' <=> Op(t, "update")
              BY <1>2, <4>2, <4>3 DEF Op
            <6>2. Merged(t, cache[link][s])' = Merged(t, cache[link][s])
              BY <6>1 DEF Merged
            <6>3. QED
              BY <4>6, <5>1, <6>2
          <5>3. QED
            BY <1>1, <1>2, <4>1, <4>2, <4>3, <4>4, <4>8, <5>1, <5>2
               DEF Catching, Writing
        <4>9. QED
          BY <4>7, <4>8
      <3>2. CASE GetState(t)
        <4>1. PICK st \in Stores :
                 /\ held' = [held EXCEPT ![t] =
                               Merged(t, IF cache[st][s] = None THEN Blank
                                         ELSE cache[st][s])]
                 /\ apart' = apart \union Failed({st}, s)
          BY <1>0, <1>1, <3>2 DEF GetState, TablesOK
        <4>2. st = link
          BY <1>8, <4>1 DEF Failed
        <4>3. /\ cache[link][s] # None
              /\ Merged(t, cache[link][s]) = Row(s) /\ session[s] # None
          BY <2>1, <3>2 DEF Catching, GetState
        <4>4. held' = [held EXCEPT ![t] = Row(s)]
          BY <4>1, <4>2, <4>3
        <4>5. /\ pc'[t] = "set" /\ held'[t] = Row(s) /\ UNCHANGED mine
          BY <1>0, <3>2, <4>4 DEF GetState, GoTo, ThreadsOK
        <4>6. Row(s)' = Row(s)
          BY <1>2 DEF Row
        <4>7. QED
          BY <1>1, <1>2, <4>3, <4>5, <4>6 DEF Catching, Writing
      <3>3. QED
        BY <3>1, <3>2
    <2>4. Agrees(s)'
      BY <2>2, <2>3 DEF Agrees
    <2>5. QED
      BY <1>5, <1>6, <2>4 DEF SerialOK
  <1>9. QED
    BY <1>7, <1>8

\* The write that brings the two copies together again.
LEMMA SerialWrites ==
    ASSUME SerialInv, NEW t \in Threads, SetState(t) \/ DropState(t)
    PROVE  SerialOK'
  <1>0. StoreInv /\ ThreadsOK /\ TablesOK /\ At(t)
    BY DEF SerialInv, StoreInv, ThreadsOK
  <1>1. PICK s \in SessionIds :
           s = mine[t] /\ s \in used /\ link \in Stores /\ Writing(t, s)
    BY <1>0 DEF SetState, DropState, At, WritingPlaces, TablesOK, Writing
  <1> DEFINE state == IF pc[t] = "drop" THEN None ELSE held[t]
  <1>2. PICK reached \in SUBSET Stores :
           /\ Put(reached, s, state)
           /\ apart' = apart \union Failed(reached, s)
    BY <1>1 DEF SetState, DropState, Reached, Stores
  <1>3. state \in States \union {None}
    BY <1>0 DEF ThreadsOK
  <1>4. \A st \in Stores, x \in SessionIds :
           cache'[st][x] = IF st \in reached /\ x = s THEN state
                                                      ELSE cache[st][x]
    <2> HIDE DEF state
    <2>1. QED
      BY <1>0, <1>2, <1>3, PutTypes
  <1>5. UNCHANGED <<session, tasks, used, link>> /\ pc'[t] \in {"idle", "think"}
    BY <1>0 DEF SetState, DropState, End, GoTo, rows, ThreadsOK
  <1>6. \A v \in Threads \ {t} :
           /\ pc'[v] = pc[v] /\ req'[v] = req[v]
           /\ mine'[v] = mine[v] /\ held'[v] = held[v]
    BY <1>0 DEF SetState, DropState, End, GoTo, ThreadsOK
  <1>7. \A x \in SessionIds \ {s} : (Agrees(x) /\ Unused(x))'
    <2>1. \A x \in SessionIds \ {s} :
             /\ \A st \in Stores : cache'[st][x] = cache[st][x]
             /\ ~Writing(t, x) /\ ~Writing(t, x)'
      BY <1>1, <1>4, <1>5 DEF Writing
    <2>2. apart \subseteq apart'
      BY <1>2
    <2>3. QED
      BY <1>5, <1>6, <2>1, <2>2, SerialElsewhere
  <1>8. Unused(s)'
    BY <1>1, <1>5 DEF Unused
  <1>9. Agrees(s)'
    <2>1. CASE s \in apart'
      BY <2>1 DEF Agrees
    <2>2. CASE s \notin apart'
      <3>1. /\ Catching(t, s)
            /\ \A v \in Threads : Writing(v, s) => v = t
        BY <1>1, <1>2, <2>2 DEF SerialInv, SerialOK, Agrees
      <3>2. link \in reached
        BY <1>2, <2>2 DEF Failed
      <3>3. \A v \in Threads : ~Writing(v, s)'
        BY <1>5, <1>6, <3>1 DEF Writing
      <3>4. state = IF session[s] = None THEN None ELSE Row(s)
        BY <3>1 DEF Catching, SetState, DropState
      <3>5. cache'[link'][s] = state
        BY <1>1, <1>4, <1>5, <3>2
      <3>6. Row(s)' = Row(s)
        BY <1>5 DEF Row
      <3>7. QED
        BY <1>5, <3>3, <3>4, <3>5, <3>6 DEF Agrees
    <2>3. QED
      BY <2>1, <2>2
  <1>10. QED
    BY <1>7, <1>8, <1>9 DEF SerialOK

\* The graph writes the tables without the cached state.
LEMMA SerialGraph ==
    ASSUME SerialInv, NEW t \in Threads, GraphInsert(t) \/ GraphTask(t)
    PROVE  SerialOK'
  <1>0. StoreInv /\ ThreadsOK /\ TablesOK /\ At(t)
    BY DEF SerialInv, StoreInv, ThreadsOK
  <1>1. /\ pc[t] \notin WritingPlaces /\ pc'[t] \notin WritingPlaces
        /\ \A v \in Threads \ {t} :
              /\ pc'[v] = pc[v] /\ req'[v] = req[v]
              /\ mine'[v] = mine[v] /\ held'[v] = held[v]
        /\ UNCHANGED <<link, cache>>
    BY <1>0
       DEF GraphInsert, GraphTask, NewSession, Fail, Persisted, End, GoTo,
           ThreadsOK, WritingPlaces
  <1>2. CASE UNCHANGED <<session, tasks, used, apart>>
    BY <1>1, <1>2, SerialIdle
  <1>3. CASE \E s \in SessionIds :
                /\ apart' = apart \union {s} /\ used \subseteq used' /\ s \in used'
                /\ \A x \in SessionIds \ {s} :
                      session'[x] = session[x] /\ tasks'[x] = tasks[x]
    <2>1. PICK s \in SessionIds :
             /\ apart' = apart \union {s} /\ used \subseteq used' /\ s \in used'
             /\ \A x \in SessionIds \ {s} :
                   session'[x] = session[x] /\ tasks'[x] = tasks[x]
      BY <1>3
    <2>2. \A x \in SessionIds \ {s} : (Agrees(x) /\ Unused(x))'
      BY <1>1, <2>1, SerialElsewhere DEF Writing, WritingPlaces
    <2>3. (Agrees(s) /\ Unused(s))'
      BY <2>1 DEF Agrees, Unused
    <2>4. QED
      BY <2>2, <2>3 DEF SerialOK
  <1>4. CASE GraphInsert(t) /\ Missing(t)
    <2>1. PICK s \in IF mine[t] = None THEN Fresh \ used ELSE {mine[t]} :
             NewSession(t, s, req[t].outcome) /\ apart' = apart \union {s}
      BY <1>4 DEF GraphInsert
    <2>2. s \in SessionIds
      BY <1>0, <2>1 DEF SessionIds, ThreadsOK
    <2>3. /\ used' = used \union {s} /\ UNCHANGED tasks
          /\ \A x \in SessionIds \ {s} : session'[x] = session[x]
      BY <1>0, <1>4, <2>1 DEF NewSession, GraphInsert, TablesOK
    <2>4. QED
      BY <1>3, <2>1, <2>2, <2>3
  <1>5. CASE GraphTask(t) /\ ~Missing(t)
    <2>1. mine[t] \in SessionIds /\ mine[t] \in used
      BY <1>0, <1>5 DEF Missing, ThreadsOK, TablesOK
    <2>2. /\ apart' = apart \union {mine[t]} /\ UNCHANGED <<used, session>>
          /\ tasks' = [tasks EXCEPT ![mine[t]] = Append(@, inserted + 1)]
      BY <1>5 DEF GraphTask, AddTask
    <2>3. \A x \in SessionIds \ {mine[t]} : tasks'[x] = tasks[x]
      BY <1>0, <2>2 DEF TablesOK
    <2>4. QED
      BY <1>3, <2>1, <2>2, <2>3
  <1>6. QED
    BY <1>2, <1>4, <1>5 DEF GraphInsert, GraphTask

LEMMA SerialExpires ==
    ASSUME SerialInv, NEW st \in Stores, NEW s \in SessionIds, Expire(st, s)
    PROVE  SerialOK'
  <1>0. StoreInv /\ TablesOK
    BY DEF SerialInv, StoreInv
  <1>1. /\ UNCHANGED <<session, tasks, used, link, pc, req, mine, held>>
        /\ apart' = apart \union {s}
        /\ \A x \in Stores, y \in SessionIds :
              cache'[x][y] = IF x = st /\ y = s THEN None ELSE cache[x][y]
    BY <1>0 DEF Expire, rows, local, TablesOK
  <1>2. ASSUME NEW x \in SessionIds \ {s} PROVE (Agrees(x) /\ Unused(x))'
    <2>1. Agrees(x) /\ Unused(x) /\ link \in Stores
      BY <1>0 DEF SerialInv, SerialOK, TablesOK
    <2>2. \A y \in Stores : cache'[y][x] = cache[y][x]
      BY <1>1
    <2>3. \A t \in Threads : /\ Writing(t, x)' <=> Writing(t, x)
                             /\ Catching(t, x)' <=> Catching(t, x)
      BY <1>1, <2>1, <2>2, ZenonT(40) DEF Writing, Catching, Row, IsNew, Op, Merged
    <2>4. QED
      BY <1>1, <2>1, <2>2, <2>3 DEF Agrees, Unused, Row
  <1>3. (Agrees(s) /\ Unused(s))'
    BY <1>0, <1>1 DEF Agrees, Unused, SerialInv, SerialOK
  <1>4. QED
    BY <1>2, <1>3 DEF SerialOK

LEMMA SerialStep == SerialInv /\ [SessionNext]_sessionVars => SerialOK'
  <1> SUFFICES ASSUME SerialInv, [SessionNext]_sessionVars PROVE SerialOK'
    OBVIOUS
  <1>0. StoreInv /\ ThreadsOK /\ TablesOK
    BY DEF SerialInv, StoreInv
  <1>1. ASSUME NEW t \in Threads, NEW r \in Requests, Submit(t, r)
        PROVE  SerialOK'
    BY <1>0, <1>1, SerialIdle DEF Submit, GoTo, ThreadsOK, WritingPlaces, rows
  <1>2. ASSUME NEW t \in Threads,
               \/ EnsureUser(t) \/ AddUser(t) \/ NotFound(t) \/ Think(t)
               \/ GraphSession(t)
        PROVE  SerialOK'
    BY <1>0, <1>2, SerialIdle
       DEF EnsureUser, AfterUser, AddUser, Fail, Persisted, NotFound, Think,
           GraphSession, End, GoTo, local, rows, ThreadsOK, WritingPlaces
  <1>3. CASE Crash
    <2>1. /\ UNCHANGED <<session, tasks, used>> /\ apart' = apart \union used
          /\ link' \in Stores /\ \A t \in Threads : pc'[t] = "idle"
          /\ \A st \in Stores, s \in SessionIds :
                cache'[st][s] \in {cache[st][s], None}
      BY <1>0, <1>3 DEF Crash, rows, TablesOK
    <2>2. ASSUME NEW s \in SessionIds PROVE (Agrees(s) /\ Unused(s))'
      <3>1. Unused(s)
        BY DEF SerialInv, SerialOK
      <3>2. QED
        BY <2>1, <3>1 DEF Agrees, Unused, Writing
    <2>3. QED
      BY <2>2 DEF SerialOK
  <1>4. CASE UNCHANGED sessionVars
    <2>1. UNCHANGED <<session, tasks, used, link, cache, pc, req, mine, held, apart>>
      BY <1>4 DEF sessionVars
    <2>2. \A s \in SessionIds, t \in Threads :
             /\ Writing(t, s)' <=> Writing(t, s)
             /\ Catching(t, s)' <=> Catching(t, s)
      BY <2>1 DEF Writing, Catching, Row, IsNew, Op, Merged
    <2>3. QED
      BY <2>1, <2>2 DEF SerialInv, SerialOK, Agrees, Unused, Row
  <1>5. QED
    BY <1>1, <1>2, <1>3, <1>4, SerialInserts, SerialCommits,
       SerialRefreshes, SerialWrites, SerialGraph, SerialExpires
       DEF SessionNext, Step

\* A session that no two requests wrote at once, and whose calls to Redis all
\* succeeded without an expiry or a crash, has its row and its tasks in the
\* cached state, and none once it is deleted.
THEOREM SerialAgrees == SessionSpec => []SerialRequestsAgree
  <1>1. SessionInit => SerialInv
    BY StoreInit, SerialInit DEF SerialInv
  <1>2. SerialInv /\ [SessionNext]_sessionVars => SerialInv'
    BY ThreadsStep, TablesStep, SerialStep DEF SerialInv, StoreInv
  <1>3. SerialInv => SerialRequestsAgree
    BY DEF SerialInv, SerialOK, Agrees, SerialRequestsAgree, Row
  <1>4. QED
    BY <1>1, <1>2, <1>3, PTL DEF SessionSpec

=============================================================================
