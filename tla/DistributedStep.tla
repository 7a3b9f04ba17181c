--------------------------- MODULE DistributedStep ---------------------------
(***************************************************************************)
(* One step of a session that is spread over several workers: the master   *)
(* session that issues, cancels and cleans up (distributed_runtime/        *)
(* master_session.cc), the workers' RunGraph, RecvTensor and CleanupGraph  *)
(* (worker.cc, graph_mgr.cc, rpc/grpc_worker_service.cc), the rendezvous   *)
(* of the step on each worker (base_rendezvous_mgr.cc) and the RecvTensor  *)
(* call of the receiving one (rpc/rpc_rendezvous_mgr.cc, call_options.cc). *)
(*                                                                         *)
(* A unit is the part of the graph that one executor runs; here it is the  *)
(* sequence of its sends and receives.  Each key is sent by one unit and   *)
(* received by one, and stands for the value sent under it as well.        *)
(*                                                                         *)
(* An RPC has a client and a server side.  gRPC delivers a request, unless *)
(* the server dies, delivers the reply, and tells the server of a          *)
(* cancellation; each of this may take any time.                           *)
(***************************************************************************)
EXTENDS Integers, Sequences, FiniteSets

CONSTANTS Workers,
          Order,         \* the workers, in the order of partitions_
          Units, Home,   \* the units and their workers
          Keys, Src, Receiver,  \* the keys, the workers they are sent from and
                                \* the units that receive them
          MaxObjects,    \* bound on the rendezvous created in the step
          Scenarios,     \* what each unit sends and receives, and what may go wrong
          NoReceiver, NoValue, NoItem

VARIABLES scenario, \* the units' programs, and the fault of this behaviour
          master,   \* RunPartitions and RunManyGraphs
          closing,  \* MasterSession::Close
          run,      \* the RunGraph call of each worker
          cleanup,  \* the CleanupGraph call of each worker
          table,    \* BaseRendezvousMgr::table_ of each worker, for this step
          objs,     \* the rendezvous, by order of creation
          timers,   \* the aborts that AbortStep has scheduled
          units,    \* the executors
          barrier,  \* the ExecutorBarrier of each worker
          recv,     \* the RecvTensor calls, by key
          restarted,  \* the workers that have crashed
          lost      \* history: the cancellations and aborts that had no effect

vars == <<scenario, master, closing, run, cleanup, table, objs, timers, units, barrier,
          recv, restarted, lost>>
masterVars == <<scenario, master, closing, cleanup, restarted>>

Objects == 1..MaxObjects

\* The local rendezvous of the first object, for which the property LocalSpec
\* is stated; its operators serve all of them.
R == INSTANCE LocalRendezvous WITH
       Values <- Keys, Receivers <- Keys, KeyOf <- [k \in Keys |-> k],
       TolerateDupRecv <- FALSE,
       local <- objs[1].local, got <- objs[1].got, sent <- objs[1].sent

\* What the theorems about LocalRendezvous assume.
ASSUME RendezvousConstants == R!ConstantsOK

\* The units and the workers that take part.
Program(u) == scenario.program[u]
UnitsOf(w) == {u \in DOMAIN scenario.program : Home[u] = w}
Used == {w \in Workers : UnitsOf(w) # {}}
Partitions == SelectSeq(Order, LAMBDA w : w \in Used)
Op(u) == Program(u)[units[u].pc]
Dst(k) == Home[Receiver[k]]
\* The fault of kind k is about to hit w.
Fault(k, w) == scenario.kind = k /\ scenario.who = w

\* The call has been made, and OnCompleted has not cleared the cancel callback.
Open(c) == c.client = "open"
\* CallOptions::StartCancel: nothing, unless the cancel callback is set.
TryCancel(c) == IF Open(c) THEN [c EXCEPT !.cancel = TRUE] ELSE c
\* What the client's callback may be given.
Outcomes(c) == {s \in {"ok", "error"} : s = c.reply \/ (s = "error" /\ c.cancel)}

Call == [client |-> "none", cancel |-> FALSE, told |-> FALSE, server |-> "none",
         reply |-> "none"]
RecvCall == [client |-> "none", cancel |-> FALSE, told |-> FALSE, server |-> "none",
             reply |-> "none", status |-> "ok", obj |-> 0]

NewRendezvous ==
    [home |-> "none", init |-> FALSE, status |-> "ok", active |-> {},
     local |-> R!NewLocalRendezvous, got |-> [k \in Keys |-> "idle"], sent |-> {}]

Init ==
    /\ scenario \in Scenarios
    /\ master = [stage |-> "issue", next |-> 1, status |-> "ok", registered |-> FALSE,
                 result |-> "none"]
    /\ closing = "no"
    /\ run = [w \in Workers |-> Call]
    /\ cleanup = [w \in Workers |-> [stage |-> "none", obj |-> 0]]
    /\ table = [w \in Workers |-> 0]
    /\ objs = [o \in Objects |-> NewRendezvous]
    /\ timers = {}
    /\ units = [u \in Units |-> [stage |-> "idle", pc |-> 1, status |-> "ok", obj |-> 0]]
    /\ barrier = [w \in Workers |-> [pending |-> Cardinality(UnitsOf(w)), status |-> "ok"]]
    /\ recv = [k \in Keys |-> RecvCall]
    /\ restarted = {}
    /\ lost = {}

-----------------------------------------------------------------------------
(* The master.                                                             *)

IssueRunGraph ==
    /\ master.stage = "issue" /\ master.next <= Len(Partitions)
    /\ run' = [run EXCEPT ![Partitions[master.next]].client = "open",
                          ![Partitions[master.next]].server = "queued"]
    /\ master' = [master EXCEPT !.next = @ + 1]
    /\ UNCHANGED <<scenario, closing, cleanup, table, objs, timers, units, barrier, recv,
                   restarted, lost>>

\* Mutant of UpdateStatus: the error is kept, the other calls are not cancelled.
UpdateStatusOnly(calls, status) == run' = calls /\ UNCHANGED lost

\* RunManyGraphs::UpdateStatusLocked, with the calls as they are in calls: the
\* first error cancels all of them.
UpdateStatus(calls, status) ==
    IF status # "ok" /\ master.status = "ok"
    THEN /\ run' = [w \in Workers |-> TryCancel(calls[w])]
         /\ lost' = lost \union {<<"issue", w>> : w \in {v \in Used :
                                                         calls[v].client = "none"}}
    ELSE run' = calls /\ UNCHANGED lost
Updated(status) == IF master.status = "ok" THEN status ELSE master.status

\* The callbacks for a cancelled step are set when all calls have been issued.
RegisterCancel ==
    /\ master.stage = "issue" /\ master.next > Len(Partitions)
    /\ LET cancelled == closing \in {"cancelled", "returned"}
           status == IF cancelled THEN "error" ELSE "ok"
       IN  /\ UpdateStatus(run, status)
           /\ master' = [master EXCEPT !.stage = "wait", !.registered = ~cancelled,
                                       !.status = Updated(status)]
    /\ UNCHANGED <<scenario, closing, cleanup, table, objs, timers, units, barrier, recv,
                   restarted>>

\* RunManyGraphs::WhenDone: the reply has come, or the cancellation.
WhenDone(w) ==
    /\ Open(run[w])
    /\ \E status \in Outcomes(run[w]) :
         /\ UpdateStatus([run EXCEPT ![w].client = "done"], status)
         /\ master' = [master EXCEPT !.status = Updated(status)]
    /\ UNCHANGED <<scenario, closing, cleanup, table, objs, timers, units, barrier, recv,
                   restarted>>

\* Wait returns; RunPartitions collects the fetches, which may fail, and
\* returns; the cleanup is started.
CleanupPartitionsAsync ==
    /\ master.stage = "wait" /\ \A w \in Used : run[w].client = "done"
    /\ master' = [master EXCEPT !.stage = "cleanup",
                     !.result = IF master.registered /\ ~Fault("fetch", "master")
                                THEN master.status ELSE "error"]
    /\ cleanup' = [w \in Workers |-> IF w \in Used THEN [stage |-> "queued", obj |-> 0]
                                       ELSE cleanup[w]]
    /\ UNCHANGED <<scenario, closing, run, table, objs, timers, units, barrier, recv,
                   restarted, lost>>

MarkRunCompletion ==
    /\ master.stage = "cleanup" /\ \A w \in Used : cleanup[w].stage = "over"
    /\ master' = [master EXCEPT !.stage = "done"]
    /\ UNCHANGED <<scenario, closing, run, cleanup, table, objs, timers, units, barrier,
                   recv, restarted, lost>>

\* Close cancels what is running, and waits.
Close ==
    /\ \/ /\ closing = "no" /\ scenario.kind = "close" /\ closing' = "cancelled"
          /\ IF master.stage = "wait" /\ master.registered
             THEN /\ UpdateStatus(run, "error")
                  /\ master' = [master EXCEPT !.status = Updated("error")]
             ELSE UNCHANGED <<run, lost, master>>
       \/ /\ closing = "cancelled" /\ master.stage = "done" /\ closing' = "returned"
          /\ UNCHANGED <<run, lost, master>>
    /\ UNCHANGED <<scenario, cleanup, table, objs, timers, units, barrier, recv, restarted>>

-----------------------------------------------------------------------------
(* The rendezvous manager and StartAbort.                                  *)

Created == Cardinality({o \in Objects : objs[o].home # "none"})
Find(w) == IF table[w] # 0 THEN table[w] ELSE Created + 1
FindOrCreate(w) ==
    /\ table' = [table EXCEPT ![w] = Find(w)]
    /\ objs' = [objs EXCEPT ![Find(w)].home = w]

ToStage(u, stage) == units' = [units EXCEPT ![u].stage = stage]
IsLocal(k) == Src[k] = Dst(k)
Result(unit, status) ==
    IF status = "ok" THEN [unit EXCEPT !.stage = "next", !.pc = @ + 1]
    ELSE [unit EXCEPT !.stage = "abort", !.status = "error"]

\* The callbacks of the receivers of ks: a unit on the same worker goes on,
\* a RecvTensor call is answered.
Resumed(ks, status) ==
    [u \in Units |-> IF \E k \in ks : IsLocal(k) /\ u = Receiver[k]
                     THEN Result(units[u], status) ELSE units[u]]
Answered(ks, status) ==
    [k \in Keys |-> IF k \in ks /\ ~IsLocal(k)
                    THEN [recv[k] EXCEPT !.server = "over", !.reply = status]
                    ELSE recv[k]]

\* BaseRemoteRendezvous::StartAbort, first half: local_->StartAbort.
Woken(o) == IF R!Aborted(objs[o].local) THEN {} ELSE R!Waiters(objs[o].local)
AbortLocal(o) ==
    objs' = IF R!Aborted(objs[o].local) THEN objs
            ELSE [objs EXCEPT ![o].local = R!Clear(@),
                              ![o].got = [k \in Keys |-> IF k \in Woken(o) THEN "error"
                                                          ELSE @[k]]]

\* Mutant of AbortRemote: the calls are cancelled but not marked.
AbortRemoteUnmarked(o) ==
    IF objs[o].status # "ok" THEN UNCHANGED <<objs, recv, timers, lost>>
    ELSE /\ objs' = [objs EXCEPT ![o].status = "error", ![o].active = {}]
         /\ timers' = {t \in timers : t.obj # o}
         /\ recv' = [k \in Keys |-> IF k \in objs[o].active THEN TryCancel(recv[k])
                                     ELSE recv[k]]
         /\ UNCHANGED lost

\* Mutant of AbortRemote: the calls are marked but not cancelled.
AbortRemoteQuietly(o) ==
    IF objs[o].status # "ok" THEN UNCHANGED <<objs, recv, timers, lost>>
    ELSE /\ objs' = [objs EXCEPT ![o].status = "error", ![o].active = {}]
         /\ timers' = {t \in timers : t.obj # o}
         /\ recv' = [k \in Keys |-> IF k \in objs[o].active
                                     THEN [recv[k] EXCEPT !.status = "error"] ELSE recv[k]]
         /\ UNCHANGED lost

\* Second half: all active calls are aborted.  A call that has not been
\* started has no cancel callback yet.
AbortRemote(o) ==
    IF objs[o].status # "ok" THEN UNCHANGED <<objs, recv, timers, lost>>
    ELSE /\ objs' = [objs EXCEPT ![o].status = "error", ![o].active = {}]
         /\ timers' = {t \in timers : t.obj # o}
         /\ recv' = [k \in Keys |-> IF k \in objs[o].active
                                     THEN [TryCancel(recv[k]) EXCEPT !.status = "error"]
                                     ELSE recv[k]]
         /\ lost' = lost \union {<<"start", k>> : k \in {k \in objs[o].active :
                                                         recv[k].client = "none"}}

\* Worker::AbortStep: the abort comes a second later.  To abort what has been
\* aborted changes nothing; such a timer is left out.
AbortStep(w) ==
    /\ FindOrCreate(w)
    /\ timers' = IF objs[Find(w)].status # "ok" THEN timers
                 ELSE timers \union {[obj |-> Find(w), phase |-> 1]}

AbortLater(t) ==
    /\ t.phase = 1 /\ AbortLocal(t.obj)
    /\ timers' = (timers \ {t}) \union {[t EXCEPT !.phase = 2]}
    /\ units' = Resumed(Woken(t.obj), "error")
    /\ recv' = Answered(Woken(t.obj), "error")
    /\ UNCHANGED <<masterVars, run, table, barrier, lost>>

AbortLaterRemote(t) ==
    /\ t.phase = 2 /\ AbortRemote(t.obj)
    /\ UNCHANGED <<masterVars, run, table, units, barrier>>

-----------------------------------------------------------------------------
(* RunGraph on a worker, from the handler to the reply.                    *)

\* PrepareRunGraph may fail; otherwise the cancel callback is set.  (The worker's
\* own cancellation manager, which DoRunGraph registers with, is never cancelled.)
HandleRunGraph(w) ==
    /\ run[w].server = "queued"
    /\ run' = IF Fault("prepare", w)
              THEN [run EXCEPT ![w].server = "over", ![w].reply = "error"]
              ELSE [run EXCEPT ![w].server = "execute"]
    /\ UNCHANGED <<masterVars, table, objs, timers, units, barrier, recv, lost>>

\* ExecuteAsync looks the graph up, which a restarted worker does not have ...
GraphNotFound(w) ==
    /\ run[w].server = "execute" /\ w \in restarted
    /\ run' = [run EXCEPT ![w].server = "over", ![w].reply = "error"]
    /\ UNCHANGED <<masterVars, table, objs, timers, units, barrier, recv, lost>>

\* ... and finds the rendezvous of the step ...
ExecuteAsync(w) ==
    /\ run[w].server = "execute" /\ w \notin restarted
    /\ FindOrCreate(w)
    /\ units' = [u \in Units |-> IF u \in UnitsOf(w) THEN [units[u] EXCEPT !.obj = Find(w)]
                                 ELSE units[u]]
    /\ run' = [run EXCEPT ![w].server = "initialize"]
    /\ UNCHANGED <<masterVars, timers, barrier, recv, lost>>

ObjectOf(w) == (units[CHOOSE u \in UnitsOf(w) : TRUE]).obj

\* ... and gives it the session: the requests that came before are resumed.
Initialize(w) ==
    /\ run[w].server = "initialize"
    /\ objs' = [objs EXCEPT ![ObjectOf(w)].init = TRUE]
    /\ recv' = [k \in Keys |->
         IF recv[k].server = "deferred" /\ recv[k].obj = ObjectOf(w)
         THEN [recv[k] EXCEPT !.server = "resumed"] ELSE recv[k]]
    /\ run' = [run EXCEPT ![w].server = "resume"]
    /\ UNCHANGED <<masterVars, table, timers, units, barrier, lost>>

StartParallelExecutors(w) ==
    /\ run[w].server = "resume"
    /\ \A k \in Keys : Src[k] = w => recv[k].server \notin {"resumed", "resumed local"}
    /\ units' = [u \in Units |-> IF u \in UnitsOf(w) THEN [units[u] EXCEPT !.stage = "next"]
                                 ELSE units[u]]
    /\ run' = [run EXCEPT ![w].server = "running"]
    /\ UNCHANGED <<masterVars, table, objs, timers, barrier, recv, lost>>

\* Mutant of BarrierWhenDone: the last unit's status is replied.
BarrierLastStatus(u) ==
    LET w == Home[u]
        status == units[u].status
    IN  /\ units[u].stage = "ended"
        /\ units' = [units EXCEPT ![u].stage = "over"]
        /\ barrier' = [barrier EXCEPT ![w] = [pending |-> @.pending - 1, status |-> status]]
        /\ run' = IF barrier[w].pending = 1
                  THEN [run EXCEPT ![w].server = "over", ![w].reply = status] ELSE run
        /\ UNCHANGED <<masterVars, table, objs, timers, recv, lost>>

\* ExecutorBarrier::WhenDone.  Its abort has no effect: the executor that
\* failed has aborted the rendezvous itself.  The last unit replies.
BarrierWhenDone(u) ==
    LET w == Home[u]
        status == IF barrier[w].status = "ok" THEN units[u].status ELSE barrier[w].status
    IN  /\ units[u].stage = "ended"
        /\ units' = [units EXCEPT ![u].stage = "over"]
        /\ barrier' = [barrier EXCEPT ![w] = [pending |-> @.pending - 1, status |-> status]]
        /\ run' = IF barrier[w].pending = 1
                  THEN [run EXCEPT ![w].server = "over", ![w].reply = status] ELSE run
        /\ UNCHANGED <<masterVars, table, objs, timers, recv, lost>>

\* The server is told that the call has been cancelled.  Before the handler
\* has set its callback this has no effect.
RunGraphCancelled(w) ==
    /\ run[w].cancel /\ ~run[w].told /\ run[w].server \notin {"none", "over"}
    /\ run' = [run EXCEPT ![w].told = TRUE]
    /\ IF run[w].server = "queued"
       THEN lost' = lost \union {<<"run", w>>} /\ UNCHANGED <<table, objs, timers>>
       ELSE AbortStep(w) /\ UNCHANGED lost
    /\ UNCHANGED <<masterVars, units, barrier, recv>>

\* Mutant of CleanupGraph: the rendezvous stays in the table.
CleanupKeepsEntry(w) ==
    /\ cleanup[w].stage = "queued"
    /\ cleanup' = [cleanup EXCEPT ![w] =
         IF table[w] = 0 THEN [stage |-> "over", obj |-> 0]
                         ELSE [stage |-> "abort", obj |-> table[w]]]
    /\ lost' = IF run[w].server \in {"queued", "execute"}
               THEN lost \union {<<"cleanup", w>>} ELSE lost
    /\ UNCHANGED <<table, scenario, master, closing, restarted, run, objs, timers, units, barrier,
                   recv>>

\* BaseRendezvousMgr::Cleanup: out of the table first, then aborted.
CleanupGraph(w) ==
    /\ cleanup[w].stage = "queued"
    /\ cleanup' = [cleanup EXCEPT ![w] =
         IF table[w] = 0 THEN [stage |-> "over", obj |-> 0]
                         ELSE [stage |-> "abort", obj |-> table[w]]]
    /\ table' = [table EXCEPT ![w] = 0]
    /\ lost' = IF run[w].server \in {"queued", "execute"}
               THEN lost \union {<<"cleanup", w>>} ELSE lost
    /\ UNCHANGED <<scenario, master, closing, restarted, run, objs, timers, units, barrier,
                   recv>>

CleanupAbort(w) ==
    LET o == cleanup[w].obj IN
    /\ cleanup[w].stage = "abort" /\ AbortLocal(o)
    /\ cleanup' = [cleanup EXCEPT ![w].stage = "abort remote"]
    /\ units' = Resumed(Woken(o), "error")
    /\ recv' = Answered(Woken(o), "error")
    /\ UNCHANGED <<scenario, master, closing, restarted, run, table, timers, barrier, lost>>

CleanupAbortRemote(w) ==
    /\ cleanup[w].stage = "abort remote" /\ AbortRemote(cleanup[w].obj)
    /\ cleanup' = [cleanup EXCEPT ![w].stage = "over"]
    /\ UNCHANGED <<scenario, master, closing, restarted, run, table, units, barrier>>

-----------------------------------------------------------------------------
(* The executors' sends and receives.                                      *)

Now(u) == units[u].stage = "next" /\ units[u].pc <= Len(Program(u))
Obj(u) == objs[units[u].obj]

\* All done; or an op fails.
UnitEnds(u) ==
    /\ units[u].stage = "next"
    /\ \/ units[u].pc > Len(Program(u)) /\ ToStage(u, "ended")
       \/ /\ Fault("op", u)
          /\ units' = [units EXCEPT ![u] = Result(@, "error")]
    /\ UNCHANGED <<masterVars, run, table, objs, timers, barrier, recv, lost>>

\* NodeDone of the executor aborts the rendezvous.
UnitAborts(u) ==
    LET o == units[u].obj IN
    /\ units[u].stage = "abort" /\ AbortLocal(o)
    /\ units' = [Resumed(Woken(o), "error") EXCEPT ![u].stage = "abort remote"]
    /\ recv' = Answered(Woken(o), "error")
    /\ UNCHANGED <<masterVars, run, table, timers, barrier, lost>>

UnitAbortsRemote(u) ==
    /\ units[u].stage = "abort remote" /\ AbortRemote(units[u].obj)
    /\ ToStage(u, "ended")
    /\ UNCHANGED <<masterVars, run, table, barrier>>

\* The check of status_ that Send and RecvAsync (ValidateDevices) begin with.
CheckStatus(u) ==
    /\ Now(u)
    /\ units' = [units EXCEPT ![u] =
         IF Obj(u).status # "ok" THEN Result(@, "error")
         ELSE [@ EXCEPT !.stage = IF Op(u).op = "recv" /\ ~IsLocal(Op(u).key)
                                  THEN "register" ELSE Op(u).op]]
    /\ UNCHANGED <<masterVars, run, table, objs, timers, barrier, recv, lost>>

\* local_->Send.
Send(u) ==
    LET k == Op(u).key
        o == units[u].obj
        l == Obj(u).local
    IN  /\ units[u].stage = "send"
        /\ CASE R!Vacant(l, k) ->
                  /\ objs' = [objs EXCEPT ![o].local = R!Store(l, k, k),
                                          ![o].sent = @ \union {<<k, k>>}]
                  /\ units' = [units EXCEPT ![u] = Result(@, "ok")]
                  /\ UNCHANGED recv
             [] R!Awaited(l, k) ->
                  /\ objs' = [objs EXCEPT ![o].local = R!HandOver(l, k, k),
                                          ![o].sent = @ \union {<<k, k>>},
                                          ![o].got[k] = k]
                  /\ units' = [Resumed({k}, "ok") EXCEPT ![u] = Result(@, "ok")]
                  /\ recv' = Answered({k}, "ok")
             [] OTHER ->
                  /\ units' = [units EXCEPT ![u] = Result(@, "error")]
                  /\ UNCHANGED <<objs, recv>>
        /\ UNCHANGED <<masterVars, run, table, timers, barrier, lost>>

\* Mutant of LocalRecv: the value stays in the table.
LocalRecvKeeps(o, k) ==
    LET l == objs[o].local IN
    CASE R!Vacant(l, k) ->
           [objs EXCEPT ![o].local = R!Wait(l, k, k), ![o].got[k] = "waiting"]
      [] R!Served(l, k) -> [objs EXCEPT ![o].got[k] = l.table[k].value]
      [] OTHER -> [objs EXCEPT ![o].got[k] = "error"]

\* local_->RecvAsync for receiver k in object o: the new object.
LocalRecv(o, k) ==
    LET l == objs[o].local IN
    CASE R!Vacant(l, k) ->
           [objs EXCEPT ![o].local = R!Wait(l, k, k), ![o].got[k] = "waiting"]
      [] R!Served(l, k) ->
           [objs EXCEPT ![o].local = R!Consume(l, k), ![o].got[k] = l.table[k].value]
      [] OTHER -> [objs EXCEPT ![o].got[k] = "error"]

\* A receive from a unit of the same worker.
Recv(u) ==
    LET k == Op(u).key
        l == Obj(u).local
    IN  /\ units[u].stage = "recv"
        /\ objs' = LocalRecv(units[u].obj, k)
        /\ units' = [units EXCEPT ![u] =
              IF R!Vacant(l, k) THEN [@ EXCEPT !.stage = "waiting"]
              ELSE Result(@, IF R!Served(l, k) THEN "ok" ELSE "error")]
        /\ UNCHANGED <<masterVars, run, table, timers, barrier, recv, lost>>

\* A receive from another worker: the call is registered, so that an abort
\* reaches it ...
RegisterCall(u) ==
    LET k == Op(u).key IN
    /\ units[u].stage = "register"
    /\ IF Obj(u).status # "ok"
       THEN /\ recv' = [recv EXCEPT ![k].status = "error"]
            /\ lost' = lost \union {<<"start", k>>}
            /\ UNCHANGED objs
       ELSE /\ objs' = [objs EXCEPT ![units[u].obj].active = @ \union {k}]
            /\ UNCHANGED <<recv, lost>>
    /\ ToStage(u, "start")
    /\ UNCHANGED <<masterVars, run, table, timers, barrier>>

\* ... and started, whether it has been aborted meanwhile or not.
StartRTCall(u) ==
    LET k == Op(u).key IN
    /\ units[u].stage = "start"
    /\ recv' = [recv EXCEPT ![k].client = "open", ![k].server = "queued"]
    /\ ToStage(u, "waiting")
    /\ UNCHANGED <<masterVars, run, table, objs, timers, barrier, lost>>

\* The call completes, with the reply or because it has been cancelled.
RecvTensorDone(k) ==
    /\ Open(recv[k])
    /\ \E status \in Outcomes(recv[k]) :
         recv' = [recv EXCEPT ![k].client = "done",
                              ![k].status = IF @ = "ok" THEN status ELSE @]
    /\ units' = [units EXCEPT ![Receiver[k]].stage = "completed"]
    /\ UNCHANGED <<masterVars, run, table, objs, timers, barrier, lost>>

DeregisterCall(u) ==
    LET k == Op(u).key IN
    /\ units[u].stage = "completed"
    /\ objs' = [objs EXCEPT ![units[u].obj].active = @ \ {k}]
    /\ units' = [units EXCEPT ![u] = Result(@, recv[k].status)]
    /\ UNCHANGED <<masterVars, run, table, timers, barrier, recv, lost>>

-----------------------------------------------------------------------------
(* RecvTensor on the sending worker.                                       *)

\* Mutant of HandleRecvTensor: the incarnation is not checked.
HandleAnyRecvTensor(k) ==
    /\ recv[k].server = "queued"
    /\ FindOrCreate(Src[k])
    /\ recv' = [recv EXCEPT ![k].server = "found", ![k].obj = Find(Src[k])]
    /\ UNCHANGED <<masterVars, run, timers, units, barrier, lost>>

\* PrepareRecvTensor refuses a request to an earlier incarnation.
HandleRecvTensor(k) ==
    /\ recv[k].server = "queued"
    /\ IF Src[k] \in restarted
       THEN /\ recv' = [recv EXCEPT ![k].server = "over", ![k].reply = "error"]
            /\ UNCHANGED <<table, objs>>
       ELSE /\ FindOrCreate(Src[k])
            /\ recv' = [recv EXCEPT ![k].server = "found", ![k].obj = Find(Src[k])]
    /\ UNCHANGED <<masterVars, run, timers, units, barrier, lost>>

\* RecvLocalAsync and RecvLocalAsyncInternal up to local_->RecvAsync.
RecvLocalAsync(k) ==
    LET o == objs[recv[k].obj] IN
    /\ recv[k].server \in {"found", "resumed"}
    /\ recv' = [recv EXCEPT ![k] =
         CASE ~o.init -> [@ EXCEPT !.server = "deferred"]
           [] o.init /\ o.status # "ok" -> [@ EXCEPT !.server = "over", !.reply = "error"]
           [] o.init /\ o.status = "ok" ->
                [@ EXCEPT !.server = IF @ = "found" THEN "local" ELSE "resumed local"]]
    /\ UNCHANGED <<masterVars, run, table, objs, timers, units, barrier, lost>>

RecvLocal(k) ==
    LET l == objs[recv[k].obj].local IN
    /\ recv[k].server \in {"local", "resumed local"}
    /\ objs' = LocalRecv(recv[k].obj, k)
    /\ recv' = [recv EXCEPT ![k] =
         IF R!Vacant(l, k) THEN [@ EXCEPT !.server = "waiting"]
         ELSE [@ EXCEPT !.server = "over",
                        !.reply = IF R!Served(l, k) THEN "ok" ELSE "error"]]
    /\ UNCHANGED <<masterVars, run, table, timers, units, barrier, lost>>

RecvTensorCancelled(k) ==
    /\ recv[k].cancel /\ ~recv[k].told /\ recv[k].server \notin {"none", "over"}
    /\ recv' = [recv EXCEPT ![k].told = TRUE]
    /\ IF recv[k].server = "queued"
       THEN lost' = lost \union {<<"recv", k>>} /\ UNCHANGED <<table, objs, timers>>
       ELSE AbortStep(Src[k]) /\ UNCHANGED lost
    /\ UNCHANGED <<masterVars, run, units, barrier>>

-----------------------------------------------------------------------------
(* A worker dies and is restarted.  The connections to it break; what is   *)
(* still on its way, to it or from it, may get through all the same.       *)

Broken(c, reach) ==
    IF /\ c.client # "none"
       /\ c.server # "over" \/ ~reach
       /\ c.server # "queued" \/ ~reach
    THEN [c EXCEPT !.server = "over", !.reply = "error"] ELSE c

Crash(w) ==
    /\ Fault("crash", w) /\ w \notin restarted
    /\ restarted' = restarted \union {w}
    /\ table' = [table EXCEPT ![w] = 0]
    /\ timers' = {t \in timers : objs[t.obj].home # w}
    /\ units' = [u \in Units |-> IF u \in UnitsOf(w) THEN [units[u] EXCEPT !.stage = "gone"]
                                 ELSE units[u]]
    /\ \E reach \in BOOLEAN :
         /\ run' = [run EXCEPT ![w] = Broken(@, reach)]
         /\ recv' = [k \in Keys |->
              CASE Src[k] = w /\ Dst(k) # w -> Broken(recv[k], reach)
                [] Dst(k) = w /\ Open(recv[k]) ->
                     [recv[k] EXCEPT !.client = "done", !.cancel = TRUE]
                [] OTHER -> recv[k]]
         /\ cleanup' = IF cleanup[w].stage \in {"none", "over"}
                          \/ (reach /\ cleanup[w].stage = "queued") THEN cleanup
                       ELSE [cleanup EXCEPT ![w] = [stage |-> "over", obj |-> 0]]
    /\ UNCHANGED <<scenario, master, closing, objs, barrier, lost>>

-----------------------------------------------------------------------------
Progress ==
    \/ IssueRunGraph \/ RegisterCancel \/ CleanupPartitionsAsync \/ MarkRunCompletion
    \/ closing # "no" /\ Close
    \/ \E w \in Workers :
         \/ WhenDone(w) \/ HandleRunGraph(w) \/ GraphNotFound(w) \/ ExecuteAsync(w)
         \/ Initialize(w) \/ StartParallelExecutors(w) \/ RunGraphCancelled(w)
         \/ CleanupGraph(w) \/ CleanupAbort(w) \/ CleanupAbortRemote(w)
    \/ \E u \in Units :
         \/ UnitEnds(u) \/ UnitAborts(u) \/ UnitAbortsRemote(u) \/ CheckStatus(u)
         \/ Send(u) \/ Recv(u) \/ RegisterCall(u) \/ StartRTCall(u)
         \/ DeregisterCall(u) \/ BarrierWhenDone(u)
    \/ \E k \in Keys :
         \/ RecvTensorDone(k) \/ HandleRecvTensor(k) \/ RecvLocalAsync(k)
         \/ RecvLocal(k) \/ RecvTensorCancelled(k)
    \/ \E t \in timers : AbortLater(t) \/ AbortLaterRemote(t)

Next == Progress \/ Close \/ \E w \in Workers : Crash(w)

\* Threads run, calls are delivered, timers fire.  Nothing has to fail.
Fairness == WF_vars(Progress)

Spec == Init /\ [][Next]_vars /\ Fairness

-----------------------------------------------------------------------------
\* Types; a rendezvous in a worker's table was created there; the executors of
\* a barrier report once each.
TypeOK ==
    /\ \A o \in Objects :
         /\ objs[o].local.status \in {"ok", "aborted"} /\ objs[o].status \in {"ok", "error"}
         /\ objs[o].init \in BOOLEAN /\ objs[o].active \subseteq Keys
    /\ \A w \in Workers :
         /\ table[w] \in 0..Created /\ (table[w] # 0 => objs[table[w]].home = w)
         /\ barrier[w].pending \in Nat

\* A step that Run reports as successful has done all its work, whatever the
\* calls, their replies and a crash overtake: every executor has reported to
\* its barrier, and none has failed or stopped short of its last op.
OkMeansDone ==
    /\ TypeOK
    /\ master.result = "ok" =>
       /\ \A w \in Used : barrier[w] = [pending |-> 0, status |-> "ok"]
       /\ \A u \in DOMAIN scenario.program : Home[u] \notin restarted =>
            /\ units[u].stage = "over" /\ units[u].status = "ok"
            /\ units[u].pc = Len(Program(u)) + 1

\* "If StartAbort was called prior to DeregisterCall, then the current status
\* should be bad" (rpc_rendezvous_mgr.cc): a RecvTensor call whose rendezvous
\* has been aborted cannot succeed, even if it was not registered or not
\* started when the abort came.
AbortedCallsFail ==
    \A u \in DOMAIN scenario.program :
       /\ units[u].stage \in {"start", "waiting", "completed"} /\ Op(u).op = "recv"
       /\ ~IsLocal(Op(u).key) /\ Obj(u).status # "ok"
       => recv[Op(u).key].status = "error"

\* A successful step leaves nothing behind: when its run is marked complete, no
\* worker keeps a rendezvous of it, and no request for it is being served.
SuccessLeavesNothing ==
    master.result = "ok" /\ master.stage = "done" =>
       /\ \A w \in Workers : table[w] = 0
       /\ \A k \in Keys : recv[k].server \in {"none", "over"}
       /\ timers = {}

\* A restarted worker takes no part in a step of its earlier incarnation, though
\* requests still reach it and a cancellation may find one before it is refused:
\* no tensor is looked for and no executor started.  A rendezvous is made only
\* by that cancellation; it is never given a session, a value or a receiver.
StaleRequestsRefused ==
    \A w \in restarted :
       /\ run[w].server \in {"none", "queued", "execute", "over"}
       /\ \A k \in Keys : Src[k] = w => recv[k].server \in {"none", "queued", "over"}
       /\ table[w] # 0 =>
            /\ run[w].told
            /\ ~objs[table[w]].init /\ objs[table[w]].sent = {}
            /\ \A k \in Keys : objs[table[w]].got[k] = "idle"

\* The local rendezvous inside a remote one, driven by executors, requests and
\* three sources of aborts, is the LocalRendezvous of that module; stated for
\* the first that is created.
LocalSpec == R!Spec

\* Run comes to its end, and so does Close, whatever fails; unless the first
\* error came when some RunGraph call had not been issued, which is then never
\* cancelled.
RunCompletes ==
    <>(\/ master.stage = "done" /\ closing \in {"no", "returned"}
       \/ \E w \in Workers : <<"issue", w>> \in lost)

\* The executors of a step end, also when the master has given it up; unless a
\* cancellation, an abort or the cleanup came when there was nothing to act on
\* yet (lost).
UnitsEnd ==
    []<>(lost # {} \/ \A u \in Units : units[u].stage \in {"idle", "over", "gone"})

\* "Note: all code paths must eventually call MarkRunCompletion() in order to
\* appropriate decrement the num_running_ counter." (master_session.cc)
EveryRunIsMarked == <>(master.stage = "done")
=============================================================================
