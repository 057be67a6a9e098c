---------------------------- MODULE StratumServer ----------------------------
(***************************************************************************)
(* The generic stratum engine of src/stratum: the listener's accept loop,  *)
(* the session id manager, the session registry, the per-session dispatch *)
(* goroutine and job-scheduler goroutine, and the node-sync pump that      *)
(* installs block templates and broadcasts a "push a job" signal.          *)
(*                                                                         *)
(* A connection c goes through                                             *)
(*   idle -> built -> reading <-> loginJob -> loginSend -> ...             *)
(*        -> removing -> gone                                              *)
(* phase[c] is the pc of the goroutine that owns c: the listener while    *)
(* built, the dispatch goroutine from reading to removing.  Block         *)
(* templates are distinguished only by their previous-block hash, so a    *)
(* template is a model value of Templates and Compare is equality.        *)
(* Login and submit handlers are the btmc ones (src/stratum/btmc).  What  *)
(* the ban decision of JudgeMiner is, is modelled in ConnCtrl; here it is *)
(* a nondeterministic deny.                                                *)
(***************************************************************************)
EXTENDS Naturals, Sequences, FiniteSets

CONSTANTS
    Conns,          \* TCP connections that may arrive (model values)
    MaxConn,        \* admission slots of listener.listen (stratum.max_conn)
    MaxSessions,    \* capacity of the sessionIdManager (main passes max_conn)
    Templates,      \* templates the node may return, one per previous-block hash
    NoTemplate,     \* ServerState.blockTemplate == nil
    NoConn,         \* an id with no sessionMap entry
    TickerEnabled,  \* session.sched_interval > 0 (main.go default: 0, disabled)
    MaxInstalls     \* bound on the templates the pump installs

ASSUME /\ MaxConn \in Nat \ {0}
       /\ MaxSessions \in Nat \ {0}
       /\ NoTemplate \notin Templates
       /\ NoConn \notin Conns
       /\ TickerEnabled \in BOOLEAN
       /\ MaxInstalls \in Nat

Ids == 0 .. MaxSessions - 1

VARIABLES
    tmpl,       \* ServerState.blockTemplate
    pump,       \* pc of the startNodeSyncerTicker goroutine: "pull" | "bcast"
    installs,   \* templates installed so far (bounded by MaxInstalls)
    smap,       \* ServerState.sessionMap: id -> session
    freeIds,    \* sessionIdManager.freeIds
    nextId,     \* sessionIdManager.nextId
    inflight,   \* number of tokens in the listener's inflight channel
    phase,      \* pc of the listener / dispatch goroutine owning a connection
    sstate,     \* TcpSession.state
    sid,        \* TcpSession.id
    sched,      \* pc of scheduleJobs: "off" | "wait" | "send" | "exited"
    schedTmpl,  \* template the scheduler's GetJob read
    signal,     \* the value buffered in TcpSession.jobSignal (capacity 1)
    canceled,   \* scheduleCtx is canceled (CancelSchedule was called)
    loginTmpl,  \* template spJobReply's GetJob read
    sent        \* template of the last job written to the connection

vars == <<tmpl, pump, installs, smap, freeIds, nextId, inflight, phase, sstate, sid,
          sched, schedTmpl, signal, canceled, loginTmpl, sent>>

SessionStates == {"Connected", "Authorized", "Closed"}
Phases == {"idle", "built", "reading", "loginJob", "loginSend", "removing", "gone"}
TemplateOrNone == Templates \cup {NoTemplate}

TypeOK ==
    /\ tmpl \in TemplateOrNone
    /\ pump \in {"pull", "bcast"}
    /\ installs \in 0 .. MaxInstalls
    /\ smap \in [Ids -> Conns \cup {NoConn}]
    /\ freeIds \in Seq(Ids)
    /\ nextId \in Ids
    /\ inflight \in 0 .. MaxConn
    /\ phase \in [Conns -> Phases]
    /\ sstate \in [Conns -> SessionStates]
    /\ sid \in [Conns -> Ids]
    /\ sched \in [Conns -> {"off", "wait", "send", "exited"}]
    /\ schedTmpl \in [Conns -> TemplateOrNone]
    /\ signal \in [Conns -> BOOLEAN]
    /\ canceled \in [Conns -> BOOLEAN]
    /\ loginTmpl \in [Conns -> TemplateOrNone]
    /\ sent \in [Conns -> TemplateOrNone]

-----------------------------------------------------------------------------
(* sessionIdManager.getId: FIFO free list first, then the counter modulo  *)
(* the capacity.  NewId is the id returned, the two others its effect.     *)
NewId == IF freeIds # <<>> THEN Head(freeIds) ELSE nextId
GetIdFree == IF freeIds # <<>> THEN Tail(freeIds) ELSE freeIds
GetIdNextNoWrap == IF freeIds # <<>> THEN nextId ELSE nextId + 1
GetIdNext == IF freeIds # <<>> THEN nextId ELSE (nextId + 1) % MaxSessions

(* sessionIdManager.recycle *)
Recycle(id) == Append(freeIds, id)

(* The connection is closed once TcpSession.close ran. *)
ConnClosed(c) == phase[c] \in {"removing", "gone"}

(* The session still owns its id: close() has not recycled it yet. *)
HoldsId(c) == phase[c] \in {"built", "reading", "loginJob", "loginSend"}

(* sessionMap holds c under its own id. *)
Registered(c) == smap[sid[c]] = c

-----------------------------------------------------------------------------
Init ==
    /\ tmpl = NoTemplate
    /\ pump = "pull"
    /\ installs = 0
    /\ smap = [i \in Ids |-> NoConn]
    /\ freeIds = <<>>
    /\ nextId = 0
    /\ inflight = 0
    /\ phase = [c \in Conns |-> "idle"]
    /\ sstate = [c \in Conns |-> "Connected"]
    /\ sid = [c \in Conns |-> 0]
    /\ sched = [c \in Conns |-> "off"]
    /\ schedTmpl = [c \in Conns |-> NoTemplate]
    /\ signal = [c \in Conns |-> FALSE]
    /\ canceled = [c \in Conns |-> FALSE]
    /\ loginTmpl = [c \in Conns |-> NoTemplate]
    /\ sent = [c \in Conns |-> NoTemplate]

(* The listener goroutine is between build and registerSession for at most *)
(* one connection; it accepts only when it is back at AcceptTCP.           *)
ListenerIdle == \A d \in Conns : phase[d] # "built"

(* listener.listen, saturated: the new connection is closed right away.    *)
(* The miner may dial again, so the connection stays idle.                 *)
RefuseConn(c) ==
    /\ ListenerIdle
    /\ phase[c] = "idle"
    /\ inflight = MaxConn
    /\ UNCHANGED vars

(* listener.listen: take a slot, then tcpSessionBuilder.build: getId and   *)
(* newTcpSession, which starts the scheduleJobs goroutine.                 *)
(* newTcpSession: the session runs in an errgroup derived from the        *)
(* listener's context, scheduleCtx is a child of the group's context, and  *)
(* scheduleJobs is started in the group, waiting in its select.            *)
StartScheduler(c) == sched' = [sched EXCEPT ![c] = "wait"]

AcceptConn(c) ==
    /\ ListenerIdle
    /\ phase[c] = "idle"
    /\ inflight < MaxConn
    /\ inflight' = inflight + 1
    /\ sid' = [sid EXCEPT ![c] = NewId]
    /\ freeIds' = GetIdFree
    /\ nextId' = GetIdNext
    /\ phase' = [phase EXCEPT ![c] = "built"]
    /\ sstate' = [sstate EXCEPT ![c] = "Connected"]
    /\ StartScheduler(c)
    /\ UNCHANGED <<tmpl, pump, installs, smap, schedTmpl, signal, canceled, loginTmpl, sent>>

(* registerSession, then s.Run starts the dispatch goroutine. *)
RegisterSession(c) ==
    /\ phase[c] = "built"
    /\ smap' = [smap EXCEPT ![sid[c]] = c]
    /\ phase' = [phase EXCEPT ![c] = "reading"]
    /\ UNCHANGED <<tmpl, pump, installs, freeIds, nextId, inflight, sstate, sid, sched,
                   schedTmpl, signal, canceled, loginTmpl, sent>>

(* dispatch returns, and its deferred TcpSession.close runs: conn.Close,   *)
(* CancelSchedule, state = Closed, recycle(id).                            *)
CloseSession(c) ==
    /\ phase' = [phase EXCEPT ![c] = "removing"]
    /\ canceled' = [canceled EXCEPT ![c] = TRUE]
    /\ sstate' = [sstate EXCEPT ![c] = "Closed"]
    /\ freeIds' = Recycle(sid[c])
    /\ UNCHANGED <<tmpl, pump, installs, smap, nextId, inflight, sid, sched, schedTmpl,
                   signal, loginTmpl, sent>>

(* The read fails: EOF, reset, idle deadline, an oversized line, or a line *)
(* the btmDecoder cannot decode (unknown method, malformed JSON).          *)
Disconnect(c) ==
    /\ phase[c] = "reading"
    /\ CloseSession(c)

(* LoginReq.handleLogin when the session is not Connected: error reply    *)
(* ErrorMultipleAuth and a handler error, which ends dispatch.             *)
LoginWrongState(c) ==
    /\ phase[c] = "reading"
    /\ sstate[c] # "Connected"
    /\ CloseSession(c)

(* handleLogin: NewWorker rejects the login name (ErrorFormatAuthorize)  *)
(* or JudgeMiner denies the miner (ErrBannedMiner): a handler error.       *)
LoginBanned(c) ==
    /\ phase[c] = "reading"
    /\ sstate[c] = "Connected"
    /\ CloseSession(c)

(* handleLogin: SetWorker, SetState(Authorized); spJobReply comes next.    *)
LoginAuthorize(c) ==
    /\ phase[c] = "reading"
    /\ sstate[c] = "Connected"
    /\ sstate' = [sstate EXCEPT ![c] = "Authorized"]
    /\ phase' = [phase EXCEPT ![c] = "loginJob"]
    /\ UNCHANGED <<tmpl, pump, installs, smap, freeIds, nextId, inflight, sid, sched,
                   schedTmpl, signal, canceled, loginTmpl, sent>>

(* spJobReply: GetJob reads the current template; with none it returns    *)
(* ErrGetBlockTemplate and the handler error ends dispatch.                *)
LoginGetJob(c) ==
    /\ phase[c] = "loginJob"
    /\ \/ /\ tmpl = NoTemplate
          /\ CloseSession(c)
       \/ /\ tmpl # NoTemplate
          /\ loginTmpl' = [loginTmpl EXCEPT ![c] = tmpl]
          /\ phase' = [phase EXCEPT ![c] = "loginSend"]
          /\ UNCHANGED <<tmpl, pump, installs, smap, freeIds, nextId, inflight, sstate,
                         sid, sched, schedTmpl, signal, canceled, sent>>

(* spJobReply: Reply with the job, AddJob, Notify the job; the login       *)
(* handler then returns nil and dispatch reads the next line.              *)
LoginSend(c) ==
    /\ phase[c] = "loginSend"
    /\ sent' = [sent EXCEPT ![c] = loginTmpl[c]]
    /\ loginTmpl' = [loginTmpl EXCEPT ![c] = NoTemplate]
    /\ phase' = [phase EXCEPT ![c] = "reading"]
    /\ UNCHANGED <<tmpl, pump, installs, smap, freeIds, nextId, inflight, sstate, sid,
                   sched, schedTmpl, signal, canceled>>

(* SubmitReq.handleSubmit on a session that is not Authorized:             *)
(* ErrorUnauthorized and a handler error.                                  *)
SubmitUnauthorized(c) ==
    /\ phase[c] = "reading"
    /\ sstate[c] # "Authorized"
    /\ CloseSession(c)

(* handleSubmit: the worker does not match (ErrNotRegistered) or           *)
(* JudgeMiner denies it (ErrBannedMiner): the handler error ends dispatch. *)
SubmitRefused(c) ==
    /\ phase[c] = "reading"
    /\ sstate[c] = "Authorized"
    /\ CloseSession(c)

(* handleSubmit past the ban check: every other outcome (bad job id, job  *)
(* not found, stale, rejected, accepted, block) replies and returns nil.   *)
(* Its effect on counters and job history is modelled in ShareSubmit.      *)
SubmitHandled(c) ==
    /\ phase[c] = "reading"
    /\ sstate[c] = "Authorized"
    /\ UNCHANGED vars

(* The wrapper's tail: <-inflight releases the admission slot, and its   *)
(* error return ("session closed") makes the errgroup cancel the session's *)
(* context, and with it scheduleCtx.                                       *)
WrapperReturn(c) ==
    /\ inflight' = inflight - 1
    /\ canceled' = [canceled EXCEPT ![c] = TRUE]

(* Mutant of RemoveSession: removeSession closes the session without      *)
(* checking its state, so close() recycles the id a second time.           *)
RemoveSessionAlwaysClose(c) ==
    /\ phase[c] = "removing"
    /\ smap' = [smap EXCEPT ![sid[c]] = NoConn]
    /\ freeIds' = Recycle(sid[c])
    /\ WrapperReturn(c)
    /\ phase' = [phase EXCEPT ![c] = "gone"]
    /\ UNCHANGED <<tmpl, pump, installs, nextId, sstate, sid, sched, schedTmpl,
                   signal, loginTmpl, sent>>

(* The dispatch wrapper of listener.listen: removeSession deletes the map  *)
(* entry under the session's id and closes the session if it is not yet    *)
(* Closed; then the wrapper returns.                                       *)
RemoveSession(c) ==
    /\ phase[c] = "removing"
    /\ smap' = [smap EXCEPT ![sid[c]] = NoConn]
    /\ freeIds' = IF sstate[c] # "Closed" THEN Recycle(sid[c]) ELSE freeIds
    /\ WrapperReturn(c)
    /\ phase' = [phase EXCEPT ![c] = "gone"]
    /\ UNCHANGED <<tmpl, pump, installs, nextId, sstate, sid, sched, schedTmpl, signal,
                   loginTmpl, sent>>

-----------------------------------------------------------------------------
(* scheduleJobs.  The select takes any ready case.                         *)
(* Mutant of SchedExit: the ctx.Done case says `break`, which leaves the   *)
(* select and not the loop; the session is not Authorized, so it continues *)
(* and waits again.                                                        *)
SchedExitBreak(c) ==
    /\ sched[c] = "wait"
    /\ canceled[c]
    /\ UNCHANGED vars

SchedExit(c) ==
    /\ sched[c] = "wait"
    /\ canceled[c]
    /\ sched' = [sched EXCEPT ![c] = "exited"]
    /\ UNCHANGED <<tmpl, pump, installs, smap, freeIds, nextId, inflight, phase, sstate,
                   sid, schedTmpl, signal, canceled, loginTmpl, sent>>

(* Mutant of SchedAfterWake: the scheduler returns instead of continuing  *)
(* when it wakes on a session that is not Authorized yet.                  *)
SchedAfterWakeReturn(c) ==
    IF sstate[c] = "Authorized" /\ tmpl # NoTemplate
    THEN /\ sched' = [sched EXCEPT ![c] = "send"]
         /\ schedTmpl' = [schedTmpl EXCEPT ![c] = tmpl]
    ELSE /\ sched' = [sched EXCEPT ![c] = IF sstate[c] = "Authorized"
                                             THEN "wait" ELSE "exited"]
         /\ UNCHANGED schedTmpl

(* After a wake: only an Authorized session gets a job; GetJob reads the   *)
(* template and fails (continue) when there is none.                       *)
SchedAfterWake(c) ==
    IF sstate[c] = "Authorized" /\ tmpl # NoTemplate
    THEN /\ sched' = [sched EXCEPT ![c] = "send"]
         /\ schedTmpl' = [schedTmpl EXCEPT ![c] = tmpl]
    ELSE UNCHANGED <<sched, schedTmpl>>

SchedWakeOnSignal(c) ==
    /\ sched[c] = "wait"
    /\ signal[c]
    /\ signal' = [signal EXCEPT ![c] = FALSE]
    /\ SchedAfterWake(c)
    /\ UNCHANGED <<tmpl, pump, installs, smap, freeIds, nextId, inflight, phase, sstate,
                   sid, canceled, loginTmpl, sent>>

SchedWakeOnTick(c) ==
    /\ TickerEnabled
    /\ sched[c] = "wait"
    /\ SchedAfterWake(c)
    /\ UNCHANGED <<tmpl, pump, installs, smap, freeIds, nextId, inflight, phase, sstate,
                   sid, signal, canceled, loginTmpl, sent>>

(* GetTarget is ("", false, false) for btmc; Encode cannot fail; Notify    *)
(* fails on a closed connection (continue), else the job is written and    *)
(* AddJob records it.                                                      *)
SchedSend(c) ==
    /\ sched[c] = "send"
    /\ sched' = [sched EXCEPT ![c] = "wait"]
    /\ sent' = IF ConnClosed(c) THEN sent ELSE [sent EXCEPT ![c] = schedTmpl[c]]
    /\ schedTmpl' = [schedTmpl EXCEPT ![c] = NoTemplate]
    /\ UNCHANGED <<tmpl, pump, installs, smap, freeIds, nextId, inflight, phase, sstate,
                   sid, signal, canceled, loginTmpl>>

-----------------------------------------------------------------------------
(* broadcastBt: Pull a template (or an error, or nil); updateBlockTemplate *)
(* installs it when there is none or Compare < 0, i.e. a different         *)
(* previous-block hash, whatever the heights.                              *)
PullTemplate ==
    /\ pump = "pull"
    /\ \E t \in Templates :
          IF tmpl = NoTemplate \/ t # tmpl
          THEN /\ installs < MaxInstalls
               /\ tmpl' = t
               /\ pump' = "bcast"
               /\ installs' = installs + 1
          ELSE UNCHANGED <<tmpl, pump, installs>>
    /\ UNCHANGED <<smap, freeIds, nextId, inflight, phase, sstate, sid, sched,
                   schedTmpl, signal, canceled, loginTmpl, sent>>

(* ServerState.broadcast: for every session in the map, ClearJobs (empty)  *)
(* and SendJob, a non-blocking send on jobSignal.                          *)
Broadcast ==
    /\ pump = "bcast"
    /\ pump' = "pull"
    /\ UNCHANGED installs
    /\ signal' = [c \in Conns |->
                    IF \E i \in Ids : smap[i] = c THEN TRUE ELSE signal[c]]
    /\ UNCHANGED <<tmpl, smap, freeIds, nextId, inflight, phase, sstate, sid,
                   sched, schedTmpl, canceled, loginTmpl, sent>>

-----------------------------------------------------------------------------
Next ==
    \/ PullTemplate
    \/ Broadcast
    \/ \E c \in Conns :
          \/ RefuseConn(c) \/ AcceptConn(c) \/ RegisterSession(c)
          \/ Disconnect(c) \/ LoginWrongState(c) \/ LoginBanned(c)
          \/ LoginAuthorize(c) \/ LoginGetJob(c) \/ LoginSend(c)
          \/ SubmitUnauthorized(c) \/ SubmitRefused(c) \/ SubmitHandled(c)
          \/ RemoveSession(c)
          \/ SchedExit(c) \/ SchedWakeOnSignal(c) \/ SchedWakeOnTick(c)
          \/ SchedSend(c)

(* Goroutines that run once they can: the listener, each session's         *)
(* dispatch goroutine between two reads, each scheduler, the pump's        *)
(* broadcast, and the ticker when it is enabled.  Arriving connections,    *)
(* client messages, disconnects and the node's answers are not fair.       *)
Fairness ==
    /\ WF_vars(Broadcast)
    /\ \A c \in Conns :
          /\ WF_vars(RegisterSession(c))
          /\ WF_vars(LoginGetJob(c))
          /\ WF_vars(LoginSend(c))
          /\ WF_vars(RemoveSession(c))
          /\ WF_vars(SchedExit(c))
          /\ WF_vars(SchedWakeOnSignal(c))
          /\ WF_vars(SchedWakeOnTick(c))
          /\ WF_vars(SchedSend(c))

Spec == Init /\ [][Next]_vars
FairSpec == Spec /\ Fairness

-----------------------------------------------------------------------------
(* PROPERTIES                                                              *)

(* Id ownership.  Ids are recycled by TcpSession.close while the listener, *)
(* the single getId caller, keeps accepting: no two sessions that still    *)
(* own an id own the same one, no owned id waits in the free list, and the *)
(* free list holds no id twice.  An id collision gives two miners the same *)
(* nonce prefix (btmcSessionDataBuilder.Build) and the same sessionMap key.*)
IdOwnership ==
    /\ \A c, d \in Conns : c # d /\ HoldsId(c) /\ HoldsId(d) => sid[c] # sid[d]
    /\ \A c \in Conns : \A k \in 1 .. Len(freeIds) :
          HoldsId(c) => freeIds[k] # sid[c]
    /\ \A k, m \in 1 .. Len(freeIds) : k # m => freeIds[k] # freeIds[m]

(* Registry consistency: a session whose dispatch loop runs is in the      *)
(* sessionMap under its id, so broadcast reaches it.  removeSession        *)
(* deletes by id after close() has already recycled that id.               *)
RegistryConsistent ==
    \A c \in Conns :
        phase[c] \in {"reading", "loginJob", "loginSend"} => Registered(c)

(* No lost wake-up: once a broadcast has run, a registered Authorized      *)
(* session whose login reply is out and whose newest job is not from the   *)
(* current template has a wake-up pending, or its scheduler is about to    *)
(* write a job of the current template.  Otherwise, with the ticker        *)
(* disabled, it keeps the old job until the next block.                    *)
NoLostWakeup ==
    \A c \in Conns :
        ( /\ pump = "pull"
          /\ phase[c] = "reading"
          /\ sstate[c] = "Authorized"
          /\ Registered(c)
          /\ sent[c] # tmpl )
        => \/ signal[c]
           \/ sched[c] = "send" /\ schedTmpl[c] = tmpl

(* Scheduler termination: once a session is closed its scheduleJobs       *)
(* goroutine eventually returns (CancelSchedule in close(), and the       *)
(* errgroup's cancel when the dispatch wrapper returns), so no goroutine   *)
(* leaks per connection.                                                   *)
SchedulerStops ==
    \A c \in Conns : sstate[c] = "Closed" ~> sched[c] = "exited"

(* Job freshness: an Authorized session is eventually sent a job of the    *)
(* current template, unless it closes or the template changes again first. *)
JobFreshness ==
    \A c \in Conns, t \in Templates :
        (sstate[c] = "Authorized" /\ tmpl = t)
            ~> (sent[c] = t \/ sstate[c] # "Authorized" \/ tmpl # t)

=============================================================================
