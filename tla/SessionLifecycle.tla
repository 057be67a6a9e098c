-------------------------- MODULE SessionLifecycle --------------------------
(***************************************************************************)
(* A btmc session from accept to close, as far as stratum.max_conn and    *)
(* the idle timeout decide it: the listener's inflight slots (capacity    *)
(* max_conn), the session id (IdAllocator, what sessionIdManager keeps,  *)
(* capacity max_conn), the nonce prefix Build derives from that id and    *)
(* from stratum.id, and the connection deadline that setDeadline arms     *)
(* (src/stratum/listener.go, tcpsession.go, btmc/session.go).             *)
(*                                                                        *)
(* Time is counted per connection: deadline[c] is the number of clock     *)
(* ticks until conn.SetDeadline's deadline passes, with Timeout standing  *)
(* for session.timeout; a connection that was never given a deadline has  *)
(* NoDeadline.  A client either keeps talking or goes quiet for good:     *)
(* it stays connected (answering TCP keep-alives) and sends nothing.      *)
(***************************************************************************)
EXTENDS Integers, FiniteSets, NoncePrefix

CONSTANTS
    Clients,        \* connections
    NoClient,
    Ids,            \* session ids 0 .. largest max_conn - 1
    ServerIds,      \* stratum.id values a deployment may configure
    SessionCounts,  \* stratum.max_conn values a deployment may configure
    Timeout,        \* session.timeout, in clock ticks
    NoDeadline      \* no deadline was ever set on the connection

VARIABLES
    serverId,       \* btmcSessionDataBuilder.id
    maxSessions,    \* max_conn: inflight capacity and id space
    owner,          \* which client holds each session id
    nonce,          \* btmcSessionData.nonce of each open session
    phase,          \* "idle", "open" (a slot held), "closed", "refused"
    deadline,       \* ticks left before the connection deadline
    authorized,     \* the session's state is Authorized
    quiet           \* the client will send nothing more

NoNonce == -1   \* no session: every nonce is a uint64

vars == <<serverId, maxSessions, owner, nonce, phase, deadline, authorized,
          quiet>>

Alloc == INSTANCE IdAllocator

Open == {c \in Clients : phase[c] = "open"}

(* The configuration is read once at start-up; no connection exists yet. *)
Init ==
    /\ serverId \in ServerIds
    /\ maxSessions \in SessionCounts
    /\ Alloc!Init
    /\ nonce = [c \in Clients |-> NoNonce]
    /\ phase = [c \in Clients |-> "idle"]
    /\ deadline = [c \in Clients |-> NoDeadline]
    /\ authorized = [c \in Clients |-> FALSE]
    /\ quiet = [c \in Clients |-> FALSE]

(* listen: every inflight slot is taken, the connection is closed. *)
RefuseConn(c) ==
    /\ phase[c] = "idle"
    /\ Cardinality(Open) = maxSessions
    /\ phase' = [phase EXCEPT ![c] = "refused"]
    /\ UNCHANGED <<serverId, maxSessions, owner, nonce, deadline, authorized,
                   quiet>>

(* listen: a slot is taken, SetKeepAlive, build (getId, dataBuilder.Build)*)
(* and the session starts; no deadline is set before the first message.   *)
AcceptConn(c, i) ==
    /\ phase[c] = "idle"
    /\ Cardinality(Open) < maxSessions
    /\ i < maxSessions
    /\ Alloc!Acquire(c, i)
    /\ nonce' = [nonce EXCEPT ![c] = NonceOf(serverId, maxSessions, i)]
    /\ phase' = [phase EXCEPT ![c] = "open"]
    /\ UNCHANGED <<serverId, maxSessions, deadline, authorized, quiet>>

(* setDeadline: conn.SetDeadline(time.Now().Add(s.timeout)). *)
SetDeadline(c) == deadline' = [deadline EXCEPT ![c] = Timeout]

(* dispatch: ReadLine returns a line before the deadline, Decode succeeds *)
(* and the deadline is reset; the request may be a login that authorizes. *)
Receive(c, login) ==
    /\ phase[c] = "open"
    /\ ~quiet[c]
    /\ deadline[c] # 0
    /\ SetDeadline(c)
    /\ authorized' = [authorized EXCEPT ![c] = @ \/ login]
    /\ UNCHANGED <<serverId, maxSessions, owner, nonce, phase, quiet>>

(* The scheduler's Notify of a new job: Encode succeeds before the        *)
(* deadline and setDeadline resets it.                                    *)
NotifyJob(c) ==
    /\ phase[c] = "open"
    /\ authorized[c]
    /\ deadline[c] # 0
    /\ SetDeadline(c)
    /\ UNCHANGED <<serverId, maxSessions, owner, nonce, phase, authorized,
                   quiet>>

(* The deferred close (id recycled, SessionData dropped), then the        *)
(* wrapper's removeSession and <-inflight releasing the slot.             *)
CloseSession(c, i) ==
    /\ Alloc!Release(c, i)
    /\ nonce' = [nonce EXCEPT ![c] = NoNonce]
    /\ phase' = [phase EXCEPT ![c] = "closed"]
    /\ UNCHANGED <<serverId, maxSessions, deadline, authorized, quiet>>

(* dispatch returns on EOF, a flood, a read or decode error or a handler  *)
(* error: the client's doing.                                             *)
Disconnect(c, i) ==
    /\ phase[c] = "open"
    /\ ~quiet[c]
    /\ CloseSession(c, i)

(* Mutant of ReadTimeout: the timeout error is taken as transient and the *)
(* loop reads again, with the deadline still in the past.                 *)
ReadTimeoutRetry(c, i) ==
    /\ phase[c] = "open"
    /\ deadline[c] = 0
    /\ owner[i] = c
    /\ UNCHANGED vars

(* dispatch: ReadLine fails once the deadline has passed ("error reading")*)
(* and the loop returns.                                                  *)
ReadTimeout(c, i) ==
    /\ phase[c] = "open"
    /\ deadline[c] = 0
    /\ CloseSession(c, i)

(* The client stops sending but keeps the connection. *)
GoQuiet(c) ==
    /\ phase[c] = "open"
    /\ ~quiet[c]
    /\ quiet' = [quiet EXCEPT ![c] = TRUE]
    /\ UNCHANGED <<serverId, maxSessions, owner, nonce, phase, deadline,
                   authorized>>

(* One clock tick brings every armed deadline of an open connection       *)
(* closer; it is a step only while some deadline is still ahead.          *)
Counting(c) == phase[c] = "open" /\ deadline[c] \in 1 .. Timeout
Tick ==
    /\ \E c \in Clients : Counting(c)
    /\ deadline' = [c \in Clients |->
                      IF Counting(c) THEN deadline[c] - 1 ELSE deadline[c]]
    /\ UNCHANGED <<serverId, maxSessions, owner, nonce, phase, authorized,
                   quiet>>

Next ==
    \/ \E c \in Clients :
          \/ RefuseConn(c) \/ GoQuiet(c) \/ NotifyJob(c)
          \/ \E login \in BOOLEAN : Receive(c, login)
          \/ \E i \in Ids :
                AcceptConn(c, i) \/ Disconnect(c, i) \/ ReadTimeout(c, i)
    \/ Tick

(* Time passes, and the network poller wakes a read whose deadline has    *)
(* passed.  Clients and the block-driven Notify are not fair.             *)
Spec ==
    /\ Init /\ [][Next]_vars
    /\ WF_vars(Tick)
    /\ \A c \in Clients, i \in Ids : WF_vars(ReadTimeout(c, i))

-----------------------------------------------------------------------------
(* PROPERTIES                                                              *)

(* Nonce partition: the search range of every open session lies in its   *)
(* server's block, so peer servers with different stratum.id never hand   *)
(* out the same work, and the ranges of two open sessions are disjoint,   *)
(* so no two miners repeat each other's hashing.                          *)
NoncePartitioned ==
    \A c \in Open :
        /\ BlockLo(serverId) <= nonce[c]
        /\ NonceEnd(nonce[c], maxSessions) <= BlockHi(serverId)
        /\ \A d \in Open \ {c} :
              \/ NonceEnd(nonce[c], maxSessions) <= nonce[d]
              \/ NonceEnd(nonce[d], maxSessions) <= nonce[c]

(* Idle timeout: a connection that has sent a request and then falls      *)
(* silent without logging in is closed by its read deadline, and its      *)
(* inflight slot and id are freed.                                        *)
ArmedIdleReleased ==
    \A c \in Clients :
        (phase[c] = "open" /\ quiet[c] /\ ~authorized[c]
            /\ deadline[c] # NoDeadline)
        ~> phase[c] = "closed"

(* Idle timeout as the configuration surface promises it: every silent,  *)
(* unauthenticated connection is eventually closed and frees its slot.   *)
QuietConnectionsReleased ==
    \A c \in Clients :
        (phase[c] = "open" /\ quiet[c] /\ ~authorized[c])
        ~> phase[c] = "closed"
=============================================================================
