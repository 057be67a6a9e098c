------------------------------ MODULE ConnCtrl ------------------------------
(***************************************************************************)
(* The miner ban list of src/stratum/connctl.go, as the btmc handlers use  *)
(* it: every login and every submit calls JudgeMiner with the session's    *)
(* SessionCtl counters, and the scanning goroutine sweeps entries that     *)
(* expired long ago.  The ban list is a lock-free hashmap: JudgeMiner's    *)
(* Get and its later Del or Set are separate steps, and so are the         *)
(* sweep's read of an entry and its Del.                                   *)
(*                                                                         *)
(* Time is a counter in units of BanPeriod's granularity (10 minutes in    *)
(* the MC module: a 20 minute ban, the sweep's 30 minute grace).  A        *)
(* session s of miner MinerOf[s] is off (no connection) or on             *)
(* (authorized); judge[s] is the handler whose JudgeMiner call is between  *)
(* its Get and its decision.  minerBanCnt is only ever written (Add and     *)
(* Remove move it by one, and it is read nowhere), so it is left out.      *)
(***************************************************************************)
EXTENDS Integers

CONSTANTS
    Sessions,       \* sessions (model values)
    Miners,         \* miner full names (model values)
    MinerOf,        \* the worker each session logs in as
    BanPeriod,      \* defaultBanPeriod (> 0: the ban mechanism is enabled)
    SweepGrace,     \* scanning removes entries expired more than this ago
    BanThreshold,   \* the 100 submissions JudgeMiner waits for
    MaxTime,        \* bound on the clock
    MaxCount,       \* bound on a session's submissions
    NoBan           \* no entry in minerBanList

ASSUME /\ MinerOf \in [Sessions -> Miners]
       /\ BanPeriod \in Nat \ {0}
       /\ SweepGrace \in Nat
       /\ BanThreshold \in Nat \ {0}
       /\ MaxCount >= BanThreshold
       /\ NoBan \notin Nat

VARIABLES
    now,        \* time.Now()
    banList,    \* minerBanList: miner -> ban end time
    spc,        \* "off" | "on": the session's connection
    judge,      \* "idle" | "login" | "submit": a JudgeMiner call in progress
    seen,       \* what the call's QueryBanMiner returned
    acCnt,      \* SessionCtl.MinerAcCnt
    errCnt,     \* SessionCtl.MinerErrCnt
    sweep,      \* the miner whose entry the scanning loop holds, or NoBan
    sweepSeen,  \* the end time it read for that entry
    banEnd,     \* history: end time of the latest ban of each miner
    readEnd     \* history: banEnd of the session's miner when its JudgeMiner read

vars == <<now, banList, spc, judge, seen, acCnt, errCnt, sweep,
          sweepSeen, banEnd, readEnd>>

Time == 0 .. MaxTime + BanPeriod
Entry == Time \cup {NoBan}

TypeOK ==
    /\ now \in 0 .. MaxTime
    /\ banList \in [Miners -> Entry]
    /\ spc \in [Sessions -> {"off", "on"}]
    /\ judge \in [Sessions -> {"idle", "login", "submit"}]
    /\ seen \in [Sessions -> Entry]
    /\ acCnt \in [Sessions -> 0 .. MaxCount]
    /\ errCnt \in [Sessions -> 0 .. MaxCount]
    /\ sweep \in Miners \cup {NoBan}
    /\ sweepSeen \in Entry
    /\ banEnd \in [Miners -> Time]
    /\ readEnd \in [Sessions -> Time]

-----------------------------------------------------------------------------
Total(s) == acCnt[s] + errCnt[s]

(* The ban rule of JudgeMiner: at least BanThreshold submissions and an    *)
(* error rate of at least 50%, float64(err)/float64(total) >= 0.5.         *)
Abusive(s) == Total(s) >= BanThreshold /\ 2 * errCnt[s] >= Total(s)

(* AddBanMiner *)
AddBanMiner(m) ==
    /\ banList' = [banList EXCEPT ![m] = now + BanPeriod]
    /\ banEnd' = [banEnd EXCEPT ![m] = now + BanPeriod]

(* RemoveBanMiner: Del whatever the entry holds now. *)
RemoveBanMiner(m) ==
    /\ banList' = [banList EXCEPT ![m] = NoBan]

(* JudgeMiner returned ErrBannedMiner: the handler returns it and the      *)
(* dispatch loop closes the session, dropping its counters.                *)
Deny(s) ==
    /\ spc' = [spc EXCEPT ![s] = "off"]
    /\ judge' = [judge EXCEPT ![s] = "idle"]

(* JudgeMiner returned nil: handleLogin authorizes the session; handleSubmit *)
(* goes on and counts the submission as an error (bad job id, job not      *)
(* found, bad nonce, stale, rejected share) or as accepted.                *)
Permit(s) ==
    /\ spc' = [spc EXCEPT ![s] = "on"]
    /\ judge' = [judge EXCEPT ![s] = "idle"]
    /\ IF judge[s] = "submit"
       THEN \/ errCnt' = [errCnt EXCEPT ![s] = @ + 1] /\ UNCHANGED acCnt
            \/ acCnt' = [acCnt EXCEPT ![s] = @ + 1] /\ UNCHANGED errCnt
       ELSE UNCHANGED <<acCnt, errCnt>>

-----------------------------------------------------------------------------
Init ==
    /\ now = 0
    /\ banList = [m \in Miners |-> NoBan]
    /\ spc = [s \in Sessions |-> "off"]
    /\ judge = [s \in Sessions |-> "idle"]
    /\ seen = [s \in Sessions |-> NoBan]
    /\ acCnt = [s \in Sessions |-> 0]
    /\ errCnt = [s \in Sessions |-> 0]
    /\ sweep = NoBan
    /\ sweepSeen = NoBan
    /\ banEnd = [m \in Miners |-> 0]
    /\ readEnd = [s \in Sessions |-> 0]

(* A connection logs in: a new session with NewSessionCtl counters, and    *)
(* handleLogin's JudgeMiner reads the ban list.                            *)
StartLogin(s) ==
    /\ spc[s] = "off"
    /\ judge[s] = "idle"
    /\ judge' = [judge EXCEPT ![s] = "login"]
    /\ seen' = [seen EXCEPT ![s] = banList[MinerOf[s]]]
    /\ readEnd' = [readEnd EXCEPT ![s] = banEnd[MinerOf[s]]]
    /\ acCnt' = [acCnt EXCEPT ![s] = 0]
    /\ errCnt' = [errCnt EXCEPT ![s] = 0]
    /\ UNCHANGED <<now, banList, spc, sweep, sweepSeen, banEnd>>

(* handleSubmit past its state and worker checks: JudgeMiner reads the     *)
(* ban list.                                                               *)
StartSubmit(s) ==
    /\ spc[s] = "on"
    /\ judge[s] = "idle"
    /\ Total(s) < MaxCount
    /\ judge' = [judge EXCEPT ![s] = "submit"]
    /\ seen' = [seen EXCEPT ![s] = banList[MinerOf[s]]]
    /\ readEnd' = [readEnd EXCEPT ![s] = banEnd[MinerOf[s]]]
    /\ UNCHANGED <<now, banList, spc, acCnt, errCnt, sweep, sweepSeen,
                   banEnd>>

(* The client disconnects between two requests. *)
Disconnect(s) ==
    /\ spc[s] = "on"
    /\ judge[s] = "idle"
    /\ spc' = [spc EXCEPT ![s] = "off"]
    /\ UNCHANGED <<now, banList, judge, seen, acCnt, errCnt, sweep,
                   sweepSeen, banEnd, readEnd>>

(* JudgeMiner, hit and timeout.After(time.Now()): denied. *)
JudgeBanned(s) ==
    /\ judge[s] # "idle"
    /\ seen[s] # NoBan
    /\ seen[s] > now
    /\ Deny(s)
    /\ UNCHANGED <<now, banList, seen, acCnt, errCnt, sweep, sweepSeen,
                   banEnd, readEnd>>

(* JudgeMiner, hit and expired: RemoveBanMiner, then nil. *)
JudgeExpired(s) ==
    /\ judge[s] # "idle"
    /\ seen[s] # NoBan
    /\ seen[s] <= now
    /\ RemoveBanMiner(MinerOf[s])
    /\ Permit(s)
    /\ UNCHANGED <<now, seen, sweep, sweepSeen, banEnd, readEnd>>

(* JudgeMiner, miss and abusive counters: AddBanMiner, reset the counters, *)
(* ErrBannedMiner.                                                         *)
JudgeAbusive(s) ==
    /\ judge[s] # "idle"
    /\ seen[s] = NoBan
    /\ Abusive(s)
    /\ AddBanMiner(MinerOf[s])
    /\ acCnt' = [acCnt EXCEPT ![s] = 0]
    /\ errCnt' = [errCnt EXCEPT ![s] = 0]
    /\ Deny(s)
    /\ UNCHANGED <<now, seen, sweep, sweepSeen, readEnd>>

(* JudgeMiner, miss and acceptable counters: nil. *)
JudgeClean(s) ==
    /\ judge[s] # "idle"
    /\ seen[s] = NoBan
    /\ ~Abusive(s)
    /\ Permit(s)
    /\ UNCHANGED <<now, banList, seen, sweep, sweepSeen, banEnd, readEnd>>

-----------------------------------------------------------------------------
(* scanning: Iter yields an entry with its value. *)
SweepRead(m) ==
    /\ sweep = NoBan
    /\ banList[m] # NoBan
    /\ sweep' = m
    /\ sweepSeen' = banList[m]
    /\ UNCHANGED <<now, banList, spc, judge, seen, acCnt, errCnt, banEnd, readEnd>>

(* A sweep with the comparison turned round. *)
SweepCheckReversed ==
    /\ sweep # NoBan
    /\ IF now < sweepSeen + SweepGrace
       THEN RemoveBanMiner(sweep)
       ELSE UNCHANGED banList
    /\ sweep' = NoBan
    /\ sweepSeen' = NoBan
    /\ UNCHANGED <<now, spc, judge, seen, acCnt, errCnt, banEnd, readEnd>>

(* scanning: an entry whose end time plus 30 minutes is Before(now) is     *)
(* removed with RemoveBanMiner; the loop moves on either way.              *)
SweepCheck ==
    /\ sweep # NoBan
    /\ IF sweepSeen + SweepGrace < now
       THEN RemoveBanMiner(sweep)
       ELSE UNCHANGED banList
    /\ sweep' = NoBan
    /\ sweepSeen' = NoBan
    /\ UNCHANGED <<now, spc, judge, seen, acCnt, errCnt, banEnd, readEnd>>

Tick ==
    /\ now < MaxTime
    /\ now' = now + 1
    /\ UNCHANGED <<banList, spc, judge, seen, acCnt, errCnt, sweep,
                   sweepSeen, banEnd, readEnd>>

Next ==
    \/ Tick
    \/ SweepCheck
    \/ \E m \in Miners : SweepRead(m)
    \/ \E s \in Sessions :
          \/ StartLogin(s) \/ StartSubmit(s) \/ Disconnect(s)
          \/ JudgeBanned(s) \/ JudgeExpired(s) \/ JudgeAbusive(s)
          \/ JudgeClean(s)

(* A started JudgeMiner call finishes, and the scanning goroutine keeps    *)
(* iterating (it sleeps an hour between passes, which is a finite delay).  *)
(* Clients, and time, are not fair.                                        *)
Fairness ==
    /\ WF_vars(SweepCheck)
    /\ \A m \in Miners : WF_vars(SweepRead(m))
    /\ \A s \in Sessions :
          WF_vars(JudgeBanned(s) \/ JudgeExpired(s) \/ JudgeAbusive(s)
                  \/ JudgeClean(s))

Spec == Init /\ [][Next]_vars
FairSpec == Spec /\ Fairness

-----------------------------------------------------------------------------
(* A JudgeMiner call that ends in the session's Permit (authorizing it, or *)
(* letting the share through).                                             *)
Permits(s) == judge[s] # "idle" /\ judge'[s] = "idle" /\ spc'[s] = "on"

(* Whatever JudgeMiner calls and bans race with it, the scanning goroutine *)
(* eventually removes an entry that ended more than the grace period ago,  *)
(* unless a fresh ban has replaced it meanwhile.                           *)
StaleEntriesSwept ==
    \A m \in Miners :
        (banList[m] # NoBan /\ banList[m] + SweepGrace < now)
            ~> (banList[m] = NoBan \/ banList[m] + SweepGrace >= now)

(* A ban is respected: a JudgeMiner call that begins while its miner's     *)
(* latest ban is in force never lets the session in or its share through   *)
(* before that ban ends.  (A call that read the list before the ban was    *)
(* added is a harmless overlap and not covered.)                           *)
BanRespected ==
    [][\A s \in Sessions : Permits(s) => readEnd[s] <= now]_vars

=============================================================================
