---------------------------- MODULE ShareSubmit ----------------------------
(***************************************************************************)
(* One authorized btmc session: the pump replacing the block template     *)
(* (updateBlockTemplate with btmcBlockTemplate.Compare), the scheduler    *)
(* issuing jobs into the job history (GetJob, CreateJob, Notify, AddJob), *)
(* and handleSubmit past its state, worker and JudgeMiner checks          *)
(* (src/stratum/btmc/handler.go), with the Verifier's verdict and the go  *)
(* Submit of a found block.  The node may be unreachable for a while     *)
(* (at most MaxOutages times): a Pull or a Submit made meanwhile fails.   *)
(*                                                                        *)
(* The history is the abstract JobWindow, which JobHistory shows the Ring *)
(* implements while one goroutine adds at a time.  A template is its      *)
(* previous-block hash: distinct templates have distinct hashes, and      *)
(* Height gives each one its height.  Jobs are numbered in the order      *)
(* CreateJob allocates them.                                              *)
(***************************************************************************)
EXTENDS Integers, FiniteSets

CONSTANTS
    Templates,      \* block templates the node may return
    Height,         \* btmcBlockTemplate.height of each template
    Nonces,         \* nonces a miner may submit for a job
    N,              \* job history capacity
    MaxJobs,        \* bound on the jobs issued
    MaxSubmits,     \* bound on the shares submitted
    MaxInstalls,    \* bound on template replacements
    MaxOutages,     \* bound on the node becoming unreachable
    NoTemplate      \* no template yet

ASSUME Height \in [Templates -> Nat]

Jobs == 1 .. MaxJobs
Shares == Jobs \X Nonces
Verdicts == {"block", "accepted", "rejected"}

VARIABLES
    tmpl,       \* ServerState.blockTemplate
    installs,   \* templates installed so far
    hist,       \* the session's job history, oldest first
    issued,     \* jobs allocated so far
    jobTmpl,    \* the template CreateJob copied into each job
    acCnt,      \* SessionCtl.MinerAcCnt
    errCnt,     \* SessionCtl.MinerErrCnt
    submits,    \* shares handled so far
    verdict,    \* Verify's result for each share once verified (Verify is
                \* a function of the job's header and the nonce)
    credits,    \* history: how often each share was counted as accepted
    found,      \* history: Block shares handed to a go Submit
    attempted,  \* history: Block shares whose Submit goroutine has run
    submitted,  \* history: Block shares the node received
    node,       \* whether the node answers RPCs
    outages     \* times the node became unreachable

vars == <<tmpl, installs, hist, issued, jobTmpl, acCnt, errCnt, submits,
          verdict, credits, found, attempted, submitted, node, outages>>

History == INSTANCE JobWindow WITH window <- hist

TypeOK ==
    /\ tmpl \in Templates \cup {NoTemplate}
    /\ installs \in 0 .. MaxInstalls
    /\ History!TypeOK
    /\ jobTmpl \in [Jobs -> Templates \cup {NoTemplate}]
    /\ acCnt \in 0 .. MaxSubmits /\ errCnt \in 0 .. MaxSubmits
    /\ submits \in 0 .. MaxSubmits
    /\ verdict \in [Shares -> Verdicts \cup {"none"}]
    /\ credits \in [Shares -> 0 .. MaxSubmits]
    /\ found \subseteq Shares /\ attempted \subseteq Shares
    /\ submitted \subseteq Shares
    /\ node \in {"up", "down"} /\ outages \in 0 .. MaxOutages

Init ==
    /\ tmpl = NoTemplate
    /\ installs = 0
    /\ hist = <<>>
    /\ issued = {}
    /\ jobTmpl = [j \in Jobs |-> NoTemplate]
    /\ acCnt = 0 /\ errCnt = 0 /\ submits = 0
    /\ verdict = [s \in Shares |-> "none"]
    /\ credits = [s \in Shares |-> 0]
    /\ found = {} /\ attempted = {} /\ submitted = {}
    /\ node = "up" /\ outages = 0

-----------------------------------------------------------------------------
(* http callImpl: the POST returns an answer only when the node is up; a  *)
(* transport error or timeout is returned to the caller as is.            *)
CallOk == node = "up"

(* BtmcClient.GetWork (CallWithMethod "get-work") and fetchBlockTemplate: *)
(* an error, an empty reply or a null header fails the Pull.              *)
GetWorkOk == CallOk

(* BtmcClient.SubmitBlock: the status is FAIL or empty ("connect_bytomd") *)
(* when the node cannot be reached; otherwise the data is returned.       *)
SubmitBlockOk == node = "up"

-----------------------------------------------------------------------------
(* btmcBlockTemplate.Compare(t) < 0: the previous-block hashes differ,    *)
(* "no matter newer or older"; a lower height is only logged.             *)
Replaces(t) == t # tmpl

(* ServerState.updateBlockTemplate: install when there is no template or  *)
(* Compare says the new one differs.                                      *)
UpdateBlockTemplate(t) ==
    /\ tmpl = NoTemplate \/ Replaces(t)
    /\ tmpl' = t

(* broadcastBt: Pull returned t and updateBlockTemplate installed it; the *)
(* broadcast's ClearJobs is empty and leaves the history alone.           *)
InstallTemplate(t) ==
    /\ installs < MaxInstalls
    /\ GetWorkOk
    /\ UpdateBlockTemplate(t)
    /\ installs' = installs + 1
    /\ UNCHANGED <<hist, issued, jobTmpl, acCnt, errCnt, submits, verdict,
                   credits, found, attempted, submitted,
                   node, outages>>

(* btmcBlockTemplate.CreateJob: job j copies the current template's      *)
(* header fields (its height and previous-block hash); AllocJobId's       *)
(* random 64-bit id is abstracted to j.                                   *)
CreateJob(j) == jobTmpl' = [jobTmpl EXCEPT ![j] = tmpl]

(* scheduleJobs (or the login reply): GetJob's CreateJob copies the       *)
(* current template into a new job, Notify sends it, AddJob records it.   *)
IssueJob ==
    /\ tmpl # NoTemplate
    /\ Cardinality(issued) < MaxJobs
    /\ LET j == Cardinality(issued) + 1
       IN /\ History!Add(j)
          /\ CreateJob(j)
    /\ UNCHANGED <<tmpl, installs, acCnt, errCnt, submits, verdict, credits,
                   found, attempted, submitted,
                   node, outages>>

(* A handleSubmit call that ends in an error reply and MinerErrCnt++.     *)
ChargeError ==
    /\ errCnt' = errCnt + 1
    /\ submits' = submits + 1
    /\ UNCHANGED <<tmpl, installs, hist, issued, jobTmpl, acCnt, verdict,
                   credits, found, attempted, submitted,
                   node, outages>>

Submitting == submits < MaxSubmits

(* GetBlockTemplate's height, read by the stale check. *)
CurrentHeight == Height[tmpl]

(* StringToJobId fails: ErrorFormatSubmit. *)
SubmitBadJobId == Submitting /\ ChargeError

(* FindJob returns nil: ErrorJobNotFound. *)
SubmitJobNotFound(j) ==
    /\ Submitting
    /\ ~History!Findable(j)
    /\ ChargeError

(* The nonce fails ^[0-9a-f]{1,16}$ or ParseUint: ErrorFormatSubmit. *)
SubmitBadNonce(j) ==
    /\ Submitting
    /\ History!Findable(j)
    /\ ChargeError

(* Mutant of SubmitStale: the stale branch forgets MinerErrCnt++. *)
SubmitStaleUncounted(j) ==
    /\ Submitting
    /\ History!Findable(j)
    /\ Height[jobTmpl[j]] # CurrentHeight
    /\ submits' = submits + 1
    /\ UNCHANGED <<tmpl, installs, hist, issued, jobTmpl, acCnt, errCnt,
                   verdict, credits, found, attempted, submitted,
                   node, outages>>

(* The job's height differs from the current template's: stale share. *)
SubmitStale(j) ==
    /\ Submitting
    /\ History!Findable(j)
    /\ Height[jobTmpl[j]] # CurrentHeight
    /\ ChargeError

(* btmcVerifier.Verify hashes the header built from the job and nonce;    *)
(* the first verification of a share fixes its verdict.                   *)
Verified(s, v) ==
    /\ verdict[s] \in {"none", v}
    /\ verdict' = [verdict EXCEPT ![s] = v]

(* Past the stale check: Verify, then by the share's state Accepted       *)
(* (MinerAcCnt++, OK), Block (MinerAcCnt++, go Submit, OK) or Rejected    *)
(* (MinerErrCnt++, error reply).                                          *)
SubmitVerified(j, n) ==
    /\ Submitting
    /\ History!Findable(j)
    /\ Height[jobTmpl[j]] = CurrentHeight
    /\ submits' = submits + 1
    /\ \E v \in Verdicts :
          /\ Verified(<<j, n>>, v)
          /\ IF v = "rejected"
             THEN /\ errCnt' = errCnt + 1
                  /\ UNCHANGED <<acCnt, credits, found>>
             ELSE /\ acCnt' = acCnt + 1
                  /\ credits' = [credits EXCEPT ![<<j, n>>] = @ + 1]
                  /\ found' = IF v = "block" THEN found \cup {<<j, n>>} ELSE found
                  /\ UNCHANGED errCnt
    /\ UNCHANGED <<tmpl, installs, hist, issued, jobTmpl, attempted, submitted,
                   node, outages>>

(* The go Submit goroutine runs once: btmcNodeSyncer.Submit posts the    *)
(* block header; an RPC error or a rejected block is only logged, and    *)
(* nothing submits the block again.                                       *)
NodeSubmit(s) ==
    /\ s \in found \ attempted
    /\ attempted' = attempted \cup {s}
    /\ submitted' = IF SubmitBlockOk THEN submitted \cup {s} ELSE submitted
    /\ UNCHANGED <<tmpl, installs, hist, issued, jobTmpl, acCnt, errCnt,
                   submits, verdict, credits, found, node, outages>>

(* The node stops answering (restart, network failure). *)
NodeDown ==
    /\ node = "up" /\ outages < MaxOutages
    /\ node' = "down" /\ outages' = outages + 1
    /\ UNCHANGED <<tmpl, installs, hist, issued, jobTmpl, acCnt, errCnt,
                   submits, verdict, credits, found, attempted, submitted>>

(* The node is reachable again. *)
NodeUp ==
    /\ node = "down" /\ node' = "up"
    /\ UNCHANGED <<tmpl, installs, hist, issued, jobTmpl, acCnt, errCnt,
                   submits, verdict, credits, found, attempted, submitted,
                   outages>>

Next ==
    \/ \E t \in Templates : InstallTemplate(t)
    \/ IssueJob
    \/ SubmitBadJobId
    \/ \E j \in Jobs :
          \/ SubmitJobNotFound(j) \/ SubmitBadNonce(j) \/ SubmitStale(j)
          \/ \E n \in Nonces : SubmitVerified(j, n)
    \/ \E s \in Shares : NodeSubmit(s)
    \/ NodeDown \/ NodeUp

(* The go Submit goroutine runs once spawned; an outage of the node is    *)
(* transient (spec.md: upstream unavailability is treated as transient).  *)
Spec ==
    /\ Init /\ [][Next]_vars
    /\ \A s \in Shares : WF_vars(NodeSubmit(s))
    /\ WF_vars(NodeUp)

-----------------------------------------------------------------------------
(* PROPERTIES                                                              *)

(* Share accounting: every share handleSubmit handles past JudgeMiner     *)
(* moves exactly one of MinerAcCnt and MinerErrCnt, so the ban rule of    *)
(* JudgeMiner sees every submission.                                      *)
ShareAccounting == acCnt + errCnt = submits

(* Every block found is eventually received by the node, although the   *)
(* node may be unreachable for a while: a failed submit is retried once   *)
(* the node is back (spec.md: submit failures are retried).               *)
BlocksAccepted == \A s \in Shares : verdict[s] = "block" ~> s \in submitted

(* No duplicate credit: a share (job and nonce) is counted as accepted at *)
(* most once; a resubmission is a duplicate share (error code 22).        *)
NoDuplicateCredit == \A s \in Shares : credits[s] <= 1

=============================================================================
