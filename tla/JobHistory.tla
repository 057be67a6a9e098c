---------------------------- MODULE JobHistory ----------------------------
(***************************************************************************)
(* A session's job history: TcpSession.AddJob and FindJob over the        *)
(* lock-free datastruct.Ring of src/common/datastruct/ring.go.  Ring.Add  *)
(* is two steps: an atomic increment of the int32 position p, then a      *)
(* Store into slot p % n; the callers of AddJob (the dispatch goroutine's *)
(* login reply and the scheduler) may interleave between them.  FindJob's *)
(* scan (Ring.Do) Loads one slot at a time; since job ids are unique, a   *)
(* scan finds a job exactly when the slot holding it is Loaded, so it is  *)
(* modelled as one read of the slots.                                     *)
(*                                                                        *)
(* Jobs are numbered in the order CreateJob allocates them (AllocJobId is *)
(* rand.Uint64; only uniqueness matters here).                            *)
(***************************************************************************)
EXTENDS Integers, FiniteSets

CONSTANTS
    N,          \* the ring's capacity (NewRing(8))
    Width,      \* the bit width of the position counter (int32)
    Adders,     \* goroutines calling AddJob on the session
    MaxAdds,    \* bound on the jobs added
    NoJob,      \* an empty slot (atomic.Value never stored)
    NoIdx       \* an adder not inside Ring.Add

ASSUME /\ N \in Nat \ {0}
       /\ Width \in Nat \ {0}
       /\ MaxAdds \in Nat

Jobs == 1 .. MaxAdds
Slots == 0 .. N - 1

VARIABLES
    slots,      \* Ring.s
    p,          \* Ring.p
    idx,        \* the slot index an adder computed and has not stored yet
    job,        \* the job that adder is storing
    added,      \* jobs allocated so far
    panicked    \* r.s[i] with i out of range: a runtime panic ends the process

vars == <<slots, p, idx, job, added, panicked>>

(* The int32 arithmetic of atomic.AddInt32: two's complement wrap-around. *)
IntMin == -(2 ^ (Width - 1))
Wrap(x) == ((x - IntMin) % (2 ^ Width)) + IntMin

(* Go's %, which truncates toward zero: the result has the sign of a. *)
GoRem(a, n) == IF a >= 0 THEN a % n ELSE -((-a) % n)

TypeOK ==
    /\ slots \in [Slots -> Jobs \cup {NoJob}]
    /\ p \in IntMin .. -IntMin - 1
    /\ idx \in [Adders -> Int \cup {NoIdx}]
    /\ job \in [Adders -> Jobs \cup {NoJob}]
    /\ added \in 0 .. MaxAdds
    /\ panicked \in BOOLEAN

Init ==
    /\ slots = [k \in Slots |-> NoJob]
    /\ p = -1
    /\ idx = [a \in Adders |-> NoIdx]
    /\ job = [a \in Adders |-> NoJob]
    /\ added = 0
    /\ panicked = FALSE

(* GetJob's CreateJob allocates a job; AddJob's Ring.Add increments p.    *)
Claim(a) ==
    /\ ~panicked
    /\ idx[a] = NoIdx
    /\ added < MaxAdds
    /\ added' = added + 1
    /\ p' = Wrap(p + 1)
    /\ idx' = [idx EXCEPT ![a] = GoRem(Wrap(p + 1), N)]
    /\ job' = [job EXCEPT ![a] = added + 1]
    /\ UNCHANGED <<slots, panicked>>

(* Mutant of Store: a slot that already holds a job is left alone. *)
StoreNoOverwrite(a) ==
    /\ ~panicked
    /\ idx[a] # NoIdx
    /\ IF idx[a] \in Slots
       THEN /\ slots' = IF slots[idx[a]] = NoJob
                        THEN [slots EXCEPT ![idx[a]] = job[a]] ELSE slots
            /\ UNCHANGED panicked
       ELSE /\ panicked' = TRUE
            /\ UNCHANGED slots
    /\ idx' = [idx EXCEPT ![a] = NoIdx]
    /\ job' = [job EXCEPT ![a] = NoJob]
    /\ UNCHANGED <<p, added>>

(* Ring.Add: r.s[p % r.n].Store(e); an index out of range panics. *)
Store(a) ==
    /\ ~panicked
    /\ idx[a] # NoIdx
    /\ IF idx[a] \in Slots
       THEN /\ slots' = [slots EXCEPT ![idx[a]] = job[a]]
            /\ UNCHANGED panicked
       ELSE /\ panicked' = TRUE
            /\ UNCHANGED slots
    /\ idx' = [idx EXCEPT ![a] = NoIdx]
    /\ job' = [job EXCEPT ![a] = NoJob]
    /\ UNCHANGED <<p, added>>

(* FindJob: Ring.Do scans the slots for the id. *)
FindJob(j) == \E k \in Slots : slots[k] = j

(* handleSubmit's FindJob on the dispatch goroutine: a read only. *)
Lookup == \E j \in Jobs : FindJob(j) /\ UNCHANGED vars

Next == Lookup \/ \E a \in Adders : Claim(a) \/ Store(a)

Spec == Init /\ [][Next]_vars

-----------------------------------------------------------------------------
(* PROPERTIES                                                              *)

(* The jobs stored so far, oldest first, as a session's history holds     *)
(* them when no Add is between its increment and its Store.                *)
StoredCount == p + 1 - Cardinality({a \in Adders : idx[a] # NoIdx})
Kept == IF StoredCount < N THEN StoredCount ELSE N
WindowOf ==
    [i \in 1 .. Kept |-> slots[(StoredCount - Kept + i - 1) % N]]

Abstract == INSTANCE JobWindow WITH window <- WindowOf, issued <- 1 .. StoredCount

(* Refinement: with one goroutine adding at a time, AddJob and FindJob    *)
(* implement the abstract window: FindJob finds exactly the last N jobs   *)
(* added, a job just added is found, and one overwritten by N later adds  *)
(* is not.                                                                *)
WindowRefined == Abstract!Spec
=============================================================================
