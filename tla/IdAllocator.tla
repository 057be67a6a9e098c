---------------------------- MODULE IdAllocator ----------------------------
(***************************************************************************)
(* What sessionIdManager promises its callers (src/stratum/sessionid.go): *)
(* an id is handed to at most one holder at a time, a holder gets at most *)
(* one id, and only the holder gives an id back.  Which free id getId     *)
(* picks (FIFO free list first, then the counter) is left open here.      *)
(***************************************************************************)
CONSTANTS
    Clients,    \* the callers of getId
    Ids,        \* 0 .. maxNumSessions - 1
    NoClient    \* an id nobody holds

VARIABLE owner  \* owner[i]: the client holding id i, or NoClient

TypeOK == owner \in [Ids -> Clients \cup {NoClient}]

Init == owner = [i \in Ids |-> NoClient]

(* getId: an id nobody holds goes to a client that holds none. *)
Acquire(c, i) ==
    /\ owner[i] = NoClient
    /\ \A k \in Ids : owner[k] # c
    /\ owner' = [owner EXCEPT ![i] = c]

(* recycle: the holder gives its id back. *)
Release(c, i) ==
    /\ owner[i] = c
    /\ owner' = [owner EXCEPT ![i] = NoClient]

Next == \E c \in Clients, i \in Ids : Acquire(c, i) \/ Release(c, i)

Spec == Init /\ [][Next]_owner
=============================================================================
