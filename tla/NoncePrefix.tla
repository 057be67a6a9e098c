---------------------------- MODULE NoncePrefix ----------------------------
(***************************************************************************)
(* The btmc session nonce prefix (src/stratum/btmc/session.go): each      *)
(* session's SessionData carries                                          *)
(*     (serverId << serverIdOffset) | (sessionId << sessionIdOffset)      *)
(* with sessionIdOffset = serverIdOffset - ceil(log2(maxSessions)), and   *)
(* CreateJob puts it in every job as the miner's starting nonce.  Width   *)
(* is the 64-bit nonce and ServerIdOffset the shift of 60, scaled down    *)
(* together so that the server id keeps its Width - ServerIdOffset = 4    *)
(* bits.  SessionLifecycle uses these operators when it builds sessions.  *)
(***************************************************************************)
EXTENDS Integers, Bitwise

CONSTANTS
    Width,          \* bits of a nonce
    ServerIdOffset  \* serverIdOffset

(* Mutant of CeilLog2: rounding the logarithm down. *)
RECURSIVE FloorLog2(_)
FloorLog2(n) == IF n <= 1 THEN 0 ELSE 1 + FloorLog2(n \div 2)

(* uint(math.Ceil(math.Log2(float64(n)))) for n >= 1: Log2 is exact on    *)
(* powers of two, so this is the least k with 2^k >= n.                   *)
RECURSIVE CeilLog2(_)
CeilLog2(n) == IF n <= 1 THEN 0 ELSE 1 + CeilLog2((n + 1) \div 2)

(* NewBtmcSessionDataBuilder's sessionIdOffset. *)
SessionIdOffset(ms) ==
    LET o == ServerIdOffset - CeilLog2(ms)
    IN  IF o = ServerIdOffset THEN o - 1 ELSE o

(* x << k on a uint64 (the bits shifted past Width are lost). *)
ShiftLeft(x, k) == (x * 2^k) % 2^Width

(* btmcSessionDataBuilder.Build's nonce for session id i. *)
NonceOf(sid, ms, i) ==
    ShiftLeft(sid, ServerIdOffset) | ShiftLeft(i, SessionIdOffset(ms))

(* The nonces a miner holding prefix x searches: x followed by any value  *)
(* of the low sessionIdOffset bits, as the interval [x, NonceEnd).        *)
NonceEnd(x, ms) == x + 2^SessionIdOffset(ms)

(* The block of nonces that belongs to server sid among its peers. *)
BlockLo(sid) == sid * 2^ServerIdOffset
BlockHi(sid) == (sid + 1) * 2^ServerIdOffset
=============================================================================
