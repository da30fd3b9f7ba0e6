----------------------------- MODULE McpSessions -----------------------------
(***************************************************************************)
(* The MCP sessions of the WoT runtime (bindings/mcp/session.ts, client.ts): *)
(* one pooled session per endpoint and credentials, opened by the first      *)
(* caller and shared, evicted by least recent use, dropped by the first      *)
(* failure of a call, which then tries once more; the description of an      *)
(* endpoint borrows a session or opens one of its own.                       *)
(***************************************************************************)
EXTENDS Naturals, FiniteSets, SequencesExt

CONSTANTS Calls, Describers, Keys, None,
          Limit,     \* MAX_SESSIONS, at least one
          MaxConns   \* connections opened in a behaviour

VARIABLES pool,      \* [key, conn] records, the least recently used first
          pending,   \* key -> the connect under way: None, or its conn and the conn it evicts
          conns,     \* conn -> unused, open, dead (the server forgot it), closed
          call       \* call or description -> where it is

vars == <<pool, pending, conns, call>>

Callers == Calls \cup Describers
Conns == 1..MaxConns
IsNext(n) == conns[n] = "unused" /\ \A m \in 1..(n - 1) : conns[m] # "unused"

Pooled == {pool[i] : i \in DOMAIN pool}
Entry(k) == CHOOSE e \in Pooled : e.key = k
InPool(k) == \E e \in Pooled : e.key = k
Without(entries, k) == SelectSeq(entries, LAMBDA e : e.key # k)
Touched(k) == Append(Without(pool, k), Entry(k))

Connecting == [conn |-> None, victim |-> None]

Move(c, change) == call' = [call EXCEPT ![c] = change @@ @]

(* Everyone who awaits the connect of a key goes on with its outcome.      *)
Resume(k, change) ==
    call' = [c \in Callers |-> IF call[c].stage = "wait" /\ call[c].key = k
                               THEN change @@ call[c] ELSE call[c]]

-----------------------------------------------------------------------------
Arrive(c) ==
    /\ call[c].stage = "new"
    /\ \E k \in Keys : Move(c, [stage |-> "get", key |-> k])
    /\ UNCHANGED <<pool, pending, conns>>

(* getSession: a pooled session, else the connect under way, else a new one. *)
GetSession(c) ==
    /\ call[c].stage = "get" /\ c \in Calls
    /\ LET k == call[c].key
       IN  IF InPool(k)
           THEN /\ pool' = Touched(k)
                /\ Move(c, [stage |-> "use", conn |-> Entry(k).conn])
                /\ UNCHANGED <<pending, conns>>
           ELSE /\ pending' = IF pending[k] = None THEN [pending EXCEPT ![k] = Connecting] ELSE pending
                /\ Move(c, [stage |-> "wait"])
                /\ UNCHANGED <<pool, conns>>

(* The handshake is done: the session is pooled, and the oldest one over    *)
(* the limit leaves the pool before it is closed.                           *)
Connected(k) ==
    /\ pending[k] = Connecting
    /\ \E n \in Conns :
          /\ IsNext(n)
          /\ conns' = [conns EXCEPT ![n] = "open"]
          /\ LET filled == Append(Without(pool, k), [key |-> k, conn |-> n])
                 over == Len(filled) > Limit
             IN  /\ pool' = IF over THEN Tail(filled) ELSE filled
                 /\ pending' = [pending EXCEPT ![k] =
                        IF over THEN [conn |-> n, victim |-> Head(filled).conn] ELSE None]
                 /\ IF over THEN UNCHANGED call ELSE Resume(k, [stage |-> "use", conn |-> n])

(* Only when the evicted session is closed do the callers get theirs.      *)
Evicted(k) ==
    /\ pending[k] \notin {None, Connecting}
    /\ conns' = [conns EXCEPT ![pending[k].victim] = "closed"]
    /\ pending' = [pending EXCEPT ![k] = None]
    /\ Resume(k, [stage |-> "use", conn |-> pending[k].conn])
    /\ UNCHANGED pool

Refused(k) ==
    /\ pending[k] = Connecting
    /\ pending' = [pending EXCEPT ![k] = None]
    /\ Resume(k, [stage |-> "failed"])
    /\ UNCHANGED <<pool, conns>>

-----------------------------------------------------------------------------
(* The call on its session; a time-out or a broken connection may hide that *)
(* the tool ran.                                                            *)
Succeed(c) ==
    /\ call[c].stage = "use" /\ c \in Calls
    /\ conns[call[c].conn] = "open"
    /\ Move(c, [stage |-> "ok", ran |-> call[c].ran + 1])
    /\ UNCHANGED <<pool, pending, conns>>

(* The first failure drops the session its key has by now, the second one   *)
(* is the caller's.                                                         *)
Fail(c) ==
    /\ call[c].stage = "use" /\ c \in Calls
    /\ \E ran \in IF conns[call[c].conn] = "open" THEN {0, 1} ELSE {0} :
          LET k == call[c].key
              failed == [ran |-> call[c].ran + ran, tried |-> Append(call[c].tried, call[c].conn)]
          IN  IF Len(call[c].tried) = 1
              THEN Move(c, failed @@ [stage |-> "failed"]) /\ UNCHANGED pool
              ELSE IF InPool(k)
              THEN /\ pool' = Without(pool, k)
                   /\ Move(c, failed @@ [stage |-> "drop", conn |-> Entry(k).conn])
              ELSE Move(c, failed @@ [stage |-> "get"]) /\ UNCHANGED pool
    /\ UNCHANGED <<pending, conns>>

Dropped(c) ==
    /\ call[c].stage = "drop"
    /\ conns' = [conns EXCEPT ![call[c].conn] = "closed"]
    /\ Move(c, [stage |-> "get"])
    /\ UNCHANGED <<pool, pending>>

(* The server forgets a session, or the connection breaks.                 *)
Forget(n) ==
    /\ conns[n] = "open"
    /\ conns' = [conns EXCEPT ![n] = "dead"]
    /\ UNCHANGED <<pool, pending, call>>

-----------------------------------------------------------------------------
(* A description (withDescriptionSession).                                  *)

Borrow(d) ==
    /\ call[d].stage = "get" /\ d \in Describers
    /\ LET k == call[d].key
       IN  IF InPool(k)
           THEN pool' = Touched(k) /\ Move(d, [stage |-> "use", conn |-> Entry(k).conn])
           ELSE /\ Move(d, [stage |-> IF pending[k] = None THEN "open" ELSE "wait"])
                /\ UNCHANGED pool
    /\ UNCHANGED <<pending, conns>>

OpenOwn(d) ==
    /\ call[d].stage = "open"
    /\ \/ \E n \in Conns :
             /\ IsNext(n)
             /\ conns' = [conns EXCEPT ![n] = "open"]
             /\ Move(d, [stage |-> "use", conn |-> n, own |-> TRUE])
       \/ Move(d, [stage |-> "failed"]) /\ UNCHANGED conns
    /\ UNCHANGED <<pool, pending>>

Describe(d) ==
    /\ call[d].stage = "use" /\ d \in Describers
    /\ \E outcome \in {"ok", "failed"} :
          /\ outcome = "ok" => conns[call[d].conn] = "open"
          /\ Move(d, [stage |-> outcome])
    /\ conns' = IF call[d].own THEN [conns EXCEPT ![call[d].conn] = "closed"] ELSE conns
    /\ UNCHANGED <<pool, pending>>

-----------------------------------------------------------------------------
McpInit ==
    /\ pool = <<>>
    /\ pending = [k \in Keys |-> None]
    /\ conns = [n \in Conns |-> "unused"]
    /\ call = [c \in Callers |-> [stage |-> "new", key |-> None, conn |-> None,
                                  tried |-> <<>>, ran |-> 0, own |-> FALSE]]

Ended == \A c \in Callers : call[c].stage \in {"ok", "failed"}

McpNext ==
    \/ \E c \in Callers : Arrive(c)
    \/ \E c \in Calls : GetSession(c) \/ Succeed(c) \/ Fail(c) \/ Dropped(c)
    \/ \E k \in Keys : Connected(k) \/ Evicted(k) \/ Refused(k)
    \/ \E n \in Conns : Forget(n)
    \/ \E d \in Describers : Borrow(d) \/ OpenOwn(d) \/ Describe(d)

-----------------------------------------------------------------------------
(* The pool keeps its bound at every await, with one session per key        *)
(* (session.ts:68-83).                                                      *)
PoolBounded == Len(pool) <= Limit /\ \A e, f \in Pooled : e.key = f.key => e = f

(* Every session that is open is in the pool, belongs to a description, or  *)
(* is being closed: none is left behind by callers that overtake each other. *)
NoSessionLeaks ==
    \A n \in Conns : conns[n] \in {"open", "dead"} =>
       \/ \E e \in Pooled : e.conn = n
       \/ \E d \in Describers : call[d].own /\ call[d].stage = "use" /\ call[d].conn = n
       \/ \E k \in Keys : pending[k] # None /\ pending[k].victim = n
       \/ \E c \in Calls : call[c].stage = "drop" /\ call[c].conn = n

(* What is pooled was not closed by its owner: only the server may be gone. *)
PoolUsable == \A e \in Pooled : conns[e.conn] \in {"open", "dead"}

(* A call runs its tool twice at most, and fails for good on two sessions,  *)
(* except that it may be handed the dropped one again while that session's  *)
(* connect still waits for an eviction (session.ts:161, 176).               *)
RetriedOnce ==
    \A c \in Calls :
       /\ call[c].ran <= 2 /\ (call[c].ran = 2 => Len(call[c].tried) >= 1)
       /\ Len(call[c].tried) <= 2
       /\ call[c].stage = "get" /\ Len(call[c].tried) = 1 /\ InPool(call[c].key) =>
             Entry(call[c].key).conn # call[c].tried[1]

McpSound == PoolBounded /\ NoSessionLeaks /\ PoolUsable /\ RetriedOnce
=============================================================================
