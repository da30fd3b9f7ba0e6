--------------------------- MODULE RawSubscriptions ---------------------------
(***************************************************************************)
(* The subscriptions of external agents (agent_api/subscriptions.py): a     *)
(* handle with a lease of an hour for a subscription of the WoT runtime,    *)
(* made and removed by the raw tasks of a context, renewed by polling, and  *)
(* swept once the lease has lapsed or the key of its owner was revoked.     *)
(*                                                                          *)
(* Calls hold the lock of their context across the runtime's answers; what  *)
(* they do to the database runs in threads, which go on when the call that  *)
(* waits for them is cancelled.  One affordance is subscribed to in each    *)
(* context, and the runtime keeps one subscription of a namespace to it.    *)
(***************************************************************************)
EXTENDS Naturals, Sequences, FiniteSets

CONSTANTS
    Contexts,       \* the raw contexts, each of one key
    Tasks,          \* the calls of raw tasks
    Polls,          \* the long polls
    Sweeper,
    None,
    MaxIds,         \* bounds: subscriptions, and handles, ever made
    MaxEvents,      \*         events published
    MaxClock,       \*         hours that pass
    MaxFaults       \*         failures, cancellations, revocations, restarts

VARIABLES
    clock,          \* in leases
    rows,           \* the handles: context, runtime's id, when the lease lapses
    subs,           \* the runtime's subscriptions, with the context of their namespace
    made,           \* the ids used so far
    stream,         \* the runtime's stream: the subscription each event is of
    authorized,     \* the contexts whose key may invoke agents
    lock,           \* who holds the lock of a context
    call,           \* where each call is
    late,           \* threads of cancelled calls
    sweep,          \* where the sweep is
    cut,            \* contexts in which a call was cut short after the runtime had subscribed
    ended,          \* how long the stream was when a handle ended
    faults,
    misled          \* a poll has handed out what it should not have

env == <<clock, stream, authorized>>
store == <<rows, ended>>
runtime == <<subs, made>>
history == <<cut, misled>>
vars == <<env, store, runtime, history, lock, call, late, sweep, faults>>

OnlySweepAndLock == UNCHANGED <<env, store, runtime, history, call, late, faults>>
OnlySweep == OnlySweepAndLock /\ UNCHANGED lock
OnlyCallAndLock == UNCHANGED <<env, store, runtime, history, late, sweep, faults>>
OnlyCall == OnlyCallAndLock /\ UNCHANGED lock

Handles == 1..MaxIds

Call(kind, ctx, handle, cursor) ==
    [pc |-> "lock", kind |-> kind, ctx |-> ctx, handle |-> handle, rt |-> None,
     cursor |-> cursor, from |-> cursor, event |-> None, found |-> None]
Idle == Call("none", None, None, None)
AtRest(p) == call[p].kind = "none"
At(p, pc) == ~AtRest(p) /\ call[p].pc = pc
Goes(p, c) == call' = [call EXCEPT ![p] = c]
Continues(p, pc) == Goes(p, [call[p] EXCEPT !.pc = pc])

Swept == [pc |-> "idle", todo |-> {}, handle |-> None, ctx |-> None, known |-> TRUE, rt |-> None]

Free(ctx) == lock' = [lock EXCEPT ![ctx] = None]
Ends(p) == Goes(p, Idle)

Fault == faults < MaxFaults /\ faults' = faults + 1

Live(row) == row.until > clock

(* A row found under its handle and its context, not expired.              *)
Owned(c) == c.handle \in DOMAIN rows /\ rows[c.handle].ctx = c.ctx /\ Live(rows[c.handle])

Without(f, x) == [y \in DOMAIN f \ {x} |-> f[y]]
Forget(h) ==
    /\ rows' = Without(rows, h)
    /\ ended' = IF h \in DOMAIN rows /\ ended[h] = None
                THEN [ended EXCEPT ![h] = Len(stream)] ELSE ended

Init ==
    /\ clock = 0 /\ rows = <<>> /\ subs = <<>> /\ made = [handle |-> 0, rt |-> 0] /\ stream = <<>>
    /\ authorized = Contexts
    /\ lock = [c \in Contexts |-> None]
    /\ call = [p \in Tasks \cup Polls |-> Idle] /\ late = {}
    /\ sweep = Swept
    /\ cut = {} /\ ended = [h \in Handles |-> None] /\ faults = 0 /\ misled = FALSE

-----------------------------------------------------------------------------
(* Calls.  A context has one task at work at a time.                        *)

\* Bound: a call at work may yet make a subscription and a handle, a thread a handle.
AtWork == Cardinality({t \in Tasks : ~AtRest(t)})
MayMake == made.rt + AtWork < MaxIds /\ made.handle + AtWork + Cardinality(late) < MaxIds

BeginTask(t, c, kind, h) ==
    /\ AtRest(t) /\ c \in authorized
    /\ kind = "subscribe" => MayMake
    /\ \A u \in Tasks : call[u].ctx = c => AtRest(u)
    /\ kind = "remove" <=> h # None
    /\ Goes(t, Call(kind, c, h, None))
    /\ OnlyCall

BeginPoll(p, c, h, cursor) ==
    /\ AtRest(p) /\ c \in authorized
    /\ Goes(p, Call("poll", c, h, cursor))
    /\ OnlyCall

Enter(p) ==
    /\ At(p, "lock") /\ lock[call[p].ctx] = None
    /\ lock' = [lock EXCEPT ![call[p].ctx] = p]
    /\ Continues(p, IF call[p].kind = "subscribe" THEN "tail" ELSE "owned")
    /\ OnlyCallAndLock

-----------------------------------------------------------------------------
(* Subscribing: where the stream ends, then the runtime, then the row.      *)

ReadTail(t) ==
    /\ At(t, "tail")
    /\ Goes(t, [call[t] EXCEPT !.cursor = Len(stream), !.pc = "subscribe"])
    /\ OnlyCall

(* The subscription the runtime has for the namespace, or a new one.        *)
Subscribed(ctx, rt) ==
    \/ rt \in DOMAIN subs /\ subs[rt] = ctx /\ UNCHANGED runtime
    \/ /\ \A r \in DOMAIN subs : subs[r] # ctx
       /\ rt = made.rt + 1 /\ rt <= MaxIds
       /\ subs' = [r \in DOMAIN subs \cup {rt} |-> IF r = rt THEN ctx ELSE subs[r]]
       /\ made' = [made EXCEPT !.rt = rt]

Subscribe(t) ==
    /\ At(t, "subscribe")
    /\ \E rt \in 1..MaxIds :
          /\ Subscribed(call[t].ctx, rt)
          /\ Goes(t, [call[t] EXCEPT !.rt = rt, !.from = Len(stream), !.pc = "seek"])
    /\ UNCHANGED <<env, store, history, lock, late, sweep, faults>>

\* No answer, or one after the caller's time is up.
SubscribeFails(t) ==
    /\ At(t, "subscribe") /\ Fault /\ Free(call[t].ctx) /\ Ends(t)
    /\ \/ UNCHANGED <<runtime, cut>>
       \/ (\E rt \in 1..MaxIds : Subscribed(call[t].ctx, rt)) /\ cut' = cut \cup {call[t].ctx}
    /\ UNCHANGED <<env, store, late, sweep, misled>>

(* The row of the runtime's id is looked for and stored by one transaction, *)
(* which locks nothing in between.                                          *)
Sought(c) ==
    LET same == {h \in DOMAIN rows : rows[h].ctx = c.ctx /\ rows[h].rt = c.rt}
    IN  {[c EXCEPT !.found = h, !.pc = "store"] : h \in IF same = {} THEN {None} ELSE same}

Renewed(h) ==
    /\ rows' = [rows EXCEPT ![h].until = clock + 1]
    /\ ended' = [ended EXCEPT ![h] = IF rows[h].ctx \in authorized THEN None ELSE @]
Inserted(c, h) ==
    /\ h = made.handle + 1 /\ h <= MaxIds
    /\ rows' = [g \in DOMAIN rows \cup {h} |->
                  IF g = h THEN [ctx |-> c.ctx, rt |-> c.rt, until |-> clock + 1] ELSE rows[g]]
    /\ made' = [made EXCEPT !.handle = h] /\ UNCHANGED ended
Stored(c, h) ==
    \/ c.found = None /\ Inserted(c, h)
    \/ h = c.found /\ h \in DOMAIN rows /\ Renewed(h) /\ UNCHANGED made
LostRow(c) == c.found # None /\ c.found \notin DOMAIN rows

Seek(t) ==
    /\ At(t, "seek")
    /\ \E c \in Sought(call[t]) : Goes(t, c)
    /\ OnlyCall

Remember(t) ==
    /\ At(t, "store") /\ Free(call[t].ctx)
    /\ \/ \E h \in Handles :
             Stored(call[t], h)
       \/ LostRow(call[t]) /\ UNCHANGED <<store, made>>
    /\ Ends(t)
    /\ UNCHANGED <<env, history, subs, late, sweep, faults>>

-----------------------------------------------------------------------------
(* Removing and polling.                                                    *)

NotOwned(p) ==
    /\ At(p, "owned") /\ ~Owned(call[p]) /\ Free(call[p].ctx) /\ Ends(p)
    /\ OnlyCallAndLock

FindToRemove(t) ==
    /\ At(t, "owned") /\ call[t].kind = "remove" /\ Owned(call[t])
    /\ Goes(t, [call[t] EXCEPT !.rt = rows[call[t].handle].rt, !.pc = "remove"])
    /\ OnlyCall

\* The runtime forgets the subscription before it stops it.
RemoveAtRuntime(t) ==
    /\ At(t, "remove")
    /\ subs' = Without(subs, call[t].rt) /\ Continues(t, "forget")
    /\ UNCHANGED <<env, store, history, made, lock, late, sweep, faults>>

RuntimeFails(p) ==
    /\ \/ At(p, "remove") /\ subs' \in {subs, Without(subs, call[p].rt)}
       \/ At(p, "status") /\ UNCHANGED subs
    /\ Fault /\ Free(call[p].ctx) /\ Ends(p)
    /\ UNCHANGED <<env, store, history, made, late, sweep>>

ForgetRow(p) ==
    /\ At(p, "forget") /\ Forget(call[p].handle) /\ Free(call[p].ctx)
    /\ Ends(p)
    /\ UNCHANGED <<env, history, runtime, late, sweep, faults>>

RenewLease(p) ==
    /\ At(p, "owned") /\ call[p].kind = "poll" /\ Owned(call[p])
    /\ Goes(p, [call[p] EXCEPT !.rt = rows[call[p].handle].rt, !.pc = "status"])
    /\ Renewed(call[p].handle)
    /\ UNCHANGED <<env, history, runtime, lock, late, sweep, faults>>

AskStatus(p) ==
    /\ At(p, "status")
    /\ IF call[p].rt \in DOMAIN subs
       THEN /\ Free(call[p].ctx)
            /\ LET at == IF call[p].cursor = None THEN Len(stream) ELSE call[p].cursor
               IN  Goes(p, [call[p] EXCEPT !.cursor = at, !.from = at, !.pc = "read"])
       ELSE Continues(p, "forget") /\ UNCHANGED lock
    /\ OnlyCallAndLock

(* Entry by entry, up to one of this subscription or the end of the time.   *)
ReadEntry(p) ==
    /\ At(p, "read") /\ call[p].cursor < Len(stream)
    /\ LET i == call[p].cursor + 1
       IN  Goes(p, IF stream[i] = call[p].rt
                   THEN [call[p] EXCEPT !.cursor = i, !.event = i, !.pc = "again"]
                   ELSE [call[p] EXCEPT !.cursor = i])
    /\ OnlyCall

ReadTimesOut(p) ==
    /\ At(p, "read") /\ Continues(p, "again")
    /\ OnlyCall

CheckAgain(p) ==
    /\ At(p, "again")
    /\ IF Owned(call[p]) THEN Continues(p, "principal") ELSE Ends(p)
    /\ OnlyCall

(* What a poll may hand out: nothing was skipped, the event is of its own   *)
(* subscription and not from after the end of the handle.                   *)
Rightly(c) ==
    /\ \A i \in (c.from + 1)..c.cursor : stream[i] = c.rt => i = c.event
    /\ c.event # None => /\ stream[c.event] = c.rt
                         /\ ended[c.handle] # None => c.event <= ended[c.handle]

CheckPrincipal(p) ==
    /\ At(p, "principal")
    /\ Ends(p)
    /\ misled' = (misled \/ (call[p].ctx \in authorized /\ ~Rightly(call[p])))
    /\ UNCHANGED <<env, store, runtime, lock, late, sweep, cut, faults>>

-----------------------------------------------------------------------------
(* Cancellation: the lock is released at once, a thread is left to itself;  *)
(* what the runtime makes of a request is as when it fails.                 *)

InThread(p) == \E pc \in {"seek", "store", "forget"} : At(p, pc)

Cancel(p) ==
    /\ ~AtRest(p) /\ Fault
    /\ LET c == call[p]
       IN  /\ lock' = IF lock[c.ctx] = p THEN [lock EXCEPT ![c.ctx] = None] ELSE lock
           /\ \/ InThread(p) /\ late' = late \cup {c}
              \/ UNCHANGED late
           /\ cut' = IF At(p, "seek") \/ At(p, "store") THEN cut \cup {c.ctx} ELSE cut
    /\ Ends(p)
    /\ UNCHANGED <<env, store, runtime, sweep, misled>>

LateSeek(c) ==
    /\ c.pc = "seek" /\ \E d \in Sought(c) : late' = (late \ {c}) \cup {d}
    /\ UNCHANGED <<env, store, history, runtime, lock, call, sweep, faults>>

LateRemember(c) ==
    /\ c.pc = "store" /\ late' = late \ {c}
    /\ (\E h \in Handles : Stored(c, h)) \/ (LostRow(c) /\ UNCHANGED <<store, made>>)
    /\ UNCHANGED <<env, history, subs, lock, call, sweep, faults>>

LateForget(c) ==
    /\ c.pc = "forget" /\ late' = late \ {c} /\ Forget(c.handle)
    /\ UNCHANGED <<env, history, runtime, lock, call, sweep, faults>>

-----------------------------------------------------------------------------
(* The sweep, over the rows as they were when it began.                     *)

SweepGoes(pc) == sweep' = [sweep EXCEPT !.pc = pc]
Rest(todo) == [Swept EXCEPT !.pc = IF todo = {} THEN "idle" ELSE "row", !.todo = todo]
\* On to the next row, out of the lock.
Leaves == sweep' = Rest(sweep.todo) /\ Free(sweep.ctx)

BeginSweep ==
    /\ sweep.pc = "idle"
    /\ sweep' = Rest({[id |-> h, ctx |-> rows[h].ctx, until |-> rows[h].until] : h \in DOMAIN rows})
    /\ OnlySweep

CheckRow(row) ==
    /\ sweep.pc = "row" /\ row \in sweep.todo
    /\ LET todo == sweep.todo \ {row}  known == row.ctx \in authorized
       IN  sweep' = IF known /\ Live(row) THEN Rest(todo)
                    ELSE [pc |-> "lock", todo |-> todo, handle |-> row.id, ctx |-> row.ctx,
                          known |-> known, rt |-> None]
    /\ OnlySweep

SweepEnters ==
    /\ sweep.pc = "lock" /\ lock[sweep.ctx] = None
    /\ lock' = [lock EXCEPT ![sweep.ctx] = Sweeper] /\ SweepGoes("reread")
    /\ OnlySweepAndLock

(* Read again under the lock: gone or renewed by now, or still lapsed.      *)
Reread ==
    /\ sweep.pc = "reread"
    /\ IF \/ sweep.handle \notin DOMAIN rows
          \/ sweep.known /\ Live(rows[sweep.handle])
       THEN Leaves
       ELSE sweep' = [sweep EXCEPT !.rt = rows[sweep.handle].rt, !.pc = "status"] /\ UNCHANGED lock
    /\ OnlySweepAndLock

SweepStatus ==
    /\ sweep.pc = "status" /\ SweepGoes(IF sweep.rt \in DOMAIN subs THEN "remove" ELSE "forget")
    /\ OnlySweep

SweepRemoves ==
    /\ sweep.pc = "remove" /\ subs' = Without(subs, sweep.rt) /\ SweepGoes("forget")
    /\ UNCHANGED <<env, store, history, made, lock, call, late, faults>>

\* The row is kept for the next attempt.
SweepFails ==
    /\ \/ sweep.pc = "status" /\ UNCHANGED subs
       \/ sweep.pc = "remove" /\ subs' \in {subs, Without(subs, sweep.rt)}
    /\ Fault /\ Leaves
    /\ UNCHANGED <<env, store, history, made, call, late>>

SweepForgets ==
    /\ sweep.pc = "forget" /\ Forget(sweep.handle) /\ Leaves
    /\ UNCHANGED <<env, history, runtime, call, late, faults>>

-----------------------------------------------------------------------------
(* What happens around them.                                                *)

Tick ==
    /\ clock < MaxClock /\ clock' = clock + 1
    /\ ended' = [h \in Handles |-> IF h \in DOMAIN rows /\ ended[h] = None /\ rows[h].until = clock'
                                  THEN Len(stream) ELSE ended[h]]
    /\ UNCHANGED <<history, runtime, rows, stream, authorized, lock, call, late, sweep, faults>>

Publish(rt) ==
    /\ rt \in DOMAIN subs /\ Len(stream) < MaxEvents /\ stream' = Append(stream, rt)
    /\ UNCHANGED <<store, history, runtime, clock, authorized, lock, call, late, sweep, faults>>

Revoke(c) ==
    /\ c \in authorized /\ Fault /\ authorized' = authorized \ {c}
    /\ ended' = [h \in Handles |-> IF h \in DOMAIN rows /\ ended[h] = None /\ rows[h].ctx = c
                                  THEN Len(stream) ELSE ended[h]]
    /\ UNCHANGED <<history, runtime, clock, rows, stream, lock, call, late, sweep>>

\* The runtime restarts, or gives up a subscription.
RuntimeLoses(rt) ==
    /\ rt \in DOMAIN subs /\ Fault /\ subs' = Without(subs, rt)
    /\ UNCHANGED <<env, store, history, made, lock, call, late, sweep>>

(* The process stops and starts: calls and locks are gone, rows are not.    *)
Restart ==
    /\ Fault
    /\ call' = [p \in Tasks \cup Polls |-> Idle] /\ late' = {} /\ sweep' = Swept
    /\ lock' = [c \in Contexts |-> None]
    /\ cut' = cut \cup {call[t].ctx : t \in {u \in Tasks : At(u, "seek") \/ At(u, "store")}}
    /\ UNCHANGED <<env, store, runtime, misled>>

-----------------------------------------------------------------------------
TaskStep(t) ==
    \/ Enter(t) \/ ReadTail(t) \/ Subscribe(t) \/ Seek(t) \/ Remember(t)
    \/ NotOwned(t) \/ FindToRemove(t) \/ RemoveAtRuntime(t) \/ ForgetRow(t)
PollStep(p) ==
    \/ Enter(p) \/ NotOwned(p) \/ RenewLease(p) \/ AskStatus(p) \/ ForgetRow(p)
    \/ ReadEntry(p) \/ ReadTimesOut(p) \/ CheckAgain(p) \/ CheckPrincipal(p)
LateStep == \E c \in late : LateSeek(c) \/ LateRemember(c) \/ LateForget(c)
SweepStep ==
    \/ BeginSweep \/ SweepEnters \/ Reread \/ SweepStatus \/ SweepRemoves \/ SweepForgets
    \/ \E row \in sweep.todo : CheckRow(row)

RawNext ==
    \/ \E t \in Tasks, c \in Contexts :
          \/ BeginTask(t, c, "subscribe", None)
          \/ \E h \in 1..made.handle : BeginTask(t, c, "remove", h)
    \/ \E p \in Polls, c \in Contexts, h \in 1..made.handle :
          \E cursor \in {None} \cup 0..Len(stream) : BeginPoll(p, c, h, cursor)
    \/ \E t \in Tasks : TaskStep(t) \/ SubscribeFails(t)
    \/ \E p \in Polls : PollStep(p)
    \/ \E p \in Tasks \cup Polls : RuntimeFails(p) \/ Cancel(p)
    \/ LateStep \/ SweepStep \/ SweepFails
    \/ Tick \/ Restart
    \/ \E rt \in 1..made.rt : Publish(rt) \/ RuntimeLoses(rt)
    \/ \E c \in Contexts : Revoke(c)

(* Every call ends, the runtime answers in the end, and the sweep comes     *)
(* round every minute.                                                      *)
RawFairness ==
    /\ \A t \in Tasks : WF_vars(TaskStep(t))
    /\ \A p \in Polls : WF_vars(PollStep(p))
    /\ WF_vars(LateStep)
    /\ SF_vars(SweepEnters) /\ WF_vars(SweepStep)

RawSpec == Init /\ [][RawNext]_vars /\ RawFairness

-----------------------------------------------------------------------------
(* Properties.                                                              *)

Sure == Contexts \ cut

(* What the sweep ends has lapsed, or belongs to a key that was revoked,    *)
(* and no other handle stands for it, unless a call was cut short.          *)
SweepSpares ==
    (sweep.pc \in {"status", "remove", "forget"} /\ sweep.ctx \in Sure /\ sweep.known) =>
        \A h \in DOMAIN rows : rows[h].rt = sweep.rt => ~Live(rows[h])

OneHandle ==
    \A g, h \in DOMAIN rows :
        rows[g].rt = rows[h].rt /\ rows[g].ctx \in Sure => g = h

(* A subscription of the runtime has a handle, or a call is about to store  *)
(* it, unless a call was cut short in between.                              *)
NoOrphan ==
    \A rt \in DOMAIN subs :
        \/ \E h \in DOMAIN rows : rows[h].rt = rt
        \/ \E t \in Tasks : call[t].rt = rt /\ (At(t, "seek") \/ At(t, "store"))
        \/ subs[rt] \in cut

(* The position a subscription returns comes before all of its events.      *)
CursorBeforeEvents ==
    \A t \in Tasks : At(t, "seek") \/ At(t, "store") => call[t].cursor <= call[t].from

(* No poll has skipped an event, or handed out one of another subscription  *)
(* or one that came after its handle had ended.                             *)
PollsRight == ~misled

RawSound == SweepSpares /\ OneHandle /\ NoOrphan /\ CursorBeforeEvents /\ PollsRight

(* A handle that lapsed, or whose owner may not call any more, goes, and so *)
(* does its subscription.                                                   *)
NoneDue == \A h \in DOMAIN rows : Live(rows[h]) /\ rows[h].ctx \in authorized
Reclaimed == []<>NoneDue
=============================================================================
