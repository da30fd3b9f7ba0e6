------------------------------- MODULE Panels -------------------------------
(***************************************************************************)
(* Pinned panels: apps/wotbot/src/wotbot/panels/service.py, data.py and    *)
(* router.py over the tables of panels/models.py.                          *)
(*                                                                         *)
(* A panel row holds markup and references to data snapshots; every saved  *)
(* state is appended to panel_versions; a snapshot row is temporary (it    *)
(* has an expiry) until a panel pins it (expires_at := NULL).  Each HTTP   *)
(* request is one READ COMMITTED transaction whose statements interleave   *)
(* with those of the others: the row locks and the order in which they are *)
(* taken are the code's.  A panel's title and capabilities are columns     *)
(* like its markup and are not told apart from it here.                    *)
(***************************************************************************)
EXTENDS Naturals, Sequences, FiniteSets

CONSTANTS PanelId,      \* panels, each created at most once (uuid4)
          SnapId,       \* data snapshots, numbers: locks are taken in ID order
          Html,         \* markups
          Req,          \* concurrent requests
          MaxVersions   \* bound: versions of a panel, later requests fail

VARIABLES panels,     \* table panels: a saved row, or an id unused or deleted
          versions,   \* table panel_versions: the rows of a panel, oldest first
          snaps,      \* table panel_data: what expires_at says of a row
          snapLock,   \* FOR UPDATE locks on panel_data rows
          rowLock,    \* UPDATE and DELETE locks on panels rows
          req         \* the transaction each request runs

vars == <<panels, versions, snaps, snapLock, rowLock, req>>

NoOne == "nobody"
Saved(h, d) == [state |-> "saved", html |-> h, data |-> d]
NoRow(state) == [state |-> state]
Idle == [op |-> "none", pc |-> "idle"]
SnapState == {"unborn", "temporary", "expired", "pinned", "pruned"}

Exists(p) == panels[p].state = "saved"
Stored(s) == snaps[s] \in {"temporary", "expired", "pinned"}
Least(S) == CHOOSE s \in S : \A t \in S : s <= t

(* Rows of p other transactions can see: its columns and its versions.     *)
RefsOf(p) == UNION {versions[p][i].data : i \in DOMAIN versions[p]}
             \cup (IF Exists(p) THEN panels[p].data ELSE {})
Referenced(s) == \E p \in PanelId : s \in RefsOf(p)

Init == /\ panels = [p \in PanelId |-> NoRow("unused")]
        /\ versions = [p \in PanelId |-> <<>>]
        /\ snaps = [s \in SnapId |-> "unborn"]
        /\ snapLock = [s \in SnapId |-> NoOne]
        /\ rowLock = [p \in PanelId |-> NoOne]
        /\ req = [r \in Req |-> Idle]

Goto(r, pc) == req' = [req EXCEPT ![r].pc = pc]
Freed(locks, r) == [k \in DOMAIN locks |-> IF locks[k] = r THEN NoOne ELSE locks[k]]
Held(s, r) == snapLock[s] = r

(* The end of r's transaction: its locks are released.                     *)
Release(r) == /\ snapLock' = Freed(snapLock, r)
              /\ rowLock' = Freed(rowLock, r)
              /\ req' = [req EXCEPT ![r] = Idle]

(* 404, 422 or 500: the session is rolled back.                            *)
Rollback(r) == Release(r) /\ UNCHANGED <<panels, versions, snaps>>

-----------------------------------------------------------------------------
(* Snapshots.                                                              *)

(* resolve_data: the exports a generated panel attaches become temporary   *)
(* rows, after expired rows nobody references or is pinning are removed.   *)
Prunable == {s \in SnapId : /\ snaps[s] = "expired"
                            /\ snapLock[s] = NoOne
                            /\ ~Referenced(s)}
ResolveData(s) ==
    /\ snaps[s] = "unborn"
    /\ snaps' = [t \in SnapId |-> IF t = s THEN "temporary"
                                  ELSE IF t \in Prunable THEN "pruned" ELSE snaps[t]]
    /\ UNCHANGED <<panels, versions, snapLock, rowLock, req>>

(* expires_at passes.                                                      *)
Expire(s) == /\ snaps[s] = "temporary"
             /\ snaps' = [snaps EXCEPT ![s] = "expired"]
             /\ UNCHANGED <<panels, versions, snapLock, rowLock, req>>

(* load_data(retain=True), one row of SELECT ... ORDER BY id FOR UPDATE; a *)
(* row that is gone is not locked.                                         *)
LockSnapshot(r) ==
    /\ req[r].pc = "retain"
    /\ req[r].todo # {}
    /\ LET s == Least(req[r].todo)
       IN /\ snapLock[s] = NoOne \/ ~Stored(s)
          /\ snapLock' = [snapLock EXCEPT ![s] = IF Stored(s) THEN r ELSE @]
          /\ req' = [req EXCEPT ![r].todo = @ \ {s}]
    /\ UNCHANGED <<panels, versions, snaps, rowLock>>

(* The rest of load_data: every row must be there and not have expired.    *)
Retainable(r) ==
    \A s \in req[r].retain : Held(s, r) /\ snaps[s] \in {"temporary", "pinned"}

Unchanged(r) == req[r].op = "update" /\ req[r].next = req[r].seen

RetainData(r) ==
    /\ req[r].pc = "retain"
    /\ req[r].todo = {}
    /\ IF Retainable(r) /\ ~Unchanged(r)
       THEN /\ Goto(r, "save")
            /\ UNCHANGED <<panels, versions, snaps, snapLock, rowLock>>
       ELSE Rollback(r)

-----------------------------------------------------------------------------
(* The requests.                                                           *)

(* POST /panels: the snapshots are locked, then row and version 1 appear   *)
(* with the commit.                                                        *)
CreatePanel(r, h, d) ==
    /\ req[r] = Idle
    /\ \E p \in PanelId : panels[p].state = "unused"
    /\ req' = [req EXCEPT ![r] = [op |-> "create", pc |-> "retain",
                                  next |-> Saved(h, d),
                                  retain |-> d, todo |-> d]]
    /\ UNCHANGED <<panels, versions, snaps, snapLock, rowLock>>

(* PATCH /panels/{id}: the row is read without a lock; data = NULL keeps   *)
(* the references read and does not lock their snapshots.                  *)
UpdatePanel(r, p, h, d, given) ==
    /\ req[r] = Idle
    /\ Exists(p)
    /\ given \/ d = panels[p].data
    /\ req' = [req EXCEPT ![r] = [op |-> "update", pc |-> "retain", panel |-> p,
                                  seen |-> panels[p],
                                  next |-> Saved(h, d),
                                  retain |-> IF given THEN d ELSE {},
                                  todo |-> IF given THEN d ELSE {}]]
    /\ UNCHANGED <<panels, versions, snaps, snapLock, rowLock>>

(* POST /panels/{id}/edit: the row is read, then the agent works on it for *)
(* minutes; update_panel gets the row from the session, as it was read.    *)
EditPanel(r, p) ==
    /\ req[r] = Idle
    /\ Exists(p)
    /\ req' = [req EXCEPT ![r] = [op |-> "update", pc |-> "agent", panel |-> p,
                                  seen |-> panels[p], next |-> panels[p],
                                  retain |-> {}, todo |-> {}]]
    /\ UNCHANGED <<panels, versions, snaps, snapLock, rowLock>>

AgentAnswers(r, h, d) ==
    /\ req[r].pc = "agent"
    /\ req' = [req EXCEPT ![r].pc = "retain", ![r].next = Saved(h, d),
                          ![r].retain = d, ![r].todo = d]
    /\ UNCHANGED <<panels, versions, snaps, snapLock, rowLock>>

AgentFails(r) == req[r].pc = "agent" /\ Rollback(r)

(* POST .../restore: changed columns other than data are set before        *)
(* _retain_data queries, whose autoflush updates and locks the panel row   *)
(* first; when only data differs the snapshots are locked first.           *)
RestoreVersion(r, p, i) ==
    /\ req[r] = Idle
    /\ Exists(p)
    /\ i \in DOMAIN versions[p]
    /\ LET v == Saved(versions[p][i].html, versions[p][i].data)
       IN /\ v # panels[p]
          /\ req' = [req EXCEPT ![r] =
                       [op |-> "restore", panel |-> p, seen |-> panels[p], next |-> v,
                        pc |-> IF v.html # panels[p].html THEN "flush" ELSE "retain",
                        retain |-> v.data, todo |-> v.data]]
    /\ UNCHANGED <<panels, versions, snaps, snapLock, rowLock>>

FlushRestore(r) ==
    /\ req[r].pc = "flush"
    /\ rowLock[req[r].panel] = NoOne
    /\ IF Exists(req[r].panel)
       THEN /\ rowLock' = [rowLock EXCEPT ![req[r].panel] = r]
            /\ Goto(r, "retain")
            /\ UNCHANGED <<panels, versions, snaps, snapLock>>
       ELSE Rollback(r)

(* Only columns that differ from the row read are written.                 *)
Changed(r) == LET q == req[r]  row == panels[q.panel]
              IN Saved(IF q.next.html # q.seen.html THEN q.next.html ELSE row.html,
                       IF q.next.data # q.seen.data THEN q.next.data ELSE row.data)

NextNumber(p) == Len(versions[p]) + 1

(* _append_version copies the session's object, not the row.               *)
Version(r, p) == [number |-> NextNumber(p), html |-> req[r].next.html,
                  data |-> req[r].next.data]

Pin(S) == snaps' = [s \in SnapId |-> IF s \in S THEN "pinned" ELSE snaps[s]]

(* The row a request saves: a new one, or the one it waited to write.      *)
Target(r, p) == IF req[r].op = "create"
                THEN panels[p].state = "unused"
                ELSE p = req[r].panel /\ rowLock[p] \in {NoOne, r}

(* The flush, which waits for the row's lock and fails when the row is     *)
(* gone, the version and the commit.                                       *)
SavePanel(r) ==
    /\ req[r].pc = "save"
    /\ \E p \in PanelId :
         /\ Target(r, p)
         /\ IF panels[p].state = "deleted" \/ Len(versions[p]) = MaxVersions
            THEN Rollback(r)
            ELSE /\ panels' = [panels EXCEPT ![p] = IF req[r].op = "create"
                                                    THEN req[r].next ELSE Changed(r)]
                 /\ versions' = [versions EXCEPT ![p] = Append(@, Version(r, p))]
                 /\ Pin(req[r].retain)
                 /\ Release(r)

(* DELETE /panels/{id}: the references of the panel and of its versions    *)
(* are read, then the row is deleted, its versions with it.                *)
DeletePanel(r, p) ==
    /\ req[r] = Idle
    /\ Exists(p)
    /\ req' = [req EXCEPT ![r] = [op |-> "delete", pc |-> "delete", panel |-> p,
                                  candidates |-> RefsOf(p)]]
    /\ UNCHANGED <<panels, versions, snaps, snapLock, rowLock>>

DeleteRow(r) ==
    /\ req[r].pc = "delete"
    /\ rowLock[req[r].panel] = NoOne
    /\ rowLock' = [rowLock EXCEPT ![req[r].panel] = r]
    /\ Goto(r, "prune")
    /\ UNCHANGED <<panels, versions, snaps, snapLock>>

(* prune_data(candidates): SELECT ... FOR UPDATE SKIP LOCKED.              *)
Lockable(r) == {s \in req[r].candidates : Stored(s) /\ snapLock[s] = NoOne}
LockCandidates(r) ==
    /\ req[r].pc = "prune"
    /\ snapLock' = [s \in SnapId |-> IF s \in Lockable(r) THEN r ELSE snapLock[s]]
    /\ Goto(r, "pruning")
    /\ UNCHANGED <<panels, versions, snaps, rowLock>>

(* ... then DELETE, with the references read after the locks, and commit.  *)

\* Mutant: the references are not read again under the locks.
DetachedUnchecked(r) == {s \in SnapId : Held(s, r)}

Detached(r) == {s \in SnapId : /\ Held(s, r)
                               /\ \A p \in PanelId \ {req[r].panel} : s \notin RefsOf(p)}
PruneCandidates(r) ==
    /\ req[r].pc = "pruning"
    /\ panels' = [panels EXCEPT ![req[r].panel] = NoRow("deleted")]
    /\ versions' = [versions EXCEPT ![req[r].panel] = <<>>]
    /\ snaps' = [s \in SnapId |-> IF s \in Detached(r) THEN "pruned" ELSE snaps[s]]
    /\ Release(r)

-----------------------------------------------------------------------------
(* A restore holds the panel row and wants a snapshot, an update holds the *)
(* snapshot and wants the row: PostgreSQL ends such a cycle by aborting    *)
(* one of the transactions.                                                *)
WaitsFor(r, q) ==
    \/ /\ req[r].pc = "retain"
       /\ req[r].todo # {}
       /\ snapLock[Least(req[r].todo)] = q
    \/ /\ req[r].pc \in {"flush", "delete"}
       /\ rowLock[req[r].panel] = q
    \/ /\ req[r].pc = "save"
       /\ req[r].op # "create"
       /\ rowLock[req[r].panel] = q
InCycle(r) == \E D \in SUBSET Req :
                /\ r \in D
                /\ \A q \in D : (\E o \in D \ {q} : WaitsFor(q, o))
                                /\ (\E o \in D \ {q} : WaitsFor(o, q))
AbortDeadlocked(r) == InCycle(r) /\ Rollback(r)

(* Past the bound on panels a creation is given up.                        *)
DropCreate(r) == /\ req[r].pc = "save"
                 /\ req[r].op = "create"
                 /\ \A p \in PanelId : panels[p].state # "unused"
                 /\ Rollback(r)

(* The GET routes and the requests refused with 404 change nothing.        *)
GetPanel(r) == req[r] = Idle /\ UNCHANGED vars

Step(r) ==
    \/ GetPanel(r)
    \/ \E h \in Html, d \in SUBSET SnapId :
         /\ \A s \in d : snaps[s] # "unborn"
         /\ \/ CreatePanel(r, h, d)
            \/ AgentAnswers(r, h, d)
            \/ \E p \in PanelId, given \in BOOLEAN : UpdatePanel(r, p, h, d, given)
    \/ \E p \in PanelId : EditPanel(r, p) \/ DeletePanel(r, p)
    \/ \E p \in PanelId, i \in 1..MaxVersions : RestoreVersion(r, p, i)
    \/ LockSnapshot(r) \/ RetainData(r) \/ AgentFails(r) \/ FlushRestore(r)
    \/ SavePanel(r) \/ DeleteRow(r) \/ LockCandidates(r) \/ PruneCandidates(r)
    \/ AbortDeadlocked(r) \/ DropCreate(r)

Next == \/ \E s \in SnapId : ResolveData(s) \/ Expire(s)
        \/ \E r \in Req : Step(r)

Spec == Init /\ [][Next]_vars

-----------------------------------------------------------------------------
(* What a saved panel or one of its versions refers to is stored and       *)
(* pinned, whatever is deleted, pruned or expires meanwhile.               *)
ReferencesPinned == \A p \in PanelId : \A s \in RefsOf(p) : snaps[s] = "pinned"

(* What a panel shows can be found again in its history, column by column. *)
HistoryComplete ==
    \A p \in PanelId : Exists(p) =>
      /\ \E i \in DOMAIN versions[p] : versions[p][i].html = panels[p].html
      /\ \E i \in DOMAIN versions[p] : versions[p][i].data = panels[p].data

(* A saved panel keeps working: its data and that of every version it can  *)
(* be restored to are stored and pinned, and what it shows is in its       *)
(* history, under concurrent creates, edits, restores, deletes and prunes. *)
PanelsKept == ReferencesPinned /\ HistoryComplete
=============================================================================
