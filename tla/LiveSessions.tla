---------------------------- MODULE LiveSessions ----------------------------
(***************************************************************************)
(* Live sessions.  A browser is given a room of its own at LiveKit and asks *)
(* for an agent there (media/livekit.py); LiveKit starts one for every       *)
(* dispatch it was sent.  The agents of a worker share its services, and     *)
(* each captures the camera of its room (workers/livekit): the last picture  *)
(* is kept per room, and the prompts of a conversation carry it, frozen for  *)
(* the turn (agent/camera_context.py).                                       *)
(*                                                                         *)
(* LiveKit is outside: it may lose a call, fail a dispatch, and subscribe    *)
(* an agent to a track or end the subscription at any time.  What is spoken  *)
(* is left out, and the announcement of a picture is one step.              *)
(***************************************************************************)
EXTENDS Naturals, Sequences, FiniteSets

CONSTANTS Rooms, ThreadOf,        \* the conversation each room is for
          Tracks, None,
          MaxAgents,              \* bounds: agents of a room,
          MaxFrames,              \* pictures taken in each room,
          MaxTurns,               \* turns with an agent,
          MaxSwitches,            \* cameras switched off,
          MaxFaults               \* and calls that fail

Threads == {ThreadOf[r] : r \in Rooms}
Agents == Rooms \X (1..MaxAgents)
Thread(a) == ThreadOf[a[1]]

VARIABLES request,       \* per room: how far the request for an agent is,
          polled, known, \* the dispatch of this poll and the one remembered
          jobs,          \* LiveKit: the dispatches of a room with their states
          lost,          \* per room: the calls to LiveKit that failed
          pc,            \* per agent: where its handler is
          lock, count, jobService, search,     \* the services of the worker
          subscribed, tasks, stops,            \* per agent: its camera capture
          media,         \* per room: the entry of MediaSessionRegistry
          taken,         \* per room: the pictures taken
          frozen,        \* per conversation: the picture of the turn
          turn,          \* per agent: the turn it is in
          seen, told,    \* the pictures prompts carried, and rooms heard of
          rejoined,      \* per agent: tracks that came back before their stop ran
          late,          \* conversations prompted by an agent that had left
          switches, faults

dispatchVars == <<request, polled, known, jobs, lost>>
runtimeVars == <<lock, count, jobService, search>>
cameraVars == <<subscribed, tasks, stops, media, taken, rejoined, switches>>
promptVars == <<frozen, turn, seen, told, late>>
liveVars == <<dispatchVars, pc, runtimeVars, cameraVars, promptVars, faults>>

-----------------------------------------------------------------------------
LiveInit ==
    /\ request = [r \in Rooms |-> "none"]
    /\ polled = [r \in Rooms |-> 0] /\ known = [r \in Rooms |-> 0]
    /\ jobs = [r \in Rooms |-> <<>>] /\ lost = [r \in Rooms |-> 0]
    /\ pc = [a \in Agents |-> "none"]
    /\ lock = None /\ count = 0 /\ jobService = FALSE /\ search = FALSE
    /\ subscribed = [a \in Agents |-> {}]
    /\ tasks = [a \in Agents |-> [t \in Tracks |-> "none"]]
    /\ stops = [a \in Agents |-> {}]
    /\ media = [r \in Rooms |-> [status |-> "none", frame |-> None, fresh |-> FALSE]]
    /\ taken = [r \in Rooms |-> 0]
    /\ frozen = [th \in Threads |-> None]
    /\ turn = [a \in Agents |-> 0]
    /\ seen = [m \in Agents \X (1..MaxTurns) |-> {}]
    /\ told = [a \in Agents |-> {}]
    /\ rejoined = [a \in Agents |-> {}]
    /\ late = {} /\ switches = 0 /\ faults = 0

Fault == faults < MaxFaults /\ faults' = faults + 1

-----------------------------------------------------------------------------
(* The request for an agent.                                               *)

UNDISPATCHED == <<pc, runtimeVars, cameraVars, promptVars>>
Poll(r, phase) == request' = [request EXCEPT ![r] = phase]

(* A token for a room whose name is new and the conversation's.            *)
Connect(r) ==
    /\ request[r] = "none"
    /\ Poll(r, "connected")
    /\ UNCHANGED <<polled, known, jobs, lost, faults, UNDISPATCHED>>

Ask(r) ==
    /\ request[r] = "connected"
    /\ Poll(r, "create")
    /\ UNCHANGED <<polled, known, jobs, lost, faults, UNDISPATCHED>>

Create(r) ==
    /\ request[r] = "create"
    /\ jobs' = [jobs EXCEPT ![r] = Append(@, "pending")]
    /\ polled' = [polled EXCEPT ![r] = Len(jobs'[r])]
    /\ Poll(r, "list")
    /\ UNCHANGED <<known, lost, faults, UNDISPATCHED>>

(* The call fails, and the dispatch may have been made all the same.       *)
CreateFails(r) ==
    /\ request[r] = "create" /\ Fault
    /\ \/ UNCHANGED jobs
       \/ jobs' = [jobs EXCEPT ![r] = Append(@, "pending")]
    /\ lost' = [lost EXCEPT ![r] = @ + 1]
    /\ Poll(r, "retry")
    /\ UNCHANGED <<polled, known, UNDISPATCHED>>

(* The state of the dispatch made, found by its id.                        *)
Matching(r) == jobs[r][polled[r]]

(* The dispatch made is remembered when it could be listed too.            *)
List(r) ==
    /\ request[r] = "list"
    /\ known' = [known EXCEPT ![r] = polled[r]]
    /\ Poll(r, CASE Matching(r) = "running" -> "running"
                 [] Matching(r) = "failed" -> "failed"
                 [] OTHER -> "retry")
    /\ UNCHANGED <<polled, jobs, lost, faults, UNDISPATCHED>>

ListFails(r) ==
    /\ request[r] = "list" /\ Fault
    /\ polled' = [polled EXCEPT ![r] = known[r]]
    /\ lost' = [lost EXCEPT ![r] = @ + 1]
    /\ Poll(r, "retry")
    /\ UNCHANGED <<known, jobs, UNDISPATCHED>>

Retry(r) ==
    /\ request[r] = "retry"
    /\ Poll(r, IF known[r] = 0 THEN "create" ELSE "list")
    /\ known[r] # 0 \/ Len(jobs[r]) < MaxAgents
    /\ UNCHANGED <<polled, known, jobs, lost, faults, UNDISPATCHED>>

(* The deadline: what was dispatched is left, for its id is not known here. *)
Expire(r) ==
    /\ request[r] = "retry"
    /\ Poll(r, "expired")
    /\ UNCHANGED <<polled, known, jobs, lost, faults, UNDISPATCHED>>

JobIs(a, state) == jobs' = [jobs EXCEPT ![a[1]][a[2]] = state]

StartJob(a) ==
    /\ a[2] <= Len(jobs[a[1]]) /\ jobs[a[1]][a[2]] = "pending"
    /\ JobIs(a, "running")
    /\ pc' = [pc EXCEPT ![a] = "waiting"]
    /\ UNCHANGED <<request, polled, known, lost, runtimeVars, cameraVars, promptVars, faults>>

FailJob(a) ==
    /\ a[2] <= Len(jobs[a[1]]) /\ jobs[a[1]][a[2]] = "pending" /\ Fault
    /\ JobIs(a, "failed")
    /\ UNCHANGED <<request, polled, known, lost, UNDISPATCHED>>

-----------------------------------------------------------------------------
(* The services of the worker: the first agent opens them, the last one     *)
(* closes them, both under the lock.                                        *)

At(a, from, to) == pc[a] = from /\ pc' = [pc EXCEPT ![a] = to]
Ends(a, from) == At(a, from, "ended") /\ JobIs(a, "ended") /\ UNCHANGED <<request, polled, known, lost>>

Share(a) ==
    /\ At(a, "waiting", "saver") /\ lock = None /\ count > 0
    /\ count' = count + 1
    /\ UNCHANGED <<lock, jobService, search, dispatchVars, cameraVars, promptVars, faults>>

BeginRuntime(a) ==
    /\ At(a, "waiting", "opening") /\ lock = None /\ count = 0
    /\ lock' = a
    /\ UNCHANGED <<count, jobService, search, dispatchVars, cameraVars, promptVars, faults>>

OpenSearch(a) ==
    /\ At(a, "opening", "starting")
    /\ search' = TRUE
    /\ UNCHANGED <<lock, count, jobService, dispatchVars, cameraVars, promptVars, faults>>

OpenJobs(a) ==
    /\ At(a, "starting", "saver")
    /\ jobService' = TRUE /\ count' = count + 1 /\ lock' = None
    /\ UNCHANGED <<search, dispatchVars, cameraVars, promptVars, faults>>

(* What the start had opened stays open.                                   *)
OpenFails(a) ==
    /\ Ends(a, "opening") \/ Ends(a, "starting")
    /\ Fault /\ lock' = None
    /\ UNCHANGED <<count, jobService, search, cameraVars, promptVars>>

Return(a) ==
    /\ lock = None /\ count' = count - 1
    /\ \/ /\ count > 1 /\ Ends(a, "returning")
          /\ UNCHANGED <<lock, jobService>>
       \/ /\ count = 1 /\ At(a, "returning", "halting")
          /\ lock' = a /\ jobService' = FALSE
          /\ UNCHANGED dispatchVars
    /\ UNCHANGED <<search, cameraVars, promptVars, faults>>

StopJobs(a) ==
    /\ At(a, "halting", "shutting")
    /\ UNCHANGED <<runtimeVars, dispatchVars, cameraVars, promptVars, faults>>

CloseSearch(a) ==
    /\ Ends(a, "shutting")
    /\ search' = FALSE /\ lock' = None
    /\ UNCHANGED <<count, jobService, cameraVars, promptVars, faults>>

StopFails(a) ==
    /\ Ends(a, "halting") \/ Ends(a, "shutting")
    /\ Fault /\ lock' = None
    /\ UNCHANGED <<count, jobService, search, cameraVars, promptVars>>

-----------------------------------------------------------------------------
(* The handler of an agent, between the services.                          *)

(* The entry of a room: named, given a picture, or without one.            *)
Active(r) == media' = [media EXCEPT ![r].status = "active"]
Keep(r, frame) == media' = [media EXCEPT ![r] = [status |-> "active", frame |-> frame, fresh |-> TRUE]]
Discard(r) == media' = [media EXCEPT ![r].frame = None, ![r].fresh = FALSE]

SaverFails(a) ==
    /\ At(a, "saver", "returning") /\ Fault
    /\ UNCHANGED <<runtimeVars, dispatchVars, cameraVars, promptVars>>

(* The capture listens to the room, and the room to the pictures sent.     *)
Enter(a) ==
    /\ At(a, "saver", "joining")
    /\ Active(a[1])
    /\ UNCHANGED <<subscribed, tasks, stops, taken, rejoined, switches, runtimeVars, dispatchVars,
                   promptVars, faults>>

Join(a) ==
    /\ At(a, "joining", "talking")
    /\ UNCHANGED <<runtimeVars, dispatchVars, cameraVars, promptVars, faults>>

(* The room is unregistered, the frozen picture dropped, and the capture    *)
(* hears of no other track.                                                 *)
Unwind(a, from) ==
    /\ At(a, from, "closing")
    /\ frozen' = [frozen EXCEPT ![Thread(a)] = None]
    /\ UNCHANGED <<turn, seen, told, late, runtimeVars, dispatchVars, cameraVars>>

JoinFails(a) == Unwind(a, "joining") /\ Fault
ShutDown(a) == Unwind(a, "talking") /\ UNCHANGED faults

CancelCaptures(a) ==
    /\ At(a, "closing", "cancelled") /\ stops[a] = {}
    /\ tasks' = [tasks EXCEPT ![a] = [t \in Tracks |-> "none"]]
    /\ UNCHANGED <<subscribed, stops, media, taken, rejoined, switches, runtimeVars, dispatchVars,
                   promptVars, faults>>

CloseMedia(a) ==
    /\ At(a, "cancelled", "returning")
    /\ media' = [media EXCEPT ![a[1]] = [status |-> "closed", frame |-> None, fresh |-> FALSE]]
    /\ UNCHANGED <<subscribed, tasks, stops, taken, rejoined, switches, runtimeVars, dispatchVars,
                   promptVars, faults>>

-----------------------------------------------------------------------------
(* The capture.                                                            *)

Listening(a) == pc[a] \in {"joining", "talking"}
STILL == <<pc, runtimeVars, dispatchVars, promptVars, faults>>

(* A track that is still in the table is not captured again.               *)
Subscribed(a, t) ==
    /\ Listening(a) /\ t \notin subscribed[a]
    /\ subscribed' = [subscribed EXCEPT ![a] = @ \cup {t}]
    /\ IF tasks[a][t] = "none"
       THEN /\ tasks' = [tasks EXCEPT ![a][t] = "running"]
            /\ Active(a[1])
       ELSE UNCHANGED <<tasks, media>>
    /\ rejoined' = IF <<t, "queued">> \in stops[a] THEN [rejoined EXCEPT ![a] = @ \cup {t}]
                                                  ELSE rejoined
    /\ UNCHANGED <<stops, taken, switches, STILL>>

Unsubscribed(a, t) ==
    /\ Listening(a) /\ t \in subscribed[a]
    /\ switches < MaxSwitches /\ switches' = switches + 1
    /\ subscribed' = [subscribed EXCEPT ![a] = @ \ {t}]
    /\ stops' = [stops EXCEPT ![a] = @ \cup {<<t, "queued">>}]
    /\ rejoined' = [rejoined EXCEPT ![a] = @ \ {t}]
    /\ UNCHANGED <<tasks, media, taken, STILL>>

BeginStop(a, t) ==
    /\ <<t, "queued">> \in stops[a]
    /\ stops' = [stops EXCEPT ![a] = (@ \ {<<t, "queued">>}) \cup
                    IF tasks[a][t] = "none" THEN {} ELSE {<<t, "cancelling">>}]
    /\ tasks' = [tasks EXCEPT ![a][t] = "none"]
    /\ UNCHANGED <<subscribed, media, taken, rejoined, switches, STILL>>

(* The picture goes with the last capture of the agent.                    *)
EndStop(a, t) ==
    /\ <<t, "cancelling">> \in stops[a]
    /\ stops' = [stops EXCEPT ![a] = @ \ {<<t, "cancelling">>}]
    /\ IF \A u \in Tracks : tasks[a][u] = "none"
       THEN Discard(a[1])
       ELSE UNCHANGED media
    /\ UNCHANGED <<subscribed, tasks, taken, rejoined, switches, STILL>>

Capture(a, t) ==
    /\ tasks[a][t] = "running" /\ taken[a[1]] < MaxFrames[a[1]]
    /\ taken' = [taken EXCEPT ![a[1]] = @ + 1]
    /\ Keep(a[1], <<a[1], taken'[a[1]]>>)
    /\ UNCHANGED <<subscribed, tasks, stops, rejoined, switches, STILL>>

(* The stream of a track ends or fails: the entry stays in the table.      *)
CaptureEnds(a, t) ==
    /\ tasks[a][t] = "running"
    /\ tasks' = [tasks EXCEPT ![a][t] = "ended"]
    /\ UNCHANGED <<subscribed, stops, media, taken, rejoined, switches, STILL>>

Age(r) ==
    /\ media[r].fresh
    /\ media' = [media EXCEPT ![r].fresh = FALSE]
    /\ UNCHANGED <<subscribed, tasks, stops, taken, rejoined, switches, STILL>>

-----------------------------------------------------------------------------
(* The prompts.  A session that shuts down is drained while its handler     *)
(* goes on.                                                                 *)

NewTurn(a) ==
    /\ pc[a] = "talking" /\ turn[a] < MaxTurns
    /\ turn' = [turn EXCEPT ![a] = @ + 1]
    /\ UNCHANGED <<frozen, seen, told, late, pc, runtimeVars, dispatchVars, cameraVars, faults>>

Left(a) == pc[a] \in {"closing", "cancelled", "returning"}
Latest(th) == {media[r].frame : r \in {x \in Rooms : /\ ThreadOf[x] = th
                                                     /\ media[x].status = "active"
                                                     /\ media[x].fresh}}
Hears(th) == {a \in Agents : Listening(a) /\ Thread(a) = th}

BelongsTo(th, m) == frozen[th] # None /\ frozen[th].turn = m

(* A recent picture is frozen for the turn, if there is one, and announced  *)
(* to the rooms; one of another turn is dropped.                            *)
Freeze(a, th, m) ==
    \/ /\ Latest(th) = {}
       /\ frozen' = [frozen EXCEPT ![th] = None]
       /\ UNCHANGED <<seen, told, late>>
    \/ \E f \in Latest(th) :
          /\ frozen' = [frozen EXCEPT ![th] = [turn |-> m, frame |-> f]]
          /\ seen' = [seen EXCEPT ![m] = @ \cup {f}]
          /\ told' = [b \in Agents |-> IF b \in Hears(th) THEN told[b] \cup {f} ELSE told[b]]
          /\ late' = IF Left(a) THEN late \cup {th} ELSE late

Prompt(a) ==
    LET th == Thread(a)
        m == <<a, turn[a]>>
    IN /\ turn[a] > 0
       /\ pc[a] = "talking" \/ Left(a)
       /\ IF BelongsTo(th, m)
          THEN /\ seen' = [seen EXCEPT ![m] = @ \cup {frozen[th].frame}]
               /\ UNCHANGED <<frozen, told, late>>
          ELSE Freeze(a, th, m)
       /\ UNCHANGED <<turn, pc, runtimeVars, dispatchVars, cameraVars, faults>>

-----------------------------------------------------------------------------
Handler(a) ==
    \/ Share(a) \/ BeginRuntime(a) \/ OpenSearch(a) \/ OpenJobs(a) \/ OpenFails(a)
    \/ SaverFails(a) \/ Enter(a) \/ Join(a) \/ JoinFails(a) \/ ShutDown(a)
    \/ CancelCaptures(a) \/ CloseMedia(a)
    \/ Return(a) \/ StopJobs(a) \/ CloseSearch(a) \/ StopFails(a)

Camera(a) ==
    \E t \in Tracks : \/ Subscribed(a, t) \/ Unsubscribed(a, t) \/ BeginStop(a, t) \/ EndStop(a, t)
                      \/ Capture(a, t) \/ CaptureEnds(a, t)

Dispatching(r) ==
    \/ Connect(r) \/ Ask(r) \/ Create(r) \/ CreateFails(r) \/ List(r) \/ ListFails(r)
    \/ Retry(r) \/ Expire(r)

Over ==
    /\ \A r \in Rooms : request[r] \in {"running", "failed", "expired"}
    /\ \A a \in Agents : pc[a] \in {"none", "ended"}
    /\ UNCHANGED liveVars

LiveNext ==
    \/ \E r \in Rooms : Dispatching(r) \/ Age(r)
    \/ \E a \in Agents : StartJob(a) \/ FailJob(a) \/ Handler(a) \/ Camera(a) \/ NewTurn(a) \/ Prompt(a)
    \/ Over

LiveSpec == LiveInit /\ [][LiveNext]_liveVars

-----------------------------------------------------------------------------
(* The services of the worker are open for as long as an agent may use      *)
(* them and closed by the last one (_start_shared_runtime,                  *)
(* _stop_shared_runtime): the count is that of the agents between, and      *)
(* only a start or a stop that failed leaves the search open.               *)
Using == {a \in Agents : pc[a] \in {"saver", "joining", "talking", "closing", "cancelled",
                                    "returning"}}
RuntimeKept ==
    /\ count = Cardinality(Using)
    /\ Using # {} => jobService /\ search
    /\ lock = None /\ Using = {} => ~jobService /\ (search => faults > 0)

(* A request that is answered has an agent in its room, and a room has one  *)
(* agent more than it asked for only after a call to LiveKit failed          *)
(* (_poll_agent_dispatch).                                                  *)
OneAgent ==
    \A r \in Rooms :
        /\ request[r] = "running" => \E n \in DOMAIN jobs[r] : jobs[r][n] \in {"running", "ended"}
        /\ Len(jobs[r]) <= 1 + lost[r]

(* A picture is kept only while an agent of its room captures or is about   *)
(* to clean up, and a prompt carries only pictures of its own conversation  *)
(* (_stop_capture, close, latest_video_frame_for_thread).                   *)
CameraOff ==
    /\ \A r \in Rooms : media[r].frame # None =>
           \E a \in Agents : /\ a[1] = r
                             /\ \/ \E t \in Tracks : tasks[a][t] # "none"
                                \/ stops[a] # {} \/ pc[a] = "cancelled"
    /\ \A m \in DOMAIN seen : \A f \in seen[m] : ThreadOf[f[1]] = Thread(m[1])

(* While it listens, an agent captures every track it is subscribed to; but *)
(* not one that came back before its stop ran (_start_capture).             *)
CameraFollowed ==
    \A a \in Agents : \A t \in subscribed[a] :
        Listening(a) => \/ tasks[a][t] # "none" \/ <<t, "queued">> \in stops[a]
                        \/ t \in rejoined[a]

(* The prompts of a turn carry one picture, and the room was told of it      *)
(* (_frozen_frame_for_turn, notify_snapshot_sent), unless the conversation   *)
(* has another agent or this one had left.                                   *)
TurnsSteady ==
    \A a \in Agents : \A n \in 1..MaxTurns :
        /\ Cardinality(seen[<<a, n>>]) > 1 =>
              \/ pc[a] # "talking"
              \/ \E b \in Agents \ {a} : Thread(b) = Thread(a) /\ pc[b] # "none"
        /\ Thread(a) \notin late => seen[<<a, n>>] \subseteq told[a]

(* No picture is kept for a conversation whose agents have left, if none    *)
(* was prompted after (clear_frozen_camera_frame).                          *)
FrozenReleased ==
    \A th \in Threads :
        (\A a \in Agents : Thread(a) = th => ~Listening(a)) /\ th \notin late => frozen[th] = None

LiveSound ==
    /\ RuntimeKept /\ OneAgent /\ CameraOff /\ CameraFollowed /\ TurnsSteady /\ FrozenReleased
=============================================================================
