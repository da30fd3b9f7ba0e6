----------------------------- MODULE PanelBridge -----------------------------
(***************************************************************************)
(* A generated panel at work in a user's browser: window.wot in its frame  *)
(* (panels/wot_bridge.js), the trusted page around it (use-wot-bridge.ts)  *)
(* and the subscriptions of the WoT runtime, which panels share.           *)
(*                                                                         *)
(* The frame posts requests, the page checks each against the panel's      *)
(* allowlist and fetches the permitted ones from the runtime, and posts    *)
(* replies and events back in one ordered channel.  Fetches of one panel   *)
(* overlap.  Closing a panel removes its subscriptions without waiting.    *)
(***************************************************************************)
EXTENDS RuntimeSubscriptions, PanelCapabilities

CONSTANTS Frames,      \* panels open at the same time
          Pinned,      \* those opened from the panel store, not from a chat
          Allowlist,   \* [Frames -> what the agent declared]
          Requested,   \* the calls scripts make, [op, thing, name]
          KeyOf(_),    \* the runtime's subscription key of such a call
          MaxCalls,    \* bound: calls of a frame
          MaxInbox,    \* bound: messages waiting in a frame
          MaxSubs      \* bound: subscriptions of the runtime

VARIABLES frames,      \* the bridge of each panel
          removals     \* remove-subscription requests nobody waits for

bridgeVars == <<subs, frames, removals>>

(* A call of the script: where it is, and the subscription it is about.    *)
Call(c, sub) == [request |-> c, sub |-> sub, place |-> "posted"]
NoSub == 0
Unsubscribe == [op |-> "unsubscribe", thing |-> Blank, name |-> Blank]
Over == [Call(Unsubscribe, NoSub) EXCEPT !.place = "over"]
Subscribes(call) == call.request.op \in {"observeProperty", "subscribeEvent"}

Reply(i, ok) == [kind |-> "reply", call |-> i, ok |-> ok]
Event(id) == [kind |-> "event", sub |-> id]

BridgeInit == /\ subs = <<>>
              /\ frames = [f \in Frames |-> [open |-> TRUE, calls |-> <<>>, inbox |-> <<>>,
                                             active |-> {}, callbacks |-> {}, left |-> {}]]
              /\ removals = {}

(* What the page gets of the declared allowlist, and makes of it.          *)
Received(f) == IF f \in Pinned THEN CleanCapabilities(Normalized(Allowlist[f]))
                               ELSE Normalized(Allowlist[f])
Permits(f, c) == IsInteractionAllowed(ParseCapabilities(Received(f)), c)
Place(f, i, place) == [frames[f] EXCEPT !.calls[i].place = place]

(* postToFrame: nothing is posted once the frame is gone.                  *)
Answered(frame, i, ok) ==
    IF frame.open
    THEN [frame EXCEPT !.calls[i].place = "replied", !.inbox = Append(@, Reply(i, ok))]
    ELSE [frame EXCEPT !.calls[i] = Over]
Update(f, frame) == frames' = [frames EXCEPT ![f] = frame]

-----------------------------------------------------------------------------
(* window.wot in the frame.                                                *)
PanelCalls(f, c) ==
    /\ frames[f].open
    /\ Len(frames[f].calls) < MaxCalls
    /\ Update(f, [frames[f] EXCEPT !.calls = Append(@, Call(c, NoSub))])
    /\ UNCHANGED <<subs, removals>>

(* The callback goes first, then the page is asked to unsubscribe: from    *)
(* what the script names, which may be another panel's subscription.       *)
PanelUnsubscribes(f, id) ==
    /\ frames[f].open
    /\ Len(frames[f].calls) < MaxCalls
    /\ Update(f, [frames[f] EXCEPT !.callbacks = @ \ {id},
                                   !.left = @ \cup ({id} \cap frames[f].callbacks),
                                   !.calls = Append(@, Call(Unsubscribe, id))])
    /\ UNCHANGED <<subs, removals>>

(* A reply settles its promise; a subscription's callback is in place      *)
(* before the next message.  An event without a callback is ignored.       *)
FrameReceives(f) ==
    LET m == Head(frames[f].inbox)
        rest == [frames[f] EXCEPT !.inbox = Tail(@)]
    IN /\ frames[f].open
       /\ frames[f].inbox # <<>>
       /\ Update(f, IF m.kind = "event" THEN rest
                    ELSE [rest EXCEPT !.calls[m.call] = Over,
                            !.callbacks = IF m.ok /\ Subscribes(rest.calls[m.call])
                                          THEN @ \cup {rest.calls[m.call].sub} ELSE @])
       /\ UNCHANGED <<subs, removals>>

-----------------------------------------------------------------------------
(* The page: handleRequest and handleUnsubscribe up to their fetch.        *)
RefuseCall(f, i) ==
    /\ frames[f].calls[i].request # Unsubscribe
    /\ ~Permits(f, frames[f].calls[i].request)
    /\ Update(f, Answered(frames[f], i, FALSE))

\* Mutant: an unsubscribe of what is not active is never answered.
ForgetSilently(f, i) ==
    /\ frames[f].calls[i].request = Unsubscribe
    /\ frames[f].calls[i].sub \notin frames[f].active
    /\ Update(f, Place(f, i, "replied"))

ForgetSubscription(f, i) ==
    /\ frames[f].calls[i].request = Unsubscribe
    /\ frames[f].calls[i].sub \notin frames[f].active
    /\ Update(f, Answered(frames[f], i, TRUE))

StartFetch(f, i) ==
    LET call == frames[f].calls[i]
    IN /\ IF call.request = Unsubscribe THEN call.sub \in frames[f].active
                                         ELSE Permits(f, call.request)
       /\ Update(f, [Place(f, i, "fetching") EXCEPT !.active = @ \ {call.sub}])

HostReceives(f, i) ==
    /\ frames[f].open
    /\ frames[f].calls[i].place = "posted"
    /\ \A j \in 1..(i - 1) : frames[f].calls[j].place # "posted"
    /\ RefuseCall(f, i) \/ ForgetSubscription(f, i) \/ StartFetch(f, i)
    /\ UNCHANGED <<subs, removals>>

(* The runtime serves a fetched call, or does not answer it.               *)
RuntimeServes(f, i) ==
    LET call == frames[f].calls[i]
    IN /\ call.place = "fetching"
       /\ \/ /\ Subscribes(call)
             /\ \E id \in 1..MaxSubs :
                  /\ Ensure(KeyOf(call.request), id)
                  /\ Update(f, [Place(f, i, "served") EXCEPT !.calls[i].sub = id])
          \/ /\ ~Subscribes(call)
             /\ IF call.request = Unsubscribe THEN RemoveSubscription(call.sub)
                                              ELSE UNCHANGED subs
             /\ Update(f, Place(f, i, "served"))
       /\ UNCHANGED removals

FetchFails(f, i) ==
    /\ frames[f].calls[i].place = "fetching"
    /\ Update(f, Answered(frames[f], i, FALSE))
    /\ UNCHANGED <<subs, removals>>

(* The rest of handleRequest: a subscription is listened to before it is   *)
(* announced, even when the panel was closed meanwhile.                    *)
HostAnswers(f, i) ==
    LET call == frames[f].calls[i]
    IN /\ call.place = "served"
       /\ Update(f, [Answered(frames[f], i, TRUE) EXCEPT
                       !.active = IF Subscribes(call) THEN @ \cup {call.sub} ELSE @])
       /\ UNCHANGED <<subs, removals>>

(* The event stream: an event goes to every page that listens to its id.   *)
Deliver(id) ==
    /\ id \in Ids
    /\ subs[id].device = "on"
    /\ \A f \in Frames : Len(frames[f].inbox) < MaxInbox
    /\ \E f \in Frames : frames[f].open /\ id \in frames[f].active
    /\ frames' = [f \in Frames |->
                    IF frames[f].open /\ id \in frames[f].active
                    THEN [frames[f] EXCEPT !.inbox = Append(@, Event(id))] ELSE frames[f]]
    /\ UNCHANGED <<subs, removals>>

(* The panel is closed: what it listens to is removed, nobody waits.       *)
ClosePanel(f) ==
    /\ frames[f].open
    /\ removals' = removals \cup frames[f].active
    /\ Update(f, [frames[f] EXCEPT !.open = FALSE, !.active = {}, !.inbox = <<>>,
                     !.callbacks = {}, !.left = {},
                     !.calls = [i \in DOMAIN @ |-> IF @[i].place \in {"fetching", "served"}
                                                  THEN @[i] ELSE Over]])
    /\ UNCHANGED subs

Remove(id) == /\ id \in removals
              /\ removals' = removals \ {id}
              /\ RemoveSubscription(id) \/ UNCHANGED subs
              /\ UNCHANGED frames

Runtime == /\ \E id \in Ids : SetupSucceeds(id) \/ SetupFails(id)
           /\ UNCHANGED <<frames, removals>>

Look == UNCHANGED bridgeVars

BridgeNext ==
    \/ \E f \in Frames :
         \/ \E c \in Requested : PanelCalls(f, c)
         \/ \E id \in Ids : PanelUnsubscribes(f, id)
         \/ FrameReceives(f) \/ ClosePanel(f)
         \/ \E i \in DOMAIN frames[f].calls :
              HostReceives(f, i) \/ RuntimeServes(f, i) \/ FetchFails(f, i) \/ HostAnswers(f, i)
    \/ \E id \in Ids : Deliver(id) \/ Remove(id)
    \/ Runtime \/ Look

BridgeSpec == BridgeInit /\ [][BridgeNext]_bridgeVars

-----------------------------------------------------------------------------
(* A promise of an open panel is settled once: its call is on its way, or  *)
(* one reply to it is.                                                     *)
RepliesTo(f, i) == {k \in DOMAIN frames[f].inbox :
                      frames[f].inbox[k].kind = "reply" /\ frames[f].inbox[k].call = i}
AnsweredOnce ==
    \A f \in Frames : frames[f].open =>
      \A i \in DOMAIN frames[f].calls :
        Cardinality(RepliesTo(f, i)) = IF frames[f].calls[i].place = "replied" THEN 1 ELSE 0

(* No event is lost between the reply that announces its subscription and  *)
(* the callback: when the frame gets to it, somebody listens, or left.     *)
EventsFindCallbacks ==
    \A f \in Frames : \A k \in DOMAIN frames[f].inbox :
      LET m == frames[f].inbox[k]
      IN m.kind = "event" =>
           \/ m.sub \in frames[f].callbacks \cup frames[f].left
           \/ \E j \in 1..(k - 1) : /\ frames[f].inbox[j].kind = "reply"
                                    /\ frames[f].inbox[j].ok
                                    /\ frames[f].calls[frames[f].inbox[j].call].sub = m.sub

(* What reaches the runtime is what the panel's validation permits too.    *)
OnlyPermitted ==
    \A f \in Frames : \A i \in DOMAIN frames[f].calls :
      frames[f].calls[i].place \in {"fetching", "served"} =>
        \/ frames[f].calls[i].request = Unsubscribe
        \/ IsAllowed(Normalized(Allowlist[f]), frames[f].calls[i].request)

(* The bridge answers every call of a panel exactly once, loses no event   *)
(* to a callback that comes too late and forwards what was validated.      *)
BridgeFaithful == AnsweredOnce /\ EventsFindCallbacks /\ OnlyPermitted
=============================================================================
