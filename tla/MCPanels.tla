------------------------------- MODULE MCPanels -------------------------------
(***************************************************************************)
(* The panel modules on small instances.  A behaviour is one of one part:   *)
(* two panels over one snapshot, one panel over two, the validation of a    *)
(* conversation's panels, a crawl of dependencies, two panels at work, an   *)
(* agent outside that polls a subscription, or live sessions.               *)
(***************************************************************************)
EXTENDS PanelCapabilities, Naturals, FiniteSets, TLC

CONSTANTS p1, p2, f1, f2, Html, Req, NoUrl

VARIABLES part,
          panels, versions, snaps, snapLock, rowLock, req,                  \* Panels
          log, call, slot,                                                  \* PanelValidation
          document, network, seen, probing, found, problems, phase,         \* PanelDependencies
          subs, frames, removals,                                           \* PanelBridge
          clock, rows, held, made, stream, authorized, lock, asked, late,
          sweep, cut, ended, faults, misled,                                \* RawSubscriptions
          request, polled, known, jobs, lost, pc, guard, count, jobService,
          search, subscribed, tasks, stops, media, taken, frozen, turn,
          shown, told, rejoined, drained, switches, failed                  \* LiveSessions

storeVars == <<panels, versions, snaps, snapLock, rowLock, req>>
checkVars == <<log, call, slot>>
crawlVars == <<document, network, seen, probing, found, problems, phase>>
bridgeVars == <<subs, frames, removals>>
leaseVars == <<clock, rows, held, made, stream, authorized, lock, asked, late, sweep, cut, ended,
               faults, misled>>
liveVars == <<request, polled, known, jobs, lost, pc, guard, count, jobService, search, subscribed,
              tasks, stops, media, taken, frozen, turn, shown, told, rejoined, drained, switches,
              failed>>

(* The state of the parts a behaviour is not about.                        *)
NoStore == /\ panels = <<>> /\ versions = <<>> /\ snaps = <<>>
           /\ snapLock = <<>> /\ rowLock = <<>> /\ req = <<>>
NoCheck == log = <<>> /\ call = <<>> /\ slot = <<>>
NoCrawl == /\ document = <<>> /\ network = <<>> /\ seen = <<>> /\ probing = <<>>
           /\ found = <<>> /\ problems = <<>> /\ phase = <<>>
NoBridge == subs = <<>> /\ frames = <<>> /\ removals = <<>>
NoLeases == /\ clock = <<>> /\ rows = <<>> /\ held = <<>> /\ made = <<>> /\ stream = <<>>
            /\ authorized = <<>> /\ lock = <<>> /\ asked = <<>> /\ late = <<>> /\ sweep = <<>>
            /\ cut = <<>> /\ ended = <<>> /\ faults = <<>> /\ misled = <<>>
NoCalls == /\ request = <<>> /\ polled = <<>> /\ known = <<>> /\ jobs = <<>> /\ lost = <<>> /\ pc = <<>>
           /\ guard = <<>> /\ count = <<>> /\ jobService = <<>> /\ search = <<>> /\ subscribed = <<>> /\ tasks = <<>>
           /\ stops = <<>> /\ media = <<>> /\ taken = <<>> /\ frozen = <<>> /\ turn = <<>> /\ shown = <<>>
           /\ told = <<>> /\ rejoined = <<>> /\ drained = <<>> /\ switches = <<>> /\ failed = <<>>

Shared == INSTANCE Panels WITH PanelId <- {p1, p2}, SnapId <- {1}, MaxVersions <- 2
Single == INSTANCE Panels WITH PanelId <- {p1}, SnapId <- {1, 2}, MaxVersions <- 2

-----------------------------------------------------------------------------
(* One conversation and six panels: two that are right, one with a write   *)
(* computed at run time, one that claims no self-check, one whose literal  *)
(* call is not declared, and one whose data decides.                       *)
C(op, name) == [op |-> op, thing |-> "t", name |-> name]
Reads == [thingId |-> "t", ops |-> <<"readProperty">>, affordances |-> <<"p">>]
All == [thingId |-> "t", ops |-> <<"readProperty", "writeProperty">>, affordances |-> <<>>]
Page(caps, literal, computed, data, checks) ==
    [caps |-> caps, literal |-> literal, computed |-> computed, broken |-> FALSE,
     data |-> data, checks |-> checks]
Pages == {Page(<<Reads>>, {C("readProperty", "p")}, {}, FALSE, "passed"),
          Page(<<All>>, {C("readProperty", "p")}, {C("readProperty", "q")}, FALSE, "passed"),
          Page(<<All>>, {}, {C("writeProperty", "p")}, FALSE, "passed"),
          Page(<<Reads>>, {}, {C("readProperty", "q")}, FALSE, "none"),
          Page(<<Reads>>, {C("writeProperty", "p")}, {}, FALSE, "passed"),
          Page(<<>>, {}, {}, TRUE, "failed")}
Validation == INSTANCE PanelValidation WITH
    Turns <- {"turn"}, MaxRepairs <- 1, MaxReads <- 1, MaxLog <- 9

-----------------------------------------------------------------------------
(* Three markups and every network of four resources, seven answers each.  *)
Urls == {"a", "b", "c", "d"}
Lib == [bare |-> TRUE, name |-> <<"lib">>]
Sub == [bare |-> TRUE, name |-> <<"lib", "sub">>]
ToUrl(u) == [bare |-> FALSE, url |-> u]
Map(exact, dirs) == [exact |-> exact, dirs |-> dirs]
Script(src, type, imports) == [tag |-> "script", src |-> src, type |-> type, imports |-> imports]
Link(rel, href) == [tag |-> "link", rel |-> rel, href |-> href]
Documents == {
    [elements |-> {Script("a", "module", {}), Link("stylesheet", "b"), Link("preload", "c")},
     imports |-> Map(<<>>, <<"lib">> :> "c"), scopes |-> "d" :> Map(<<"lib", "sub">> :> "a", <<>>)],
    [elements |-> {Script(NoUrl, "module", {Lib, Sub, ToUrl("b")}), Link("modulepreload", "d")},
     imports |-> Map(<<"lib">> :> "a", <<"lib">> :> "c"), scopes |-> <<>>],
    [elements |-> {Script("a", "module", {Lib}), Script("b", "script", {})},
     imports |-> Map(<<>>, <<>>), scopes |-> "a" :> Map(<<"lib">> :> "d", <<>>)]}
Node(host, answer, to, imports) == [host |-> host, answer |-> answer, to |-> to, imports |-> imports]
Answers(u) == {Node("cdn", "ok", u, {Lib, Sub}), Node("cdn", "ok", u, {ToUrl("c")}),
               Node("cdn", "gone", u, {}), Node("cdn", "outage", u, {}),
               Node("cdn", "redirect", "d", {}), Node("fonts", "redirect", "c", {}),
               Node("elsewhere", "ok", u, {})}
Networks == {[u \in Urls |-> CASE u = "a" -> na [] u = "b" -> nb [] u = "c" -> nc [] u = "d" -> nd]
             : na \in Answers("a"), nb \in Answers("b"), nc \in Answers("c"), nd \in Answers("d")}
Crawl == INSTANCE PanelDependencies WITH MaxDependencies <- 3, MaxRedirects <- 1

-----------------------------------------------------------------------------
(* Two pinned panels that share an event.                                  *)
Declared(names, ops) == [thingId |-> "t", ops |-> ops, affordances |-> names]
Allowlist == [f \in {f1, f2} |->
    <<Declared(<<"e", Blank>>, <<"subscribeEvent", "readProperty", "subscribe">>),
      Declared(<<>>, <<"subscribe">>)>>]
KeyOf(c) == c.name
Bridge == INSTANCE PanelBridge WITH
    Keys <- {"e"}, Frames <- {f1, f2}, Pinned <- {f1, f2},
    Requested <- {C("subscribeEvent", "e"), C("invokeAction", "p")},
    MaxCalls <- 2, MaxInbox <- 2, MaxSubs <- 2

(* Agents outside that poll a subscription, as the panels do.              *)
Agents == INSTANCE RawSubscriptions WITH
    subs <- held, call <- asked, Contexts <- {"c"}, Tasks <- {"t"}, Polls <- {"poll"},
    Sweeper <- "sweep", None <- NoUrl, MaxIds <- 2, MaxEvents <- 1, MaxClock <- 1, MaxFaults <- 1

-----------------------------------------------------------------------------
(* Live sessions: three agents that start and end together, one camera that *)
(* is switched, two agents of a room with its camera, and two rooms of two   *)
(* conversations.                                                            *)
NoPictures == [r \in {"r", "s"} |-> 0]
Starts == INSTANCE LiveSessions WITH
    lock <- guard, seen <- shown, late <- drained, faults <- failed, None <- NoUrl,
    Rooms <- {"r", "s"}, ThreadOf <- [r \in {"r", "s"} |-> "c"], Tracks <- {}, MaxAgents <- 2,
    MaxFrames <- NoPictures, MaxTurns <- 0, MaxSwitches <- 0, MaxFaults <- 1
Camera == INSTANCE LiveSessions WITH
    lock <- guard, seen <- shown, late <- drained, faults <- failed, None <- NoUrl,
    Rooms <- {"r"}, ThreadOf <- "r" :> "c", Tracks <- {"t", "u"}, MaxAgents <- 1,
    MaxFrames <- "r" :> 2, MaxTurns <- 2, MaxSwitches <- 1, MaxFaults <- 0
Pair == INSTANCE LiveSessions WITH
    lock <- guard, seen <- shown, late <- drained, faults <- failed, None <- NoUrl,
    Rooms <- {"r"}, ThreadOf <- "r" :> "c", Tracks <- {"t"}, MaxAgents <- 2,
    MaxFrames <- "r" :> 1, MaxTurns <- 1, MaxSwitches <- 0, MaxFaults <- 1
Apart == INSTANCE LiveSessions WITH
    lock <- guard, seen <- shown, late <- drained, faults <- failed, None <- NoUrl,
    Rooms <- {"r", "s"}, ThreadOf <- "r" :> "c" @@ "s" :> "d", Tracks <- {"t"}, MaxAgents <- 1,
    MaxFrames <- [NoPictures EXCEPT !["r"] = 1], MaxTurns <- 1, MaxSwitches <- 0, MaxFaults <- 0

-----------------------------------------------------------------------------
PanelsInit ==
    \/ /\ part = "shared" /\ Shared!Init
       /\ NoCheck /\ NoCrawl /\ NoBridge /\ NoLeases /\ NoCalls
    \/ /\ part = "single" /\ Single!Init
       /\ NoCheck /\ NoCrawl /\ NoBridge /\ NoLeases /\ NoCalls
    \/ /\ part = "validation" /\ Validation!Init
       /\ NoStore /\ NoCrawl /\ NoBridge /\ NoLeases /\ NoCalls
    \/ /\ part = "crawl" /\ Crawl!Init
       /\ NoStore /\ NoCheck /\ NoBridge /\ NoLeases /\ NoCalls
    \/ /\ part = "bridge" /\ Bridge!BridgeInit
       /\ NoStore /\ NoCheck /\ NoCrawl /\ NoLeases /\ NoCalls
    \/ /\ part = "polls" /\ Agents!Init
       /\ NoStore /\ NoCheck /\ NoCrawl /\ NoBridge /\ NoCalls
    \/ /\ \/ part = "starts" /\ Starts!LiveInit
          \/ part = "camera" /\ Camera!LiveInit
          \/ part = "pair" /\ Pair!LiveInit
          \/ part = "apart" /\ Apart!LiveInit
       /\ NoStore /\ NoCheck /\ NoCrawl /\ NoBridge /\ NoLeases

PanelsNext ==
    /\ UNCHANGED part
    /\ \/ part = "shared" /\ Shared!Next /\ UNCHANGED <<checkVars, crawlVars, bridgeVars, leaseVars, liveVars>>
       \/ part = "single" /\ Single!Next /\ UNCHANGED <<checkVars, crawlVars, bridgeVars, leaseVars, liveVars>>
       \/ part = "validation" /\ Validation!Next /\ UNCHANGED <<storeVars, crawlVars, bridgeVars, leaseVars, liveVars>>
       \/ part = "crawl" /\ Crawl!Next /\ UNCHANGED <<storeVars, checkVars, bridgeVars, leaseVars, liveVars>>
       \/ part = "bridge" /\ Bridge!BridgeNext /\ UNCHANGED <<storeVars, checkVars, crawlVars, leaseVars, liveVars>>
       \/ part = "polls" /\ Agents!RawNext /\ UNCHANGED <<storeVars, checkVars, crawlVars, bridgeVars, liveVars>>
       \/ /\ \/ part = "starts" /\ Starts!LiveNext
             \/ part = "camera" /\ Camera!LiveNext
             \/ part = "pair" /\ Pair!LiveNext
             \/ part = "apart" /\ Apart!LiveNext
          /\ UNCHANGED <<storeVars, checkVars, crawlVars, bridgeVars, leaseVars>>

allVars == <<part, storeVars, checkVars, crawlVars, bridgeVars, leaseVars, liveVars>>

PanelsSpec == PanelsInit /\ [][PanelsNext]_allVars

Symmetry == Permutations({p1, p2}) \cup Permutations({f1, f2}) \cup Permutations(Html) \cup Permutations(Req)

(* The properties of the parts.                                            *)
PanelsKept == /\ part = "shared" => Shared!PanelsKept
              /\ part = "single" => Single!PanelsKept
BridgeFaithful == /\ part = "bridge" => Bridge!BridgeFaithful
                  /\ part = "polls" => Agents!RawSound
                  /\ part = "starts" => Starts!LiveSound
                  /\ part = "camera" => Camera!LiveSound
                  /\ part = "pair" => Pair!LiveSound
                  /\ part = "apart" => Apart!LiveSound
=============================================================================
