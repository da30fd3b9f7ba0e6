------------------------------ MODULE MCServients ------------------------------
(***************************************************************************)
(* The two node-wot processes on small instances.  A behaviour is one of    *)
(* one part: the virtual servient with its loop and two reconciliations     *)
(* that may overlap; the WoT runtime's client with one request, two         *)
(* refreshes of its secrets that may overtake each other and two changes;   *)
(* two requests of the runtime that share its cache, and one change; or the *)
(* leases that external agents hold on subscriptions of the runtime.         *)
(***************************************************************************)
EXTENDS VirtualServient, TLC

CONSTANTS Absent, Malformed, Ambiguous

VARIABLES part,
          document, registry, reachable, edits, wot, loaded, store, refresh, cache, req,
          clock, rows, subs, made, stream, authorized, lock, call, late, sweep, cut, ended,
          mishaps, misled                                          \* RawSubscriptions

leaseVars == <<clock, rows, subs, made, stream, authorized, lock, call, late, sweep, cut, ended,
               mishaps, misled>>
runtimeVars == <<document, registry, reachable, edits, wot, loaded, store, refresh, cache, req>>

(* Two descriptions of the affordance: an action with a form that only CoAP *)
(* serves, one whose href is relative, one to post to; a property whose     *)
(* writes go through the provider.                                          *)
Form(ops, scheme, method) ==
    [ops |-> ops, href |-> "h", scheme |-> scheme, subprotocols |-> {}, method |-> method]
Doc(forms, safe, input, variables) ==
    [defined |-> TRUE, forms |-> forms, base |-> "https", safe |-> safe, synchronous |-> TRUE,
     input |-> input, variables |-> variables, security |-> [name |-> "s", scheme |-> "bearer"]]
MCDocuments ==
    {Doc(<<Form({"invokeaction"}, "coap", Absent), Form({}, Absent, "GET"),
           Form({"invokeaction"}, "https", "POST")>>, TRUE, "optional", {"v"}),
     Doc(<<Form({}, "https", "POST"), Form({"writeproperty"}, "provider", "GET")>>,
         FALSE, "required", {})}

Selector(index, scheme) ==
    [index |-> index, href |-> Absent, scheme |-> scheme, subprotocol |-> Absent]
Body(op, selector, raw, fields, names) ==
    [op |-> op, named |-> TRUE, selector |-> selector, raw |-> raw, fields |-> fields, names |-> names]
Invoke == Body("invokeaction", Selector(Absent, Absent), "absent", {}, {})
ReadBody == Body("readproperty", Selector(1, Absent), "absent", {}, {})
MCBodies ==
    {Invoke,
     Body("invokeaction", Selector(Absent, Absent), "object", {"v", "w"}, {}),
     Body("invokeaction", Selector(3, Absent), "object", {"v"}, {"v"}),
     Body("writeproperty", Selector(Absent, "https"), "empty", {}, {}),
     Body("writeproperty", Selector(Absent, Absent), "null", {}, {})}

(* Entries under the document's name, two of its scheme, and another one.  *)
Entry(name, scheme) == [name |-> name, scheme |-> scheme]
MCSecrets == {{Entry("s", "bearer"), Entry("t", "bearer")},
              {Entry("t", "bearer"), Entry("u", "bearer")}, {Entry("u", "basic")}}

Client == INSTANCE WotInteractions WITH
    catalog <- document, changes <- edits,
    Requests <- {"r1"}, Bodies <- {ReadBody}, Refreshes <- {"f1", "f2"}, MaxChanges <- 2,
    Documents <- MCDocuments, Secrets <- MCSecrets, FileSecrets <- Malformed,
    Schemes <- {"https", "provider"}

Traffic == INSTANCE WotInteractions WITH
    catalog <- document, changes <- edits,
    Requests <- {"r1", "r2"}, Bodies <- MCBodies, Refreshes <- {}, MaxChanges <- 1,
    Documents <- MCDocuments, Secrets <- MCSecrets, FileSecrets <- Malformed,
    Schemes <- {"https", "provider"}

(* The raw subscriptions of one context: what lapses is swept.             *)
Leases == INSTANCE RawSubscriptions WITH
    faults <- mishaps, Contexts <- {"c"}, Tasks <- {"t"}, Polls <- {}, Sweeper <- "sweep",
    MaxIds <- 2, MaxEvents <- 0, MaxClock <- 1, MaxFaults <- 1

NoLeases == /\ clock = 0 /\ rows = <<>> /\ subs = <<>> /\ made = None /\ stream = <<>>
            /\ authorized = {} /\ lock = <<>> /\ call = <<>> /\ late = {} /\ sweep = None
            /\ cut = {} /\ ended = <<>> /\ mishaps = 0 /\ misled = FALSE
Idling == /\ document = None /\ registry = None /\ reachable = TRUE /\ edits = 0
          /\ wot = "none" /\ loaded = None /\ store = None
          /\ refresh = <<>> /\ cache = <<>> /\ req = <<>>

ServientsInit ==
    /\ Init
    /\ \/ part = "servient" /\ Idling /\ NoLeases
       \/ part = "client" /\ Client!InteractionsInit /\ NoLeases
       \/ part = "traffic" /\ Traffic!InteractionsInit /\ NoLeases
       \/ part = "leases" /\ Leases!Init /\ Idling

ServientsNext ==
    /\ UNCHANGED part
    /\ \/ part = "servient" /\ Next /\ UNCHANGED <<runtimeVars, leaseVars>>
       \/ part = "client" /\ Client!InteractionsNext /\ UNCHANGED <<vars, leaseVars>>
       \/ part = "traffic" /\ Traffic!InteractionsNext /\ UNCHANGED <<vars, leaseVars>>
       \/ part = "leases" /\ Leases!RawNext /\ UNCHANGED <<vars, runtimeVars>>

(* The fairness of each part, as its own module states it.                 *)
ServientsSpec ==
    /\ ServientsInit /\ [][ServientsNext]_<<part, vars, runtimeVars, leaseVars>>
    /\ WF_vars(part = "servient" /\ LoopStep)
    /\ \A p \in Sweeps : WF_vars(part = "servient" /\ SweepStep(p))
    /\ WF_runtimeVars(part = "client" /\ Client!Recover)
    /\ WF_runtimeVars(part = "client" /\ Client!LoadSecrets)
    /\ WF_runtimeVars(part = "client" /\ (Client!StartClient \/ Client!FailStart))
    /\ \A f \in {"f1", "f2"} :
          /\ WF_runtimeVars(part = "client" /\ Client!FetchSecrets(f))
          /\ WF_runtimeVars(part = "client" /\ Client!ApplySecrets(f))
    /\ WF_runtimeVars(part = "client" /\ Client!Handle("r1"))
    /\ WF_leaseVars(part = "leases" /\ Leases!TaskStep("t"))
    /\ WF_leaseVars(part = "leases" /\ Leases!LateStep)
    /\ SF_leaseVars(part = "leases" /\ Leases!SweepEnters)
    /\ WF_leaseVars(part = "leases" /\ Leases!SweepStep)


InteractionsSound == /\ part = "client" => Client!InteractionsSound
                     /\ part = "traffic" => Traffic!InteractionsSound
=============================================================================
