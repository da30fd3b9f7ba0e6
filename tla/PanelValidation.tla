--------------------------- MODULE PanelValidation ---------------------------
(***************************************************************************)
(* create_web_interface (agent/tools/create_web_interface.py): the checks  *)
(* a generated panel passes before it is delivered, and the repair         *)
(* accounting that bounds them (panels/attempts.py, browser.py,            *)
(* browser_validator.py, reports.py, edit.py).                             *)
(*                                                                         *)
(* A turn is a conversation.  Its log is what the accounting reads of the  *)
(* checkpointed messages: the user's requests, the agent's messages with   *)
(* one or two panel calls, and their results.  The validator service is    *)
(* shared by all conversations and has one slot.                           *)
(***************************************************************************)
EXTENDS Naturals, Sequences, FiniteSets, PanelCapabilities

CONSTANTS Turns,        \* conversations
          Pages,        \* panels the agent may write: see PageType
          MaxRepairs,   \* panel_max_repairs
          MaxReads,     \* MAX_READS of browser_protocol.py
          MaxLog        \* bound: entries of a log

(* What a page is here: its allowlist, the literal and the computed calls  *)
(* of its script, whether anything else static is wrong with it, whether   *)
(* it attaches data, and its claims about itself.                          *)
PageType == [caps : Seq([thingId : Things, ops : Seq(Ops), affordances : Seq(Names)]),
             literal : SUBSET [op : Ops, thing : Things, name : Names],
             computed : SUBSET [op : Ops, thing : Things, name : Names],
             broken : BOOLEAN, data : BOOLEAN,
             checks : {"none", "passed", "failed"}]

VARIABLES log,     \* [Turns -> sequence of entries]
          call,    \* [Turns -> the panel call under way]
          slot     \* who holds the validator: a turn, "free" or "elsewhere"

vars == <<log, call, slot>>

Human == [kind |-> "human"]
Calls(n) == [kind |-> "calls", calls |-> n]
Result(status, counted, delivered) ==
    [kind |-> "result", status |-> status, counted |-> counted, delivered |-> delivered]

NoCall == [stage |-> "none"]

-----------------------------------------------------------------------------
(* current_attempt: a fold over the messages of the conversation.          *)
FreshAttempt == [number |-> 1, blocked |-> "no"]

Blocked(a, status, number) ==
    IF status \in {"unavailable", "inconclusive"} THEN "inconclusive"
    ELSE IF number > MaxRepairs + 1 /\ a.blocked = "no" THEN "exhausted" ELSE a.blocked

Account(a, e) ==
    IF e.kind = "human" THEN FreshAttempt
    ELSE IF e.kind = "calls" \/ ~e.counted THEN a
    ELSE IF e.delivered THEN FreshAttempt
    ELSE [number |-> a.number + 1, blocked |-> Blocked(a, e.status, a.number + 1)]

CurrentAttempt(l) ==
    LET upTo[i \in 0..Len(l)] ==
          IF i = 0 THEN FreshAttempt ELSE Account(upTo[i - 1], l[i])
    IN upTo[Len(l)]

(* retry_allowed of the metadata in a result.                              *)
RetryAllowed(l, status) == status = "failed" /\ CurrentAttempt(l).number <= MaxRepairs

-----------------------------------------------------------------------------
(* validate_panel: what is wrong with a page that can be told statically.  *)
StaticProblems(page) ==
    page.broken \/ \E c \in page.literal : ~IsAllowed(page.caps, c)

(* The verdict of inspect_document from the kinds of diagnostics.          *)
Undecided == {"timeout", "readiness", "browser", "bridge_blocked", "read_unavailable",
              "read_limit", "dependency_unavailable"}
Verdict(kinds) == IF kinds = {} THEN "passed"
                  ELSE IF kinds \cap Undecided # {} THEN "inconclusive" ELSE "failed"

(* What the page's self-checks add: a diagnostic ends the wait for them.   *)
CheckKinds(page) == CASE page.checks = "passed" -> {}
                      [] page.checks = "failed" -> {"self_check"}
                      [] page.checks = "none" -> {"readiness"}
ChecksRead(page, kinds) ==
    IF kinds = {} THEN {CheckKinds(page)} ELSE {{}, CheckKinds(page) \ {"readiness"}}

-----------------------------------------------------------------------------
Init == /\ log = [t \in Turns |-> <<Human>>]
        /\ call = [t \in Turns |-> NoCall]
        /\ slot = "free"

Stage(t, s) == call[t].stage = s
Set(t, c) == call' = [call EXCEPT ![t] = c]

(* ToolNode appends the results of one message together, in call order:    *)
(* a second panel call of the same message is refused.                     *)
Parallel(n) == [i \in 1..(n - 1) |-> Result("blocked", FALSE, FALSE)]
Append1(t, n, result) == log' = [log EXCEPT ![t] = @ \o <<result>> \o Parallel(n)]

(* finish: the report is stored, or the panel is not delivered at all.     *)
Finish(t, status, delivered) ==
    /\ \/ Append1(t, call[t].calls, Result(status, TRUE, delivered))
       \/ Append1(t, call[t].calls, Result("unavailable", TRUE, FALSE))
    /\ Set(t, NoCall)

(* The user writes: whatever ran is over; a worker may still run.          *)
UserRequest(t) ==
    /\ Len(log[t]) < MaxLog
    /\ log[t][Len(log[t])] # Human
    /\ log' = [log EXCEPT ![t] = Append(@, Human)]
    /\ Set(t, NoCall)
    /\ slot' = IF slot = t THEN "elsewhere" ELSE slot

(* A message without a panel call changes nothing the accounting reads.    *)
Answer(t) == Stage(t, "none") /\ UNCHANGED vars

(* The agent calls the tool once or twice in one message.                  *)
CallTool(t, page, n) ==
    /\ Stage(t, "none")
    /\ Len(log[t]) < MaxLog
    /\ UNCHANGED slot
    /\ IF CurrentAttempt(log[t]).blocked = "no"
       THEN /\ log' = [log EXCEPT ![t] = Append(@, Calls(n))]
            /\ Set(t, [stage |-> "static", page |-> page, calls |-> n, kinds |-> {},
                      todo |-> page.literal \cup page.computed,
                      attempts |-> 0, reads |-> {}])
       ELSE /\ log' = [log EXCEPT ![t] = Append(@, Calls(n))
                                  \o <<Result("blocked", FALSE, FALSE)>> \o Parallel(n)]
            /\ UNCHANGED call

CheckStatic(t) ==
    /\ Stage(t, "static")
    /\ IF StaticProblems(call[t].page) \/ (call[t].page.caps = <<>> /\ ~call[t].page.data)
       THEN Finish(t, "failed", FALSE)
       ELSE Set(t, [call[t] EXCEPT !.stage = "data"]) /\ UNCHANGED log
    /\ UNCHANGED slot

(* resolve_data: missing or malformed data fails the panel, an executor    *)
(* that does not answer makes the validation unavailable.                  *)
ResolveData(t) ==
    /\ Stage(t, "data")
    /\ \/ Set(t, [call[t] EXCEPT !.stage = "submit"]) /\ UNCHANGED log
       \/ call[t].page.data /\ \E s \in {"failed", "unavailable"} : Finish(t, s, FALSE)
    /\ UNCHANGED slot

(* The database fails: the tool raises, and its error message counts as a  *)
(* failed attempt.                                                         *)
ToolRaises(t) ==
    /\ Stage(t, "data")
    /\ call[t].page.data
    /\ Append1(t, call[t].calls, Result("raised", TRUE, FALSE))
    /\ Set(t, NoCall)
    /\ UNCHANGED slot

(* validate_in_browser: one worker at a time, a busy or absent service is  *)
(* an unavailable validation.                                              *)
StartWorker(t) ==
    /\ Stage(t, "submit")
    /\ slot = "free"
    /\ slot' = t
    /\ Set(t, [call[t] EXCEPT !.stage = "running"])
    /\ UNCHANGED log

ServiceUnavailable(t) ==
    /\ Stage(t, "submit")
    /\ Finish(t, "unavailable", FALSE)
    /\ UNCHANGED slot

Diagnose(t, kind) == [call[t] EXCEPT !.kinds = @ \cup {kind}]

(* A call of the page's script.  The worker checks it, then the caller's   *)
(* relay checks it again and reads the property, within five seconds.      *)
PageCalls(t, c) ==
    LET problem == RequestProblem(call[t].page.caps, c)
        made == [call[t] EXCEPT !.todo = @ \ {c}]
    IN /\ Stage(t, "running")
       /\ c \in call[t].todo
       /\ \/ /\ problem # "none"
             /\ Set(t, [made EXCEPT !.kinds = @ \cup {problem}])
          \/ /\ problem = "none"
             /\ call[t].attempts >= MaxReads
             /\ Set(t, [made EXCEPT !.kinds = @ \cup {"read_limit"}])
          \/ /\ problem = "none"
             /\ call[t].attempts < MaxReads
             /\ \E k \in {{}, {"read_unavailable"}} :
                  Set(t, [made EXCEPT !.attempts = @ + 1, !.reads = @ \cup {c},
                                      !.kinds = @ \cup k])
       /\ UNCHANGED <<log, slot>>

(* A script error, a blocked request, or a dependency that is down.        *)
PageFails(t, kind) ==
    /\ Stage(t, "running")
    /\ call[t].kinds = {}
    /\ Set(t, Diagnose(t, kind))
    /\ UNCHANGED <<log, slot>>

(* Initialization has ended: the verdict is final and the worker ends.     *)
Inspected(t) ==
    /\ Stage(t, "running")
    /\ call[t].todo = {} \/ call[t].kinds # {}
    /\ slot' = "free"
    /\ \E claims \in ChecksRead(call[t].page, call[t].kinds) :
         LET status == Verdict(call[t].kinds \cup claims)
         IN IF status = "passed"
            THEN Set(t, [call[t] EXCEPT !.stage = "store"]) /\ UNCHANGED log
            ELSE Finish(t, status, FALSE)

(* The worker is killed at its deadline, or fails.                         *)
WorkerEnds(t, status) ==
    /\ Stage(t, "running")
    /\ slot' = "free"
    /\ Finish(t, status, FALSE)

(* The worker of a caller that is gone, or of another client, starts or ends.*)
Elsewhere == /\ slot \in {"free", "elsewhere"}
             /\ slot' = IF slot = "free" THEN "elsewhere" ELSE "free"
             /\ UNCHANGED <<log, call>>

(* store_web_artifact, after an advisory visual review.                    *)
StoreArtifact(t) ==
    /\ Stage(t, "store")
    /\ \/ Finish(t, "passed", TRUE)
       \/ Finish(t, "unavailable", FALSE)
    /\ UNCHANGED slot

Next == \E t \in Turns :
    \/ UserRequest(t) \/ Answer(t)
    \/ \E page \in Pages, n \in 1..2 : CallTool(t, page, n)
    \/ CheckStatic(t) \/ ResolveData(t) \/ ToolRaises(t) \/ StartWorker(t) \/ ServiceUnavailable(t)
    \/ \E c \in [op : Ops, thing : Things, name : Names] : PageCalls(t, c)
    \/ \E kind \in {"javascript", "dependency_unavailable"} : PageFails(t, kind)
    \/ Inspected(t) \/ StoreArtifact(t) \/ Elsewhere
    \/ \E status \in {"inconclusive", "unavailable"} : WorkerEnds(t, status)

Spec == Init /\ [][Next]_vars

-----------------------------------------------------------------------------
(* _extract_edit_result: what a panel edit takes from the results, the     *)
(* last panel delivered or the evidence of the last failure.               *)
EditResult(l) ==
    LET results == SelectSeq(l, LAMBDA e : e.kind = "result")
        passed == SelectSeq(results, LAMBDA e : e.delivered)
        evidence == SelectSeq(results, LAMBDA e : e.status # "blocked")
    IN IF passed # <<>> THEN passed[Len(passed)]
       ELSE IF evidence # <<>> THEN evidence[Len(evidence)]
       ELSE IF results # <<>> THEN results[1] ELSE Human

(* The failed attempts since the user last wrote or a panel was delivered. *)
Failures(l) ==
    {i \in DOMAIN l : /\ l[i].kind = "result"
                      /\ l[i].counted
                      /\ \A j \in i..Len(l) : l[j] # Human /\ (l[j].kind = "result" => ~l[j].delivered)}

(* One request of the user costs at most one validation and MaxRepairs     *)
(* repairs, and none after an inconclusive one, however the agent calls.   *)
AttemptsBounded ==
    \A t \in Turns :
      /\ Cardinality(Failures(log[t])) <= MaxRepairs + 1
      /\ call[t] # NoCall =>
           /\ Cardinality(Failures(log[t])) <= MaxRepairs
           /\ \A i \in Failures(log[t]) : log[t][i].status \in {"failed", "raised"}

(* While a panel is validated, in the one worker, nothing but a few reads  *)
(* of properties it declares reaches a Thing.                              *)
ReadsBounded ==
    \A t \in Turns : Stage(t, "running") =>
      /\ slot = t
      /\ Cardinality(call[t].reads) <= MaxReads
      /\ \A c \in call[t].reads : c.op = "readProperty" /\ IsAllowed(call[t].page.caps, c)

(* A delivered panel made no call the user's bridge would refuse while it  *)
(* initialized, and an edit that failed shows a real attempt's evidence.   *)
DeliveredWorks ==
    \A t \in Turns :
      /\ Stage(t, "store") =>
           \A c \in call[t].reads : IsInteractionAllowed(ParseCapabilities(call[t].page.caps), c)
      /\ (\E i \in DOMAIN log[t] : log[t][i].kind = "result" /\ log[t][i].counted) =>
           EditResult(log[t]).status # "blocked"

ValidationBounded == AttemptsBounded /\ ReadsBounded /\ DeliveredWorks
=============================================================================
