----------------------------- MODULE AgentGraph -----------------------------
(***************************************************************************)
(* The two graphs of the agent (wotbot/agent/builder.py): the chat graph   *)
(* with its router, action branches and hand-offs between them, and the    *)
(* graph of a background job together with what the executor makes of its  *)
(* outcome (jobs/graph_results.py).                                        *)
(*                                                                         *)
(* The graph library checkpoints the state after every node.  All calls of *)
(* an assistant message run at the same time inside one node: when one of  *)
(* them waits for the user the node is given up, and it is run again from  *)
(* its start, every call of it, once the answer is there.                  *)
(***************************************************************************)
EXTENDS Conversation

CONSTANTS
    Branches,       \* the action branches of the chat graph
    MaxTokens,      \* max_context_tokens
    RecursionLimit, \* the nodes a graph may run for one input
    MaxParallel,    \* bound: calls in one assistant message
    MaxCalls,       \* bound: calls in a conversation
    MaxInputs       \* bound: messages, replies and answers of the user

ASSUME AgentGraphAssumption ==
    /\ Branches \subseteq {"control", "analysis", "jobs", "virtual_things", "discovery"}
    /\ {MaxTokens, RecursionLimit, MaxParallel, MaxCalls, MaxInputs} \subseteq Nat

VARIABLES
    job,        \* the job the graph runs for, or Chat
    messages,   \* the conversation
    next,       \* the branch a hand-off asked for
    node,       \* the node that runs next, or where the graph stopped
    steps,      \* nodes run for this input
    todo,       \* calls of the running tools node that have not come back
    results,    \* the results of the others, by call
    answers,    \* the user's answers to the calls of this node, in order
    asked,      \* the call a paused graph waits for
    acted,      \* the calls that took effect on a device
    record,     \* whether the record of the job's run is stored
    run,        \* the job's run
    inputs,     \* what the user has sent so far
    cut         \* history: a turn was cut short after a hand-off was asked for

vars == <<job, messages, next, node, steps, todo, results, answers, asked,
          acted, record, run, inputs, cut>>

working == <<todo, results, answers, asked>>

Chat == [output |-> "none", checkin |-> FALSE]
Jobs == [output: {"text", "structured_record"}, checkin: BOOLEAN]

Structured == job.output = "structured_record"

At(where, branch) == [at |-> where, branch |-> branch]
Idle == At("idle", "")

None == ""

(***************************************************************************)
(* What the model may call                                                 *)
(***************************************************************************)
Call(id, tool, arg) == [id |-> id, tool |-> tool, arg |-> arg]

\* Calls by what they do: ask for the time, act on a device, run code, ask the
\* owner of the job, submit its record, or continue in another branch.
Tools(branch) ==
    CASE branch = "chat" -> {"get_current_time"}
      [] branch = "job"  -> {"wot_invoke_action", "run_code", "ask_job_user"} \cup
                            (IF Structured THEN {"submit_job_record"} ELSE {})
      [] branch \in {"control", "discovery", "virtual_things"} -> {"wot_invoke_action", "route_to"}
      [] branch \in {"analysis", "jobs"} -> {"run_code", "route_to"}

Args(tool) ==
    CASE tool = "route_to"          -> Branches
      [] tool = "ask_job_user"      -> {"question", "blank"}
      [] tool = "submit_job_record" -> {"valid", "invalid"}
      [] OTHER                      -> {None}

\* Whether a message has any text matters only for jobs.
Wording == IF job = Chat THEN {TRUE} ELSE BOOLEAN

Interrupting == {"wot_invoke_action", "ask_job_user"}
Effective    == {"wot_invoke_action", "run_code"}

Known == Ids(AllCalls(messages))

TypeOK ==
    /\ job \in Jobs \cup {Chat}
    /\ \A k \in DOMAIN messages : messages[k].from \in {"human", "ai", "tool", "summary"}
    /\ next \in Branches \cup {None}
    /\ node.at \in {"idle", "router", "llm", "tools", "dispatch", "summary", "paused", "end"}
    /\ node.branch \in Branches \cup {"chat", "job", ""}
    /\ steps \in 0..RecursionLimit
    /\ todo \cup DOMAIN results \cup acted \subseteq Known
    /\ asked \in {0} \cup Known
    /\ record \in BOOLEAN
    /\ run.status \in {"none", "running", "waiting_for_input", "succeeded", "failed"}
    /\ run.pending \in BOOLEAN /\ run.replied \in BOOLEAN
    /\ inputs \in 0..MaxInputs /\ cut \in BOOLEAN

NewRun == [status |-> "none", pending |-> FALSE, replied |-> FALSE]

Init ==
    /\ job \in Jobs \cup {Chat}
    /\ messages = <<>> /\ next = None
    /\ node = Idle /\ steps = 0
    /\ todo = {} /\ results = <<>> /\ answers = <<>> /\ asked = 0
    /\ acted = {}
    /\ record = FALSE
    /\ run = NewRun
    /\ inputs = 0 /\ cut = FALSE

(***************************************************************************)
(* Running nodes                                                           *)
(***************************************************************************)
\* A node that ran hands over to the next one, if the limit allowed it to run.
Step(to) ==
    /\ steps < RecursionLimit
    /\ steps' = steps + 1
    /\ node' = to

GiveUpWork == todo' = {} /\ results' = <<>> /\ answers' = <<>> /\ asked' = 0

Route(branch) ==
    /\ node.at = "router"
    /\ Step(At("llm", branch))
    /\ UNCHANGED <<job, messages, next, working, acted, record, run, inputs, cut>>

\* Where the answer of a branch leads.
BranchEnd(branch) ==
    CASE branch = "chat" -> At("summary", "")
      [] branch = "job"  -> At("end", "")
      [] OTHER           -> At("dispatch", "")

Answer(text) ==
    /\ node.at = "llm"
    /\ Step(BranchEnd(node.branch))
    /\ messages' = Append(messages, Ai(<<>>, text))
    /\ UNCHANGED <<job, next, working, acted, record, run, inputs, cut>>

\* The model answers with tool calls.  Its text beside them matters only if it
\* stands in for a blank question.
CallTools(tools, args, text) ==
    LET calls == [k \in DOMAIN tools |-> Call(Cardinality(Known) + k, tools[k], args[k])]
    IN  /\ node.at = "llm" /\ Cardinality(Known) + Len(tools) <= MaxCalls
        /\ \A k \in DOMAIN tools : tools[k] \in Tools(node.branch) /\ args[k] \in Args(tools[k])
        /\ text => "blank" \in Range(args)
        /\ Step(At("tools", node.branch))
        /\ messages' = Append(messages, Ai(calls, text))
        /\ todo' = Ids(calls)
        /\ UNCHANGED <<job, next, results, answers, asked, acted, record, run, inputs, cut>>

(***************************************************************************)
(* The calls of a tools node                                               *)
(***************************************************************************)
Running(c) == node.at = "tools" /\ steps < RecursionLimit /\ c.id \in todo

CurrentCalls == Calls(Last(messages))

Return(c, result) ==
    /\ todo' = todo \ {c.id}
    /\ results' = (c.id :> result) @@ results

\* The call acted, and says so or fails on the way back: code that failed after
\* it acted reports that like code that did not fail, an executor that does not
\* answer reports nothing.
Perform(c) ==
    /\ Running(c) /\ c.tool \in Effective
    /\ acted' = acted \cup {c.id}
    /\ \E result \in {"done", "error"} : Return(c, result)
    /\ UNCHANGED <<job, messages, next, node, steps, answers, asked, record, run, inputs, cut>>

\* The call did nothing outside of the graph.
ReturnOnly(c) ==
    /\ Running(c)
    /\ \/ c.tool = "get_current_time" /\ Return(c, "done")
       \/ c.tool \in Effective /\ Return(c, "error")
    /\ UNCHANGED <<job, messages, next, node, steps, answers, asked, acted, record, run, inputs, cut>>

RouteTo(c) ==
    /\ Running(c) /\ c.tool = "route_to"
    /\ Return(c, IF c.arg = node.branch THEN "here" ELSE "routed")
    /\ UNCHANGED <<job, messages, next, node, steps, answers, asked, acted, record, run, inputs, cut>>

\* The first valid submission of a run is stored, and later ones are answered
\* with it; data that does not fit the schema is refused.  The Thing of the
\* records may be gone.
SubmitJobRecord(c) ==
    /\ Running(c) /\ c.tool = "submit_job_record"
    /\ \/ c.arg = "valid"   /\ Return(c, "recorded") /\ record' = TRUE
       \/ c.arg = "valid"   /\ Return(c, "broken")   /\ UNCHANGED record
       \/ c.arg = "invalid" /\ Return(c, "refused")  /\ UNCHANGED record
    /\ UNCHANGED <<job, messages, next, node, steps, answers, asked, acted, run, inputs, cut>>

\* Answers are handed out in the order in which calls wait for one, whoever
\* asked first.
Taken == Cardinality({id \in DOMAIN results : results[id] \in {"answered", "exhausted", "cancelled"}})

\* A call whose question was answered, or whose credential was refused again.
TakeAnswer(c) ==
    /\ Running(c) /\ c.tool \in Interrupting
    /\ Taken < Len(answers)
    /\ Return(c, CASE c.tool = "ask_job_user" -> "answered"
                   [] answers[Taken + 1] = "credential_saved" -> "exhausted"
                   [] OTHER -> "cancelled")
    /\ UNCHANGED <<job, messages, next, node, steps, answers, asked, acted, record, run, inputs, cut>>

\* A call waits for the user: the node is given up with what it has got, and
\* calls that have not come back may still act.
Interrupt(c) ==
    /\ Running(c) /\ c.tool \in Interrupting
    /\ Taken = Len(answers)
    /\ node' = At("paused", node.branch)
    /\ asked' = c.id
    /\ todo' = {} /\ results' = <<>>
    /\ \E late \in SUBSET {d.id : d \in {e \in Range(CurrentCalls) : e.tool \in Effective}} :
         /\ late \subseteq todo \ {c.id}
         /\ acted' = acted \cup late
    /\ UNCHANGED <<job, messages, next, steps, answers, record, run, inputs, cut>>

\* A tools node is followed by its branch, or by the hand-off it asked for.
AfterTools(branch, requested) ==
    IF branch \in Branches /\ requested # None THEN At("dispatch", "") ELSE At("llm", branch)

Handoffs == SelectSeq(CurrentCalls, LAMBDA c : c.id \in DOMAIN results /\ results[c.id] = "routed")

ToolsDone == node.at = "tools" /\ todo = {} /\ steps < RecursionLimit

EndTools ==
    LET requested == IF Handoffs = <<>> THEN next ELSE Head(Handoffs).arg
    IN  /\ ToolsDone /\ Len(Handoffs) <= 1
        /\ Step(AfterTools(node.branch, requested))
        /\ messages' = messages \o Each(LAMBDA c : Tool(c, results[c.id]), CurrentCalls)
        /\ next' = requested
        /\ GiveUpWork
        /\ UNCHANGED <<job, acted, record, run, inputs, cut>>

(***************************************************************************)
(* The end of a turn                                                       *)
(***************************************************************************)
\* Mutant: the request is not cleared.
DispatchKeepingNext ==
    /\ node.at = "dispatch"
    /\ Step(IF next = None THEN At("summary", "") ELSE At("llm", next))
    /\ UNCHANGED <<job, messages, next, working, acted, record, run, inputs, cut>>

Dispatch ==
    /\ node.at = "dispatch"
    /\ Step(IF next = None THEN At("summary", "") ELSE At("llm", next))
    /\ next' = None
    /\ UNCHANGED <<job, messages, working, acted, record, run, inputs, cut>>

DeviceSummary ==
    LET interactions == LatestTurnDeviceInteractions(messages)
    IN  /\ node.at = "summary"
        /\ Step(At("end", ""))
        /\ messages' = IF interactions = <<>> THEN messages
                       ELSE Append(messages, Summary(interactions))
        /\ UNCHANGED <<job, next, working, acted, record, run, inputs, cut>>

Stopped == node.at \in {"idle", "paused", "end"}

Abort ==
    /\ node' = Idle
    /\ GiveUpWork
    /\ cut' = (cut \/ next # None)
    /\ run' = IF job = Chat THEN run ELSE [run EXCEPT !.status = "failed"]
    /\ UNCHANGED <<job, messages, next, steps, acted, record, inputs>>

\* The input fails: too many nodes, or two hand-offs at once, for which the
\* state has no room.
Fail ==
    /\ \/ ~Stopped /\ steps = RecursionLimit
       \/ ToolsDone /\ Len(Handoffs) > 1
    /\ Abort

\* The user stops the chat's turn.
Cancel ==
    /\ job = Chat /\ ~Stopped
    /\ Abort

(***************************************************************************)
(* What the user sends                                                     *)
(***************************************************************************)
Input == inputs < MaxInputs /\ inputs' = inputs + 1 /\ steps' = 0

\* A new message closes the turn before, also one that waits for an answer.
StartTurn ==
    /\ job = Chat /\ Stopped /\ Input
    /\ messages' = messages \o InterruptedTurnUpdates(messages) \o <<Human(inputs')>>
    /\ node' = At("router", "")
    /\ GiveUpWork
    /\ UNCHANGED <<job, next, acted, record, run, cut>>

Resume(answer) ==
    /\ node.at = "paused" /\ Input
    /\ node' = At("tools", node.branch)
    /\ todo' = Ids(CurrentCalls)
    /\ results' = <<>>
    /\ answers' = Append(answers, answer)
    /\ asked' = 0
    /\ UNCHANGED <<job, messages, next, acted, record, cut>>

AnswerInterrupt ==
    /\ job = Chat
    /\ \E answer \in {"credential_saved", "cancelled"} : Resume(answer)
    /\ UNCHANGED run

(***************************************************************************)
(* Runs of a background job                                                *)
(***************************************************************************)
StartRun ==
    /\ job # Chat /\ run.status = "none" /\ Input
    /\ messages' = <<Human(inputs')>>
    /\ node' = At("llm", "job")
    /\ run' = [run EXCEPT !.status = "running"]
    /\ UNCHANGED <<job, next, working, acted, record, cut>>

\* The latest result of a tool since the user's last message.
LatestResult(tool) ==
    LET found == SelectSeq(LatestTurn(messages), LAMBDA m : m.from = "tool" /\ m.tool = tool)
    IN  IF found = <<>> THEN None ELSE Last(found).result

AssistantText ==
    LET found == SelectSeq(LatestTurn(messages), LAMBDA m : m.from = "ai")
    IN  found # <<>> /\ Last(found).text

\* The question of the pending call; a credential request always has one.
WaitingQuestion ==
    /\ asked # 0
    /\ \E c \in Range(CurrentCalls) : c.id = asked /\ c.arg # "blank"


JobRunStatus ==
    LET recorded == LatestResult("submit_job_record") = "recorded"
        refused  == LatestResult("submit_job_record") = "refused"
    IN  CASE \/ WaitingQuestion
             \/ Structured /\ refused
             \/ ~run.replied /\ job.checkin /\ AssistantText -> "waiting_for_input"
          [] \/ Structured /\ ~recorded
             \/ ~AssistantText /\ ~recorded /\ run.replied   -> "failed"
          [] OTHER                                           -> "succeeded"

FinishRun ==
    /\ run.status = "running" /\ node.at \in {"end", "paused"}
    /\ run' = [run EXCEPT !.status = JobRunStatus,
                          !.pending = JobRunStatus = "waiting_for_input" /\ asked # 0]
    /\ UNCHANGED <<job, messages, next, node, steps, working, acted, record, inputs, cut>>

\* A reply resumes the paused graph, or is a message of its own.
ReplyToRun ==
    /\ run.status = "waiting_for_input"
    /\ run' = [run EXCEPT !.status = "running", !.replied = TRUE]
    /\ \/ run.pending /\ Resume("reply")
       \/ /\ ~run.pending /\ Input
          /\ messages' = Append(messages, Human(inputs'))
          /\ node' = At("llm", "job")
          /\ UNCHANGED <<job, next, working, acted, record, cut>>

CallStep(c) ==
    \/ Perform(c) \/ ReturnOnly(c) \/ RouteTo(c) \/ SubmitJobRecord(c)
    \/ TakeAnswer(c) \/ Interrupt(c)

Next ==
    \/ \E branch \in Branches \cup {"chat"} : Route(branch)
    \/ \E text \in Wording : Answer(text)
    \/ node.at = "llm" /\ \E n \in 1..MaxParallel, text \in BOOLEAN :
         \E tools \in [1..n -> Tools(node.branch)] :
           \E args \in [1..n -> UNION {Args(tools[k]) : k \in 1..n}] : CallTools(tools, args, text)
    \/ node.at = "tools" /\ \E k \in DOMAIN CurrentCalls : CallStep(CurrentCalls[k])
    \/ EndTools \/ Dispatch \/ DeviceSummary \/ Fail \/ Cancel
    \/ StartTurn \/ AnswerInterrupt
    \/ StartRun \/ FinishRun \/ ReplyToRun

Spec == Init /\ [][Next]_vars

(***************************************************************************)
(* Properties                                                              *)
(***************************************************************************)
\* Calls and results stand together: every call of a message is answered right
\* after it, and no result stands alone.
Paired(prompt) ==
    \A i \in DOMAIN prompt :
      IF prompt[i].from = "tool" THEN \E j \in DOMAIN prompt : InUnitOf(prompt, j, i)
      ELSE Ids(Calls(prompt[i])) \subseteq Ids(ResultsAfter(prompt, i))

\* Whatever turns were cancelled, failed or given up before, and however little
\* of the conversation fits, a model is asked with the user's latest message
\* and with calls and results in pairs, and the router with that message last
\* (agent/nodes.py:136-224, 293-318).
PromptsComplete ==
    /\ node.at = "llm" =>
         LET prompt == TrimConversation(messages, MaxTokens)
         IN  /\ Paired(prompt)
             /\ messages[LatestHuman(messages)] \in Range(prompt)
    /\ node.at = "router" =>
         Last(MakeRouterMessages(messages, MaxTokens)) = Last(messages)

\* Code that ran but whose executor did not answer.
Unreported(turn) ==
    Ids(SelectSeq(turn, LAMBDA m : m.from = "tool" /\ m.tool = "run_code" /\ m.result = "error"))

\* When a turn ends, its summary shows every call of the turn that did
\* something to a device, and none twice or of another turn, also if a call
\* waited for a credential and its node was run again; only code whose executor
\* did not answer is left out (agent/device_interactions.py:67-83).
TurnSummarised ==
    LET turn  == LatestTurn(messages)
        shown == IF Last(turn).from = "summary" THEN Last(turn).shown ELSE <<>>
    IN  node = At("end", "") /\ job = Chat =>
          /\ \A c \in Range(AllCalls(turn)) :
               c.id \in acted => c.id \in Range(shown) \/ c.id \in Unreported(turn)
          /\ Range(shown) \subseteq Ids(AllCalls(turn))
          /\ IsInjective(shown)


\* A turn continues in a branch only if one of its calls asked for that branch,
\* and it ends only when no request is left, unless a turn was cut short
\* between the request and the dispatch (agent/nodes.py:824-853).
HandoffsFollowed ==
    [][ node.at = "dispatch" /\ node' # node /\ ~cut =>
          \/ node'.at = "llm" /\ next' = None /\
             \E m \in Range(LatestTurn(messages)), c \in Range(AllCalls(messages)) :
                m.from = "tool" /\ m.id = c.id /\ m.result = "routed" /\ c.arg = node'.branch
          \/ node'.at = "summary" /\ next = None
          \/ node' = Idle ]_vars

\* What the run's row says fits where its graph stands: a reply resumes a graph
\* that is paused and starts a step of one that ended; a run is never finished
\* under a paused graph unless its question was blank; and a structured run
\* never succeeds without its record (jobs/graph_results.py:64-116).
RunMatchesGraph ==
    /\ run.status = "waiting_for_input" => (run.pending <=> node.at = "paused")
    /\ run.status \in {"succeeded", "failed"} /\ node.at = "paused" => ~WaitingQuestion
    /\ run.status = "succeeded" /\ Structured => record

=============================================================================
