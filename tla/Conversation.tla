---------------------------- MODULE Conversation ----------------------------
(***************************************************************************)
(* A conversation of the agent and how its parts are read: the prompt of   *)
(* a model call, what the router sees, the device interactions shown to    *)
(* the user and the messages that close a turn that was cut short          *)
(* (wotbot/agent: nodes.py, device_interactions.py; core/agent_runs.py).   *)
(*                                                                         *)
(* A message says who it is from.  Its wording is left out, except whether *)
(* an assistant message has any and whether a tool result carries the      *)
(* device interactions of the code that ran (wot_calls).                   *)
(***************************************************************************)
EXTENDS Naturals, Sequences, FiniteSets, FiniteSetsExt, SequencesExt

Human(turn)         == [from |-> "human", turn |-> turn]
Ai(calls, text)     == [from |-> "ai", calls |-> calls, text |-> text]
Tool(call, result)  == [from |-> "tool", id |-> call.id, tool |-> call.tool, result |-> result,
                        wot_calls |-> call.tool = "run_code" /\ result = "done"]
Summary(shown)      == [from |-> "summary", calls |-> <<>>, shown |-> shown]

Calls(m)  == IF m.from = "ai" THEN m.calls ELSE <<>>
Ids(msgs) == {msgs[k].id : k \in DOMAIN msgs}

WithoutSummaries(msgs) == SelectSeq(msgs, LAMBDA m : m.from # "summary")

Each(Op(_), msgs) == [k \in DOMAIN msgs |-> Op(msgs[k])]

StripUiToolData(m) == IF m.from = "tool" THEN [m EXCEPT !.wot_calls = FALSE] ELSE m

(***************************************************************************)
(* Tool calls and their results                                            *)
(***************************************************************************)
\* The tool messages that follow message i without a gap.
ResultsAfter(msgs, i) ==
    LET end == Max({j \in i..Len(msgs) : \A k \in i + 1..j : msgs[k].from = "tool"})
    IN  SubSeq(msgs, i + 1, end)

\* What is kept of message i: calls without a result go, and so does a tool
\* message that no kept call precedes.
SanitizedAt(msgs, i) ==
    LET m       == msgs[i]
        found   == ResultsAfter(msgs, i)
        matched == SelectSeq(Calls(m), LAMBDA c : c.id \in Ids(found))
    IN  IF m.from = "tool" THEN <<>>
        ELSE IF Calls(m) = <<>> THEN <<m>>
        ELSE IF matched = <<>> THEN <<>>
        ELSE <<[m EXCEPT !.calls = matched]>> \o found

SanitizeMessageSequence(msgs) ==
    FlattenSeq([i \in DOMAIN msgs |-> SanitizedAt(msgs, i)])

InUnitOf(msgs, j, i) ==
    /\ j < i
    /\ \A k \in j + 1..i : msgs[k].from = "tool" /\ msgs[k].id \in Ids(Calls(msgs[j]))

\* The units that trimming keeps or drops: a message, or calls and results.
GroupConversationUnits(msgs) ==
    LET Continues(i) == \E j \in 1..i - 1 : InUnitOf(msgs, j, i)
        Add(units, i) == IF Continues(i)
                         THEN Append(Front(units), Append(Last(units), msgs[i]))
                         ELSE Append(units, <<msgs[i]>>)
    IN  FoldLeft(Add, <<>>, [i \in DOMAIN msgs |-> i])

(***************************************************************************)
(* Prompts                                                                 *)
(***************************************************************************)
\* The weight of messages in the prompt's budget: device interactions are
\* far heavier than all else.
CountTokens(msgs) ==
    MapThenSumSet(LAMBDA k : IF msgs[k].from # "tool" THEN 1
                             ELSE IF msgs[k].wot_calls THEN 9 ELSE 2, DOMAIN msgs)

LatestHuman(msgs) == Max({0} \cup {k \in DOMAIN msgs : msgs[k].from = "human"})


\* The most recent units that fit, at least the last one, and in any case the
\* one with the user's latest message.
FitUnitsToBudget(units, max) ==
    LET n       == Len(units)
        fits(k) == k = n \/ CountTokens(FlattenSeq(SubSeq(units, k, n))) <= max
        asked   == LatestHuman(Each(Head, units))
    IN  FlattenSeq([k \in 1..n |-> IF fits(k) \/ k = asked THEN units[k] ELSE <<>>])

TrimConversation(msgs, max) ==
    FitUnitsToBudget(
        GroupConversationUnits(
            SanitizeMessageSequence(Each(StripUiToolData, WithoutSummaries(msgs)))), max)

\* The last messages that fit, from a user message on (trim_messages).
LastFromHuman(msgs, max) ==
    LET n == Len(msgs)
        starts == {k \in 1..n : /\ CountTokens(SubSeq(msgs, k, n)) <= max
                                /\ msgs[k].from = "human"}
    IN  IF starts = {} THEN <<>> ELSE SubSeq(msgs, Min(starts), n)

\* What the router classifies: the last three messages that are no tool work,
\* or a message of its own when none of them is the user's.
MakeRouterMessages(msgs, max) ==
    LET sanitized      == SanitizeMessageSequence(LastFromHuman(WithoutSummaries(msgs), max))
        conversational == SelectSeq(sanitized, LAMBDA m : m.from # "tool" /\ Calls(m) = <<>>)
        n              == Len(conversational)
        tail           == SubSeq(conversational, IF n > 3 THEN n - 2 ELSE 1, n)
    IN  IF LatestHuman(tail) = 0 THEN <<Human(0)>> ELSE tail

(***************************************************************************)
(* The latest turn                                                         *)
(***************************************************************************)
LatestTurn(msgs) == SubSeq(msgs, LatestHuman(msgs) + 1, Len(msgs))

AllCalls(msgs) == FlattenSeq(Each(Calls, msgs))

\* What the summary of a turn shows: each device interaction whose result is
\* there, by its call.
LatestTurnDeviceInteractions(msgs) ==
    LET turn    == WithoutSummaries(LatestTurn(msgs))
        known   == Ids(AllCalls(turn))
        shown   == SelectSeq(turn, LAMBDA m : /\ m.from = "tool" /\ m.id \in known
                                              /\ m.wot_calls \/ m.tool = "wot_invoke_action")
    IN  IF LatestHuman(msgs) = 0 THEN <<>>
        ELSE Each(LAMBDA m : m.id, shown)

\* The messages that close the latest turn, unless an answer closed it: a
\* result for every call that has none, and a notice.
InterruptedTurnUpdates(msgs) ==
    LET turn     == LatestTurn(msgs)
        closed   == \E k \in DOMAIN turn : turn[k].from # "tool" /\ turn[k].calls = <<>>
        resolved == Ids(SelectSeq(turn, LAMBDA m : m.from = "tool"))
        open     == SelectSeq(AllCalls(turn), LAMBDA c : c.id \notin resolved)
    IN  IF LatestHuman(msgs) = 0 \/ closed THEN <<>>
        ELSE Append(Each(LAMBDA c : Tool(c, "stopped"), open), Ai(<<>>, TRUE))
=============================================================================
