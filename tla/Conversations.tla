---------------------------- MODULE Conversations ----------------------------
(***************************************************************************)
(* AgentChain, SupervisorPattern and DebatePattern                         *)
(* (src/agentic/multi_agent.py): generators that ask one agent at a time   *)
(* and decide from the answers whom to ask next, and what to tell it.      *)
(*                                                                         *)
(* Texts are abstracted to what they are made of: the k-th answer of a     *)
(* conversation is the number k, and what an agent is told is the sequence *)
(* of the answers it is shown.  An agent's step gives an answer or raises. *)
(***************************************************************************)
EXTENDS Integers, Sequences

CONSTANTS
    NumMembers,     \* the agents of a chain or a debate, the workers of a supervisor
    MaxRounds,      \* max_delegation_rounds, and max_rounds of a debate
    MaxDelegations, \* bound: the delegations to workers in one answer
    MaxTurns        \* bound: the turns of a conversation; ConversationEnds fails if it binds

ASSUME ConversationAssumption ==
    /\ NumMembers \in Nat \ {0} /\ MaxRounds \in Nat \ {0}
    /\ MaxDelegations \in Nat
    /\ MaxTurns \in Nat

Members == 1..NumMembers
Lead == 0                       \* the supervisor, or the moderator

VARIABLES
    pattern,        \* "chain", "supervisor" or "debate"
    moderated,      \* whether the debate has a moderator
    at,             \* where the generator stands: "idle", "asking" a step, or how it ended
    asked,          \* the agent whose step runs
    left,           \* those to be asked next, in order: delegations, or the rest of the round
    shown,          \* what the next agent is told: current_input, supervisor_input, history
    answers,        \* the answers of this round: worker_results, round_responses
    rounds,         \* delegation_count, or the rounds of the debate that are over
    transcript,     \* ghost: whom the conversation asked, and what it was told
    verdict         \* the closing StatusEvent
conversationVars == <<pattern, moderated, at, asked, left, shown, answers, rounds, transcript,
                      verdict>>

AllMembers == [k \in Members |-> k]

\* The number of the answer that the step under way gives.
Now == Len(transcript)

ConversationInit ==
    /\ pattern = "chain"
    /\ moderated = FALSE
    /\ at = "idle"
    /\ asked = Lead
    /\ left = <<>>
    /\ shown = <<>>
    /\ answers = <<>>
    /\ rounds = 0
    /\ transcript = <<>>
    /\ verdict = "none"

\* The step of `who` is started, with what it is told.
Ask(who, told) ==
    /\ Len(transcript) < MaxTurns
    /\ asked' = who
    /\ at' = "asking"
    /\ transcript' = Append(transcript, [who |-> who, told |-> told])

EndWith(status) ==
    /\ at' = "done"
    /\ verdict' = status
    /\ UNCHANGED <<asked, transcript>>

\* The generator is called.
Converse ==
    /\ at = "idle"
    /\ pattern' \in {"chain", "supervisor", "debate"}
    /\ moderated' \in IF pattern' = "debate" THEN BOOLEAN ELSE {FALSE}
    /\ IF pattern' = "supervisor"
       THEN Ask(Lead, <<>>) /\ left' = <<>>
       ELSE Ask(1, <<>>) /\ left' = Tail(AllMembers)
    /\ UNCHANGED <<shown, answers, rounds, verdict>>

Answered(p) == at = "asking" /\ pattern = p /\ UNCHANGED <<pattern, moderated>>

-----------------------------------------------------------------------------
(* AgentChain.execute *)

\* The answer is what the next agent is told.
ChainNext ==
    /\ Answered("chain")
    /\ shown' = <<Now>>
    /\ IF left = <<>> THEN EndWith("none") /\ UNCHANGED left
       ELSE Ask(Head(left), shown') /\ left' = Tail(left) /\ UNCHANGED verdict
    /\ UNCHANGED <<answers, rounds>>

-----------------------------------------------------------------------------
(* SupervisorPattern.execute *)

\* The workers that an answer of the supervisor names, in order.
Delegations == UNION {[1..n -> Members] : n \in 0..MaxDelegations}

\* The supervisor's answer names workers; `unknown` says whether it names others too, which are
\* passed over.  No delegation ends the conversation; only unknown ones end it as well, with no
\* closing status.
SupervisorAnswers ==
    /\ Answered("supervisor") /\ asked = Lead
    /\ \E known \in Delegations, unknown \in BOOLEAN :
          IF known # <<>>
          THEN Ask(Head(known), <<Now>>) /\ left' = Tail(known) /\ UNCHANGED verdict
          ELSE EndWith(IF unknown THEN "none" ELSE "completed") /\ UNCHANGED left
    /\ answers' = <<>>
    /\ UNCHANGED <<shown, rounds>>

\* The supervisor's answer, the last it gave: where a worker's task comes from.
TaskSource == Now - Len(answers) - 1

\* Mutant: the rounds are not counted.
FeedBackUncounted ==
    /\ Ask(Lead, shown')
    /\ UNCHANGED <<rounds, verdict>>

\* Mutant: one round too few.
FeedBackOnceLess ==
    /\ rounds' = rounds + 1
    /\ IF rounds' + 1 < MaxRounds THEN Ask(Lead, shown') /\ UNCHANGED verdict ELSE EndWith("limit")

\* The supervisor is told the workers' answers, unless this was the last round.
FeedBack ==
    /\ rounds' = rounds + 1
    /\ IF rounds' < MaxRounds THEN Ask(Lead, shown') /\ UNCHANGED verdict ELSE EndWith("limit")

\* The next worker of the round gets its task; after the last their answers are fed back.
WorkerAnswers ==
    /\ Answered("supervisor") /\ asked # Lead
    /\ answers' = Append(answers, Now)
    /\ IF left # <<>>
       THEN /\ Ask(Head(left), <<TaskSource>>)
            /\ left' = Tail(left)
            /\ UNCHANGED <<shown, rounds, verdict>>
       ELSE /\ shown' = answers'
            /\ FeedBack
            /\ UNCHANGED left

-----------------------------------------------------------------------------
(* DebatePattern.converge *)

\* Mutant: a speaker is shown what was said in this round.
SpeakAfterAll ==
    /\ Answered("debate") /\ asked # Lead /\ left # <<>>
    /\ answers' = Append(answers, Now)
    /\ Ask(Head(left), shown \o answers')
    /\ left' = Tail(left)
    /\ UNCHANGED <<shown, rounds, verdict>>

\* The next speaker of the round is shown the rounds before it.
Speak ==
    /\ Answered("debate") /\ asked # Lead /\ left # <<>>
    /\ answers' = Append(answers, Now)
    /\ Ask(Head(left), shown)
    /\ left' = Tail(left)
    /\ UNCHANGED <<shown, rounds, verdict>>

\* The last speaker of the round: with a consensus the moderator, if any, is asked; without one
\* the next round starts, up to the limit.
RoundEnds ==
    /\ Answered("debate") /\ asked # Lead /\ left = <<>>
    /\ shown' = shown \o Append(answers, Now)
    /\ answers' = <<>>
    /\ rounds' = rounds + 1
    /\ \/ /\ verdict' = "consensus"
          /\ IF moderated
             THEN Ask(Lead, shown')
             ELSE at' = "done" /\ UNCHANGED <<asked, transcript>>
          /\ UNCHANGED left
       \/ IF rounds' < MaxRounds
          THEN Ask(1, shown') /\ left' = Tail(AllMembers) /\ UNCHANGED verdict
          ELSE EndWith("limit") /\ UNCHANGED left

ModeratorAnswers ==
    /\ Answered("debate") /\ asked = Lead
    /\ at' = "done"
    /\ UNCHANGED <<asked, left, shown, answers, rounds, transcript, verdict>>

-----------------------------------------------------------------------------

\* The step raises, and the exception leaves the generator; or the consumer closes it.
Interrupted ==
    /\ at = "asking"
    /\ at' = "interrupted"
    /\ UNCHANGED <<pattern, moderated, asked, left, shown, answers, rounds, transcript, verdict>>

Continue ==
    \/ ChainNext \/ SupervisorAnswers \/ WorkerAnswers \/ Speak \/ RoundEnds \/ ModeratorAnswers

ConversationNext == Converse \/ Continue \/ Interrupted

\* A step that is asked for ends, and the consumer goes on asking.
ConversationFairness == WF_conversationVars(Continue)

-----------------------------------------------------------------------------
(* Properties *)

Numbers == Seq(Nat \ {0})

ConversationTypeOK ==
    /\ pattern \in {"chain", "supervisor", "debate"}
    /\ moderated \in BOOLEAN
    /\ at \in {"idle", "asking", "done", "interrupted"}
    /\ asked \in Members \cup {Lead}
    /\ left \in Seq(Members)
    /\ shown \in Numbers /\ answers \in Numbers
    /\ rounds \in 0..MaxRounds
    /\ transcript \in Seq([who : Members \cup {Lead}, told : Numbers])
    /\ verdict \in {"none", "completed", "consensus", "limit"}

From(i, j) == [k \in 1..(j - i + 1) |-> i + k - 1]

\* The supervisor's last turn before turn k.
LastLead(k) == CHOOSE i \in 0..(k - 1) :
    /\ i = 0 \/ transcript[i].who = Lead
    /\ \A j \in (i + 1)..(k - 1) : transcript[j].who # Lead

\* What the turn k of a conversation should be told, by the record of whom was asked alone.
Due(k) ==
    CASE pattern = "chain" -> IF k = 1 THEN <<>> ELSE <<k - 1>>
      [] pattern = "supervisor" ->
            IF transcript[k].who # Lead THEN <<LastLead(k)>>
            ELSE IF k = 1 THEN <<>> ELSE From(LastLead(k) + 1, k - 1)
      [] pattern = "debate" ->
            IF transcript[k].who = Lead THEN From(1, k - 1)
            ELSE From(1, ((k - 1) \div NumMembers) * NumMembers)

\* Everybody is told what is due: in a chain the answer before it; a supervisor all answers of
\* the workers it named, a worker its supervisor's; in a debate all rounds that are over and
\* nothing of the current one, the moderator everything.
ToldWhatIsDue == \A k \in DOMAIN transcript : transcript[k].told = Due(k)

\* A worker's answer is fed back to the supervisor, unless the limit of rounds is reached.
FedBackUnlessLimit ==
    pattern = "supervisor" /\ at = "done" /\ transcript[Len(transcript)].who # Lead =>
        verdict = "limit" /\ rounds = MaxRounds

\* A conversation ends, whatever the agents answer.
ConversationEnds == (at = "asking") ~> (at \in {"done", "interrupted"})

=============================================================================
