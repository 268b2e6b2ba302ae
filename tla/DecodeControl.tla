--------------------------- MODULE DecodeControl ---------------------------
(***************************************************************************)
(* What steers the decode loop (generate and generate_continue in          *)
(* src/qwen36b.c): the budget that closes a thinking block                 *)
(* (src/thinking_budget.h), the guard against repeated tails               *)
(* (src/repetition_guard.h), the sink that sorts tokens into reasoning and *)
(* content for a client of the server, the cancel flag, and the number of  *)
(* threads, which follows the temperature from one turn to the next.       *)
(* The model of the language is any choice of the next token.              *)
(***************************************************************************)
EXTENDS Naturals, Sequences, FiniteSets, SequencesExt

CONSTANTS Words,        \* ordinary tokens
          Close,        \* </think>
          End,          \* the tokens that end a turn, <|im_end|> and <|endoftext|>
          Transition,   \* the tokens of QWEN_THINKING_EARLY_STOP_TEXT
          Budgets,      \* thinking budgets of requests (0: none)
          Limits,       \* token limits of requests (n_new)
          Repeats,      \* repetitions that are a loop (16)
          MaxPeriod,    \* longest period that is looked for (32)
          Machines,     \* [cores, quota, container]: what the program may run on
          SampleEvery,  \* tokens between two looks at the temperature (4)
          GreensToRise  \* normal temperatures in a row for one more thread (4)

Tokens == Words \cup {Close, End}

ASSUME TokensAssumption  == Close \notin Words /\ End \notin Words /\ Close # End
\* run_chat refuses a transition that lacks </think>.
ASSUME TransitionAssumption == Transition \in Seq(Words \cup {Close}) /\ Contains(Transition, Close)
ASSUME NumbersAssumption == /\ Budgets \subseteq Nat /\ Limits \subseteq Nat \ {0}
                            /\ {Repeats, MaxPeriod, SampleEvery, GreensToRise} \subseteq Nat \ {0}
                            /\ Machines \subseteq [cores : Nat \ {0}, quota : Nat,
                                                   container : BOOLEAN]

VARIABLES at,         \* where the loop is: "idle", "top", "choose", "chosen", "sent"
          turn,       \* the request: [thinks, budget, limit]
          out,        \* the tokens of this turn
          thinking,   \* options.thinking_open
          position,   \* thinking_transition.position
          sinkOpen,   \* thinking_open of the sink
          sent,       \* what the sink got through, each with its field
          cancel,     \* the cancel flag
          why,        \* how the last turn ended
          machine, threads, greens,  \* the statics of adjust_threads; 0 threads: not set yet
          heat        \* history: the last samples, with the threads at the time

turnVars   == <<turn, out, thinking, position, sinkOpen, sent>>
threadVars == <<threads, greens, heat>>
vars == <<at, turnVars, cancel, why, machine, threadVars>>

-----------------------------------------------------------------------------
(* thinking_budget_next(). *)

\* Fault: the transition stops at the </think> inside it.
ContinuingWhileOpen == position \in 1 .. Len(Transition) - 1 /\ thinking
Continuing == position \in 1 .. Len(Transition) - 1

Starting == /\ position = 0 /\ thinking
            /\ turn.budget > 0 /\ Len(out) >= turn.budget

Injects == Continuing \/ Starting

\* choose_controlled_token: the transition's next token, or any that the model samples.
NextTokens == IF Injects THEN {Transition[position + 1]} ELSE Tokens

\* Fault: only a </think> that the model chose closes the block.
StaysOpenForced(t) == thinking /\ (Injects \/ t # Close)
StaysOpen(t) == thinking /\ t # Close

-----------------------------------------------------------------------------
(* repeated_tail_period(). *)

\* Fault: the tail is compared to one period short of its start.
CyclesWithShort(n, s) == \A i \in Len(s) - n * (Repeats - 1) + n + 1 .. Len(s) : s[i] = s[i - n]
CyclesWith(n, s) == \A i \in Len(s) - n * Repeats + n + 1 .. Len(s) : s[i] = s[i - n]

RepeatedTail(s) == \E n \in 1 .. MaxPeriod : n * Repeats <= Len(s) /\ CyclesWith(n, s)

-----------------------------------------------------------------------------
(* adjust_threads(), when SAMOSA_FAST asks for it and OMP_NUM_THREADS does not forbid it. *)

Least(a, b) == IF a < b THEN a ELSE b
Half(n) == IF n \div 2 < 1 THEN 1 ELSE n \div 2

Most == IF machine.quota > 0 THEN Least(machine.quota, machine.cores) ELSE machine.cores
Cool == Least(Half(machine.cores), Most)

SampleDue == ~machine.container /\ Len(out) > 0 /\ Len(out) % SampleEvery = 0

GreensAfter(level) == IF level = "normal" THEN greens + 1 ELSE 0

\* Fault: a hot machine backs off to one thread.
BacksOffToOne == threads > 1
BacksOff == threads > Cool

Sample(level) ==
    LET rises == level = "normal" /\ GreensAfter(level) >= GreensToRise IN
    /\ greens' = IF rises THEN 0 ELSE GreensAfter(level)
    /\ threads' = CASE level = "serious" /\ BacksOff -> threads - 1
                    [] rises /\ threads < Most -> threads + 1
                    [] OTHER -> threads
    /\ heat' = LET all == Append(heat, [level |-> level, threads |-> threads])
               IN SubSeq(all, Len(all) - Least(Len(all), GreensToRise) + 1, Len(all))

AdjustThreads(level) ==
    IF threads = 0
      THEN threads' = Cool /\ UNCHANGED <<greens, heat>>
      ELSE IF SampleDue THEN Sample(level) ELSE UNCHANGED threadVars

-----------------------------------------------------------------------------
(* The loop. *)

\* A turn starts: chat clears the flag, run_chat opens the thinking block (the prompt ends in
\* <think>) and winds the transition back.
StartTurn(thinks, budget, limit) ==
    /\ at = "idle"
    /\ at' = "top" /\ cancel' = FALSE /\ why' = "none"
    /\ turn' = [thinks |-> thinks, budget |-> IF thinks THEN budget ELSE 0, limit |-> limit]
    /\ out' = <<>> /\ sent' = <<>> /\ position' = 0
    /\ thinking' = thinks /\ sinkOpen' = thinks
    /\ UNCHANGED <<machine, threadVars>>

\* POST /v1/cancel, or a shutdown, at any moment.
Cancel ==
    /\ at # "idle" /\ ~cancel
    /\ cancel' = TRUE
    /\ UNCHANGED <<at, turnVars, why, machine, threadVars>>

Stops(how) == at' = "idle" /\ why' = how

Top(level) ==
    /\ at = "top"
    /\ AdjustThreads(level)
    /\ IF cancel THEN Stops("cancelled") ELSE at' = "choose" /\ UNCHANGED why
    /\ UNCHANGED <<turnVars, cancel, machine>>

Choose(t) ==
    /\ at = "choose" /\ t \in NextTokens
    /\ out' = Append(out, t)
    /\ thinking' = StaysOpen(t)
    /\ position' = IF Injects THEN position + 1 ELSE position
    /\ at' = "chosen"
    /\ UNCHANGED <<turn, sinkOpen, sent, cancel, why, machine, threadVars>>

\* serve_token_sink: what it makes of the token, or that its client is gone.
Field == IF sinkOpen THEN "reasoning" ELSE "content"

Sink ==
    LET t == Last(out) IN
    /\ at = "chosen"
    /\ CASE cancel    -> Stops("cancelled") /\ UNCHANGED <<sinkOpen, sent>>
         [] ~cancel /\ t = End   -> Stops("stop") /\ UNCHANGED <<sinkOpen, sent>>
         [] ~cancel /\ t = Close -> at' = "sent" /\ sinkOpen' = FALSE /\ UNCHANGED <<sent, why>>
         [] OTHER     -> at' = "sent" /\ sent' = Append(sent, <<Field, t>>)
                         /\ UNCHANGED <<sinkOpen, why>>
    /\ UNCHANGED <<turn, out, thinking, position, cancel, machine, threadVars>>

ClientGone ==
    /\ at = "chosen" /\ ~cancel /\ Last(out) \in Words
    /\ cancel' = TRUE /\ Stops("cancelled")
    /\ UNCHANGED <<turnVars, machine, threadVars>>

\* The guard, then the limit; otherwise the token is stepped into the model.
Guard ==
    /\ at = "sent"
    /\ IF RepeatedTail(out) THEN Stops("repetition")
       ELSE IF Len(out) = turn.limit THEN Stops("length")
       ELSE at' = "top" /\ UNCHANGED why
    /\ UNCHANGED <<turnVars, cancel, machine, threadVars>>

-----------------------------------------------------------------------------
Init ==
    /\ machine \in Machines
    /\ at = "idle" /\ why = "none" /\ cancel = FALSE
    /\ turn = [thinks |-> FALSE, budget |-> 0, limit |-> 1]
    /\ out = <<>> /\ sent = <<>> /\ position = 0 /\ thinking = FALSE /\ sinkOpen = FALSE
    /\ threads = 0 /\ greens = 0 /\ heat = <<>>

Next ==
    \/ \E thinks \in BOOLEAN, budget \in Budgets, limit \in Limits : StartTurn(thinks, budget, limit)
    \/ Cancel
    \/ \E level \in {"normal", "fair", "serious"} : Top(level)
    \/ \E t \in Tokens : Choose(t)
    \/ Sink \/ ClientGone \/ Guard

Spec == Init /\ [][Next]_vars

-----------------------------------------------------------------------------
(* Properties. *)

Prefix(n) == SubSeq(out, 1, Least(n, Len(out)))

\* The budget: a block that the model has not closed within its budget is continued by the
\* transition, whole and in order, </think> and what follows it included; any other block, and
\* any turn without a budget, never sees a token of it.
BudgetHolds ==
    LET over == turn.thinks /\ turn.budget > 0 /\ ~Contains(Prefix(turn.budget), Close)
        forced == SubSeq(out, turn.budget + 1, Len(out))
    IN  /\ over => \A i \in DOMAIN forced \cap DOMAIN Transition : forced[i] = Transition[i]
        /\ position = IF over THEN Least(Len(forced), Len(Transition)) ELSE 0

\* The loop goes on only while no word has been said Repeats times in a row at its end, and the
\* guard ends it only then.
SaysAgain(s) ==
    \E n \in 1 .. MaxPeriod :
        /\ n * Repeats <= Len(s)
        /\ \A r \in 0 .. Repeats - 1, i \in 1 .. n : s[Len(s) - r * n - n + i] = s[Len(s) - n + i]

StopsAtFirstLoop ==
    /\ \A k \in 0 .. Len(out) - 1 : ~SaysAgain(SubSeq(out, 1, k))
    /\ at = "top" => ~SaysAgain(out)
    /\ why = "repetition" => SaysAgain(out)

\* What the client reads is what was decoded: reasoning up to the first </think>, content after
\* it, also when the close was forced; generator and sink agree at every token on which it is.
WordsTo(n) == {i \in 1 .. n : out[i] \in Words}
Before(i)  == turn.thinks /\ ~Contains(SubSeq(out, 1, i), Close)
Piece(i)   == <<IF Before(i) THEN "reasoning" ELSE "content", out[i]>>

SinkAgrees ==
    at = "top" => /\ thinking = sinkOpen
                  /\ Len(sent) = Cardinality(WordsTo(Len(out)))
                  /\ \A i \in WordsTo(Len(out)) : sent[Cardinality(WordsTo(i))] = Piece(i)

\* "The controller can only move between cool_default and max_threads" (adjust_threads): the number
\* of threads, once set, stays at the cool default or above, within the cores and the quota, and
\* grows only after GreensToRise normal temperatures in a row at the present number.
ThreadsFollowHeat ==
    [][/\ threads' \in Cool .. machine.cores
       /\ machine.quota > 0 => threads' <= machine.quota
       /\ threads # 0 /\ threads' > threads =>
              heat' = [i \in 1 .. GreensToRise |-> [level |-> "normal", threads |-> threads]]
      ]_threadVars
=============================================================================
