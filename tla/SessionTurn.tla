---------------------------- MODULE SessionTurn ----------------------------
(***************************************************************************)
(* One conversation of the engine, turn by turn (src/qwen36b.c): resume its *)
(* snapshot, prefill the new message, decode under a cancel flag, trim a    *)
(* cancelled answer, save; and compaction, which replaces the snapshot by a *)
(* shorter one.  The process may die anywhere, and starts again.            *)
(*                                                                         *)
(* A token is its kind.  A KV row is the kind that was embedded to compute  *)
(* it and its rotary position; the recurrent state of the linear layers is  *)
(* the sequence of the kinds stepped into it.  Left out: newlines of the    *)
(* chat template, sampling, the repetition guard, the context limit (see    *)
(* SamosaServe) and the checks of a snapshot's header and digest, which     *)
(* reject files that nothing here can write.                               *)
(***************************************************************************)
EXTENDS RangeSums, Sequences, FiniteSets

CONSTANTS
    Vocabulary,    \* the kinds the model may answer with
    Grids,         \* the merged image grids <<rows, columns>> of requests
    NoGrid,
    MaxNew,        \* n_new
    TargetTail,    \* target_tail of compact_session
    PrefillChunk,  \* the 256 positions of session_prefill_save_tokens
    MaxTurns,      \* bound: turns and compactions
    NoFile, Torn

\* <|im_start|>, <|im_end|>, <|endoftext|>, <think>, </think>, <|image_pad|>, a
\* piece that ends a sentence, any other piece; "image" is the embedding of a pad.
Kinds == {"start", "end", "eot", "open", "close", "pad", "stop", "text"}
Embedded == Kinds \cup {"image"}

Rows == [kind : Embedded, pos : Int]

Snapshots == [tokens : Seq(Kinds), rows : Seq(Rows), recurrent : Seq(Embedded),
              residue : BOOLEAN]

ASSUME SessionAssumption ==
    /\ Vocabulary \subseteq Kinds \ {"pad"}
    /\ Grids \subseteq (Nat \ {0}) \X (Nat \ {0}) /\ NoGrid \notin Grids
    /\ MaxNew \in Nat \ {0} /\ TargetTail \in Nat \ {0}
    /\ PrefillChunk \in Nat \ {0} /\ MaxTurns \in Nat
    /\ NoFile \notin Snapshots /\ Torn \notin Snapshots \cup {NoFile}

VARIABLES
    file,       \* session.qws: a snapshot, NoFile, or Torn
    temp,       \* session.qws.tmp.<pid> of this process
    phase,      \* where run_chat or compact_session is
    tokens,     \* transcript
    answer,     \* its length before the answer (np)
    rows,       \* K and V
    recurrent,  \* recurrent_state
    delta,      \* mrope_delta
    cancel,     \* the cancel flag
    cancelled,  \* stats.cancelled
    residue,    \* a cancelled turn left its state in this conversation
    told,       \* the transcript last reported saved
    turns

stateVars == <<rows, recurrent, delta>>
vars == <<file, temp, phase, tokens, answer, stateVars, cancel, cancelled,
          residue, told, turns>>

-----------------------------------------------------------------------------
(* The chat template and positions.                                        *)

Pads(grid) == IF grid = NoGrid THEN <<>> ELSE [i \in 1 .. grid[1] * grid[2] |-> "pad"]

\* qwen_chat_prompt: with thinking on, the prompt ends in an open block.
ChatPrompt(thinking, grid) ==
    <<"start">> \o Pads(grid) \o <<"text", "end", "start", "open">>
        \o IF thinking THEN <<>> ELSE <<"close">>

\* qwen_chat_continuation: the last turn is closed first, unless it ended.
Continuation(history, thinking, grid) ==
    (IF history[Len(history)] = "end" THEN <<>> ELSE <<"end">>)
        \o ChatPrompt(thinking, grid)

\* The positions an image advances.
Extent(grid) ==
    CASE grid = NoGrid -> 0
      [] grid # NoGrid /\ grid[1] > grid[2] -> grid[1]
      [] OTHER -> grid[2]

ImageDelta(grid) == Extent(grid) - Len(Pads(grid))

Root(n) == CHOOSE r \in 0 .. n : r * r <= n /\ (r + 1) * (r + 1) > n

LastOf(S) == IF S = {} THEN 0 ELSE CHOOSE m \in S : \A n \in S : n <= m

\* The length of the run of image pads that ends at i; 0 if none does.
RunLength(history, i) ==
    IF i < Len(history) /\ history[i + 1] = "pad" THEN 0
    ELSE i - LastOf({j \in 1 .. i : history[j] # "pad"})

\* total_mrope_delta: what generate_continue makes of the runs of the history.
HistoryDelta(history) ==
    Total(Len(history),
          [i \in 1 .. Len(history) |->
              Root(RunLength(history, i)) - RunLength(history, i)])

\* The rows of a chunk stepped from rotary position base; its pads are those of
\* the request's image.
ChunkRows(chunk, base, grid) ==
    [s \in 1 .. Len(chunk) |->
        LET before == {r \in 1 .. s - 1 : chunk[r] # "pad"}
            past == chunk[s] # "pad" /\ Cardinality(before) < s - 1
        IN  [kind |-> IF chunk[s] = "pad" THEN "image" ELSE chunk[s],
             pos |-> base + Cardinality(before) + (IF past THEN Extent(grid) ELSE 0)]]

KindsOf(rs) == [i \in DOMAIN rs |-> rs[i].kind]

-----------------------------------------------------------------------------
Init ==
    /\ file = NoFile /\ temp = NoFile /\ phase = "idle"
    /\ tokens = <<>> /\ answer = 0 /\ rows = <<>> /\ recurrent = <<>> /\ delta = 0
    /\ cancel = FALSE /\ cancelled = FALSE /\ residue = FALSE
    /\ told = <<>> /\ turns = 0

\* The end of a call: the inference state is freed.
Free ==
    /\ tokens' = <<>> /\ answer' = 0 /\ rows' = <<>> /\ recurrent' = <<>>
    /\ delta' = 0 /\ cancelled' = FALSE /\ residue' = FALSE

\* generate: a new conversation.
Generate(thinking, grid) ==
    LET prompt == ChatPrompt(thinking, grid)
        new == ChunkRows(prompt, 0, grid)
    IN  /\ file = NoFile
        /\ tokens' = prompt /\ answer' = Len(prompt)
        /\ rows' = new /\ recurrent' = KindsOf(new)
        /\ delta' = ImageDelta(grid)
        /\ residue' = FALSE

\* session_resume and generate_continue: the last token saved was not stepped,
\* so the chunk starts with it.
Resume(thinking, grid) ==
    LET history == file.tokens
        extra == Continuation(history, thinking, grid)
        kept == Len(history) - 1
        base == HistoryDelta(SubSeq(history, 1, kept))
        new == ChunkRows(<<history[kept + 1]>> \o extra, kept + base, grid)
    IN  /\ file # NoFile
        /\ tokens' = history \o extra /\ answer' = Len(history) + Len(extra)
        /\ rows' = file.rows \o new
        /\ recurrent' = file.recurrent \o KindsOf(new)
        /\ delta' = base + ImageDelta(grid)
        /\ residue' = file.residue

\* A turn begins: the cancel flag is cleared and the message prefilled.
StartTurn(thinking, grid) ==
    /\ phase = "idle" /\ turns < MaxTurns
    /\ Generate(thinking, grid) \/ Resume(thinking, grid)
    /\ phase' = "decode" /\ turns' = turns + 1
    /\ cancel' = FALSE /\ cancelled' = FALSE
    /\ UNCHANGED <<file, temp, told>>

\* Another thread raises the flag.  Outside these phases nobody reads it before
\* the next call clears it.
RaiseCancel ==
    /\ phase \in {"decode", "sink", "step", "summary", "prefill"}
    /\ cancel' = TRUE
    /\ UNCHANGED <<file, temp, phase, tokens, answer, stateVars, cancelled,
                   residue, told, turns>>

-----------------------------------------------------------------------------
(* The decode loop.                                                        *)

EndDecode(isCancelled) == phase' = "finish" /\ cancelled' = isCancelled

\* The top of the loop: stop on the flag, or choose and append a token.
ChooseToken ==
    /\ phase = "decode"
    /\ \/ cancel /\ EndDecode(TRUE) /\ UNCHANGED tokens
       \/ /\ ~cancel
          /\ \E k \in Vocabulary : tokens' = Append(tokens, k)
          /\ phase' = "sink" /\ UNCHANGED cancelled
    /\ UNCHANGED <<file, temp, answer, stateVars, cancel, residue, told, turns>>

LastToken == tokens[Len(tokens)]

\* The token is stepped: a row for it, and it enters the recurrent state.
Step ==
    /\ rows' = Append(rows, [kind |-> LastToken, pos |-> Len(tokens) - 1 + delta])
    /\ recurrent' = Append(recurrent, LastToken)

AtLimit == Len(tokens) - answer = MaxNew

\* Fault: the token at the limit is stepped too, before the loop is left.
SteppedAtLimit == AtLimit /\ EndDecode(FALSE) /\ Step

\* The token at the limit ends the loop; it is not stepped.
LeftAtLimit == AtLimit /\ EndDecode(FALSE) /\ UNCHANGED <<rows, recurrent>>

\* serve_token_sink, and the tests behind it.  The client may be gone.
TokenSink ==
    /\ phase = "sink"
    /\ \/ /\ \/ cancel /\ EndDecode(TRUE) /\ UNCHANGED cancel
             \/ ~cancel /\ LastToken \in {"end", "eot"} /\ EndDecode(FALSE) /\ UNCHANGED cancel
             \/ /\ ~cancel /\ LastToken \notin {"end", "eot", "close"}
                /\ EndDecode(TRUE) /\ cancel' = TRUE
          /\ UNCHANGED <<rows, recurrent>>
       \/ /\ ~cancel /\ LastToken \notin {"end", "eot"}
          /\ \/ LeftAtLimit
             \/ /\ ~AtLimit
                /\ phase' = "step" /\ UNCHANGED <<cancelled, rows, recurrent>>
          /\ UNCHANGED cancel
    /\ UNCHANGED <<file, temp, tokens, answer, delta, residue, told, turns>>

\* The chosen token is stepped.
StepToken ==
    /\ phase = "step" /\ Step
    /\ phase' = "decode"
    /\ UNCHANGED <<file, temp, tokens, answer, delta, cancel, cancelled, residue,
                   told, turns>>

-----------------------------------------------------------------------------
(* The end of a turn: trim and save.                                       *)

\* The last sentence after position start and outside a block opened since; 0 if
\* there is none.
LastSentence(start) ==
    LET at(kind) == {i \in start + 1 .. Len(tokens) : tokens[i] = kind}
        opened == LastOf(at("open"))
        closed == LastOf(at("close"))
        final == IF opened > closed THEN opened - 1 ELSE Len(tokens)
    IN  LastOf({i \in at("stop") : closed < i /\ i <= final})

\* Fault: the whole transcript is searched.
TrimOfTranscript == LastSentence(0)

\* cancelled_turn_trim: the answer is searched.
CancelledTrim == LastSentence(answer)

SavedLength == IF cancelled THEN CancelledTrim ELSE Len(tokens)

\* run_chat after the loop: without a sentence to keep, nothing is saved.
Finish ==
    /\ phase = "finish"
    /\ IF SavedLength < 2
       THEN Free /\ phase' = "idle"
       ELSE /\ tokens' = SubSeq(tokens, 1, SavedLength)
            /\ phase' = "save" /\ residue' = (residue \/ cancelled)
            /\ UNCHANGED <<answer, stateVars, cancelled>>
    /\ UNCHANGED <<file, temp, cancel, told, turns>>

\* Fault: the failure of a save is not looked at.
SaveFailsSilently ==
    /\ phase \in {"save", "write", "rename"}
    /\ phase' = "reply" /\ temp' = NoFile
    /\ UNCHANGED <<file, tokens, answer, stateVars, cancel, cancelled, residue,
                   told, turns>>

\* session_save fails and returns: the temporary file, if any, is removed.
SaveFails ==
    /\ phase \in {"save", "write", "rename"}
    /\ phase' = "idle" /\ temp' = NoFile
    /\ Free
    /\ UNCHANGED <<file, cancel, told, turns>>

\* Fault: the snapshot is written in place.
SaveCreatesInPlace ==
    /\ phase = "save"
    /\ file' = Torn /\ temp' = Torn /\ phase' = "write"
    /\ UNCHANGED <<tokens, answer, stateVars, cancel, cancelled, residue, told, turns>>

\* session_save opens its temporary file.
SaveCreates ==
    /\ phase = "save"
    /\ temp' = Torn /\ phase' = "write"
    /\ UNCHANGED <<file, tokens, answer, stateVars, cancel, cancelled, residue,
                   told, turns>>

SavedRows == SubSeq(rows, 1, Len(tokens) - 1)

\* It is written, flushed and closed.
SaveWrites ==
    /\ phase = "write"
    /\ temp' = [tokens |-> tokens, rows |-> SavedRows, recurrent |-> recurrent,
                residue |-> residue]
    /\ phase' = "rename"
    /\ UNCHANGED <<file, tokens, answer, stateVars, cancel, cancelled, residue,
                   told, turns>>

\* It takes the place of the snapshot.
SaveRenames ==
    /\ phase = "rename"
    /\ file' = temp /\ temp' = NoFile
    /\ phase' = "reply"
    /\ UNCHANGED <<tokens, answer, stateVars, cancel, cancelled, residue, told, turns>>

\* The reply says that the session was saved.
Reply ==
    /\ phase = "reply"
    /\ told' = tokens
    /\ phase' = "idle" /\ Free
    /\ UNCHANGED <<file, temp, cancel, turns>>

\* The process dies: session_write exits on a write error, and anything may
\* kill it.  A temporary file it leaves is never read.
Crash ==
    /\ phase # "down"
    /\ phase' = "down" /\ temp' = NoFile /\ cancel' = FALSE
    /\ Free
    /\ UNCHANGED <<file, told, turns>>

Restart ==
    /\ phase = "down"
    /\ phase' = "idle"
    /\ UNCHANGED <<file, temp, tokens, answer, stateVars, cancel, cancelled,
                   residue, told, turns>>

-----------------------------------------------------------------------------
(* Compaction.                                                             *)

MessageStarts(history) == {i \in 1 .. Len(history) : history[i] = "start"}

FirstOf(S, default) == IF S = {} THEN default
                       ELSE CHOOSE m \in S : \A n \in S : m <= n

\* compaction_tail_start: the first message at or after the desired place, or
\* else the last one before it if the tail stays within twice the target.
TailStart(history) ==
    LET n == Len(history)
        desired == IF n > TargetTail THEN n - TargetTail + 1 ELSE 1
        starts == MessageStarts(history)
        after == {i \in starts : i >= desired}
        before == {i \in starts : i < desired /\ n - i + 1 <= 2 * TargetTail}
    IN  IF after # {} THEN FirstOf(after, n + 1)
        ELSE IF before # {} THEN LastOf(before) ELSE n + 1

\* Fault: images stay in the tail.
TailWithImages(history) == TailStart(history)

\* Past the last image of the tail: its embeddings cannot be computed again.
TextTailStart(history) ==
    LET n == Len(history)
        image == LastOf({i \in TailStart(history) .. n : history[i] = "pad"})
    IN  IF image = 0 THEN TailStart(history)
        ELSE FirstOf({i \in MessageStarts(history) : i > image}, n + 1)

\* The system message with the summary, and the recent turns.
Compacted(history) ==
    <<"start", "text", "end">> \o SubSeq(history, TextTailStart(history), Len(history))

\* compact_session asks the model for a summary of the resumed session.
StartCompact ==
    /\ phase = "idle" /\ file # NoFile /\ turns < MaxTurns
    /\ phase' = "summary" /\ turns' = turns + 1
    /\ cancel' = FALSE
    /\ UNCHANGED <<file, temp, tokens, answer, stateVars, cancelled, residue, told>>

\* The summary is there; or it failed, was cancelled, or saves nothing.
EndSummary ==
    /\ phase = "summary"
    /\ \/ phase' = "idle" /\ UNCHANGED tokens
       \/ /\ ~cancel /\ Len(Compacted(file.tokens)) < Len(file.tokens)
          /\ tokens' = Compacted(file.tokens)
          /\ phase' = "prefill"
    /\ UNCHANGED <<file, temp, answer, stateVars, cancel, cancelled, residue, told,
                   turns>>

\* session_prefill_save_tokens: all but the last token, as plain text.
PrefillStep ==
    LET done == Len(rows)
        rest == Len(tokens) - 1 - done
        count == IF rest > PrefillChunk THEN PrefillChunk ELSE rest
        chunk == SubSeq(tokens, done + 1, done + count)
    IN  /\ phase = "prefill"
        /\ \/ rest > 0 /\ cancel /\ phase' = "idle" /\ Free
           \/ /\ rest > 0 /\ ~cancel
              /\ rows' = rows \o [s \in 1 .. count |->
                                    [kind |-> chunk[s], pos |-> done + s - 1]]
              /\ recurrent' = recurrent \o chunk
              /\ UNCHANGED <<phase, tokens, answer, delta, cancelled, residue>>
           \/ /\ rest = 0
              /\ phase' = "save"
              /\ UNCHANGED <<tokens, answer, stateVars, cancelled, residue>>
        /\ UNCHANGED <<file, temp, cancel, told, turns>>

-----------------------------------------------------------------------------
Next ==
    \/ \E thinking \in BOOLEAN, grid \in Grids \cup {NoGrid} : StartTurn(thinking, grid)
    \/ RaiseCancel
    \/ ChooseToken \/ TokenSink \/ StepToken \/ Finish
    \/ SaveCreates \/ SaveWrites \/ SaveRenames \/ SaveFails \/ Reply
    \/ StartCompact \/ EndSummary \/ PrefillStep
    \/ Crash \/ Restart

Spec == Init /\ [][Next]_vars

-----------------------------------------------------------------------------
(* Properties.                                                             *)

\* Every variable keeps its type; in particular no crash and no failed save
\* leaves half a snapshot at the conversation's path.
SessionTypeOK ==
    /\ file \in Snapshots \cup {NoFile} /\ temp \in Snapshots \cup {NoFile, Torn}
    /\ phase \in {"idle", "down", "decode", "sink", "step", "finish", "save", "write",
                  "rename", "reply", "summary", "prefill"}
    /\ tokens \in Seq(Kinds) /\ answer \in Nat
    /\ rows \in Seq(Rows) /\ recurrent \in Seq(Embedded) /\ delta \in Int
    /\ cancel \in BOOLEAN /\ cancelled \in BOOLEAN /\ residue \in BOOLEAN
    /\ told \in Seq(Kinds) /\ turns \in 0 .. MaxTurns

EmbeddedAs(kind) == IF kind = "pad" THEN "image" ELSE kind

\* A snapshot holds one row for every token but the last, each computed from
\* that token (a pad from its image), whatever was cancelled, trimmed, resumed
\* or compacted before.
RowsAreTheTokens ==
    file # NoFile =>
        /\ Len(file.tokens) >= 2 /\ Len(file.rows) = Len(file.tokens) - 1
        /\ \A i \in 1 .. Len(file.rows) :
              file.rows[i].kind = EmbeddedAs(file.tokens[i])

\* The recurrent state of a snapshot is that of the same tokens, each stepped
\* once, unless a cancelled turn left the state of the tokens it dropped.
StateIsOfTheTokens ==
    file # NoFile /\ ~file.residue => file.recurrent = KindsOf(file.rows)

Extends(new, old) == Len(new) >= Len(old) /\ SubSeq(new, 1, Len(old)) = old

\* new is shorter, and ends with whole messages of old.
Shortens(new, old) ==
    /\ Len(new) < Len(old)
    /\ \E i \in 1 .. Len(old) + 1 :
          /\ i <= Len(old) => old[i] = "start"
          /\ SubSeq(old, i, Len(old)) = SubSeq(new, 4, Len(new))

\* A turn only ever adds to the history on disk; a compaction replaces it by
\* something shorter that ends with whole recent messages.
HistoryIsKept ==
    [][file' # file /\ file # NoFile =>
        Extends(file'.tokens, file.tokens) \/ Shortens(file'.tokens, file.tokens)]_vars

\* A client that is told that its turn was saved finds exactly that turn on
\* disk, whichever step of the save may have failed.
ToldIsOnDisk ==
    [][told' # told => file' # NoFile /\ file'.tokens = told']_vars

\* The comment on cancelled_turn_trim (qwen36b.c:3848-3851): the history that a
\* cancelled turn leaves ends outside an open thinking block.
CancelledOutsideThinking ==
    phase = "save" /\ cancelled =>
        LET opens == {i \in 1 .. Len(tokens) : tokens[i] = "open"}
            closes == {i \in 1 .. Len(tokens) : tokens[i] = "close"}
        IN  LastOf(opens) <= LastOf(closes)

\* The comment on generate_continue (qwen36b.c:3949-3952): a resumed session
\* goes on as if never interrupted, so text sits at consecutive positions.
PositionsConsecutive ==
    \A i \in 1 .. Len(rows) - 1 :
        rows[i].kind # "image" /\ rows[i + 1].kind # "image" =>
            rows[i + 1].pos = rows[i].pos + 1
=============================================================================
