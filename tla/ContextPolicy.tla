--------------------------- MODULE ContextPolicy ---------------------------
(***************************************************************************)
(* The integer arithmetic of src/qwen36b.c that decides how long a         *)
(* conversation may grow: the limit at start-up, what fits in it, when a   *)
(* conversation is compacted and what a compaction leaves room for.        *)
(* SamosaServe asks these questions with its own settings.                 *)
(*                                                                         *)
(* Division is that of C on operands that are not negative.                *)
(***************************************************************************)
EXTENDS Integers

IntMax == 2147483647                \* INT_MAX
Int32 == (- IntMax - 1) .. IntMax   \* int

-----------------------------------------------------------------------------
(* The limit at start-up.                                                  *)

Lesser(a, b) == IF a <= b THEN a ELSE b
Greater(a, b) == IF a >= b THEN a ELSE b

\* Host tiers.  Memory is in whole GiB: the code compares it with nothing
\* finer, and takes an unknown size (0) for a small host.
AutoLimit(memory, model_limit) ==
    Lesser(model_limit, CASE memory < 24 -> 24576
                          [] memory \in 24 .. 47 -> 65536
                          [] memory \in 48 .. 95 -> 131072
                          [] OTHER -> model_limit)

\* What --context-tokens may ask: "auto", or a number the model can hold.
Configurable(auto, requested, model_limit) ==
    auto \/ requested \in 2 .. model_limit

ConfiguredLimit(auto, requested, memory, model_limit) ==
    IF auto THEN AutoLimit(memory, model_limit) ELSE requested

\* Bytes of K and V per token; 0, which start-up refuses, for an empty geometry
\* and for one whose product exceeds the largest word.
KvBytesPerToken(full, heads, dim, word) ==
    IF \/ 0 \in {full, heads, dim}
       \/ full > word \div heads
       \/ full * heads > word \div dim
       \/ full * heads * dim > word \div 8
    THEN 0 ELSE full * heads * dim * 8

-----------------------------------------------------------------------------
(* What a turn may occupy, and when its conversation is compacted first.   *)

\* The order of the tests keeps every subtraction within an int.
FitsIn(limit, existing, extra, generated) ==
    /\ existing >= 0 /\ extra >= 0 /\ generated >= 0
    /\ existing <= limit
    /\ extra <= limit - existing
    /\ generated <= limit - existing - extra

Threshold(limit, percent) == (limit * percent + 99) \div 100

ShouldCompact(existing, extra, generated, limit, percent) ==
    /\ existing >= 2 /\ extra >= 0 /\ generated >= 0
    /\ limit >= 2 /\ percent \in 1 .. 100
    /\ existing >= limit \div 4
    /\ existing + extra + generated >= Threshold(limit, percent)

-----------------------------------------------------------------------------
(* What compact_session asks of the limit: how long the summary may be.    *)

SummaryTokens(limit, before, extra) ==
    Lesser(limit - before - extra, Lesser(2048, Greater(512, limit \div 24)))

CanSummarize(limit, before, extra) ==
    extra > 0 /\ SummaryTokens(limit, before, extra) >= 256
=============================================================================
