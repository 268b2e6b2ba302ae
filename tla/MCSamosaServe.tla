--------------------------- MODULE MCSamosaServe ---------------------------
(* Small instances of SamosaServe: which requests the clients of a run     *)
(* send.  Conversation c1 is shared by every chat.                         *)
EXTENDS SamosaServe, TLC

CONSTANTS c1

Chat(max, image) == [op |-> "chat", conversation |-> c1, extra |-> 1,
                     max_tokens |-> max, image |-> image]
LooseChat == [op |-> "chat", conversation |-> NoConversation, extra |-> 1,
              max_tokens |-> 1, image |-> FALSE]
Settings(fields, limit, auto) ==
    [op |-> "settings", fields |-> fields, limit |-> limit, auto |-> auto,
     threshold |-> 80]
Compact == [op |-> "compact", conversation |-> c1]
Cancel == [op |-> "cancel"]
Shutdown == [op |-> "shutdown"]

Turns == {Chat(2, FALSE), Settings({"limit"}, 4, TRUE), Settings({"limit", "auto"}, 7, FALSE),
          Settings({"limit", "threshold"}, 9, TRUE), Compact, Cancel}
Stops == {LooseChat, Shutdown}
Images == {Chat(1, TRUE), LooseChat}

\* The examples of tests/test_samosa_serve.c for the context policy.
ASSUME PolicyExamples ==
    /\ FitsIn(24576, 0, 16384, 8192) /\ FitsIn(24576, 24000, 500, 76)
    /\ ~ FitsIn(24576, 24000, 500, 77) /\ ~ FitsIn(24576, 24576, 1, 1)
    /\ KvBytesPerToken(2, 2, 128, 65535) = 4096
    /\ Configurable(FALSE, 131072, 262144) /\ ~ Configurable(FALSE, 262145, 262144)
    /\ AutoLimit(16, 262144) = 24576 /\ AutoLimit(64, 262144) = 131072
    /\ ShouldCompact(70, 5, 5, 100, 80) /\ ~ ShouldCompact(69, 5, 5, 100, 80)
    /\ ~ ShouldCompact(20, 60, 0, 100, 80)

Symmetry == Permutations(Threads)
=============================================================================
