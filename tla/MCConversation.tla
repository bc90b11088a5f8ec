--------------------------- MODULE MCConversation ---------------------------
(* Instances of Conversation for TLC.                                       *)
EXTENDS Conversation, TLC
Tool(n) == [n |-> n, ask |-> FALSE]
Ask(n) == [n |-> n, ask |-> TRUE]
\* No call, a tool, a question, a question before a tool, two questions.
MCShapes == {{}, {Tool(1)}, {Ask(1)}, {Ask(1), Tool(2)}, {Ask(1), Ask(2)}}
\* A turn cut off by max_tokens, as the Anthropic adapter reports it.
MCCutOff == {{}, {Tool(1)}, {Ask(1)}}
\* Under stopReasonFor a final turn has no calls.
MCNoCutOff == {{}}
Symmetry == Permutations(Devices)
=============================================================================
