--------------------------- MODULE MCSlackCommands ---------------------------
EXTENDS SlackCommands

CONSTANT r1

MCRequests == {r1}

Ask(first, second, request) ==
    [i \in Items |-> CASE i = 1 -> first [] i = 2 -> second [] i = r1 -> request]

\* Control actions that interfere, notifications side by side, and what changes
\* nothing (an interactive envelope is answered like a malformed command).
MCAsked == {Ask("pause", "cancel", "resume"), Ask("notify", "stop", "notify"),
            Ask("garbled", "malformed", "query")}
=============================================================================
