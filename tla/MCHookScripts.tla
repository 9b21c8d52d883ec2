--------------------------- MODULE MCHookScripts ---------------------------
(* The shell guard beside any other hook of the conversation.              *)
EXTENDS HookScripts

CONSTANTS h1, h2

E(k, cmd) == [kind |-> k, cmd |-> cmd, conversation |-> TRUE, background |-> FALSE]

Commands == {{"empty"}, {"malformed"}, {"hard", "soft"}, {"done", "soft"}, {"done", "dispatch"}}

MCEventsOf ==
    [h \in {h1, h2} |->
        IF h = h1
        THEN {E("shell", c) : c \in Commands}
             \cup {[E("shell", {"done", "dispatch"}) EXCEPT !.conversation = FALSE]}
        ELSE {E(k, {}) : k \in Kinds \ {"shell"}}
             \cup {[E("start", {}) EXCEPT !.background = TRUE]}]

MCEnvironments ==
    {[disable |-> FALSE, mask |-> {}, masked |-> FALSE, tiers |-> {"dod", "dispatch"}],
     [disable |-> FALSE, mask |-> {"shell"}, masked |-> TRUE, tiers |-> {"dod"}],
     [disable |-> TRUE, mask |-> {"shell"}, masked |-> TRUE, tiers |-> {}]}
=============================================================================
