---------------------------- MODULE MCCallbacks ----------------------------
\* An empty and a short file, two panels of which one is empty, and resource
\* files that share one string list; the fork of the last does not parse.
EXTENDS Callbacks

MCFiles == [main |-> 3, header |-> 0]
MCPanels == [warnings |-> 5, nothing |-> 0]
MCStrings == [plugin |-> [errors |-> 2, names |-> 1], patch |-> [errors |-> 1]]

=============================================================================
