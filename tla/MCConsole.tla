----------------------------- MODULE MCConsole ------------------------------
(* The web console, for TLC: the documentation page and the other pages     *)
(* share no variable, so a behaviour exercises one of the two.              *)
EXTENDS Console, DocConsole

VARIABLE part

Draft(f, e, c, m) ==
    [provider |-> "openai", format |-> f, efforts |-> e, context_window |-> c, max_tokens |-> m]
MCDrafts == {Draft("", {}, 1, 2), Draft("deepseek", {"low"}, 2, 2), Draft("", {"off"}, 0, 1)}
MCIdentities == {
    [authenticated |-> FALSE, auth_enabled |-> TRUE, pages |-> {}],
    [authenticated |-> FALSE, auth_enabled |-> FALSE, pages |-> Guarded],
    [authenticated |-> TRUE, auth_enabled |-> TRUE, pages |-> Guarded \ {"repo"}]}

Init ==
    /\ part \in {"pages", "documents"}
    /\ ConsoleInit /\ DocConsoleInit
    /\ part = "documents" => nav = NoNav
    /\ part = "pages" => detail.id = CHOOSE d \in DocIds : TRUE
Next ==
    /\ \/ part = "pages" /\ ConsoleNext /\ UNCHANGED docConsoleVars
       \/ part = "documents" /\ DocConsoleNext /\ UNCHANGED consoleVars
    /\ UNCHANGED part
=============================================================================
