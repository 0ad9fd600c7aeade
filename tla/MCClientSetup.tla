---------------------------- MODULE MCClientSetup ----------------------------
(* Two runs over two clients, with users who edit between any two steps *)
EXTENDS ClientSetup, TLC

CONSTANTS cursor, codex

McSymmetry == Permutations(Runs)

NoEntry == [launcher |-> "none", version |-> 0, extras |-> {}, env |-> "none"]
McEntry(launcher, version, env) ==
    [launcher |-> launcher, version |-> version, extras |-> {}, env |-> env]
McDocument(entry) == [kind |-> "document", note |-> 0, entry |-> entry]

McOriginals ==
    {[McDocument(NoEntry) EXCEPT !.kind = "absent"],
     McDocument(McEntry("uvx", 2, "none")),
     McDocument(McEntry("uvx", 1, "proxy"))}

(* Another setting, another environment, a launcher of one's own, no        *)
(* launcher, a text that cannot be parsed                                   *)
McEdits(text) ==
    IF text.kind = "broken" THEN {}
    ELSE {[text EXCEPT !.kind = "document", !.note = 1],
          [text EXCEPT !.kind = "broken"]}
         \cup (IF text.entry.launcher = "none" THEN {}
               ELSE {[text EXCEPT !.entry.env = "proxy"],
                     [text EXCEPT !.entry.env = "invalid"],
                     [text EXCEPT !.entry.launcher = "other"],
                     [text EXCEPT !.entry = NoEntry]})

McTask(kind, clients, version, extras, preview) ==
    [kind |-> kind, clients |-> clients, version |-> version, extras |-> extras, preview |-> preview]
McTasks ==
    {McTask("setup", <<cursor, codex>>, 0, {"memray"}, FALSE),
     McTask("setup", <<codex>>, 0, {}, FALSE),
     McTask("update", <<cursor, codex>>, 0, {}, FALSE),
     McTask("update", <<cursor, codex>>, 1, {}, FALSE),
     McTask("update", <<cursor, codex>>, 0, {}, TRUE)}
=============================================================================
