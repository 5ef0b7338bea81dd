------------------------------ MODULE MCDesktop ------------------------------
(***************************************************************************)
(* Desktop on a small instance; its state space is the sum of those of the *)
(* components.                                                             *)
(*                                                                         *)
(*   connector  two workspaces that compete for two ports and a subdomain, *)
(*              one caller of the connector                                *)
(*   events     a log of two events, five appends in a run of the          *)
(*              application, two runs                                      *)
(*   oauth      one login, a built-in and a registered client, two         *)
(*              addresses, two token requests, one change of the secrets   *)
(*   history    two tool calls at a time and three in all, two session     *)
(*              keys, two files, one turn id, two texts, one search, one   *)
(*              edit of a file or loss of the state                        *)
(*   route      two edits by the user                                      *)
(*   turn       two turns of three symbols, the first two the marker of    *)
(*              tool calls                                                 *)
(*   web        two operations, one thread, one request at a time          *)
(*   patch      two files and one below .git, patches of two sections, one *)
(*              file written by others, two operations on files that fail  *)
(*   log        two appenders, three records, a failed write, a restart    *)
(*   harness    two tool calls at a time and four in all, with saves in    *)
(*              three steps, two tasks, two changes of the files, a commit *)
(***************************************************************************)
EXTENDS Desktop

CONSTANTS w1, w2, d1, c1, c2, f1, f2, g1, g2, h1, h2, k1, k2, l1, o1, o2, r1, r2, r3,
          t1, t2, u1, u2, x1, x2, y1, y2

MCWorkspace == {w1, w2}
MCPort == 1 .. 2
MCSubdomain == {d1}
MCCaller == {c1}
MCFaults == {"save", "crash"}
MCPageLimits == 1 .. 2
MCHCaller == {h1, h2}
MCKey == {k1, k2}
MCTurn == {t1}
MCText == {x1, x2}
MCMarker == <<"m1", "m2">>
MCSymbol == {"m1", "m2", "a"}
MCOp == {o1, o2}
MCLogin == {l1}
MCClient == {y1, y2}
MCAddress == {u1, u2}
MCRequest == {r1, r2}
MCPath == {"f", "g", ".git"}
MCProtected == {".git"}
MCCritical == {"g"}
MCLine == {"a", "b"}
MCAppender == {g1, g2}
MCRecord == {r1, r2, r3}
MCTool == {f1, f2}
MCTask == {t1, t2}

\* No patch, one of a protected file, and those of one and of two sections.
Section(p, kind, hunks) == [path |-> p, kind |-> kind, hunks |-> hunks]
Hunk(old, new) == [old |-> old, new |-> new]
Sections ==
    UNION {{Section(p, "delete", <<>>), Section(p, "add", <<Hunk(<<>>, <<"b">>)>>),
            Section(p, "update", <<Hunk(<<"a">>, <<"a", "b">>)>>),
            Section(p, "update", <<Hunk(<<"a">>, <<"b">>), Hunk(<<>>, <<"a">>)>>)}
           : p \in Path \ Protected}
MCPatches ==
    {<<>>} \cup {<<s>> : s \in Sections} \cup (Sections \X Sections)
           \cup {<<Section(p, "delete", <<>>)>> : p \in Protected}

-----------------------------------------------------------------------------
\* What is explored: nothing after a step that takes the properties of the web
\* bridge out of force for good; a second turn only after a first whose page
\* was empty at its end; two calls of the archive where its files are edited, a
\* client reads one, or there is a checkpoint of the provider; a search for one
\* word, beside at most two calls and no edits, until it is answered; three calls
\* of the harness where there is a commit, a second change of the files or a race;
\* one failed operation of a patch on files that others write; and of what differs
\* in the names of callers, keys, texts and tasks only, the one in which the first
\* call of the archive is by h1, for k1 and with x1, the first call of the harness
\* by f1, and the first task t1.
Explored ==
    /\ part = "web" => ~strained
    /\ part = "turn" => turns <= 1 \/ last = <<>>
    /\ part = "history" => begun <= 2 \/ (edits = 0 /\ providers = 0 /\ reader.path = 0)
    /\ part = "history" /\ search.pc # "idle" =>
         begun <= 2 /\ edits = 0 /\ reader.path = 0 /\ search.word # x2 /\ search.pc # "done"
    /\ part = "history" /\ begun = 1 =>
         hcall[h2].pc = "idle" /\ hcall[h1].key # k2 /\ hcall[h1].text # x2
    /\ part = "harness" /\ called = 1 => tool[f2].pc = "idle" /\ tool[f1].task # t2
    /\ part = "harness" => called <= 3 \/ (head = 0 /\ tree <= 1 /\ ~raced)
    /\ part = "patch" => others = {} \/ faults <= 1
=============================================================================
