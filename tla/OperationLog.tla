----------------------------- MODULE OperationLog -----------------------------
(***************************************************************************)
(* The logs of the harness (harness/store.rs): operations.jsonl of a       *)
(* workspace and the events of a task, one record a line.  Tool calls run  *)
(* on threads of their own and append without a lock; a record is written  *)
(* in two pieces, its text and the end of its line.  A client pages        *)
(* through a log with operation_log or list_task_events, and goes on from  *)
(* the cursor of the last answer.                                          *)
(***************************************************************************)
EXTENDS Naturals, SequencesExt

CONSTANTS Appender,  \* the tool calls that append
          Record,    \* the records, each appended by one call
          TornText,  \* what a failed write leaves of a text
          PageSizes, \* the limits a client asks for
          MaxTorn,   \* bound: failed writes
          MaxRestart \* bound: restarts of the application

\* What a failed write leaves is no record; the limits and bounds are numbers.
LogBounds == TornText \notin Record /\ PageSizes \cup {MaxTorn, MaxRestart} \subseteq Nat

ASSUME LogAssumption == LogBounds

VARIABLES lines,   \* the lines of the file, each the texts written on it
          partial, \* the last line has no end yet
          writing, \* per call, the record of which the text is written
          tried,   \* the records written so far
          acked,   \* history: those whose append returned without an error
          page,    \* the client: its cursor, and what it has been given
          torn, restarts,
          mixed    \* history: the text of a record went onto a line that was not ended

logVars == <<lines, partial, writing, tried, acked, page, torn, restarts, mixed>>

LogInit ==
    /\ lines = <<>> /\ partial = FALSE
    /\ writing = [a \in Appender |-> "none"]
    /\ tried = {} /\ acked = {}
    /\ page = [cursor |-> 0, seen |-> <<>>]
    /\ torn = 0 /\ restarts = 0 /\ mixed = FALSE

\* A text goes to the end of the file, whoever wrote last.
WithText(text) ==
    IF partial THEN [lines EXCEPT ![Len(lines)] = Append(@, text)] ELSE Append(lines, <<text>>)

AppendText(a, r) ==
    /\ writing[a] = "none" /\ r \notin tried
    /\ lines' = WithText(r) /\ partial' = TRUE
    /\ mixed' = (mixed \/ partial)
    /\ writing' = [writing EXCEPT ![a] = r]
    /\ tried' = tried \cup {r}
    /\ UNCHANGED <<acked, page, torn, restarts>>

\* The write of a text fails on the way; the caller ignores the error.
AppendFails(a, r) ==
    /\ writing[a] = "none" /\ r \notin tried /\ torn < MaxTorn
    /\ lines' = WithText(TornText) /\ partial' = TRUE
    /\ mixed' = (mixed \/ partial)
    /\ tried' = tried \cup {r}
    /\ torn' = torn + 1
    /\ UNCHANGED <<writing, acked, page, restarts>>

\* The end of the line, of an empty one when another call has ended the line.
AppendEnd(a) ==
    /\ writing[a] # "none"
    /\ lines' = IF partial THEN lines ELSE Append(lines, <<>>)
    /\ partial' = FALSE
    /\ writing' = [writing EXCEPT ![a] = "none"]
    /\ acked' = acked \cup {writing[a]}
    /\ UNCHANGED <<tried, page, torn, restarts, mixed>>

RestartLog ==
    /\ restarts < MaxRestart
    /\ restarts' = restarts + 1
    /\ writing' = [a \in Appender |-> "none"]
    /\ UNCHANGED <<lines, partial, tried, acked, page, torn, mixed>>

Readable(line) == Len(line) = 1 /\ line[1] # TornText

\* Mutant of ListFrom: lines that are not records are passed over.
ListAll(cursor, limit) ==
    LET n == IF cursor + limit < Len(lines) THEN cursor + limit ELSE Len(lines)
        good == SelectSeq(SubSeq(lines, cursor + 1, n), Readable)
    IN  [i \in DOMAIN good |-> good[i][1]]

\* The lines after the cursor, at most `limit`, up to the first that is not a
\* record.
ListFrom(cursor, limit) ==
    LET n == IF cursor + limit < Len(lines) THEN cursor + limit ELSE Len(lines)
        upTo == {k \in cursor .. n : \A i \in cursor + 1 .. k : Readable(lines[i])}
    IN  [i \in 1 .. Max(upTo) - cursor |-> lines[cursor + i][1]]

ListRecords(limit) ==
    LET records == ListFrom(page.cursor, limit)
    IN  page' = [cursor |-> page.cursor + Len(records), seen |-> page.seen \o records]
    /\ UNCHANGED <<lines, partial, writing, tried, acked, torn, restarts, mixed>>

LogNext ==
    \/ \E a \in Appender, r \in Record : AppendText(a, r) \/ AppendFails(a, r)
    \/ \E a \in Appender : AppendEnd(a)
    \/ RestartLog
    \/ \E limit \in PageSizes : ListRecords(limit)

-----------------------------------------------------------------------------
LogTypeOK ==
    /\ lines \in Seq(Seq(Record \cup {TornText}))
    /\ partial \in BOOLEAN /\ mixed \in BOOLEAN
    /\ writing \in [Appender -> Record \cup {"none"}]
    /\ tried \subseteq Record /\ acked \subseteq tried
    /\ page.cursor \in Nat /\ page.seen \in Seq(Record)
    /\ torn \in 0 .. MaxTorn /\ restarts \in 0 .. MaxRestart

Stored == {lines[i][1] : i \in {j \in DOMAIN lines : Readable(lines[j])}}

\* A client that pages through a log is given every record once and in the
\* order of the file; and a record whose append has returned can be read as
\* long as no two texts have met on one line, which takes two appends at a time,
\* or a write or a run of the application that ended in the middle of one.
LogReadsBack ==
    /\ page.cursor = Len(page.seen)
    /\ \A i \in DOMAIN page.seen : lines[i] # <<>> /\ page.seen[i] = lines[i][1]
    /\ \A i, j \in DOMAIN page.seen : page.seen[i] = page.seen[j] => i = j
    /\ ~mixed => acked \subseteq Stored
    /\ ~mixed /\ torn = 0 => \A i \in DOMAIN lines : Readable(lines[i])
=============================================================================
