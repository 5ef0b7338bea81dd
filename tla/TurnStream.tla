------------------------------ MODULE TurnStream ------------------------------
(***************************************************************************)
(* One request of Codex answered through the ChatGPT page                  *)
(* (web_models/browser_turn.rs).  A turn opens an empty chat, chooses the  *)
(* effort, attaches the prompt and clicks; then it renders the page again  *)
(* and again and streams what it takes for settled: whole blocks that two  *)
(* renders agree on, and the common prefix of two renders less a tail held *)
(* back.  The page may rewrite what it showed.  A gate keeps back text     *)
(* that may turn out to be a tool call, which begins with a marker.        *)
(*                                                                         *)
(* Texts are short sequences of symbols, each symbol a block of the page;  *)
(* white space is left out.  Turns are serialised by turn_lock.            *)
(***************************************************************************)
EXTENDS Naturals, SequencesExt

CONSTANTS Marker,     \* the sequence of symbols a tool call begins with
          Symbol,     \* what the page may show
          MaxLen,     \* bound: symbols on the page
          MaxTurn,    \* bound: turns
          Hold,       \* STREAM_TEXT_TAIL_HOLD_CHARS
          MinAnchor, MaxAnchor,  \* the 24 and 64 of reconcile_streamed_with_final
          MaxQueue    \* capacity of the channel of deltas

ASSUME TurnAssumption ==
    /\ {MaxLen, MaxTurn, Hold, MinAnchor, MaxAnchor, MaxQueue} \subseteq Nat
    /\ Marker \in Seq(Symbol)

VARIABLES chat,       \* the page: turns it shows, clicks it has not shown yet
          phase,      \* how far run_browser_turn is
          turns,      \* how many turns were begun
          late,       \* the page owes the message of a turn that is over
          last,       \* the last render that was not empty
          blank,      \* the last render was empty
          committed,  \* the blocks streamed as blocks
          emitted,    \* the text handed to the gate
          gate,       \* ToolStreamGate
          queue,      \* deltas the response task has not received
          streamed,   \* what the client has received
          text,       \* the answer of the turn
          outcome,    \* how the response ended
          rewritten   \* the page replaced what it had shown

tvars == <<chat, phase, turns, late, last, blank, committed, emitted, gate, queue, streamed,
           text, outcome, rewritten>>
stream == <<last, blank, committed, emitted, gate, queue, streamed, text, outcome, rewritten>>

Texts == SeqOf(Symbol, MaxLen)
Prefix(s, n) == SubSeq(s, 1, n)
Rest(s, n) == SubSeq(s, n + 1, Len(s))
Undecided == [mode |-> "undecided", pending |-> <<>>]

TurnInit == /\ chat = [turns |-> 0, coming |-> 0]
            /\ phase = "idle" /\ turns = 0 /\ late = FALSE
            /\ last = <<>> /\ blank = TRUE /\ committed = <<>> /\ emitted = <<>>
            /\ gate = Undecided /\ queue = <<>> /\ streamed = <<>> /\ text = <<>>
            /\ outcome = "none" /\ rewritten = FALSE

-----------------------------------------------------------------------------
\* The page before the answer.

Begin == /\ phase = "idle" /\ turns < MaxTurn
         /\ phase' = "navigate" /\ turns' = turns + 1
         /\ last' = <<>> /\ blank' = TRUE /\ committed' = <<>> /\ emitted' = <<>>
         /\ gate' = Undecided /\ queue' = <<>> /\ streamed' = <<>> /\ text' = <<>>
         /\ outcome' = "none" /\ rewritten' = FALSE
         /\ UNCHANGED <<chat, late>>

\* Mutant of CanReuse: whatever page is there is taken.
CanReuseAny == TRUE

\* The page shows neither a user's nor an assistant's turn.
CanReuse == chat.turns = 0

Reuse == /\ phase = "navigate" /\ CanReuse
         /\ phase' = "effort"
         /\ UNCHANGED <<chat, turns, late, stream>>

Navigate == /\ phase \in {"navigate", "refresh"}
            /\ chat' = [turns |-> 0, coming |-> 0] /\ late' = FALSE
            /\ phase' = IF phase = "refresh" THEN "last effort" ELSE "effort"
            /\ UNCHANGED <<turns, stream>>

\* select_effort fails once: a fresh chat and one more attempt.
EffortFailed == /\ phase = "effort" /\ phase' = "refresh"
                /\ UNCHANGED <<chat, turns, late, stream>>

EffortSelected == /\ phase \in {"effort", "last effort"} /\ phase' = "attach"
                  /\ UNCHANGED <<chat, turns, late, stream>>

\* attach_prompt: cleared, inserted and compared, twice at most.
Attached == /\ phase = "attach" /\ phase' = "submit"
            /\ UNCHANGED <<chat, turns, late, stream>>

\* The click of submit_prompt.
Submit == /\ phase = "submit" /\ phase' = "waiting"
          /\ chat' = [chat EXCEPT !.coming = @ + 1]
          /\ UNCHANGED <<turns, late, stream>>

\* The page shows the message that was sent.
Shown == /\ chat.coming > 0
         /\ chat' = [turns |-> chat.turns + 1, coming |-> chat.coming - 1]
         /\ UNCHANGED <<phase, turns, late, stream>>

Acknowledged == /\ phase = "waiting" /\ chat.turns > 0
                /\ phase' = "stream"
                /\ UNCHANGED <<chat, turns, late, stream>>

\* An error, a timeout, or the client closes the response, which drops the
\* turn.  The next request may come at once.
AbandonTurn == /\ phase \notin {"idle", "ended"}
               /\ phase' = "idle" /\ outcome' = "failed"
               /\ late' = (late \/ chat.coming > 0)
               /\ UNCHANGED <<chat, turns, last, blank, committed, emitted, gate, queue, streamed,
                              text, rewritten>>

-----------------------------------------------------------------------------
\* The stream.

CommonPrefix(s, t) ==
    Max({n \in 0 .. Min({Len(s), Len(t)}) : Prefix(s, n) = Prefix(t, n)})

\* stable_stream_end
StableEnd(n) == IF n > Hold THEN n - Hold ELSE 0

\* ToolStreamGate::forward: the gate afterwards, and the deltas it lets through.
Forward(g, delta) ==
    LET candidate == g.pending \o delta IN
    IF delta = <<>> THEN [gate |-> g, out |-> <<>>]
    ELSE IF g.mode = "message" THEN [gate |-> g, out |-> <<delta>>]
    ELSE IF g.mode = "tool" THEN [gate |-> g, out |-> <<>>]
    ELSE IF IsPrefix(candidate, Marker)
         THEN [gate |-> [g EXCEPT !.pending = candidate], out |-> <<>>]
    ELSE IF IsPrefix(Marker, candidate)
         THEN [gate |-> [mode |-> "tool", pending |-> candidate], out |-> <<>>]
    ELSE [gate |-> [mode |-> "message", pending |-> <<>>], out |-> <<candidate>>]

\* A render of the page: its text m, of which k blocks are complete.
Blocks(m, k) ==
    /\ k > Len(committed) /\ IsPrefix(committed, m)
    /\ k <= Len(last) /\ Prefix(m, k) = Prefix(last, k)
    /\ IsStrictPrefix(emitted, Prefix(m, k))

\* What the common prefix of two renders adds to e.
Settled(m, e) ==
    LET end == StableEnd(CommonPrefix(last, m)) IN
    IF ~blank /\ IsPrefix(e, m) /\ IsPrefix(e, last) /\ end > Len(e)
    THEN Prefix(m, end) ELSE e

Render ==
    phase = "stream" /\ \E m \in Texts \ {<<>>} :
    \E k \in {0} \cup {n \in 1 .. Len(m) : Blocks(m, n)} :
      LET e == IF Blocks(m, k) THEN Prefix(m, k) ELSE emitted
          first == Forward(gate, Rest(e, Len(emitted)))
          second == Forward(first.gate, Rest(Settled(m, e), Len(e)))
      IN /\ Len(queue) + Len(first.out) + Len(second.out) <= MaxQueue
         /\ emitted' = Settled(m, e)
         /\ committed' = IF Blocks(m, k) THEN Prefix(m, k) ELSE committed
         /\ gate' = second.gate
         /\ queue' = queue \o first.out \o second.out
         /\ last' = m /\ blank' = FALSE
         /\ rewritten' = (rewritten \/ ~IsPrefix(last, m))
         /\ UNCHANGED <<chat, phase, turns, late, streamed, text, outcome>>

RenderEmpty ==
    /\ phase = "stream" /\ ~blank
    /\ blank' = TRUE /\ rewritten' = TRUE
    /\ UNCHANGED <<chat, phase, turns, late, last, committed, emitted, gate, queue, streamed,
                   text, outcome>>

\* The anchors of reconcile_streamed_with_final: a suffix of what was emitted
\* that the page has once, which is to say, not again after its first place.
Ending(n) == Rest(emitted, Len(emitted) - n)
Occurrences(a, m) == {i \in 0 .. Len(m) - Len(a) : SubSeq(m, i + 1, i + Len(a)) = a}
Once(a, m) == \E i \in Occurrences(a, m) : \A j \in Occurrences(a, m) : i <= j /\ j < i + Len(a)
Anchors(m) ==
    LET longest == Min({Len(emitted), MaxAnchor}) IN
    {n \in Min({MinAnchor, longest}) .. longest : n > 0 /\ Once(Ending(n), m)}
AfterAnchor(m) ==
    LET n == Max(Anchors(m)) IN emitted \o Rest(m, Min(Occurrences(Ending(n), m)) + n)

\* Mutant of Final: the page as it is in the end.
FinalPage(m) == m

\* The answer, when the page was rewritten under what is already emitted.
Final(m) ==
    LET blocks == committed \o Rest(m, Len(committed)) IN
    IF IsPrefix(emitted, m) THEN m
    ELSE IF Anchors(m) # {} THEN AfterAnchor(m)
    ELSE IF Len(m) >= Len(committed) /\ IsPrefix(emitted, blocks) THEN blocks
    ELSE emitted

\* The probe says the answer is complete; the page is rendered once more.
Complete ==
    /\ phase = "stream"
    /\ \E m \in Texts \ {<<>>} :
      /\ text' = Final(m)
      /\ last' = m /\ rewritten' = (rewritten \/ ~IsPrefix(last, m))
      /\ phase' = "ended"
      /\ UNCHANGED <<chat, turns, late, blank, committed, emitted, gate, queue, streamed, outcome>>

\* The response task receives a delta and sends it on, until the channel is
\* empty.
Deliver ==
    /\ phase \in {"stream", "ended"} /\ queue # <<>>
    /\ streamed' = streamed \o Head(queue) /\ queue' = Tail(queue)
    /\ UNCHANGED <<chat, phase, turns, late, last, blank, committed, emitted, gate, text, outcome,
                   rewritten>>

\* Mutant of Remainder: what the turn emitted is not sent again.
RemainderEmitted == Rest(text, Len(emitted))

Remainder == Rest(text, Len(streamed))

\* parse_browser_output finds no marker: a message.
EndMessage ==
    /\ phase = "ended" /\ queue = <<>> /\ ~IsPrefix(Marker, text)
    /\ IF IsPrefix(streamed, text)
       THEN streamed' = streamed \o Remainder /\ outcome' = "message"
       ELSE UNCHANGED streamed /\ outcome' = "diverged"
    /\ phase' = "idle"
    /\ UNCHANGED <<chat, turns, late, last, blank, committed, emitted, gate, queue, text, rewritten>>

\* A marker: tool calls, unless their envelope is not valid.
EndTools ==
    /\ phase = "ended" /\ IsPrefix(Marker, text)
    /\ outcome' \in IF streamed = <<>> /\ queue = <<>> THEN {"tools", "failed"} ELSE {"mixed"}
    /\ queue' = <<>> /\ phase' = "idle"
    /\ UNCHANGED <<chat, turns, late, last, blank, committed, emitted, gate, streamed, text,
                   rewritten>>

TurnNext ==
    \/ Begin \/ Reuse \/ Navigate \/ EffortFailed \/ EffortSelected \/ Attached \/ Submit \/ Shown
    \/ Acknowledged \/ AbandonTurn \/ Render \/ RenderEmpty \/ Complete \/ Deliver
    \/ EndMessage \/ EndTools
TurnSpec == TurnInit /\ [][TurnNext]_tvars

-----------------------------------------------------------------------------
TurnTypeOK ==
    /\ chat.turns \in 0 .. MaxTurn + 1 /\ chat.coming \in 0 .. MaxTurn
    /\ {last, committed, emitted, gate.pending} \subseteq Texts
    /\ gate.mode \in {"undecided", "message", "tool"}
    /\ outcome \in {"none", "failed", "message", "tools", "diverged", "mixed"}
    /\ Len(queue) <= MaxQueue

\* The two refusals of the response task never happen, however the page is
\* rewritten: "Mnelyra browser stream diverged from the completed ChatGPT
\* response" and "Mnelyra streamed assistant text before a Codex tool call".
NeverContradicts == outcome \notin {"diverged", "mixed"}

\* A completed message: the deltas of the client add up to the text announced
\* at the end, and to the answer of the page when the page never rewrote it.
TextIsWhole ==
    outcome = "message" => streamed = text /\ (~rewritten => text = last)

\* One turn per page: while an answer is read the page shows one message, this
\* turn's, unless a turn was given up before the page showed its own.
OwnAnswer == phase = "stream" /\ ~late => chat.turns = 1

\* What the client is streamed is the answer of its own turn, whole and with
\* nothing it would have to take back.
StreamIsAnswer == NeverContradicts /\ TextIsWhole /\ OwnAnswer
=============================================================================
