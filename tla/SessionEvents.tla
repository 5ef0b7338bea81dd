---------------------------- MODULE SessionEvents ----------------------------
(***************************************************************************)
(* The event log of one provider session (session/events.rs) and a client  *)
(* that follows it with a revision cursor (codex_session_events).          *)
(*                                                                         *)
(* Each append takes the next revision; text that continues the assistant's*)
(* last event is merged into it, and the oldest events beyond the capacity *)
(* are dropped.  A page holds what changed after the cursor, or, when the  *)
(* client fell behind, the most recent events and `reset`.                 *)
(***************************************************************************)
EXTENDS Integers, Sequences, FiniteSets

CONSTANTS MaxEvents,     \* MAX_EVENTS_PER_SESSION
          PageLimits,    \* the limits a client asks for, clamped
          MaxRevision,   \* bound: appends in one run of the application
          MaxRun         \* bound: runs of the application

ASSUME EventsAssumption ==
    /\ MaxEvents \in Nat \ {0}
    /\ PageLimits \subseteq Nat \ {0} /\ PageLimits # {}
    /\ MaxRevision \in Nat
    /\ MaxRun \in Nat \ {0}

VARIABLES log,       \* the events, oldest first
          revision,  \* 0: the session has no log
          made,   \* number of events ever created in this run
          run,       \* runs of the application so far; the log is in memory
          cursor,    \* the client's
          view       \* the events the client shows

evars == <<log, revision, made, run, cursor, view>>

\* An event's text is identified by the revision that last changed it, its id
\* by the run and its place among the events created in it.
Kind == {"assistant_delta", "other"}
Event == [id : (1 .. MaxRun) \X (1 .. MaxRevision), kind : Kind, revision : 1 .. MaxRevision]

EventsInit == /\ log = <<>> /\ revision = 0 /\ made = 0 /\ run = 1
        /\ cursor = 0 /\ view = <<>>

-----------------------------------------------------------------------------
\* Mutant of Bounded: the log is not bounded.
Unbounded(events) == events
Bounded(events) == IF Len(events) > MaxEvents THEN Tail(events) ELSE events

\* Merged unless the last event's text is full, which depends on its length:
\* either may happen.
Append1(kind) ==
    /\ revision < MaxRevision
    /\ revision' = revision + 1
    /\ \/ /\ kind = "assistant_delta"
          /\ log # <<>> /\ log[Len(log)].kind = kind
          /\ log' = [log EXCEPT ![Len(log)].revision = revision']
          /\ UNCHANGED made
       \/ /\ made' = made + 1
          /\ log' = Bounded(Append(log, [id |-> <<run, made'>>, kind |-> kind,
                                         revision |-> revision']))
    /\ UNCHANGED <<run, cursor, view>>

\* The application ends and starts again: the logs are empty.
StartAgain == /\ run < MaxRun
           /\ run' = run + 1
           /\ log' = <<>> /\ revision' = 0 /\ made' = 0
           /\ UNCHANGED <<cursor, view>>

-----------------------------------------------------------------------------
(* page()                                                                  *)

\* The elements of s at the places in I, in the order of s.
AtPlaces(s, I) ==
    [k \in 1 .. Cardinality(I) |-> s[CHOOSE i \in I : Cardinality({j \in I : j <= i}) = k]]

\* Mutant of Changed: events are told apart by their creation only.
CreatedSince(c) == AtPlaces(log, {i \in DOMAIN log : log[i].id[2] > c})
Changed(c) == AtPlaces(log, {i \in DOMAIN log : log[i].revision > c})
Recent(limit) == SubSeq(log, IF Len(log) > limit THEN Len(log) - limit + 1 ELSE 1, Len(log))

\* Mutant of FellBehind: off by one, one dropped event is not noticed.
FellFurther(c) == c > 0 /\ log # <<>> /\ log[1].revision > c + 2

FellBehind(c) == c > 0 /\ log # <<>> /\ log[1].revision > c + 1

Reset(c, limit) == IF revision = 0 THEN c > 0
                   ELSE FellBehind(c) \/ Len(Changed(c)) > limit

Page(c, limit) ==
    [events |-> IF c = 0 \/ Reset(c, limit) THEN Recent(limit) ELSE Changed(c),
     next   |-> revision,
     reset  |-> Reset(c, limit)]

\* The client: a reset page replaces what it shows, any other page replaces
\* the events it has and adds the ones it has not.
Has(e) == \E i \in DOMAIN view : view[i].id = e.id
Newer(events, e) == LET same == {i \in DOMAIN events : events[i].id = e.id}
                    IN  IF same = {} THEN e ELSE events[CHOOSE i \in same : TRUE]
Merge(events) ==
    [i \in DOMAIN view |-> Newer(events, view[i])]
        \o AtPlaces(events, {i \in DOMAIN events : ~Has(events[i])})

Poll(limit) ==
    LET page == Page(cursor, limit)
    IN  /\ cursor' = page.next
        /\ view' = IF cursor = 0 \/ page.reset THEN page.events ELSE Merge(page.events)
        /\ UNCHANGED <<log, revision, made, run>>

EventsNext == \/ \E k \in Kind : Append1(k)
        \/ StartAgain
        \/ \E limit \in PageLimits : Poll(limit)

EventsSpec == EventsInit /\ [][EventsNext]_evars

-----------------------------------------------------------------------------
EventsTypeOK == /\ log \in Seq(Event) /\ Len(log) <= MaxEvents
          /\ view \in Seq(Event)
          /\ revision \in 0 .. MaxRevision
          /\ cursor \in 0 .. MaxRevision

\* What the client shows has no hole: among the events of one run of the
\* application each follows the one before it in the order of creation, although
\* events were merged and dropped between two of its polls; events of an earlier
\* run come first.
ViewHasNoHole ==
    \A i \in 1 .. Len(view) - 1 :
        LET e == view[i].id  f == view[i + 1].id
        IN  e[1] < f[1] \/ (e[1] = f[1] /\ f[2] = e[2] + 1)

\* In the first run of the application a poll that moves the cursor delivers
\* what the log holds up to it: each event is shown as it is in the log, unless
\* all that is shown is newer.  A cursor kept over a restart is not promised as
\* much: the revisions start again, and the first events may be skipped.
Delivered ==
    \A i \in DOMAIN log :
        \/ log[i].revision > cursor
        \/ \E j \in DOMAIN view : view[j] = log[i]
        \/ /\ view # <<>>
           /\ \A j \in DOMAIN view : /\ view[j].id[1] = run
                                     /\ view[j].revision > log[i].revision
PollDelivers == [][run = 1 /\ cursor' # cursor => Delivered']_evars

\* A client that polls sees every event, in order and in its latest form,
\* although the log merges and drops events between two of its polls.
FollowerSeesAll == []ViewHasNoHole /\ PollDelivers
=============================================================================
