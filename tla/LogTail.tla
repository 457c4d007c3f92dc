------------------------------ MODULE LogTail ------------------------------
(***************************************************************************)
(* `aic logs tail` (src/logs/cli.rs: TailCursor, TailSeen, tail): polls of *)
(* the log API over windows that overlap, so that an event which appears   *)
(* late is still queried, and a set of ids already printed, forgotten once *)
(* their events can not be returned again.  A poll's window is fixed when  *)
(* it begins; its pages come while events go on appearing.                 *)
(***************************************************************************)
EXTENDS Integers

CONSTANTS Event,
          TAIL_OVERLAP, TAIL_INITIAL_LOOKBACK_SECONDS,
          MaxLag,    \* the longest an event takes to appear
          MaxTime

LogTailAssumption ==
    {TAIL_OVERLAP, TAIL_INITIAL_LOOKBACK_SECONDS, MaxLag, MaxTime} \subseteq Nat

VARIABLES now, ts, visible,
          origin, next_begin,   \* TailCursor
          seen,                 \* TailSeen
          window,               \* of the poll under way, or NoWindow
          printed               \* how often each event was printed

vars == <<now, ts, visible, origin, next_begin, seen, window, printed>>

Never == -100
NoWindow == <<>>

\* The command starts at some time, when some events have happened.
Init ==
    /\ now \in 0..MaxTime
    /\ ts \in [Event -> {Never} \cup 0..now]
    /\ visible = {e \in Event : ts[e] # Never /\ now - ts[e] >= MaxLag}
    /\ origin = now - TAIL_INITIAL_LOOKBACK_SECONDS
    /\ next_begin = origin
    /\ seen = {}
    /\ window = NoWindow
    /\ printed = [e \in Event |-> 0]

Happen(e) ==
    /\ ts[e] = Never
    /\ ts' = [ts EXCEPT ![e] = now]
    /\ UNCHANGED <<now, visible, origin, next_begin, seen, window, printed>>

Appear(e) ==
    /\ ts[e] # Never /\ e \notin visible
    /\ visible' = visible \cup {e}
    /\ UNCHANGED <<now, ts, origin, next_begin, seen, window, printed>>

Tick ==
    /\ now < MaxTime
    /\ \A e \in Event \ visible : ts[e] # Never => now - ts[e] < MaxLag
    /\ now' = now + 1
    /\ UNCHANGED <<ts, visible, origin, next_begin, seen, window, printed>>

-----------------------------------------------------------------------------
Larger(a, b) == IF a >= b THEN a ELSE b

\* Mutant of NextBegin: the rewind is shorter than events take to appear.
NextBeginShort(end) == Larger(end - 1, origin)


\* next_window's rewind.
NextBegin(end) == Larger(end - TAIL_OVERLAP, origin)

\* TailSeen::prune
Remembered(begin) == {e \in seen : ts[e] > begin}

\* next_window and prune.  A clock that has not moved ends the command with
\* an error instead.
BeginPoll ==
    /\ window = NoWindow
    /\ now > next_begin
    /\ window' = <<next_begin, now>>
    /\ next_begin' = NextBegin(now)
    /\ seen' = Remembered(next_begin)
    /\ UNCHANGED <<now, ts, visible, origin, printed>>

\* The pages of the poll: the events the API has shown by then, each printed
\* unless TailSeen::accept knows its id.
EndPoll ==
    /\ window # NoWindow
    /\ LET new == {e \in visible : ts[e] > window[1] /\ ts[e] <= window[2]} \ seen
       IN  /\ printed' = [e \in Event |-> IF e \in new THEN printed[e] + 1
                                          ELSE printed[e]]
           /\ seen' = seen \cup new
    /\ window' = NoWindow
    /\ UNCHANGED <<now, ts, visible, origin, next_begin>>

Next ==
    \/ \E e \in Event : Happen(e) \/ Appear(e)
    \/ Tick \/ BeginPoll \/ EndPoll

\* Polls follow one another, and time goes on.
Spec == Init /\ [][Next]_vars /\ WF_vars(BeginPoll) /\ WF_vars(EndPoll)

-----------------------------------------------------------------------------
(* Properties. *)

\* Types of the variables, the seen set's within the events that are visible.
TypeOK ==
    /\ now \in 0..MaxTime
    /\ ts \in [Event -> {Never} \cup 0..MaxTime]
    /\ visible \subseteq Event /\ seen \subseteq visible
    /\ window = NoWindow \/ window[1] < window[2]
    /\ printed \in [Event -> Nat]

\* No event is printed twice, although the windows overlap and the ids of
\* printed events are forgotten, and none from before the advertised lookback.
PrintedOnce == \A e \in Event : printed[e] <= (IF ts[e] > origin THEN 1 ELSE 0)

Due(e) == e \in visible /\ ts[e] > origin
Printed(e) == printed[e] = 1

\* An event since the lookback that appears within the overlap is printed,
\* whatever poll was under way when it happened and when it appeared.
LateIsPrinted == \A e \in Event : Due(e) ~> Printed(e)
=============================================================================
