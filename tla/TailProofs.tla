---------------------------- MODULE TailProofs ----------------------------
(***************************************************************************)
(* A tail prints no event twice and none from before its lookback, for any *)
(* events, overlap, lookback and lag.  What it has printed it remembers,   *)
(* or the windows have passed; what it forgets they have passed.           *)
(***************************************************************************)
EXTENDS LogTail, TLAPS

Times == {Never} \cup Nat

(* Types, as far as the argument needs them, for any bound on the time. *)
TailTyped ==
    /\ now \in Nat
    /\ ts \in [Event -> Times]
    /\ visible \subseteq Event /\ seen \subseteq visible
    /\ origin \in Int /\ next_begin \in Int
    /\ printed \in [Event -> Nat]
    /\ window # NoWindow => window \in Int \X Int

(* What the API shows has happened. *)
ShownHappened == \A e \in visible : ts[e] # Never

(* The next window begins at the origin or the overlap behind the last poll, and
   never before the window of the poll under way. *)
WindowsAdvance ==
    /\ next_begin = origin \/ next_begin + TAIL_OVERLAP <= now
    /\ origin <= next_begin
    /\ window # NoWindow => origin <= window[1] /\ window[1] <= next_begin

(* What was printed is remembered, or lies before begin. *)
PassedOrSeen(begin) == \A e \in Event : printed[e] > 0 => e \in seen \/ ts[e] <= begin

(* An event was printed once at most, after it appeared, and within the lookback;
   no window that can still be queried returns it as new. *)
PrintsOwn ==
    /\ \A e \in Event : printed[e] > 0 => printed[e] = 1 /\ e \in visible /\ ts[e] > origin
    /\ window = NoWindow => PassedOrSeen(next_begin)
    /\ window # NoWindow => PassedOrSeen(window[1])

TailInvariant == TailTyped /\ ShownHappened /\ WindowsAdvance /\ PrintsOwn

USE DEF Times, Never

LEMMA TailStarts == LogTailAssumption /\ Init => TailInvariant
<1> SUFFICES ASSUME LogTailAssumption, Init PROVE TailInvariant
  OBVIOUS
<1>1. now \in Nat /\ MaxTime \in Nat /\ TAIL_INITIAL_LOOKBACK_SECONDS \in Nat
  BY DEF LogTailAssumption, Init
<1>2. TailTyped
  BY <1>1 DEF Init, TailTyped
<1>3. ShownHappened /\ WindowsAdvance /\ PrintsOwn
  BY <1>1 DEF Init, ShownHappened, WindowsAdvance, PrintsOwn, PassedOrSeen
<1> QED
  BY <1>2, <1>3 DEF TailInvariant

LEMMA HappenKeeps ==
  ASSUME TailInvariant, NEW e \in Event, Happen(e)
  PROVE  TailInvariant'
<1> USE DEF TailInvariant, Happen
<1>1. TailTyped'
  BY DEF TailTyped
<1>2. \A f \in visible : f # e /\ ts'[f] = ts[f]
  BY DEF TailTyped, ShownHappened
<1>3. ShownHappened' /\ WindowsAdvance'
  BY <1>2 DEF ShownHappened, WindowsAdvance
<1>4. PrintsOwn'
  BY <1>2 DEF PrintsOwn, PassedOrSeen, TailTyped
<1> QED
  BY <1>1, <1>3, <1>4

LEMMA AppearKeeps ==
  ASSUME TailInvariant, NEW e \in Event, Appear(e)
  PROVE  TailInvariant'
  BY DEF TailInvariant, Appear, TailTyped, ShownHappened, WindowsAdvance, PrintsOwn, PassedOrSeen

LEMMA TickKeeps ==
  ASSUME LogTailAssumption, TailInvariant, Tick
  PROVE  TailInvariant'
<1>1. TAIL_OVERLAP \in Nat
  BY DEF LogTailAssumption
<1> QED
  BY <1>1 DEF TailInvariant, Tick, TailTyped, ShownHappened, WindowsAdvance, PrintsOwn,
     PassedOrSeen

(* Where a poll begins, prune forgets only what lies before its window, and the
   rewind does not go behind it. *)
LEMMA BeginPollKeeps ==
  ASSUME LogTailAssumption, TailInvariant, BeginPoll
  PROVE  TailInvariant'
<1> USE DEF TailInvariant, BeginPoll
<1>1. TAIL_OVERLAP \in Nat
  BY DEF LogTailAssumption
<1>2. next_begin \in Int /\ now \in Nat /\ origin \in Int
  BY DEF TailTyped
<1>3. /\ next_begin' \in Int /\ next_begin <= next_begin'
      /\ next_begin' = origin \/ next_begin' + TAIL_OVERLAP <= now
  BY <1>1, <1>2 DEF NextBegin, Larger, WindowsAdvance
<1>4. window' \in Int \X Int /\ window'[1] = next_begin
  BY <1>2
<1>5. TailTyped'
  BY <1>3, <1>4 DEF TailTyped, Remembered
<1>6. ShownHappened' /\ WindowsAdvance'
  BY <1>2, <1>3, <1>4 DEF ShownHappened, WindowsAdvance
<1>7. \A e \in Event : ts[e] \in Int /\ printed[e] \in Nat
  BY DEF TailTyped
<1>8. PassedOrSeen(next_begin)' /\ PassedOrSeen(window[1])'
  <2>1. \A e \in Event : printed[e] > 0 => e \in seen' \/ ts[e] <= next_begin
    BY <1>2, <1>7 DEF PrintsOwn, PassedOrSeen, Remembered
  <2> QED
    BY <1>2, <1>3, <1>4, <1>7, <2>1 DEF PassedOrSeen
<1> QED
  BY <1>5, <1>6, <1>8 DEF PrintsOwn

(* What a poll prints was not printed before: it is not remembered, and lies
   after the beginning of the window. *)
LEMMA EndPollKeeps ==
  ASSUME TailInvariant, EndPoll
  PROVE  TailInvariant'
<1> USE DEF TailInvariant
<1> DEFINE New == {e \in visible : ts[e] > window[1] /\ ts[e] <= window[2]} \ seen
<1>1. /\ window # NoWindow /\ window' = NoWindow /\ seen' = seen \cup New
      /\ printed' = [e \in Event |-> IF e \in New THEN printed[e] + 1 ELSE printed[e]]
      /\ UNCHANGED <<now, ts, visible, origin, next_begin>>
  BY DEF EndPoll
<1>2. New \subseteq visible /\ New \cap seen = {} /\ \A e \in New : ts[e] > window[1]
  OBVIOUS
<1> HIDE DEF New
<1>3. window[1] \in Int /\ origin \in Int /\ next_begin \in Int
  BY <1>1 DEF TailTyped
<1>4. origin <= window[1] /\ window[1] <= next_begin
  BY <1>1 DEF WindowsAdvance
<1>5. \A e \in Event : ts[e] \in Int /\ printed[e] \in Nat
  BY DEF TailTyped
<1>6. \A e \in New : e \in Event /\ printed[e] = 0
  BY <1>1, <1>2, <1>3, <1>5 DEF PrintsOwn, PassedOrSeen, TailTyped
<1>7. TailTyped' /\ ShownHappened' /\ WindowsAdvance'
  BY <1>1, <1>2, <1>5 DEF TailTyped, ShownHappened, WindowsAdvance
<1>8. ASSUME NEW e \in Event, printed'[e] > 0
      PROVE  /\ printed'[e] = 1 /\ e \in visible /\ ts[e] > origin
             /\ e \in seen' \/ ts[e] <= next_begin
  <2>1. CASE e \in New
    BY <1>1, <1>2, <1>3, <1>4, <1>5, <1>6, <2>1
  <2>2. CASE e \notin New
    BY <1>1, <1>3, <1>4, <1>5, <1>8, <2>2 DEF PrintsOwn, PassedOrSeen
  <2> QED
    BY <2>1, <2>2
<1>9. PrintsOwn'
  BY <1>1, <1>8 DEF PrintsOwn, PassedOrSeen
<1> QED
  BY <1>7, <1>9

(* The windows of a tail overlap and move on, and what they may still return is
   remembered. *)
THEOREM TailInvariantHolds == LogTailAssumption /\ Spec => []TailInvariant
<1> SUFFICES ASSUME LogTailAssumption PROVE Spec => []TailInvariant
  OBVIOUS
<1>1. Init => TailInvariant
  BY TailStarts
<1>2. TailInvariant /\ [Next]_vars => TailInvariant'
  <2> SUFFICES ASSUME TailInvariant, [Next]_vars PROVE TailInvariant'
    OBVIOUS
  <2>1. CASE UNCHANGED vars
    BY <2>1 DEF vars, TailInvariant, TailTyped, ShownHappened, WindowsAdvance, PrintsOwn,
       PassedOrSeen
  <2>2. CASE Next
    BY <2>2, HappenKeeps, AppearKeeps, TickKeeps, BeginPollKeeps, EndPollKeeps DEF Next
  <2> QED
    BY <2>1, <2>2
<1> QED
  BY <1>1, <1>2, PTL DEF Spec

(* TailSeen and TailCursor: although the windows overlap and ids are forgotten,
   no event is printed twice, and none from before the advertised lookback. *)
THEOREM TailPrintsOnce == LogTailAssumption /\ Spec => []PrintedOnce
<1> SUFFICES ASSUME LogTailAssumption PROVE Spec => []PrintedOnce
  OBVIOUS
<1>1. TailInvariant => PrintedOnce
  <2> SUFFICES ASSUME TailInvariant, NEW e \in Event
               PROVE  printed[e] <= (IF ts[e] > origin THEN 1 ELSE 0)
    BY DEF PrintedOnce
  <2>1. printed[e] \in Nat /\ (printed[e] > 0 => printed[e] = 1 /\ ts[e] > origin)
    BY DEF TailInvariant, TailTyped, PrintsOwn
  <2> QED
    BY <2>1
<1> QED
  BY <1>1, TailInvariantHolds, PTL
=============================================================================
