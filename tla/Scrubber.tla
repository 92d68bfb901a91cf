------------------------------ MODULE Scrubber ------------------------------
(***************************************************************************)
(* The time-rewind scrubber (frontend/src/components/TimeScrubber.tsx) on  *)
(* top of the client's store.                                              *)
(*                                                                         *)
(* The component keeps two handles, follows each of them with a debounced  *)
(* copy, and has effects that move the handles, the range and the window   *)
(* of the store, which are what the effects depend on.  React renders after*)
(* any change and then runs, in the order they are written, the effects    *)
(* whose dependencies differ from those of the previous rendering; all of  *)
(* them see the values of this rendering.  Nothing else happens before the *)
(* effects have run, so every other action waits for that.                 *)
(***************************************************************************)
EXTENDS AppStore, FiniteSetsExt

CONSTANTS
    Span(_),        \* [from, to]: first_seen and last_seen of a node
    Pad,            \* room left at both ends of the range
    Tolerance,      \* how far a window may be from the handles (50 ms)
    Stops,          \* where the user drags a handle to
    MaxActs         \* bound: what the user does

ASSUME AllTimeAssumption == AllTime \notin Int \cup [from : Int, to : Int]
ASSUME PadAssumption == Pad \in Nat \ {0}
ASSUME ToleranceAssumption == Tolerance \in Nat
ASSUME StopsAssumption == Stops \subseteq Int

VARIABLES
    range,          \* dataRange, AllTime before there is one
    handles,        \* [from, to], each AllTime before there is a range
    debounced,      \* their debounced copies
    timers,         \* the handles whose timer is running, first to fire first
    shown,          \* what was rendered when the effects last ran
    acts,           \* count of what the user did
    alone           \* history: the user only acted when everything was at rest

scrubber == <<range, handles, debounced, timers, shown, acts, alone>>
all      == <<vars, scrubber>>

Unset    == [from |-> AllTime, to |-> AllTime]
Rendered == [nodes |-> graph, range |-> range, window |-> view.window,
             handles |-> handles, debounced |-> debounced]

ScrubberInit ==
    /\ Init
    /\ range = AllTime
    /\ handles = Unset
    /\ debounced = Unset
    /\ timers = << >>
    /\ shown = Rendered
    /\ acts = 0
    /\ alone = TRUE

Flushed == shown = Rendered
AtRest  == Flushed /\ timers = << >>

-----------------------------------------------------------------------------
(***************************************************************************)
(* The effects.  Changed(S): one of the dependencies S has.                *)
(***************************************************************************)
Changed(S) == \E d \in S : shown[d] # Rendered[d]

Extent == [from |-> Min({Span(n).from : n \in graph}),
           to   |-> Max({Span(n).to : n \in graph})]
Padded == [from |-> Extent.from - Pad, to |-> Extent.to + Pad]

\* The range is set once there are nodes, and widened as long as no window is.
Widened ==
    IF range = AllTime THEN Padded
    ELSE [from |-> Min({range.from, Padded.from}), to |-> Max({range.to, Padded.to})]
RangeAsShown == IF graph # {} /\ Extent.from < Extent.to THEN Padded ELSE range
RangeAfter ==
    IF /\ graph # {}
       /\ Extent.from < Extent.to
       /\ range = AllTime \/ view.window = AllTime
    THEN Widened ELSE range

\* The handles go to the ends of the range when there is no window.
HandlesAfter ==
    IF ~Changed({"range", "window"}) THEN handles
    ELSE CASE range = AllTime -> Unset
           [] range # AllTime /\ view.window = AllTime -> range
           [] OTHER -> handles

\* useDebounce: a timer starts, again, for a handle that has moved.
Restarted(ts, h, other) ==
    IF handles[h] = shown.handles[h] THEN ts
    ELSE IF \E k \in 1 .. Len(ts) : ts[k] = other THEN <<other, h>> ELSE <<h>>
TimersAfter == Restarted(Restarted(timers, "from", "to"), "to", "from")

\* The window is committed, unless the handles span the whole range.
SpansAll == debounced.from <= range.from /\ debounced.to >= range.to
Apart(a, b) == a - b > Tolerance \/ b - a > Tolerance
CommittedBothApart ==
    IF SpansAll THEN AllTime
    ELSE IF view.window = AllTime \/ (Apart(view.window.from, debounced.from)
                                      /\ Apart(view.window.to, debounced.to))
         THEN debounced ELSE view.window
Committed ==
    IF SpansAll THEN AllTime
    ELSE IF view.window = AllTime \/ Apart(view.window.from, debounced.from)
                                  \/ Apart(view.window.to, debounced.to)
         THEN debounced ELSE view.window
WindowAfter ==
    IF range = AllTime \/ debounced.from = AllTime \/ debounced.to = AllTime
       \/ ~Changed({"debounced", "range", "window"})
    THEN view.window ELSE Committed

RunEffects ==
    /\ ~Flushed
    /\ shown' = Rendered
    /\ range' = IF Changed({"nodes", "range", "window"}) THEN RangeAfter ELSE range
    /\ handles' = HandlesAfter
    /\ timers' = TimersAfter
    /\ view' = [view EXCEPT !.window = WindowAfter]
    /\ IF WindowAfter # view.window THEN Refresh(seeds, view', pending)
       ELSE UNCHANGED <<graph, refreshed, pending, loading, error, issued>>
    /\ UNCHANGED <<seeds, attack, calm, debounced, acts, alone>>

\* Timers of one delay fire in the order they were started, and React may render
\* after each or after several.
DebounceRepeats(n) ==
    /\ Flushed
    /\ debounced' = [h \in {"from", "to"} |->
                       IF \E k \in 1 .. n : timers[k] = h THEN handles[h] ELSE debounced[h]]
    /\ UNCHANGED <<vars, range, handles, timers, shown, acts, alone>>
DebounceElapses(n) ==
    /\ Flushed
    /\ debounced' = [h \in {"from", "to"} |->
                       IF \E k \in 1 .. n : timers[k] = h THEN handles[h] ELSE debounced[h]]
    /\ timers' = SubSeq(timers, n + 1, Len(timers))
    /\ UNCHANGED <<vars, range, handles, shown, acts, alone>>

-----------------------------------------------------------------------------
(***************************************************************************)
(* The user, and the answers.                                              *)
(***************************************************************************)
Acts ==
    /\ Flushed
    /\ acts < MaxActs
    /\ acts' = acts + 1
    /\ alone' = (alone /\ AtRest /\ pending = {})
    /\ UNCHANGED <<range, debounced, timers, shown>>

Pivot(id)    == Acts /\ PivotTo(id) /\ UNCHANGED handles
ClearView    == Acts /\ Clear /\ UNCHANGED handles

\* The handles do not pass each other.
DragFrom(v) ==
    /\ Acts
    /\ range # AllTime
    /\ v \in range.from .. range.to
    /\ handles' = [handles EXCEPT !.from = Min({v, handles.to - 1})]
    /\ UNCHANGED vars
DragTo(v) ==
    /\ Acts
    /\ range # AllTime
    /\ v \in range.from .. range.to
    /\ handles' = [handles EXCEPT !.to = Max({v, handles.from + 1})]
    /\ UNCHANGED vars

Middle == range.from + (range.to - range.from) \div 2
Preset(half) ==
    /\ Acts
    /\ range # AllTime
    /\ handles' = IF half = "first" THEN [range EXCEPT !.to = Middle]
                  ELSE [range EXCEPT !.from = Middle]
    /\ UNCHANGED vars

\* The button is disabled without a window.
PresetAll ==
    /\ Acts
    /\ range # AllTime
    /\ view.window # AllTime
    /\ handles' = range
    /\ SetWindow(AllTime)

Answer ==
    /\ Flushed
    /\ \/ \E r \in Requests("refresh") : RefreshAnswered(r)
       \/ \E r \in pending : Failed(r)
    /\ UNCHANGED scrubber

Act ==
    \/ \E id \in Id : Pivot(id)
    \/ ClearView
    \/ \E v \in Stops : DragFrom(v)
    \/ \E v \in Stops : DragTo(v)
    \/ \E half \in {"first", "second"} : Preset(half)
    \/ PresetAll

Run ==
    \/ RunEffects
    \/ \E n \in 1 .. Len(timers) : DebounceElapses(n)
    \/ Answer

ScrubberNext == Act \/ Run

\* Effects, timers and answers come of themselves; the user need not do anything.
ScrubberSpec == ScrubberInit /\ [][ScrubberNext]_all /\ WF_all(Run)

-----------------------------------------------------------------------------
(***************************************************************************)
(* Properties                                                              *)
(***************************************************************************)
\* Type invariant: ends of a range and handles are in order, and only a handle
\* that its copy lags behind has a timer or is about to get one.
ScrubberTypeOK ==
    /\ range # AllTime => range.from < range.to
    /\ handles = Unset \/ handles.from < handles.to
    /\ issued \in Nat
    /\ (AtRest /\ range # AllTime) => debounced = handles

\* At rest the scrubber tells the truth: no window means that the handles are at
\* the ends of the range, a window is the one the handles show, whatever effects
\* wrote to window and handles in between (TimeScrubber.tsx:42, 58).
HandlesTellWindow ==
    (AtRest /\ range # AllTime) =>
        IF view.window = AllTime THEN handles = range
        ELSE ~Apart(view.window.from, handles.from) /\ ~Apart(view.window.to, handles.to)

\* What holds of the scrubber at any time: its shape, and at rest that handles,
\* copies and window agree (TimeScrubber.tsx:52-78).
ScrubberInv == ScrubberTypeOK /\ HandlesTellWindow

\* TimeScrubber.tsx:20 "Once computed from full graph, keep it stable so that
\* applying a temporal window filter doesn't collapse the track slider".
RangeNeverNarrows ==
    [][range # AllTime => range'.from <= range.from /\ range'.to >= range.to]_range

\* The effects write what they depend on, and still come to rest.
Settles == ~AtRest ~> AtRest

\* useAppStore.ts:3 "the graph is always the union of each seed's k-hop
\* neighborhood within the current window": also for a user who waits for
\* everything to come to rest before doing anything.
ShowsWhatIsAsked ==
    (alone /\ AtRest /\ pending = {} /\ ~error /\ refreshed) => graph = Union(seeds, view)
=============================================================================
