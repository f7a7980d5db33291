----------------------------- MODULE Navigation -----------------------------
(***************************************************************************)
(* Going from Space to Space: the engine's cursors, on which rapid steps   *)
(* chain while macOS still reports the old focus (rovr-core/src/engine.rs),*)
(* the daemon's per-display history for focus-recent and the state it      *)
(* publishes (rovr-daemon/src/main.rs), the two ways a switch is carried   *)
(* out (rovr-platform/src/macos/mod.rs), and macOS, which performs a       *)
(* switch some time after it was accepted, or drops it.                    *)
(*                                                                         *)
(* A workspace is the Space that backs it; queues of focuses that wait for *)
(* a Space to be created or placed are the matter of Workspaces.           *)
(***************************************************************************)
EXTENDS Integers, Sequences, FiniteSets, SequencesExt

CONSTANTS
  Displays,     \* display ids, ordered
  Spaces,       \* native Space ids, ordered
  Strip,        \* the Spaces of each display at first, in their order
  MaxCommands,  \* bound on the commands of a behaviour
  MaxChanges,   \* bound on what users and macOS do of themselves
  MaxFlying,    \* bound on the switches on their way on one display
  None

ASSUME NavigationAssumption ==
  /\ Displays \subseteq Nat /\ Displays # {}
  /\ Spaces \subseteq Nat /\ None \notin Spaces
  /\ None \notin [space : Spaces, pending : BOOLEAN]
  /\ Strip \in [Displays -> Seq(Spaces)]
  /\ \A d \in Displays : Strip[d] # <<>>
  /\ \A d, e \in Displays : \A i \in 1 .. Len(Strip[d]), j \in 1 .. Len(Strip[e]) :
       Strip[d][i] = Strip[e][j] => d = e /\ i = j
  /\ MaxCommands \in Nat /\ MaxChanges \in Nat /\ MaxFlying \in Nat \ {0}

VARIABLES
  strip, at, front,  \* macOS: Spaces of each display, the current one, the focus
  fly,               \* switches accepted and not yet performed, per display
  obs,               \* what the engine observed last
  cursor,            \* space_cursors
  hist,              \* space_history
  shown,             \* last_published_state
  burst,             \* history: the Spaces a burst of steps went through
  commands, changes

world == <<strip, at, front>>
eyes  == <<obs, cursor, hist, shown>>
vars  == <<world, fly, eyes, burst, commands, changes>>

Connected(s) == {d \in Displays : s[d] # <<>>}
On(s, d, space) == space \in ToSet(s[d])
\* The display of an observed Space.
DisplayOf(o, space) == CHOOSE d \in Displays : On(o.strip, d, space)
Known(o, space) == \E d \in Displays : On(o.strip, d, space)

IndexOf(seq, e) == CHOOSE i \in 1 .. Len(seq) : seq[i] = e
Least(S) == CHOOSE x \in S : \A y \in S : x <= y

NoHistory == [cur |-> None, prev |-> None]

Init ==
  /\ strip = Strip /\ at = [d \in Displays |-> Head(Strip[d])]
  /\ front = Least(Displays)
  /\ fly = [d \in Displays |-> <<>>]
  /\ obs = [strip |-> strip, at |-> at, front |-> front]
  /\ cursor = [d \in Displays |-> [space |-> at[d], pending |-> FALSE]]
  /\ hist = [d \in Displays |-> [cur |-> at[d], prev |-> None]]
  /\ shown = [space |-> at[front], display |-> front]
  /\ burst = [d \in Displays |-> <<>>]
  /\ commands = 0 /\ changes = 0

---------------------------------------------------------------------------
(* macOS and the user. *)

World ==
  /\ changes < MaxChanges
  /\ changes' = changes + 1
  /\ UNCHANGED <<eyes, commands>>

\* A switch is performed: to a Space of the display, or by so many Spaces,
\* which stops at the ends of the strip.
Land(d) ==
  /\ fly[d] # <<>>
  /\ fly' = [fly EXCEPT ![d] = Tail(@)]
  /\ LET f == Head(fly[d])
         far == IndexOf(strip[d], at[d]) + f.by
         i == IF far < 1 THEN 1 ELSE IF far > Len(strip[d]) THEN Len(strip[d]) ELSE far
     IN  at' = [at EXCEPT ![d] = IF f.by # 0 THEN strip[d][i]
                                 ELSE IF On(strip, d, f.to) THEN f.to ELSE @]
  /\ UNCHANGED <<strip, front, eyes, burst, commands, changes>>

Drop(d) ==
  /\ World
  /\ fly[d] # <<>>
  /\ fly' = [fly EXCEPT ![d] = Tail(@)]
  /\ burst' = [burst EXCEPT ![d] = <<>>]
  /\ UNCHANGED world

UserSwitch(d, space) ==
  /\ World
  /\ fly[d] = <<>> /\ On(strip, d, space) /\ at[d] # space
  /\ at' = [at EXCEPT ![d] = space]
  /\ front' = d
  /\ burst' = [burst EXCEPT ![d] = <<>>]
  /\ UNCHANGED <<strip, fly>>

UserLooks(d) ==
  /\ World
  /\ d \in Connected(strip) /\ front # d
  /\ front' = d
  /\ UNCHANGED <<strip, at, fly, burst>>

\* A display goes, its Spaces join another one's, and the id may come back
\* with other Spaces.
Unplug(d, e) ==
  /\ World
  /\ d # e /\ {d, e} \subseteq Connected(strip)
  /\ strip' = [strip EXCEPT ![d] = <<>>, ![e] = @ \o strip[d]]
  /\ at' = [at EXCEPT ![d] = None]
  /\ front' = e
  /\ fly' = [fly EXCEPT ![d] = <<>>]
  /\ burst' = [x \in Displays |-> <<>>]

Plug(d, e, n) ==
  /\ World
  /\ strip[d] = <<>> /\ n \in 1 .. Len(strip[e]) - 1
  /\ LET stays == SubSeq(strip[e], 1, n)
         goes == SubSeq(strip[e], n + 1, Len(strip[e]))
     IN  /\ strip' = [strip EXCEPT ![d] = goes, ![e] = stays]
         /\ at' = [at EXCEPT ![d] = Head(goes),
                             ![e] = IF @ \in ToSet(stays) THEN @ ELSE Last(stays)]
  /\ burst' = [x \in Displays |-> <<>>]
  /\ UNCHANGED <<front, fly>>

RemoveSpace(d, space) ==
  /\ World
  /\ On(strip, d, space) /\ Len(strip[d]) > 1
  /\ strip' = [strip EXCEPT ![d] = RemoveAt(@, IndexOf(@, space))]
  /\ at' = [at EXCEPT ![d] = IF @ = space THEN Head(strip'[d]) ELSE @]
  /\ burst' = [burst EXCEPT ![d] = <<>>]
  /\ UNCHANGED <<front, fly>>

---------------------------------------------------------------------------
(* Observation: refresh_observation and what follows every handled request. *)

\* Mutant of Reconciled: a pending target gives way to every observation.
ReconciledAlways(o, cs) ==
  [d \in Displays |-> IF o.strip[d] = <<>> THEN None
                      ELSE [space |-> o.at[d], pending |-> FALSE]]
\* reconcile_space_cursors
Reconciled(o, cs) ==
  [d \in Displays |->
     IF o.strip[d] = <<>> THEN None
     ELSE IF cs[d] # None /\ cs[d].pending /\ cs[d].space # o.at[d]
          THEN IF On(o.strip, d, cs[d].space) THEN cs[d] ELSE None
          ELSE [space |-> o.at[d], pending |-> FALSE]]

\* Mutant of Abandoned: targets stay pending for ever.
AbandonedNever(cs) == cs
\* abandon_pending_space_cursors
Abandoned(cs) == [d \in Displays |-> IF cs[d] = None THEN None
                                     ELSE [cs[d] EXCEPT !.pending = FALSE]]

Switched(h, space) == IF h.cur = space THEN h ELSE [cur |-> space, prev |-> h.cur]

\* Mutant of Remembered: the history of displays and Spaces that are gone stays.
RememberedForEver(o) ==
  [d \in Displays |-> IF o.strip[d] = <<>> THEN hist[d] ELSE Switched(hist[d], o.at[d])]
\* The end of refresh_observation: the focused Spaces are recorded, and what
\* is no longer of the display is forgotten.
Remembered(o) ==
  LET Kept(d, space) == IF space # None /\ On(o.strip, d, space) THEN space ELSE None
  IN  [d \in Displays |->
         IF o.strip[d] = <<>> THEN NoHistory
         ELSE LET h == Switched(hist[d], o.at[d])
              IN  [cur |-> Kept(d, h.cur), prev |-> Kept(d, h.prev)]]

\* current_public_state: the Space of the display with the focus, or the
\* focused one of the first display.
Public(o, h) ==
  [display |-> o.front,
   space |-> IF h[o.front].cur # None THEN h[o.front].cur
             ELSE o.at[Least(Connected(o.strip))]]

\* Mutant of Publish: only observations publish.
PublishNever(o, h) == UNCHANGED shown
\* maybe_publish_public_state, which follows every handled request.
Publish(o, h) == shown' = Public(o, h)

Screen == [strip |-> strip, at |-> at, front |-> front]

\* A snapshot that fails leaves the observed state, and the rest goes on.
Refreshed(cs) ==
  \E ok \in BOOLEAN :
    /\ obs' = IF ok THEN Screen ELSE obs
    /\ cursor' = IF ok THEN Reconciled(Screen, cs) ELSE cs
    /\ hist' = Remembered(obs')
    /\ shown' = Public(obs', hist')

\* An event or a command that observes: pending targets are kept.
Refresh ==
  /\ Refreshed(cursor)
  /\ UNCHANGED <<world, fly, burst, commands, changes>>

\* The periodic observation makes the snapshot authoritative.
Recover ==
  /\ Refreshed(Abandoned(cursor))
  /\ burst' = [d \in Displays |-> <<>>]
  /\ UNCHANGED <<world, fly, commands, changes>>

---------------------------------------------------------------------------
(* The commands: space next, prev, focus, focus-recent, workspace focus. *)

Command ==
  /\ commands < MaxCommands
  /\ commands' = commands + 1
  /\ UNCHANGED <<world, changes>>

\* rovr_display_is_animating refuses a gesture while a switch is under way.
Animating(d) == fly[d] # <<>>

\* macOS takes a switch; the scripting addition names the Space, a gesture
\* names how far to go from where the display is.
Takes(d, f) ==
  /\ Len(fly[d]) < MaxFlying
  /\ fly' = [fly EXCEPT ![d] = Append(@, f)]

\* execute_focus_space: exact by the addition, or a gesture that goes from the
\* current Space to the wanted one, and is none when they are the same.
FocusTaken(space) ==
  LET d == DisplayOf(Screen, space)
  IN  /\ Known(Screen, space)
      /\ \/ Takes(d, [to |-> space, by |-> 0])
         \/ ~Animating(d) /\ at[d] = space /\ UNCHANGED fly

\* execute_focus_space_step: the gesture goes by the engine's displacement.
StepTaken(target, by) ==
  LET d == DisplayOf(Screen, target)
  IN  /\ Known(Screen, target)
      /\ \/ Takes(d, [to |-> target, by |-> 0])
         \/ ~Animating(d) /\ Takes(d, [to |-> target, by |-> by])

\* note_space_focus_dispatched and note_space_switched_to
Noted(o, cs, hs, space) ==
  LET d == DisplayOf(o, space)
  IN  IF Known(o, space)
      THEN /\ cursor' = [cs EXCEPT ![d] = [space |-> space, pending |-> TRUE]]
           /\ hist' = [hs EXCEPT ![d] = Switched(@, space)]
      ELSE cursor' = cs /\ hist' = hs

\* The Space a step starts from: the cursor, or the observed focus.
StepFrom(d) ==
  LET from == IF cursor[d] # None THEN cursor[d].space ELSE obs.at[d]
  IN  IF On(obs.strip, d, from) THEN from ELSE Head(obs.strip[d])

Neighbor(seq, space, delta) ==
  seq[((IndexOf(seq, space) - 1 + delta) % Len(seq)) + 1]

\* A burst begins when nothing is under way on the display and what was observed
\* is so, and goes on until it comes back to a Space it has been on.
Stepped(d, from, to, delta) ==
  LET b == IF burst[d] # <<>> THEN burst[d]
           ELSE IF fly[d] = <<>> /\ obs.strip = strip /\ from = at[d]
           THEN <<[space |-> from, delta |-> 0]>> ELSE <<>>
  IN  IF b = <<>> \/ \E i \in 1 .. Len(b) : b[i].space = to THEN <<>>
      ELSE Append(b, [space |-> to, delta |-> delta])

\* focus_space_step and its handler: a refused step cancels the target.
Step(d, delta) ==
  /\ Command
  /\ Len(obs.strip[d]) > 1
  /\ LET from == StepFrom(d)
         to == Neighbor(obs.strip[d], from, delta)
         by == IndexOf(obs.strip[d], to) - IndexOf(obs.strip[d], from)
     IN  \/ /\ StepTaken(to, by)
            /\ Noted(obs, cursor, hist, to)
            /\ burst' = [burst EXCEPT ![d] = Stepped(d, from, to, delta)]
         \/ /\ cursor' = [cursor EXCEPT ![d] = None]
            /\ burst' = [burst EXCEPT ![d] = <<>>]
            /\ UNCHANGED <<fly, hist>>
  /\ Publish(obs, hist')
  /\ UNCHANGED obs

\* A focus that is refused changes nothing.
Focus(space) ==
  /\ Command
  /\ Known(obs, space)
  /\ \/ /\ FocusTaken(space)
        /\ Noted(obs, cursor, hist, space)
        /\ burst' = [burst EXCEPT ![DisplayOf(obs, space)] = <<>>]
     \/ UNCHANGED <<fly, cursor, hist, burst>>
  /\ Publish(obs, hist')
  /\ UNCHANGED obs

\* focus_recent_space: the previous Space of the display with the focus.
Recent == {s \in {hist[obs.front].prev} \ {None} : On(obs.strip, obs.front, s)}

FocusRecent == \E space \in Recent : Focus(space)

\* workspace focus observes first, so that the display is the one in use.
FocusWorkspace(space) ==
  /\ Command
  /\ \E ok \in BOOLEAN :
       LET o == IF ok THEN Screen ELSE obs
           cs == IF ok THEN Reconciled(Screen, cursor) ELSE cursor
           hs == Remembered(o)
       IN  /\ obs' = o
           /\ On(o.strip, o.front, space)
           /\ \/ /\ FocusTaken(space)
                 /\ Noted(o, cs, hs, space)
                 /\ burst' = [burst EXCEPT ![o.front] = <<>>]
              \/ cursor' = cs /\ hist' = hs /\ UNCHANGED <<fly, burst>>
           /\ Publish(o, hist')

---------------------------------------------------------------------------
Next ==
  \/ \E d \in Displays : Land(d) \/ Drop(d) \/ UserLooks(d)
  \/ \E d \in Displays : \E s \in Spaces : UserSwitch(d, s) \/ RemoveSpace(d, s)
  \/ \E d, e \in Displays : Unplug(d, e) \/ \E n \in 1 .. Cardinality(Spaces) : Plug(d, e, n)
  \/ Refresh \/ Recover
  \/ \E d \in Displays : \E delta \in {-1, 1} : Step(d, delta)
  \/ \E s \in Spaces : Focus(s) \/ FocusWorkspace(s)
  \/ FocusRecent

\* macOS performs what it took; the timer observes again and again, and a
\* snapshot does not fail for ever.
Fairness ==
  /\ \A d \in Displays : WF_vars(Land(d))
  /\ WF_vars(Recover /\ obs' = Screen)

Spec == Init /\ [][Next]_vars /\ Fairness
---------------------------------------------------------------------------
\* The variables hold what the code's fields can hold.
TypeOK ==
  /\ \A d \in Displays : Len(fly[d]) <= MaxFlying
  /\ \A d \in Displays : at[d] = None <=> strip[d] = <<>>
  /\ cursor \in [Displays -> [space : Spaces, pending : BOOLEAN] \cup {None}]
  /\ hist \in [Displays -> [cur : Spaces \cup {None}, prev : Spaces \cup {None}]]
  /\ shown \in [space : Spaces, display : Displays]

\* Whatever displays and Spaces come and go, also under an id that was in use
\* before, a cursor and a history name Spaces of their own display, and
\* focus-recent has somewhere else to go (space_cursors, space_history).
OnOwnDisplay ==
  \A d \in Displays :
    /\ cursor[d] # None => On(obs.strip, d, cursor[d].space)
    /\ \A space \in {hist[d].cur, hist[d].prev} \ {None} : On(obs.strip, d, space)
    /\ hist[d].prev # None => hist[d].prev # hist[d].cur

\* Steps pressed faster than macOS follows chain: each starts where the last
\* one went, although observations in between still report the old focus.
ChainedSteps ==
  \A d \in Displays : \A i \in 2 .. Len(burst[d]) :
    burst[d][i].space = Neighbor(strip[d], burst[d][i-1].space, burst[d][i].delta)

\* What is published is consistent: the Space is one of the display, and it is
\* the state that a query answers at the same moment.
PublishedAgrees ==
  /\ On(obs.strip, shown.display, shown.space)
  /\ shown = Public(obs, hist)

\* When users and macOS rest, the cursors, the histories and the published
\* state come to what is there, whatever was lost, refused or mistaken before.
Settles ==
  <>[](\A d \in Connected(strip) :
         /\ cursor[d] # None /\ cursor[d].space = at[d]
         /\ hist[d].cur = at[d]
         /\ shown = [space |-> at[front], display |-> front])
=============================================================================
