----------------------------- MODULE ShowSchedule -----------------------------
(***************************************************************************)
(* The show service: movies, theatres, and the shows put on their screens. *)
(* A show is put on by a create call, which looks for shows that overlap   *)
(* and inserts its own, with an await and no lock in between; the show is  *)
(* named by that call.  An action is what a call does between two awaits.  *)
(*                                                                         *)
(* A screen's seats never change once its theatre is created (update sets  *)
(* none of the screens' fields), and every layout has a seat, so they are  *)
(* left out.                                                               *)
(*                                                                         *)
(* seen and racing are history variables.                                  *)
(*                                                                         *)
(* An operator standing just before the one it resembles, such as          *)
(* ConflictsExceptSameTime before Conflicts, is the slip the properties    *)
(* must catch.                                                             *)
(***************************************************************************)
EXTENDS Integers

CONSTANTS
    Movies,
    Screens,
    Calls,      \* ShowService.create calls, and the shows they insert
    Durations,  \* of movies; the times are in units that suit them
    Buffer,     \* the 30 minutes added to a duration
    MaxTime,    \* bound: the clock stops here
    MaxUpdates, \* bound: updates of movies
    None

ASSUME ScheduleAssumption ==
    /\ Durations \subseteq Nat \ {0}
    /\ Buffer \in Nat
    /\ MaxTime \in Nat
    /\ MaxUpdates \in Nat
    /\ None \notin [movie : Movies, screen : Screens, showTime : Nat]

VARIABLES
    clock,
    movie,     \* per movie: "none", "active" or "inactive"
    duration,  \* its duration
    built,     \* screens whose theatre exists
    show,      \* per call: "none", "active" or "inactive", its show's isActive
    input,     \* its input: a movie, a screen and a time
    window,    \* durationMs, from the movie it found
    pc,        \* the await it is at
    seen,      \* shows of the screen that were active when it checked
    racing,    \* calls that had checked and not inserted yet when it checked
    updates

movieVars == <<movie, duration, updates>>
callVars == <<input, window, pc>>
historyVars == <<seen, racing>>
vars == <<clock, movieVars, built, show, callVars, historyVars>>

Steps == {"idle", "movie", "theatre", "overlap", "insert", "done"}
Inputs == [movie : Movies, screen : Screens, showTime : 1..MaxTime]

Init ==
    /\ clock = 0
    /\ movie = [m \in Movies |-> "none"]
    /\ duration \in [Movies -> Durations]
    /\ built = {}
    /\ show = [c \in Calls |-> "none"]
    /\ input = [c \in Calls |-> None]
    /\ window = [c \in Calls |-> 0]
    /\ pc = [c \in Calls |-> "idle"]
    /\ seen = [c \in Calls |-> {}]
    /\ racing = [c \in Calls |-> {}]
    /\ updates = 0

Goto(c, step) == pc' = [pc EXCEPT ![c] = step]

(***************************************************************************)
(* Movies and theatres.                                                    *)
(***************************************************************************)
CreateMovie(m) ==
    /\ movie[m] = "none"
    /\ movie' = [movie EXCEPT ![m] = "active"]
    /\ UNCHANGED <<clock, duration, updates, built, show, callVars, historyVars>>

\* Inactive movies are updated as well; no show is looked at.
UpdateMovie(m, d) ==
    /\ movie[m] # "none"
    /\ updates < MaxUpdates
    /\ updates' = updates + 1
    /\ duration' = [duration EXCEPT ![m] = d]
    /\ UNCHANGED <<clock, movie, built, show, callVars, historyVars>>

DeactivateMovie(m) ==
    /\ movie[m] # "none"
    /\ movie' = [movie EXCEPT ![m] = "inactive"]
    /\ UNCHANGED <<clock, duration, updates, built, show, callVars, historyVars>>

CreateTheatre(s) ==
    /\ s \notin built
    /\ built' = built \cup {s}
    /\ UNCHANGED <<clock, movieVars, show, callVars, historyVars>>

(***************************************************************************)
(* ShowService.create.                                                     *)
(***************************************************************************)
Begin(c, i) ==
    /\ pc[c] = "idle"
    /\ input' = [input EXCEPT ![c] = i]
    /\ Goto(c, IF i.showTime > clock THEN "movie" ELSE "done")
    /\ UNCHANGED <<clock, movieVars, built, show, window, historyVars>>

FindMovieNoBuffer(c) ==
    /\ pc[c] = "movie"
    /\ IF movie[input[c].movie] = "active"
       THEN /\ window' = [window EXCEPT ![c] = duration[input[c].movie]]
            /\ Goto(c, "theatre")
       ELSE Goto(c, "done") /\ UNCHANGED window
    /\ UNCHANGED <<clock, movieVars, built, show, input, historyVars>>

FindMovie(c) ==
    /\ pc[c] = "movie"
    /\ IF movie[input[c].movie] = "active"
       THEN /\ window' = [window EXCEPT ![c] =
                            duration[input[c].movie] + Buffer]
            /\ Goto(c, "theatre")
       ELSE Goto(c, "done") /\ UNCHANGED window
    /\ UNCHANGED <<clock, movieVars, built, show, input, historyVars>>

FindTheatre(c) ==
    /\ pc[c] = "theatre"
    /\ Goto(c, IF input[c].screen \in built THEN "overlap" ELSE "done")
    /\ UNCHANGED <<clock, movieVars, built, show, input, window, historyVars>>

\* The filter of Show.findOne: the end of the other show is judged by the
\* window of this one.
ConflictsExceptSameTime(c, d) ==
    LET start == input[c].showTime
        other == input[d].showTime
    IN  \/ other > start /\ other < start + window[c]
        \/ other < start /\ other > start - window[c]

Conflicts(c, d) ==
    LET start == input[c].showTime
        other == input[d].showTime
    IN  \/ other >= start /\ other < start + window[c]
        \/ other < start /\ other > start - window[c]

OnScreen(s) == {d \in Calls : show[d] = "active" /\ input[d].screen = s}
Inserting == {d \in Calls : pc[d] = "insert"}

CheckOverlap(c) ==
    /\ pc[c] = "overlap"
    /\ Goto(c, IF \E d \in OnScreen(input[c].screen) : Conflicts(c, d)
               THEN "done" ELSE "insert")
    /\ seen' = [seen EXCEPT ![c] = OnScreen(input[c].screen)]
    /\ racing' = [racing EXCEPT ![c] = Inserting]
    /\ UNCHANGED <<clock, movieVars, built, show, input, window>>

Insert(c) ==
    /\ pc[c] = "insert"
    /\ show' = [show EXCEPT ![c] = "active"]
    /\ Goto(c, "done")
    /\ UNCHANGED <<clock, movieVars, built, input, window, historyVars>>

(***************************************************************************)
(* ShowService.deactivate, and time.                                       *)
(***************************************************************************)
Deactivate(c) ==
    /\ show[c] # "none"
    /\ show' = [show EXCEPT ![c] = "inactive"]
    /\ UNCHANGED <<clock, movieVars, built, callVars, historyVars>>

Tick ==
    /\ clock < MaxTime
    /\ clock' = clock + 1
    /\ UNCHANGED <<movieVars, built, show, callVars, historyVars>>

\* The handler of PATCH /movies/:movieId.
Update(m) == \E d \in Durations : UpdateMovie(m, d)

\* The handler of POST /shows.
Create(c) ==
    \/ \E i \in Inputs : Begin(c, i)
    \/ FindMovie(c) \/ FindTheatre(c) \/ CheckOverlap(c) \/ Insert(c)

Next ==
    \/ \E m \in Movies : CreateMovie(m) \/ Update(m) \/ DeactivateMovie(m)
    \/ \E s \in Screens : CreateTheatre(s)
    \/ \E c \in Calls : Create(c) \/ Deactivate(c)
    \/ Tick

Spec == Init /\ [][Next]_vars

(***************************************************************************)
(* Properties.                                                             *)
(***************************************************************************)

\* Every variable has its type; a call that found its movie has a window.
TypeOK ==
    /\ clock \in Nat
    /\ movie \in [Movies -> {"none", "active", "inactive"}]
    /\ duration \in [Movies -> Durations]
    /\ built \subseteq Screens
    /\ show \in [Calls -> {"none", "active", "inactive"}]
    /\ input \in [Calls -> Inputs \cup {None}]
    /\ window \in [Calls -> Nat]
    /\ pc \in [Calls -> Steps]
    /\ seen \in [Calls -> SUBSET Calls]
    /\ racing \in [Calls -> SUBSET Calls]
    /\ updates \in Nat
    /\ \A c \in Calls :
          /\ pc[c] # "idle" => input[c] \in Inputs
          /\ pc[c] \in {"theatre", "overlap", "insert"} => window[c] > Buffer
          /\ show[c] # "none" => pc[c] = "done" /\ window[c] > Buffer

\* When the screen is free again, by the duration the movie has now.
End(c) == input[c].showTime + duration[input[c].movie] + Buffer

\* The screen is taken by both shows at some moment.
Overlap(c, d) ==
    /\ input[c].screen = input[d].screen
    /\ input[c].showTime < End(d)
    /\ input[d].showTime < End(c)

\* One of the calls checked while the other was between its check and insert.
Raced(c, d) == d \in racing[c] \/ c \in racing[d]

\* d was put on before c, starts before it, and is longer than c.
LongerBefore(c, d) ==
    /\ d \in seen[c]
    /\ window[d] > window[c]
    /\ input[d].showTime < input[c].showTime

\* An update has made the movie longer than it was when c found it.
Lengthened(c) == duration[input[c].movie] + Buffer > window[c]

\* Two active shows overlap on a screen only in the three ways the code leaves
\* open: their calls raced, a show was put on after the start of a longer one
\* that was there, or the movie of one was lengthened afterwards.
OverlapIsExplained ==
    \A c, d \in Calls :
        c # d /\ show[c] = "active" /\ show[d] = "active" /\ Overlap(c, d) =>
            \/ Raced(c, d)
            \/ LongerBefore(c, d) \/ LongerBefore(d, c)
            \/ Lengthened(c) \/ Lengthened(d)
=============================================================================
