--------------------------- MODULE ShowScheduleProofs ---------------------------
(***************************************************************************)
(* Theorems about ShowSchedule, for any movies, screens, durations and     *)
(* times, any number of calls, and updates without end.                    *)
(***************************************************************************)
EXTENDS ShowSchedule, TLAPS

(***************************************************************************)
(* Types.                                                                  *)
(***************************************************************************)

\* A duration is positive.
LEMMA DurationPositive ==
    ASSUME NEW l \in Durations
    PROVE  l \in Nat /\ l > 0
<1>1. l \in Nat /\ l # 0
  BY ScheduleAssumption, Zenon
<1> QED
  BY <1>1

\* The steps of a create call keep the types.
LEMMA CreateType ==
    ASSUME TypeOK, NEW c \in Calls,
           \/ \E i \in Inputs : Begin(c, i)
           \/ FindMovie(c) \/ FindTheatre(c) \/ CheckOverlap(c) \/ Insert(c)
    PROVE  TypeOK'
<1> USE ScheduleAssumption DEF TypeOK, Goto, Steps, movieVars, historyVars
<1>1. ASSUME NEW i \in Inputs, Begin(c, i) PROVE TypeOK'
  <2>1. pc'[c] \in {"movie", "done"} /\ pc' \in [Calls -> Steps]
    BY <1>1 DEF Begin
  <2> QED
    BY <1>1, <2>1 DEF Begin
<1>2. CASE FindMovie(c)
  <2>1. input[c] \in Inputs
    BY <1>2 DEF FindMovie
  <2>2. duration[input[c].movie] \in Durations
    BY <2>1 DEF Inputs
  <2>3. CASE movie[input[c].movie] = "active"
    <3>1. /\ window' = [window EXCEPT ![c] = duration[input[c].movie] + Buffer]
          /\ pc' = [pc EXCEPT ![c] = "theatre"]
      BY <1>2, <2>3 DEF FindMovie
    <3>2. /\ duration[input[c].movie] + Buffer \in Nat
          /\ duration[input[c].movie] + Buffer > Buffer
      <4>1. duration[input[c].movie] \in Nat /\ duration[input[c].movie] > 0
        BY <2>2, DurationPositive
      <4> QED
        BY <4>1
    <3> QED
      BY <1>2, <2>1, <3>1, <3>2 DEF FindMovie
  <2>4. CASE movie[input[c].movie] # "active"
    BY <1>2, <2>4 DEF FindMovie
  <2> QED
    BY <2>3, <2>4
<1>3. CASE FindTheatre(c)
  <2>1. pc'[c] \in {"overlap", "done"} /\ pc' \in [Calls -> Steps]
    BY <1>3 DEF FindTheatre
  <2> QED
    BY <1>3, <2>1 DEF FindTheatre
<1>4. CASE CheckOverlap(c)
  <2>1. pc'[c] \in {"insert", "done"} /\ pc' \in [Calls -> Steps]
    BY <1>4 DEF CheckOverlap
  <2>2. OnScreen(input[c].screen) \subseteq Calls /\ Inserting \subseteq Calls
    BY DEF OnScreen, Inserting
  <2> QED
    BY <1>4, <2>1, <2>2 DEF CheckOverlap
<1>5. CASE Insert(c)
  BY <1>5 DEF Insert
<1> QED
  BY <1>1, <1>2, <1>3, <1>4, <1>5

\* The type invariant.
THEOREM TypeCorrect == Spec => []TypeOK
<1>1. Init => TypeOK
  BY ScheduleAssumption DEF Init, TypeOK, Steps
<1>2. TypeOK /\ [Next]_vars => TypeOK'
  <2> SUFFICES ASSUME TypeOK, [Next]_vars PROVE TypeOK'
    OBVIOUS
  <2> USE ScheduleAssumption DEF TypeOK, movieVars, callVars, historyVars
  <2>1. ASSUME NEW m \in Movies, CreateMovie(m) PROVE TypeOK'
    BY <2>1 DEF CreateMovie
  <2>2. ASSUME NEW m \in Movies, NEW d \in Durations, UpdateMovie(m, d)
        PROVE  TypeOK'
    BY <2>2 DEF UpdateMovie
  <2>3. ASSUME NEW m \in Movies, DeactivateMovie(m) PROVE TypeOK'
    BY <2>3 DEF DeactivateMovie
  <2>4. ASSUME NEW s \in Screens, CreateTheatre(s) PROVE TypeOK'
    BY <2>4 DEF CreateTheatre
  <2>5. ASSUME NEW c \in Calls,
               \/ \E i \in Inputs : Begin(c, i)
               \/ FindMovie(c) \/ FindTheatre(c) \/ CheckOverlap(c) \/ Insert(c)
        PROVE  TypeOK'
    BY <2>5, CreateType
  <2>6. ASSUME NEW c \in Calls, Deactivate(c) PROVE TypeOK'
    BY <2>6 DEF Deactivate
  <2>7. CASE Tick
    BY <2>7 DEF Tick
  <2>8. CASE UNCHANGED vars
    BY <2>8 DEF vars
  <2> QED
    BY <2>1, <2>2, <2>3, <2>4, <2>5, <2>6, <2>7, <2>8 DEF Next, Update, Create
<1> QED
  BY <1>1, <1>2, PTL DEF Spec

(***************************************************************************)
(* Which shows a check has seen.                                           *)
(***************************************************************************)

\* A call that is past its check has a show, or will have one.
Checked(c) == pc[c] = "insert" \/ show[c] # "none"

\* A show that was seen stood on the screen, and was clear of the window.
SeenClear ==
    \A c \in Calls : Checked(c) =>
        \A d \in seen[c] : show[d] # "none" /\ ~Conflicts(c, d)

\* Two shows of a screen, or shows to be: one check saw the other's show, or
\* they raced.
SeenOrRaced ==
    \A c, d \in Calls :
        /\ c # d
        /\ Checked(c) /\ show[c] # "inactive"
        /\ Checked(d) /\ show[d] # "inactive"
        /\ input[c].screen = input[d].screen
        => d \in seen[c] \/ c \in seen[d] \/ Raced(c, d)

\* What makes the property inductive.
ScheduleInv == SeenClear /\ SeenOrRaced

\* A call past its check, and a show, keep their input and window.
LEMMA CheckedStays ==
    ASSUME TypeOK, [Next]_vars, NEW c \in Calls, Checked(c)
    PROVE  /\ input'[c] = input[c]
           /\ window'[c] = window[c]
           /\ seen'[c] = seen[c]
           /\ racing'[c] = racing[c]
<1> USE DEF TypeOK, Checked, Goto, movieVars, callVars, historyVars
<1>1. pc[c] \in {"insert", "done"}
  OBVIOUS
<1>2. ASSUME NEW d \in Calls, NEW i \in Inputs, Begin(d, i)
      PROVE  input'[c] = input[c] /\ UNCHANGED <<window, seen, racing>>
  BY <1>1, <1>2 DEF Begin
<1>3. ASSUME NEW d \in Calls, FindMovie(d)
      PROVE  window'[c] = window[c] /\ UNCHANGED <<input, seen, racing>>
  BY <1>1, <1>3 DEF FindMovie
<1>4. ASSUME NEW d \in Calls, CheckOverlap(d)
      PROVE  /\ seen'[c] = seen[c] /\ racing'[c] = racing[c]
             /\ UNCHANGED <<input, window>>
  BY <1>1, <1>4 DEF CheckOverlap
<1>5. CASE UNCHANGED <<input, window, seen, racing>>
  BY <1>5
<1>6. \/ UNCHANGED <<input, window, seen, racing>>
      \/ \E d \in Calls : \/ \E i \in Inputs : Begin(d, i)
                          \/ FindMovie(d) \/ CheckOverlap(d)
  BY DEF Next, Update, Create, vars, CreateMovie, UpdateMovie, DeactivateMovie, CreateTheatre,
         FindTheatre, Insert, Deactivate, Tick
<1> QED
  BY <1>2, <1>3, <1>4, <1>5, <1>6

\* Only a check takes a call past its check, and only its own; what is past
\* it stays so, and an inactive show stays inactive.
LEMMA CheckedByCheck ==
    ASSUME TypeOK, [Next]_vars, NEW c \in Calls
    PROVE  /\ Checked(c) => Checked(c)'
           /\ Checked(c)' => Checked(c) \/ CheckOverlap(c)
           /\ show[c] # "none" => show'[c] # "none"
           /\ show[c] = "inactive" => show'[c] = "inactive"
<1> USE DEF TypeOK, Checked, Goto, movieVars, callVars, historyVars
<1>1. ASSUME NEW d \in Calls, NEW i \in Inputs, Begin(d, i)
      PROVE  Checked(c)' = Checked(c) /\ UNCHANGED show
  BY <1>1 DEF Begin
<1>2. ASSUME NEW d \in Calls, FindMovie(d)
      PROVE  Checked(c)' = Checked(c) /\ UNCHANGED show
  BY <1>2 DEF FindMovie
<1>3. ASSUME NEW d \in Calls, FindTheatre(d)
      PROVE  Checked(c)' = Checked(c) /\ UNCHANGED show
  BY <1>3 DEF FindTheatre
<1>4. ASSUME NEW d \in Calls, CheckOverlap(d), d # c
      PROVE  Checked(c)' = Checked(c) /\ UNCHANGED show
  BY <1>4 DEF CheckOverlap
<1>5. CheckOverlap(c) => ~Checked(c) /\ UNCHANGED show
  BY DEF CheckOverlap
<1>6. ASSUME NEW d \in Calls, Insert(d)
      PROVE  /\ Checked(c)' = Checked(c)
             /\ show[c] # "none" => show'[c] = show[c]
  BY <1>6 DEF Insert
<1>7. ASSUME NEW d \in Calls, Deactivate(d)
      PROVE  /\ Checked(c)' = Checked(c)
             /\ show[c] # "none" => show'[c] # "none"
             /\ show[c] = "inactive" => show'[c] = "inactive"
  BY <1>7 DEF Deactivate
<1>8. CASE UNCHANGED <<pc, show>>
  BY <1>8
<1>9. \/ UNCHANGED <<pc, show>>
      \/ \E d \in Calls :
            \/ \E i \in Inputs : Begin(d, i)
            \/ FindMovie(d) \/ FindTheatre(d) \/ CheckOverlap(d)
            \/ Insert(d) \/ Deactivate(d)
  BY DEF Next, Update, Create, vars, CreateMovie, UpdateMovie, DeactivateMovie, CreateTheatre,
         Tick
<1> QED
  BY <1>1, <1>2, <1>3, <1>4, <1>5, <1>6, <1>7, <1>8, <1>9

\* A check that finds nothing has seen every show of the screen and raced with
\* every call between its check and its insert.
LEMMA CheckSees ==
    ASSUME TypeOK, NEW c \in Calls, CheckOverlap(c), Checked(c)'
    PROVE  /\ seen'[c] = OnScreen(input[c].screen)
           /\ racing'[c] = Inserting
           /\ \A d \in OnScreen(input[c].screen) : ~Conflicts(c, d)
           /\ UNCHANGED <<show, input, window>>
BY DEF TypeOK, CheckOverlap, Checked, Goto

\* ScheduleInv is an invariant of the schedule.
THEOREM ScheduleInvariant == Spec => []ScheduleInv
<1>1. Init => ScheduleInv
  BY DEF Init, ScheduleInv, SeenClear, SeenOrRaced, Checked
<1>2. TypeOK /\ ScheduleInv /\ [Next]_vars => ScheduleInv'
  <2> SUFFICES ASSUME TypeOK, ScheduleInv, [Next]_vars PROVE ScheduleInv'
    OBVIOUS
  <2> USE DEF ScheduleInv
  <2>1. SeenClear'
    <3> SUFFICES ASSUME NEW c \in Calls, Checked(c)', NEW d \in seen'[c]
                 PROVE  show'[d] # "none" /\ ~Conflicts(c, d)'
      BY DEF SeenClear
    <3>1. CASE Checked(c)
      <4>1. d \in seen[c] /\ d \in Calls
        BY <3>1, CheckedStays DEF TypeOK
      <4>2. show[d] # "none" /\ ~Conflicts(c, d)
        BY <3>1, <4>1 DEF SeenClear
      <4>3. show'[d] # "none" /\ Checked(d)
        BY <4>1, <4>2, CheckedByCheck DEF Checked
      <4>4. input'[c] = input[c] /\ window'[c] = window[c]
            /\ input'[d] = input[d]
        BY <3>1, <4>1, <4>3, CheckedStays
      <4> QED
        BY <4>2, <4>3, <4>4 DEF Conflicts
    <3>2. CASE CheckOverlap(c)
      <4>1. d \in OnScreen(input[c].screen) /\ UNCHANGED <<show, input, window>>
        BY <3>2, CheckSees
      <4>2. ~Conflicts(c, d)
        BY <3>2, <4>1, CheckSees
      <4> QED
        BY <4>1, <4>2 DEF OnScreen, Conflicts
    <3> QED
      BY <3>1, <3>2, CheckedByCheck
  <2>2. SeenOrRaced'
    <3> SUFFICES ASSUME NEW c \in Calls, NEW d \in Calls, c # d,
                        Checked(c)', show'[c] # "inactive",
                        Checked(d)', show'[d] # "inactive",
                        input'[c].screen = input'[d].screen
                 PROVE  d \in seen'[c] \/ c \in seen'[d] \/ Raced(c, d)'
      BY DEF SeenOrRaced
    <3>1. show[c] # "inactive" /\ show[d] # "inactive"
      BY CheckedByCheck
    <3>2. CASE Checked(c) /\ Checked(d)
      BY <3>1, <3>2, CheckedStays DEF SeenOrRaced, Raced
    <3>3. ASSUME NEW x \in Calls, NEW y \in Calls, CheckOverlap(x), Checked(x)',
                 Checked(y), show[y] # "inactive",
                 input'[x].screen = input'[y].screen
          PROVE  y \in seen'[x] \/ y \in racing'[x]
      <4>1. /\ seen'[x] = OnScreen(input[x].screen)
            /\ racing'[x] = Inserting
            /\ input[x].screen = input[y].screen
        BY <3>3, CheckSees
      <4> QED
        BY <3>3, <4>1 DEF Checked, OnScreen, Inserting, TypeOK
    <3>4. CheckOverlap(c) /\ CheckOverlap(d) => FALSE
      BY DEF CheckOverlap, Goto, TypeOK
    <3>5. CASE CheckOverlap(c) /\ Checked(d)
      BY <3>1, <3>3, <3>5 DEF Raced
    <3>6. CASE CheckOverlap(d) /\ Checked(c)
      BY <3>1, <3>3, <3>6 DEF Raced
    <3> QED
      BY <3>2, <3>4, <3>5, <3>6, CheckedByCheck
  <2> QED
    BY <2>1, <2>2
<1> QED
  BY <1>1, <1>2, TypeCorrect, PTL DEF Spec

(***************************************************************************)
(* Overlaps.                                                               *)
(***************************************************************************)

\* A show and one it saw are apart by its window; they overlap only if the
\* later of the two is the shorter, or one has become longer.
LEMMA SeenApart ==
    ASSUME TypeOK, NEW c \in Calls, NEW d \in Calls,
           show[c] = "active", show[d] = "active",
           d \in seen[c], ~Conflicts(c, d), Overlap(c, d)
    PROVE  LongerBefore(c, d) \/ Lengthened(c) \/ Lengthened(d)
<1> DEFINE lc == duration[input[c].movie]
           ld == duration[input[d].movie]
           tc == input[c].showTime
           td == input[d].showTime
           wc == window[c]
           wd == window[d]
<1>1. input[c] \in Inputs /\ input[d] \in Inputs /\ wc > Buffer
  BY DEF TypeOK
<1>2. /\ lc \in Int /\ ld \in Int /\ tc \in Int /\ td \in Int
      /\ wc \in Int /\ wd \in Int /\ Buffer \in Nat
  <2>1. /\ input[c].movie \in Movies /\ input[c].showTime \in 1..MaxTime
        /\ input[d].movie \in Movies /\ input[d].showTime \in 1..MaxTime
    BY <1>1 DEF Inputs
  <2>2. lc \in Durations /\ ld \in Durations
    BY <2>1 DEF TypeOK
  <2> HIDE DEF lc, ld
  <2>3. lc \in Nat /\ ld \in Nat
    BY <2>2, DurationPositive
  <2>4. wc \in Nat /\ wd \in Nat
    BY DEF TypeOK
  <2> QED
    BY <2>1, <2>3, <2>4, ScheduleAssumption
<1>3. tc < td + ld + Buffer /\ td < tc + lc + Buffer
  BY DEF Overlap, End
<1>4. /\ ~(td >= tc /\ td < tc + wc)
      /\ ~(td < tc /\ td > tc - wc)
  BY DEF Conflicts
<1> HIDE DEF lc, ld, tc, td, wc, wd
<1>5. \/ lc + Buffer > wc
      \/ ld + Buffer > wd
      \/ wd > wc /\ td < tc
  BY <1>1, <1>2, <1>3, <1>4
<1> QED
  BY <1>5 DEF LongerBefore, Lengthened, lc, ld, tc, td, wc, wd

\* Shows overlap only in the three ways the code leaves open.
THEOREM OverlapsAreExplained == Spec => []OverlapIsExplained
<1>1. TypeOK /\ ScheduleInv => OverlapIsExplained
  <2> SUFFICES ASSUME TypeOK, ScheduleInv,
                      NEW c \in Calls, NEW d \in Calls, c # d,
                      show[c] = "active", show[d] = "active", Overlap(c, d)
               PROVE  \/ Raced(c, d)
                      \/ LongerBefore(c, d) \/ LongerBefore(d, c)
                      \/ Lengthened(c) \/ Lengthened(d)
    BY DEF OverlapIsExplained
  <2>1. d \in seen[c] \/ c \in seen[d] \/ Raced(c, d)
    BY DEF ScheduleInv, SeenOrRaced, Checked, Overlap
  <2>2. CASE d \in seen[c]
    BY <2>2, SeenApart DEF ScheduleInv, SeenClear, Checked
  <2>3. CASE c \in seen[d]
    <3>1. Overlap(d, c)
      BY DEF Overlap
    <3> QED
      BY <2>3, <3>1, SeenApart DEF ScheduleInv, SeenClear, Checked
  <2> QED
    BY <2>1, <2>2, <2>3
<1> QED
  BY <1>1, TypeCorrect, ScheduleInvariant, PTL
=============================================================================
