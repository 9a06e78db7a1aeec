------------------------ MODULE CalendarSessionProofs ------------------------
(***************************************************************************)
(* Proofs about CalendarSession, for any set of devices, all tables of     *)
(* bands and all bounds: every copy of the schedule is sound, and the rows *)
(* of the Day sheet always have Periods to edit.                           *)
(*                                                                         *)
(* The invariant SInv adds to the types that every document is sound, and  *)
(* that a device with built rows can no longer miss the document: some     *)
(* load of it found or wrote one, and nothing removes documents.           *)
(***************************************************************************)
EXTENDS CalendarSession, BandPlanTheorems, SequenceTheorems

SoundDocs == SoundSchedules \cup {NoPeriods}

Write == [doc: SoundDocs, load: Loads \cup {NoLoad}]

\* Types, with sound schedules in the place of schedules.
SoundTypes ==
    /\ server \in SoundDocs \cup {Absent}
    /\ pending \in [Devices -> Seq(Write)]
    /\ screen \in [Devices -> {"SignIn", "Home", "SigningOut"}]
    /\ schedule \in [Devices -> SoundDocs]
    /\ dubs \in [Devices -> [Bands -> BOOLEAN]]
    /\ gets \in [Devices -> SUBSET Loads]
    /\ tab \in [Devices -> {"Day", "Full"}]
    /\ day \in [Devices -> DayState]
    /\ loaded \in [Devices -> BOOLEAN]
    /\ dirty \in [Devices -> BOOLEAN]
    /\ hasty \in BOOLEAN
    /\ emptied \in BOOLEAN

\* Once a Day sheet has its rows there are periods in memory, and no later get
\* of this device can miss the document.
RowsAreSafe(d) == RowsBuilt(d) => schedule[d] \in SoundSchedules /\ LocalView(d) # Absent

SignedOutIsEmpty(d) == screen[d] = "SignIn" => ~day[d].alive

SInv == SoundTypes /\ \A d \in Devices : RowsAreSafe(d) /\ SignedOutIsEmpty(d)

-----------------------------------------------------------------------------
\* The markers Absent and NoPeriods are no schedules with periods.
LEMMA Markers ==
  /\ Absent \notin SoundDocs /\ NoPeriods \notin SoundSchedules
  /\ NoPeriods \in SoundDocs /\ BlankSchedule \in SoundSchedules
  /\ SoundSchedules \subseteq SoundDocs /\ SoundDocs \subseteq Docs
  BY SessionAssumption, BlankScheduleSound DEF SoundDocs, SoundSchedules, Docs

\* Home's load and the first loads of a Day sheet have numbers.
LEMMA LoadNumbers == HomeLoad \in Loads /\ 1 \in Loads /\ 0 \in Loads
  BY SessionAssumption DEF Loads, HomeLoad

\* No row edited is a value of rowEdited.
LEMMA RowFlags == NoRow \in [Bands -> BOOLEAN]
  BY DEF NoRow

\* addAllPeriod on an empty list makes a sound schedule.
LEMMA RefilledIsSound == \A sch \in SoundDocs : Refilled(sch) \in SoundSchedules
  BY Markers DEF Refilled, SoundDocs

\* The rows show texts.
LEMMA RowTextsTyped == \A sch \in SoundSchedules : RowTexts(sch) \in [Bands -> Texts]
  BY TextsAssumption, PeriodFields, TemplateIsNoRow DEF RowTexts, SoundSchedules

\* A new Day sheet is alive and shows its spinner.
LEMMA NewDayTyped ==
  \A n \in Loads : NewDay(n) \in DayState /\ NewDay(n).alive /\ NewDay(n).isLoading
  BY RowFlags, TextsAssumption DEF NewDay, DayState

\* A disposed Day sheet is not.
LEMMA DisposedTyped ==
  \A dy \in DayState : Disposed(dy) \in DayState /\ ~Disposed(dy).alive
  <1> SUFFICES ASSUME NEW dy \in DayState
               PROVE  Disposed(dy) \in DayState /\ ~Disposed(dy).alive
    OBVIOUS
  <1> DEFINE fresh == NewDay(dy.mount)
  <1>1. fresh \in DayState
    BY NewDayTyped DEF DayState
  <1> HIDE DEF fresh
  <1>2. [fresh EXCEPT !.alive = FALSE] \in DayState /\ ~[fresh EXCEPT !.alive = FALSE].alive
    BY <1>1 DEF DayState
  <1> QED  BY <1>2 DEF Disposed, fresh

\* The changes of a live Day sheet that a handler makes.
SameLife(dy, was) == dy.alive = was.alive /\ dy.isLoading = was.isLoading

\* Losing or gaining its Period objects does not end a Day sheet.
LEMMA BoundTyped ==
  ASSUME NEW dy \in DayState, NEW x \in BOOLEAN
  PROVE  [dy EXCEPT !.bound = x] \in DayState /\ SameLife([dy EXCEPT !.bound = x], dy)
  BY DEF DayState, SameLife

-----------------------------------------------------------------------------
(* A step of device d: what has to be shown of it.                         *)

Others(d) ==
    \A e \in Devices \ {d} :
        screen'[e] = screen[e] /\ schedule'[e] = schedule[e] /\ day'[e] = day[e]

ViewStays(e) == LocalView(e) # Absent => LocalView(e)' # Absent

SafeStep(d) ==
    /\ SoundTypes'
    /\ Others(d) /\ \A e \in Devices \ {d} : ViewStays(e)
    /\ RowsAreSafe(d)' /\ SignedOutIsEmpty(d)'

\* A step that is safe for the device that moves keeps the invariant for all.
LEMMA SafeStepKeepsInv ==
  ASSUME NEW d \in Devices
  PROVE  SInv /\ SafeStep(d) => SInv'
  <1> SUFFICES ASSUME SInv, SafeStep(d), NEW e \in Devices
               PROVE  RowsAreSafe(e)' /\ SignedOutIsEmpty(e)'
    BY DEF SInv, SafeStep
  <1>1. CASE e = d
    BY <1>1 DEF SafeStep
  <1>2. CASE e # d
    BY <1>2 DEF SInv, SafeStep, Others, ViewStays, RowsAreSafe, RowsBuilt, SignedOutIsEmpty
  <1> QED  BY <1>1, <1>2

\* What a get finds is sound, or nothing.
LEMMA ViewTyped ==
  ASSUME NEW d \in Devices
  PROVE  SoundTypes => LocalView(d) \in SoundDocs \cup {Absent}
  <1> SUFFICES ASSUME SoundTypes  PROVE LocalView(d) \in SoundDocs \cup {Absent}
    OBVIOUS
  <1>1. pending[d] \in Seq(Write)
    BY DEF SoundTypes
  <1>2. CASE pending[d] = <<>>
    BY <1>2 DEF LocalView, SoundTypes
  <1>3. CASE pending[d] # <<>>
    <2>1. pending[d][Len(pending[d])] \in Write
      BY <1>1, <1>3
    <2> QED  BY <1>3, <2>1 DEF LocalView, Write
  <1> QED  BY <1>2, <1>3

\* A get finds the same while document and queue stay.
LEMMA SameView ==
  ASSUME NEW e \in Devices
  PROVE  /\ server' = server /\ pending'[e] = pending[e] => LocalView(e)' = LocalView(e)
         /\ UNCHANGED <<server, pending>> => LocalView(e)' = LocalView(e)
  BY DEF LocalView

\* Sending a sound document.
LEMMA EnqueueStep ==
  ASSUME NEW d \in Devices, NEW doc \in SoundDocs, NEW load \in Loads \cup {NoLoad}
  PROVE  SoundTypes /\ Enqueue(d, doc, load) /\ server' = server =>
            /\ pending' \in [Devices -> Seq(Write)]
            /\ LocalView(d)' = doc
            /\ \A e \in Devices \ {d} : ViewStays(e)
  <1> SUFFICES ASSUME SoundTypes, Enqueue(d, doc, load), server' = server
               PROVE  /\ pending' \in [Devices -> Seq(Write)]
                      /\ LocalView(d)' = doc
                      /\ \A e \in Devices \ {d} : ViewStays(e)
    OBVIOUS
  <1> DEFINE w == [doc |-> doc, load |-> load]
  <1>1. w \in Write /\ w.doc = doc
    BY DEF Write
  <1>2. pending[d] \in Seq(Write) /\ pending \in [Devices -> Seq(Write)]
    BY DEF SoundTypes
  <1>3. pending' = [pending EXCEPT ![d] = Append(pending[d], w)]
    BY DEF Enqueue
  <1> HIDE DEF w
  <1>4. Append(pending[d], w) \in Seq(Write)
    BY <1>1, <1>2
  <1>5. pending' \in [Devices -> Seq(Write)] /\ pending'[d] = Append(pending[d], w)
    BY <1>2, <1>3, <1>4
  <1>6. pending'[d] # <<>> /\ pending'[d][Len(pending'[d])] = w
    BY <1>1, <1>2, <1>5
  <1>7. LocalView(d)' = doc
    BY <1>1, <1>6 DEF LocalView
  <1>8. \A e \in Devices \ {d} : pending'[e] = pending[e]
    BY <1>2, <1>3
  <1>9. \A e \in Devices \ {d} : ViewStays(e)
    BY <1>8, SameView DEF ViewStays
  <1> QED  BY <1>5, <1>7, <1>9

-----------------------------------------------------------------------------
(* What the continuation of a load does to the schedule and the Day sheet. *)

Rebuilt(d) ==
    /\ schedule' \in [Devices -> SoundDocs] /\ day' \in [Devices -> DayState]
    /\ \A e \in Devices \ {d} : schedule'[e] = schedule[e] /\ day'[e] = day[e]
    /\ day'[d].alive => day[d].alive \/ HomeUp(d)
    /\ RowsBuilt(d)' => schedule'[d] \in SoundSchedules

\* Home's rebuild after a load gives the rows periods.
LEMMA HomeRebuiltStep ==
  ASSUME NEW d \in Devices, NEW sch \in SoundDocs
  PROVE  SoundTypes /\ HomeRebuilt(d, sch) => Rebuilt(d) /\ SameLife(day'[d], day[d])
  <1> SUFFICES ASSUME SoundTypes, HomeRebuilt(d, sch)
               PROVE  Rebuilt(d) /\ SameLife(day'[d], day[d])
    OBVIOUS
  <1> DEFINE new == IF RowsBuilt(d) THEN Refilled(sch) ELSE sch
             dy == [day[d] EXCEPT !.bound = RowsBuilt(d)]
  <1>1. schedule \in [Devices -> SoundDocs] /\ day \in [Devices -> DayState] /\ day[d] \in DayState
    BY DEF SoundTypes
  <1>2. RowsBuilt(d) \in BOOLEAN
    BY DEF RowsBuilt
  <1>3. dy \in DayState /\ SameLife(dy, day[d])
    BY <1>1, <1>2, BoundTyped
  <1>4. new \in SoundDocs /\ (RowsBuilt(d) => new \in SoundSchedules)
    BY RefilledIsSound, Markers
  <1>5. schedule' = [schedule EXCEPT ![d] = new] /\ day' = [day EXCEPT ![d] = dy]
    <2>1. schedule' = [schedule EXCEPT ![d] = new]
      BY DEF HomeRebuilt
    <2>2. day' = [day EXCEPT ![d].bound = RowsBuilt(d)]
      BY DEF HomeRebuilt
    <2>3. day' = [day EXCEPT ![d] = dy]
      BY <2>2
    <2> QED  BY <2>1, <2>3
  <1> HIDE DEF new, dy
  <1>6. schedule'[d] = new /\ day'[d] = dy
    BY <1>1, <1>5
  <1>7. RowsBuilt(d)' => RowsBuilt(d)
    BY <1>3, <1>6 DEF RowsBuilt, SameLife
  <1> QED  BY <1>1, <1>3, <1>4, <1>5, <1>6, <1>7 DEF Rebuilt, SameLife

\* A load that ends does not revive a Day sheet.
LEMMA DayAfterLoadTyped ==
  ASSUME NEW dy \in DayState, NEW l, NEW sch \in SoundSchedules, NEW replaced \in BOOLEAN
  PROVE  LET new == DayAfterLoad(dy, l, sch, replaced)
         IN  new \in DayState /\ new.alive = dy.alive
  <1>1. RowTexts(sch) \in [Bands -> Texts]
    BY RowTextsTyped
  <1>2. CASE dy.alive /\ dy.mount = l
    BY <1>1, <1>2 DEF DayAfterLoad, DayState
  <1>3. CASE ~(dy.alive /\ dy.mount = l)
    <2> DEFINE x == dy.bound /\ ~replaced
    <2>1. x \in BOOLEAN
      OBVIOUS
    <2> HIDE DEF x
    <2>2. [dy EXCEPT !.bound = x] \in DayState /\ [dy EXCEPT !.bound = x].alive = dy.alive
      BY <2>1 DEF DayState
    <2> QED  BY <1>3, <2>2 DEF DayAfterLoad, x
  <1> QED  BY <1>2, <1>3

\* The then callback of a Day sheet's load keeps its rows on periods,
LEMMA DayThenStep ==
  ASSUME NEW d \in Devices, NEW l, NEW sch \in SoundDocs, NEW replaced \in BOOLEAN
  PROVE  SoundTypes /\ DayThen(d, l, sch, replaced) => Rebuilt(d)
  <1> SUFFICES ASSUME SoundTypes, DayThen(d, l, sch, replaced)
               PROVE  Rebuilt(d)
    OBVIOUS
  <1> DEFINE new == Refilled(sch)
             dy == DayAfterLoad(day[d], l, new, replaced)
  <1>1. schedule \in [Devices -> SoundDocs] /\ day \in [Devices -> DayState] /\ day[d] \in DayState
    BY DEF SoundTypes
  <1>2. new \in SoundSchedules /\ new \in SoundDocs
    BY RefilledIsSound, Markers
  <1>3. schedule' = [schedule EXCEPT ![d] = new] /\ day' = [day EXCEPT ![d] = dy]
    BY DEF DayThen
  <1> HIDE DEF new
  <1>4. dy \in DayState /\ dy.alive = day[d].alive
    BY <1>1, <1>2, DayAfterLoadTyped
  <1> HIDE DEF dy
  <1> QED  BY <1>1, <1>2, <1>3, <1>4 DEF Rebuilt

\* and so does that of any load.
LEMMA LoadThenStep ==
  ASSUME NEW d \in Devices, NEW l, NEW sch \in SoundDocs, NEW replaced \in BOOLEAN
  PROVE  SoundTypes /\ LoadThen(d, l, sch, replaced) => Rebuilt(d)
  BY HomeRebuiltStep, DayThenStep DEF LoadThen

\* A step that changes nothing but what Rebuilt allows, and misses no document.
LEMMA RebuiltIsSafe ==
  ASSUME NEW d \in Devices
  PROVE  SInv /\ Rebuilt(d) /\ SoundTypes' /\ UNCHANGED screen
           /\ (\A e \in Devices \ {d} : ViewStays(e))
           /\ (RowsBuilt(d)' => LocalView(d)' # Absent)
         => SafeStep(d)
  <1> SUFFICES ASSUME SInv, Rebuilt(d), SoundTypes', UNCHANGED screen,
                      \A e \in Devices \ {d} : ViewStays(e),
                      RowsBuilt(d)' => LocalView(d)' # Absent
               PROVE  SafeStep(d)
    OBVIOUS
  <1>1. Others(d)
    BY DEF Others, Rebuilt
  <1>2. RowsAreSafe(d)'
    BY DEF RowsAreSafe, Rebuilt
  <1>3. SignedOutIsEmpty(d)'
    BY DEF SInv, SignedOutIsEmpty, Rebuilt, HomeUp
  <1> QED  BY <1>1, <1>2, <1>3 DEF SafeStep

-----------------------------------------------------------------------------
(* One lemma per action.                                                   *)

\* The invariant holds at the start.
LEMMA InitSafe == Init => SInv
  <1> SUFFICES ASSUME Init  PROVE SInv
    OBVIOUS
  <1> DEFINE gone == Disposed(NewDay(0))
  <1>1. gone \in DayState /\ ~gone.alive
    BY NewDayTyped, DisposedTyped, LoadNumbers
  <1> HIDE DEF gone
  <1>2. day = [d \in Devices |-> gone]
    BY DEF Init, gone
  <1>3. SoundTypes
    <2>1. day \in [Devices -> DayState]
      BY <1>1, <1>2
    <2>2. <<>> \in Seq(Write)
      OBVIOUS
    <2>3. pending \in [Devices -> Seq(Write)]
      BY <2>2 DEF Init
    <2>4. server \in SoundDocs \cup {Absent} /\ schedule \in [Devices -> SoundDocs]
      BY Markers DEF Init
    <2>5. gets \in [Devices -> SUBSET Loads] /\ dubs \in [Devices -> [Bands -> BOOLEAN]]
      BY RowFlags DEF Init
    <2> QED  BY <2>1, <2>3, <2>4, <2>5 DEF Init, SoundTypes
  <1>4. \A d \in Devices : ~day[d].alive
    BY <1>1, <1>2
  <1> QED  BY <1>3, <1>4 DEF SInv, RowsAreSafe, RowsBuilt, SignedOutIsEmpty

\* Building Home is safe: its loads have only begun.
LEMMA OpenHomeSafe ==
  ASSUME NEW d \in Devices
  PROVE  SInv /\ OpenHome(d) /\ pending' \in [Devices -> Seq(Write)]
           /\ (\A e \in Devices \ {d} : pending'[e] = pending[e])
         => SafeStep(d)
  <1> SUFFICES ASSUME SInv, OpenHome(d), pending' \in [Devices -> Seq(Write)],
                      \A e \in Devices \ {d} : pending'[e] = pending[e]
               PROVE  SafeStep(d)
    OBVIOUS
  <1> DEFINE dy == NewDay(1)
  <1>1. dy \in DayState /\ dy.alive /\ dy.isLoading
    BY NewDayTyped, LoadNumbers
  <1>2. SoundTypes
    BY DEF SInv
  <1>3. /\ day' = [day EXCEPT ![d] = dy] /\ schedule' = [schedule EXCEPT ![d] = BlankSchedule]
        /\ screen' = [screen EXCEPT ![d] = "Home"] /\ server' = server
    BY DEF OpenHome
  <1> HIDE DEF dy
  <1>4. SoundTypes'
    <2>1. /\ day' \in [Devices -> DayState] /\ schedule' \in [Devices -> SoundDocs]
          /\ screen' \in [Devices -> {"SignIn", "Home", "SigningOut"}]
          /\ server' \in SoundDocs \cup {Absent}
      BY <1>1, <1>2, <1>3, Markers DEF SoundTypes
    <2>2. /\ dubs' \in [Devices -> [Bands -> BOOLEAN]] /\ gets' \in [Devices -> SUBSET Loads]
          /\ tab' \in [Devices -> {"Day", "Full"}]
      BY <1>2, RowFlags, LoadNumbers DEF SoundTypes, OpenHome
    <2>3. /\ loaded' \in [Devices -> BOOLEAN] /\ dirty' \in [Devices -> BOOLEAN]
          /\ hasty' \in BOOLEAN /\ emptied' \in BOOLEAN
      BY <1>2 DEF SoundTypes, OpenHome
    <2> QED  BY <2>1, <2>2, <2>3 DEF SoundTypes
  <1>5. Others(d)
    BY <1>2, <1>3 DEF Others, SoundTypes
  <1>6. \A e \in Devices \ {d} : ViewStays(e)
    BY <1>3, SameView DEF ViewStays
  <1>7. day'[d] = dy /\ screen'[d] = "Home"
    BY <1>2, <1>3 DEF SoundTypes
  <1>8. RowsAreSafe(d)' /\ SignedOutIsEmpty(d)'
    BY <1>1, <1>7 DEF RowsAreSafe, RowsBuilt, SignedOutIsEmpty
  <1> QED  BY <1>4, <1>5, <1>6, <1>8 DEF SafeStep

\* Queued writes of a Person nobody holds are queued writes.
LEMMA OrphanedTyped == \A ws \in Seq(Write) : Orphaned(ws) \in Seq(Write)
  <1> SUFFICES ASSUME NEW ws \in Seq(Write)  PROVE Orphaned(ws) \in Seq(Write)
    OBVIOUS
  <1>1. \A w \in Write : [w EXCEPT !.load = NoLoad] \in Write
    BY DEF Write
  <1>2. /\ Len(ws) \in Nat /\ DOMAIN ws = 1..Len(ws)
        /\ \A i \in DOMAIN ws : ws[i] \in Write
    BY LenProperties, ElementOfSeq
  <1>3. /\ DOMAIN Orphaned(ws) = 1..Len(ws)
        /\ \A i \in 1..Len(ws) : Orphaned(ws)[i] \in Write
        /\ Orphaned(ws) = [i \in 1..Len(ws) |-> Orphaned(ws)[i]]
    BY <1>1, <1>2 DEF Orphaned
  <1> QED  BY <1>2, <1>3, IsASeq

\* Signing in and restarting are safe.
LEMMA RestartSafe ==
  ASSUME NEW d \in Devices
  PROVE  SInv /\ (SignIn(d) \/ Restart(d)) => SafeStep(d)
  <1> SUFFICES ASSUME SInv, SignIn(d) \/ Restart(d)  PROVE SafeStep(d)
    OBVIOUS
  <1>1. pending \in [Devices -> Seq(Write)] /\ <<>> \in Seq(Write) /\ Orphaned(pending[d]) \in Seq(Write)
    BY OrphanedTyped DEF SInv, SoundTypes
  <1>2. OpenHome(d)
    BY DEF SignIn, Restart
  <1>3. \/ pending' = pending
        \/ pending' = [pending EXCEPT ![d] = <<>>]
        \/ pending' = [pending EXCEPT ![d] = Orphaned(pending[d])]
    BY DEF SignIn, Restart
  <1>4. /\ pending' \in [Devices -> Seq(Write)]
        /\ \A e \in Devices \ {d} : pending'[e] = pending[e]
    BY <1>1, <1>3
  <1> QED  BY <1>2, <1>4, OpenHomeSafe

\* Closing the app is safe.
LEMMA CloseSafe ==
  ASSUME NEW d \in Devices
  PROVE  SInv /\ Close(d) => SafeStep(d)
  <1> SUFFICES ASSUME SInv, Close(d)  PROVE SafeStep(d)
    OBVIOUS
  <1>1. /\ pending' = [pending EXCEPT ![d] = <<>>] /\ server' = server
        /\ UNCHANGED <<screen, schedule, day>>
    BY DEF Close, appVars
  <1>2. SoundTypes /\ pending \in [Devices -> Seq(Write)]
    BY DEF SInv, SoundTypes
  <1>3. pending' \in [Devices -> Seq(Write)] /\ \A e \in Devices \ {d} : pending'[e] = pending[e]
    BY <1>1, <1>2
  <1>4. SoundTypes'
    BY <1>2, <1>3 DEF SoundTypes, Close, appVars, history
  <1>5. \A e \in Devices \ {d} : ViewStays(e)
    BY <1>1, <1>3, SameView DEF ViewStays
  <1>6. screen[d] = "SignIn" /\ ~day[d].alive
    BY DEF Close, SInv, SignedOutIsEmpty
  <1> QED
    BY <1>1, <1>4, <1>5, <1>6
    DEF SafeStep, Others, RowsAreSafe, RowsBuilt, SignedOutIsEmpty

\* Logout is safe: what it sends is sound.
LEMMA LogoutSafe ==
  ASSUME NEW d \in Devices
  PROVE  SInv /\ Logout(d) => SafeStep(d)
  <1> SUFFICES ASSUME SInv, Logout(d)  PROVE SafeStep(d)
    OBVIOUS
  <1>1. SoundTypes /\ schedule[d] \in SoundDocs /\ NoLoad \in Loads \cup {NoLoad}
    BY DEF SInv, SoundTypes
  <1>2. Enqueue(d, schedule[d], NoLoad) /\ server' = server
    BY DEF Logout, Send
  <1>3. /\ pending' \in [Devices -> Seq(Write)] /\ LocalView(d)' = schedule[d]
        /\ \A e \in Devices \ {d} : ViewStays(e)
    BY <1>1, <1>2, EnqueueStep
  <1>4. Rebuilt(d) /\ SameLife(day'[d], day[d])
    BY <1>1, HomeRebuiltStep DEF Logout
  <1>5. screen' = [screen EXCEPT ![d] = "SigningOut"] /\ screen \in [Devices -> {"SignIn", "Home", "SigningOut"}]
    BY <1>1 DEF Logout, SoundTypes
  <1>6. SoundTypes'
    <2>1. /\ loaded' \in [Devices -> BOOLEAN] /\ dirty' \in [Devices -> BOOLEAN]
          /\ hasty' \in BOOLEAN /\ emptied' \in BOOLEAN
      BY <1>1 DEF SoundTypes, Logout, Send
    <2> QED  BY <1>1, <1>2, <1>3, <1>4, <1>5, <2>1 DEF SoundTypes, Rebuilt, Logout
  <1>7. Others(d)
    BY <1>4, <1>5 DEF Others, Rebuilt
  <1>8. RowsAreSafe(d)'
    BY <1>1, <1>3, <1>4, Markers DEF RowsAreSafe, Rebuilt
  <1>9. SignedOutIsEmpty(d)'
    BY <1>5 DEF SignedOutIsEmpty
  <1> QED  BY <1>3, <1>6, <1>7, <1>8, <1>9 DEF SafeStep

\* The switch to the form is safe: the Day sheet is gone.
LEMMA SignedOutSafe ==
  ASSUME NEW d \in Devices
  PROVE  SInv /\ SignedOut(d) => SafeStep(d)
  <1> SUFFICES ASSUME SInv, SignedOut(d)  PROVE SafeStep(d)
    OBVIOUS
  <1> DEFINE dy == Disposed(NewDay(0))
  <1>1. dy \in DayState /\ ~dy.alive
    BY NewDayTyped, DisposedTyped, LoadNumbers
  <1>2. SoundTypes /\ pending \in [Devices -> Seq(Write)] /\ Orphaned(pending[d]) \in Seq(Write)
    BY OrphanedTyped DEF SInv, SoundTypes
  <1>3. /\ day' = [day EXCEPT ![d] = dy] /\ schedule' = [schedule EXCEPT ![d] = NoPeriods]
        /\ screen' = [screen EXCEPT ![d] = "SignIn"] /\ server' = server
        /\ pending' = [pending EXCEPT ![d] = Orphaned(pending[d])]
    BY DEF SignedOut
  <1> HIDE DEF dy
  <1>4. pending' \in [Devices -> Seq(Write)] /\ \A e \in Devices \ {d} : pending'[e] = pending[e]
    BY <1>2, <1>3
  <1>5. SoundTypes'
    <2>1. /\ day' \in [Devices -> DayState] /\ schedule' \in [Devices -> SoundDocs]
          /\ screen' \in [Devices -> {"SignIn", "Home", "SigningOut"}]
          /\ server' \in SoundDocs \cup {Absent}
      BY <1>1, <1>2, <1>3, Markers DEF SoundTypes
    <2>2. /\ dubs' \in [Devices -> [Bands -> BOOLEAN]] /\ gets' \in [Devices -> SUBSET Loads]
          /\ tab' \in [Devices -> {"Day", "Full"}]
      BY <1>2, RowFlags DEF SoundTypes, SignedOut
    <2>3. /\ loaded' \in [Devices -> BOOLEAN] /\ dirty' \in [Devices -> BOOLEAN]
          /\ hasty' \in BOOLEAN /\ emptied' \in BOOLEAN
      BY <1>2 DEF SoundTypes, SignedOut
    <2> QED  BY <1>4, <2>1, <2>2, <2>3 DEF SoundTypes
  <1>6. Others(d)
    BY <1>2, <1>3 DEF Others, SoundTypes
  <1>7. \A e \in Devices \ {d} : ViewStays(e)
    BY <1>3, <1>4, SameView DEF ViewStays
  <1>8. RowsAreSafe(d)' /\ SignedOutIsEmpty(d)'
    <2>1. day'[d] = dy
      BY <1>2, <1>3 DEF SoundTypes
    <2> QED  BY <1>1, <2>1 DEF RowsAreSafe, RowsBuilt, SignedOutIsEmpty
  <1> QED  BY <1>5, <1>6, <1>7, <1>8 DEF SafeStep

\* A load that finds the document is safe.
LEMMA GetFoundSafe ==
  ASSUME NEW d \in Devices, NEW l \in Loads
  PROVE  SInv /\ GetFound(d, l) => SafeStep(d)
  <1> SUFFICES ASSUME SInv, GetFound(d, l)  PROVE SafeStep(d)
    OBVIOUS
  <1>1. SoundTypes /\ LocalView(d) \in SoundDocs
    BY ViewTyped DEF SInv, GetFound
  <1>2. UNCHANGED <<server, pending, screen, dubs, tab, hasty, emptied>>
    BY DEF GetFound
  <1>3. Rebuilt(d)
    BY <1>1, LoadThenStep DEF GetFound
  <1>4. LocalView(d)' # Absent /\ \A e \in Devices \ {d} : ViewStays(e)
    BY <1>2, SameView DEF GetFound, ViewStays
  <1>5. SoundTypes'
    <2>1. gets' \in [Devices -> SUBSET Loads] /\ loaded' \in [Devices -> BOOLEAN] /\ dirty' \in [Devices -> BOOLEAN]
      BY <1>1 DEF SoundTypes, GetFound
    <2> QED  BY <1>1, <1>2, <1>3, <2>1 DEF SoundTypes, Rebuilt
  <1> QED  BY <1>2, <1>3, <1>4, <1>5, RebuiltIsSafe

\* A load that finds none empties the schedule only when no rows are built.
LEMMA GetAbsentSafe ==
  ASSUME NEW d \in Devices, NEW l \in Loads
  PROVE  SInv /\ GetAbsent(d, l) => SafeStep(d)
  <1> SUFFICES ASSUME SInv, GetAbsent(d, l)  PROVE SafeStep(d)
    OBVIOUS
  <1> DEFINE dy == [day[d] EXCEPT !.bound = FALSE]
  <1>1. SoundTypes /\ day[d] \in DayState /\ NoPeriods \in SoundDocs /\ l \in Loads \cup {NoLoad}
    BY Markers DEF SInv, SoundTypes
  <1>2. UNCHANGED <<server, screen, dubs, tab, hasty, emptied>>
    BY DEF GetAbsent
  <1>3. Enqueue(d, NoPeriods, l)
    BY DEF GetAbsent
  <1>4. /\ pending' \in [Devices -> Seq(Write)] /\ LocalView(d)' = NoPeriods
        /\ \A e \in Devices \ {d} : ViewStays(e)
    BY <1>1, <1>2, <1>3, EnqueueStep
  <1>5. dy \in DayState /\ SameLife(dy, day[d])
    BY <1>1, BoundTyped
  <1>6. day' = [day EXCEPT ![d] = dy]
    BY DEF GetAbsent
  <1>7. ~RowsBuilt(d)
    BY DEF SInv, RowsAreSafe, GetAbsent
  <1> HIDE DEF dy
  <1>8. Rebuilt(d)
    <2>1. schedule' = [schedule EXCEPT ![d] = NoPeriods]
      BY DEF GetAbsent
    <2>2. day'[d] = dy
      BY <1>1, <1>6 DEF SoundTypes
    <2>3. ~RowsBuilt(d)'
      BY <1>5, <1>7, <2>2 DEF RowsBuilt, SameLife
    <2> QED  BY <1>1, <1>5, <1>6, <2>1, <2>2, <2>3 DEF Rebuilt, SoundTypes, SameLife
  <1>9. SoundTypes'
    <2>1. gets' \in [Devices -> SUBSET Loads] /\ loaded' \in [Devices -> BOOLEAN] /\ dirty' \in [Devices -> BOOLEAN]
      BY <1>1 DEF SoundTypes, GetAbsent
    <2> QED  BY <1>1, <1>2, <1>4, <1>8, <2>1 DEF SoundTypes, Rebuilt
  <1>10. LocalView(d)' # Absent
    BY <1>1, <1>4, Markers
  <1> QED  BY <1>2, <1>4, <1>8, <1>9, <1>10, RebuiltIsSafe

\* A step that leaves the schedules, the Day sheets and the writes alone.
LEMMA QuietSafe ==
  ASSUME NEW d \in Devices
  PROVE  SInv /\ SoundTypes' /\ UNCHANGED <<server, pending, screen, schedule, day>> => SafeStep(d)
  <1> SUFFICES ASSUME SInv, SoundTypes', UNCHANGED <<server, pending, screen, schedule, day>>
               PROVE  SafeStep(d)
    OBVIOUS
  <1>1. \A e \in Devices : LocalView(e)' = LocalView(e)
    BY SameView
  <1> QED
    BY <1>1 DEF SInv, SafeStep, Others, ViewStays, RowsAreSafe, RowsBuilt, SignedOutIsEmpty

\* A load that fails is safe.
LEMMA GetFailsSafe ==
  ASSUME NEW d \in Devices, NEW l \in Loads
  PROVE  SInv /\ GetFails(d, l) => SafeStep(d)
  <1> SUFFICES ASSUME SInv, GetFails(d, l)  PROVE SafeStep(d)
    OBVIOUS
  <1>1. gets' \in [Devices -> SUBSET Loads]
    BY DEF SInv, SoundTypes, GetFails
  <1>2. SoundTypes'
    BY <1>1 DEF SInv, SoundTypes, GetFails, history
  <1>3. UNCHANGED <<server, pending, screen, schedule, day>>
    BY DEF GetFails
  <1> QED  BY <1>2, <1>3, QuietSafe

-----------------------------------------------------------------------------
(* Writes taken by the server, and the user's edits.                       *)

\* Replacing schedule and Day sheet together is safe when rows get periods.
LEMMA RewrittenIsRebuilt ==
  ASSUME NEW d \in Devices, NEW new \in SoundDocs, NEW dy \in DayState
  PROVE  /\ SoundTypes
         /\ schedule' = [schedule EXCEPT ![d] = new] /\ day' = [day EXCEPT ![d] = dy]
         /\ dy.alive => day[d].alive \/ HomeUp(d)
         /\ dy.alive /\ ~dy.isLoading => new \in SoundSchedules
         => Rebuilt(d)
  BY DEF SoundTypes, Rebuilt, RowsBuilt

\* A document on the server is one every device finds.
LEMMA StoredIsFound ==
  ASSUME NEW e \in Devices
  PROVE  SoundTypes' /\ server' \in SoundDocs => LocalView(e)' # Absent
  <1> SUFFICES ASSUME SoundTypes', server' \in SoundDocs  PROVE LocalView(e)' # Absent
    OBVIOUS
  <1>1. pending'[e] \in Seq(Write)
    BY DEF SoundTypes
  <1>2. CASE pending'[e] = <<>>
    BY <1>2, Markers DEF LocalView
  <1>3. CASE pending'[e] # <<>>
    <2>1. pending'[e][Len(pending'[e])] \in Write
      BY <1>1, <1>3
    <2> QED  BY <1>3, <2>1, Markers DEF LocalView, Write
  <1> QED  BY <1>2, <1>3

\* An acknowledgement moves the document from the queue to the server.
LEMMA AckSafe ==
  ASSUME NEW d \in Devices
  PROVE  SInv /\ Ack(d) => SafeStep(d)
  <1> SUFFICES ASSUME SInv, Ack(d)  PROVE SafeStep(d)
    OBVIOUS
  <1>1. SoundTypes /\ pending[d] \in Seq(Write) /\ pending[d] # <<>> /\ schedule[d] \in SoundDocs
    BY DEF SInv, SoundTypes, Ack
  <1>2. Head(pending[d]) \in Write /\ Tail(pending[d]) \in Seq(Write)
    BY <1>1
  <1>3. server' \in SoundDocs
    BY <1>2 DEF Ack, Write
  <1>4. pending' = [pending EXCEPT ![d] = Tail(pending[d])]
    BY DEF Ack
  <1>5. pending' \in [Devices -> Seq(Write)]
    BY <1>1, <1>2, <1>4 DEF SoundTypes
  <1>6. Rebuilt(d)
    <2>1. CASE Head(pending[d]).load = NoLoad
      BY <2>1 DEF Ack, SInv, SoundTypes, RowsAreSafe, RowsBuilt, Rebuilt
    <2>2. CASE Head(pending[d]).load # NoLoad
      BY <1>1, <2>2, LoadThenStep DEF Ack
    <2> QED  BY <2>1, <2>2
  <1>7. UNCHANGED <<screen, dubs, gets, tab, loaded, dirty, hasty, emptied>>
    BY DEF Ack, history
  <1>8. SoundTypes'
    BY <1>1, <1>3, <1>5, <1>6, <1>7 DEF SoundTypes, Rebuilt
  <1>9. \A e \in Devices : LocalView(e)' # Absent
    BY <1>3, <1>8, StoredIsFound
  <1> QED  BY <1>6, <1>7, <1>8, <1>9, RebuiltIsSafe DEF ViewStays

\* The bookkeeping of erased classes is a Boolean.
LEMMA EmptiedTyped ==
  ASSUME NEW d \in Devices
  PROVE  NoteEmptied(d) /\ emptied \in BOOLEAN => emptied' \in BOOLEAN
  BY DEF NoteEmptied

\* Edits and tab changes leave the server and the writes alone.
LEMMA LocalStepIsSafe ==
  ASSUME NEW d \in Devices
  PROVE  /\ SInv /\ Rebuilt(d) /\ SoundTypes'
         /\ UNCHANGED <<server, pending, screen>>
         /\ RowsBuilt(d)' => RowsBuilt(d)
         => SafeStep(d)
  <1> SUFFICES ASSUME SInv, Rebuilt(d), SoundTypes', UNCHANGED <<server, pending, screen>>,
                      RowsBuilt(d)' => RowsBuilt(d)
               PROVE  SafeStep(d)
    OBVIOUS
  <1>1. \A e \in Devices : LocalView(e)' = LocalView(e)
    BY SameView
  <1>2. RowsBuilt(d)' => LocalView(d)' # Absent
    BY <1>1 DEF SInv, RowsAreSafe
  <1> QED  BY <1>1, <1>2, RebuiltIsSafe DEF ViewStays

\* A keystroke on the Day sheet is safe.
LEMMA DayTextSafe ==
  ASSUME NEW d \in Devices, NEW b \in Bands, NEW t \in TypedTexts
  PROVE  SInv /\ DayText(d, b, t) => SafeStep(d)
  <1> SUFFICES ASSUME SInv, DayText(d, b, t)  PROVE SafeStep(d)
    OBVIOUS
  <1> DEFINE edited == [schedule[d] EXCEPT ![b] = DayEdited(@, "className", t)]
             new == IF day[d].bound THEN edited ELSE schedule[d]
             flags == [day[d].rowEdited EXCEPT ![b] = TRUE]
             texts == [day[d].shown EXCEPT ![b] = t]
             dy == [day[d] EXCEPT !.bound = TRUE, !.rowEdited = flags, !.shown = texts]
  <1>1. SoundTypes /\ day[d] \in DayState /\ schedule \in [Devices -> SoundDocs]
    BY DEF SInv, SoundTypes
  <1>2. RowsBuilt(d) /\ schedule[d] \in SoundSchedules /\ t \in Texts
    BY SessionAssumption DEF DayText, SInv, RowsAreSafe
  <1>3. new \in SoundSchedules /\ new \in SoundDocs
    BY <1>2, DayEditedSound, Markers
  <1>4. schedule' = [schedule EXCEPT ![d] = new]
    BY <1>1 DEF DayText
  <1>5. day' = [day EXCEPT ![d].bound = TRUE, ![d].rowEdited[b] = TRUE, ![d].shown[b] = t]
    BY DEF DayText
  <1>6. day' = [day EXCEPT ![d] = dy]
    BY <1>1, <1>5 DEF DayState
  <1>7. flags \in [Bands -> BOOLEAN] /\ texts \in [Bands -> Texts]
    BY <1>1, <1>2 DEF DayState
  <1> HIDE DEF new, flags, texts
  <1>8. dy \in DayState /\ SameLife(dy, day[d])
    BY <1>1, <1>7 DEF DayState, SameLife
  <1> HIDE DEF dy
  <1>9. Rebuilt(d)
    BY <1>1, <1>3, <1>4, <1>6, <1>8, RewrittenIsRebuilt DEF SameLife
  <1>10. UNCHANGED <<server, pending, screen, dubs, gets, tab, loaded, hasty>>
    BY DEF DayText
  <1>11. SoundTypes'
    <2>1. dirty' \in [Devices -> BOOLEAN] /\ emptied' \in BOOLEAN
      BY <1>1, EmptiedTyped DEF DayText, SoundTypes
    <2> QED  BY <1>1, <1>9, <1>10, <2>1 DEF SoundTypes, Rebuilt
  <1> QED  BY <1>2, <1>9, <1>10, <1>11, LocalStepIsSafe

\* A Double? box is safe.
LEMMA DayDoubleSafe ==
  ASSUME NEW d \in Devices, NEW b \in Bands
  PROVE  SInv /\ DayDouble(d, b) => SafeStep(d)
  <1> SUFFICES ASSUME SInv, DayDouble(d, b)  PROVE SafeStep(d)
    OBVIOUS
  <1> DEFINE flags == [day[d].rowEdited EXCEPT ![b] = TRUE]
             dy == [day[d] EXCEPT !.bound = TRUE, !.rowEdited = flags]
  <1>1. SoundTypes /\ day[d] \in DayState /\ schedule \in [Devices -> SoundDocs]
    BY DEF SInv, SoundTypes
  <1>2. RowsBuilt(d) /\ schedule[d] \in SoundSchedules
    BY DEF DayDouble, SInv, RowsAreSafe
  <1>3. day' = [day EXCEPT ![d].bound = TRUE, ![d].rowEdited[b] = TRUE]
    BY DEF DayDouble
  <1>4. day' = [day EXCEPT ![d] = dy]
    BY <1>1, <1>3 DEF DayState
  <1>5. flags \in [Bands -> BOOLEAN]
    BY <1>1 DEF DayState
  <1> HIDE DEF flags
  <1>6. dy \in DayState /\ SameLife(dy, day[d])
    BY <1>1, <1>5 DEF DayState, SameLife
  <1> HIDE DEF dy
  <1>7. UNCHANGED <<server, pending, screen, schedule, gets, tab, loaded, dirty, hasty, emptied>>
    BY DEF DayDouble, history
  <1>8. Rebuilt(d)
    <2>1. schedule' = [schedule EXCEPT ![d] = schedule[d]]
      BY <1>1, <1>7
    <2> QED  BY <1>1, <1>2, <1>4, <1>6, <2>1, Markers, RewrittenIsRebuilt DEF SameLife
  <1>9. SoundTypes'
    <2>1. dubs' \in [Devices -> [Bands -> BOOLEAN]]
      <3>1. dubs \in [Devices -> [Bands -> BOOLEAN]] /\ dubs' = [dubs EXCEPT ![d][b] = ~dubs[d][b]]
        BY <1>1 DEF SoundTypes, DayDouble
      <3> QED  BY <3>1
    <2> QED  BY <1>1, <1>7, <1>8, <2>1 DEF SoundTypes, Rebuilt
  <1> QED  BY <1>2, <1>7, <1>8, <1>9, LocalStepIsSafe

\* The Day sheet's Save is safe.
LEMMA SaveDaySafe ==
  ASSUME NEW d \in Devices
  PROVE  SInv /\ SaveDay(d) => SafeStep(d)
  <1> SUFFICES ASSUME SInv, SaveDay(d)  PROVE SafeStep(d)
    OBVIOUS
  <1> DEFINE new == DaySave(schedule[d], dubs[d], day[d].rowEdited)
             dy == [day[d] EXCEPT !.bound = TRUE, !.rowEdited = NoRow]
  <1>1. SoundTypes /\ day[d] \in DayState /\ schedule \in [Devices -> SoundDocs]
    BY DEF SInv, SoundTypes
  <1>2. RowsBuilt(d) /\ schedule[d] \in SoundSchedules
    BY DEF SaveDay, SInv, RowsAreSafe
  <1>3. new \in SoundSchedules /\ new \in SoundDocs
    BY <1>2, DaySaveSound, Markers
  <1>4. schedule' = [schedule EXCEPT ![d] = new]
    BY DEF SaveDay
  <1>5. day' = [day EXCEPT ![d].bound = TRUE, ![d].rowEdited = NoRow]
    BY DEF SaveDay
  <1>6. day' = [day EXCEPT ![d] = dy]
    BY <1>5
  <1>7. dy \in DayState /\ SameLife(dy, day[d])
    BY <1>1, RowFlags DEF DayState, SameLife
  <1> HIDE DEF new, dy
  <1>8. Rebuilt(d)
    BY <1>1, <1>3, <1>4, <1>6, <1>7, RewrittenIsRebuilt DEF SameLife
  <1>9. UNCHANGED <<server, screen, dubs, gets, tab, loaded>>
    BY DEF SaveDay, Send
  <1>10. Enqueue(d, new, NoLoad)
    <2>1. schedule'[d] = new
      BY <1>1, <1>4
    <2>2. Enqueue(d, schedule'[d], NoLoad)
      BY DEF SaveDay, Send
    <2> QED  BY <2>1, <2>2
  <1>11. /\ pending' \in [Devices -> Seq(Write)] /\ LocalView(d)' = new
         /\ \A e \in Devices \ {d} : ViewStays(e)
    BY <1>1, <1>3, <1>9, <1>10, EnqueueStep
  <1>12. SoundTypes'
    <2>1. dirty' \in [Devices -> BOOLEAN] /\ hasty' \in BOOLEAN /\ emptied' \in BOOLEAN
      BY <1>1, EmptiedTyped DEF SaveDay, Send, SoundTypes
    <2> QED  BY <1>1, <1>8, <1>9, <1>11, <2>1 DEF SoundTypes, Rebuilt
  <1> QED  BY <1>3, <1>8, <1>9, <1>11, <1>12, Markers, RebuiltIsSafe

\* A keystroke on the Full sheet is safe.
LEMMA FullTextSafe ==
  ASSUME NEW d \in Devices, NEW s \in Slots, NEW t \in TypedTexts
  PROVE  SInv /\ FullText(d, s, t) => SafeStep(d)
  <1> SUFFICES ASSUME SInv, FullText(d, s, t)  PROVE SafeStep(d)
    OBVIOUS
  <1> DEFINE new == [schedule[d] EXCEPT ![s] = FullEdited(@, "className", t)]
             dy == Disposed(day[d])
  <1>1. SoundTypes /\ day[d] \in DayState /\ schedule \in [Devices -> SoundDocs]
    BY DEF SInv, SoundTypes
  <1>2. schedule[d] \in SoundSchedules /\ t \in Texts /\ s \in FullSheetSlots
    BY <1>1, SessionAssumption DEF FullText, SoundDocs
  <1>3. new \in SoundDocs
    BY <1>2, FullEditedSound, Markers
  <1>4. schedule' = [schedule EXCEPT ![d] = new] /\ day' = [day EXCEPT ![d] = dy]
    BY DEF FullText
  <1>5. dy \in DayState /\ ~dy.alive
    BY <1>1, DisposedTyped
  <1> HIDE DEF new, dy
  <1>6. Rebuilt(d)
    BY <1>1, <1>3, <1>4, <1>5, RewrittenIsRebuilt
  <1>7. UNCHANGED <<server, pending, screen, dubs, gets, tab, loaded, hasty>>
    BY DEF FullText
  <1>8. SoundTypes'
    <2>1. dirty' \in [Devices -> BOOLEAN] /\ emptied' \in BOOLEAN
      BY <1>1, EmptiedTyped DEF FullText, SoundTypes
    <2> QED  BY <1>1, <1>6, <1>7, <2>1 DEF SoundTypes, Rebuilt
  <1>9. ~RowsBuilt(d)'
    BY <1>1, <1>4, <1>5 DEF RowsBuilt, SoundTypes
  <1> QED  BY <1>6, <1>7, <1>8, <1>9, LocalStepIsSafe

\* The Full sheet's Save is safe.
LEMMA SaveFullSafe ==
  ASSUME NEW d \in Devices
  PROVE  SInv /\ SaveFull(d) => SafeStep(d)
  <1> SUFFICES ASSUME SInv, SaveFull(d)  PROVE SafeStep(d)
    OBVIOUS
  <1>1. SoundTypes /\ schedule[d] \in SoundDocs
    BY DEF SInv, SoundTypes
  <1>2. UNCHANGED <<server, screen, schedule, dubs, gets, tab, day, loaded>>
    BY DEF SaveFull, Send, appVars
  <1>3. Enqueue(d, schedule[d], NoLoad)
    BY DEF SaveFull, Send
  <1>4. /\ pending' \in [Devices -> Seq(Write)] /\ LocalView(d)' = schedule[d]
        /\ \A e \in Devices \ {d} : ViewStays(e)
    BY <1>1, <1>2, <1>3, EnqueueStep
  <1>5. SoundTypes'
    <2>1. dirty' \in [Devices -> BOOLEAN] /\ hasty' \in BOOLEAN /\ emptied' \in BOOLEAN
      BY <1>1 DEF SaveFull, Send, SoundTypes
    <2> QED  BY <1>1, <1>2, <1>4, <2>1 DEF SoundTypes
  <1>6. Rebuilt(d)
    BY <1>2 DEF SInv, SoundTypes, RowsAreSafe, RowsBuilt, Rebuilt
  <1>7. LocalView(d)' # Absent
    BY <1>1, <1>4, Markers
  <1> QED  BY <1>2, <1>4, <1>5, <1>6, <1>7, RebuiltIsSafe

\* Turning to the Full sheet is safe.
LEMMA OpenFullSafe ==
  ASSUME NEW d \in Devices
  PROVE  SInv /\ OpenFull(d) => SafeStep(d)
  <1> SUFFICES ASSUME SInv, OpenFull(d)  PROVE SafeStep(d)
    OBVIOUS
  <1> DEFINE dy == Disposed(day[d])
  <1>1. SoundTypes /\ day[d] \in DayState /\ schedule \in [Devices -> SoundDocs]
        /\ day \in [Devices -> DayState]
    BY DEF SInv, SoundTypes
  <1>2. UNCHANGED <<server, pending, screen, schedule, dubs, gets, loaded, dirty, hasty, emptied>>
    BY DEF OpenFull, history
  <1>3. tab' \in [Devices -> {"Day", "Full"}]
    BY <1>1 DEF OpenFull, SoundTypes
  <1>4. CASE UNCHANGED day
    <2>1. SoundTypes'
      BY <1>1, <1>2, <1>3, <1>4 DEF SoundTypes
    <2> QED  BY <1>2, <1>4, <2>1, QuietSafe
  <1>5. CASE day' = [day EXCEPT ![d] = Disposed(@)]
    <2>1. day' = [day EXCEPT ![d] = dy] /\ schedule' = [schedule EXCEPT ![d] = schedule[d]]
      BY <1>1, <1>2, <1>5
    <2>2. dy \in DayState /\ ~dy.alive /\ schedule[d] \in SoundDocs
      BY <1>1, DisposedTyped
    <2> HIDE DEF dy
    <2>3. Rebuilt(d)
      BY <1>1, <2>1, <2>2, RewrittenIsRebuilt
    <2>4. SoundTypes'
      BY <1>1, <1>2, <1>3, <2>3 DEF SoundTypes, Rebuilt
    <2>5. ~RowsBuilt(d)'
      BY <1>1, <2>1, <2>2 DEF RowsBuilt
    <2> QED  BY <1>2, <2>3, <2>4, <2>5, LocalStepIsSafe
  <1> QED  BY <1>4, <1>5 DEF OpenFull

\* Turning back to a Day sheet that was kept is safe.
LEMMA ReopenDaySafe ==
  ASSUME NEW d \in Devices
  PROVE  SInv /\ ReopenDay(d) => SafeStep(d)
  <1> SUFFICES ASSUME SInv, ReopenDay(d)  PROVE SafeStep(d)
    OBVIOUS
  <1>1. UNCHANGED <<server, pending, screen, schedule, dubs, gets, day, loaded, dirty, hasty, emptied>>
    BY DEF ReopenDay, history
  <1>2. SoundTypes'
    <2>1. tab' \in [Devices -> {"Day", "Full"}]
      BY DEF ReopenDay, SInv, SoundTypes
    <2> QED  BY <1>1, <2>1 DEF SInv, SoundTypes
  <1> QED  BY <1>1, <1>2, QuietSafe

\* A new Day sheet is safe: it waits for its own load.
LEMMA RemountDaySafe ==
  ASSUME NEW d \in Devices
  PROVE  SInv /\ RemountDay(d) => SafeStep(d)
  <1> SUFFICES ASSUME SInv, RemountDay(d)  PROVE SafeStep(d)
    OBVIOUS
  <1> DEFINE n == day[d].mount + 1
             new == Refilled(schedule[d])
             dy == NewDay(n)
  <1>1. SoundTypes /\ day[d] \in DayState /\ schedule \in [Devices -> SoundDocs]
        /\ day \in [Devices -> DayState]
    BY DEF SInv, SoundTypes
  <1>2. n \in Loads
    <2>1. day[d].mount \in 0..MaxMounts /\ day[d].mount < MaxMounts
      BY <1>1 DEF RemountDay, DayState, Loads
    <2> QED  BY <2>1, SessionAssumption DEF Loads
  <1>3. new \in SoundDocs
    BY <1>1, RefilledIsSound, Markers
  <1>4. schedule' = [schedule EXCEPT ![d] = new] /\ day' = [day EXCEPT ![d] = dy]
    BY DEF RemountDay
  <1>5. gets' = [gets EXCEPT ![d] = gets[d] \cup {n}]
    BY DEF RemountDay
  <1>6. HomeUp(d) /\ UNCHANGED <<server, pending, screen, dubs, loaded, dirty, hasty, emptied>>
    BY DEF RemountDay, history
  <1>7. tab' \in [Devices -> {"Day", "Full"}]
    BY <1>1 DEF RemountDay, SoundTypes
  <1> HIDE DEF n, new
  <1>8. dy \in DayState /\ dy.alive /\ dy.isLoading
    BY <1>2, NewDayTyped
  <1> HIDE DEF dy
  <1>9. Rebuilt(d)
    BY <1>1, <1>3, <1>4, <1>6, <1>8, RewrittenIsRebuilt
  <1>10. SoundTypes'
    <2>1. gets' \in [Devices -> SUBSET Loads]
      BY <1>1, <1>2, <1>5 DEF SoundTypes
    <2> QED  BY <1>1, <1>6, <1>7, <1>9, <2>1 DEF SoundTypes, Rebuilt
  <1>11. ~RowsBuilt(d)'
    BY <1>1, <1>4, <1>8 DEF RowsBuilt
  <1> QED  BY <1>6, <1>9, <1>10, <1>11, LocalStepIsSafe

-----------------------------------------------------------------------------
\* Every step of every device keeps the invariant,
LEMMA StepKeepsInv == SInv /\ [Next]_vars => SInv'
  <1> SUFFICES ASSUME SInv, [Next]_vars  PROVE SInv'
    OBVIOUS
  <1>1. CASE UNCHANGED vars
    BY <1>1
    DEF vars, appVars, history, SInv, SoundTypes, RowsAreSafe, RowsBuilt, LocalView,
        SignedOutIsEmpty
  <1>2. CASE Next
    <2>1. \E d \in Devices : SafeStep(d)
      BY <1>2, RestartSafe, CloseSafe, LogoutSafe, SignedOutSafe, GetFoundSafe, GetAbsentSafe,
         GetFailsSafe, AckSafe, DayTextSafe, DayDoubleSafe, SaveDaySafe, FullTextSafe,
         SaveFullSafe, OpenFullSafe, ReopenDaySafe, RemountDaySafe
      DEF Next
    <2> QED  BY <2>1, SafeStepKeepsInv
  <1> QED  BY <1>1, <1>2

\* and so it always holds.
LEMMA InvAlways == Spec => []SInv
  BY InitSafe, StepKeepsInv, PTL DEF Spec

\* Every variable keeps its type, for any number of devices.
THEOREM SessionTypes == Spec => []TypeOK
  <1>1. SInv => TypeOK
    <2> SUFFICES ASSUME SInv  PROVE TypeOK
      OBVIOUS
    <2>1. /\ server \in Docs \cup {Absent} /\ schedule \in [Devices -> Docs]
      BY Markers DEF SInv, SoundTypes
    <2>2. pending \in [Devices -> Seq([doc: Docs, load: Loads \cup {NoLoad}])]
      <3>1. \A w \in Write : w \in [doc: Docs, load: Loads \cup {NoLoad}]
        BY Markers DEF Write
      <3>2. Seq(Write) \subseteq Seq([doc: Docs, load: Loads \cup {NoLoad}])
        <4> DEFINE W == [doc: Docs, load: Loads \cup {NoLoad}]
        <4>1. Write \subseteq W
          BY <3>1
        <4> HIDE DEF W
        <4>2. Seq(Write) \subseteq Seq(W)
          BY <4>1, SeqMonotonic
        <4> QED  BY <4>2 DEF W
      <3> QED  BY <3>2 DEF SInv, SoundTypes
    <2> QED  BY <2>1, <2>2 DEF SInv, SoundTypes, TypeOK
  <1> QED  BY <1>1, InvAlways, PTL

\* The stored document, every write in flight and every copy in memory stay
\* sound, whatever the interleaving of loads, saves, restarts and devices.
THEOREM DocumentsStaySound == Spec => []SoundDocuments
  <1>1. \A doc \in SoundDocs : doc \in Schedule => SoundSchedule(doc)
    BY SessionAssumption DEF SoundDocs, SoundSchedules
  <1>2. SInv => SoundDocuments
    <2> SUFFICES ASSUME SInv  PROVE SoundDocuments
      OBVIOUS
    <2>1. server \in Schedule => SoundSchedule(server)
      BY <1>1, SessionAssumption DEF SInv, SoundTypes
    <2>2. ASSUME NEW d \in Devices
          PROVE  schedule[d] \in Schedule => SoundSchedule(schedule[d])
      BY <1>1 DEF SInv, SoundTypes
    <2>3. ASSUME NEW d \in Devices, NEW i \in DOMAIN pending[d]
          PROVE  pending[d][i].doc \in Schedule => SoundSchedule(pending[d][i].doc)
      <3>1. pending[d] \in Seq(Write)
        BY DEF SInv, SoundTypes
      <3>2. pending[d][i] \in Write
        BY <3>1, ElementOfSeq, LenProperties
      <3> QED  BY <1>1, <3>2 DEF Write
    <2> QED  BY <2>1, <2>2, <2>3 DEF SoundDocuments
  <1> QED  BY <1>2, InvAlways, PTL

\* Rows on screen always have a Period behind them: the get that would empty the
\* schedule under them can no longer miss the document.
THEOREM RowsAlwaysHavePeriods == Spec => []RowsHavePeriods
  <1>1. SInv => RowsHavePeriods
    BY Markers DEF SInv, RowsAreSafe, RowsHavePeriods
  <1> QED  BY <1>1, InvAlways, PTL
=============================================================================
