--------------------------- MODULE OneDeviceProofs ---------------------------
(***************************************************************************)
(* What CalendarSession guarantees to a user with one device, for all      *)
(* tables of bands, all texts and all bounds: a clean schedule in memory   *)
(* is the stored one, the blank template replaces nothing, and classes are *)
(* lost only through a hasty save or an edit that erases them.             *)
(*                                                                         *)
(* The document on the server and the writes in flight are read as one     *)
(* chain of documents, of which a get returns the last.  The invariant     *)
(* relates each document of the chain to the one before it, and the        *)
(* schedule in memory to the last.                                         *)
(***************************************************************************)
EXTENDS CalendarSessionProofs

OneDevice == \A d, e \in Devices : d = e

\* The document that write i of device d replaces.
Before(d, i) == IF i = 1 THEN server ELSE pending[d][i - 1].doc

Excused == hasty \/ emptied

OverNothing(prev, doc) == doc = NoPeriods => prev \in {Absent, NoPeriods}

KeepsClasses(prev, doc) == HasClasses(prev) => HasClasses(doc)

\* addAllPeriod fills an empty list of periods, and does nothing else.
SameOrFilled(new, old) == new = old \/ (old = NoPeriods /\ new = BlankSchedule)

Chained(d) ==
    \A i \in 1..Len(pending[d]) :
        /\ OverNothing(Before(d, i), pending[d][i].doc)
        /\ Excused \/ KeepsClasses(Before(d, i), pending[d][i].doc)

\* The schedule sch of a Person, and the document a get would return.
Remembers(sch, view, ld, dt, excused) ==
    /\ OverNothing(view, sch)
    /\ ld => excused \/ KeepsClasses(view, sch)
    /\ ld /\ ~dt => SameOrFilled(sch, view)

InMemory(d) ==
    HomeUp(d) => Remembers(schedule[d], LocalView(d), loaded[d], dirty[d], Excused)

OneInv == SInv /\ \A d \in Devices : Chained(d) /\ InMemory(d)

-----------------------------------------------------------------------------
(* Facts about documents, whatever the state.                              *)

\* An empty list of periods holds no classes, and neither does no document.
LEMMA MarkersHaveNoClasses == ~HasClasses(NoPeriods) /\ ~HasClasses(Absent)
  BY SessionAssumption DEF HasClasses

\* addAllPeriod brings a schedule no further from the document.
LEMMA FillingRemembers ==
  ASSUME NEW sch, NEW new, NEW view, NEW ld \in BOOLEAN, NEW dt \in BOOLEAN, NEW ex \in BOOLEAN,
         Remembers(sch, view, ld, dt, ex), SameOrFilled(new, sch)
  PROVE  Remembers(new, view, ld, dt, ex)
  <1>1. BlankSchedule # NoPeriods
    BY Markers
  <1>2. CASE new = sch
    BY <1>2
  <1>3. CASE new # sch
    <2>1. sch = NoPeriods /\ new = BlankSchedule /\ view \in {Absent, NoPeriods}
      BY <1>3 DEF SameOrFilled, Remembers, OverNothing
    <2>2. ~HasClasses(view)
      BY <2>1, MarkersHaveNoClasses
    <2>3. SameOrFilled(sch, view) => SameOrFilled(new, view)
      BY <1>1, <2>1 DEF SameOrFilled
    <2> QED  BY <1>1, <2>1, <2>2, <2>3 DEF Remembers, OverNothing, KeepsClasses
  <1> QED  BY <1>2, <1>3

\* A schedule that is the document, or its refill, has all that is in it.
LEMMA TheDocumentRemembers ==
  ASSUME NEW new, NEW view, NEW ld \in BOOLEAN, NEW dt \in BOOLEAN, NEW ex \in BOOLEAN,
         SameOrFilled(new, view)
  PROVE  Remembers(new, view, ld, dt, ex)
  <1>1. BlankSchedule # NoPeriods
    BY Markers
  <1>2. CASE new = view
    BY <1>2 DEF Remembers, OverNothing, KeepsClasses, SameOrFilled
  <1>3. CASE new # view
    <2>1. view = NoPeriods /\ new = BlankSchedule
      BY <1>3 DEF SameOrFilled
    <2> QED
      BY <1>1, <2>1, MarkersHaveNoClasses DEF Remembers, OverNothing, KeepsClasses, SameOrFilled
  <1> QED  BY <1>2, <1>3

\* Home's rebuild and the then callbacks only ever fill the schedule they are given.
LEMMA LoadThenFills ==
  ASSUME NEW d \in Devices, NEW sch, schedule \in [Devices -> SoundDocs]
  PROVE  /\ HomeRebuilt(d, sch) => SameOrFilled(schedule'[d], sch)
         /\ \A l, replaced : LoadThen(d, l, sch, replaced) => SameOrFilled(schedule'[d], sch)
  <1>1. SameOrFilled(sch, sch) /\ SameOrFilled(Refilled(sch), sch)
    BY DEF SameOrFilled, Refilled
  <1>2. HomeRebuilt(d, sch) => SameOrFilled(schedule'[d], sch)
    BY <1>1 DEF HomeRebuilt
  <1>3. \A l, replaced : DayThen(d, l, sch, replaced) => SameOrFilled(schedule'[d], sch)
    BY <1>1 DEF DayThen
  <1> QED  BY <1>2, <1>3 DEF LoadThen

-----------------------------------------------------------------------------
(* The chain of documents.                                                 *)

\* A queue of writes has the length its documents say.
LEMMA QueueTyped ==
  ASSUME NEW d \in Devices, SoundTypes
  PROVE  /\ pending[d] \in Seq(Write) /\ Len(pending[d]) \in Nat
         /\ \A i \in 1..Len(pending[d]) : pending[d][i] \in Write
  <1>1. pending[d] \in Seq(Write)
    BY DEF SoundTypes
  <1> QED  BY <1>1, LenProperties, ElementOfSeq

\* A get returns the last document of the chain.
LEMMA ViewIsLast ==
  ASSUME NEW d \in Devices, SoundTypes
  PROVE  LocalView(d) = Before(d, Len(pending[d]) + 1)
  <1>1. pending[d] \in Seq(Write) /\ Len(pending[d]) \in Nat
    BY QueueTyped
  <1>2. CASE pending[d] = <<>>
    BY <1>2 DEF LocalView, Before
  <1>3. CASE pending[d] # <<>>
    <2>1. Len(pending[d]) # 0
      BY <1>1, <1>3, EmptySeq
    <2> QED  BY <1>1, <1>3, <2>1 DEF LocalView, Before
  <1> QED  BY <1>2, <1>3

\* A write that follows the last document of the chain extends it.
LEMMA WriteChained ==
  ASSUME NEW d \in Devices, NEW doc \in SoundDocs, NEW load \in Loads \cup {NoLoad},
         SoundTypes, Chained(d), Enqueue(d, doc, load), server' = server,
         Excused => Excused',
         OverNothing(LocalView(d), doc), Excused' \/ KeepsClasses(LocalView(d), doc)
  PROVE  Chained(d)'
  <1> DEFINE w == [doc |-> doc, load |-> load]
             n == Len(pending[d])
  <1>1. /\ pending[d] \in Seq(Write) /\ n \in Nat
        /\ w \in Write /\ w.doc = doc
    BY QueueTyped DEF Write
  <1>2. pending'[d] = Append(pending[d], w)
    BY DEF Enqueue, SoundTypes
  <1> HIDE DEF w
  <1>3. /\ Len(pending'[d]) = n + 1 /\ pending'[d][n + 1] = w
        /\ \A i \in 1..n : pending'[d][i] = pending[d][i]
    BY <1>1, <1>2, AppendProperties
  <1>4. \A i \in 1..(n + 1) : Before(d, i)' = Before(d, i)
    BY <1>1, <1>3 DEF Before
  <1>5. LocalView(d) = Before(d, n + 1)
    BY ViewIsLast
  <1> SUFFICES ASSUME NEW i \in 1..(n + 1)
               PROVE  /\ OverNothing(Before(d, i), pending'[d][i].doc)
                      /\ Excused' \/ KeepsClasses(Before(d, i), pending'[d][i].doc)
    BY <1>3, <1>4 DEF Chained
  <1>6. CASE i = n + 1
    BY <1>1, <1>3, <1>5, <1>6
  <1>7. CASE i # n + 1
    <2>1. i \in 1..n
      BY <1>1, <1>7
    <2> QED  BY <1>3, <2>1 DEF Chained
  <1> QED  BY <1>6, <1>7

\* The chain stays one when no document changes.
LEMMA SameChain ==
  ASSUME NEW d \in Devices, SoundTypes, Chained(d), server' = server, Excused => Excused',
         \/ pending'[d] = pending[d]
         \/ pending'[d] = <<>>
         \/ pending'[d] = Orphaned(pending[d])
  PROVE  Chained(d)'
  <1>1. /\ pending[d] \in Seq(Write) /\ Len(pending[d]) \in Nat
        /\ DOMAIN pending[d] = 1..Len(pending[d])
        /\ \A i \in 1..Len(pending[d]) : pending[d][i] \in Write
    BY QueueTyped, LenProperties
  <1>2. CASE pending'[d] = pending[d]
    BY <1>2 DEF Chained, Before
  <1>3. CASE pending'[d] = <<>>
    BY <1>3 DEF Chained
  <1>4. CASE pending'[d] = Orphaned(pending[d])
    <2>1. Orphaned(pending[d]) \in Seq(Write)
      BY <1>1, OrphanedTyped
    <2>2. DOMAIN Orphaned(pending[d]) = 1..Len(pending[d])
      BY <1>1 DEF Orphaned
    <2>3. Len(pending'[d]) = Len(pending[d])
      BY <1>1, <1>4, <2>1, <2>2, LenProperties
    <2>4. \A i \in 1..Len(pending[d]) : pending'[d][i].doc = pending[d][i].doc
      BY <1>1, <1>4 DEF Orphaned, Write
    <2>5. \A i \in 1..Len(pending[d]) : Before(d, i)' = Before(d, i)
      BY <1>1, <2>4 DEF Before
    <2> QED  BY <2>3, <2>4, <2>5 DEF Chained
  <1> QED  BY <1>2, <1>3, <1>4

\* An acknowledged write leaves the queue, and the chain does not change.
LEMMA AckChained ==
  ASSUME NEW d \in Devices, SoundTypes, Chained(d), pending[d] # <<>>,
         server' = Head(pending[d]).doc, pending'[d] = Tail(pending[d]), Excused => Excused'
  PROVE  Chained(d)' /\ LocalView(d)' = LocalView(d)
  <1> DEFINE n == Len(pending[d])
  <1>1. pending[d] \in Seq(Write) /\ n \in Nat /\ n # 0
    BY QueueTyped, EmptySeq
  <1>2. /\ Tail(pending[d]) \in Seq(Write) /\ Len(Tail(pending[d])) = n - 1
        /\ \A i \in 1..(n - 1) : Tail(pending[d])[i] = pending[d][i + 1]
        /\ Head(pending[d]) = pending[d][1]
    BY <1>1, HeadTailProperties
  <1>3. ASSUME NEW i \in 1..n  PROVE Before(d, i)' = Before(d, i + 1)
    <2>1. Before(d, i + 1) = pending[d][i].doc
      BY <1>1 DEF Before
    <2>2. CASE i = 1
      BY <1>2, <2>1, <2>2 DEF Before
    <2>3. CASE i # 1
      <3>1. i - 1 \in 1..(n - 1) /\ (i - 1) + 1 = i
        BY <1>1, <2>3
      <3>2. Tail(pending[d])[i - 1] = pending[d][i]
        BY <1>2, <3>1
      <3> QED  BY <2>1, <2>3, <3>2 DEF Before
    <2> QED  BY <2>2, <2>3
  <1>4. Chained(d)'
    BY <1>1, <1>2, <1>3 DEF Chained
  <1>5. LocalView(d)' = LocalView(d)
    <2>1. CASE n = 1
      BY <1>1, <1>2, <2>1, EmptySeq DEF LocalView
    <2>2. CASE n # 1
      <3>1. n - 1 \in 1..(n - 1) /\ (n - 1) + 1 = n /\ n - 1 # 0
        <4> HIDE DEF n
        <4> QED  BY <1>1, <2>2
      <3>2. Len(Tail(pending[d])) # 0 /\ Len(<<>>) = 0
        BY <1>2, <3>1
      <3>3. Tail(pending[d]) # <<>>
        BY <3>2
      <3>4. Tail(pending[d])[n - 1] = pending[d][n]
        BY <1>2, <3>1
      <3> QED  BY <1>1, <1>2, <3>3, <3>4 DEF LocalView
    <2> QED  BY <2>1, <2>2
  <1> QED  BY <1>4, <1>5

-----------------------------------------------------------------------------
(* One lemma per kind of step.                                             *)

Linked(d) == Chained(d) /\ InMemory(d)

\* The history only grows.
LEMMA HistoryGrows ==
  ASSUME NEW d \in Devices
  PROVE  /\ UNCHANGED <<hasty, emptied>> => Excused' = Excused
         /\ UNCHANGED history => Excused' = Excused
         /\ (hasty => hasty') /\ emptied' = emptied => (Excused => Excused')
         /\ NoteEmptied(d) /\ (hasty => hasty') => (Excused => Excused')
  <1>1. UNCHANGED <<hasty, emptied>> => Excused' = Excused
    BY DEF Excused
  <1>2. UNCHANGED history => Excused' = Excused
    BY <1>1 DEF history
  <1>3. (hasty => hasty') /\ emptied' = emptied => (Excused => Excused')
    BY DEF Excused
  <1>4. NoteEmptied(d) => (emptied => emptied')
    BY DEF NoteEmptied
  <1>5. NoteEmptied(d) /\ (hasty => hasty') => (Excused => Excused')
    BY <1>4 DEF Excused
  <1> QED  BY <1>1, <1>2, <1>3, <1>5

\* A device whose Home is not up, or whose Person is new, remembers nothing yet.
LEMMA NewPersonLinked ==
  ASSUME NEW d \in Devices, SInv, Linked(d), SignIn(d) \/ Restart(d)
  PROVE  Linked(d)'
  <1>1. SoundTypes /\ pending \in [Devices -> Seq(Write)]
    BY DEF SInv, SoundTypes
  <1>2. OpenHome(d) /\ server' = server
    BY DEF SignIn, Restart, OpenHome
  <1>3. \/ pending'[d] = pending[d]
        \/ pending'[d] = <<>>
        \/ pending'[d] = Orphaned(pending[d])
    BY <1>1 DEF SignIn, Restart
  <1>4. Chained(d)'
    BY <1>1, <1>2, <1>3, SameChain, HistoryGrows DEF OpenHome, Linked
  <1>5. schedule'[d] = BlankSchedule /\ loaded'[d] = FALSE
    BY <1>1, <1>2 DEF OpenHome, SoundTypes
  <1>6. InMemory(d)'
    BY <1>5, Markers DEF InMemory, Remembers, OverNothing
  <1> QED  BY <1>4, <1>6 DEF Linked

\* Signed out, there is no Person.
LEMMA SignedOutLinked ==
  ASSUME NEW d \in Devices, SInv, Linked(d), Close(d) \/ SignedOut(d)
  PROVE  Linked(d)'
  <1>1. SoundTypes /\ pending \in [Devices -> Seq(Write)] /\ server' = server
    BY DEF SInv, SoundTypes, Close, SignedOut
  <1>2. pending'[d] = <<>> \/ pending'[d] = Orphaned(pending[d])
    BY <1>1 DEF Close, SignedOut
  <1>3. Excused' = Excused
    BY HistoryGrows DEF Close, SignedOut
  <1>4. Chained(d)'
    BY <1>1, <1>2, <1>3, SameChain DEF Linked
  <1>5. ~HomeUp(d)'
    BY <1>1 DEF Close, SignedOut, HomeUp, SoundTypes
  <1> QED  BY <1>4, <1>5 DEF Linked, InMemory

\* A step that leaves documents and writes alone is decided by the schedule.
LEMMA MemoryStepLinked ==
  ASSUME NEW d \in Devices, SInv, Linked(d),
         server' = server, pending'[d] = pending[d], Excused => Excused',
         HomeUp(d)' => Remembers(schedule'[d], LocalView(d), loaded'[d], dirty'[d], Excused')
  PROVE  Linked(d)'
  <1>1. LocalView(d)' = LocalView(d)
    BY SameView
  <1>2. Chained(d)'
    BY SameChain DEF Linked, SInv
  <1> QED  BY <1>1, <1>2 DEF Linked, InMemory

\* A load that finds the document takes it into memory.
LEMMA GetFoundLinked ==
  ASSUME NEW d \in Devices, NEW l \in Loads, SInv, Linked(d), GetFound(d, l)
  PROVE  Linked(d)'
  <1>1. SoundTypes'
    BY GetFoundSafe DEF SafeStep
  <1>2. SameOrFilled(schedule'[d], LocalView(d))
    BY LoadThenFills DEF GetFound, SInv, SoundTypes
  <1>3. loaded'[d] \in BOOLEAN /\ dirty'[d] \in BOOLEAN /\ Excused' \in BOOLEAN
    BY <1>1 DEF SoundTypes, Excused
  <1>4. Remembers(schedule'[d], LocalView(d), loaded'[d], dirty'[d], Excused')
    BY <1>2, <1>3, TheDocumentRemembers
  <1> QED  BY <1>4, MemoryStepLinked, HistoryGrows DEF GetFound

\* A load that finds none writes the template over nothing.
LEMMA GetAbsentLinked ==
  ASSUME NEW d \in Devices, NEW l \in Loads, SInv, Linked(d), GetAbsent(d, l)
  PROVE  Linked(d)'
  <1>1. SoundTypes /\ SoundTypes' /\ NoPeriods \in SoundDocs
    BY Markers, GetAbsentSafe DEF SInv, SafeStep
  <1>2. Enqueue(d, NoPeriods, l) /\ server' = server /\ Excused' = Excused
    BY HistoryGrows DEF GetAbsent
  <1>3. OverNothing(LocalView(d), NoPeriods) /\ KeepsClasses(LocalView(d), NoPeriods)
    BY MarkersHaveNoClasses DEF GetAbsent, OverNothing, KeepsClasses
  <1>4. Chained(d)'
    BY <1>1, <1>2, <1>3, WriteChained DEF Linked
  <1>5. LocalView(d)' = NoPeriods /\ schedule'[d] = NoPeriods
    BY <1>1, <1>2, EnqueueStep DEF GetAbsent, SoundTypes
  <1>6. loaded'[d] \in BOOLEAN /\ dirty'[d] \in BOOLEAN /\ Excused' \in BOOLEAN
    BY <1>1 DEF SoundTypes, Excused
  <1>7. SameOrFilled(schedule'[d], LocalView(d)')
    BY <1>5 DEF SameOrFilled
  <1>8. Remembers(schedule'[d], LocalView(d)', loaded'[d], dirty'[d], Excused')
    BY <1>6, <1>7, TheDocumentRemembers
  <1> QED  BY <1>4, <1>8 DEF Linked, InMemory

\* An acknowledgement, and the continuation of the load that waited for it, only
\* fill the schedule.
LEMMA AckLinked ==
  ASSUME NEW d \in Devices, SInv, Linked(d), Ack(d)
  PROVE  Linked(d)'
  <1>1. SoundTypes /\ schedule \in [Devices -> SoundDocs] /\ pending \in [Devices -> Seq(Write)]
    BY DEF SInv, SoundTypes
  <1>2. /\ server' = Head(pending[d]).doc /\ pending'[d] = Tail(pending[d])
        /\ pending[d] # <<>> /\ HomeUp(d) /\ UNCHANGED <<loaded, dirty>> /\ Excused' = Excused
    BY <1>1, HistoryGrows DEF Ack, history
  <1>3. Chained(d)' /\ LocalView(d)' = LocalView(d)
    BY <1>1, <1>2, AckChained DEF Linked
  <1>4. SameOrFilled(schedule'[d], schedule[d])
    BY <1>1, LoadThenFills DEF Ack, SameOrFilled
  <1>5. Remembers(schedule[d], LocalView(d), loaded[d], dirty[d], Excused)
    BY <1>2 DEF Linked, InMemory
  <1>6. Remembers(schedule'[d], LocalView(d), loaded[d], dirty[d], Excused)
    <2>1. loaded[d] \in BOOLEAN /\ dirty[d] \in BOOLEAN /\ Excused \in BOOLEAN
      BY <1>1 DEF SoundTypes, Excused
    <2> QED  BY <1>4, <1>5, <2>1, FillingRemembers
  <1> QED  BY <1>2, <1>3, <1>6 DEF Linked, InMemory

\* A save sends a schedule that remembers the document, or is hasty.
LEMMA SendLinked ==
  ASSUME NEW d \in Devices, NEW doc \in SoundDocs, SInv, SoundTypes', Linked(d), HomeUp(d),
         Send(d, doc), server' = server, Excused => Excused',
         OverNothing(LocalView(d), doc),
         loaded[d] => Excused' \/ KeepsClasses(LocalView(d), doc),
         SameOrFilled(schedule'[d], doc)
  PROVE  Linked(d)'
  <1>1. SoundTypes /\ Enqueue(d, doc, NoLoad)
    BY DEF SInv, Send
  <1>2. Excused' \/ KeepsClasses(LocalView(d), doc)
    BY DEF Send, Excused
  <1>3. Chained(d)'
    BY <1>1, <1>2, WriteChained DEF Linked
  <1>4. LocalView(d)' = doc
    BY <1>1, EnqueueStep
  <1>5. loaded'[d] \in BOOLEAN /\ dirty'[d] \in BOOLEAN /\ Excused' \in BOOLEAN
    BY DEF SoundTypes, Excused
  <1>6. Remembers(schedule'[d], LocalView(d)', loaded'[d], dirty'[d], Excused')
    BY <1>4, <1>5, TheDocumentRemembers
  <1> QED  BY <1>3, <1>6 DEF Linked, InMemory

\* What is known of the schedule in memory while Home is up.
LEMMA MemoryFacts ==
  ASSUME NEW d \in Devices, SInv, Linked(d), HomeUp(d)
  PROVE  /\ schedule[d] \in SoundDocs
         /\ loaded[d] \in BOOLEAN /\ dirty[d] \in BOOLEAN /\ Excused \in BOOLEAN
         /\ Remembers(schedule[d], LocalView(d), loaded[d], dirty[d], Excused)
         /\ OverNothing(LocalView(d), schedule[d])
         /\ loaded[d] => Excused \/ KeepsClasses(LocalView(d), schedule[d])
  BY DEF SInv, SoundTypes, Excused, Linked, InMemory, Remembers

\* Logout and the Full sheet's Save send what is in memory.
LEMMA SendMemoryLinked ==
  ASSUME NEW d \in Devices, SInv, Linked(d), Logout(d) \/ SaveFull(d)
  PROVE  Linked(d)'
  <1>1. SoundTypes'
    BY LogoutSafe, SaveFullSafe DEF SafeStep
  <1>2. HomeUp(d) /\ Send(d, schedule[d]) /\ server' = server /\ emptied' = emptied
    BY DEF Logout, SaveFull
  <1>3. Excused => Excused'
    BY <1>2, HistoryGrows DEF Send
  <1>4. SameOrFilled(schedule'[d], schedule[d])
    BY LoadThenFills DEF Logout, SaveFull, appVars, SameOrFilled, SInv, SoundTypes
  <1>5. loaded[d] => Excused' \/ KeepsClasses(LocalView(d), schedule[d])
    BY <1>2, <1>3, MemoryFacts
  <1> QED  BY <1>1, <1>2, <1>3, <1>4, <1>5, MemoryFacts, SendLinked

\* An edit or an expansion that is noted when it erases the last class.
LEMMA EditedKeeps ==
  ASSUME NEW d \in Devices, NoteEmptied(d), hasty => hasty',
         loaded[d] => Excused \/ KeepsClasses(LocalView(d), schedule[d])
  PROVE  loaded[d] => Excused' \/ KeepsClasses(LocalView(d), schedule'[d])
  BY HistoryGrows DEF NoteEmptied, KeepsClasses, Excused

\* The Day sheet's Save sends the schedule with its bands expanded.
LEMMA SaveDayLinked ==
  ASSUME NEW d \in Devices, SInv, Linked(d), SaveDay(d)
  PROVE  Linked(d)'
  <1>1. SoundTypes'
    BY SaveDaySafe DEF SafeStep
  <1>2. HomeUp(d) /\ Send(d, schedule'[d]) /\ server' = server /\ NoteEmptied(d)
    BY DEF SaveDay
  <1>3. schedule'[d] \in SoundDocs /\ schedule'[d] # NoPeriods
    <2>1. schedule[d] \in SoundSchedules
      BY DEF SaveDay, SInv, RowsAreSafe
    <2>2. schedule'[d] = DaySave(schedule[d], dubs[d], day[d].rowEdited)
      BY DEF SaveDay, SInv, SoundTypes
    <2> QED  BY <2>1, <2>2, DaySaveSound, Markers DEF SInv, SoundTypes, DayState
  <1>4. (hasty => hasty') /\ (Excused => Excused')
    BY <1>2, HistoryGrows DEF Send
  <1>5. loaded[d] => Excused' \/ KeepsClasses(LocalView(d), schedule'[d])
    BY <1>2, <1>4, MemoryFacts, EditedKeeps
  <1>6. OverNothing(LocalView(d), schedule'[d]) /\ SameOrFilled(schedule'[d], schedule'[d])
    BY <1>3 DEF OverNothing, SameOrFilled
  <1> HIDE DEF Linked
  <1> QED  BY <1>1, <1>2, <1>3, <1>4, <1>5, <1>6, SendLinked

\* An edited schedule is dirty, and has periods.
LEMMA EditLinked ==
  ASSUME NEW d \in Devices, SInv, Linked(d), HomeUp(d),
         UNCHANGED <<server, pending, loaded, hasty>>, NoteEmptied(d),
         \/ schedule' = schedule /\ dirty' = dirty
         \/ schedule'[d] # NoPeriods /\ dirty'[d] = TRUE
  PROVE  Linked(d)'
  <1>1. Excused => Excused'
    BY HistoryGrows
  <1>2. loaded[d] => Excused' \/ KeepsClasses(LocalView(d), schedule'[d])
    BY MemoryFacts, EditedKeeps
  <1>3. Remembers(schedule'[d], LocalView(d), loaded'[d], dirty'[d], Excused')
    <2>1. CASE schedule' = schedule /\ dirty' = dirty
      BY <1>2, <2>1, MemoryFacts DEF Remembers
    <2>2. CASE schedule'[d] # NoPeriods /\ dirty'[d] = TRUE
      BY <1>2, <2>2 DEF Remembers, OverNothing
    <2> QED  BY <2>1, <2>2
  <1> QED  BY <1>1, <1>3, MemoryStepLinked

\* A keystroke on the Day sheet: a row that has lost its Period changes nothing.
LEMMA DayTextLinked ==
  ASSUME NEW d \in Devices, NEW b \in Bands, NEW t \in TypedTexts, SInv, Linked(d),
         DayText(d, b, t)
  PROVE  Linked(d)'
  <1>1. HomeUp(d) /\ UNCHANGED <<server, pending, loaded, hasty>> /\ NoteEmptied(d)
    BY DEF DayText
  <1>2. CASE ~day[d].bound
    BY <1>1, <1>2, EditLinked DEF DayText
  <1>3. CASE day[d].bound
    <2>1. schedule[d] \in SoundSchedules /\ t \in Texts
      BY SessionAssumption DEF DayText, SInv, RowsAreSafe
    <2>2. schedule'[d] = [schedule[d] EXCEPT ![b] = DayEdited(@, "className", t)]
      BY <1>3 DEF DayText, SInv, SoundTypes
    <2>3. schedule'[d] # NoPeriods
      BY <2>1, <2>2, DayEditedSound, Markers
    <2>4. dirty'[d] = TRUE
      BY <1>3 DEF DayText, SInv, SoundTypes
    <2> QED  BY <1>1, <2>3, <2>4, EditLinked
  <1> QED  BY <1>2, <1>3

\* A keystroke on the Full sheet.
LEMMA FullTextLinked ==
  ASSUME NEW d \in Devices, NEW s \in Slots, NEW t \in TypedTexts, SInv, Linked(d),
         FullText(d, s, t)
  PROVE  Linked(d)'
  <1>1. HomeUp(d) /\ UNCHANGED <<server, pending, loaded, hasty>> /\ NoteEmptied(d)
    BY DEF FullText
  <1>2. schedule[d] \in SoundSchedules /\ t \in Texts /\ s \in FullSheetSlots
    BY SessionAssumption DEF FullText, SInv, SoundTypes, SoundDocs
  <1>3. schedule'[d] = [schedule[d] EXCEPT ![s] = FullEdited(@, "className", t)]
    BY DEF FullText, SInv, SoundTypes
  <1>4. schedule'[d] # NoPeriods
    BY <1>2, <1>3, FullEditedSound, Markers
  <1>5. dirty'[d] = TRUE
    BY DEF FullText, SInv, SoundTypes
  <1> QED  BY <1>1, <1>4, <1>5, EditLinked

\* Tab changes, Double? boxes and failing gets leave the schedule as it was, or
\* fill it.
LEMMA QuietLinked ==
  ASSUME NEW d \in Devices, SInv, Linked(d), HomeUp(d) \/ ~HomeUp(d)',
         UNCHANGED <<server, pending, screen, history>>, SameOrFilled(schedule'[d], schedule[d])
  PROVE  Linked(d)'
  <1>1. Excused' = Excused /\ loaded' = loaded /\ dirty' = dirty
    BY HistoryGrows DEF history
  <1>2. HomeUp(d) => Remembers(schedule'[d], LocalView(d), loaded[d], dirty[d], Excused)
    BY MemoryFacts, FillingRemembers
  <1> QED  BY <1>1, <1>2, MemoryStepLinked DEF HomeUp

\* ... which all of them do.
LEMMA QuietStepsLinked ==
  ASSUME NEW d \in Devices, SInv, Linked(d),
         \/ \E l \in Loads : GetFails(d, l)
         \/ \E b \in Bands : DayDouble(d, b)
         \/ OpenFull(d) \/ ReopenDay(d) \/ RemountDay(d)
  PROVE  Linked(d)'
  <1>1. UNCHANGED <<server, pending, screen, history>>
    BY DEF GetFails, DayDouble, OpenFull, ReopenDay, RemountDay
  <1>2. SameOrFilled(schedule'[d], schedule[d])
    BY DEF GetFails, DayDouble, OpenFull, ReopenDay, RemountDay, SameOrFilled, Refilled, SInv,
           SoundTypes
  <1>3. HomeUp(d) \/ ~HomeUp(d)'
    BY <1>1 DEF HomeUp
  <1> QED  BY <1>1, <1>2, <1>3, QuietLinked

-----------------------------------------------------------------------------
\* The invariant holds at the start.
LEMMA OneInvInit == Init => OneInv
  <1> SUFFICES ASSUME Init, NEW d \in Devices  PROVE Chained(d) /\ InMemory(d)
    BY InitSafe DEF OneInv
  <1>1. pending[d] = <<>> /\ screen[d] = "SignIn"
    BY DEF Init
  <1> QED  BY <1>1 DEF Chained, InMemory, HomeUp

\* Every step of the one device keeps it.
LEMMA OneInvStep == OneDevice /\ OneInv /\ [Next]_vars => OneInv'
  <1> SUFFICES ASSUME OneDevice, OneInv, [Next]_vars
               PROVE  \A d \in Devices : Linked(d)'
    BY StepKeepsInv DEF OneInv, Linked
  <1>1. SInv /\ \A d \in Devices : Linked(d)
    BY DEF OneInv, Linked
  <1>2. CASE UNCHANGED vars
    <2> SUFFICES ASSUME NEW d \in Devices  PROVE Linked(d)'
      OBVIOUS
    <2>1. UNCHANGED <<server, pending, screen, history>> /\ SameOrFilled(schedule'[d], schedule[d])
      BY <1>2 DEF vars, appVars, SameOrFilled
    <2>2. HomeUp(d) \/ ~HomeUp(d)'
      BY <2>1 DEF HomeUp
    <2> QED  BY <1>1, <2>1, <2>2, QuietLinked
  <1>3. CASE Next
    <2>1. \E d \in Devices : Linked(d)'
      BY <1>1, <1>3, NewPersonLinked, SignedOutLinked, SendMemoryLinked, GetFoundLinked,
         GetAbsentLinked, AckLinked, DayTextLinked, SaveDayLinked, FullTextLinked,
         QuietStepsLinked
      DEF Next
    <2> QED  BY <2>1 DEF OneDevice
  <1> QED  BY <1>2, <1>3

\* and so it always holds.
LEMMA OneInvAlways == ASSUME OneDevice  PROVE Spec => []OneInv
  <1>1. Init => OneInv
    BY OneInvInit
  <1>2. OneInv /\ [Next]_vars => OneInv'
    BY OneInvStep
  <1> QED  BY <1>1, <1>2, PTL DEF Spec

-----------------------------------------------------------------------------
\* With one device, a schedule that was loaded and not edited since its last load
\* or save is the one a load would bring back, whatever answers come late.
THEOREM CleanScheduleIsStored == ASSUME OneDevice  PROVE Spec => []CleanMeansStored
  <1>1. OneInv => CleanMeansStored
    <2> SUFFICES ASSUME OneInv, NEW d \in Devices, HomeUp(d), loaded[d], ~dirty[d]
                 PROVE  \/ schedule[d] = LocalView(d)
                        \/ LocalView(d) = NoPeriods /\ schedule[d] = BlankSchedule
      BY DEF CleanMeansStored
    <2>1. Remembers(schedule[d], LocalView(d), loaded[d], dirty[d], Excused)
      BY DEF OneInv, InMemory
    <2> QED  BY <2>1 DEF Remembers, SameOrFilled
  <1> QED  BY <1>1, OneInvAlways, PTL

\* A step that changes the document on the server is an acknowledgement.
LEMMA ServerMoves ==
  ASSUME OneInv, [Next]_vars, server' # server
  PROVE  /\ UNCHANGED history
         /\ OverNothing(server, server')
         /\ Excused \/ KeepsClasses(server, server')
  <1>1. PICK d \in Devices : Ack(d)
    <2>1. Next
      BY DEF vars
    <2>2. ASSUME NEW d \in Devices
          PROVE  /\ SignIn(d) \/ Restart(d) \/ Close(d) \/ Logout(d) \/ SignedOut(d) => server' = server
                 /\ \A l \in Loads : GetFound(d, l) \/ GetAbsent(d, l) \/ GetFails(d, l) => server' = server
                 /\ \A b \in Bands, t \in TypedTexts : DayText(d, b, t) => server' = server
                 /\ \A b \in Bands : DayDouble(d, b) => server' = server
                 /\ \A s \in Slots, t \in TypedTexts : FullText(d, s, t) => server' = server
                 /\ SaveDay(d) \/ SaveFull(d) \/ OpenFull(d) \/ ReopenDay(d) \/ RemountDay(d) => server' = server
      <3>1. SignIn(d) \/ Restart(d) \/ Close(d) \/ Logout(d) \/ SignedOut(d) => server' = server
        BY DEF SignIn, Restart, OpenHome, Close, Logout, SignedOut
      <3>2. \A l \in Loads : GetFound(d, l) \/ GetAbsent(d, l) \/ GetFails(d, l) => server' = server
        BY DEF GetFound, GetAbsent, GetFails
      <3>3. \A b \in Bands, t \in TypedTexts : DayText(d, b, t) => server' = server
        BY DEF DayText
      <3>4. \A b \in Bands : DayDouble(d, b) => server' = server
        BY DEF DayDouble
      <3>5. \A s \in Slots, t \in TypedTexts : FullText(d, s, t) => server' = server
        BY DEF FullText
      <3>6. SaveDay(d) \/ SaveFull(d) \/ OpenFull(d) \/ ReopenDay(d) \/ RemountDay(d) => server' = server
        BY DEF SaveDay, SaveFull, OpenFull, ReopenDay, RemountDay
      <3> QED  BY <3>1, <3>2, <3>3, <3>4, <3>5, <3>6
    <2> QED  BY <2>1, <2>2 DEF Next
  <1>2. pending[d] # <<>> /\ server' = Head(pending[d]).doc /\ UNCHANGED history
    BY <1>1 DEF Ack
  <1>3. pending[d] \in Seq(Write) /\ Len(pending[d]) \in Nat
    BY QueueTyped DEF OneInv, SInv
  <1>4. 1 \in 1..Len(pending[d]) /\ Head(pending[d]) = pending[d][1]
    BY <1>2, <1>3, EmptySeq, HeadTailProperties
  <1> QED  BY <1>2, <1>4 DEF OneInv, Chained, Before

\* With one device the blank template only takes the place of no document or of
\* another template, however loads, saves and restarts interleave.
THEOREM TemplateReplacesNothing == ASSUME OneDevice  PROVE Spec => TemplateOverNothing
  <1>1. OneInv /\ [Next]_vars => [server' = NoPeriods => server \in {Absent, NoPeriods}]_vars
    <2> SUFFICES ASSUME OneInv, [Next]_vars, server' = NoPeriods
                 PROVE  server \in {Absent, NoPeriods}
      OBVIOUS
    <2>1. CASE server' = server
      BY <2>1
    <2>2. CASE server' # server
      BY <2>2, ServerMoves DEF OverNothing
    <2> QED  BY <2>1, <2>2
  <1> QED  BY <1>1, OneInvAlways, PTL DEF Spec, TemplateOverNothing

\* With one device stored classes are only lost through a save before the load,
\* or an edit that erases them; no load, queue, restart or tab change loses them.
THEOREM ClassesAreKept == ASSUME OneDevice  PROVE Spec => LossNeedsHastySave
  <1>1. OneInv /\ [Next]_vars
          => [HasClasses(server) /\ ~hasty' /\ ~emptied' => HasClasses(server')]_vars
    <2> SUFFICES ASSUME OneInv, [Next]_vars, HasClasses(server), ~hasty', ~emptied'
                 PROVE  HasClasses(server')
      OBVIOUS
    <2>1. CASE server' = server
      BY <2>1
    <2>2. CASE server' # server
      <3>1. ~Excused
        BY <2>2, ServerMoves DEF history, Excused
      <3> QED  BY <2>2, <3>1, ServerMoves DEF KeepsClasses
    <2> QED  BY <2>1, <2>2
  <1> QED  BY <1>1, OneInvAlways, PTL DEF Spec, LossNeedsHastySave
=============================================================================
