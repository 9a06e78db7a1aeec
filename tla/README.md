# LFA Calendar: TLA+ models and proofs

LFA Calendar is a Flutter app in which a teacher types a timetable once and
exports it as calendar files for the school year. The program's own code is
about 1700 lines of Dart under `lib/`; everything else in the repository is
platform scaffolding, vendored pods, build output and CSV data. There is no
server code: the app talks to Firebase Auth and to one Firestore document per
user, `users/<uid>`.

## Inventory

| Part | Code | State | Operations | Correct when |
|---|---|---|---|---|
| Band plan | `models/person.dart` 53-150 | `bands`, `doubles`, `dubs`, `schedule.periods` | `updateBand`, `updatePeriodsADay`, `_ensureDoubleColors`, `clearEmptyPeriods`, `_copyPeriodFields` | a course stands in its colour in all slots of its band; ids stay distinct; nothing else is touched; saving twice changes nothing |
| Period, Schedule | `models/period.dart`, `models/schedule.dart` | 56 periods | `addAllPeriod`, `toMap`, `fromFirestore` | a list in use is never short |
| Day sheet | `screens/tabs/aday.dart` | `rowEdited`, `isLoading`, the Period objects and texts of its rows | keystroke, Double? box, Save, load on creation | what it shows is what it edits and saves |
| Full sheet | `screens/tabs/full_schedule.dart` | none of its own | keystroke, Save, Enter | its entries survive; it never indexes an empty list |
| Load and save | `models/person.dart` 299-331 | `schedule` in memory, the document, writes in flight | `loadScheduleData`, `sendScheduleData` | a save never destroys what was not read first; the template is only written where nothing is |
| Home and session | `screens/home.dart`, `wrapper.dart` | the Person, the tab in front | load, Logout, tabs | as above, under every interleaving with the answers |
| Authentication | `backend/authservice.dart`, `register_login.dart`, `wrapper.dart` | the user stream, the form: its fields, variables, spinner and error | keystrokes, sign in, register, sign out, reload | what is sent is what is shown; the spinner has a reason and an end; Home works for the user of the session |
| Export | `models/person.dart` 153-290, 334-480, `export_page.dart` | `yearPeriods`, preferences | the boxes, `fillYearPeriods`, `addExtraEvents`, CSV | a press delivers every wanted event once, in the file of its colour, with the classes of one moment |
| Event tables | `assets/*.csv` | - | read by the export | data: only the number of rows matters |
| DatabaseService | `backend/database_service.dart` | - | - | dead code |

Parts interact through one mutable object: Home, the Day sheet, the Full sheet
and the Export page share a `Person` and replace or rewrite its `schedule`. The
concurrency is that of `async` Dart: a handler runs alone up to an `await`, and
other handlers run before its continuation. Home and every Day sheet start a
load of their own; every press of Download starts a run of `fillYearPeriods`
over the one list `yearPeriods`; the answer of a sign-in and the report of its
user on the stream travel separately; writes are sent and not awaited; an answer may come to a
screen that has been disposed; two devices may use the same document; the app
may end at any point. `PROJECT.json` lists the resulting hazards at their lines.

Six hazards have no property, because no text of the program promises anything
about them: ticks of Double? and flags of rows that are lost before a Save, unsaved
Full sheet entries that a new Day sheet loads over, a get that fails (`DayOpens`
speaks of gets that are answered), a write still queued when the app ends, and
two devices that save different rows. The models contain all six behaviours.

## Modules

| Module | Models |
|---|---|
| `BandPlan` | The tables as CONSTANTS with their assumptions; Period and Schedule; keystrokes; `DaySave`, the effect of the Day sheet's Save written slot by slot; what a sound schedule is |
| `Sheets` | State machine of the two sheets over one schedule, load and save atomic: long sequences of edits, saves, tab changes, new sessions and restarts |
| `SheetLoops` | The same with Save as the code runs it: loops that rewrite the list in place, iteration after iteration. Implements `Sheets!Spec` |
| `CalendarSession` | Any number of devices, the document, the queues of writes; each handler up to its `await` and each continuation as an action |
| `YearEvents` | The words of the export: boxes, rows of the CSV files, lines of the files that are handed out |
| `Downloads` | Abstract specification: what one press of Download promises. It stands for no lines of code |
| `YearExport` | Any number of overlapping runs of `fillYearPeriods` with the boxes, the sheets and the loads going on meanwhile. Implements `Downloads!Spec` |
| `SignIn` | The form, its calls, Firebase Auth, the stream of users, Wrapper, Logout and reloads |
| `BandPlanTheorems`, `SheetsProofs` | Proofs about the operators of `BandPlan` and about `Sheets` |
| `SheetLoopsProofs` | Proof that the loops compute `DaySave`, and that `SheetLoops` implements `Sheets` |
| `CalendarSessionProofs`, `OneDeviceProofs` | Proofs about `CalendarSession`: for any devices, and for a user with one |
| `YearExportProofs`, `LoneDownloadProofs` | Proofs about `YearExport`: types, the refinement of `Downloads`, the length of a walk; the press that meets no other |
| `SignInProofs` | Proofs about `SignIn` |
| `MCSheets`, `MCSheetLoops`, `MCCalendarSession`, `MCYearExport`, `MCSignIn` | Values of the constants for TLC |

`Sheets`, `SheetLoops`, `CalendarSession` and `YearExport` all extend
`BandPlan`: they look at one schedule through the same operators, without the
network, with it, and from the Export tab. To `YearExport` a load is a change of
the schedule at any moment; to `CalendarSession` a sign-in is the start of Home.
`SignIn` looks at what lies before Home, and needs no schedule.

### How state and actions correspond to the code

- A `Schedule` is a function from slots to Periods. The date and time lists and
  the description are left out: no schedule ever fills them. Fresh uuids are
  slot numbers, since only their being distinct matters.
- Class and room names are members of the set `Texts`; only "empty or not" and
  "same or not" are ever looked at.
- `DayText`, `DayDouble`, `SaveDay` are the `onChanged` and `onPressed` handlers
  of `aday.dart`; `FullText`, `SaveFull` those of `full_schedule.dart`.
- `OpenFull`/`OpenDay` (and `ReopenDay`/`RemountDay`) are tab changes.
  `TabBarView` disposes a page that is out of sight unless a focused text field
  keeps it alive, and a new Day sheet loads again.
- In `CalendarSession`, `gets` are the loads whose `get` is unanswered. A load
  that finds no document (`GetAbsent`) puts an empty schedule in memory, queues
  the template, and its `then` callback runs when that write is acknowledged
  (`Ack`). `day.bound` says whether the rows hold Period objects of the current
  schedule, `day.shown` what their text fields show.
- Firestore is external: a get returns the server's document overlaid by this
  device's queued writes; writes reach the server in order while their user is
  signed in; a restart keeps the queue or loses it.
- `loaded`, `dirty`, `hasty` and `emptied` are history variables, read by
  properties only. `emptied` says that an edit, or the expansion of the bands by a
  Save, has taken the last class of a schedule away: what the user has done, and
  no loss.
- A loop of `SheetLoops` is a recursive function (`Loop`) from the number of an
  iteration to the list it leaves; `ForEachBand` counts the bands from 0. `NumBands`
  is the number of rows, which is also that of the colours: `updateBand` paints
  slot number i of a band in colour number i. `updatePeriodsADay` takes the length
  of the first band for that of every band. Both are assumptions about the tables.
- In `YearExport` a press runs to its first await (`Press`), from its last await
  on classes.csv to its first extra file (`Fill`), and then file by file:
  `AddExtraEvents` is `addExtraEvents` after its last await, `Resume` the
  continuation in `fillYearPeriods`, which reads the boxes that are left one
  after the other and at the end calls `exportPeriodsToCSV`. The reads of several
  columns of one file look at no shared state between them and are one step.
  `FillThrows` is the index into the empty list of a new user, `ReadFails` a file
  that cannot be read; nobody catches either. `DayText`, `FullText`, `Loaded` and
  `Refill` are the rest of the app, seen from here.
- An entry of `yearPeriods` carries its rows as pairs of an origin (slot or
  file) and a row number: dates, times and descriptions are never compared. A
  name is a text with or without the heading of its slot. A download is its
  files and the line at each position.
- `settled`, `alone` and `taken` are history: the press that met no other press
  (nor a change of a box), and the schedule a run took its classes from.
- In `SignIn` the form's two fields (`shown`) and its variables email and password
  (`fields`) are kept apart, as in the code: the spinner takes the fields away
  and leaves the variables. A call is answered (`Succeeds`, `Fails`,
  `AnswerLost`), which may put a user on the stream (`events`), and apart from
  that its handler goes on (`GoOn`); `Report` is Wrapper's build. Firebase Auth is
  external. It keeps the session over a `Reload`, as on the web, where the app is
  deployed. `overtaken` is history: a form was sent before Home could show who was
  signed in already. Home then keeps the person of its `initState` while the
  session belongs to another user.

Abstractions: two gets of one device that are both answered "absent" at the same
moment are answered one after the other; a load that outlives its session is
dropped (it could only write the template where there is no document, as the
loads of the next session do). `Sheets` starts from a document that holds the
blank schedule.

### Mutated forms

Operators under a comment that begins with "Mutated" are no part of the model.
Each is a plausible slip in the code it stands next to; putting it in the place
of the real operator makes the property named in `PROJECT.json` fail, which
shows that the property depends on that code.

## Runs

| Run | cfg | What it shows |
|---|---|---|
| `sheets` | `MCSheets.cfg` | `TypeOK`, `SchedulesSound`, `SaveSettles`, `FreeBandsKept`, `CoursesExpanded`, `DroppedCourseGone` |
| `person_tables` | `MCPersonTables.cfg` | the in-place loops implement the slot-by-slot form on the real tables, and these satisfy the assumptions of `BandPlan` |
| `session_one_device` | `CalendarSession1.cfg` | sound documents; rows always have periods; a clean schedule is the stored one; classes are only lost where the user has emptied them or through a save that came before the load; a template replaces no document |
| `day_opens` | `DayOpens.cfg` | the spinner of the Day sheet ends when the network answers |
| `year_export` | `YearExport.cfg` | an undisturbed press is an export in one go (`ImplementsDownloads`); a press that meets no other press lists no event twice and no file by halves, whatever boxes change (`LoneDownloadsWhole`); every press ends |
| `sign_in` | `SignIn.cfg` | what is sent is what is shown; the form's spinner has a reason and an end; Home works for the user of the session |

Runs that end in a counterexample, each on a sentence of the program's own text:

| Run | What happens |
|---|---|
| `full_sheet_entries` | an entry of the Full sheet in a double slot is wiped by the Day sheet's Save |
| `hasty_save` | Logout during the load overwrites the stored classes with blank periods |
| `template_race` | the template of a second device overwrites saved classes |
| `shown_text` | a late load replaces the schedule under the text on screen |
| `overlapping_exports` | a second press of Download before the first has filled its list: the file lists classes twice |
| `register_error` | a registration that has succeeded ends in "Please supply a valid email", and its template is never sent |

Four more things come out of the models and have no run of their own. Stored
doubles vanish at the first Save of the next session, because the ticks of the
Double? boxes are not stored and Save derives the double slots from them. A row
that is emptied and followed by Logout, not by Save, leaves its course in the
rest of the band, and no later Save removes it, because the flags of edited rows
die with the sheet. The Full tab opened during a new user's load indexes an empty
list. A get that fails leaves the Day sheet's spinner up: `DayOpens` does not hold
with `NetworkFails = TRUE`.

### Bounds

- The miniature plan of `MCSheets` has each kind of band: a double of its own,
  no double, and a double that is also listed as a slot of the band; plus a
  template slot. Three edits (`MaxEdits`), with any number of saves, tab changes
  and sessions between them, let a band be filled, changed and emptied, or one
  band and a Full-sheet cell meet. `MCPersonTables` uses the 56 slots and eight
  bands of the program with two edits of the class name.
- The plan of `MCCalendarSession` has one row, one more cell and the template: loads and saves move whole schedules, so
  further slots would be equal copies. Sessions are unbounded. `MaxMounts` Day
  sheets per Home and `MaxPending` writes in flight are the only bounds; two of
  each let a load of a disposed sheet meet that of its successor, and a template
  meet a save. `SoundDocuments` and `RowsHavePeriods` are proved for any number
  of devices, so the passing runs use one; `template_race` uses two.
- In `session_one_device` the user types a name or the empty text, so that classes
  are also emptied on purpose. The row's band is its own slot only, and the one
  enabled cell of the Full sheet is outside it.
- `MCYearExport` has two presses, enough for runs to overlap, as a third press adds
  only one more owner of the same list. Slot 0 has two rows in classes.csv, slot 1
  one and the template none; the two extra files have one and two events. So a
  slot may appear not at all, once or repeatedly, and a file may be skipped,
  ticked behind the walk or unticked before it. `MaxChanges` bounds
  the changes of boxes and of the schedule together. Four of them let the user tick a
  box, edit a class, tick another box and have a load replace the schedule within one
  run.
- `MCSignIn` has two emails, a short and a long password, and at most `MaxForms` = 3
  forms whose calls are under way together: one before, one between and one after
  two sessions. Sign-ins, failures and reloads are unbounded.

### Fairness

`FairSpec` has weak fairness for the answers of the network (`GetFound`,
`GetAbsent`, `Ack`) of each device and load: Firestore completes a request while
there is a connection. Nothing is assumed of the user, of the auth stream, or of
failures. `DayOpens` also excludes restarting the app for ever, since every
restart begins a new load.

`YearExport!Spec` has weak fairness for the next step of each press (`RunSteps`):
the event loop gets to every continuation, and reading an asset of the app ends,
with `ReadFails` as another way to end. Nothing is assumed of the boxes, the
keys or the loads. `SignIn!Spec` has weak fairness for the answer to each call,
well or badly, for the continuation of each handler and for the reports on the
stream; nobody has to type or to press.

## Proofs

Checked by TLAPS for all tables that satisfy `TablesAssumption` and
`DisjointAssumption`, all texts and any number of edits:

- `SheetsProofs!TypeCorrect`, `AlwaysSound`: `Spec => []TypeOK` and
  `Spec => []SchedulesSound`. The inductive invariant `Inv` is type correctness
  together with the soundness of both copies, in memory and stored. It is
  inductive because every step builds its schedules by the operators of
  `BandPlan`, each shown in `BandPlanTheorems` to take sound schedules to sound
  ones: `BlankScheduleSound`, `DayEditedSound`, `FullEditedSound`,
  `DaySaveSound`. Distinct ids need that copying keeps the destination's id; the
  blank template needs that no band, double or enabled cell reaches it; the
  colours need both.
- `FreeBandsAreKept`, `CoursesAreExpanded`, `DroppedCoursesGo`: the action
  properties of Save. They rest on `BandSlotIsRuled` and `DoubleSlotIsRuled`
  (the tables are disjoint, so exactly one band rules a slot) and on what Save
  leaves there: `CourseFillsBand`, `DoubleFollowsTick`, `FreeBandSlot`.
- `SavesSettle`: `Spec => []SaveSettles`, from `SaveIsSettled`, slot by slot.
- `SheetLoopsProofs!LoopsComputeDaySave` and `LoopsAreThePlan`: `SheetLoops`
  implements `Sheets`. `LoopRuns` unfolds a loop into the lists between its
  iterations, by induction on the number of iterations in the form that TLAPS can
  use: of the numbers that a set misses, the least one is neither 0 nor the
  successor of a member (`CountingUp`). Each inner loop is then described by what
  it leaves in its band (`IsUpdated`, `IsExpanded`, `IsEnsured`), from an invariant
  of its own, `Done(i)`: row b keeps its content while slot after slot takes it,
  although row b is itself one of these slots. For the outer loops, `BandsLoop`
  uses that the areas they rewrite are disjoint: an iteration finds its own area as it was
  before the loop, and nobody touches it afterwards. So the colours of other bands that
  `updateBand` leaves behind are all painted over. The last proof compares the three
  loops with `DaySave`, slot by slot.
- `CalendarSessionProofs!SessionTypes`, `DocumentsStaySound` and
  `RowsAlwaysHavePeriods`, for any set of devices, `MaxMounts` and `MaxPending`.
  `RowsHavePeriods` is not inductive: a load that misses the document empties
  the schedule (`GetAbsent`). The invariant `SInv` adds that a device with built
  rows finds a document (`LocalView # Absent`): its rows were built by a load
  that found or wrote one, a get is answered by the newest queued write or else
  by the server, and the server never loses a document, so that an
  acknowledgement only moves the document from one place to the other. It also
  needs that a disposed sheet stays dead on the sign-in screen, where a closed
  app drops its queue. Each action has a lemma (`...Safe`) that shows the
  invariant for the device that moves and that no other device's view is lost.
- `OneDeviceProofs!CleanScheduleIsStored`, `TemplateReplacesNothing` and
  `ClassesAreKept`, for a user with one device (`OneDevice`: all devices are the
  same), and any tables, texts, mounts and writes in flight. None of the three
  properties is inductive, as each depends on writes that are still on their way. The invariant
  `OneInv` reads the document and the queue of writes as one chain of documents, of which
  a get returns the last. `Chained`: no template in it follows a document, and
  none loses the classes of the one before it, unless a save was hasty or the user
  emptied them. `InMemory`: the schedule of a Person stands in the same relation to the
  last of the chain, and is that last document, or its refill by `addAllPeriod`,
  when it was loaded and not edited since. An acknowledgement shortens the chain at its front,
  a save puts the schedule at its end, a lost queue cuts it together with the session.
- `YearExportProofs!TypeCorrect` and `ExportsInOneGo`, for any timetable, any
  files, any number of presses and of changes: `YearExport` implements
  `Downloads`. The invariant `ExportInv` says of every press that counts (one
  that met no other and no change of a box): no other is under way; what it has
  taken is the schedule from which its list was filled; and its list holds just
  the lines of the classes and of the ticked files up to the one it is at, each
  once (`SoFar`). `GatheredFill` shows that filling an empty list gathers the
  classes, although a slot looks up its entry by number in the whole list and
  every row looks at the name that its predecessor has left. `GatheredAdd` shows
  that one more file adds its lines and no date twice, as dates tell their origin.
  The walk over the boxes takes the least ticked file after the last one, a
  minimum that exists because the order of the naturals is well founded
  (`FirstOfIsFirst`), so that it skips none. Then each action maps to a step of
  `Downloads` (`...Implements`).
- `LoneDownloadProofs!LoneDownloadsAreWhole`, for the press that meets no other
  press while boxes may change at will, so that its list may hold files whose
  boxes are no longer ticked. The invariant `AloneInv` therefore does not look at the boxes: the list
  belongs to the one run under way (`OwnList`), lists each date once, holds each
  file wholly or not at all, and none of the files that the walk has not reached (`UpTo`).
- `YearExportProofs!WalksAreFinite`: a press takes at most `2 * NumTables + 1` steps, since
  each of its steps lowers `StepsLeft`, which neither the user nor another run changes.
  This is the part of `EveryPressEnds` that does not speak of fairness.
- `SignInProofs!TypeCorrect`, `SubmitsShown`, `SpinnersHaveReasons` and `HomesAreUsers`,
  for any emails and any number of forms. `SubmitsShown` rests on `FormInv`: a
  field is empty or agrees with its variable. That one is not an equation,
  because the spinner empties the fields alone. `SpinnerInv` adds to the
  reason for the spinner that the reports end with the user of the session, and
  that a call of the form on screen which has succeeded leaves a report of a user
  behind it. `HomeInv` lists the four ways in which the reports still on their
  way bring the screen to the user of the session, as long as no form was sent
  while somebody was signed in.

The assumptions are facts about the two tables of `Person`; TLC evaluates them
on the real tables in `person_tables`.

Only model-checked: liveness under fairness, that is `DayOpens`,
`EveryPressEnds` and `SpinnerEnds`. It rests on ENABLED, which TLAPS does not
reason about. The six sentences of the program's own text that fail are refuted by TLC.

## Plan

1. Done: `BandPlan`, `Sheets`, `SheetLoops`, `CalendarSession`, and the proofs
   about them, the refinement by the loops and the guarantees for one device included.
2. Done: `YearEvents`, `Downloads`, `YearExport`, the proof of the refinement, of
   `LoneDownloadsWhole` and of the bound on a walk.
3. Done: `SignIn` and the proofs of its safety.
4. Left, proofs: the safety halves of `DayOpens` and `SpinnerEnds`, as
   `WalksAreFinite` is that of `EveryPressEnds`: what a spinner still waits for is
   under way, and no step of anybody takes it away without an answer.

## Not modelled

All of `lib/` that changes state is modelled: about 1700 lines of Dart, of which
the rest is layout. The other source files of the repository, by size nearly all of
it, are C and C++ of vendored pods (`macos/Pods`: gRPC, BoringSSL, Firestore,
abseil), build output, and the platform runners that `flutter create` generates
(`windows`, `linux`, `macos/Runner`, `ios`, `android`, `web`). They are not this
program's logic, and are seen here only as the program uses them: Firestore as
queues of writes and gets, Firebase Auth as calls and a stream.

- `main.dart`, `settings.dart`, `loading.dart`, `constants.dart`: start-up,
  styles, layout.
- `DatabaseService`, the methods of Schedule without a caller (`getPeriod`,
  `addPeriod`, `deletePeriods`) and the sort key of Period: dead code.
- `exportPeriodsToICS` is commented out.
- Quoting and layout of the CSV files, and what the rows under `assets/` say.
