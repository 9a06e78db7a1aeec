-------------------------- MODULE SheetLoopsProofs --------------------------
(***************************************************************************)
(* The loops of Person compute the slot-by-slot Save of BandPlan, for all  *)
(* tables of bands that satisfy the assumptions: LoopSpec implements the   *)
(* specification of Sheets.                                                *)
(***************************************************************************)
EXTENDS SheetLoops, SheetsProofs, WellFoundedInduction, NaturalsInduction

Below == {p \in Nat \X Nat : p[1] < p[2]}

\* The order of the naturals has minimal elements.
LEMMA BelowWellFounded == IsWellFoundedOn(Below, Nat)
  BY NatLessThanWellFounded DEF OpToRel, Below

\* Counting up from 0 reaches every number up to n.
LEMMA CountingUp ==
  ASSUME NEW n \in Nat, NEW I, 0 \in I, \A i \in 1..n : i - 1 \in I => i \in I
  PROVE  \A i \in 0..n : i \in I
  <1> DEFINE Missing == {i \in 0..n : i \notin I}
  <1> SUFFICES ASSUME Missing # {}  PROVE FALSE
    OBVIOUS
  <1>1. PICK m \in Missing : \A k \in Missing : ~(k < m)
    <2>1. Missing \subseteq Nat
      OBVIOUS
    <2> HIDE DEF Missing
    <2>2. PICK m \in Missing : \A k \in Missing : <<k, m>> \notin Below
      BY <2>1, BelowWellFounded, WFMin
    <2> QED  BY <2>1, <2>2 DEF Below
  <1>2. m \in 0..n /\ m \notin I
    OBVIOUS
  <1>3. m # 0
    BY <1>2
  <1>4. m \in 1..n /\ m - 1 \in 0..n /\ m - 1 < m
    BY <1>2, <1>3
  <1>5. m - 1 \in I
    BY <1>1, <1>4
  <1> QED  BY <1>2, <1>4, <1>5

\* The lists before, between and after the iterations of a for loop.
IsRun(after, n, iteration, ps) ==
    /\ after \in [0..n -> Schedule]
    /\ after[0] = ps
    /\ \A i \in 1..n : after[i] = iteration[i][after[i - 1]]

\* A for loop has a run, and returns its last list.
LEMMA LoopRuns ==
  ASSUME NEW n \in Nat, NEW iteration \in [1..n -> [Schedule -> Schedule]],
         NEW ps \in Schedule
  PROVE  \E after : IsRun(after, n, iteration, ps) /\ Loop(n, iteration, ps) = after[n]
  <1> DEFINE Runs(m, g) == g[0] = ps /\ \A i \in 1..m : g[i] = iteration[i][g[i - 1]]
             I == {m \in 0..n : \E g \in [0..m -> Schedule] : Runs(m, g)}
  <1>1. 0 \in I
    <2>1. [i \in 0..0 |-> ps] \in [0..0 -> Schedule] /\ Runs(0, [i \in 0..0 |-> ps])
      OBVIOUS
    <2>2. 0 \in 0..n
      OBVIOUS
    <2> HIDE DEF Runs
    <2> QED  BY <2>1, <2>2
  <1>2. ASSUME NEW m \in 1..n, m - 1 \in I
        PROVE  m \in I
    <2>1. PICK g \in [0..(m - 1) -> Schedule] : Runs(m - 1, g)
      <3> HIDE DEF Runs
      <3> QED  BY <1>2
    <2> DEFINE h == [i \in 0..m |-> IF i = m THEN iteration[m][g[m - 1]] ELSE g[i]]
    <2>2. h \in [0..m -> Schedule]
      OBVIOUS
    <2>3. Runs(m, h)
      <3>1. h[0] = ps
        BY <2>1
      <3>2. ASSUME NEW i \in 1..m  PROVE h[i] = iteration[i][h[i - 1]]
        <4>1. i - 1 \in 0..(m - 1) /\ h[i - 1] = g[i - 1]
          OBVIOUS
        <4>2. CASE i = m
          BY <4>1, <4>2
        <4>3. CASE i # m
          BY <2>1, <4>1, <4>3
        <4> QED  BY <4>2, <4>3
      <3> QED  BY <3>1, <3>2
    <2> HIDE DEF Runs, h
    <2> QED  BY <2>2, <2>3
  <1>3. n \in I
    <2> HIDE DEF I
    <2>1. \A m \in 0..n : m \in I
      BY <1>1, <1>2, CountingUp
    <2> QED  BY <2>1
  <1>4. PICK g \in [0..n -> Schedule] : Runs(n, g)
    <2> HIDE DEF Runs
    <2> QED  BY <1>3
  <1> DEFINE IsFix(f) == f = [i \in 0..n |-> IF i = 0 THEN ps ELSE iteration[i][f[i - 1]]]
             after == CHOOSE f : IsFix(f)
  <1>5. IsFix(g)
    BY <1>4
  <1>6. IsFix(after)
    BY <1>5
  <1>7. Loop(n, iteration, ps) = after[n]
    BY DEF Loop
  <1> HIDE DEF after
  <1>8. after[0] = ps /\ \A i \in 1..n : after[i] = iteration[i][after[i - 1]]
    BY <1>6
  <1>9. after \in [0..n -> Schedule]
    <2> DEFINE J == {i \in 0..n : after[i] \in Schedule}
    <2>1. 0 \in J
      BY <1>8
    <2>2. ASSUME NEW i \in 1..n, i - 1 \in J  PROVE i \in J
      BY <1>8, <2>2
    <2>3. \A i \in 0..n : i \in J
      BY <2>1, <2>2, CountingUp
    <2> QED  BY <1>6, <2>3
  <1> QED  BY <1>7, <1>8, <1>9 DEF IsRun

\* The bands are numbered from 0, as the loops count them.
LEMMA BandNumbers ==
  /\ NumBands \in Nat
  /\ \A i \in 1..NumBands : i - 1 \in Bands
  /\ \A b \in Bands : b \in 0..(NumBands - 1) /\ b + 1 \in 1..NumBands /\ (b + 1) - 1 = b
  BY LoopsAssumption

\* The list rs is left by a loop over the bands whose iterations do not disturb one
\* another: what an iteration reads outside the other areas is what was there
\* before the loop, and what it writes in its own area stays.
IsBandsLoop(rs, ps, iteration, area) ==
    /\ rs \in Schedule
    /\ \A s \in Slots : (\A b \in Bands : s \notin area[b]) => rs[s] = ps[s]
    /\ \A b \in Bands : \E qs \in Schedule :
           /\ \A s \in Slots : (\A c \in Bands : c # b => s \notin area[c]) => qs[s] = ps[s]
           /\ \A s \in Slots : s \in area[b] => rs[s] = iteration[b][qs][s]

\* So does a loop each iteration of which rewrites an area of its own.
LEMMA BandsLoop ==
  ASSUME NEW iteration \in [Bands -> [Schedule -> Schedule]], NEW ps \in Schedule,
         NEW area \in [Bands -> SUBSET Slots],
         \A b, c \in Bands : b # c => area[b] \cap area[c] = {},
         \A b \in Bands, qs \in Schedule, s \in Slots :
             s \notin area[b] => iteration[b][qs][s] = qs[s]
  PROVE  IsBandsLoop(ForEachBand(iteration, ps), ps, iteration, area)
  <1> DEFINE N == NumBands
             body == [i \in 1..N |-> iteration[i - 1]]
             rs == ForEachBand(iteration, ps)
  <1>1. N \in Nat /\ body \in [1..N -> [Schedule -> Schedule]]
    BY BandNumbers
  <1>2. PICK after : IsRun(after, N, body, ps) /\ Loop(N, body, ps) = after[N]
    <2> HIDE DEF body, N
    <2> QED  BY <1>1, LoopRuns
  <1>3. rs = after[N] /\ rs \in Schedule
    BY <1>1, <1>2 DEF ForEachBand, IsRun
  <1>4. \A i \in 1..N : /\ after[i - 1] \in Schedule /\ i - 1 \in Bands
                       /\ after[i] = iteration[i - 1][after[i - 1]]
    BY <1>1, <1>2, BandNumbers DEF IsRun
  <1> HIDE DEF body, N, rs
  <1>5. \A i \in 0..N : \A s \in Slots :
            (\A c \in Bands : c < i => s \notin area[c]) => after[i][s] = ps[s]
    <2> DEFINE Same(i) == \A s \in Slots :
                              (\A c \in Bands : c < i => s \notin area[c]) => after[i][s] = ps[s]
               I == {i \in 0..N : Same(i)}
    <2>1. 0 \in I
      BY <1>1, <1>2 DEF IsRun
    <2>2. ASSUME NEW i \in 1..N, i - 1 \in I  PROVE i \in I
      <3> SUFFICES ASSUME NEW s \in Slots, \A c \in Bands : c < i => s \notin area[c]
                   PROVE  after[i][s] = ps[s]
        BY <1>1
      <3>1. i - 1 \in Bands /\ i - 1 < i /\ \A c \in Bands : c < i - 1 => c < i
        <4>1. \A c \in Bands : c \in Int
          BY BandNumbers
        <4>2. i \in Int
          BY <1>1
        <4>3. \A c \in Bands : c < i - 1 => c < i
          BY <4>1, <4>2
        <4> QED  BY <1>4, <4>2, <4>3
      <3>2. after[i - 1][s] = ps[s]
        BY <2>2, <3>1
      <3> QED  BY <1>4, <3>1, <3>2
    <2> HIDE DEF I
    <2>3. \A i \in 0..N : i \in I
      BY <1>1, <2>1, <2>2, CountingUp
    <2> QED  BY <2>3 DEF I
  <1>6. ASSUME NEW b \in Bands, NEW s \in area[b]
        PROVE  \A i \in 0..N : i >= b + 1 => after[i][s] = after[b + 1][s]
    <2> DEFINE I == {i \in 0..N : i >= b + 1 => after[i][s] = after[b + 1][s]}
    <2>1. 0 \in I /\ b \in Nat /\ s \in Slots
      BY <1>1, BandNumbers
    <2>2. ASSUME NEW i \in 1..N, i - 1 \in I  PROVE i \in I
      <3> SUFFICES ASSUME i > b + 1  PROVE after[i][s] = after[b + 1][s]
        BY <1>1, <2>1
      <3>1. i - 1 # b /\ i - 1 >= b + 1
        BY <1>1, <2>1
      <3>2. s \notin area[i - 1]
        BY <1>4, <3>1
      <3> QED  BY <1>4, <2>1, <2>2, <3>1, <3>2
    <2> HIDE DEF I
    <2>3. \A i \in 0..N : i \in I
      BY <1>1, <2>1, <2>2, CountingUp
    <2> QED  BY <2>3 DEF I
  <1>7. \A s \in Slots : (\A b \in Bands : s \notin area[b]) => rs[s] = ps[s]
    <2>1. N \in 0..N
      BY <1>1
    <2> QED  BY <1>3, <1>5, <2>1
  <1>8. ASSUME NEW b \in Bands
        PROVE  \E qs \in Schedule :
                   /\ \A s \in Slots :
                          (\A c \in Bands : c # b => s \notin area[c]) => qs[s] = ps[s]
                   /\ \A s \in Slots : s \in area[b] => rs[s] = iteration[b][qs][s]
    <2>1. b \in 0..N /\ b + 1 \in 1..N /\ b + 1 <= N /\ (b + 1) - 1 = b /\ N \in 0..N
      BY <1>1, BandNumbers DEF N
    <2>2. after[b] \in Schedule /\ after[b + 1] = iteration[b][after[b]]
      BY <1>4, <2>1
    <2>3. \A s \in Slots :
              (\A c \in Bands : c # b => s \notin area[c]) => after[b][s] = ps[s]
      <3>1. \A c \in Bands : c < b => c # b
        BY <2>1
      <3> QED  BY <1>5, <2>1, <3>1
    <2>4. \A s \in Slots : s \in area[b] => rs[s] = after[b + 1][s]
      BY <1>3, <1>6, <2>1
    <2>5. \A s \in Slots : s \in area[b] => rs[s] = iteration[b][after[b]][s]
      BY <2>2, <2>4
    <2> USE <2>2
    <2> WITNESS after[b] \in Schedule
    <2> QED  BY <2>3, <2>5
  <1> QED  BY <1>3, <1>7, <1>8 DEF rs, IsBandsLoop

-----------------------------------------------------------------------------
(* What one assignment of the loops does.                                  *)

\* All of a Period but its id and its colour.
Content(p) == <<p.className, p.roomName, p.fullCourse>>

Colors == Bands \cup {NoColor}

\* Id, content and colour make the Period.
LEMMA PeriodIsContent ==
  ASSUME NEW p \in Period, NEW q \in Period,
         p.id = q.id, Content(p) = Content(q), p.colorId = q.colorId
  PROVE  p = q
  <1>1. SameText(p, q) /\ p.fullCourse = q.fullCourse
    BY DEF Content, SameText
  <1> QED  BY <1>1, SamePeriod

\* Painting keeps id and content.
LEMMA PaintKeeps ==
  ASSUME NEW p \in Period, NEW c \in Colors
  PROVE  /\ Paint(p, c) \in Period
         /\ Paint(p, c).id = p.id
         /\ Content(Paint(p, c)) = Content(p)
         /\ Paint(p, c).colorId = c
  BY DEF Paint, Period, Content, Colors

\* Copying keeps the id and takes the content.
LEMMA CopyTakes ==
  ASSUME NEW p \in Period, NEW q \in Period
  PROVE  /\ CopyFields(p, q) \in Period
         /\ CopyFields(p, q).id = p.id
         /\ Content(CopyFields(p, q)) = Content(q)
  BY DEF CopyFields, Period, Content

\* Clearing keeps the id; a Period with text it leaves alone.
LEMMA ClearedKeeps ==
  ASSUME NEW p \in Period, NEW q \in Period
  PROVE  /\ Cleared(p) \in Period
         /\ Cleared(p).id = p.id
         /\ Content(p) = Content(q) => Content(Cleared(p)) = Content(Cleared(q))
         /\ Cleared(p).fullCourse <=> p.fullCourse /\ ~IsBlank(p)
  <1>1. ASSUME NEW r \in Period
        PROVE  /\ Cleared(r) \in Period
               /\ Cleared(r).id = r.id
               /\ Content(Cleared(r)) =
                      <<r.className, r.roomName, r.fullCourse /\ ~IsBlank(r)>>
    <2>1. CASE IsBlank(r)
      BY <2>1 DEF Cleared, Period, Content
    <2>2. CASE ~IsBlank(r)
      BY <2>2 DEF Cleared, Period, Content
    <2> QED  BY <2>1, <2>2
  <1>2. Content(p) = Content(q) => (IsBlank(p) <=> IsBlank(q)) /\ p.fullCourse = q.fullCourse
                                   /\ p.className = q.className /\ p.roomName = q.roomName
    BY DEF Content, IsBlank
  <1>3. Content(p) = Content(q) => Content(Cleared(p)) = Content(Cleared(q))
    <2> DEFINE both(r) == r.fullCourse /\ ~IsBlank(r)
    <2> SUFFICES ASSUME Content(p) = Content(q)  PROVE both(p) = both(q)
      BY <1>1, <1>2
    <2> QED  BY <1>2
  <1>4. Cleared(p).fullCourse <=> p.fullCourse /\ ~IsBlank(p)
    BY DEF Cleared, Period
  <1> QED  BY <1>1, <1>3, <1>4

\* The list rs is qs with another colour in one slot.
IsPainted(rs, qs, to, c) ==
    /\ rs \in Schedule
    /\ \A s \in Slots : s # to => rs[s] = qs[s]
    /\ \A s \in Slots : rs[s].id = qs[s].id /\ Content(rs[s]) = Content(qs[s])
    /\ rs[to].colorId = c

\* The list rs is qs with the content of slot from in slot to, in a colour.
IsCopied(rs, qs, from, to, c) ==
    /\ rs \in Schedule
    /\ \A s \in Slots : s # to => rs[s] = qs[s]
    /\ \A s \in Slots : rs[s].id = qs[s].id
    /\ Content(rs[to]) = Content(qs[from])
    /\ rs[to].colorId = c

\* One colour in the list.
LEMMA SetColorStep ==
  ASSUME NEW qs \in Schedule, NEW to \in Slots, NEW c \in Colors
  PROVE  IsPainted(SetColor(qs, to, c), qs, to, c)
  <1> DEFINE rs == SetColor(qs, to, c)
             new == Paint(qs[to], c)
  <1>1. new \in Period /\ new.id = qs[to].id /\ Content(new) = Content(qs[to]) /\ new.colorId = c
    BY PaintKeeps, PeriodFields
  <1>2. rs = [qs EXCEPT ![to] = new]
    BY DEF SetColor
  <1> HIDE DEF new, rs
  <1>3. rs \in Schedule /\ rs[to] = new /\ \A s \in Slots : s # to => rs[s] = qs[s]
    BY <1>1, <1>2 DEF Schedule
  <1> QED  BY <1>1, <1>3 DEF rs, IsPainted

\* One copy in the list.
LEMMA CopyInColorStep ==
  ASSUME NEW qs \in Schedule, NEW from \in Slots, NEW to \in Slots, NEW c \in Colors
  PROVE  IsCopied(CopyInColor(qs, from, to, c), qs, from, to, c)
  <1> DEFINE copy == CopyPeriodFields(qs, from, to)
             new == CopyFields(qs[to], qs[from])
  <1>1. new \in Period /\ new.id = qs[to].id /\ Content(new) = Content(qs[from])
    BY CopyTakes, PeriodFields
  <1>2. copy = [qs EXCEPT ![to] = new]
    BY DEF CopyPeriodFields
  <1>3. CopyInColor(qs, from, to, c) = SetColor(copy, to, c)
    BY DEF CopyInColor
  <1> HIDE DEF new, copy
  <1>4. copy \in Schedule /\ copy[to] = new /\ \A s \in Slots : s # to => copy[s] = qs[s]
    BY <1>1, <1>2 DEF Schedule
  <1>5. IsPainted(CopyInColor(qs, from, to, c), copy, to, c)
    BY <1>3, <1>4, SetColorStep
  <1> QED  BY <1>1, <1>4, <1>5 DEF IsPainted, IsCopied

\* The list of the slots of a band.
LEMMA SlotList ==
  ASSUME NEW b \in Bands
  PROVE  /\ Len(BandSlots[b]) \in Nat /\ Len(BandSlots[b]) <= NumBands
         /\ DOMAIN BandSlots[b] = 1..Len(BandSlots[b])
         /\ \A j \in 1..Len(BandSlots[b]) :
                BandSlots[b][j] \in SlotsOf(b) /\ BandSlots[b][j] \in Slots /\ j - 1 \in Colors
         /\ \A s \in SlotsOf(b) : \E j \in 1..Len(BandSlots[b]) : s = BandSlots[b][j]
         /\ SlotsOf(b) \subseteq Slots
         /\ b \in SlotsOf(b) /\ b \in Slots /\ b \in Colors /\ NoColor \in Colors
  <1>1. BandSlots[b] \in Seq(Slots)
    BY TablesAssumption
  <1>2. /\ Len(BandSlots[b]) \in Nat /\ DOMAIN BandSlots[b] = 1..Len(BandSlots[b])
        /\ \A j \in 1..Len(BandSlots[b]) : BandSlots[b][j] \in Slots
    BY <1>1
  <1>3. \A j \in 1..Len(BandSlots[b]) : j - 1 \in Bands
    BY <1>2, LoopsAssumption
  <1>4. b \in SlotsOf(b) /\ b \in Slots
    BY DisjointAssumption, TemplateIsNoRow
  <1> QED  BY <1>2, <1>3, <1>4, LoopsAssumption DEF SlotsOf, Range, Colors

-----------------------------------------------------------------------------
(* The loops over the slots of one band.                                   *)

\* The list us is ps with the content of row b in every slot of its band.
IsUpdated(us, ps, b) ==
    /\ us \in Schedule
    /\ \A s \in Slots : s \notin SlotsOf(b) => us[s] = ps[s]
    /\ \A s \in SlotsOf(b) : us[s].id = ps[s].id /\ Content(us[s]) = Content(ps[b])

\* updateBand does that, and touches nothing else.
LEMMA UpdateBandStep ==
  ASSUME NEW ps \in Schedule, NEW b \in Bands
  PROVE  IsUpdated(UpdateBand(ps, b), ps, b)
  <1> DEFINE n == Len(BandSlots[b])
             iteration == [i \in DOMAIN BandSlots[b] |->
                 [qs \in Schedule |-> CopyInColor(qs, b, BandSlots[b][i], i - 1)]]
             base == SetColor(ps, b, b)
  <1>1. /\ n \in Nat /\ DOMAIN BandSlots[b] = 1..n /\ b \in Slots /\ b \in SlotsOf(b)
        /\ \A j \in 1..n : /\ BandSlots[b][j] \in Slots /\ BandSlots[b][j] \in SlotsOf(b)
                           /\ j - 1 \in Colors
    BY SlotList
  <1>2. /\ base \in Schedule
        /\ \A s \in Slots : s # b => base[s] = ps[s]
        /\ \A s \in Slots : base[s].id = ps[s].id /\ Content(base[s]) = Content(ps[s])
    BY SlotList, SetColorStep DEF IsPainted
  <1>3. iteration \in [1..n -> [Schedule -> Schedule]]
    BY <1>1, CopyInColorStep DEF IsCopied
  <1>4. \A i \in 1..n, qs \in Schedule :
            iteration[i][qs] = CopyInColor(qs, b, BandSlots[b][i], i - 1)
    BY <1>1
  <1>5. UpdateBand(ps, b) = Loop(n, iteration, base)
    BY DEF UpdateBand
  <1> HIDE DEF n, iteration, base
  <1>6. PICK after : IsRun(after, n, iteration, base) /\ Loop(n, iteration, base) = after[n]
    BY <1>1, <1>2, <1>3, LoopRuns
  <1> DEFINE Done(i) ==
                 /\ \A s \in Slots : s \notin SlotsOf(b) => after[i][s] = ps[s]
                 /\ \A s \in Slots : after[i][s].id = ps[s].id
                 /\ Content(after[i][b]) = Content(ps[b])
                 /\ \A j \in 1..i : Content(after[i][BandSlots[b][j]]) = Content(ps[b])
             I == {i \in 0..n : Done(i)}
  <1>7. 0 \in I
    BY <1>1, <1>2, <1>6 DEF IsRun
  <1>8. ASSUME NEW i \in 1..n, i - 1 \in I  PROVE i \in I
    <2> DEFINE qs == after[i - 1]
               rs == after[i]
               to == BandSlots[b][i]
    <2>1. qs \in Schedule /\ rs = CopyInColor(qs, b, to, i - 1) /\ i - 1 \in 0..n
      BY <1>1, <1>4, <1>6 DEF IsRun
    <2>2. to \in Slots /\ to \in SlotsOf(b) /\ i - 1 \in Colors
      BY <1>1
    <2>3. Done(i - 1)
      BY <1>8
    <2> HIDE DEF qs, rs, to
    <2>4. /\ \A s \in Slots : s # to => rs[s] = qs[s]
          /\ \A s \in Slots : rs[s].id = qs[s].id
          /\ Content(rs[to]) = Content(qs[b])
      <3>1. IsCopied(rs, qs, b, to, i - 1)
        BY <1>1, <2>1, <2>2, CopyInColorStep
      <3> QED  BY <3>1 DEF IsCopied
    <2>5. /\ \A s \in Slots : s \notin SlotsOf(b) => rs[s] = ps[s]
          /\ \A s \in Slots : rs[s].id = ps[s].id
          /\ Content(rs[b]) = Content(ps[b])
      BY <1>1, <2>2, <2>3, <2>4 DEF qs
    <2>6. ASSUME NEW j \in 1..i  PROVE Content(rs[BandSlots[b][j]]) = Content(ps[b])
      <3>1. CASE BandSlots[b][j] = to
        BY <2>3, <2>4, <3>1 DEF qs
      <3>2. CASE BandSlots[b][j] # to
        <4>1. j \in 1..(i - 1) /\ j \in 1..n
          BY <1>1, <3>2 DEF to
        <4>2. Content(qs[BandSlots[b][j]]) = Content(ps[b])
          BY <2>3, <4>1 DEF qs
        <4> QED  BY <1>1, <2>4, <3>2, <4>1, <4>2
      <3> QED  BY <3>1, <3>2
    <2> QED  BY <1>1, <2>5, <2>6 DEF rs
  <1> HIDE DEF I
  <1>9. n \in I
    <2>1. \A i \in 0..n : i \in I
      BY <1>1, <1>7, <1>8, CountingUp
    <2> QED  BY <1>1, <2>1
  <1>10. Done(n) /\ after[n] \in Schedule
    BY <1>1, <1>6, <1>9 DEF I, IsRun
  <1>11. \A s \in SlotsOf(b) : s \in Slots /\ \E j \in 1..n : s = BandSlots[b][j]
    BY SlotList DEF n
  <1> QED  BY <1>5, <1>6, <1>10, <1>11 DEF IsUpdated

\* Slot s of es has the content of row b, in its colour, if the row of ps is a full
\* course; otherwise it has the content it had in ps, and no colour.
SlotExpanded(es, ps, s, b) ==
    /\ es[s].id = ps[s].id
    /\ ps[b].fullCourse => Content(es[s]) = Content(ps[b]) /\ es[s].colorId = b
    /\ ~ps[b].fullCourse => Content(es[s]) = Content(ps[s]) /\ es[s].colorId = NoColor

IsExpanded(es, ps, b) ==
    /\ es \in Schedule
    /\ \A s \in Slots : s \notin SlotsOf(b) => es[s] = ps[s]
    /\ \A s \in SlotsOf(b) : SlotExpanded(es, ps, s, b)

\* updatePeriodsADay puts a full course into every slot of its band, in its
\* colour, and takes the colour of the slots of a band without one.
LEMMA ExpandBandStep ==
  ASSUME NEW ps \in Schedule, NEW b \in Bands
  PROVE  IsExpanded(ExpandBand(ps, b), ps, b)
  <1> DEFINE n == Len(BandSlots[b])
             isFull == ps[b].fullCourse
             color == IF isFull THEN b ELSE NoColor
             iteration == [j \in DOMAIN BandSlots[0] |->
                 [qs \in Schedule |-> IF isFull THEN CopyInColor(qs, b, BandSlots[b][j], b)
                                                ELSE SetColor(qs, BandSlots[b][j], NoColor)]]
             base == SetColor(ps, b, color)
  <1>1. /\ n \in Nat /\ DOMAIN BandSlots[b] = 1..n /\ b \in Slots /\ b \in SlotsOf(b)
        /\ \A j \in 1..n : BandSlots[b][j] \in Slots /\ BandSlots[b][j] \in SlotsOf(b)
        /\ color \in Colors /\ b \in Colors /\ NoColor \in Colors
        /\ Len(BandSlots[0]) = n /\ DOMAIN BandSlots[0] = 1..n
    <2>1. 0 \in Bands /\ n = Len(BandSlots[0])
      BY LoopsAssumption
    <2> QED  BY <2>1, SlotList
  <1>2. /\ base \in Schedule
        /\ \A s \in Slots : s # b => base[s] = ps[s]
        /\ \A s \in Slots : base[s].id = ps[s].id /\ Content(base[s]) = Content(ps[s])
    <2>1. IsPainted(base, ps, b, color)
      <3> HIDE DEF color
      <3> QED  BY <1>1, SetColorStep
    <2> QED  BY <2>1 DEF IsPainted
  <1>3. iteration \in [1..n -> [Schedule -> Schedule]]
    BY <1>1, CopyInColorStep, SetColorStep DEF IsCopied, IsPainted
  <1>4. \A i \in 1..n, qs \in Schedule :
            iteration[i][qs] = IF isFull THEN CopyInColor(qs, b, BandSlots[b][i], b)
                                         ELSE SetColor(qs, BandSlots[b][i], NoColor)
    BY <1>1
  <1>5. ExpandBand(ps, b) = Loop(n, iteration, base)
    BY <1>1 DEF ExpandBand
  <1> HIDE DEF n, iteration, base
  <1>6. PICK after : IsRun(after, n, iteration, base) /\ Loop(n, iteration, base) = after[n]
    BY <1>1, <1>2, <1>3, LoopRuns
  <1> DEFINE Done(i) ==
                 /\ \A s \in Slots : s \notin SlotsOf(b) => after[i][s] = ps[s]
                 /\ \A s \in Slots : after[i][s].id = ps[s].id
                 /\ isFull => Content(after[i][b]) = Content(ps[b])
                 /\ ~isFull => \A s \in Slots : Content(after[i][s]) = Content(ps[s])
                 /\ \A j \in 1..i : /\ isFull => Content(after[i][BandSlots[b][j]]) = Content(ps[b])
                                    /\ after[i][BandSlots[b][j]].colorId = color
             I == {i \in 0..n : Done(i)}
  <1>7. 0 \in I
    BY <1>1, <1>2, <1>6 DEF IsRun
  <1>8. ASSUME NEW i \in 1..n, i - 1 \in I  PROVE i \in I
    <2> DEFINE qs == after[i - 1]
               rs == after[i]
               to == BandSlots[b][i]
    <2>1. /\ qs \in Schedule /\ i - 1 \in 0..n
          /\ rs = IF isFull THEN CopyInColor(qs, b, to, b) ELSE SetColor(qs, to, NoColor)
      BY <1>1, <1>4, <1>6 DEF IsRun
    <2>2. to \in Slots /\ to \in SlotsOf(b)
      BY <1>1
    <2>3. Done(i - 1)
      BY <1>8
    <2> HIDE DEF qs, rs, to
    <2>4. /\ \A s \in Slots : s # to => rs[s] = qs[s]
          /\ \A s \in Slots : rs[s].id = qs[s].id
          /\ isFull => Content(rs[to]) = Content(qs[b])
          /\ ~isFull => \A s \in Slots : Content(rs[s]) = Content(qs[s])
          /\ rs[to].colorId = color
      <3>1. CASE isFull
        <4>1. rs = CopyInColor(qs, b, to, b) /\ color = b
          BY <2>1, <3>1
        <4>2. IsCopied(rs, qs, b, to, b)
          BY <1>1, <2>1, <2>2, <4>1, CopyInColorStep
        <4> QED  BY <3>1, <4>1, <4>2 DEF IsCopied
      <3>2. CASE ~isFull
        <4>1. rs = SetColor(qs, to, NoColor) /\ color = NoColor
          BY <2>1, <3>2
        <4>2. IsPainted(rs, qs, to, NoColor)
          BY <1>1, <2>1, <2>2, <4>1, SetColorStep
        <4> QED  BY <3>2, <4>1, <4>2 DEF IsPainted
      <3> QED  BY <3>1, <3>2
    <2>5. /\ \A s \in Slots : s \notin SlotsOf(b) => rs[s] = ps[s]
          /\ \A s \in Slots : rs[s].id = ps[s].id
          /\ isFull => Content(rs[b]) = Content(ps[b])
          /\ ~isFull => \A s \in Slots : Content(rs[s]) = Content(ps[s])
      BY <1>1, <2>2, <2>3, <2>4 DEF qs
    <2>6. ASSUME NEW j \in 1..i
          PROVE  /\ isFull => Content(rs[BandSlots[b][j]]) = Content(ps[b])
                 /\ rs[BandSlots[b][j]].colorId = color
      <3>1. CASE BandSlots[b][j] = to
        BY <2>3, <2>4, <3>1 DEF qs
      <3>2. CASE BandSlots[b][j] # to
        <4>1. j \in 1..(i - 1) /\ j \in 1..n
          BY <1>1, <3>2 DEF to
        <4>2. /\ isFull => Content(qs[BandSlots[b][j]]) = Content(ps[b])
              /\ qs[BandSlots[b][j]].colorId = color
          BY <2>3, <4>1 DEF qs
        <4> QED  BY <1>1, <2>4, <3>2, <4>1, <4>2
      <3> QED  BY <3>1, <3>2
    <2> QED  BY <1>1, <2>5, <2>6 DEF rs
  <1> HIDE DEF I
  <1>9. n \in I
    <2>1. \A i \in 0..n : i \in I
      BY <1>1, <1>7, <1>8, CountingUp
    <2> QED  BY <1>1, <2>1
  <1>10. Done(n) /\ after[n] \in Schedule
    BY <1>1, <1>6, <1>9 DEF I, IsRun
  <1>11. \A s \in SlotsOf(b) : s \in Slots /\ \E j \in 1..n : s = BandSlots[b][j]
    BY SlotList DEF n
  <1> QED  BY <1>5, <1>6, <1>10, <1>11 DEF IsExpanded, SlotExpanded

-----------------------------------------------------------------------------
(* The loops over the bands.                                               *)

\* The areas that the loops over the bands rewrite are disjoint.
LEMMA Areas ==
  /\ [b \in Bands |-> SlotsOf(b)] \in [Bands -> SUBSET Slots]
  /\ \A b, c \in Bands : b # c => SlotsOf(b) \cap SlotsOf(c) = {}
  /\ \A b, c \in Bands :
         b # c => {s \in Slots : s = DoubleSlot[b]} \cap {s \in Slots : s = DoubleSlot[c]} = {}
  BY SlotList, DisjointAssumption

\* The list us is ps with the content of the edited rows in the slots of their bands.
AllUpdated(us, ps, edited) ==
    /\ us \in Schedule
    /\ \A s \in Slots : (\A b \in Bands : s \notin SlotsOf(b)) => us[s] = ps[s]
    /\ \A b \in Bands : \A s \in SlotsOf(b) :
           /\ us[s].id = ps[s].id
           /\ edited[b] => Content(us[s]) = Content(ps[b])
           /\ ~edited[b] => us[s] = ps[s]

\* What the loop of ADayState.save over the edited rows leaves.
LEMMA EditedBandsUpdated ==
  ASSUME NEW ps \in Schedule, NEW edited
  PROVE  AllUpdated(UpdateEditedBands(ps, edited), ps, edited)
  <1> DEFINE iteration ==
                 [b \in Bands |-> [qs \in Schedule |-> IF edited[b] THEN UpdateBand(qs, b) ELSE qs]]
             area == [b \in Bands |-> SlotsOf(b)]
             us == UpdateEditedBands(ps, edited)
  <1>1. iteration \in [Bands -> [Schedule -> Schedule]]
    BY UpdateBandStep DEF IsUpdated
  <1>2. \A b \in Bands, qs \in Schedule :
            iteration[b][qs] = IF edited[b] THEN UpdateBand(qs, b) ELSE qs
    OBVIOUS
  <1>3. us = ForEachBand(iteration, ps)
    BY DEF UpdateEditedBands
  <1> HIDE DEF iteration, us
  <1>4. /\ area \in [Bands -> SUBSET Slots]
        /\ \A b, c \in Bands : b # c => area[b] \cap area[c] = {}
        /\ \A b \in Bands : area[b] = SlotsOf(b)
    BY Areas
  <1> HIDE DEF area
  <1>5. \A b \in Bands, qs \in Schedule, s \in Slots :
            s \notin area[b] => iteration[b][qs][s] = qs[s]
    BY <1>2, <1>4, UpdateBandStep DEF IsUpdated
  <1>6. IsBandsLoop(us, ps, iteration, area)
    BY <1>1, <1>3, <1>4, <1>5, BandsLoop
  <1>7. ASSUME NEW b \in Bands, NEW s \in SlotsOf(b)
        PROVE  /\ us[s].id = ps[s].id
               /\ edited[b] => Content(us[s]) = Content(ps[b])
               /\ ~edited[b] => us[s] = ps[s]
    <2>1. PICK qs \in Schedule :
              /\ \A t \in Slots : (\A c \in Bands : c # b => t \notin area[c]) => qs[t] = ps[t]
              /\ \A t \in Slots : t \in area[b] => us[t] = iteration[b][qs][t]
      BY <1>6 DEF IsBandsLoop
    <2>2. s \in Slots /\ b \in Slots /\ b \in SlotsOf(b)
      BY SlotList
    <2>3. qs[s] = ps[s] /\ qs[b] = ps[b] /\ us[s] = iteration[b][qs][s]
      BY <1>4, <2>1, <2>2
    <2>4. IsUpdated(UpdateBand(qs, b), qs, b)
      BY UpdateBandStep
    <2>5. edited[b] => us[s] = UpdateBand(qs, b)[s]
      BY <1>2, <2>3
    <2>6. ~edited[b] => us[s] = ps[s]
      BY <1>2, <2>3
    <2> QED  BY <2>3, <2>4, <2>5, <2>6 DEF IsUpdated
  <1> QED  BY <1>4, <1>6, <1>7 DEF us, AllUpdated, IsBandsLoop

AllExpanded(es, ps) ==
    /\ es \in Schedule
    /\ \A s \in Slots : (\A b \in Bands : s \notin SlotsOf(b)) => es[s] = ps[s]
    /\ \A b \in Bands : \A s \in SlotsOf(b) : SlotExpanded(es, ps, s, b)

\* What the outer loop of updatePeriodsADay leaves.
LEMMA BandsExpanded ==
  ASSUME NEW ps \in Schedule
  PROVE  AllExpanded(ExpandBands(ps), ps)
  <1> DEFINE iteration == [b \in Bands |-> [qs \in Schedule |-> ExpandBand(qs, b)]]
             area == [b \in Bands |-> SlotsOf(b)]
             es == ExpandBands(ps)
  <1>1. iteration \in [Bands -> [Schedule -> Schedule]]
    BY ExpandBandStep DEF IsExpanded
  <1>2. \A b \in Bands, qs \in Schedule : iteration[b][qs] = ExpandBand(qs, b)
    OBVIOUS
  <1>3. es = ForEachBand(iteration, ps)
    BY DEF ExpandBands
  <1> HIDE DEF iteration, es
  <1>4. /\ area \in [Bands -> SUBSET Slots]
        /\ \A b, c \in Bands : b # c => area[b] \cap area[c] = {}
        /\ \A b \in Bands : area[b] = SlotsOf(b)
    BY Areas
  <1> HIDE DEF area
  <1>5. \A b \in Bands, qs \in Schedule, s \in Slots :
            s \notin area[b] => iteration[b][qs][s] = qs[s]
    BY <1>2, <1>4, ExpandBandStep DEF IsExpanded
  <1>6. IsBandsLoop(es, ps, iteration, area)
    BY <1>1, <1>3, <1>4, <1>5, BandsLoop
  <1>7. ASSUME NEW b \in Bands, NEW s \in SlotsOf(b)
        PROVE  SlotExpanded(es, ps, s, b)
    <2>1. PICK qs \in Schedule :
              /\ \A t \in Slots : (\A c \in Bands : c # b => t \notin area[c]) => qs[t] = ps[t]
              /\ \A t \in Slots : t \in area[b] => es[t] = iteration[b][qs][t]
      BY <1>6 DEF IsBandsLoop
    <2>2. s \in Slots /\ b \in Slots /\ b \in SlotsOf(b)
      BY SlotList
    <2>3. qs[s] = ps[s] /\ qs[b] = ps[b] /\ es[s] = iteration[b][qs][s]
      BY <1>4, <2>1, <2>2
    <2>4. SlotExpanded(ExpandBand(qs, b), qs, s, b)
      BY ExpandBandStep DEF IsExpanded
    <2>5. es[s] = ExpandBand(qs, b)[s]
      BY <1>2, <2>3
    <2> QED  BY <2>3, <2>4, <2>5 DEF SlotExpanded
  <1> QED  BY <1>4, <1>6, <1>7 DEF es, AllExpanded, IsBandsLoop

\* Slot d of rs holds the double of row b, ticked and full, or the template.
DoubleEnsured(rs, ps, ticked, d, b) ==
    LET on == ticked[b] /\ ps[b].fullCourse
    IN  /\ rs[d].id = ps[d].id
        /\ on => Content(rs[d]) = Content(ps[b]) /\ rs[d].colorId = b
        /\ ~on => Content(rs[d]) = Content(ps[Template]) /\ rs[d].colorId = NoColor

IsEnsured(rs, ps, ticked, b) ==
    /\ rs \in Schedule
    /\ \A s \in Slots : s # DoubleSlot[b] => rs[s] = ps[s]
    /\ \A s \in Slots : s = DoubleSlot[b] => DoubleEnsured(rs, ps, ticked, s, b)

\* One double.
LEMMA EnsureDoubleStep ==
  ASSUME NEW ps \in Schedule, NEW ticked, NEW b \in Bands
  PROVE  IsEnsured(EnsureDouble(ps, ticked, b), ps, ticked, b)
  <1> DEFINE rs == EnsureDouble(ps, ticked, b)
             d == DoubleSlot[b]
             on == ticked[b] /\ ps[b].fullCourse
  <1>1. d \in Slots \cup {NoSlot} /\ NoSlot \notin Slots
    BY TablesAssumption DEF NoSlot
  <1>2. /\ b \in Slots /\ b \in Colors /\ NoColor \in Colors /\ Template \in Slots
    BY SlotList, TemplateIsNoRow
  <1>3. CASE d = NoSlot
    <2>1. rs = ps
      BY <1>3 DEF EnsureDouble
    <2> QED  BY <1>1, <1>3, <2>1 DEF IsEnsured
  <1>4. CASE d # NoSlot /\ on
    <2>1. rs = CopyInColor(ps, b, d, b)
      BY <1>4 DEF EnsureDouble
    <2>2. IsCopied(rs, ps, b, d, b)
      BY <1>1, <1>2, <1>4, <2>1, CopyInColorStep
    <2> HIDE DEF rs
    <2>3. IsEnsured(rs, ps, ticked, b)
      BY <1>1, <1>4, <2>2 DEF IsEnsured, IsCopied, DoubleEnsured
    <2> QED  BY <2>3 DEF rs
  <1>5. CASE d # NoSlot /\ ~on
    <2>1. rs = CopyInColor(ps, Template, d, NoColor)
      BY <1>5 DEF EnsureDouble
    <2>2. IsCopied(rs, ps, Template, d, NoColor)
      BY <1>1, <1>2, <1>5, <2>1, CopyInColorStep
    <2> HIDE DEF rs
    <2>3. IsEnsured(rs, ps, ticked, b)
      BY <1>1, <1>5, <2>2 DEF IsEnsured, IsCopied, DoubleEnsured
    <2> QED  BY <2>3 DEF rs
  <1> QED  BY <1>3, <1>4, <1>5

AllEnsured(rs, ps, ticked) ==
    /\ rs \in Schedule
    /\ \A s \in Slots : (\A b \in Bands : s # DoubleSlot[b]) => rs[s] = ps[s]
    /\ \A b \in Bands : \A s \in Slots :
           s = DoubleSlot[b] => DoubleEnsured(rs, ps, ticked, s, b)

\* What _ensureDoubleColors leaves.
LEMMA DoublesEnsured ==
  ASSUME NEW ps \in Schedule, NEW ticked
  PROVE  AllEnsured(EnsureDoubleColors(ps, ticked), ps, ticked)
  <1> DEFINE iteration == [b \in Bands |-> [qs \in Schedule |-> EnsureDouble(qs, ticked, b)]]
             area == [b \in Bands |-> {s \in Slots : s = DoubleSlot[b]}]
             rs == EnsureDoubleColors(ps, ticked)
  <1>1. iteration \in [Bands -> [Schedule -> Schedule]]
    BY EnsureDoubleStep DEF IsEnsured
  <1>2. \A b \in Bands, qs \in Schedule : iteration[b][qs] = EnsureDouble(qs, ticked, b)
    OBVIOUS
  <1>3. rs = ForEachBand(iteration, ps)
    BY DEF EnsureDoubleColors
  <1> HIDE DEF iteration, rs
  <1>4. /\ area \in [Bands -> SUBSET Slots]
        /\ \A b, c \in Bands : b # c => area[b] \cap area[c] = {}
        /\ \A b \in Bands, s \in Slots : s \in area[b] <=> s = DoubleSlot[b]
    BY Areas
  <1> HIDE DEF area
  <1>5. ASSUME NEW b \in Bands, NEW qs \in Schedule, NEW s \in Slots, s \notin area[b]
        PROVE  iteration[b][qs][s] = qs[s]
    <2>1. IsEnsured(EnsureDouble(qs, ticked, b), qs, ticked, b)
      BY EnsureDoubleStep
    <2> QED  BY <1>2, <1>4, <1>5, <2>1 DEF IsEnsured
  <1>6. IsBandsLoop(rs, ps, iteration, area)
    BY <1>1, <1>3, <1>4, <1>5, BandsLoop
  <1>7. ASSUME NEW b \in Bands, NEW s \in Slots, s = DoubleSlot[b]
        PROVE  DoubleEnsured(rs, ps, ticked, s, b)
    <2>1. PICK qs \in Schedule :
              /\ \A t \in Slots : (\A c \in Bands : c # b => t \notin area[c]) => qs[t] = ps[t]
              /\ \A t \in Slots : t \in area[b] => rs[t] = iteration[b][qs][t]
      BY <1>6 DEF IsBandsLoop
    <2>2. Template \in Slots /\ b \in Slots
      BY TemplateIsNoRow
    <2>3. qs[Template] = ps[Template] /\ qs[b] = ps[b]
      BY <1>4, <2>1, <2>2, DisjointAssumption
    <2>4. qs[s] = ps[s] /\ rs[s] = EnsureDouble(qs, ticked, b)[s]
      BY <1>2, <1>4, <1>7, <2>1
    <2>5. DoubleEnsured(EnsureDouble(qs, ticked, b), qs, ticked, s, b)
      BY <1>7, EnsureDoubleStep DEF IsEnsured
    <2> QED  BY <2>3, <2>4, <2>5 DEF DoubleEnsured
  <1> QED  BY <1>4, <1>6, <1>7 DEF rs, AllEnsured, IsBandsLoop

-----------------------------------------------------------------------------
(* The three loops of the Day sheet's Save, one after the other.           *)

\* What the loops leave in the slots, the ids, and the rows they read.
LEMMA LoopsStages ==
  ASSUME NEW ps \in Schedule, NEW ticked, NEW edited,
         NEW us, us = UpdateEditedBands(ps, edited),
         NEW es, es = ExpandBands(ClearEmptyPeriods(us)),
         NEW rs, rs = EnsureDoubleColors(es, ticked)
  PROVE  /\ AllUpdated(us, ps, edited)
         /\ ClearEmptyPeriods(us) \in Schedule
         /\ \A s \in Slots : ClearEmptyPeriods(us)[s] = Cleared(us[s])
         /\ AllExpanded(es, ClearEmptyPeriods(us))
         /\ AllEnsured(rs, es, ticked)
         /\ \A s \in Slots : us[s].id = ps[s].id /\ es[s].id = ps[s].id /\ rs[s].id = ps[s].id
  <1> DEFINE cs == ClearEmptyPeriods(us)
  <1>1. AllUpdated(us, ps, edited)
    BY EditedBandsUpdated
  <1>2. us \in Schedule /\ \A s \in Slots : us[s].id = ps[s].id
    BY <1>1 DEF AllUpdated
  <1>3. cs \in Schedule /\ \A s \in Slots : cs[s] = Cleared(us[s]) /\ cs[s].id = us[s].id
    BY <1>2, ClearedKeeps, PeriodFields DEF ClearEmptyPeriods, Schedule
  <1> HIDE DEF cs
  <1>4. AllExpanded(es, cs)
    BY <1>3, BandsExpanded DEF cs
  <1>5. es \in Schedule /\ \A s \in Slots : es[s].id = cs[s].id
    BY <1>4 DEF AllExpanded, SlotExpanded
  <1>6. AllEnsured(rs, es, ticked)
    BY <1>5, DoublesEnsured
  <1>7. \A s \in Slots : rs[s].id = es[s].id
    BY <1>6 DEF AllEnsured, DoubleEnsured
  <1> QED  BY <1>1, <1>2, <1>3, <1>4, <1>5, <1>6, <1>7 DEF cs

\* The row of a band after the first three loops: a full course just when the row
\* held a course, and then with its content.
LEMMA RowAfterExpansion ==
  ASSUME NEW ps \in Schedule, NEW edited, NEW b \in Bands,
         NEW us, AllUpdated(us, ps, edited),
         NEW cs \in Schedule, \A s \in Slots : cs[s] = Cleared(us[s]),
         NEW es, AllExpanded(es, cs)
  PROVE  /\ Content(us[b]) = Content(ps[b])
         /\ cs[b].fullCourse <=> HasCourse(ps, b)
         /\ es[b].fullCourse <=> HasCourse(ps, b)
         /\ HasCourse(ps, b) => Content(cs[b]) = Content(ps[b]) /\ Content(es[b]) = Content(ps[b])
  <1>1. /\ b \in Slots /\ b \in SlotsOf(b) /\ us \in Schedule /\ es \in Schedule
        /\ ps[b] \in Period /\ us[b] \in Period
    BY SlotList, PeriodFields DEF AllUpdated, AllExpanded
  <1>2. Content(us[b]) = Content(ps[b])
    BY <1>1 DEF AllUpdated
  <1>3. /\ us[b].fullCourse <=> ps[b].fullCourse
        /\ IsBlank(us[b]) <=> IsBlank(ps[b])
    BY <1>2 DEF Content, IsBlank
  <1>4. cs[b].fullCourse <=> HasCourse(ps, b)
    BY <1>1, <1>3, ClearedKeeps DEF HasCourse
  <1>5. HasCourse(ps, b) => Content(cs[b]) = Content(ps[b])
    <2>1. HasCourse(ps, b) => cs[b] = us[b]
      BY <1>1, <1>3 DEF HasCourse, Cleared
    <2> QED  BY <1>2, <2>1
  <1>6. Content(es[b]) = Content(cs[b])
    BY <1>1 DEF AllExpanded, SlotExpanded
  <1>7. es[b].fullCourse <=> cs[b].fullCourse
    BY <1>6 DEF Content
  <1> QED  BY <1>2, <1>4, <1>5, <1>6, <1>7

\* The loops of ADayState.save compute the slot-by-slot Save of BandPlan, for every
\* schedule, every set of ticked doubles and every set of edited rows.
THEOREM LoopsComputeDaySave ==
  ASSUME NEW ps \in Schedule, NEW ticked, NEW edited
  PROVE  UpdatePeriodsADay(UpdateEditedBands(ps, edited), ticked) = DaySave(ps, ticked, edited)
  <1> DEFINE us == UpdateEditedBands(ps, edited)
             cs == ClearEmptyPeriods(us)
             es == ExpandBands(cs)
             rs == EnsureDoubleColors(es, ticked)
             ds == DaySave(ps, ticked, edited)
  <1>1. /\ AllUpdated(us, ps, edited) /\ cs \in Schedule
        /\ \A s \in Slots : cs[s] = Cleared(us[s])
        /\ AllExpanded(es, cs) /\ AllEnsured(rs, es, ticked)
        /\ \A s \in Slots : us[s].id = ps[s].id /\ es[s].id = ps[s].id /\ rs[s].id = ps[s].id
    <2>1. /\ us = UpdateEditedBands(ps, edited) /\ cs = ClearEmptyPeriods(us)
          /\ es = ExpandBands(ClearEmptyPeriods(us)) /\ rs = EnsureDoubleColors(es, ticked)
      OBVIOUS
    <2> HIDE DEF us, cs, es, rs
    <2> QED  BY <2>1, LoopsStages
  <1>2. UpdatePeriodsADay(us, ticked) = rs
    BY DEF UpdatePeriodsADay
  <1> HIDE DEF us, cs, es, rs, ds
  <1>3. us \in Schedule /\ es \in Schedule /\ rs \in Schedule
    BY <1>1 DEF AllUpdated, AllExpanded, AllEnsured
  <1>4. \A s \in Slots : ps[s] \in Period /\ us[s] \in Period /\ cs[s] \in Period
                         /\ es[s] \in Period /\ rs[s] \in Period
    BY <1>1, <1>3, PeriodFields
  <1>5. \A b \in Bands :
            /\ cs[b].fullCourse <=> HasCourse(ps, b)
            /\ es[b].fullCourse <=> HasCourse(ps, b)
            /\ HasCourse(ps, b) => Content(cs[b]) = Content(ps[b]) /\ Content(es[b]) = Content(ps[b])
    BY <1>1, RowAfterExpansion
  <1>6. Template \in Slots /\ es[Template] = Cleared(ps[Template])
    <2>1. /\ Template \in Slots
          /\ \A b \in Bands : Template # DoubleSlot[b] /\ Template \notin SlotsOf(b)
      BY TemplateIsNoRow, DisjointAssumption
    <2> QED  BY <1>1, <2>1 DEF AllUpdated, AllExpanded
  <1>7. ASSUME NEW s \in Slots, NEW b \in Bands, s = DoubleSlot[b]
        PROVE  rs[s] = ds[s]
    <2>1. ds[s] = DoublePeriod(ps, ticked, s, b)
      <3>1. DoubleSlot[b] # NoSlot
        BY <1>7, TablesAssumption DEF NoSlot
      <3> QED  BY <1>7, <3>1, DoubleSlotIsRuled DEF ds
    <2>2. DoubleEnsured(rs, es, ticked, s, b)
      BY <1>1, <1>7 DEF AllEnsured
    <2>3. b \in Slots /\ b \in Colors /\ NoColor \in Colors
      BY SlotList
    <2>4. CASE ticked[b] /\ HasCourse(ps, b)
      <3> DEFINE copy == CopyFields(ps[s], ps[b])
      <3>1. copy \in Period /\ copy.id = ps[s].id /\ Content(copy) = Content(ps[b])
        BY <1>4, <2>3, CopyTakes
      <3>2. ds[s] = Paint(copy, b)
        BY <2>1, <2>4 DEF DoublePeriod
      <3> HIDE DEF copy
      <3>3. /\ ds[s] \in Period /\ ds[s].id = ps[s].id
            /\ Content(ds[s]) = Content(ps[b]) /\ ds[s].colorId = b
        BY <2>3, <3>1, <3>2, PaintKeeps
      <3>4. rs[s].id = ps[s].id /\ Content(rs[s]) = Content(ps[b]) /\ rs[s].colorId = b
        BY <1>1, <1>5, <2>2, <2>4 DEF DoubleEnsured
      <3> QED  BY <1>4, <3>3, <3>4, PeriodIsContent
    <2>5. CASE ~(ticked[b] /\ HasCourse(ps, b))
      <3> DEFINE copy == CopyFields(ps[s], Cleared(ps[Template]))
      <3>1. copy \in Period /\ copy.id = ps[s].id /\ Content(copy) = Content(es[Template])
        BY <1>4, <1>6, CopyTakes
      <3>2. ds[s] = Paint(copy, NoColor)
        BY <2>1, <2>5 DEF DoublePeriod
      <3> HIDE DEF copy
      <3>3. /\ ds[s] \in Period /\ ds[s].id = ps[s].id
            /\ Content(ds[s]) = Content(es[Template]) /\ ds[s].colorId = NoColor
        BY <2>3, <3>1, <3>2, PaintKeeps
      <3>4. rs[s].id = ps[s].id /\ Content(rs[s]) = Content(es[Template]) /\ rs[s].colorId = NoColor
        BY <1>1, <1>5, <2>2, <2>5 DEF DoubleEnsured
      <3> QED  BY <1>4, <3>3, <3>4, PeriodIsContent
    <2> QED  BY <2>4, <2>5
  <1>8. ASSUME NEW s \in Slots, \A b \in Bands : s # DoubleSlot[b],
               NEW b \in Bands, s \in SlotsOf(b)
        PROVE  rs[s] = ds[s]
    <2>1. ds[s] = BandPeriod(ps, edited, s, b)
      BY <1>8, BandSlotIsRuled DEF ds
    <2>2. rs[s] = es[s] /\ SlotExpanded(es, cs, s, b)
      BY <1>1, <1>8 DEF AllEnsured, AllExpanded
    <2>3. b \in Slots /\ b \in Colors /\ NoColor \in Colors
      BY SlotList
    <2>4. CASE HasCourse(ps, b)
      <3> DEFINE copy == CopyFields(ps[s], ps[b])
      <3>1. copy \in Period /\ copy.id = ps[s].id /\ Content(copy) = Content(ps[b])
        BY <1>4, <2>3, CopyTakes
      <3>2. ds[s] = Paint(copy, b)
        BY <2>1, <2>4 DEF BandPeriod
      <3> HIDE DEF copy
      <3>3. /\ ds[s] \in Period /\ ds[s].id = ps[s].id
            /\ Content(ds[s]) = Content(ps[b]) /\ ds[s].colorId = b
        BY <2>3, <3>1, <3>2, PaintKeeps
      <3>4. es[s].id = ps[s].id /\ Content(es[s]) = Content(ps[b]) /\ es[s].colorId = b
        BY <1>1, <1>5, <2>2, <2>4 DEF SlotExpanded
      <3> QED  BY <1>4, <2>2, <3>3, <3>4, PeriodIsContent
    <2>5. CASE ~HasCourse(ps, b)
      <3> DEFINE kept == IF edited[b] THEN CopyFields(ps[s], ps[b]) ELSE ps[s]
                 clear == Cleared(kept)
      <3>1. kept \in Period /\ kept.id = ps[s].id /\ Content(kept) = Content(us[s])
        <4>1. CASE edited[b]
          <5>1. Content(us[s]) = Content(ps[b])
            BY <1>1, <1>8, <4>1 DEF AllUpdated
          <5> QED  BY <1>4, <2>3, <4>1, <5>1, CopyTakes
        <4>2. CASE ~edited[b]
          BY <1>1, <1>4, <1>8, <4>2 DEF AllUpdated
        <4> QED  BY <4>1, <4>2
      <3>2. ds[s] = Paint(clear, NoColor)
        BY <2>1, <2>5 DEF BandPeriod
      <3> HIDE DEF kept
      <3>3. clear \in Period /\ clear.id = ps[s].id /\ Content(clear) = Content(cs[s])
        BY <1>1, <1>4, <3>1, ClearedKeeps
      <3> HIDE DEF clear
      <3>4. /\ ds[s] \in Period /\ ds[s].id = ps[s].id
            /\ Content(ds[s]) = Content(cs[s]) /\ ds[s].colorId = NoColor
        BY <2>3, <3>2, <3>3, PaintKeeps
      <3>5. es[s].id = ps[s].id /\ Content(es[s]) = Content(cs[s]) /\ es[s].colorId = NoColor
        BY <1>1, <1>5, <2>2, <2>5 DEF SlotExpanded
      <3> QED  BY <1>4, <2>2, <3>4, <3>5, PeriodIsContent
    <2> QED  BY <2>4, <2>5
  <1>9. ASSUME NEW s \in Slots, \A b \in Bands : s # DoubleSlot[b],
               \A b \in Bands : s \notin SlotsOf(b)
        PROVE  rs[s] = ds[s]
    <2>1. DoublesIn(s) = {} /\ MeetsIn(s) = {}
      BY <1>9 DEF DoublesIn, MeetsIn
    <2>2. ds[s] = Cleared(ps[s])
      BY <2>1 DEF ds, DaySave
    <2> QED  BY <1>1, <1>9, <2>2 DEF AllUpdated, AllExpanded, AllEnsured
  <1>10. \A s \in Slots : rs[s] = ds[s]
    BY <1>7, <1>8, <1>9
  <1>11. ds = [s \in Slots |-> ds[s]]
    BY DEF ds, DaySave
  <1>12. rs = [s \in Slots |-> rs[s]]
    BY <1>3 DEF Schedule
  <1>13. rs = ds
    BY <1>10, <1>11, <1>12
  <1> QED  BY <1>2, <1>13 DEF us, ds

\* ADayState.save with its loops makes the step that Sheets gives it.
LEMMA LoopStep == Inv /\ [LoopNext]_vars => [Next]_vars
  <1> SUFFICES ASSUME Inv, [LoopNext]_vars
               PROVE  [Next]_vars
    OBVIOUS
  <1>1. CASE LoopSaveDay
    <2>1. periods \in Schedule
      BY DEF Inv, TypeOK
    <2>2. SaveDay
      BY <1>1, <2>1, LoopsComputeDaySave DEF LoopSaveDay, SaveDay
    <2> QED  BY <2>2 DEF Next
  <1>2. CASE LoopNext /\ ~LoopSaveDay
    BY <1>2 DEF LoopNext, Next
  <1>3. CASE UNCHANGED vars
    BY <1>3
  <1> QED  BY <1>1, <1>2, <1>3

\* The Day sheet of the code, which rewrites the list of periods in place, loop
\* after loop, implements Sheets, whose Save writes every slot once.
THEOREM LoopsAreThePlan == LoopSpec => LoopsImplementPlan
  <1>1. Inv /\ [LoopNext]_vars => Inv'
    BY LoopStep, NextInv
  <1> QED  BY <1>1, InitInv, LoopStep, PTL DEF LoopSpec, LoopsImplementPlan, Spec
=============================================================================
