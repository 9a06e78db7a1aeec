---------------------------- MODULE SignInProofs ----------------------------
(***************************************************************************)
(* The safety properties of SignIn, for any set of emails and any number   *)
(* of forms whose calls are under way together.                            *)
(***************************************************************************)
EXTENDS SignIn, SequenceTheorems, TLAPS

(* What the proofs need of the data.                                       *)

\* There is a first form.
LEMMA OneForm == 1 \in Forms
  BY SignInAssumption DEF Forms

\* Sequences of users stay typed when the set of accounts grows.
LEMMA AppendTyped ==
    ASSUME NEW S, NEW T, S \subseteq T, NEW s \in Seq(S), NEW u \in T
    PROVE  Append(s, u) \in Seq(T) /\ s \in Seq(T)
OBVIOUS

\* Init and Reload report one user.
LEMMA SingletonTyped ==
    ASSUME NEW S, NEW u \in S
    PROVE  <<u>> \in Seq(S)
OBVIOUS

\* The first report is a user, and so are the others.
LEMMA TailTyped ==
    ASSUME NEW S, NEW s \in Seq(S), s # <<>>
    PROVE  Head(s) \in S /\ Tail(s) \in Seq(S)
OBVIOUS

\* Sequences of at most two reports.
LEMMA ShortSequences ==
    ASSUME NEW u, NEW v
    PROVE  /\ <<u>> # <<>> /\ Append(<<>>, u) = <<u>> /\ Append(<<u>>, v) = <<u, v>>
           /\ Head(<<u>>) = u /\ Tail(<<u>>) = <<>>
           /\ Head(<<u, v>>) = u /\ Tail(<<u, v>>) = <<v>>
<1> DEFINE S == {u, v}
<1>1. <<>> \in Seq(S) /\ <<u>> \in Seq(S) /\ <<u, v>> \in Seq(S)
  OBVIOUS
<1>2. Len(<<>>) = 0 /\ Len(<<u>>) = 1 /\ Len(<<u, v>>) = 2
  OBVIOUS
<1>3. <<u>> # <<>> /\ Head(<<u>>) = u /\ Head(<<u, v>>) = u
  OBVIOUS
<1>4. Append(<<>>, u) = <<u>>
  BY <1>1, <1>2
<1>5. Append(<<u>>, v) = <<u, v>>
  <2> DEFINE s == Append(<<u>>, v)
  <2>1. s \in Seq(S) /\ Len(s) = 2 /\ s[1] = u /\ s[2] = v
    BY <1>1, <1>2
  <2>2. <<u, v>>[1] = u /\ <<u, v>>[2] = v
    OBVIOUS
  <2> HIDE DEF s
  <2>3. \A i \in 1..2 : s[i] = <<u, v>>[i]
    BY <2>1, <2>2
  <2>4. s = <<u, v>>
    BY <1>1, <1>2, <2>1, <2>3, SeqEqual
  <2> QED
    BY <2>4 DEF s
<1>6. Tail(<<u>>) = <<>>
  OBVIOUS
<1>7. Tail(<<u, v>>) = <<v>>
  OBVIOUS
<1> QED
  BY <1>3, <1>4, <1>5, <1>6, <1>7

\* A form that waits for nothing has a call that is over.
LEMMA NoCallTyped == NoCall \in Calls /\ NoCall.state = "over"
  BY DEF NoCall, Call, Calls, Types

\* An answer changes the state of a call and nothing else.
LEMMA AnswerTyped ==
    ASSUME NEW c \in Calls, NEW st \in {"waiting", "succeeded", "failed", "over"}
    PROVE  /\ [c EXCEPT !.state = st] \in Calls
           /\ [c EXCEPT !.state = st].state = st
           /\ [c EXCEPT !.state = st].email = c.email
           /\ [c EXCEPT !.state = st].what = c.what
  BY DEF Calls

\* Empty fields are contents of the form.
LEMMA EmptyTyped ==
    Empty \in Content /\ Empty.email = NoText /\ Empty.password = NoText
  BY DEF Empty, Content

-----------------------------------------------------------------------------
(* The form: a field shows what its variable holds, or nothing.  TypeOK     *)
(* needs this: without it a call might be made for the empty email.        *)

FieldsAgree ==
    /\ shown.email \in {NoText, fields.email}
    /\ shown.password \in {NoText, fields.password}

CallsNamed == \A f \in Forms : call[f].state = "waiting" => call[f].email \in Emails

FormInv == TypeOK /\ FieldsAgree /\ CallsNamed

\* FormInv holds when the app starts.
LEMMA FormInit == Init => FormInv
<1> SUFFICES ASSUME Init PROVE FormInv
  OBVIOUS
<1>1. events \in Seq(accounts \cup {Nobody})
  BY SingletonTyped DEF Init
<1>2. call \in [Forms -> Calls] /\ CallsNamed
  BY NoCallTyped DEF Init, CallsNamed
<1> QED
  BY <1>1, <1>2, OneForm, EmptyTyped DEF Init, FormInv, TypeOK, FieldsAgree, Types

\* Every step keeps FormInv: in a form that validates, the fields are filled,
\* and so the variables hold the same.
LEMMA FormStep == FormInv /\ [Next]_vars => FormInv'
<1> SUFFICES ASSUME FormInv, [Next]_vars PROVE FormInv'
  OBVIOUS
<1> USE OneForm, EmptyTyped, NoCallTyped DEF FormInv
<1>1. ASSUME NEW email \in Emails \cup {NoText}, TypeEmail(email) PROVE FormInv'
  BY <1>1 DEF TypeOK, FieldsAgree, CallsNamed, TypeEmail, Content
<1>2. ASSUME NEW password \in Passwords \cup {NoText}, TypePassword(password)
      PROVE  FormInv'
  BY <1>2 DEF TypeOK, FieldsAgree, CallsNamed, TypePassword, Content
<1>3. ASSUME NEW t \in Types, Choose(t) PROVE FormInv'
  BY <1>3 DEF TypeOK, FieldsAgree, CallsNamed, Choose
<1>4. CASE Submit
  <2>1. fields.email \in Emails
    BY <1>4 DEF TypeOK, FieldsAgree, Submit, Validates, Content
  <2>2. Call(type, fields.email, "waiting") \in Calls
    BY <2>1 DEF TypeOK, Call, Calls
  <2>3. call' \in [Forms -> Calls] /\ CallsNamed'
    BY <1>4, <2>1, <2>2 DEF TypeOK, CallsNamed, Submit, Call
  <2> QED
    BY <1>4, <2>3 DEF TypeOK, FieldsAgree, Submit
<1>5. ASSUME NEW f \in Forms, GoOn(f) PROVE FormInv'
  <2>1. call' \in [Forms -> Calls] /\ CallsNamed'
    BY <1>5 DEF TypeOK, CallsNamed, GoOn
  <2> QED
    BY <1>5, <2>1 DEF TypeOK, FieldsAgree, GoOn
<1>6. ASSUME NEW f \in Forms, Succeeds(f) PROVE FormInv'
  <2>1. call[f].email \in Emails
    BY <1>6 DEF CallsNamed, Succeeds
  <2>2. accounts' \subseteq Emails /\ user' \in accounts' \cup {Nobody}
    BY <1>6, <2>1 DEF TypeOK, Succeeds, SetUser
  <2>3. events' \in Seq(accounts' \cup {Nobody})
    <3>1. accounts \cup {Nobody} \subseteq accounts' \cup {Nobody}
      BY <1>6 DEF Succeeds
    <3>2. call[f].email \in accounts' \cup {Nobody}
      BY <1>6 DEF Succeeds
    <3> QED
      BY <1>6, <3>1, <3>2, AppendTyped DEF TypeOK, Succeeds, SetUser
  <2>4. call' \in [Forms -> Calls] /\ CallsNamed'
    <3>1. call[f] \in Calls /\ call' = [call EXCEPT ![f] = [call[f] EXCEPT !.state = "succeeded"]]
      BY <1>6 DEF TypeOK, Succeeds
    <3> QED
      BY <3>1, AnswerTyped DEF TypeOK, CallsNamed
  <2> QED
    BY <1>6, <2>2, <2>3, <2>4 DEF TypeOK, FieldsAgree, Succeeds, formVars
<1>7. ASSUME NEW f \in Forms, Fails(f) PROVE FormInv'
  <2>1. call[f] \in Calls /\ call' = [call EXCEPT ![f] = [call[f] EXCEPT !.state = "failed"]]
    BY <1>7 DEF TypeOK, Fails
  <2>2. call' \in [Forms -> Calls] /\ CallsNamed'
    BY <2>1, AnswerTyped DEF TypeOK, CallsNamed
  <2> QED
    BY <1>7, <2>2 DEF TypeOK, FieldsAgree, Fails, formVars
<1>8. ASSUME NEW f \in Forms, AnswerLost(f) PROVE FormInv'
  <2>1. call[f].email \in Emails
    BY <1>8 DEF CallsNamed, AnswerLost
  <2>2. events' \in Seq(accounts' \cup {Nobody})
    <3>1. accounts \cup {Nobody} \subseteq accounts' \cup {Nobody}
      BY <1>8 DEF AnswerLost
    <3> QED
      BY <1>8, <3>1, AppendTyped DEF TypeOK, AnswerLost
  <2>3. call' \in [Forms -> Calls] /\ CallsNamed'
    <3>1. call[f] \in Calls /\ call' = [call EXCEPT ![f] = [call[f] EXCEPT !.state = "failed"]]
      BY <1>8 DEF TypeOK, AnswerLost
    <3> QED
      BY <3>1, AnswerTyped DEF TypeOK, CallsNamed
  <2> QED
    BY <1>8, <2>1, <2>2, <2>3 DEF TypeOK, FieldsAgree, AnswerLost, formVars
<1>9. CASE Report
  <2>1. events' \in Seq(accounts' \cup {Nobody}) /\ home' \in accounts' \cup {Nobody}
    <3>1. Head(events) \in accounts \cup {Nobody} /\ Tail(events) \in Seq(accounts \cup {Nobody})
      BY <1>9, TailTyped DEF TypeOK, Report
    <3> QED
      BY <1>9, <3>1 DEF TypeOK, Report
  <2>2. CASE Head(events) = Nobody /\ home # Nobody
    BY <1>9, <2>1, <2>2 DEF TypeOK, FieldsAgree, CallsNamed, Report, FreshForm, Types
  <2>3. CASE ~(Head(events) = Nobody /\ home # Nobody)
    BY <1>9, <2>1, <2>3 DEF TypeOK, FieldsAgree, CallsNamed, Report, formVars
  <2> QED
    BY <2>2, <2>3
<1>10. CASE Logout
  <2>1. events' \in Seq(accounts' \cup {Nobody})
    BY <1>10, AppendTyped DEF TypeOK, Logout, SetUser
  <2> QED
    BY <1>10, <2>1 DEF TypeOK, FieldsAgree, CallsNamed, Logout, SetUser, formVars
<1>11. CASE Reload
  <2>1. PICK sent \in SUBSET {f \in Forms :
            call[f].state = "waiting" /\ call[f].what = "register"} :
          accounts' = accounts \cup {call[f].email : f \in sent}
    BY <1>11 DEF Reload
  <2>2. accounts' \subseteq Emails /\ accounts \subseteq accounts'
    <3>1. \A f \in sent : call[f].email \in Emails
      BY <2>1 DEF CallsNamed
    <3> QED
      BY <2>1, <3>1 DEF TypeOK
  <2>3. user' \in accounts' \cup {Nobody} /\ events' \in Seq(accounts' \cup {Nobody})
    BY <1>11, <2>2 DEF TypeOK, Reload
  <2> QED
    BY <1>11, <2>2, <2>3
    DEF TypeOK, FieldsAgree, CallsNamed, Reload, FreshForm, Types
<1>12. CASE UNCHANGED vars
  BY <1>12 DEF TypeOK, FieldsAgree, CallsNamed, vars, formVars
<1> QED
  BY <1>1, <1>2, <1>3, <1>4, <1>5, <1>6, <1>7, <1>8, <1>9, <1>10, <1>11, <1>12
  DEF Next

\* FormInv holds in every reachable state.
LEMMA FormAlways == Spec => []FormInv
  BY FormInit, FormStep, PTL DEF Spec

\* Every variable of the form, of Firebase Auth and of the stream keeps its
\* type, and reports name registered users.
THEOREM TypeCorrect == Spec => []TypeOK
<1>1. FormInv => TypeOK
  BY DEF FormInv
<1> QED
  BY <1>1, FormAlways, PTL

\* A step that starts a call is a press of the button on this form.
LEMMA CallsStartBySubmit ==
    ASSUME FormInv, [Next]_vars,
           NEW f \in Forms, call[f].state # "waiting", call'[f].state = "waiting"
    PROVE  Submit /\ f = form
<1> USE DEF FormInv, TypeOK
<1>1. Submit => f = form
  BY DEF Submit
<1>2. ~ \E g \in Forms : GoOn(g)
  BY NoCallTyped DEF GoOn
<1>3. ~ \E g \in Forms : Succeeds(g)
  BY DEF Succeeds, Calls
<1>4. ~ \E g \in Forms : Fails(g) \/ AnswerLost(g)
  BY DEF Fails, AnswerLost, Calls
<1>5. ~ Reload
  BY NoCallTyped DEF Reload
<1>6. call' # call
  OBVIOUS
<1> QED
  BY <1>1, <1>2, <1>3, <1>4, <1>5, <1>6
  DEF Next, TypeEmail, TypePassword, Choose, Report, Logout, vars

\* The button sends what the fields show, although the spinner empties the
\* fields and not the variables behind them.
THEOREM SubmitsShown == Spec => SubmitsWhatIsShown
<1>1. ASSUME FormInv, [Next]_vars,
             NEW f \in Forms, call[f].state # "waiting", call'[f].state = "waiting"
      PROVE  call'[f].email = shown.email /\ fields.password = shown.password
  <2>1. Submit /\ f = form
    BY <1>1, CallsStartBySubmit
  <2> QED
    BY <1>1, <2>1, SignInAssumption
    DEF FormInv, TypeOK, FieldsAgree, Submit, Validates, Call, Passwords
<1>2. FormInv /\ [Next]_vars =>
        [\A f \in Forms : call[f].state # "waiting" /\ call'[f].state = "waiting" =>
            /\ call'[f].email = shown.email
            /\ fields.password = shown.password]_vars
  BY <1>1
<1> QED
  BY <1>2, FormAlways, PTL DEF Spec, SubmitsWhatIsShown

-----------------------------------------------------------------------------
(* The spinner.  The reports end with the user of the session; a call that  *)
(* has signed somebody in leaves a report behind it.                        *)

UserReported == \E i \in DOMAIN events : events[i] # Nobody

ReportsEndWithUser ==
    /\ events # <<>> => events[Len(events)] = user
    /\ events = <<>> /\ home = Nobody => user = Nobody

SuccessReported ==
    home = Nobody /\ call[form].state = "succeeded" => UserReported

SpinnerInv == ReportsEndWithUser /\ SuccessReported /\ SpinnerHasReason

\* What remains of the reports after the first.
LEMMA TailReports ==
    ASSUME NEW S, NEW s \in Seq(S), s # <<>>
    PROVE  /\ Tail(s) # <<>> => Tail(s)[Len(Tail(s))] = s[Len(s)]
           /\ Tail(s) = <<>> => Head(s) = s[Len(s)]
           /\ \A i \in DOMAIN s : s[i] # Head(s) =>
                \E j \in DOMAIN Tail(s) : Tail(s)[j] = s[i]
<1>1. Len(Tail(s)) = Len(s) - 1 /\ DOMAIN s = 1..Len(s) /\ Len(s) \in Nat \ {0}
  OBVIOUS
<1>2. \A j \in 1..(Len(s) - 1) : Tail(s)[j] = s[j + 1]
  OBVIOUS
<1>3. DOMAIN Tail(s) = 1..(Len(s) - 1)
  OBVIOUS
<1>4. ASSUME NEW i \in DOMAIN s, s[i] # Head(s)
      PROVE  \E j \in DOMAIN Tail(s) : Tail(s)[j] = s[i]
  <2>1. i # 1
    BY <1>4
  <2>2. i - 1 \in 1..(Len(s) - 1) /\ Tail(s)[i - 1] = s[i]
    BY <1>1, <1>2, <2>1
  <2> QED
    BY <1>3, <2>2
<1> QED
  BY <1>1, <1>2, <1>3, <1>4

\* What is there after one more report.
LEMMA AppendReports ==
    ASSUME NEW S, NEW s \in Seq(S), NEW u \in S
    PROVE  /\ Append(s, u) # <<>>
           /\ Len(Append(s, u)) \in DOMAIN Append(s, u)
           /\ Append(s, u)[Len(Append(s, u))] = u
           /\ \A i \in DOMAIN s : i \in DOMAIN Append(s, u) /\ Append(s, u)[i] = s[i]
OBVIOUS

\* SpinnerInv holds when the app starts.
LEMMA SpinnerInit == Init => SpinnerInv
<1> SUFFICES ASSUME Init PROVE SpinnerInv
  OBVIOUS
<1>1. call[form].state = "over" /\ ~loading
  BY OneForm, NoCallTyped DEF Init
<1>2. Len(events) = 1 /\ events[1] = user /\ events # <<>>
  BY DEF Init
<1> QED
  BY <1>1, <1>2 DEF SpinnerInv, ReportsEndWithUser, SuccessReported, SpinnerHasReason

\* The part of SpinnerInv that speaks of the form, when the call of a form, its
\* spinner, the reports and Home stay as they are.
LEMMA SpinnerKept ==
    ASSUME SpinnerInv, UNCHANGED <<user, events, home, form, loading, call>>
    PROVE  SpinnerInv'
  BY DEF SpinnerInv, ReportsEndWithUser, SuccessReported, SpinnerHasReason, UserReported

\* Every step keeps SpinnerInv.
LEMMA SpinnerStep == FormInv /\ SpinnerInv /\ [Next]_vars => SpinnerInv'
<1> SUFFICES ASSUME FormInv, SpinnerInv, [Next]_vars PROVE SpinnerInv'
  OBVIOUS
<1> DEFINE S == Emails \cup {Nobody}
<1>0. events \in Seq(S) /\ call \in [Forms -> Calls] /\ form \in Forms
  <2>1. events \in Seq(accounts \cup {Nobody}) /\ accounts \cup {Nobody} \subseteq S
    BY DEF FormInv, TypeOK
  <2>2. events \in Seq(S)
    BY <2>1
  <2> QED
    BY <2>2 DEF FormInv, TypeOK
<1> HIDE DEF S
<1>1. ASSUME NEW email \in Emails \cup {NoText}, TypeEmail(email) PROVE SpinnerInv'
  BY <1>1, SpinnerKept DEF TypeEmail
<1>2. ASSUME NEW password \in Passwords \cup {NoText}, TypePassword(password)
      PROVE  SpinnerInv'
  BY <1>2, SpinnerKept DEF TypePassword
<1>3. ASSUME NEW t \in Types, Choose(t) PROVE SpinnerInv'
  BY <1>3, SpinnerKept DEF Choose
<1>4. CASE Submit
  BY <1>0, <1>4
  DEF Submit, Call, SpinnerInv, ReportsEndWithUser, SuccessReported,
      SpinnerHasReason, UserReported
<1>5. ASSUME NEW f \in Forms, GoOn(f) PROVE SpinnerInv'
  <2>1. CASE f = form
    BY <1>0, <1>5, <2>1, NoCallTyped
    DEF GoOn, SpinnerInv, ReportsEndWithUser, SuccessReported, SpinnerHasReason,
        UserReported
  <2>2. CASE f # form
    BY <1>0, <1>5, <2>2
    DEF GoOn, SpinnerInv, ReportsEndWithUser, SuccessReported, SpinnerHasReason,
        UserReported
  <2> QED
    BY <2>1, <2>2
<1>6. ASSUME NEW f \in Forms, Succeeds(f) PROVE SpinnerInv'
  <2>1. call[f].email \in Emails
    BY <1>6 DEF FormInv, CallsNamed, Succeeds
  <2>2. call' = [call EXCEPT ![f] = [call[f] EXCEPT !.state = "succeeded"]]
    BY <1>0, <1>6 DEF Succeeds
  <2>3. ReportsEndWithUser'
    BY <1>0, <1>6, <2>1, AppendReports, SignInAssumption
    DEF Succeeds, SetUser, SpinnerInv, ReportsEndWithUser, S
  <2>4. home = Nobody => UserReported'
    BY <1>0, <1>6, <2>1, <2>3, AppendReports, SignInAssumption
    DEF Succeeds, SetUser, SpinnerInv, ReportsEndWithUser, UserReported, S
  <2>5. \A g \in Forms : call'[g].state # "over" <=> call[g].state # "over"
    BY <1>0, <1>6, <2>2, AnswerTyped DEF Succeeds
  <2> QED
    BY <1>0, <1>6, <2>3, <2>4, <2>5
    DEF Succeeds, SpinnerInv, SuccessReported, SpinnerHasReason, UserReported, formVars
<1>7. ASSUME NEW f \in Forms, Fails(f) \/ AnswerLost(f) PROVE SpinnerInv'
  <2>1. /\ call' = [call EXCEPT ![f] = [call[f] EXCEPT !.state = "failed"]]
        /\ call[f].state = "waiting"
        /\ UNCHANGED <<user, events, home, form, loading>>
    BY <1>0, <1>7 DEF Fails, AnswerLost, formVars
  <2>2. \A g \in Forms : /\ call'[g].state # "over" <=> call[g].state # "over"
                         /\ call'[g].state = "succeeded" <=> call[g].state = "succeeded"
    BY <1>0, <2>1, AnswerTyped
  <2> QED
    BY <1>0, <2>1, <2>2
    DEF SpinnerInv, ReportsEndWithUser, SuccessReported, SpinnerHasReason, UserReported
<1>8. CASE Report
  <2>1. ReportsEndWithUser'
    BY <1>0, <1>8, TailReports DEF Report, SpinnerInv, ReportsEndWithUser
  <2>2. CASE Head(events) = Nobody /\ home # Nobody
    BY <1>8, <2>1, <2>2
    DEF Report, FreshForm, SpinnerInv, SuccessReported, SpinnerHasReason
  <2>3. CASE Head(events) # Nobody
    BY <1>8, <2>1, <2>3
    DEF Report, SpinnerInv, SuccessReported, SpinnerHasReason, UserReported
  <2>4. CASE Head(events) = Nobody /\ home = Nobody
    <3>1. UserReported => UserReported'
      BY <1>0, <1>8, <2>4, TailReports DEF Report, UserReported
    <3> QED
      BY <1>8, <2>1, <2>4, <3>1
      DEF Report, SpinnerInv, SuccessReported, SpinnerHasReason, UserReported, formVars
  <2> QED
    BY <2>2, <2>3, <2>4
<1>9. CASE Logout
  <2>1. ReportsEndWithUser'
    BY <1>0, <1>9, AppendReports
    DEF Logout, SetUser, SpinnerInv, ReportsEndWithUser, S
  <2> QED
    BY <1>9, <2>1 DEF Logout, SpinnerInv, SuccessReported, SpinnerHasReason
<1>10. CASE Reload
  BY <1>10, OneForm, NoCallTyped
  DEF Reload, FreshForm, SpinnerInv, ReportsEndWithUser, SuccessReported,
      SpinnerHasReason, UserReported
<1>11. CASE UNCHANGED vars
  BY <1>11, SpinnerKept DEF vars, formVars
<1> QED
  BY <1>1, <1>2, <1>3, <1>4, <1>5, <1>6, <1>7, <1>8, <1>9, <1>10, <1>11 DEF Next

\* A form on screen spins just while its call is under way or the user it has
\* signed in is on the way: no call is made twice, no form is stuck.
THEOREM SpinnersHaveReasons == Spec => []SpinnerHasReason
<1>1. SpinnerInv => SpinnerHasReason
  BY DEF SpinnerInv
<1>2. FormInv /\ SpinnerInv /\ [Next]_vars => SpinnerInv'
  BY SpinnerStep
<1> QED
  BY <1>1, <1>2, SpinnerInit, FormAlways, PTL DEF Spec

-----------------------------------------------------------------------------
(* Home.  As long as no form is sent while somebody is signed in already,   *)
(* the reports still on their way say how the screen will come to show the  *)
(* user of the session.                                                     *)

OnTheWay ==
    \/ home = Nobody /\ user = Nobody /\ events \in {<<>>, <<Nobody>>}
    \/ home = Nobody /\ user # Nobody /\ events \in {<<user>>, <<Nobody, user>>}
    \/ home # Nobody /\ user = home /\ events = <<>>
    \/ home # Nobody /\ user = Nobody /\ events = <<Nobody>>

CallsOfTheForm ==
    \A f \in Forms : call[f].state = "waiting" =>
        user = Nobody /\ home = Nobody /\ f = form

HomeInv == ~overtaken => OnTheWay /\ CallsOfTheForm

\* HomeInv holds when the app starts.
LEMMA HomeInit == Init => HomeInv
<1> SUFFICES ASSUME Init PROVE HomeInv
  OBVIOUS
<1>1. \A f \in Forms : call[f].state = "over"
  BY NoCallTyped DEF Init
<1> QED
  BY <1>1 DEF Init, HomeInv, OnTheWay, CallsOfTheForm

\* HomeInv when a step leaves the reports and Home alone and starts no call.
LEMMA HomeKept ==
    ASSUME HomeInv, UNCHANGED <<user, events, home, form, overtaken>>,
           \A f \in Forms : call'[f].state = "waiting" => call[f].state = "waiting"
    PROVE  HomeInv'
  BY DEF HomeInv, OnTheWay, CallsOfTheForm

\* Every step keeps HomeInv.
LEMMA HomeStep == FormInv /\ SpinnerInv /\ HomeInv /\ [Next]_vars => HomeInv'
<1> SUFFICES ASSUME FormInv, SpinnerInv, HomeInv, [Next]_vars PROVE HomeInv'
  OBVIOUS
<1>0. call \in [Forms -> Calls] /\ form \in Forms
  BY DEF FormInv, TypeOK
<1>1. ASSUME NEW email \in Emails \cup {NoText}, TypeEmail(email) PROVE HomeInv'
  BY <1>1, HomeKept DEF TypeEmail
<1>2. ASSUME NEW password \in Passwords \cup {NoText}, TypePassword(password)
      PROVE  HomeInv'
  BY <1>2, HomeKept DEF TypePassword
<1>3. ASSUME NEW t \in Types, Choose(t) PROVE HomeInv'
  BY <1>3, HomeKept DEF Choose
<1>4. CASE Submit
  BY <1>0, <1>4 DEF Submit, FormShown, HomeInv, OnTheWay, CallsOfTheForm
<1>5. ASSUME NEW f \in Forms, GoOn(f) PROVE HomeInv'
  BY <1>0, <1>5, HomeKept, NoCallTyped DEF GoOn
<1>6. ASSUME NEW f \in Forms, Succeeds(f) PROVE HomeInv'
  <2>1. SUFFICES ASSUME ~overtaken PROVE OnTheWay' /\ CallsOfTheForm'
    BY <1>6 DEF Succeeds, HomeInv
  <2>2. call[f].email \in Emails /\ call[f].email # Nobody
    BY <1>6, SignInAssumption DEF FormInv, CallsNamed, Succeeds
  <2>3. user = Nobody /\ home = Nobody /\ f = form /\ events \in {<<>>, <<Nobody>>}
    BY <1>6, <2>1 DEF Succeeds, HomeInv, OnTheWay, CallsOfTheForm
  <2>4. events' = Append(events, call[f].email) /\ user' = call[f].email /\ home' = home
    BY <1>6, <2>2, <2>3 DEF Succeeds, SetUser
  <2>5. OnTheWay'
    <3>1. CASE events = <<>>
      BY <2>2, <2>3, <2>4, <3>1 DEF OnTheWay
    <3>2. CASE events = <<Nobody>>
      BY <2>2, <2>3, <2>4, <3>2, ShortSequences DEF OnTheWay
    <3> QED
      BY <2>3, <3>1, <3>2
  <2>6. \A g \in Forms : call'[g].state # "waiting"
    <3>1. call' = [call EXCEPT ![f] = [call[f] EXCEPT !.state = "succeeded"]]
      BY <1>0, <1>6 DEF Succeeds
    <3>2. \A g \in Forms : g # f => call[g].state # "waiting"
      BY <2>1, <2>3 DEF HomeInv, CallsOfTheForm
    <3> QED
      BY <1>0, <3>1, <3>2, AnswerTyped
  <2> QED
    BY <2>5, <2>6 DEF CallsOfTheForm
<1>7. ASSUME NEW f \in Forms, Fails(f) \/ AnswerLost(f) PROVE HomeInv'
  <2>1. /\ call' = [call EXCEPT ![f] = [call[f] EXCEPT !.state = "failed"]]
        /\ UNCHANGED <<user, events, home, form, overtaken>>
    BY <1>0, <1>7 DEF Fails, AnswerLost, formVars
  <2>2. \A g \in Forms : call'[g].state = "waiting" => call[g].state = "waiting"
    BY <1>0, <2>1, AnswerTyped
  <2> QED
    BY <2>1, <2>2, HomeKept
<1>8. CASE Report
  <2>1. SUFFICES ASSUME ~overtaken PROVE OnTheWay' /\ CallsOfTheForm'
    BY <1>8 DEF Report, HomeInv
  <2>2. OnTheWay /\ CallsOfTheForm
    BY <2>1 DEF HomeInv
  <2>3. CASE home = Nobody /\ user = Nobody
    <3>1. events = <<Nobody>> /\ Head(events) = Nobody /\ Tail(events) = <<>>
      BY <1>8, <2>2, <2>3, ShortSequences DEF Report, OnTheWay
    <3> QED
      BY <1>8, <2>2, <2>3, <3>1 DEF Report, OnTheWay, CallsOfTheForm, formVars
  <2>4. CASE home = Nobody /\ user # Nobody
    <3>0. \A f \in Forms : call'[f].state # "waiting"
      BY <1>8, <2>2, <2>4 DEF Report, CallsOfTheForm
    <3>1. CASE events = <<user>>
      <4>1. Head(events) = user /\ Tail(events) = <<>>
        BY <3>1
      <4> QED
        BY <1>8, <2>4, <3>0, <4>1 DEF Report, OnTheWay, CallsOfTheForm
    <3>2. CASE events = <<Nobody, user>>
      <4>1. Head(events) = Nobody /\ Tail(events) = <<user>>
        BY <3>2
      <4> QED
        BY <1>8, <2>4, <3>0, <4>1 DEF Report, OnTheWay, CallsOfTheForm
    <3> QED
      BY <2>2, <2>4, <3>1, <3>2 DEF OnTheWay
  <2>5. CASE home # Nobody
    <3>1. events = <<Nobody>> /\ Head(events) = Nobody /\ Tail(events) = <<>> /\ user = Nobody
      BY <1>8, <2>2, <2>5 DEF Report, OnTheWay
    <3>2. \A f \in Forms : call'[f].state # "waiting"
      BY <1>8, <2>2, <2>5 DEF Report, CallsOfTheForm
    <3> QED
      BY <1>8, <2>5, <3>1, <3>2 DEF Report, OnTheWay, CallsOfTheForm
  <2> QED
    BY <2>3, <2>4, <2>5
<1>9. CASE Logout
  <2>1. SUFFICES ASSUME ~overtaken PROVE OnTheWay' /\ CallsOfTheForm'
    BY <1>9 DEF Logout, HomeInv
  <2>2. OnTheWay /\ CallsOfTheForm /\ home # Nobody
    BY <1>9, <2>1 DEF Logout, HomeInv
  <2>3. events' = <<Nobody>> /\ user' = Nobody /\ home' = home
    <3>1. CASE user = home /\ events = <<>>
      BY <1>9, <2>2, <3>1, ShortSequences DEF Logout, SetUser
    <3>2. CASE user = Nobody /\ events = <<Nobody>>
      BY <1>9, <2>2, <3>2 DEF Logout, SetUser
    <3> QED
      BY <2>2, <3>1, <3>2 DEF OnTheWay
  <2> QED
    BY <1>9, <2>2, <2>3 DEF Logout, OnTheWay, CallsOfTheForm
<1>10. CASE Reload
  <2>1. \A f \in Forms : call'[f].state = "over"
    BY <1>10, NoCallTyped DEF Reload
  <2> QED
    BY <1>10, <2>1 DEF Reload, HomeInv, OnTheWay, CallsOfTheForm
<1>11. CASE UNCHANGED vars
  BY <1>11, HomeKept DEF vars, formVars
<1> QED
  BY <1>1, <1>2, <1>3, <1>4, <1>5, <1>6, <1>7, <1>8, <1>9, <1>10, <1>11 DEF Next

\* Once all reports are in, Home works for the user of the session, unless a
\* form was sent before Home could show who was signed in already.
THEOREM HomesAreUsers == Spec => []HomeIsUsers
<1>1. HomeInv => HomeIsUsers
  BY DEF HomeInv, OnTheWay, HomeIsUsers
<1>2. FormInv /\ SpinnerInv /\ HomeInv /\ [Next]_vars => SpinnerInv' /\ HomeInv'
  BY SpinnerStep, HomeStep
<1> QED
  BY <1>1, <1>2, SpinnerInit, HomeInit, FormAlways, PTL DEF Spec
=============================================================================
