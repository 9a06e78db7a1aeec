------------------------------- MODULE SignIn -------------------------------
(***************************************************************************)
(* Signing in and registering: the form (lib/screens/register_login.dart), *)
(* the calls it makes through AuthService (lib/backend/authservice.dart),  *)
(* and the stream of users by which Wrapper chooses between the form and   *)
(* Home.  Firebase Auth is external: it answers a call, remembers who is   *)
(* signed in, and reports every change of that user once, in order.        *)
(*                                                                         *)
(* The answer of a call and the report on the stream travel separately, so *)
(* that the form may be gone when its call goes on, and the other way      *)
(* round.                                                                  *)
(***************************************************************************)
EXTENDS Naturals, Sequences

CONSTANTS
    Emails,        \* what the user types as an email
    ShortPassword, \* a password of less than six characters
    LongPassword,  \* a password of six characters or more
    NoText,        \* an empty field
    Nobody,        \* no user is signed in
    MaxForms       \* bound on the forms whose calls are under way together

Passwords == {ShortPassword, LongPassword}

Users == Emails \cup {Nobody}

Forms == 1..MaxForms

ASSUME SignInAssumption ==
    /\ NoText \notin Emails \cup Passwords
    /\ ShortPassword # LongPassword
    /\ Nobody \notin Emails
    /\ MaxForms \in Nat \ {0, 1}

VARIABLES
    accounts,   \* Firebase Auth: the registered emails
    user,       \* Firebase Auth: who is signed in here
    events,     \* reports of users on their way to the StreamProvider
    home,       \* whose Home is on screen; Nobody: the form is
    form,       \* which of them is the latest RegisterLoginState
    type,       \* its type
    loading,    \* whether it shows the spinner in place of its fields
    error,      \* whether it says "Please supply a valid email"
    fields,     \* its variables email and password
    shown,      \* what its two fields show
    call,       \* the call that each form has made
    overtaken   \* history: a form was sent while a user was signed in already

formVars == <<form, type, loading, error, fields, shown>>
vars == <<accounts, user, events, home, formVars, call, overtaken>>

-----------------------------------------------------------------------------
Types == {"sign in", "register"}

Content == [email : Emails \cup {NoText}, password : Passwords \cup {NoText}]

Empty == [email |-> NoText, password |-> NoText]

\* A call waits for its answer, or its answer for the form to go on.
Call(what, email, state) == [what |-> what, email |-> email, state |-> state]

NoCall == Call("sign in", NoText, "over")

Calls == [what : Types, email : Emails \cup {NoText},
          state : {"waiting", "succeeded", "failed", "over"}]

\* What initState and the first build make of a form.
FreshForm(n) ==
    /\ form' = n
    /\ type' = "sign in"
    /\ loading' = FALSE
    /\ error' = FALSE
    /\ fields' = Empty
    /\ shown' = Empty

\* The session of the last visit may still be open: its user is reported
\* while the form is already on screen.
Init ==
    /\ accounts \in SUBSET Emails
    /\ user \in accounts \cup {Nobody}
    /\ events = <<user>>
    /\ home = Nobody
    /\ form = 1
    /\ type = "sign in"
    /\ loading = FALSE
    /\ error = FALSE
    /\ fields = Empty
    /\ shown = Empty
    /\ call = [f \in Forms |-> NoCall]
    /\ overtaken = FALSE

-----------------------------------------------------------------------------
(* The form.                                                               *)

FormShown == home = Nobody /\ ~loading

TypeEmail(email) ==
    /\ FormShown
    /\ shown' = [shown EXCEPT !.email = email]
    /\ fields' = [fields EXCEPT !.email = email]
    /\ UNCHANGED <<accounts, user, events, home, form, type, loading, error,
                   call, overtaken>>

\* Mutated: the password field keeps the handler of the email field.
TypePasswordAsEmail(password) ==
    /\ FormShown
    /\ shown' = [shown EXCEPT !.password = password]
    /\ fields' = [fields EXCEPT !.email = password]
    /\ UNCHANGED <<accounts, user, events, home, form, type, loading, error,
                   call, overtaken>>

TypePassword(password) ==
    /\ FormShown
    /\ shown' = [shown EXCEPT !.password = password]
    /\ fields' = [fields EXCEPT !.password = password]
    /\ UNCHANGED <<accounts, user, events, home, form, type, loading, error,
                   call, overtaken>>

\* The two buttons at the top.
Choose(t) ==
    /\ FormShown
    /\ type # t
    /\ type' = t
    /\ UNCHANGED <<accounts, user, events, home, form, loading, error, fields,
                   shown, call, overtaken>>

\* Mutated: the variables are validated, not the fields.
ValidatesVariables == fields.email # NoText /\ fields.password = LongPassword

Validates == shown.email # NoText /\ shown.password = LongPassword

\* Mutated: no spinner.
SubmitOpenly ==
    /\ FormShown
    /\ Validates
    /\ call' = [call EXCEPT ![form] = Call(type, fields.email, "waiting")]
    /\ overtaken' = (overtaken \/ user # Nobody)
    /\ UNCHANGED <<accounts, user, events, home, formVars>>

\* The button below, up to its await; the spinner takes the fields away.
Submit ==
    /\ FormShown
    /\ Validates
    /\ loading' = TRUE
    /\ shown' = Empty
    /\ call' = [call EXCEPT ![form] = Call(type, fields.email, "waiting")]
    /\ overtaken' = (overtaken \/ user # Nobody)
    /\ UNCHANGED <<accounts, user, events, home, form, type, error, fields>>

\* Mutated: only a sign-in has its result looked at.
GoOnAfterSignIn(f) ==
    /\ call[f].state \in {"succeeded", "failed"}
    /\ call' = [call EXCEPT ![f] = NoCall]
    /\ IF /\ call[f].what = "sign in" /\ call[f].state = "failed"
          /\ f = form /\ home = Nobody
       THEN loading' = FALSE /\ error' = TRUE
       ELSE UNCHANGED <<loading, error>>
    /\ UNCHANGED <<accounts, user, events, home, form, type, fields, shown,
                   overtaken>>

\* The handler goes on with the result of form f's call.  The user of a
\* sign-in that succeeded is a result; a registration has none: newSchedule
\* indexes an empty list, AuthService catches that, and sends no schedule.  A
\* State that has been disposed throws in setState.
GoOn(f) ==
    /\ call[f].state \in {"succeeded", "failed"}
    /\ call' = [call EXCEPT ![f] = NoCall]
    /\ IF /\ call[f].what = "register" \/ call[f].state = "failed"
          /\ f = form /\ home = Nobody
       THEN loading' = FALSE /\ error' = TRUE
       ELSE UNCHANGED <<loading, error>>
    /\ UNCHANGED <<accounts, user, events, home, form, type, fields, shown,
                   overtaken>>

-----------------------------------------------------------------------------
(* Firebase Auth.                                                          *)

SetUser(u) ==
    /\ user' = u
    /\ events' = IF u = user THEN events ELSE Append(events, u)

Succeeds(f) ==
    /\ call[f].state = "waiting"
    /\ call[f].what = "register" <=> call[f].email \notin accounts
    /\ accounts' = accounts \cup {call[f].email}
    /\ SetUser(call[f].email)
    /\ call' = [call EXCEPT ![f].state = "succeeded"]
    /\ UNCHANGED <<home, formVars, overtaken>>

\* The email is taken or unknown, the password wrong, or the network down.
Fails(f) ==
    /\ call[f].state = "waiting"
    /\ call' = [call EXCEPT ![f].state = "failed"]
    /\ UNCHANGED <<accounts, user, events, home, formVars, overtaken>>

\* The account is made, and the answer is lost.
AnswerLost(f) ==
    /\ call[f].state = "waiting"
    /\ call[f].what = "register"
    /\ accounts' = accounts \cup {call[f].email}
    /\ call' = [call EXCEPT ![f].state = "failed"]
    /\ UNCHANGED <<user, events, home, formVars, overtaken>>

-----------------------------------------------------------------------------
(* Wrapper, and Logout on Home.                                            *)

\* Mutated: Wrapper keeps Home when nobody is signed in any more.
ReportKeepingHome ==
    /\ events # <<>>
    /\ events' = Tail(events)
    /\ home' = IF home = Nobody THEN Head(events) ELSE home
    /\ UNCHANGED <<accounts, user, formVars, call, overtaken>>

\* The next report.  A form or Home that is on screen already stays as it is:
\* HomeState keeps the person of its initState.
Report ==
    /\ events # <<>>
    /\ events' = Tail(events)
    /\ home' = IF Head(events) = Nobody \/ home = Nobody THEN Head(events) ELSE home
    /\ IF Head(events) = Nobody /\ home # Nobody
       THEN \E n \in Forms \ {form} : call[n].state = "over" /\ FreshForm(n)
       ELSE UNCHANGED formVars
    /\ UNCHANGED <<accounts, user, call, overtaken>>

Logout ==
    /\ home # Nobody
    /\ SetUser(Nobody)
    /\ UNCHANGED <<accounts, home, formVars, call, overtaken>>

\* The page is loaded anew: the session survives, the forms and what they wait
\* for do not, but an account may still be made for a call already sent.
Reload ==
    /\ \E sent \in SUBSET {f \in Forms :
            call[f].state = "waiting" /\ call[f].what = "register"} :
        accounts' = accounts \cup {call[f].email : f \in sent}
    /\ events' = <<user>>
    /\ home' = Nobody
    /\ FreshForm(1)
    /\ call' = [f \in Forms |-> NoCall]
    /\ overtaken' = FALSE
    /\ UNCHANGED user

Next ==
    \/ \E email \in Emails \cup {NoText} : TypeEmail(email)
    \/ \E password \in Passwords \cup {NoText} : TypePassword(password)
    \/ \E t \in Types : Choose(t)
    \/ Submit
    \/ \E f \in Forms :
        \/ GoOn(f)
        \/ Succeeds(f)
        \/ Fails(f)
        \/ AnswerLost(f)
    \/ Report
    \/ Logout
    \/ Reload

\* Calls are answered, answers handled and users reported; nobody has to type.
Spec ==
    /\ Init
    /\ [][Next]_vars
    /\ WF_vars(Report)
    /\ \A f \in Forms :
        WF_vars(Succeeds(f) \/ Fails(f) \/ AnswerLost(f)) /\ WF_vars(GoOn(f))

-----------------------------------------------------------------------------
\* The variables of the form, of Firebase Auth and of the stream keep their
\* types; reports name registered users.
TypeOK ==
    /\ accounts \subseteq Emails
    /\ user \in accounts \cup {Nobody}
    /\ events \in Seq(accounts \cup {Nobody})
    /\ home \in accounts \cup {Nobody}
    /\ form \in Forms
    /\ type \in Types
    /\ loading \in BOOLEAN /\ error \in BOOLEAN
    /\ fields \in Content
    /\ shown \in Content
    /\ call \in [Forms -> Calls]
    /\ overtaken \in BOOLEAN

\* What is sent is what the user sees: the spinner empties the fields but not
\* the variables email and password, and the validators on the empty fields
\* are all that keeps the old values from being sent again.
SubmitsWhatIsShown ==
    [][\A f \in Forms : call[f].state # "waiting" /\ call'[f].state = "waiting" =>
        /\ call'[f].email = shown.email
        /\ fields.password = shown.password]_vars

\* A form on screen spins just while its own call is under way, or while the
\* user it has signed in is on the way to Wrapper: no call is made twice at a
\* time, and no form is stuck without a reason.
SpinnerHasReason ==
    home = Nobody =>
        /\ call[form].state # "over" => loading
        /\ loading => \/ call[form].state # "over"
                      \/ \E i \in DOMAIN events : events[i] # Nobody

\* The spinner goes away: by an error, or because Home opens.
SpinnerEnds == loading /\ home = Nobody ~> ~loading \/ home # Nobody

\* Once all reports are in, Home works for the user of the session, except
\* when a form was sent before Home could show who was signed in already.
HomeIsUsers ==
    events = <<>> /\ ~overtaken => home = user

\* "Please supply a valid email" (register_login.dart:127) follows no call that
\* has signed a user in.
ErrorMeansNoAccount ==
    [][\A f \in Forms : call[f].state = "succeeded" /\ call'[f].state = "over" =>
        error' = error]_vars
=============================================================================
