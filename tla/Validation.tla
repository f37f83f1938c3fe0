----------------------------- MODULE Validation -----------------------------
(***************************************************************************)
(* The validation of a form (jquery.validate.js): fields are checked while *)
(* the user fills them in and all together when the form is submitted; a   *)
(* rule "remote" asks the server, and a submit waits for its answers.      *)
(*                                                                         *)
(* The validator is a record; check, element, form and stopRequest are     *)
(* operators from one to the next.  Each event of the page and each answer *)
(* is an action.  A value is refused by a local rule, by the server, or by *)
(* neither; the server says the same of a value each time.  The form has a *)
(* submitHandler, so the page stays when it is sent.  The settings are the *)
(* defaults, and no field is hidden.                                       *)
(***************************************************************************)
EXTENDS Naturals, Sequences, FiniteSets

CONSTANTS
    Field,
    Required,   \* the fields with the rule required
    DependsOn,  \* the field that must be filled in for required to hold, or None
    Remote,     \* the fields with the rule remote
    Checkable,  \* the checkboxes
    Value,
    Empty,      \* the value of an empty field, or of a checkbox not ticked
    Bad,        \* the values a local rule refuses
    Taken,      \* the values the server refuses
    None,
    MaxChanges, \* bound on the changes the user makes
    MaxPresses  \* bound on how often the user submits

ASSUME ValidationAssumption ==
    /\ IsFiniteSet(Field) /\ None \notin Field \cup Value
    /\ Required \cup Remote \cup Checkable \subseteq Field
    /\ DependsOn \in [Field -> Field \cup {None}]
    /\ Empty \in Value /\ Bad \cup Taken \subseteq Value \ {Empty}
    /\ MaxChanges \in Nat /\ MaxPresses \in Nat

VARIABLES
    validator,
    changes,  \* how many changes the user made
    presses,  \* how often the user submitted
    forms,    \* how many forms were sent
    last,     \* history: the last values that were sent and not unchecked
    press,    \* history: what became of the last press
    touched,  \* history: whether the user changed the form since that press
    dirty     \* history: fields changed since they were checked, or that an
              \* answer came for about an older value

vars == <<validator, changes, presses, forms, last, press, touched, dirty>>

\* old and allowed are previousValue; request is the value in the one request
\* of a field that is on its way; shown are the fields with a message.
Validator ==
    [value : [Field -> Value], old : [Field -> Value \cup {None}],
     allowed : [Field -> BOOLEAN], request : [Field -> Value \cup {None}],
     pending : SUBSET Field, pendingRequest : 0..Cardinality(Field),
     submitted : SUBSET Field, invalid : SUBSET Field, shown : SUBSET Field,
     lastElement : Field \cup {None}, formSubmitted : BOOLEAN]

-----------------------------------------------------------------------------
\* rules: a rule that depends on another field is there when that field is
\* filled in.
Applies(v, f, rule) ==
    CASE rule = "required" ->
            f \in Required /\ (DependsOn[f] = None \/ v.value[DependsOn[f]] # Empty)
      [] rule = "local" -> f \notin Checkable
      [] rule = "remote" -> f \in Remote

Rules(v, f) == {rule \in {"required", "local", "remote"} : Applies(v, f, rule)}

\* The methods required, email to equalTo, and remote: all but the first have
\* nothing to say of an empty field.  A value the server was asked about last
\* is not asked again, even while it has not answered.
RequiredMethod(v, f) == IF v.value[f] = Empty THEN "invalid" ELSE "valid"

LocalMethod(v, f) == IF v.value[f] \in Bad THEN "invalid" ELSE "valid"

RemoteMethod(v, f) ==
    IF v.value[f] = Empty THEN "valid"
    ELSE IF v.old[f] # v.value[f] THEN "pending"
    ELSE IF v.allowed[f] THEN "valid" ELSE "invalid"

\* check: the rules one after the other, required at the front and remote at
\* the back, up to one that does not find the field valid.
Result(v, f) ==
    LET rules == Rules(v, f)
    IN  IF \/ "required" \in rules /\ RequiredMethod(v, f) = "invalid"
           \/ "local" \in rules /\ LocalMethod(v, f) = "invalid"
        THEN "invalid"
        ELSE IF "remote" \in rules THEN RemoteMethod(v, f) ELSE "valid"

Found(v, S, result) == {f \in S : Result(v, f) = result}
Errors(v) == Found(v, Field, "invalid")

\* The request on its way for a field is aborted for the new one.
Replaced(v, S) ==
    [v EXCEPT !.request = [f \in Field |-> IF f \in S THEN v.value[f] ELSE @[f]]]

\* (wrong) Every request is counted.
StartEach(v, S) ==
    [Replaced(v, S) EXCEPT
        !.pending = @ \cup S, !.pendingRequest = @ + Cardinality(S),
        !.old = [f \in Field |-> IF f \in S THEN v.value[f] ELSE @[f]]]

\* startRequest: a field counts once, however often its request is replaced.
StartRequests(v, S) ==
    [Replaced(v, S) EXCEPT
        !.pending = @ \cup S,
        !.pendingRequest = @ + Cardinality(S \ v.pending),
        !.old = [f \in Field |-> IF f \in S THEN v.value[f] ELSE @[f]]]

FormatAndAdd(v, wrong) == [v EXCEPT !.submitted = @ \cup wrong]

\* showErrors: messages are put at the wrong fields and hidden at others.
ShowLabels(v, wrong) == [v EXCEPT !.shown = @ \cup wrong]

ShowErrors(v, wrong, others) ==
    ShowLabels([v EXCEPT !.shown = @ \ others], wrong)

Invalidate(v, wrong, others) == [v EXCEPT !.invalid = (@ \ others) \cup wrong]

\* The fields are checked and what was found is shown; a message stays while
\* the server is asked.
Checked(v, S) ==
    LET wrong == Found(v, S, "invalid")
        asks == Found(v, S, "pending")
        noted == FormatAndAdd(StartRequests(v, asks), wrong)
    IN  ShowErrors(Invalidate(noted, wrong, S), wrong, S \ asks)

Element(v, f) == [Checked(v, {f}) EXCEPT !.lastElement = f]
Form(v) == Checked(v, Field)

\* The submit handler of validate, without a cancel button.
OnSubmit(v) ==
    LET w == Form(v)
    IN  [w EXCEPT !.formSubmitted = @ \/ (Errors(v) = {} /\ w.pendingRequest > 0)]

\* (wrong) The requests that are pending are not looked at.
SendsAnyway(v) == Errors(v) = {}

Sends(v) == Errors(v) = {} /\ Form(v).pendingRequest = 0

\* (wrong) The last of the requests is not counted down.
StoppedAboveOne(v, f) ==
    [v EXCEPT !.pending = @ \ {f},
              !.pendingRequest = IF @ <= 1 THEN @ ELSE @ - 1]

\* stopRequest: the last answer goes on with a submit that waits.
Stopped(v, f) ==
    [v EXCEPT !.pending = @ \ {f},
              !.pendingRequest = IF @ = 0 THEN 0 ELSE @ - 1]

GoesOn(v) == v.pendingRequest = 0 /\ v.formSubmitted

\* (wrong) A form that was sent still waits to be sent.
StopRequestAgain(v, f, valid) ==
    LET w == Stopped(v, f)
    IN  IF ~GoesOn(w) THEN w
        ELSE IF ~valid THEN [w EXCEPT !.formSubmitted = FALSE]
        ELSE IF Errors(w) # {} THEN Form(w) ELSE OnSubmit(Form(w))

StopRequest(v, f, valid) ==
    LET w == Stopped(v, f)
    IN  IF ~GoesOn(w) THEN w
        ELSE IF ~valid THEN [w EXCEPT !.formSubmitted = FALSE]
        ELSE IF Errors(w) # {} THEN Form(w)
        ELSE [OnSubmit(Form(w)) EXCEPT !.formSubmitted = FALSE]

-----------------------------------------------------------------------------
Init ==
    /\ validator = [value |-> [f \in Field |-> Empty], old |-> [f \in Field |-> None],
                    allowed |-> [f \in Field |-> TRUE],
                    request |-> [f \in Field |-> None],
                    pending |-> {}, pendingRequest |-> 0, submitted |-> {},
                    invalid |-> {}, shown |-> {}, lastElement |-> None,
                    formSubmitted |-> FALSE]
    /\ changes = 0 /\ presses = 0 /\ forms = 0
    /\ last = None /\ press = "none" /\ touched = FALSE /\ dirty = Field

\* The user changes a field; with a key, or a click on a checkbox, it is
\* checked when an error was found in it before or it was checked last.
Change(f, x, checks) ==
    LET v == [validator EXCEPT !.value[f] = x]
    IN  /\ changes < MaxChanges /\ changes' = changes + 1
        /\ x # validator.value[f]
        /\ validator' = IF checks THEN Element(v, f) ELSE v
        /\ dirty' = (dirty \cup {g \in Field : DependsOn[g] = f} \cup {f})
                    \ (IF checks THEN {f} ELSE {})
        /\ touched' = TRUE
        /\ UNCHANGED <<presses, forms, last, press>>

OnKeyUp(f, x) ==
    /\ f \notin Checkable
    /\ Change(f, x, f \in validator.submitted \cup {validator.lastElement})

OnClick(f, x) ==
    /\ f \in Checkable /\ x \notin Bad \cup Taken
    /\ Change(f, x, f \in validator.submitted)

\* The browser fills in a field, or the user pastes with the mouse.
FillIn(f, x) == f \notin Checkable /\ Change(f, x, FALSE)

OnFocusOut(f) ==
    /\ f \notin Checkable
    /\ f \in validator.submitted \/ validator.value[f] # Empty
    /\ validator' = Element(validator, f)
    /\ dirty' = dirty \ {f}
    /\ UNCHANGED <<changes, presses, forms, last, press, touched>>

\* resetForm: what is pending goes on, and a submit that waits still waits.
ResetForm ==
    /\ changes < MaxChanges /\ changes' = changes + 1
    /\ validator' = [validator EXCEPT
            !.submitted = {}, !.lastElement = None, !.shown = {},
            !.old = [f \in Field |-> None], !.allowed = [f \in Field |-> TRUE]]
    /\ touched' = TRUE /\ dirty' = Field
    /\ UNCHANGED <<presses, forms, last, press>>

\* A form is sent with the values it has.
Sent(sends) ==
    /\ forms' = IF sends THEN forms + 1 ELSE forms
    /\ last' = IF sends THEN validator.value ELSE last

Submit ==
    LET v == validator
    IN  /\ presses < MaxPresses /\ presses' = presses + 1
        /\ validator' = OnSubmit(v)
        /\ Sent(Sends(v))
        /\ press' = IF Sends(v) THEN "sent" ELSE IF Errors(v) # {} THEN "refused" ELSE "waits"
        /\ touched' = FALSE /\ dirty' = {}
        /\ UNCHANGED changes

\* A button of the class cancel: the form is sent unchecked.
SubmitUnchecked ==
    /\ presses < MaxPresses /\ presses' = presses + 1
    /\ forms' = forms + 1 /\ press' = "sent"
    /\ UNCHANGED <<validator, changes, last, touched, dirty>>

\* An answer of the server.  After resetForm it is not remembered.
Answer(f) ==
    LET x == validator.request[f]
        valid == x \notin Taken
        wrong == IF valid THEN {} ELSE {f}
        known == [validator EXCEPT
                    !.request[f] = None,
                    !.allowed[f] = IF validator.old[f] = x THEN valid ELSE @]
        told == ShowErrors(Invalidate(known, wrong, {f}), wrong, {f})
        stopped == Stopped(told, f)
        sends == GoesOn(stopped) /\ valid /\ Errors(stopped) = {} /\ Sends(Form(stopped))
        stale == IF x = validator.value[f] THEN {} ELSE {f}
    IN  /\ x # None
        /\ validator' = StopRequest(told, f, valid)
        /\ Sent(sends)
        /\ press' = IF ~GoesOn(stopped) \/ press # "waits" THEN press
                    ELSE IF sends THEN "sent"
                    ELSE IF valid /\ Errors(stopped) = {} THEN "waits" ELSE "refused"
        /\ dirty' = IF GoesOn(stopped) /\ valid THEN {} ELSE dirty \cup stale
        /\ UNCHANGED <<changes, presses, touched>>

\* An error of the network or the server: there is no handler for it.
Fail(f) ==
    /\ validator.request[f] # None
    /\ validator' = [validator EXCEPT !.request[f] = None]
    /\ UNCHANGED <<changes, presses, forms, last, press, touched, dirty>>

-----------------------------------------------------------------------------
User ==
    \/ \E f \in Field, x \in Value : OnKeyUp(f, x) \/ OnClick(f, x) \/ FillIn(f, x)
    \/ \E f \in Field : OnFocusOut(f)
    \/ Submit \/ SubmitUnchecked \/ ResetForm

Next == User \/ \E f \in Field : Answer(f) \/ Fail(f)

\* Every request ends: with an answer or an error.
Fairness == \A f \in Field : WF_vars(Fail(f) \/ Answer(f))

Spec == Init /\ [][Next]_vars /\ Fairness

-----------------------------------------------------------------------------
\* The parts of the state have their types.
TypeOK ==
    /\ validator \in Validator
    /\ changes \in 0..MaxChanges /\ presses \in 0..MaxPresses /\ forms \in Nat
    /\ last \in [Field -> Value] \cup {None}
    /\ press \in {"none", "waits", "sent", "refused"}
    /\ touched \in BOOLEAN /\ dirty \subseteq Field

\* Fields whose request failed: they are pending until they are asked about
\* once more.
Failed == {f \in validator.pending : validator.request[f] = None}

\* pendingRequest is the number of fields the server is asked about, or was in
\* vain, however requests replace each other, fail, or outlive resetForm.
PendingIsCounted ==
    /\ validator.pendingRequest = Cardinality(validator.pending)
    /\ {f \in Field : validator.request[f] # None} \subseteq validator.pending \cap Remote

\* What the rules and the server say of a field of a form with these values.
IsRight(values, f) ==
    /\ (f \in Required /\ values[f] = Empty) =>
            DependsOn[f] # None /\ values[DependsOn[f]] = Empty
    /\ values[f] \notin Bad /\ (f \in Remote => values[f] \notin Taken)

\* A field that was checked since it was changed, and is not being asked about,
\* has a message exactly when it is wrong; and it counts as invalid then.
MessagesAreTrue ==
    \A f \in Field \ (dirty \cup validator.pending) :
        /\ f \in validator.shown <=> ~IsRight(validator.value, f)
        /\ f \in validator.invalid <=> f \in validator.shown

\* The bookkeeping and what the user reads agree with the form.
ValidatorIsSound == TypeOK /\ PendingIsCounted /\ MessagesAreTrue

\* A form is never sent with a value its rules or the server refuse, although a
\* submit waits for answers while the user goes on and answers come late.
FormsSentAreRight ==
    last # None => \A f \in Field : IsRight(last, f)

\* A form is not sent more often than the user submits it.
FormsAreSubmitted == forms <= presses

\* A submit that waits is sent or refused, unless the user changes the form in
\* the meantime or a request fails.
PressIsDecided ==
    press = "waits" ~> press # "waits" \/ touched \/ Failed # {}
=============================================================================
