-------------------------- MODULE ValidationProofs --------------------------
(***************************************************************************)
(* What TLAPS proves of Validation, for any form: any fields, rules and    *)
(* values, and any number of changes and submits.  The invariant is about  *)
(* the validator: what is remembered of the server's answers, and the      *)
(* requests on their way, are true of the values they are about.           *)
(***************************************************************************)
EXTENDS Validation, FiniteSetTheorems, TLAPS

-----------------------------------------------------------------------------
\* The requests on their way: of a remote field that is pending, about the
\* value asked about last unless the form was reset, which has passed the
\* rules before remote.
RequestsAreKnown(v) ==
    \A f \in Field : v.request[f] # None =>
        /\ f \in v.pending \cap Remote
        /\ v.old[f] \in {None, v.request[f]}
        /\ v.request[f] \notin Bad \cup {Empty}

\* What is remembered of a field that is not pending is what the server says.
AnswersAreKept(v) ==
    \A f \in Field \ v.pending : v.old[f] # None =>
        (v.allowed[f] <=> v.old[f] \notin Taken)

\* No checkbox has a value to refuse.
BoxesAreRight(v) == \A f \in Checkable : v.value[f] \notin Bad \cup Taken

Sound(v) ==
    /\ v \in Validator
    /\ v.pendingRequest = Cardinality(v.pending)
    /\ RequestsAreKnown(v) /\ AnswersAreKept(v) /\ BoxesAreRight(v)

\* The messages tell the truth of fields outside a set.
Tells(v, unsure) ==
    \A f \in Field \ (unsure \cup v.pending) :
        /\ f \in v.shown <=> ~IsRight(v.value, f)
        /\ f \in v.invalid <=> f \in v.shown

-----------------------------------------------------------------------------
\* A check comes to one of three results.
LEMMA ResultCases ==
    ASSUME NEW v, NEW f
    PROVE  Result(v, f) \in {"valid", "invalid", "pending"}
BY DEF Result, RemoteMethod

\* A field is found wrong when it is, and right when it is, once the server
\* was asked and has answered.
LEMMA ResultTells ==
    ASSUME NEW v, Sound(v), NEW f \in Field
    PROVE  /\ Result(v, f) = "valid" /\ f \notin v.pending => IsRight(v.value, f)
           /\ Result(v, f) = "invalid" /\ f \notin v.pending => ~IsRight(v.value, f)
           /\ Result(v, f) = "pending" =>
                    f \in Remote /\ v.value[f] \notin Bad \cup {Empty}
<1> USE ValidationAssumption
<1>1. /\ v.value \in [Field -> Value] /\ v.old \in [Field -> Value \cup {None}]
      /\ v.allowed \in [Field -> BOOLEAN]
  BY DEF Sound, Validator
<1>2. f \in Checkable => v.value[f] \notin Bad \cup Taken
  BY DEF Sound, BoxesAreRight
<1>3. f \notin v.pending /\ v.old[f] # None => (v.allowed[f] <=> v.old[f] \notin Taken)
  BY DEF Sound, AnswersAreKept
<1>4. v.value[f] # None
  BY <1>1
<1>5. "required" \in Rules(v, f) <=>
        f \in Required /\ (DependsOn[f] = None \/ v.value[DependsOn[f]] # Empty)
  BY DEF Rules, Applies
<1>6. "local" \in Rules(v, f) <=> f \notin Checkable
  BY DEF Rules, Applies
<1>7. "remote" \in Rules(v, f) <=> f \in Remote
  BY DEF Rules, Applies
<1>8. Result(v, f) = "pending" => f \in Remote /\ v.value[f] \notin Bad \cup {Empty}
  BY <1>2, <1>6, <1>7 DEF Result, LocalMethod, RemoteMethod
<1>9. Result(v, f) = "valid" /\ f \notin v.pending => IsRight(v.value, f)
  BY <1>1, <1>2, <1>3, <1>4, <1>5, <1>6, <1>7
     DEF Result, RequiredMethod, LocalMethod, RemoteMethod, IsRight
<1>10. Result(v, f) = "invalid" /\ f \notin v.pending => ~IsRight(v.value, f)
  BY <1>1, <1>2, <1>3, <1>4, <1>5, <1>6, <1>7
     DEF Result, RequiredMethod, LocalMethod, RemoteMethod, IsRight
<1> QED BY <1>8, <1>9, <1>10
-----------------------------------------------------------------------------
\* A validator whose counter is any number: what the operators pass through.
Counting ==
    [value : [Field -> Value], old : [Field -> Value \cup {None}],
     allowed : [Field -> BOOLEAN], request : [Field -> Value \cup {None}],
     pending : SUBSET Field, pendingRequest : Nat,
     submitted : SUBSET Field, invalid : SUBSET Field, shown : SUBSET Field,
     lastElement : Field \cup {None}, formSubmitted : BOOLEAN]

\* The parts of the validator that StartRequests leaves alone, and the others.
SameMessages(v, w) ==
    /\ w.submitted = v.submitted /\ w.invalid = v.invalid /\ w.shown = v.shown

SameRequests(v, w) ==
    /\ w.old = v.old /\ w.request = v.request
    /\ w.pending = v.pending /\ w.pendingRequest = v.pendingRequest

SameForm(v, w) ==
    /\ w.value = v.value /\ w.allowed = v.allowed
    /\ w.lastElement = v.lastElement /\ w.formSubmitted = v.formSubmitted

LEMMA ValidatorsAreCounting ==
    ASSUME NEW v
    PROVE  v \in Validator <=>
                v \in Counting /\ v.pendingRequest \in 0..Cardinality(Field)
<1>1. Cardinality(Field) \in Nat
  BY ValidationAssumption, FS_CardinalityType
<1> QED BY <1>1 DEF Validator, Counting

\* What the operators that Checked consists of make of each part.
LEMMA StartRequestsParts ==
    ASSUME NEW v \in Counting, NEW S \in SUBSET Field
    PROVE  LET w == StartRequests(v, S)
           IN  /\ w \in Counting /\ SameMessages(v, w) /\ SameForm(v, w)
               /\ w.old = [f \in Field |-> IF f \in S THEN v.value[f] ELSE v.old[f]]
               /\ w.request = [f \in Field |-> IF f \in S THEN v.value[f]
                                               ELSE v.request[f]]
               /\ w.pending = v.pending \cup S
               /\ w.pendingRequest = v.pendingRequest + Cardinality(S \ v.pending)
<1> DEFINE req == [f \in Field |-> IF f \in S THEN v.value[f] ELSE v.request[f]]
           old == [f \in Field |-> IF f \in S THEN v.value[f] ELSE v.old[f]]
           r == Replaced(v, S)
           n == v.pendingRequest + Cardinality(S \ v.pending)
<1>1. req \in [Field -> Value \cup {None}] /\ old \in [Field -> Value \cup {None}]
  BY DEF Counting
<1>2. IsFiniteSet(S \ v.pending)
  BY ValidationAssumption, FS_Subset
<1>3. n \in Nat
  BY <1>2, FS_CardinalityType DEF Counting
<1>4. r = [v EXCEPT !.request = req]
  BY DEF Replaced, Counting
<1> HIDE DEF req, r
<1>5. r \in Counting /\ SameMessages(v, r) /\ SameForm(v, r)
      /\ r.old = v.old /\ r.request = req
      /\ r.pending = v.pending /\ r.pendingRequest = v.pendingRequest
  BY <1>1, <1>4 DEF Counting, SameMessages, SameForm
<1>6. StartRequests(v, S)
        = [r EXCEPT !.pending = r.pending \cup S, !.pendingRequest = n, !.old = old]
  BY <1>5 DEF StartRequests, r, Counting
<1> HIDE DEF n, old
<1>7. LET w == [r EXCEPT !.pending = r.pending \cup S, !.pendingRequest = n, !.old = old]
      IN  /\ w \in Counting /\ SameMessages(r, w) /\ SameForm(r, w)
          /\ w.request = r.request
          /\ w.old = old /\ w.pending = r.pending \cup S /\ w.pendingRequest = n
  BY <1>1, <1>3, <1>5 DEF Counting, SameMessages, SameForm
<1> QED BY <1>5, <1>6, <1>7 DEF req, old, n, SameMessages, SameForm

LEMMA FormatAndAddParts ==
    ASSUME NEW v \in Counting, NEW S \in SUBSET Field
    PROVE  LET w == FormatAndAdd(v, S)
           IN  /\ w \in Counting /\ SameRequests(v, w) /\ SameForm(v, w)
               /\ w.submitted = v.submitted \cup S
               /\ w.invalid = v.invalid /\ w.shown = v.shown
BY DEF FormatAndAdd, Counting, SameRequests, SameForm

LEMMA InvalidateParts ==
    ASSUME NEW v \in Counting, NEW S \in SUBSET Field, NEW T
    PROVE  LET w == Invalidate(v, S, T)
           IN  /\ w \in Counting /\ SameRequests(v, w) /\ SameForm(v, w)
               /\ w.invalid = (v.invalid \ T) \cup S
               /\ w.submitted = v.submitted /\ w.shown = v.shown
BY DEF Invalidate, Counting, SameRequests, SameForm

LEMMA ShowErrorsParts ==
    ASSUME NEW v \in Counting, NEW S \in SUBSET Field, NEW T
    PROVE  LET w == ShowErrors(v, S, T)
           IN  /\ w \in Counting /\ SameRequests(v, w) /\ SameForm(v, w)
               /\ w.shown = (v.shown \ T) \cup S
               /\ w.submitted = v.submitted /\ w.invalid = v.invalid
<1> DEFINE h == [v EXCEPT !.shown = @ \ T]
<1>1. /\ h \in Counting /\ SameRequests(v, h) /\ SameForm(v, h)
      /\ h.shown = v.shown \ T /\ h.submitted = v.submitted /\ h.invalid = v.invalid
  BY DEF Counting, SameRequests, SameForm
<1> HIDE DEF h
<1>2. LET w == ShowLabels(h, S)
      IN  /\ w \in Counting /\ SameRequests(h, w) /\ SameForm(h, w)
          /\ w.shown = h.shown \cup S
          /\ w.submitted = h.submitted /\ w.invalid = h.invalid
  BY <1>1 DEF ShowLabels, Counting, SameRequests, SameForm
<1>3. ShowErrors(v, S, T) = ShowLabels(h, S)
  BY DEF ShowErrors, h
<1> QED BY <1>1, <1>2, <1>3 DEF SameRequests, SameForm

\* What Checked makes of each part of the validator.
LEMMA CheckedParts ==
    ASSUME NEW v \in Counting, NEW S \in SUBSET Field
    PROVE  LET c == Checked(v, S)
               asks == Found(v, S, "pending")
               wrong == Found(v, S, "invalid")
           IN  /\ c \in Counting /\ SameForm(v, c)
               /\ c.old = [f \in Field |-> IF f \in asks THEN v.value[f] ELSE v.old[f]]
               /\ c.request = [f \in Field |-> IF f \in asks THEN v.value[f]
                                               ELSE v.request[f]]
               /\ c.pending = v.pending \cup asks
               /\ c.pendingRequest = v.pendingRequest + Cardinality(asks \ v.pending)
               /\ c.submitted = v.submitted \cup wrong
               /\ c.invalid = (v.invalid \ S) \cup wrong
               /\ c.shown = (v.shown \ (S \ asks)) \cup wrong
<1> DEFINE asks == Found(v, S, "pending")
           wrong == Found(v, S, "invalid")
           started == StartRequests(v, asks)
           noted == FormatAndAdd(started, wrong)
           judged == Invalidate(noted, wrong, S)
           others == S \ asks
<1>1. asks \in SUBSET Field /\ wrong \in SUBSET Field
  BY DEF Found
<1>2. Checked(v, S) = ShowErrors(judged, wrong, others)
  BY DEF Checked
<1> HIDE DEF asks, wrong, started, noted, judged, others
<1>3. /\ started \in Counting /\ SameMessages(v, started) /\ SameForm(v, started)
      /\ started.old = [f \in Field |-> IF f \in asks THEN v.value[f] ELSE v.old[f]]
      /\ started.request = [f \in Field |-> IF f \in asks THEN v.value[f]
                                            ELSE v.request[f]]
      /\ started.pending = v.pending \cup asks
      /\ started.pendingRequest = v.pendingRequest + Cardinality(asks \ v.pending)
  BY <1>1, StartRequestsParts DEF started
<1>4. /\ noted \in Counting /\ SameRequests(started, noted) /\ SameForm(started, noted)
      /\ noted.submitted = started.submitted \cup wrong
      /\ noted.invalid = started.invalid /\ noted.shown = started.shown
  BY <1>1, <1>3, FormatAndAddParts DEF noted
<1>5. /\ judged \in Counting /\ SameRequests(noted, judged) /\ SameForm(noted, judged)
      /\ judged.invalid = (noted.invalid \ S) \cup wrong
      /\ judged.submitted = noted.submitted /\ judged.shown = noted.shown
  <2>1. noted \in Counting
    BY <1>4
  <2> QED BY <1>1, <2>1, InvalidateParts DEF judged
<1>6. LET c == ShowErrors(judged, wrong, others)
      IN  /\ c \in Counting /\ SameRequests(judged, c) /\ SameForm(judged, c)
          /\ c.shown = (judged.shown \ others) \cup wrong
          /\ c.submitted = judged.submitted /\ c.invalid = judged.invalid
  <2>1. judged \in Counting
    BY <1>5
  <2> QED BY <1>1, <2>1, ShowErrorsParts
<1> QED BY <1>2, <1>3, <1>4, <1>5, <1>6
        DEF asks, wrong, others, SameRequests, SameForm, SameMessages

\* The number of pending fields and of those asked about anew.
LEMMA PendingGrows ==
    ASSUME NEW P \in SUBSET Field, NEW Q \in SUBSET Field
    PROVE  /\ Cardinality(P \cup Q) = Cardinality(P) + Cardinality(Q \ P)
           /\ Cardinality(P \cup Q) \in 0..Cardinality(Field)
           /\ Cardinality(P) \in 0..Cardinality(Field)
           /\ Cardinality(P) = 0 <=> P = {}
<1>1. IsFiniteSet(Field) /\ IsFiniteSet(P) /\ IsFiniteSet(Q) /\ IsFiniteSet(Q \ P)
      /\ IsFiniteSet(P \cup Q)
  BY ValidationAssumption, FS_Subset
<1>2. P \cup Q = P \cup (Q \ P) /\ P \cap (Q \ P) = {}
  OBVIOUS
<1>3. /\ Cardinality(P) \in Nat /\ Cardinality(Q \ P) \in Nat
      /\ Cardinality(Field) \in Nat /\ Cardinality(P \cup Q) \in Nat
  BY <1>1, FS_CardinalityType
<1>4. Cardinality(P \cap (Q \ P)) = 0
  BY <1>2, FS_EmptySet
<1>5. Cardinality(P \cup (Q \ P))
        = Cardinality(P) + Cardinality(Q \ P) - Cardinality(P \cap (Q \ P))
  BY <1>1, FS_Union
<1>6. Cardinality(P \cup Q) <= Cardinality(Field) /\ Cardinality(P) <= Cardinality(Field)
  BY <1>1, FS_Subset
<1>7. Cardinality(P) = 0 <=> P = {}
  BY <1>1, FS_EmptySet
<1>8. Cardinality(P \cup Q) = Cardinality(P) + Cardinality(Q \ P)
  <2>1. Cardinality(P \cup Q) = Cardinality(P \cup (Q \ P))
    BY <1>2
  <2> QED BY <1>3, <1>4, <1>5, <2>1
<1> QED BY <1>3, <1>6, <1>7, <1>8

\* Checking fields keeps what is known, and tells the truth about them.
LEMMA CheckedIsSound ==
    ASSUME NEW v, Sound(v), NEW S \in SUBSET Field
    PROVE  LET c == Checked(v, S)
           IN  /\ Sound(c) /\ c.value = v.value /\ c.formSubmitted = v.formSubmitted
               /\ v.pending \subseteq c.pending
               /\ \A unsure \in SUBSET Field : Tells(v, unsure) => Tells(c, unsure \ S)
               /\ Found(v, S, "pending") \subseteq c.pending
<1> DEFINE c == Checked(v, S)
           asks == Found(v, S, "pending")
           wrong == Found(v, S, "invalid")
<1> HIDE DEF c
<1> USE ValidationAssumption
<1>0. /\ v \in Validator /\ v \in Counting
      /\ asks \in SUBSET S /\ wrong \in SUBSET S
  BY ValidatorsAreCounting DEF Sound, Found
<1>1. /\ c \in Counting /\ c.value = v.value
      /\ c.old = [f \in Field |-> IF f \in asks THEN v.value[f] ELSE v.old[f]]
      /\ c.allowed = v.allowed
      /\ c.request = [f \in Field |-> IF f \in asks THEN v.value[f] ELSE v.request[f]]
      /\ c.pending = v.pending \cup asks
      /\ c.pendingRequest = v.pendingRequest + Cardinality(asks \ v.pending)
      /\ c.invalid = (v.invalid \ S) \cup wrong
      /\ c.shown = (v.shown \ (S \ asks)) \cup wrong
      /\ c.formSubmitted = v.formSubmitted
  BY <1>0, CheckedParts DEF c, SameForm
<1>2. v.pending \in SUBSET Field /\ v.pendingRequest = Cardinality(v.pending)
  BY DEF Sound, Validator
<1>3. c.pendingRequest = Cardinality(c.pending)
      /\ c.pendingRequest \in 0..Cardinality(Field)
  <2>1. asks \in SUBSET Field
    BY <1>0
  <2>2. /\ Cardinality(v.pending \cup asks)
             = Cardinality(v.pending) + Cardinality(asks \ v.pending)
        /\ Cardinality(v.pending \cup asks) \in 0..Cardinality(Field)
    BY <1>2, <2>1, PendingGrows
  <2> HIDE DEF asks
  <2> QED BY <1>1, <1>2, <2>2
<1>4. c \in Validator
  BY <1>1, <1>3, ValidatorsAreCounting
<1>5. \A f \in Field : f \in asks =>
            f \in Remote /\ v.value[f] \notin Bad \cup {Empty}
  BY ResultTells DEF Found
<1>6. RequestsAreKnown(c)
  BY <1>1, <1>5 DEF RequestsAreKnown, Sound
<1>7. AnswersAreKept(c)
  BY <1>1 DEF AnswersAreKept, Sound
<1>8. BoxesAreRight(c)
  BY <1>1 DEF BoxesAreRight, Sound
<1>9. ASSUME NEW unsure \in SUBSET Field, Tells(v, unsure)
      PROVE  Tells(c, unsure \ S)
  <2>1. SUFFICES ASSUME NEW f \in Field \ ((unsure \ S) \cup c.pending)
                 PROVE  /\ f \in c.shown <=> ~IsRight(c.value, f)
                        /\ f \in c.invalid <=> f \in c.shown
    BY DEF Tells
  <2>2. f \notin v.pending /\ f \notin asks
    BY <1>1
  <2>3. CASE f \notin S
    <3>1. f \notin unsure
      BY <2>1, <2>3
    <3>2. /\ f \in v.shown <=> ~IsRight(v.value, f)
          /\ f \in v.invalid <=> f \in v.shown
      BY <1>9, <2>2, <3>1 DEF Tells
    <3> QED BY <1>0, <1>1, <2>3, <3>2
  <2>4. CASE f \in S
    <3>1. Result(v, f) \in {"valid", "invalid"}
      BY <2>2, <2>4, ResultCases DEF Found
    <3>2. f \in wrong <=> ~IsRight(v.value, f)
      BY <2>2, <2>4, <3>1, ResultTells DEF Found
    <3> QED BY <1>1, <2>2, <2>4, <3>2
  <2> QED BY <2>3, <2>4
<1>10. Sound(c)
  BY <1>3, <1>4, <1>6, <1>7, <1>8 DEF Sound
<1> QED BY <1>1, <1>9, <1>10 DEF c

-----------------------------------------------------------------------------
\* Whether a submit waits is no matter to the rest.
LEMMA WaitingIsNoMatter ==
    ASSUME NEW v, Sound(v), NEW b \in BOOLEAN
    PROVE  LET w == [v EXCEPT !.formSubmitted = b]
           IN  /\ Sound(w) /\ w.value = v.value /\ w.formSubmitted = b
               /\ w.pending = v.pending /\ w.pendingRequest = v.pendingRequest
               /\ w.request = v.request
               /\ \A unsure \in SUBSET Field : Tells(v, unsure) => Tells(w, unsure)
<1> DEFINE w == [v EXCEPT !.formSubmitted = b]
<1>1. v \in Validator
  BY DEF Sound
<1>2. /\ w \in Validator /\ SameRequests(v, w) /\ SameMessages(v, w)
      /\ w.value = v.value /\ w.allowed = v.allowed /\ w.formSubmitted = b
  BY <1>1 DEF Validator, SameRequests, SameMessages
<1> HIDE DEF w
<1>3. Sound(w)
  BY <1>2 DEF Sound, RequestsAreKnown, AnswersAreKept, BoxesAreRight, SameRequests
<1>4. \A unsure \in SUBSET Field : Tells(v, unsure) => Tells(w, unsure)
  BY <1>2 DEF Tells, SameRequests, SameMessages
<1> QED BY <1>2, <1>3, <1>4 DEF w, SameRequests

\* A form that passes the check with nothing left to ask is right.
LEMMA SendsRight ==
    ASSUME NEW v, Sound(v), Sends(v)
    PROVE  \A f \in Field : IsRight(v.value, f)
<1>1. TAKE f \in Field
<1>2. /\ v.pending \subseteq Form(v).pending
      /\ Found(v, Field, "pending") \subseteq Form(v).pending
      /\ Sound(Form(v))
  BY CheckedIsSound DEF Form
<1>3. Form(v).pending \in SUBSET Field
      /\ Cardinality(Form(v).pending) = 0
  BY <1>2 DEF Sends, Sound, Validator
<1>4. Form(v).pending = {}
  BY <1>3, PendingGrows
<1>5. f \notin v.pending /\ f \notin Found(v, Field, "pending")
  BY <1>2, <1>4
<1>6. f \notin Errors(v)
  BY DEF Sends
<1>7. Result(v, f) = "valid"
  BY <1>5, <1>6, ResultCases DEF Errors, Found
<1> QED BY <1>5, <1>7, ResultTells

\* After a check of every field all messages are true.
LEMMA FormIsSound ==
    ASSUME NEW v, Sound(v)
    PROVE  /\ Sound(Form(v)) /\ Tells(Form(v), {}) /\ Form(v).value = v.value
           /\ Form(v).formSubmitted = v.formSubmitted
<1>1. Tells(v, Field)
  BY DEF Tells
<1>2. Field \ Field = {} /\ Field \in SUBSET Field
  OBVIOUS
<1> QED BY <1>1, <1>2, CheckedIsSound DEF Form

\* A submit checks every field and may wait for what it asks.
LEMMA OnSubmitIsSound ==
    ASSUME NEW v, Sound(v)
    PROVE  /\ Sound(OnSubmit(v)) /\ Tells(OnSubmit(v), {})
           /\ OnSubmit(v).value = v.value
           /\ Sends(v) => OnSubmit(v).formSubmitted = v.formSubmitted
<1> DEFINE w == Form(v)
           b == w.formSubmitted \/ (Errors(v) = {} /\ w.pendingRequest > 0)
<1>1. /\ Sound(w) /\ w.value = v.value /\ w.formSubmitted = v.formSubmitted
      /\ Tells(w, {})
  BY FormIsSound
<1>2. Sends(v) => b = v.formSubmitted
  <2>1. v.formSubmitted \in BOOLEAN
    BY DEF Sound, Validator
  <2> QED BY <1>1, <2>1 DEF Sends
<1>3. b \in BOOLEAN
  OBVIOUS
<1>4. OnSubmit(v) = [w EXCEPT !.formSubmitted = b]
  BY <1>1 DEF OnSubmit
<1> HIDE DEF w, b
<1> QED BY <1>1, <1>2, <1>3, <1>4, WaitingIsNoMatter

\* The count goes down by one with the field whose answer came.
LEMMA StoppedIsSound ==
    ASSUME NEW v, Sound(v), NEW f \in v.pending, v.request[f] = None,
           v.old[f] # None => (v.allowed[f] <=> v.old[f] \notin Taken)
    PROVE  LET w == Stopped(v, f)
           IN  /\ Sound(w) /\ w.value = v.value /\ w.formSubmitted = v.formSubmitted
               /\ w.pending = v.pending \ {f}
               /\ w.shown = v.shown /\ w.invalid = v.invalid
<1> DEFINE P == v.pending \ {f}
           n == IF v.pendingRequest = 0 THEN 0 ELSE v.pendingRequest - 1
           w == [v EXCEPT !.pending = P, !.pendingRequest = n]
<1>1. /\ v \in Validator /\ v.pendingRequest = Cardinality(v.pending)
      /\ v.pending \in SUBSET Field
  BY DEF Sound, Validator
<1>2. IsFiniteSet(v.pending) /\ IsFiniteSet(Field)
  BY <1>1, ValidationAssumption, FS_Subset
<1>3. Cardinality(P) = Cardinality(v.pending) - 1
  BY <1>2, FS_RemoveElement
<1>4. Cardinality(v.pending) \in Nat /\ Cardinality(P) \in Nat
      /\ Cardinality(Field) \in Nat
  BY <1>2, FS_CardinalityType, FS_RemoveElement
<1>5. Cardinality(v.pending) \in 0..Cardinality(Field)
  BY <1>1 DEF Validator
<1> HIDE DEF P
<1>6. n = Cardinality(P) /\ n \in 0..Cardinality(Field)
  BY <1>1, <1>3, <1>4, <1>5
<1> HIDE DEF n
<1>7. P \in SUBSET Field
  BY <1>1 DEF P
<1>8. /\ w \in Validator /\ SameForm(v, w) /\ SameMessages(v, w)
      /\ w.old = v.old /\ w.request = v.request
      /\ w.pending = P /\ w.pendingRequest = n
  BY <1>1, <1>6, <1>7 DEF Validator, SameForm, SameMessages
<1>9. Stopped(v, f) = w
  BY <1>1 DEF Stopped, w, n, P, Validator
<1> HIDE DEF w
<1>10. RequestsAreKnown(w)
  BY <1>8 DEF RequestsAreKnown, Sound, P
<1>11. AnswersAreKept(w) /\ BoxesAreRight(w)
  BY <1>8 DEF AnswersAreKept, BoxesAreRight, Sound, SameForm, P
<1>12. Sound(w)
  BY <1>6, <1>8, <1>10, <1>11 DEF Sound
<1> QED BY <1>8, <1>9, <1>12 DEF P, SameForm, SameMessages

\* What the last answer makes of a submit that waits.
LEMMA StopRequestIsSound ==
    ASSUME NEW v, NEW f, NEW valid \in BOOLEAN, NEW unsure \in SUBSET Field,
           Sound(Stopped(v, f)), Tells(Stopped(v, f), unsure),
           Stopped(v, f).value = v.value
    PROVE  LET w == Stopped(v, f)
               s == StopRequest(v, f, valid)
               sends == /\ GoesOn(w) /\ valid /\ Errors(w) = {} /\ Sends(Form(w))
           IN  /\ Sound(s) /\ s.value = v.value
               /\ Tells(s, IF GoesOn(w) /\ valid THEN {} ELSE unsure)
               /\ sends => /\ w.formSubmitted /\ ~s.formSubmitted
                           /\ \A g \in Field : IsRight(v.value, g)
               /\ s.formSubmitted => w.formSubmitted
<1> DEFINE w == Stopped(v, f)
           s == StopRequest(v, f, valid)
           sends == /\ GoesOn(w) /\ valid /\ Errors(w) = {} /\ Sends(Form(w))
<1> HIDE DEF w
<1>0. Sound(w) /\ Tells(w, unsure) /\ w.value = v.value
  BY DEF w
<1>1. CASE ~GoesOn(w)
  <2>1. s = w
    BY <1>1 DEF StopRequest, w
  <2> QED BY <1>0, <1>1, <2>1 DEF w
<1>2. CASE GoesOn(w) /\ ~valid
  <2>1. s = [w EXCEPT !.formSubmitted = FALSE]
    BY <1>2 DEF StopRequest, w
  <2> QED BY <1>0, <1>2, <2>1, WaitingIsNoMatter DEF w
<1>3. CASE GoesOn(w) /\ valid /\ Errors(w) # {}
  <2>1. s = Form(w)
    BY <1>3 DEF StopRequest, w
  <2> QED BY <1>0, <1>3, <2>1, FormIsSound DEF w
<1>4. CASE GoesOn(w) /\ valid /\ Errors(w) = {}
  <2>1. s = [OnSubmit(Form(w)) EXCEPT !.formSubmitted = FALSE]
    BY <1>4 DEF StopRequest, w
  <2>2. Sound(Form(w)) /\ Form(w).value = v.value
    BY <1>0, FormIsSound
  <2>3. /\ Sound(OnSubmit(Form(w))) /\ Tells(OnSubmit(Form(w)), {})
        /\ OnSubmit(Form(w)).value = v.value
    BY <2>2, OnSubmitIsSound
  <2>4. Sound(s) /\ s.value = v.value /\ s.formSubmitted = FALSE /\ Tells(s, {})
    <3> DEFINE o == OnSubmit(Form(w))
               none == {}
    <3>1. none \in SUBSET Field
      OBVIOUS
    <3>2. Sound(o) /\ Tells(o, none) /\ o.value = v.value
      BY <2>3
    <3>3. s = [o EXCEPT !.formSubmitted = FALSE]
      BY <2>1
    <3> HIDE DEF o, none, s
    <3>4. Sound(s) /\ s.value = v.value /\ s.formSubmitted = FALSE /\ Tells(s, none)
      BY <3>1, <3>2, <3>3, WaitingIsNoMatter
    <3> QED BY <3>4 DEF none
  <2>5. sends => \A g \in Field : IsRight(v.value, g)
    BY <2>2, SendsRight
  <2> QED BY <1>4, <2>4, <2>5 DEF w, GoesOn
<1> QED BY <1>1, <1>2, <1>3, <1>4

\* The validator when the answer about a field was noted and shown.
Told(v, f) ==
    LET x == v.request[f]
        valid == x \notin Taken
        wrong == IF valid THEN {} ELSE {f}
        known == [v EXCEPT !.request[f] = None,
                           !.allowed[f] = IF v.old[f] = x THEN valid ELSE @]
    IN  ShowErrors(Invalidate(known, wrong, {f}), wrong, {f})

\* Answers leave what is known true, and tell the truth about the value that
\* was sent; of a value changed since, nothing is known.
LEMMA AnswerIsSound ==
    ASSUME NEW v, Sound(v), NEW f \in Field, v.request[f] # None,
           NEW unsure \in SUBSET Field, Tells(v, unsure)
    PROVE  LET w == Stopped(Told(v, f), f)
               stale == IF v.request[f] = v.value[f] THEN {} ELSE {f}
           IN  /\ Sound(w) /\ Tells(w, unsure \cup stale)
               /\ w.value = v.value /\ w.formSubmitted = v.formSubmitted
               /\ Told(v, f).value = v.value
<1> DEFINE x == v.request[f]
           valid == x \notin Taken
           wrong == IF valid THEN {} ELSE {f}
           req == [v.request EXCEPT ![f] = None]
           alw == [v.allowed EXCEPT ![f] = IF v.old[f] = x THEN valid ELSE @]
           known == [v EXCEPT !.request = req, !.allowed = alw]
           others == {f}
           told == ShowErrors(Invalidate(known, wrong, others), wrong, others)
           stale == IF x = v.value[f] THEN {} ELSE {f}
<1>1. v \in Validator /\ v \in Counting
  BY ValidatorsAreCounting DEF Sound
<1>2. req \in [Field -> Value \cup {None}] /\ alw \in [Field -> BOOLEAN]
  BY <1>1 DEF Validator
<1>3. Told(v, f) = told
  BY <1>1 DEF Told
<1>4. /\ \A g \in Field \ {f} : req[g] = v.request[g] /\ alw[g] = v.allowed[g]
      /\ req[f] = None
      /\ v.old[f] = x => (alw[f] <=> x \notin Taken)
  BY <1>1 DEF Validator
<1>5. wrong \in SUBSET Field
  OBVIOUS
<1>6. f \in v.pending /\ f \in Remote /\ v.old[f] \in {None, x} /\ x \notin Bad \cup {Empty}
  BY DEF Sound, RequestsAreKnown
<1> HIDE DEF req, alw
<1>7. /\ known \in Counting /\ SameMessages(v, known)
      /\ known.value = v.value /\ known.formSubmitted = v.formSubmitted
      /\ known.lastElement = v.lastElement
      /\ known.old = v.old /\ known.request = req /\ known.allowed = alw
      /\ known.pending = v.pending /\ known.pendingRequest = v.pendingRequest
  BY <1>1, <1>2 DEF Counting, SameMessages
<1> HIDE DEF known, wrong, others
<1> DEFINE judged == Invalidate(known, wrong, others)
<1>8. /\ judged \in Counting /\ SameRequests(known, judged) /\ SameForm(known, judged)
      /\ judged.invalid = (known.invalid \ others) \cup wrong
      /\ judged.shown = known.shown
  BY <1>5, <1>7, InvalidateParts
<1> HIDE DEF judged
<1>9. /\ told \in Counting /\ SameRequests(judged, told) /\ SameForm(judged, told)
      /\ told.shown = (judged.shown \ others) \cup wrong
      /\ told.invalid = judged.invalid
  BY <1>5, <1>8, ShowErrorsParts DEF judged
<1> HIDE DEF told
<1>10. /\ told.value = v.value /\ told.formSubmitted = v.formSubmitted
       /\ told.old = v.old /\ told.request = req /\ told.allowed = alw
       /\ told.pending = v.pending /\ told.pendingRequest = v.pendingRequest
       /\ told.shown = (v.shown \ {f}) \cup wrong
       /\ told.invalid = (v.invalid \ {f}) \cup wrong
  BY <1>7, <1>8, <1>9 DEF SameRequests, SameForm, SameMessages, others
<1>11. Sound(told)
  <2>1. told \in Validator
    BY <1>1, <1>9, <1>10, ValidatorsAreCounting
  <2>2. RequestsAreKnown(told)
    BY <1>4, <1>10 DEF Sound, RequestsAreKnown
  <2>3. AnswersAreKept(told)
    BY <1>4, <1>6, <1>10 DEF Sound, AnswersAreKept
  <2>4. BoxesAreRight(told)
    BY <1>10 DEF Sound, BoxesAreRight
  <2> QED BY <1>10, <2>1, <2>2, <2>3, <2>4 DEF Sound
<1> DEFINE w == Stopped(told, f)
<1>12. f \in told.pending /\ told.request[f] = None
       /\ (told.old[f] # None => (told.allowed[f] <=> told.old[f] \notin Taken))
  BY <1>4, <1>6, <1>10
<1>13. /\ Sound(w) /\ w.value = told.value /\ w.formSubmitted = told.formSubmitted
       /\ w.pending = told.pending \ {f}
       /\ w.shown = told.shown /\ w.invalid = told.invalid
  BY <1>11, <1>12, StoppedIsSound
<1> HIDE DEF w
<1>14. Tells(w, unsure \cup stale)
  <2>1. SUFFICES ASSUME NEW g \in Field \ ((unsure \cup stale) \cup w.pending)
                 PROVE  /\ g \in w.shown <=> ~IsRight(w.value, g)
                        /\ g \in w.invalid <=> g \in w.shown
    BY DEF Tells
  <2>2. CASE g # f
    <3>1. g \in Field \ (unsure \cup v.pending)
      BY <1>10, <1>13, <2>1, <2>2
    <3>2. /\ g \in v.shown <=> ~IsRight(v.value, g)
          /\ g \in v.invalid <=> g \in v.shown
      BY <3>1 DEF Tells
    <3> QED BY <1>10, <1>13, <2>2, <3>2 DEF wrong
  <2>3. CASE g = f
    <3>1. v.value[f] = x
      BY <2>1, <2>3
    <3>2. IsRight(v.value, f) <=> x \notin Taken
      BY <1>6, <3>1 DEF IsRight
    <3>3. f \in wrong <=> x \in Taken
      BY DEF wrong
    <3> QED BY <1>10, <1>13, <2>3, <3>2, <3>3
  <2> QED BY <2>2, <2>3
<1> QED BY <1>3, <1>10, <1>13, <1>14 DEF w

\* Checking one field tells the truth about it.
LEMMA ElementIsSound ==
    ASSUME NEW v, Sound(v), NEW f \in Field
    PROVE  LET w == Element(v, f)
           IN  /\ Sound(w) /\ w.value = v.value /\ w.formSubmitted = v.formSubmitted
               /\ \A unsure \in SUBSET Field : Tells(v, unsure) => Tells(w, unsure \ {f})
<1> DEFINE S == {f}
           c == Checked(v, S)
           w == [c EXCEPT !.lastElement = f]
<1>1. S \in SUBSET Field
  OBVIOUS
<1> HIDE DEF S
<1>2. /\ Sound(c) /\ c.value = v.value /\ c.formSubmitted = v.formSubmitted
      /\ \A unsure \in SUBSET Field : Tells(v, unsure) => Tells(c, unsure \ S)
  BY <1>1, CheckedIsSound
<1> HIDE DEF c
<1>3. /\ w \in Validator /\ SameRequests(c, w) /\ SameMessages(c, w)
      /\ w.value = c.value /\ w.allowed = c.allowed /\ w.formSubmitted = c.formSubmitted
  BY <1>2 DEF Sound, Validator, SameRequests, SameMessages
<1>4. Element(v, f) = w
  BY DEF Element, w, c, S
<1> HIDE DEF w
<1>5. Sound(w)
  BY <1>2, <1>3 DEF Sound, RequestsAreKnown, AnswersAreKept, BoxesAreRight, SameRequests
<1>6. \A unsure \in SUBSET Field : Tells(v, unsure) => Tells(w, unsure \ S)
  BY <1>2, <1>3 DEF Tells, SameRequests, SameMessages
<1> QED BY <1>2, <1>3, <1>4, <1>5, <1>6 DEF S

\* A change makes unsure the field and those whose rules depend on it.
LEMMA ChangedIsSound ==
    ASSUME NEW v, Sound(v), NEW f \in Field, NEW x \in Value,
           f \in Checkable => x \notin Bad \cup Taken,
           NEW unsure \in SUBSET Field, Tells(v, unsure)
    PROVE  LET w == [v EXCEPT !.value[f] = x]
           IN  /\ Sound(w) /\ w.formSubmitted = v.formSubmitted
               /\ Tells(w, unsure \cup {g \in Field : DependsOn[g] = f} \cup {f})
<1> DEFINE value == [v.value EXCEPT ![f] = x]
           w == [v EXCEPT !.value = value]
           depend == {g \in Field : DependsOn[g] = f}
<1>1. v \in Validator
  BY DEF Sound
<1>2. value \in [Field -> Value] /\ value[f] = x
      /\ \A g \in Field \ {f} : value[g] = v.value[g]
  BY <1>1 DEF Validator
<1> HIDE DEF value
<1>3. /\ w \in Validator /\ SameRequests(v, w) /\ SameMessages(v, w)
      /\ w.value = value /\ w.allowed = v.allowed /\ w.formSubmitted = v.formSubmitted
  BY <1>1, <1>2 DEF Validator, SameRequests, SameMessages
<1> HIDE DEF w
<1>4. Sound(w)
  <2>1. BoxesAreRight(w)
    BY <1>2, <1>3, ValidationAssumption DEF Sound, BoxesAreRight
  <2> QED BY <1>3, <2>1 DEF Sound, RequestsAreKnown, AnswersAreKept, SameRequests
<1>5. Tells(w, unsure \cup depend \cup {f})
  <2>1. SUFFICES ASSUME NEW g \in Field \ ((unsure \cup depend \cup {f}) \cup w.pending)
                 PROVE  /\ g \in w.shown <=> ~IsRight(w.value, g)
                        /\ g \in w.invalid <=> g \in w.shown
    BY DEF Tells
  <2>2. g \in Field \ (unsure \cup v.pending) /\ g # f /\ DependsOn[g] # f
    BY <1>3, <2>1 DEF SameRequests
  <2>3. /\ g \in v.shown <=> ~IsRight(v.value, g)
        /\ g \in v.invalid <=> g \in v.shown
    BY <2>2 DEF Tells
  <2>4. IsRight(w.value, g) <=> IsRight(v.value, g)
    <3>1. DependsOn[g] \in Field \cup {None}
      BY ValidationAssumption
    <3>2. DependsOn[g] # None => value[DependsOn[g]] = v.value[DependsOn[g]]
      BY <1>2, <2>2, <3>1
    <3> QED BY <1>2, <1>3, <2>2, <3>2 DEF IsRight
  <2> QED BY <1>3, <2>3, <2>4 DEF SameMessages
<1>6. [v EXCEPT !.value[f] = x] = w
  BY DEF w, value
<1> HIDE DEF depend
<1> QED BY <1>3, <1>4, <1>5, <1>6 DEF depend

-----------------------------------------------------------------------------
\* The rest of the state has its types.
RestOK ==
    /\ changes \in 0..MaxChanges /\ presses \in 0..MaxPresses /\ forms \in Nat
    /\ last \in [Field -> Value] \cup {None}
    /\ press \in {"none", "waits", "sent", "refused"}
    /\ touched \in BOOLEAN /\ dirty \in SUBSET Field

\* A form that is sent uses up a press; a submit that waits has one left.
PressesLast ==
    forms + (IF validator.formSubmitted THEN 1 ELSE 0) <= presses

Inv ==
    /\ RestOK /\ Sound(validator) /\ Tells(validator, dirty)
    /\ FormsSentAreRight /\ PressesLast

LEMMA InitInv == Init => Inv
<1> SUFFICES ASSUME Init PROVE Inv
  OBVIOUS
<1> USE ValidationAssumption
<1>1. RestOK
  <2>1. changes \in 0..MaxChanges /\ presses \in 0..MaxPresses /\ forms \in Nat
    BY DEF Init
  <2>2. press \in {"none", "waits", "sent", "refused"} /\ touched \in BOOLEAN
    BY DEF Init
  <2>3. last \in [Field -> Value] \cup {None} /\ dirty \in SUBSET Field
    BY DEF Init
  <2> QED BY <2>1, <2>2, <2>3 DEF RestOK
<1>2. Cardinality({}) = 0 /\ Cardinality(Field) \in Nat
  BY FS_EmptySet, FS_CardinalityType
<1>3. validator \in Validator
  BY <1>2 DEF Init, Validator
<1>4. /\ validator.value = [f \in Field |-> Empty]
      /\ validator.old = [f \in Field |-> None]
      /\ validator.request = [f \in Field |-> None]
      /\ validator.pending = {} /\ validator.pendingRequest = 0
      /\ validator.formSubmitted = FALSE
  BY DEF Init
<1>5. Sound(validator)
  BY <1>2, <1>3, <1>4 DEF Sound, RequestsAreKnown, AnswersAreKept, BoxesAreRight
<1>6. Tells(validator, dirty) /\ FormsSentAreRight
  BY DEF Init, Tells, FormsSentAreRight
<1>7. PressesLast
  BY <1>4 DEF Init, PressesLast
<1> QED BY <1>1, <1>5, <1>6, <1>7 DEF Inv

\* A step of the user that changes a field keeps the invariant.
LEMMA ChangeKeepsInv ==
    ASSUME Inv, NEW f \in Field, NEW x \in Value, NEW checks \in BOOLEAN,
           f \in Checkable => x \notin Bad \cup Taken, Change(f, x, checks)
    PROVE  Inv'
<1> DEFINE v == [validator EXCEPT !.value[f] = x]
           depend == {g \in Field : DependsOn[g] = f}
           unsure == dirty \cup depend \cup {f}
<1> HIDE DEF v
<1>1. Sound(validator) /\ Tells(validator, dirty) /\ dirty \in SUBSET Field
  BY DEF Inv, RestOK
<1>2. Sound(v) /\ v.formSubmitted = validator.formSubmitted /\ Tells(v, unsure)
  BY <1>1, ChangedIsSound DEF v
<1>3. unsure \in SUBSET Field
  BY <1>1
<1>4. RestOK'
  BY <1>3, ValidationAssumption DEF Inv, RestOK, Change
<1> HIDE DEF unsure, depend
<1>5. Sound(validator') /\ Tells(validator', dirty')
      /\ validator'.formSubmitted = validator.formSubmitted
  <2>1. CASE checks
    <3>1. validator' = Element(v, f) /\ dirty' = unsure \ {f}
      BY <2>1 DEF Change, v, unsure, depend
    <3> QED BY <1>2, <1>3, <3>1, ElementIsSound
  <2>2. CASE ~checks
    <3>1. validator' = v /\ dirty' = unsure
      BY <2>2 DEF Change, v, unsure, depend
    <3> QED BY <1>2, <3>1
  <2> QED BY <2>1, <2>2
<1>6. FormsSentAreRight'
  BY DEF Inv, Change, FormsSentAreRight, IsRight
<1>7. PressesLast'
  BY <1>5 DEF Inv, Change, PressesLast
<1> QED BY <1>4, <1>5, <1>6, <1>7 DEF Inv, Sound, Tells, RequestsAreKnown,
        AnswersAreKept, BoxesAreRight, IsRight

\* A check of one field, a reset, a submit, an answer and an error keep it.
LEMMA FocusOutKeepsInv ==
    ASSUME Inv, NEW f \in Field, OnFocusOut(f)
    PROVE  Inv'
<1>1. Sound(validator) /\ Tells(validator, dirty) /\ dirty \in SUBSET Field
  BY DEF Inv, RestOK
<1>2. validator' = Element(validator, f) /\ dirty' = dirty \ {f}
  BY DEF OnFocusOut
<1>3. Sound(validator') /\ Tells(validator', dirty')
      /\ validator'.formSubmitted = validator.formSubmitted
  BY <1>1, <1>2, ElementIsSound
<1>4. RestOK' /\ FormsSentAreRight'
  BY <1>1, <1>2 DEF Inv, OnFocusOut, RestOK, FormsSentAreRight, IsRight
<1>5. PressesLast'
  BY <1>3 DEF Inv, OnFocusOut, PressesLast
<1> QED BY <1>3, <1>4, <1>5 DEF Inv, Sound, Tells, RequestsAreKnown,
        AnswersAreKept, BoxesAreRight, IsRight

LEMMA ResetKeepsInv ==
    ASSUME Inv, ResetForm
    PROVE  Inv'
<1>1. Sound(validator) /\ validator \in Validator
  BY DEF Inv, Sound
<1>2. /\ validator' \in Validator
      /\ validator'.value = validator.value /\ validator'.request = validator.request
      /\ validator'.pending = validator.pending
      /\ validator'.pendingRequest = validator.pendingRequest
      /\ validator'.old = [f \in Field |-> None]
      /\ validator'.formSubmitted = validator.formSubmitted
  BY <1>1 DEF ResetForm, Validator
<1>3. Sound(validator')
  BY <1>1, <1>2 DEF Sound, RequestsAreKnown, AnswersAreKept, BoxesAreRight
<1>4. Tells(validator', dirty')
  BY DEF ResetForm, Tells
<1>5. RestOK' /\ FormsSentAreRight'
  BY ValidationAssumption DEF Inv, ResetForm, RestOK, FormsSentAreRight, IsRight
<1>6. PressesLast'
  BY <1>2 DEF Inv, ResetForm, PressesLast
<1> QED BY <1>3, <1>4, <1>5, <1>6 DEF Inv, Sound, Tells, RequestsAreKnown,
        AnswersAreKept, BoxesAreRight, IsRight

LEMMA SubmitKeepsInv ==
    ASSUME Inv, Submit
    PROVE  Inv'
<1>1. Sound(validator) /\ RestOK
  BY DEF Inv
<1>2. /\ Sound(validator') /\ Tells(validator', {}) /\ dirty' = {}
      /\ Sends(validator) => validator'.formSubmitted = validator.formSubmitted
  BY <1>1, OnSubmitIsSound DEF Submit
<1>3. validator.value \in [Field -> Value]
  BY <1>1 DEF Sound, Validator
<1>4. RestOK'
  <2>1. changes' \in 0..MaxChanges /\ presses' \in 0..MaxPresses /\ forms' \in Nat
    BY <1>1, ValidationAssumption DEF RestOK, Submit, Sent
  <2>2. press' \in {"none", "waits", "sent", "refused"}
    BY DEF Submit
  <2>3. last' \in [Field -> Value] \cup {None}
    BY <1>1, <1>3 DEF RestOK, Submit, Sent
  <2>4. touched' \in BOOLEAN /\ dirty' \in SUBSET Field
    BY DEF Submit
  <2> QED BY <2>1, <2>2, <2>3, <2>4 DEF RestOK
<1>5. FormsSentAreRight'
  <2>1. CASE Sends(validator)
    <3>1. \A f \in Field : IsRight(validator.value, f)
      BY <1>1, <2>1, SendsRight
    <3>2. last' = validator.value
      BY <2>1 DEF Submit, Sent
    <3> QED BY <3>1, <3>2 DEF FormsSentAreRight, IsRight
  <2>2. CASE ~Sends(validator)
    BY <2>2 DEF Inv, Submit, Sent, FormsSentAreRight, IsRight
  <2> QED BY <2>1, <2>2
<1>6. PressesLast'
  BY <1>1, <1>2 DEF Inv, RestOK, Submit, Sent, PressesLast
<1> QED BY <1>2, <1>4, <1>5, <1>6 DEF Inv, Sound, Tells, RequestsAreKnown,
        AnswersAreKept, BoxesAreRight, IsRight

LEMMA UncheckedKeepsInv ==
    ASSUME Inv, SubmitUnchecked
    PROVE  Inv'
<1>1. RestOK'
  BY ValidationAssumption DEF Inv, RestOK, SubmitUnchecked
<1>2. PressesLast'
  BY DEF Inv, RestOK, SubmitUnchecked, PressesLast
<1> QED BY <1>1, <1>2 DEF Inv, SubmitUnchecked, Sound, Tells, RequestsAreKnown,
        AnswersAreKept, BoxesAreRight, IsRight, FormsSentAreRight

LEMMA FailKeepsInv ==
    ASSUME Inv, NEW f \in Field, Fail(f)
    PROVE  Inv'
<1> DEFINE req == [validator.request EXCEPT ![f] = None]
<1>1. Sound(validator) /\ validator \in Validator /\ Tells(validator, dirty)
  BY DEF Inv, Sound
<1>2. req \in [Field -> Value \cup {None}] /\ req[f] = None
      /\ \A g \in Field \ {f} : req[g] = validator.request[g]
  BY <1>1 DEF Validator
<1>3. validator' = [validator EXCEPT !.request = req]
  BY DEF Fail
<1> HIDE DEF req
<1>4. /\ validator' \in Validator /\ SameForm(validator, validator')
      /\ SameMessages(validator, validator')
      /\ validator'.old = validator.old /\ validator'.request = req
      /\ validator'.pending = validator.pending
      /\ validator'.pendingRequest = validator.pendingRequest
  BY <1>1, <1>2, <1>3 DEF Validator, SameForm, SameMessages
<1>5. Sound(validator')
  BY <1>1, <1>2, <1>4
     DEF Sound, RequestsAreKnown, AnswersAreKept, BoxesAreRight, SameForm
<1>6. Tells(validator', dirty')
  BY <1>1, <1>4 DEF Fail, Tells, SameForm, SameMessages
<1>7. RestOK' /\ FormsSentAreRight'
  BY DEF Inv, Fail, RestOK, FormsSentAreRight, IsRight
<1>8. PressesLast'
  BY <1>4 DEF Inv, Fail, PressesLast, SameForm
<1> QED BY <1>5, <1>6, <1>7, <1>8 DEF Inv, Sound, Tells, RequestsAreKnown,
        AnswersAreKept, BoxesAreRight, IsRight

LEMMA AnswerKeepsInv ==
    ASSUME Inv, NEW f \in Field, Answer(f)
    PROVE  Inv'
<1> DEFINE x == validator.request[f]
           valid == x \notin Taken
           told == Told(validator, f)
           w == Stopped(told, f)
           s == StopRequest(told, f, valid)
           sends == GoesOn(w) /\ valid /\ Errors(w) = {} /\ Sends(Form(w))
           stale == IF x = validator.value[f] THEN {} ELSE {f}
           unsure == dirty \cup stale
<1>1. /\ Sound(validator) /\ Tells(validator, dirty) /\ RestOK /\ dirty \in SUBSET Field
      /\ validator.value \in [Field -> Value]
  BY DEF Inv, RestOK, Sound, Validator
<1>2. x # None
  BY DEF Answer
<1>3. valid \in BOOLEAN /\ unsure \in SUBSET Field
  BY <1>1
<1>4. /\ Sound(w) /\ Tells(w, unsure)
      /\ w.value = validator.value /\ w.formSubmitted = validator.formSubmitted
      /\ told.value = validator.value
  BY <1>1, <1>2, AnswerIsSound
<1>5. /\ validator' = s /\ Sent(sends)
      /\ press' = IF ~GoesOn(w) \/ press # "waits" THEN press
                  ELSE IF sends THEN "sent"
                  ELSE IF valid /\ Errors(w) = {} THEN "waits" ELSE "refused"
      /\ dirty' = IF GoesOn(w) /\ valid THEN {} ELSE unsure
      /\ UNCHANGED <<changes, presses, touched>>
  BY DEF Answer, Told
<1> HIDE DEF unsure, told, valid, x
<1>6. /\ Sound(s) /\ s.value = told.value
      /\ Tells(s, IF GoesOn(w) /\ valid THEN {} ELSE unsure)
      /\ sends => /\ w.formSubmitted /\ ~s.formSubmitted
                  /\ \A g \in Field : IsRight(told.value, g)
      /\ s.formSubmitted => w.formSubmitted
  BY <1>3, <1>4, StopRequestIsSound
<1> HIDE DEF w, s, sends
<1>7. RestOK'
  <2>1. changes' \in 0..MaxChanges /\ presses' \in 0..MaxPresses /\ forms' \in Nat
    BY <1>1, <1>5 DEF RestOK, Sent
  <2>2. press' \in {"none", "waits", "sent", "refused"}
    BY <1>1, <1>5 DEF RestOK
  <2>3. last' \in [Field -> Value] \cup {None}
    BY <1>1, <1>5 DEF RestOK, Sent
  <2>4. touched' \in BOOLEAN /\ dirty' \in SUBSET Field
    BY <1>1, <1>3, <1>5 DEF RestOK
  <2> QED BY <2>1, <2>2, <2>3, <2>4 DEF RestOK
<1>8. Sound(validator') /\ Tells(validator', dirty')
  BY <1>5, <1>6
<1>9. FormsSentAreRight'
  <2>1. CASE sends
    BY <1>4, <1>5, <1>6, <2>1 DEF Sent, FormsSentAreRight, IsRight
  <2>2. CASE ~sends
    BY <1>5, <2>2 DEF Inv, Sent, FormsSentAreRight, IsRight
  <2> QED BY <2>1, <2>2
<1>10. PressesLast'
  <2>1. validator.formSubmitted \in BOOLEAN /\ s.formSubmitted \in BOOLEAN
    BY <1>1, <1>6 DEF Sound, Validator
  <2>2. CASE sends
    BY <1>1, <1>4, <1>5, <1>6, <2>1, <2>2 DEF Inv, RestOK, Sent, PressesLast
  <2>3. CASE ~sends
    BY <1>1, <1>4, <1>5, <1>6, <2>1, <2>3 DEF Inv, RestOK, Sent, PressesLast
  <2> QED BY <2>2, <2>3
<1> QED BY <1>7, <1>8, <1>9, <1>10 DEF Inv, Sound, Tells, RequestsAreKnown,
        AnswersAreKept, BoxesAreRight, IsRight

\* Every step keeps the invariant.
LEMMA StepKeepsInv == Inv /\ [Next]_vars => Inv'
<1> SUFFICES ASSUME Inv, [Next]_vars PROVE Inv'
  OBVIOUS
<1>1. ASSUME NEW f \in Field, NEW x \in Value, OnKeyUp(f, x)
      PROVE  Inv'
  <2> DEFINE checks == f \in validator.submitted \cup {validator.lastElement}
  <2>1. checks \in BOOLEAN /\ Change(f, x, checks) /\ f \notin Checkable
    BY <1>1 DEF OnKeyUp
  <2> HIDE DEF checks
  <2> QED BY <2>1, ChangeKeepsInv
<1>2. ASSUME NEW f \in Field, NEW x \in Value, OnClick(f, x)
      PROVE  Inv'
  <2> DEFINE checks == f \in validator.submitted
  <2>1. checks \in BOOLEAN /\ Change(f, x, checks) /\ x \notin Bad \cup Taken
    BY <1>2 DEF OnClick
  <2> HIDE DEF checks
  <2> QED BY <2>1, ChangeKeepsInv
<1>3. ASSUME NEW f \in Field, NEW x \in Value, FillIn(f, x)
      PROVE  Inv'
  BY <1>3, ChangeKeepsInv DEF FillIn
<1>4. CASE \E f \in Field : OnFocusOut(f)
  BY <1>4, FocusOutKeepsInv
<1>5. CASE Submit
  BY <1>5, SubmitKeepsInv
<1>6. CASE SubmitUnchecked
  BY <1>6, UncheckedKeepsInv
<1>7. CASE ResetForm
  BY <1>7, ResetKeepsInv
<1>8. CASE \E f \in Field : Answer(f)
  BY <1>8, AnswerKeepsInv
<1>9. CASE \E f \in Field : Fail(f)
  BY <1>9, FailKeepsInv
<1>10. CASE UNCHANGED vars
  BY <1>10 DEF vars, Inv, RestOK, Sound, Tells, RequestsAreKnown, AnswersAreKept,
       BoxesAreRight, IsRight, FormsSentAreRight, PressesLast
<1> QED BY <1>1, <1>2, <1>3, <1>4, <1>5, <1>6, <1>7, <1>8, <1>9, <1>10
        DEF Next, User

\* The invariant holds of every behaviour.
LEMMA InvHolds == Spec => []Inv
BY InitInv, StepKeepsInv, PTL DEF Spec

-----------------------------------------------------------------------------
\* Whatever the form, the rules and the user: pendingRequest counts the fields
\* the server is asked about, and the messages and the fields marked invalid
\* are those of the wrong fields (validate's check, showErrors, startRequest,
\* stopRequest).
THEOREM ValidatorHolds == Spec => []ValidatorIsSound
<1>1. Inv => ValidatorIsSound
  <2> SUFFICES ASSUME Inv PROVE ValidatorIsSound
    OBVIOUS
  <2>1. TypeOK
    BY DEF Inv, RestOK, Sound, TypeOK
  <2>2. PendingIsCounted
    BY DEF Inv, Sound, RequestsAreKnown, PendingIsCounted
  <2>3. MessagesAreTrue
    BY DEF Inv, Tells, MessagesAreTrue
  <2> QED BY <2>1, <2>2, <2>3 DEF ValidatorIsSound
<1> QED BY <1>1, InvHolds, PTL

\* Every form that is sent, not unchecked, has only values its rules and the
\* server accept (the submit handler of validate, and stopRequest).
THEOREM FormsHold == Spec => []FormsSentAreRight
<1>1. Inv => FormsSentAreRight
  BY DEF Inv
<1> QED BY <1>1, InvHolds, PTL

\* The answers that come for a submit that waits send the form once at most
\* (formSubmitted in the submit handler and stopRequest).
THEOREM PressesHold == Spec => []FormsAreSubmitted
<1>1. Inv => FormsAreSubmitted
  <2> SUFFICES ASSUME Inv PROVE FormsAreSubmitted
    OBVIOUS
  <2> QED BY DEF Inv, RestOK, PressesLast, FormsAreSubmitted
<1> QED BY <1>1, InvHolds, PTL
=============================================================================
