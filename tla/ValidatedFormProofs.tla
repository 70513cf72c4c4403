------------------------ MODULE ValidatedFormProofs ------------------------
(***************************************************************************)
(* Proofs about ValidatedForm, for any forms and any values: what the page  *)
(* shows at a field is true of the field, and whoever may not submit is     *)
(* told why.                                                                *)
(***************************************************************************)
EXTENDS ValidatedForm, TLAPS

-----------------------------------------------------------------------------
(* The inductive invariant. *)

Attached == [f \in Fields |-> IF f \in Annotated THEN ParseElement(form[f]) ELSE <<>>]

ShapeInv ==
    /\ form \in Forms
    /\ phase \in Phases
    /\ value = [f \in Fields |-> value[f]]
    /\ mark \in [Fields -> Marks]
    /\ failed \subseteq Fields

\* Nothing is known of a field before the rules are there.
LoadingInv ==
    phase = "loading" =>
        /\ failed = {}
        /\ submitted = {}
        /\ mark = [f \in Fields |-> Unmarked]

\* Once they are, they stay; who failed is remembered, and only elements are marked.
ReadyInv ==
    phase = "ready" =>
        /\ rules = Attached
        /\ failed \subseteq submitted \cap Elements
        /\ \A f \in Fields \ Elements : mark[f].input = "valid"

FormInv == ShapeInv /\ LoadingInv /\ ReadyInv /\ MarksAgree /\ FailedFieldsAreWatched

-----------------------------------------------------------------------------
(* The rules. *)

\* The rules of a field are rules with a method, and never one optional rule alone.
LEMMA RulesAreMethods ==
    ASSUME ShapeInv, rules = Attached, NEW f \in Fields
    PROVE  DOMAIN Rules(f) \subseteq Methods
PROOF
  <1>1. DOMAIN rules[f] \subseteq Methods
    <2>1. DOMAIN ParseElement(form[f]) \subseteq Methods
      BY FormsAssumption DEF ShapeInv, Fields
    <2>2. CASE f \in Annotated
      BY <2>1, <2>2 DEF Attached
    <2>3. CASE f \notin Annotated
      <3>1. rules[f] = <<>>
        BY <2>3 DEF Attached
      <3> QED  BY <3>1
    <2> QED  BY <2>2, <2>3
  <1>2. "number" \in Methods
    BY DEF Methods, Formats
  <1>3. DOMAIN Rules(f) = DOMAIN rules[f] \cup IF form[f].type = "number" THEN {"number"} ELSE {}
    BY DEF Rules
  <1> QED  BY <1>1, <1>2, <1>3

LEMMA NeverOneOptional ==
    ASSUME ShapeInv, rules = Attached, NumbersAreAnnotated, NEW f \in Fields
    PROVE  ~DependencyMismatch(f)
PROOF
  <1>1. DOMAIN Rules(f) = DOMAIN rules[f] \cup IF form[f].type = "number" THEN {"number"} ELSE {}
    BY DEF Rules
  <1>2. "__dummy__" \notin Optional
    BY DEF Optional, Formats
  <1>3. CASE f \in Annotated
    <2>1. "__dummy__" \in DOMAIN ParseElement(form[f])
      BY DEF ParseElement
    <2>2. "__dummy__" \in DOMAIN Rules(f)
      BY <1>1, <1>3, <2>1 DEF Attached
    <2> QED  BY <1>2, <2>2 DEF DependencyMismatch
  <1>4. CASE f \notin Annotated
    <2>1. form[f].type # "number"
      BY <1>4 DEF NumbersAreAnnotated, ShapeInv, Fields, Annotated
    <2>2. rules[f] = <<>>
      BY <1>4 DEF Attached
    <2>3. DOMAIN Rules(f) = {}
      BY <1>1, <2>1, <2>2
    <2> QED  BY <2>3 DEF DependencyMismatch
  <1> QED  BY <1>3, <1>4

-----------------------------------------------------------------------------
(* A check. *)

\* The mark of a checked field says what the check found; the others keep theirs.
LEMMA ChecksMark ==
    ASSUME ShapeInv, rules = Attached, NumbersAreAnnotated,
           NEW checked \in SUBSET Elements, ShowErrors(checked)
    PROVE  /\ mark' \in [Fields -> Marks]
           /\ \A f \in Fields \ checked : mark'[f] = mark[f]
           /\ \A f \in checked :
                IF Broken(f) = {} THEN mark'[f] = Unmarked
                ELSE /\ mark'[f].input = "error"
                     /\ mark'[f].container = "error"
                     /\ mark'[f].text \in Broken(f)
PROOF
  <1>1. checked \subseteq Fields
    BY DEF Elements
  <1> DEFINE labelled(f) == IF f \in Failing(checked) \cup Succeeding(checked)
                            THEN ShowLabel(mark[f], f, Failing(checked)) ELSE mark[f]
             shown(f) == IF f \in checked THEN Highlight(labelled(f), f, Failing(checked)) ELSE mark[f]
  <1>2. mark' = [f \in Fields |-> shown(f)]
    BY DEF ShowErrors
  <1>3. \A f \in Fields : mark'[f] = shown(f)
    BY <1>2
  <1>4. \A f \in Fields : mark[f] \in Marks
    BY DEF ShapeInv
  <1>5. ASSUME NEW f \in checked, Broken(f) = {}
        PROVE  shown(f) = Unmarked
    <2>1. f \in Succeeding(checked) /\ f \notin Failing(checked)
      BY <1>1, <1>5, NeverOneOptional DEF Succeeding, Failing
    <2>2. labelled(f) = OnSuccess(OnError(mark[f], "none"))
      BY <2>1 DEF ShowLabel
    <2>3. shown(f) = [labelled(f) EXCEPT !.input = "valid"]
      BY <2>1 DEF Highlight
    <2>4. mark[f] \in Marks
      BY <1>1, <1>4
    <2> HIDE DEF labelled, shown
    <2> QED  BY <2>2, <2>3, <2>4 DEF OnSuccess, OnError, Unmarked, Marks
  <1>6. ASSUME NEW f \in checked, Broken(f) # {}
        PROVE  /\ shown(f) \in Marks
               /\ shown(f).input = "error"
               /\ shown(f).container = "error"
               /\ shown(f).text \in Broken(f)
    <2>1. f \in Failing(checked)
      BY <1>6 DEF Failing
    <2>2. labelled(f) = OnError(mark[f], FirstBroken(f))
      BY <2>1 DEF ShowLabel
    <2>3. shown(f) = [labelled(f) EXCEPT !.input = "error"]
      BY <2>1 DEF Highlight
    <2>4. FirstBroken(f) \in Broken(f)
      BY <1>6 DEF FirstBroken
    <2>5. Broken(f) \subseteq Methods
      BY <1>1, RulesAreMethods DEF Broken
    <2>6. mark[f] \in Marks
      BY <1>1, <1>4
    <2> HIDE DEF labelled, shown
    <2> QED  BY <2>2, <2>3, <2>4, <2>5, <2>6 DEF OnError, Marks
  <1>7. Unmarked \in Marks
    BY DEF Unmarked, Marks
  <1>8. \A f \in Fields : shown(f) \in Marks
    <2> SUFFICES ASSUME NEW f \in Fields PROVE shown(f) \in Marks
      OBVIOUS
    <2>1. CASE f \notin checked
      BY <1>4, <2>1
    <2>2. CASE f \in checked
      <3> HIDE DEF shown
      <3> QED  BY <1>5, <1>6, <1>7, <2>2
    <2> QED  BY <2>1, <2>2
  <1>9. \A f \in Fields \ checked : mark'[f] = mark[f]
    BY <1>3
  <1>10. \A f \in checked : mark'[f] = shown(f)
    BY <1>1, <1>3
  <1> HIDE DEF shown
  <1> QED  BY <1>2, <1>5, <1>6, <1>8, <1>9, <1>10

\* A check keeps the invariant if every field not checked keeps its value or is
\* unseen, or had not failed.
LEMMA ChecksKeep ==
    ASSUME FormInv, phase = "ready", NumbersAreAnnotated,
           form' = form, rules' = rules, phase' \in Phases \ {"loading"},
           value' = [f \in Fields |-> value'[f]],
           NEW checked \in SUBSET Elements, ShowErrors(checked), Remember(checked),
           \A f \in Fields \ checked : value'[f] = value[f]
    PROVE  FormInv'
PROOF
  <1>1. rules = Attached /\ ShapeInv
    BY DEF FormInv, ReadyInv
  <1>2. /\ mark' \in [Fields -> Marks]
        /\ \A f \in Fields \ checked : mark'[f] = mark[f]
        /\ \A f \in checked :
             IF Broken(f) = {} THEN mark'[f] = Unmarked
             ELSE /\ mark'[f].input = "error"
                  /\ mark'[f].container = "error"
                  /\ mark'[f].text \in Broken(f)
    BY <1>1, ChecksMark
  <1>3. Fields' = Fields /\ Attached' = Attached /\ Elements' = Elements
    BY DEF Fields, Attached, Annotated, Elements, Rules
  <1>4. checked \subseteq Elements /\ Elements \subseteq Fields /\ Failing(checked) \subseteq checked
    BY DEF Elements, Failing
  <1>5. ShapeInv'
    BY <1>1, <1>2, <1>3, <1>4 DEF ShapeInv, Remember
  <1>6. LoadingInv'
    BY DEF LoadingInv
  <1>7. ReadyInv'
    BY <1>1, <1>2, <1>3, <1>4 DEF FormInv, ReadyInv, Remember
  <1>8. MarksAgree'
    BY <1>2, <1>3, <1>4 DEF FormInv, MarksAgree, Unmarked
  <1>9. FailedFieldsAreWatched'
    <2> SUFFICES ASSUME NEW f \in (failed \ unseen)'
                 PROVE  IF Broken(f) = {} THEN mark'[f] = Unmarked
                        ELSE mark'[f].container = "error" /\ mark'[f].text \in Broken(f)
      <3>1. \A f : Rules(f)' = Rules(f)
        BY DEF Rules
      <3> QED  BY <3>1 DEF FailedFieldsAreWatched, Broken
    <2>1. CASE f \in checked
      BY <1>2, <2>1
    <2>2. CASE f \notin checked
      <3>1. f \in failed \ unseen
        BY <1>4, <2>2 DEF Remember
      <3>2. f \in Fields
        BY <1>1, <3>1 DEF ShapeInv
      <3>3. value'[f] = value[f] /\ mark'[f] = mark[f]
        BY <1>2, <2>2, <3>2
      <3> QED  BY <3>1, <3>3 DEF FormInv, FailedFieldsAreWatched, Broken
    <2> QED  BY <2>1, <2>2
  <1> QED  BY <1>5, <1>6, <1>7, <1>8, <1>9 DEF FormInv

\* An event handler keeps it: a field that has failed is one it always wants to check.
LEMMA EventsKeep ==
    ASSUME FormInv, NumbersAreAnnotated, OnPage,
           form' = form, rules' = rules, phase' = phase,
           NEW f \in Fields, NEW wanted,
           value' = [value EXCEPT ![f] = value'[f]],
           f \in submitted => wanted,
           wanted \in BOOLEAN,
           HandleEvent(f, wanted)
    PROVE  FormInv'
PROOF
  <1>1. value = [g \in Fields |-> value[g]]
    BY DEF FormInv, ShapeInv
  <1>2. /\ value' = [g \in Fields |-> value'[g]]
        /\ \A g \in Fields \ {f} : value'[g] = value[g]
    BY <1>1
  <1>3. CASE phase = "ready" /\ f \in Elements /\ wanted
    <2>1. ShowErrors({f}) /\ Remember({f})
      BY <1>3 DEF HandleEvent, Element
    <2> QED  BY <1>2, <1>3, <2>1, ChecksKeep DEF Phases
  <1>4. CASE ~(phase = "ready" /\ f \in Elements /\ wanted)
    <2>1. UNCHANGED <<invalid, submitted, mark, failed, unseen>>
      BY <1>4 DEF HandleEvent, Ignore
    <2>2. Fields' = Fields /\ Attached' = Attached /\ Elements' = Elements
      BY DEF Fields, Attached, Annotated, Elements, Rules
    <2>3. ShapeInv' /\ LoadingInv' /\ ReadyInv' /\ MarksAgree'
      BY <1>2, <2>1, <2>2 DEF FormInv, ShapeInv, LoadingInv, ReadyInv, MarksAgree
    <2>4. phase = "ready" => f \notin failed
      BY <1>4 DEF FormInv, ReadyInv
    <2>5. FailedFieldsAreWatched'
      <3> SUFFICES ASSUME phase = "ready", NEW g \in failed \ unseen
                   PROVE  LET broken == {r \in DOMAIN Rules(g) : ~Passes(r, Rules(g)[r], value'[g])}
                          IN  IF broken = {} THEN mark[g] = Unmarked
                              ELSE mark[g].container = "error" /\ mark[g].text \in broken
        <4>1. \A g : Rules(g)' = Rules(g)
          BY DEF Rules
        <4> QED  BY <2>1, <4>1 DEF FailedFieldsAreWatched
      <3>1. g \in Fields \ {f}
        BY <2>4 DEF FormInv, ShapeInv
      <3>2. value'[g] = value[g]
        BY <1>2, <3>1
      <3> QED  BY <3>2 DEF FormInv, FailedFieldsAreWatched
    <2> QED  BY <2>3, <2>5 DEF FormInv
  <1> QED  BY <1>3, <1>4

LEMMA PastesKeep ==
    ASSUME FormInv, NEW f \in Fields, NEW v, Paste(f, v)
    PROVE  FormInv'
PROOF
  <1>1. /\ UNCHANGED <<form, phase, rules, invalid, submitted, mark, failed>>
        /\ value' = [value EXCEPT ![f] = v]
        /\ unseen' = unseen \cup {f}
    BY DEF Paste, Ignore
  <1>2. value = [g \in Fields |-> value[g]]
    BY DEF FormInv, ShapeInv
  <1>3. /\ value' = [g \in Fields |-> value'[g]]
        /\ \A g \in Fields \ {f} : value'[g] = value[g]
    BY <1>1, <1>2
  <1>4. Fields' = Fields /\ Attached' = Attached /\ Elements' = Elements
    BY <1>1 DEF Fields, Attached, Annotated, Elements, Rules
  <1>5. ShapeInv' /\ LoadingInv' /\ ReadyInv' /\ MarksAgree'
    BY <1>1, <1>3, <1>4 DEF FormInv, ShapeInv, LoadingInv, ReadyInv, MarksAgree
  <1>6. FailedFieldsAreWatched'
    <2> SUFFICES ASSUME phase = "ready", NEW g \in failed \ (unseen \cup {f})
                 PROVE  LET broken == {r \in DOMAIN Rules(g) : ~Passes(r, Rules(g)[r], value'[g])}
                        IN  IF broken = {} THEN mark[g] = Unmarked
                            ELSE mark[g].container = "error" /\ mark[g].text \in broken
      <3>1. \A g : Rules(g)' = Rules(g)
        BY <1>1 DEF Rules
      <3> QED  BY <1>1, <3>1 DEF FailedFieldsAreWatched
    <2>1. g \in Fields \ {f}
      BY DEF FormInv, ShapeInv
    <2>2. value'[g] = value[g]
      BY <1>3, <2>1
    <2> QED  BY <2>2 DEF FormInv, FailedFieldsAreWatched
  <1> QED  BY <1>5, <1>6 DEF FormInv

LEMMA FieldStepsKeep ==
    ASSUME FormInv, NumbersAreAnnotated, FieldStep
    PROVE  FormInv'
PROOF
  <1>1. value = [g \in Fields |-> value[g]]
    BY DEF FormInv, ShapeInv
  <1> SUFFICES ASSUME NEW f \in Fields,
                      \/ Leave(f)
                      \/ \E v \in Inputs(f) : Type(f, v) \/ Paste(f, v) \/ Click(f, v)
               PROVE  FormInv'
    BY DEF FieldStep
  <1>2. CASE Leave(f)
    <2>1. value' = [value EXCEPT ![f] = value'[f]]
      BY <1>1, <1>2 DEF Leave
    <2> DEFINE wanted == f \in submitted \/ ~IsEmpty(value[f])
    <2>2. HandleEvent(f, wanted) /\ OnPage /\ UNCHANGED <<form, phase, rules>>
      BY <1>2 DEF Leave
    <2>3. wanted \in BOOLEAN /\ (f \in submitted => wanted)
      OBVIOUS
    <2> HIDE DEF wanted
    <2> QED  BY <2>1, <2>2, <2>3, EventsKeep
  <1>3. ASSUME NEW v \in Inputs(f), Type(f, v)
        PROVE  FormInv'
    <2>1. value' = [value EXCEPT ![f] = value'[f]]
      BY <1>1, <1>3 DEF Type
    <2> DEFINE wanted == f \in submitted \cup invalid
    <2>2. HandleEvent(f, wanted) /\ OnPage /\ UNCHANGED <<form, phase, rules>>
      BY <1>3 DEF Type
    <2>3. wanted \in BOOLEAN /\ (f \in submitted => wanted)
      OBVIOUS
    <2> HIDE DEF wanted
    <2> QED  BY <2>1, <2>2, <2>3, EventsKeep
  <1>4. ASSUME NEW v \in Inputs(f), Click(f, v)
        PROVE  FormInv'
    <2>1. value' = [value EXCEPT ![f] = value'[f]]
      BY <1>1, <1>4 DEF Click
    <2> DEFINE wanted == f \in submitted
    <2>2. HandleEvent(f, wanted) /\ OnPage /\ UNCHANGED <<form, phase, rules>>
      BY <1>4 DEF Click
    <2>3. wanted \in BOOLEAN /\ (f \in submitted => wanted)
      OBVIOUS
    <2> HIDE DEF wanted
    <2> QED  BY <2>1, <2>2, <2>3, EventsKeep
  <1> QED  BY <1>2, <1>3, <1>4, PastesKeep

-----------------------------------------------------------------------------
(* The form as a whole. *)

LEMMA InitHolds == Init => FormInv
PROOF
  <1> SUFFICES ASSUME Init PROVE FormInv
    OBVIOUS
  <1>1. Unmarked \in Marks
    BY DEF Unmarked, Marks
  <1>2. ShapeInv
    BY <1>1 DEF Init, ShapeInv, Phases, Fields
  <1>3. MarksAgree
    BY DEF Init, MarksAgree, Unmarked
  <1> QED  BY <1>2, <1>3 DEF Init, FormInv, LoadingInv, ReadyInv, FailedFieldsAreWatched

LEMMA ParseKeeps ==
    ASSUME FormInv, Parse
    PROVE  FormInv'
PROOF
  <1>1. UNCHANGED <<form, value, submitted, mark, failed, unseen>> /\ failed = {}
        /\ mark = [f \in Fields |-> Unmarked]
    BY DEF Parse, FormInv, LoadingInv
  <1>2. phase' = "ready" /\ rules' = Attached
    BY DEF Parse, Attached
  <1>3. Fields' = Fields /\ Attached' = Attached
    BY <1>1 DEF Fields, Attached, Annotated
  <1>4. ShapeInv' /\ LoadingInv'
    BY <1>1, <1>2, <1>3 DEF FormInv, ShapeInv, LoadingInv, Phases
  <1>5. ReadyInv'
    BY <1>1, <1>2, <1>3 DEF ReadyInv, Unmarked
  <1>6. MarksAgree' /\ FailedFieldsAreWatched'
    BY <1>1, <1>3 DEF FormInv, MarksAgree, FailedFieldsAreWatched
  <1> QED  BY <1>4, <1>5, <1>6 DEF FormInv

LEMMA SubmitUncheckedKeeps ==
    ASSUME FormInv, SubmitUnchecked
    PROVE  FormInv'
PROOF
  <1>1. UNCHANGED <<form, rules, value, submitted, mark, failed, unseen>>
        /\ phase' \in {phase, "sentUnchecked"} /\ phase = "loading"
    BY DEF SubmitUnchecked
  <1>2. Fields' = Fields
    BY <1>1 DEF Fields
  <1>3. ShapeInv' /\ LoadingInv' /\ ReadyInv'
    BY <1>1, <1>2 DEF FormInv, ShapeInv, LoadingInv, ReadyInv, Phases
  <1>4. MarksAgree' /\ FailedFieldsAreWatched'
    BY <1>1, <1>2 DEF FormInv, MarksAgree, FailedFieldsAreWatched
  <1> QED  BY <1>3, <1>4 DEF FormInv

LEMMA SubmitKeeps ==
    ASSUME FormInv, NumbersAreAnnotated, Submit
    PROVE  FormInv'
PROOF
  <1>1. UNCHANGED <<form, rules, value>> /\ phase = "ready" /\ phase' \in Phases \ {"loading"}
    BY DEF Submit, Phases
  <1>2. value' = [f \in Fields |-> value'[f]]
    BY <1>1 DEF FormInv, ShapeInv
  <1>3. ShowErrors(Elements) /\ Remember(Elements)
    BY DEF Submit
  <1> QED  BY <1>1, <1>2, <1>3, ChecksKeep

LEMMA ResetKeeps ==
    ASSUME FormInv, Reset
    PROVE  FormInv'
PROOF
  <1>1. /\ UNCHANGED <<form, phase, rules>>
        /\ value' = [f \in Fields |-> form[f].initial]
    BY DEF Reset
  <1>2. Fields' = Fields /\ Attached' = Attached /\ Elements' = Elements
    BY <1>1 DEF Fields, Attached, Annotated, Elements, Rules
  <1>3. CASE phase = "ready"
    <2>1. /\ submitted' = {} /\ failed' = {}
          /\ mark' = [f \in Fields |-> [mark[f] EXCEPT !.container = "valid",
                                          !.input = IF f \in Elements THEN "valid" ELSE @]]
      BY <1>3 DEF Reset, OnReset
    <2>2. \A f \in Fields : mark[f] \in Marks
      BY DEF FormInv, ShapeInv
    <2>3. \A f \in Fields \ Elements : mark[f].input = "valid"
      BY <1>3 DEF FormInv, ReadyInv
    <2>4. \A f \in Fields : mark'[f] = [mark[f] EXCEPT !.container = "valid", !.input = "valid"]
      BY <2>1, <2>2, <2>3 DEF Marks
    <2>5. \A f \in Fields : /\ mark'[f] \in Marks
                            /\ mark'[f].input = "valid"
                            /\ mark'[f].container = "valid"
      BY <2>2, <2>4 DEF Marks
    <2>6. ShapeInv' /\ LoadingInv'
      BY <1>1, <1>2, <1>3, <2>1, <2>5 DEF FormInv, ShapeInv, LoadingInv
    <2>7. ReadyInv' /\ MarksAgree' /\ FailedFieldsAreWatched'
      BY <1>1, <1>2, <2>1, <2>5 DEF FormInv, ReadyInv, MarksAgree, FailedFieldsAreWatched
    <2> QED  BY <2>6, <2>7 DEF FormInv
  <1>4. CASE phase # "ready"
    <2>1. UNCHANGED <<submitted, mark, failed, unseen>>
      BY <1>4 DEF Reset, Ignore
    <2>2. ShapeInv' /\ LoadingInv' /\ ReadyInv'
      BY <1>1, <1>2, <1>4, <2>1 DEF FormInv, ShapeInv, LoadingInv, ReadyInv
    <2>3. MarksAgree' /\ FailedFieldsAreWatched'
      BY <1>1, <1>2, <1>4, <2>1 DEF FormInv, MarksAgree, FailedFieldsAreWatched
    <2> QED  BY <2>2, <2>3 DEF FormInv
  <1> QED  BY <1>3, <1>4

LEMMA BackKeeps ==
    ASSUME FormInv, Back
    PROVE  FormInv'
PROOF
  <1>1. /\ UNCHANGED <<form, value>>
        /\ phase' = "loading" /\ submitted' = {} /\ failed' = {}
        /\ mark' = [f \in Fields |-> Unmarked]
    BY DEF Back
  <1>2. Fields' = Fields /\ Unmarked \in Marks
    BY <1>1 DEF Fields, Unmarked, Marks
  <1>3. ShapeInv' /\ LoadingInv' /\ ReadyInv'
    BY <1>1, <1>2 DEF FormInv, ShapeInv, LoadingInv, ReadyInv, Phases
  <1>4. MarksAgree' /\ FailedFieldsAreWatched'
    BY <1>1, <1>2 DEF MarksAgree, FailedFieldsAreWatched, Unmarked
  <1> QED  BY <1>3, <1>4 DEF FormInv

LEMMA StutterKeeps ==
    ASSUME FormInv, UNCHANGED vars
    PROVE  FormInv'
PROOF
  <1>1. UNCHANGED <<form, phase, rules, value, submitted, mark, failed, unseen>>
    BY DEF vars
  <1>2. Fields' = Fields /\ Attached' = Attached /\ Elements' = Elements
    BY <1>1 DEF Fields, Attached, Annotated, Elements, Rules
  <1>3. ShapeInv' /\ LoadingInv' /\ ReadyInv'
    BY <1>1, <1>2 DEF FormInv, ShapeInv, LoadingInv, ReadyInv
  <1>4. \A f : Rules(f)' = Rules(f)
    BY <1>1 DEF Rules
  <1>5. MarksAgree' /\ FailedFieldsAreWatched'
    BY <1>1, <1>2, <1>4 DEF FormInv, MarksAgree, FailedFieldsAreWatched
  <1> QED  BY <1>3, <1>5 DEF FormInv

\* The invariant of the form, for forms whose number inputs are annotated.
THEOREM FormInvHolds ==
    ASSUME NumbersAreAnnotated
    PROVE  Spec => []FormInv
PROOF
  <1>1. FormInv /\ [Next]_vars => FormInv'
    BY FieldStepsKeep, ParseKeeps, SubmitUncheckedKeeps, SubmitKeeps, ResetKeeps, BackKeeps,
       StutterKeeps DEF Next
  <1> QED  BY <1>1, InitHolds, PTL DEF Spec

\* The class of an input and that of its message element agree, whatever the forms
\* and values: OnSuccess is skipped for a field with one optional rule, and
\* __dummy__ makes a second one of it.
THEOREM MarksAlwaysAgree ==
    ASSUME NumbersAreAnnotated
    PROVE  Spec => []MarksAgree
PROOF
  <1>1. FormInv => MarksAgree
    BY DEF FormInv
  <1> QED  BY <1>1, FormInvHolds, PTL

\* What a field that failed shows is about the value it holds: lazy validation
\* forgets nobody it has to watch.
THEOREM FailuresAreWatched ==
    ASSUME NumbersAreAnnotated
    PROVE  Spec => []FailedFieldsAreWatched
PROOF
  <1>1. FormInv => FailedFieldsAreWatched
    BY DEF FormInv
  <1> QED  BY <1>1, FormInvHolds, PTL

-----------------------------------------------------------------------------
(* Refusals. *)

\* The adapter "required" sets nothing for a checkbox: it always posts a value.
LEMMA CheckboxIsFree ==
    ASSUME NEW field, field.type = "checkbox", DOMAIN field.val = {"required"}
    PROVE  DOMAIN ParseElement(field) = {"__dummy__"}
PROOF
  <1>1. \A i \in DOMAIN Adapters : Adapters[i].name = "required" => Adapters[i].kind = "own"
    BY DEF Adapters, Adapter, Bool, SingleVal, MinMax, Own
  <1>2. ASSUME NEW i \in DOMAIN Adapters, Adapters[i].name \in DOMAIN field.val
        PROVE  Sets(field, Adapters[i]) = {}
    <2>1. Adapters[i].name = "required" /\ Adapters[i].kind = "own"
      BY <1>1, <1>2
    <2> QED  BY <2>1 DEF Sets
  <1>3. \A r : Setters(field, r) = {}
    BY <1>2 DEF Setters
  <1> QED  BY <1>3 DEF ParseElement

LEMMA SubmitExplains ==
    ASSUME FormInv, NumbersAreAnnotated, FailuresHaveMessage, Submit
    PROVE  RefusalIsExplained'
PROOF
  <1>1. rules = Attached /\ ShapeInv /\ UNCHANGED form
    BY DEF Submit, FormInv, ReadyInv
  <1>2. ShowErrors(Elements)
    BY DEF Submit
  <1> SUFFICES ASSUME Failing(Elements) # {}
               PROVE  \E f \in Fields : /\ form[f].message
                                        /\ mark'[f].container = "error"
                                        /\ mark'[f].text # "none"
    <2>1. Fields' = Fields
      BY <1>1 DEF Fields
    <2> QED  BY <1>1, <2>1 DEF RefusalIsExplained, Submit
  <1>3. PICK f \in Elements : Broken(f) # {}
    BY DEF Failing
  <1>4. f \in Fields /\ form[f].type # "hidden"
    BY DEF Elements
  <1>5. mark'[f].container = "error" /\ mark'[f].text \in Broken(f)
    BY <1>1, <1>2, <1>3, ChecksMark
  <1>6. Broken(f) \subseteq Methods
    BY <1>1, <1>4, RulesAreMethods DEF Broken
  <1>7. "none" \notin Methods
    BY DEF Methods, Formats
  <1>8. PICK r \in DOMAIN Rules(f) : ~Passes(r, Rules(f)[r], value'[f])
    BY <1>3 DEF Broken
  <1>9. r # "__dummy__"
    BY <1>8 DEF Passes
  <1>10. form[f].message
    <2> SUFFICES ASSUME ~form[f].message PROVE FALSE
      OBVIOUS
    <2>1. form[f].type # "number" /\ DOMAIN rules[f] \subseteq {"__dummy__"}
      <3>1. CASE form[f].type # "number" /\ DOMAIN form[f].val = {}
        <4>1. rules[f] = <<>>
          BY <1>1, <1>4, <3>1 DEF Attached, Annotated
        <4> QED  BY <3>1, <4>1
      <3>2. CASE form[f].type = "checkbox" /\ DOMAIN form[f].val = {"required"}
        <4>1. rules[f] = ParseElement(form[f])
          BY <1>1, <1>4, <3>2 DEF Attached, Annotated
        <4>2. DOMAIN ParseElement(form[f]) = {"__dummy__"}
          BY <3>2, CheckboxIsFree
        <4> QED  BY <3>2, <4>1, <4>2
      <3> QED  BY <1>1, <1>4, <3>1, <3>2 DEF FailuresHaveMessage, ShapeInv, Fields
    <2>2. DOMAIN Rules(f) \subseteq {"__dummy__"}
      BY <2>1 DEF Rules
    <2> QED  BY <1>8, <1>9, <2>2
  <1> QED  BY <1>4, <1>5, <1>6, <1>7, <1>10

\* A submit that is refused leaves a message that says so, if every field that can
\* fail has an element for it: a checkbox or a hidden field never is the reason.
THEOREM RefusalsAreExplained ==
    ASSUME NumbersAreAnnotated, FailuresHaveMessage
    PROVE  Spec => []RefusalIsExplained
PROOF
  <1>1. Init => RefusalIsExplained
    BY DEF Init, RefusalIsExplained
  <1>2. FormInv /\ RefusalIsExplained /\ [Next]_vars => RefusalIsExplained'
    <2> SUFFICES ASSUME FormInv, RefusalIsExplained, [Next]_vars PROVE RefusalIsExplained'
      OBVIOUS
    <2>1. CASE Submit
      BY <2>1, SubmitExplains
    <2>2. CASE Parse \/ FieldStep \/ SubmitUnchecked \/ Reset \/ Back
      <3>1. answer' # "refused"
        BY <2>2 DEF Parse, FieldStep, Leave, Type, Paste, Click, SubmitUnchecked, Reset, Back
      <3> QED  BY <3>1 DEF RefusalIsExplained
    <2>3. CASE UNCHANGED vars
      BY <2>3 DEF RefusalIsExplained, vars, Fields
    <2> QED  BY <2>1, <2>2, <2>3 DEF Next
  <1> QED  BY <1>1, <1>2, FormInvHolds, PTL DEF Spec

-----------------------------------------------------------------------------
(* What is sent. *)

\* The adapters an attribute of a model can ask for, by their place.
LEMMA AdapterPlaces ==
    /\ DOMAIN Adapters = 1 .. 17
    /\ Adapters[2] = SingleVal("regex", "pattern", "regex")
    /\ Adapters[4] = Bool("date") /\ Adapters[5] = Bool("digits") /\ Adapters[6] = Bool("email")
    /\ Adapters[7] = Bool("number") /\ Adapters[8] = Bool("url")
    /\ Adapters[9] = MinMax("length", "minlength", "maxlength", "rangelength")
    /\ Adapters[10] = MinMax("range", "min", "max", "range")
    /\ Adapters[11] = MinMax("minlength", "minlength", "undefined", "undefined")
    /\ Adapters[12] = MinMax("maxlength", "minlength", "maxlength", "undefined")
    /\ Adapters[14] = Own("required", <<>>, <<"required">>)
PROOF BY DEF Adapters

\* Adapter i has the last word on the rules it sets.
HasLastWord(field, i) ==
    \A k \in DOMAIN Adapters : i < k /\ Adapters[k].name \in DOMAIN field.val =>
        \A j \in Sets(field, Adapters[i]) :
            Adapters[i].rules[j] \notin {Adapters[k].rules[n] : n \in Sets(field, Adapters[k])}

\* A rule set by the adapter that has the last word carries that adapter's value.
LEMMA LastWordStands ==
    ASSUME NEW field, NEW i \in DOMAIN Adapters, Adapters[i].name \in DOMAIN field.val,
           HasLastWord(field, i),
           NEW j \in Sets(field, Adapters[i]), j \in DOMAIN Adapters[i].rules,
           \A n \in Sets(field, Adapters[i]) : Adapters[i].rules[n] = Adapters[i].rules[j] => n = j
    PROVE  /\ Adapters[i].rules[j] \in DOMAIN ParseElement(field)
           /\ Adapters[i].rules[j] # "__dummy__" =>
                 ParseElement(field)[Adapters[i].rules[j]] = RuleValue(field, Adapters[i], j)
PROOF
  <1> DEFINE rule == Adapters[i].rules[j]
  <1>1. rule \in RuleNames
    BY DEF RuleNames
  <1>2. i \in Setters(field, rule)
    BY DEF Setters
  <1>3. \A k \in Setters(field, rule) : k <= i
    <2> SUFFICES ASSUME NEW k \in Setters(field, rule), i < k PROVE FALSE
      BY AdapterPlaces DEF Setters
    <2>1. PICK n \in Sets(field, Adapters[k]) : Adapters[k].rules[n] = rule
      BY DEF Setters
    <2> QED  BY <2>1 DEF HasLastWord, Setters
  <1>4. Setters(field, rule) \subseteq 1 .. 17
    BY AdapterPlaces DEF Setters
  <1>5. (CHOOSE k \in Setters(field, rule) : \A h \in Setters(field, rule) : h <= k) = i
    <2> DEFINE S == Setters(field, rule)
    <2> HIDE DEF S, rule
    <2>1. \A k \in S : (\A h \in S : h <= k) <=> k = i
      BY <1>2, <1>3, <1>4 DEF S
    <2>2. (CHOOSE k \in S : \A h \in S : h <= k) = i
      BY <1>2, <2>1 DEF S
    <2> QED  BY <2>2 DEF S
  <1>6. (CHOOSE n \in Sets(field, Adapters[i]) : Adapters[i].rules[n] = rule) = j
    OBVIOUS
  <1>7. FromAdapters(field, rule) = RuleValue(field, Adapters[i], j)
    BY <1>5, <1>6 DEF FromAdapters
  <1> HIDE DEF rule
  <1>8. rule \in DOMAIN ParseElement(field)
        /\ (rule # "__dummy__" => ParseElement(field)[rule] = FromAdapters(field, rule))
    BY <1>1, <1>2 DEF ParseElement
  <1> QED  BY <1>7, <1>8 DEF rule

\* A value that passes every rule.
PassesAll(field, v) ==
    \A r \in DOMAIN ParseElement(field) : Passes(r, ParseElement(field)[r], v)

\* The annotations that have one rule, with one value.
LEMMA FormatsAreMet ==
    ASSUME NEW field, NEW v, IsRead(v), PassesAll(field, v),
           NEW a \in {"email", "number"}, a \in DOMAIN field.val,
           \A i \in DOMAIN Adapters : Adapters[i].name = a => HasLastWord(field, i)
    PROVE  Meets(field, a, v) \/ LetThrough(a, v)
PROOF
  <1>1. PICK i \in DOMAIN Adapters : Adapters[i] = Bool(a)
    BY AdapterPlaces
  <1>2. Adapters[i].name = a /\ Adapters[i].kind = "bool" /\ Adapters[i].rules = <<a>>
    BY <1>1 DEF Bool, Adapter
  <1>3. Sets(field, Adapters[i]) = {1}
    <2>1. a \notin {"required", "password"}
      OBVIOUS
    <2> QED  BY <1>2, <2>1 DEF Sets
  <1>4. a \in DOMAIN ParseElement(field)
    BY <1>2, <1>3, LastWordStands
  <1>5. Passes(a, ParseElement(field)[a], v)
    BY <1>4 DEF PassesAll
  <1>6. v.blank \/ a \in v.meets
    BY <1>5 DEF Passes, Formats, Optional, IsRead
  <1>7. CASE v.blank
    BY <1>7 DEF Meets
  <1>8. CASE a = "email" /\ a \in v.meets
    BY <1>8 DEF Meets
  <1>9. CASE a = "number" /\ a \in v.meets
    <2>1. v.coerced # v.parsed \/ v.parsed # {}
      BY <1>9 DEF IsRead
    <2> QED  BY <1>9, <2>1 DEF Meets, LetThrough
  <1> QED  BY <1>6, <1>7, <1>8, <1>9

LEMMA RequiredIsMet ==
    ASSUME NEW field, NEW v, PassesAll(field, v), "required" \in DOMAIN field.val,
           \A i \in DOMAIN Adapters : Adapters[i].name = "required" => HasLastWord(field, i)
    PROVE  Meets(field, "required", v) \/ LetThrough("required", v)
PROOF
  <1> SUFFICES ASSUME field.type # "checkbox" PROVE ~IsEmpty(v)
    BY DEF Meets, LetThrough
  <1>1. 14 \in DOMAIN Adapters /\ Adapters[14] = Own("required", <<>>, <<"required">>)
    BY AdapterPlaces
  <1>2. /\ Adapters[14].name = "required" /\ Adapters[14].kind = "own"
        /\ Adapters[14].rules = <<"required">>
    BY <1>1 DEF Own, Adapter
  <1>3. Sets(field, Adapters[14]) = {1}
    BY <1>2 DEF Sets
  <1>4. "required" \in DOMAIN ParseElement(field)
    BY <1>1, <1>2, <1>3, LastWordStands
  <1> QED  BY <1>4 DEF PassesAll, Passes, Optional, Formats

LEMMA RegexIsMet ==
    ASSUME NEW field, NEW v, IsRead(v), PassesAll(field, v), "regex" \in DOMAIN field.val,
           DOMAIN field.val["regex"] = {"pattern"},
           \A i \in DOMAIN Adapters : Adapters[i].name = "regex" => HasLastWord(field, i)
    PROVE  Meets(field, "regex", v)
PROOF
  <1>1. 2 \in DOMAIN Adapters /\ Adapters[2] = SingleVal("regex", "pattern", "regex")
    BY AdapterPlaces
  <1>2. /\ Adapters[2].name = "regex" /\ Adapters[2].kind = "single"
        /\ Adapters[2].rules = <<"regex">> /\ Adapters[2].params = <<"pattern">>
    BY <1>1 DEF SingleVal, Adapter
  <1>3. Sets(field, Adapters[2]) = {1}
    BY <1>2 DEF Sets
  <1>4. RuleValue(field, Adapters[2], 1) = field.val["regex"].pattern
    BY <1>2 DEF RuleValue
  <1>5. /\ "regex" \in DOMAIN ParseElement(field)
        /\ ParseElement(field)["regex"] = field.val["regex"].pattern
    BY <1>1, <1>2, <1>3, <1>4, LastWordStands
  <1>6. Passes("regex", field.val["regex"].pattern, v)
    BY <1>5 DEF PassesAll
  <1>7. v.blank \/ field.val["regex"].pattern \in v.meets
    BY <1>6 DEF Passes, Formats, IsRead
  <1> QED  BY <1>7 DEF Meets

\* The annotations of bounds: whichever rule an adapter takes for those it is given,
\* the value is within them.
LEMMA BoundsSet ==
    ASSUME NEW field, NEW i \in {9, 10, 11, 12}, Adapters[i].name \in DOMAIN field.val,
           HasLastWord(field, i), NEW j \in Sets(field, Adapters[i])
    PROVE  /\ Adapters[i].rules[j] \in DOMAIN ParseElement(field)
           /\ ParseElement(field)[Adapters[i].rules[j]] = RuleValue(field, Adapters[i], j)
PROOF
  <1>1. /\ i \in DOMAIN Adapters /\ Adapters[i].kind = "minmax"
        /\ Adapters[i].name \notin {"required", "password"}
    BY AdapterPlaces DEF MinMax, Adapter
  <1>2. Sets(field, Adapters[i]) = {3} \/ Sets(field, Adapters[i]) \subseteq 1 .. 2
    BY <1>1 DEF Sets
  <1>3. /\ DOMAIN Adapters[i].rules = 1 .. 3
        /\ Adapters[i].rules[1] # Adapters[i].rules[2]
        /\ \A n \in 1 .. 3 : Adapters[i].rules[n] # "__dummy__"
    BY AdapterPlaces DEF MinMax, Adapter
  <1>4. j \in DOMAIN Adapters[i].rules
        /\ \A n \in Sets(field, Adapters[i]) : Adapters[i].rules[n] = Adapters[i].rules[j] => n = j
    BY <1>2, <1>3
  <1> QED  BY <1>1, <1>3, <1>4, LastWordStands

LEMMA BoundsAreMet ==
    ASSUME NEW field, NEW v, IsRead(v), PassesAll(field, v),
           NEW i \in {9, 10, 11, 12}, Adapters[i].name \in DOMAIN field.val, HasLastWord(field, i),
           DOMAIN field.val[Adapters[i].name] \subseteq {"min", "max"},
           i = 10 => DOMAIN field.val[Adapters[i].name] = {"min", "max"},
           i = 11 => DOMAIN field.val[Adapters[i].name] = {"min"},
           i = 12 => DOMAIN field.val[Adapters[i].name] = {"max"}
    PROVE  Meets(field, Adapters[i].name, v) \/ LetThrough(Adapters[i].name, v)
PROOF
  <1> DEFINE bounds == field.val[Adapters[i].name]
             P == ParseElement(field)
  <1>1. /\ Adapters[i].kind = "minmax" /\ Adapters[i].params = <<"min", "max">>
        /\ i = 9 => /\ Adapters[i].name = "length"
                    /\ Adapters[i].rules = <<"minlength", "maxlength", "rangelength">>
        /\ i = 10 => /\ Adapters[i].name = "range"
                     /\ Adapters[i].rules = <<"min", "max", "range">>
        /\ i = 11 => /\ Adapters[i].name = "minlength"
                     /\ Adapters[i].rules = <<"minlength", "undefined", "undefined">>
        /\ i = 12 => /\ Adapters[i].name = "maxlength"
                     /\ Adapters[i].rules = <<"minlength", "maxlength", "undefined">>
    BY AdapterPlaces DEF MinMax, Adapter
  <1>2. Sets(field, Adapters[i]) =
            IF {"min", "max"} \subseteq DOMAIN bounds THEN {3}
            ELSE {j \in 1 .. 2 : <<"min", "max">>[j] \in DOMAIN bounds}
    BY <1>1 DEF Sets, Declares
  <1>3. /\ RuleValue(field, Adapters[i], 1) = bounds.min
        /\ RuleValue(field, Adapters[i], 2) = bounds.max
        /\ RuleValue(field, Adapters[i], 3) = <<bounds.min, bounds.max>>
    <2>1. Adapters[i].name # "required"
      BY <1>1
    <2> HIDE DEF bounds
    <2> QED  BY <1>1, <2>1 DEF RuleValue, bounds
  <1>4. ASSUME NEW j \in Sets(field, Adapters[i])
        PROVE  Passes(Adapters[i].rules[j], RuleValue(field, Adapters[i], j), v)
    BY <1>4, BoundsSet DEF PassesAll
  <1> HIDE DEF bounds
  <1>5. CASE IsEmpty(v)
    BY <1>1, <1>5 DEF Meets, IsRead
  <1>6. CASE ~IsEmpty(v)
    <2>1. CASE {"min", "max"} \subseteq DOMAIN bounds
      <3>1. Passes(Adapters[i].rules[3], <<bounds.min, bounds.max>>, v)
        BY <1>2, <1>3, <1>4, <2>1
      <3>2. i \in {9, 10}
        BY <2>1 DEF bounds
      <3>3. CASE i = 9
        <4>1. v.length >= bounds.min /\ v.length <= bounds.max
          BY <1>1, <1>6, <3>1, <3>3 DEF Passes, Formats
        <4> QED  BY <1>1, <3>3, <4>1 DEF Meets, Within, bounds
      <3>4. CASE i = 10
        <4>1. \E n \in v.coerced : n >= bounds.min /\ n <= bounds.max
          BY <1>1, <1>6, <3>1, <3>4 DEF Passes, Formats
        <4>2. CASE v.coerced # v.parsed
          BY <1>1, <3>4, <4>2 DEF LetThrough
        <4>3. CASE v.coerced = v.parsed
          BY <1>1, <3>4, <4>1, <4>3 DEF Meets, Within, bounds
        <4> QED  BY <4>2, <4>3
      <3> QED  BY <3>2, <3>3, <3>4
    <2>2. CASE ~({"min", "max"} \subseteq DOMAIN bounds)
      <3>1. i \in {9, 11, 12}
        BY <2>2 DEF bounds
      <3>2. "min" \in DOMAIN bounds => v.length >= bounds.min
        <4> SUFFICES ASSUME "min" \in DOMAIN bounds PROVE v.length >= bounds.min
          OBVIOUS
        <4>1. 1 \in Sets(field, Adapters[i])
          BY <1>2, <2>2
        <4>2. Passes("minlength", bounds.min, v)
          <5>1. Adapters[i].rules[1] = "minlength"
            BY <1>1, <3>1
          <5> QED  BY <1>3, <1>4, <4>1, <5>1
        <4> QED  BY <1>6, <4>2 DEF Passes, Formats
      <3>3. "max" \in DOMAIN bounds => v.length <= bounds.max
        <4> SUFFICES ASSUME "max" \in DOMAIN bounds PROVE v.length <= bounds.max
          OBVIOUS
        <4>1. 2 \in Sets(field, Adapters[i])
          BY <1>2, <2>2
        <4>2. Passes("maxlength", bounds.max, v)
          <5>1. i # 11
            BY DEF bounds
          <5>2. Adapters[i].rules[2] = "maxlength"
            BY <1>1, <3>1, <5>1
          <5> QED  BY <1>3, <1>4, <4>1, <5>2
        <4> QED  BY <1>6, <4>2 DEF Passes, Formats
      <3>4. Adapters[i].name \in {"length", "minlength", "maxlength"}
        BY <1>1, <3>1
      <3> QED  BY <3>2, <3>3, <3>4 DEF Meets, Within, bounds
    <2> QED  BY <2>1, <2>2
  <1> QED  BY <1>5, <1>6

\* Every annotation that no later one overwrites is met, or the value is one that the
\* scripts read otherwise.
LEMMA DeclaredIsMet ==
    ASSUME ShapeInv, FieldsDeclareAttributes, NEW f \in Fields, NEW v, IsRead(v),
           PassesAll(form[f], v), NEW a \in DOMAIN form[f].val, ~Overwritten(f, a)
    PROVE  Meets(form[f], a, v) \/ LetThrough(a, v)
PROOF
  <1>1. \A i \in DOMAIN Adapters : Adapters[i].name = a => HasLastWord(form[f], i)
    BY DEF Overwritten, HasLastWord
  <1>2. \/ a \in {"email", "number", "required"}
        \/ a = "regex" /\ DOMAIN form[f].val[a] = {"pattern"}
        \/ a = "minlength" /\ DOMAIN form[f].val[a] = {"min"}
        \/ a = "maxlength" /\ DOMAIN form[f].val[a] = {"max"}
        \/ a = "length" /\ DOMAIN form[f].val[a] \subseteq {"min", "max"}
        \/ a = "range" /\ DOMAIN form[f].val[a] = {"min", "max"}
    BY DEF FieldsDeclareAttributes, ShapeInv, Fields
  <1>3. /\ 9 \in DOMAIN Adapters /\ Adapters[9].name = "length"
        /\ 10 \in DOMAIN Adapters /\ Adapters[10].name = "range"
        /\ 11 \in DOMAIN Adapters /\ Adapters[11].name = "minlength"
        /\ 12 \in DOMAIN Adapters /\ Adapters[12].name = "maxlength"
    BY AdapterPlaces DEF MinMax, Adapter
  <1>4. CASE a \in {"email", "number"}
    BY <1>1, <1>4, FormatsAreMet
  <1>5. CASE a = "required"
    BY <1>1, <1>5, RequiredIsMet
  <1>6. CASE a = "regex" /\ DOMAIN form[f].val[a] = {"pattern"}
    BY <1>1, <1>6, RegexIsMet
  <1>7. CASE a = "length" /\ DOMAIN form[f].val[a] \subseteq {"min", "max"}
    <2>1. Meets(form[f], Adapters[9].name, v) \/ LetThrough(Adapters[9].name, v)
      BY <1>1, <1>3, <1>7, BoundsAreMet
    <2> QED  BY <1>3, <1>7, <2>1
  <1>8. CASE a = "range" /\ DOMAIN form[f].val[a] = {"min", "max"}
    <2>1. Meets(form[f], Adapters[10].name, v) \/ LetThrough(Adapters[10].name, v)
      BY <1>1, <1>3, <1>8, BoundsAreMet
    <2> QED  BY <1>3, <1>8, <2>1
  <1>9. CASE a = "minlength" /\ DOMAIN form[f].val[a] = {"min"}
    <2>1. Meets(form[f], Adapters[11].name, v) \/ LetThrough(Adapters[11].name, v)
      BY <1>1, <1>3, <1>9, BoundsAreMet
    <2> QED  BY <1>3, <1>9, <2>1
  <1>10. CASE a = "maxlength" /\ DOMAIN form[f].val[a] = {"max"}
    <2>1. Meets(form[f], Adapters[12].name, v) \/ LetThrough(Adapters[12].name, v)
      BY <1>1, <1>3, <1>10, BoundsAreMet
    <2> QED  BY <1>3, <1>10, <2>1
  <1> QED  BY <1>2, <1>4, <1>5, <1>6, <1>7, <1>8, <1>9, <1>10

\* Every value is one of the page or one the user may give.
ValuesInv == \A f \in Fields : IsRead(value[f])

LEMMA ValuesStay ==
    ASSUME FormInv, ValuesAreRead, ValuesInv, [Next]_vars
    PROVE  ValuesInv'
PROOF
  <1>1. /\ form' = form
        /\ Fields' = Fields
        /\ form \in Forms
        /\ value = [f \in Fields |-> value[f]]
    <2>1. form' = form
      BY DEF Next, vars, Parse, FieldStep, Leave, Type, Paste, Click, SubmitUnchecked, Submit,
             Reset, Back
    <2> QED  BY <2>1 DEF FormInv, ShapeInv, Fields
  <1>2. ASSUME NEW f \in Fields, NEW v \in Inputs(f)
        PROVE  IsRead(v)
    BY <1>2 DEF ValuesAreRead, Inputs
  <1>3. \/ UNCHANGED value
        \/ \E f \in Fields : \E v \in Inputs(f) : value' = [value EXCEPT ![f] = v]
        \/ value' = [f \in Fields |-> form[f].initial]
    BY DEF Next, vars, Parse, FieldStep, Leave, Type, Paste, Click, SubmitUnchecked, Submit,
           Reset, Back
  <1>4. CASE UNCHANGED value
    BY <1>1, <1>4 DEF ValuesInv
  <1>5. ASSUME NEW f \in Fields, NEW v \in Inputs(f), value' = [value EXCEPT ![f] = v]
        PROVE  ValuesInv'
    BY <1>1, <1>2, <1>5 DEF ValuesInv
  <1>6. CASE value' = [f \in Fields |-> form[f].initial]
    BY <1>1, <1>6 DEF ValuesInv, ValuesAreRead, Fields
  <1> QED  BY <1>3, <1>4, <1>5, <1>6

\* A submit that lets the form go has checked every visible field that declares
\* something: __dummy__ makes an element of it.
LEMMA SubmitDeclares ==
    ASSUME FormInv, FieldsDeclareAttributes, ValuesInv, Submit
    PROVE  SentDataIsDeclared'
PROOF
  <1>1. rules = Attached /\ ShapeInv /\ UNCHANGED <<form, value>>
    BY DEF Submit, FormInv, ReadyInv
  <1>2. Fields' = Fields /\ \A f, a : Overwritten(f, a)' <=> Overwritten(f, a)
    BY <1>1 DEF Fields, Overwritten
  <1> SUFFICES ASSUME Failing(Elements) = {}, NEW f \in Fields, form[f].type # "hidden",
                      NEW a \in DOMAIN form[f].val, ~Overwritten(f, a)
               PROVE  Meets(form[f], a, value'[f]) \/ LetThrough(a, value'[f])
    <2>1. phase' = "sent" => Failing(Elements) = {}
      BY DEF Submit
    <2> QED  BY <1>1, <1>2, <2>1 DEF SentDataIsDeclared
  <1>3. f \in Annotated
    BY DEF Annotated
  <1>4. rules[f] = ParseElement(form[f])
    BY <1>1, <1>3 DEF Attached
  <1>5. /\ DOMAIN ParseElement(form[f]) \subseteq DOMAIN Rules(f)
        /\ \A r \in DOMAIN ParseElement(form[f]) : Rules(f)[r] = ParseElement(form[f])[r]
    BY <1>4 DEF Rules
  <1>6. f \in Elements
    <2>1. "__dummy__" \in DOMAIN ParseElement(form[f])
      BY DEF ParseElement
    <2> QED  BY <1>5, <2>1 DEF Elements
  <1>7. Broken(f) = {}
    BY <1>6 DEF Failing
  <1>8. PassesAll(form[f], value'[f])
    BY <1>5, <1>7 DEF Broken, PassesAll
  <1>9. IsRead(value'[f])
    BY <1>1 DEF ValuesInv
  <1> QED  BY <1>1, <1>8, <1>9, DeclaredIsMet

\* The controller checks nothing.  Whatever the forms declare and whatever the user
\* types, what a validated page sends keeps, as the server would read it, every
\* annotation of the model in every visible field, but for one that a later adapter
\* overwrites, blanks in a required field and a number the scripts read otherwise.
THEOREM SentDataIsValid ==
    ASSUME NumbersAreAnnotated, FieldsDeclareAttributes, ValuesAreRead
    PROVE  Spec => []SentDataIsDeclared
PROOF
  <1>1. Init => ValuesInv /\ SentDataIsDeclared
    BY DEF Init, ValuesInv, ValuesAreRead, SentDataIsDeclared, Fields
  <1>2. FormInv /\ ValuesInv /\ SentDataIsDeclared /\ [Next]_vars
            => ValuesInv' /\ SentDataIsDeclared'
    <2> SUFFICES ASSUME FormInv, ValuesInv, SentDataIsDeclared, [Next]_vars
                 PROVE  SentDataIsDeclared'
      BY ValuesStay
    <2>1. CASE Submit
      BY <2>1, SubmitDeclares
    <2>2. CASE Parse \/ FieldStep \/ SubmitUnchecked \/ Reset \/ Back
      <3>1. phase' # "sent"
        BY <2>2 DEF Parse, FieldStep, Leave, Type, Paste, Click, SubmitUnchecked, Reset, Back, OnPage
      <3> QED  BY <3>1 DEF SentDataIsDeclared
    <2>3. CASE UNCHANGED vars
      BY <2>3 DEF SentDataIsDeclared, vars, Fields, Overwritten
    <2> QED  BY <2>1, <2>2, <2>3 DEF Next
  <1> QED  BY <1>1, <1>2, FormInvHolds, PTL DEF Spec

=============================================================================
