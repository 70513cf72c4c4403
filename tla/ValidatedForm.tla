--------------------------- MODULE ValidatedForm ---------------------------
(***************************************************************************)
(* A form of ReadDataEventStoreExample's product pages in the browser: the  *)
(* user edits and submits it, the page's document-ready callback attaches   *)
(* jquery.validate to it through jquery.validate.unobtrusive.  The          *)
(* controller does not look at ModelState: what keeps a broken product out  *)
(* of the event store is this validation.                                   *)
(***************************************************************************)
EXTENDS ValidationAdapters

CONSTANTS Forms,   \* the forms: functions from field names to fields
          Texts,   \* what a user may type
          Ticks    \* the values of a checkbox or of radio buttons

\* Every form has an annotated field, or nothing would be attached to it, and only
\* rules whose method is modelled; so do the forms of the pages.
ASSUME FormsAssumption ==
    \A page \in Forms :
        /\ \E f \in DOMAIN page : DOMAIN page[f].val # {}
        /\ \A f \in DOMAIN page : DOMAIN ParseElement(page[f]) \subseteq Methods

\* Every number input of a form is annotated, and so has the rule __dummy__
\* beside its own: no field has a single rule that an empty value passes.
NumbersAreAnnotated ==
    \A page \in Forms : \A f \in DOMAIN page :
        page[f].type = "number" => DOMAIN page[f].val # {}

\* A field that can fail has an element for its message: only a hidden one, one that
\* declares nothing and a checkbox that is required do without.
FailuresHaveMessage ==
    \A page \in Forms : \A f \in DOMAIN page :
        \/ page[f].message
        \/ page[f].type = "hidden"
        \/ page[f].type # "number" /\ DOMAIN page[f].val = {}
        \/ page[f].type = "checkbox" /\ DOMAIN page[f].val = {"required"}

\* A field declares what ASP.NET renders for the attributes of a model, with the
\* parameters it renders; not [Url], which the script tests more loosely.
FieldsDeclareAttributes ==
    \A page \in Forms : \A f \in DOMAIN page : \A a \in DOMAIN page[f].val :
        \/ a \in {"email", "number", "required"}
        \/ a = "regex" /\ DOMAIN page[f].val[a] = {"pattern"}
        \/ a = "minlength" /\ DOMAIN page[f].val[a] = {"min"}
        \/ a = "maxlength" /\ DOMAIN page[f].val[a] = {"max"}
        \/ a = "length" /\ DOMAIN page[f].val[a] \subseteq {"min", "max"}
        \/ a = "range" /\ DOMAIN page[f].val[a] = {"min", "max"}

\* An empty value has nothing but blanks, and who meets the script's format of a
\* number is a number at least to one of the browser and the server.
IsRead(v) ==
    /\ IsEmpty(v) => v.blank
    /\ "number" \in v.meets => v.coerced \cup v.parsed # {}

ValuesAreRead ==
    /\ \A v \in Texts \cup Ticks : IsRead(v)
    /\ \A page \in Forms : \A f \in DOMAIN page : IsRead(page[f].initial)

VARIABLES form,     \* the form on the page
          phase,
          rules,    \* settings.rules of the form's validator
          value,    \* what each field holds
          invalid,  \* names that are keys of validator.invalid
          submitted,\* names that are keys of validator.submitted
          mark,     \* [fields -> Marks]: what the user sees at each field
          answer,   \* history: what the last event answered to a submit
          failed,   \* history: fields that failed a check since the last reset
          unseen    \* history: fields changed by no event the validator hears

vars == <<form, phase, rules, value, invalid, submitted, mark, answer, failed, unseen>>

Phases == {"loading", "ready", "sentUnchecked", "sent"}

OnPage == phase \in {"loading", "ready"}

Fields == DOMAIN form

\* The class of the input, the class of the message element, and its text: a rule.
Marks == [input : {"valid", "error"}, container : {"valid", "error"}, text : Methods \cup {"none"}]

Unmarked == [input |-> "valid", container |-> "valid", text |-> "none"]

\* The values a user can give to a field; a hidden one is not the user's.
Inputs(f) ==
    CASE form[f].type = "hidden" -> {}
      [] form[f].type \in {"checkbox", "radio"} -> Ticks
      [] OTHER -> Texts

Init ==
    /\ form \in Forms
    /\ value = [f \in Fields |-> form[f].initial]
    /\ phase = "loading"
    /\ rules = [f \in Fields |-> <<>>]
    /\ invalid = {}
    /\ submitted = {}
    /\ mark = [f \in Fields |-> Unmarked]
    /\ answer = "none"
    /\ failed = {}
    /\ unseen = {}

-----------------------------------------------------------------------------
(* The rules. *)

Annotated == {f \in Fields : DOMAIN form[f].val # {}}

\* $(document).ready: parse, and attachValidation on a form with an annotated input.
Parse ==
    /\ phase = "loading"
    /\ phase' = "ready"
    /\ rules' = [f \in Fields |-> IF f \in Annotated THEN ParseElement(form[f]) ELSE <<>>]
    /\ answer' = "none"
    /\ UNCHANGED <<form, value, invalid, submitted, mark, failed, unseen>>

\* element.rules(): <input type="number"> has the rule number whatever it declares.
Rules(f) ==
    LET typed == IF form[f].type = "number" THEN {"number"} ELSE {}
    IN  [r \in DOMAIN rules[f] \cup typed |-> IF r \in DOMAIN rules[f] THEN rules[f][r] ELSE TRUE]

\* validator.elements(): the visible inputs that have rules.
Elements == {f \in Fields : form[f].type # "hidden" /\ DOMAIN Rules(f) # {}}

-----------------------------------------------------------------------------
(* Checking. *)

Broken(f) == {r \in DOMAIN Rules(f) : ~Passes(r, Rules(f)[r], value'[f])}

\* The rule the message is about: required first.
FirstBroken(f) == IF "required" \in Broken(f) THEN "required" ELSE CHOOSE r \in Broken(f) : TRUE

\* A field whose only rule is optional and which is empty neither fails nor succeeds.
DependencyMismatch(f) ==
    IsEmpty(value'[f]) /\ \E r \in Optional : DOMAIN Rules(f) = {r}

Failing(checked) == {f \in checked : Broken(f) # {}}

Succeeding(checked) == {f \in checked : Broken(f) = {} /\ ~DependencyMismatch(f)}

OnError(m, rule) == [m EXCEPT !.container = "error", !.text = rule]

OnSuccess(m) == [m EXCEPT !.container = "valid", !.text = "none"]

\* The label is made anew each time: onError takes the class away that would find it.
ShowLabel(m, f, failing) ==
    IF f \in failing THEN OnError(m, FirstBroken(f)) ELSE OnSuccess(OnError(m, "none"))

Highlight(m, f, failing) == [m EXCEPT !.input = IF f \in failing THEN "error" ELSE "valid"]

\* showErrors, after a check of the fields in checked.
ShowErrors(checked) ==
    LET failing == Failing(checked)
        labelled(f) == IF f \in failing \cup Succeeding(checked)
                       THEN ShowLabel(mark[f], f, failing) ELSE mark[f]
    IN  mark' = [f \in Fields |-> IF f \in checked THEN Highlight(labelled(f), f, failing) ELSE mark[f]]

\* Mutant: formatAndAdd does not remember who failed.
RememberNobody(checked) ==
    /\ submitted' = submitted
    /\ failed' = failed \cup Failing(checked)
    /\ unseen' = unseen \ checked

\* What checks also leave: formatAndAdd remembers who failed.
Remember(checked) ==
    /\ submitted' = submitted \cup Failing(checked)
    /\ failed' = failed \cup Failing(checked)
    /\ unseen' = unseen \ checked

Element(f) ==
    /\ ShowErrors({f})
    /\ invalid' = invalid \cup {f}
    /\ Remember({f})

-----------------------------------------------------------------------------
(* What the user does to a field. *)

Ignore == UNCHANGED <<invalid, submitted, mark, failed>>

\* An event handler of the validator: it checks f when wanted.
HandleEvent(f, wanted) ==
    IF phase = "ready" /\ f \in Elements /\ wanted
    THEN Element(f)
    ELSE Ignore /\ UNCHANGED unseen

\* Keys: the value changes, and onkeyup hears of it.
Type(f, v) ==
    /\ OnPage
    /\ form[f].type \in {"text", "number"}
    /\ value' = [value EXCEPT ![f] = v]
    /\ HandleEvent(f, f \in submitted \cup invalid)
    /\ answer' = "none"
    /\ UNCHANGED <<form, phase, rules>>

\* Pasted or dropped with the mouse, or filled in by the browser: no key goes up.
Paste(f, v) ==
    /\ OnPage
    /\ form[f].type \in {"text", "number"}
    /\ v # value[f]
    /\ value' = [value EXCEPT ![f] = v]
    /\ unseen' = unseen \cup {f}
    /\ answer' = "none"
    /\ Ignore
    /\ UNCHANGED <<form, phase, rules>>

\* onfocusout.
Leave(f) ==
    /\ OnPage
    /\ form[f].type \in {"text", "number"}
    /\ UNCHANGED value
    /\ HandleEvent(f, f \in submitted \/ ~IsEmpty(value[f]))
    /\ answer' = "none"
    /\ UNCHANGED <<form, phase, rules>>

\* onclick.
Click(f, v) ==
    /\ OnPage
    /\ form[f].type \in {"checkbox", "radio"}
    /\ v # value[f]
    /\ value' = [value EXCEPT ![f] = v]
    /\ HandleEvent(f, f \in submitted)
    /\ answer' = "none"
    /\ UNCHANGED <<form, phase, rules>>

-----------------------------------------------------------------------------
(* What the user does to the form. *)

\* Until the validator sets novalidate, the browser refuses what is no number in a number input.
BadInput(f) ==
    form[f].type = "number" /\ ~IsEmpty(value[f]) /\ "number" \notin value[f].meets

SubmitUnchecked ==
    /\ phase = "loading"
    /\ IF \E f \in Fields : BadInput(f)
       THEN answer' = "browser" /\ UNCHANGED phase
       ELSE answer' = "none" /\ phase' = "sentUnchecked"
    /\ UNCHANGED <<form, rules, value, invalid, submitted, mark, failed, unseen>>

\* The submit handler: validator.form(), which lets the browser send the form if all is valid.
Submit ==
    /\ phase = "ready"
    /\ UNCHANGED <<form, rules, value>>
    /\ ShowErrors(Elements)
    /\ Remember(Elements)
    /\ invalid' = Failing(Elements)
    /\ IF Failing(Elements) = {}
       THEN phase' = "sent" /\ answer' = "none"
       ELSE answer' = "refused" /\ UNCHANGED phase

\* onReset and resetForm: the classes go, the text of the message stays.
OnReset ==
    /\ invalid' = {}
    /\ submitted' = {}
    /\ failed' = {}
    /\ unseen' = {}
    /\ mark' = [f \in Fields |-> [mark[f] EXCEPT !.container = "valid",
                                                 !.input = IF f \in Elements THEN "valid" ELSE @]]

Reset ==
    /\ OnPage
    /\ value' = [f \in Fields |-> form[f].initial]
    /\ answer' = "none"
    /\ IF phase = "ready" THEN OnReset ELSE Ignore /\ UNCHANGED unseen
    /\ UNCHANGED <<form, phase, rules>>

\* The browser's back button: the page again, with what was filled in.
Back ==
    /\ ~OnPage
    /\ phase' = "loading"
    /\ rules' = [f \in Fields |-> <<>>]
    /\ invalid' = {}
    /\ submitted' = {}
    /\ mark' = [f \in Fields |-> Unmarked]
    /\ answer' = "none"
    /\ failed' = {}
    /\ unseen' = {}
    /\ UNCHANGED <<form, value>>

FieldStep ==
    \E f \in Fields :
        \/ Leave(f)
        \/ \E v \in Inputs(f) : Type(f, v) \/ Paste(f, v) \/ Click(f, v)

Next == Parse \/ FieldStep \/ SubmitUnchecked \/ Submit \/ Reset \/ Back

Spec == Init /\ [][Next]_vars

-----------------------------------------------------------------------------
(* Properties. *)

\* Types.
TypeOK ==
    /\ form \in Forms
    /\ phase \in Phases
    /\ {invalid, submitted, failed, unseen} \subseteq SUBSET Fields
    /\ mark \in [Fields -> Marks]
    /\ answer \in {"none", "browser", "refused"}

\* An annotation that a later adapter overwrites, as [MaxLength] does [StringLength].
Overwritten(f, annotation) ==
    \E i, k \in DOMAIN Adapters :
        /\ i < k
        /\ Adapters[i].name = annotation
        /\ Adapters[k].name \in DOMAIN form[f].val
        /\ \E j \in Sets(form[f], Adapters[i]) :
              Adapters[i].rules[j] \in {Adapters[k].rules[n] : n \in Sets(form[f], Adapters[k])}

\* The controller looks at no annotation of the model.  What leaves a page whose
\* validation was attached keeps, as the server would read it, every one of every field
\* the user sees, but for those that a later adapter overwrites and the values that the
\* scripts read otherwise than the server.
SentDataIsDeclared ==
    phase = "sent" =>
        \A f \in Fields : form[f].type # "hidden" =>
            \A a \in DOMAIN form[f].val :
                \/ Meets(form[f], a, value[f])
                \/ Overwritten(f, a)
                \/ LetThrough(a, value[f])

\* A submit the validator refuses is explained on the page: a field has a message
\* element, marked and filled.  A form never just does nothing.
RefusalIsExplained ==
    answer = "refused" =>
        \E f \in Fields : form[f].message /\ mark[f].container = "error" /\ mark[f].text # "none"

\* A field that failed a check is watched from then on: its marks and its message
\* are about the value it holds, unless that came without an event.
FailedFieldsAreWatched ==
    phase = "ready" => \A f \in failed \ unseen :
        LET broken == {r \in DOMAIN Rules(f) : ~Passes(r, Rules(f)[r], value[f])}
        IN  IF broken = {} THEN mark[f] = Unmarked
            ELSE mark[f].container = "error" /\ mark[f].text \in broken

\* The class of the input (jquery.validate's) and that of its message element
\* (unobtrusive's) are set by different callbacks, and agree.
MarksAgree == \A f \in Fields : mark[f].input = mark[f].container

=============================================================================
