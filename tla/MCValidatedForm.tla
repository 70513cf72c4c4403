-------------------------- MODULE MCValidatedForm --------------------------
(***************************************************************************)
(* Instances of ValidatedForm for TLC: the forms of the pages Create and    *)
(* Edit, and a form of one field for every two annotations that ASP.NET     *)
(* renders for the attributes of a model.                                   *)
(***************************************************************************)
EXTENDS ValidatedForm, FiniteSets

Value(length, numbers, meets) ==
    [length |-> length, blank |-> FALSE, coerced |-> numbers, parsed |-> numbers, meets |-> meets]

Word == Value(4, {}, {})
Digit == Value(1, {5}, {"number"})
Number == Value(2, {12}, {"number", "pattern"})
Ticked == Value(1, {}, {})

\* Three blanks, 0 to a script; and 0x5, a number to nobody but the scripts.
Empty == [Value(0, {}, {}) EXCEPT !.blank = TRUE]
Blanks == [Value(3, {}, {}) EXCEPT !.blank = TRUE, !.coerced = {0}]
Hex == [Value(3, {}, {}) EXCEPT !.coerced = {5}]

AllTexts == {Empty, Blanks, Digit, Number, Hex}
Boxes == {Empty, Ticked}

Field(type, val, message, initial) ==
    [type |-> type, val |-> val, message |-> message, initial |-> initial]

None == <<>>
Required == [required |-> None]
RequiredNumber == [required |-> None, number |-> None]

Id == Field("hidden", Required, FALSE, Word)
Radio == Field("radio", None, FALSE, Empty)
IsAvailable == Field("checkbox", Required, FALSE, Empty)

CreateForm ==
    [ProductName |-> Field("text", Required, TRUE, Empty),
     Count |-> Field("number", Required, TRUE, Empty),
     Price |-> Field("text", RequiredNumber, TRUE, Empty),
     IsAvailable |-> IsAvailable]

CountForm == [Id |-> Id, durum |-> Radio,
              Count |-> Field("number", Required, TRUE, Digit)]
PriceForm == [Id |-> Id, durum |-> Radio,
              Price |-> Field("text", RequiredNumber, TRUE, Digit)]
AvailableForm == [Id |-> Id, IsAvailable |-> [IsAvailable EXCEPT !.initial = Ticked]]

PageForms == {CreateForm, CountForm, PriceForm, AvailableForm}

Annotations ==
    {[required |-> None], [number |-> None], [range |-> [min |-> 1, max |-> 9]],
     [length |-> [max |-> 3]], [length |-> [min |-> 2, max |-> 3]],
     [minlength |-> [min |-> 2]], [maxlength |-> [max |-> 2]],
     [maxlength |-> [max |-> 5]], [regex |-> [pattern |-> "pattern"]]}

Both(v, w) == [a \in DOMAIN v \cup DOMAIN w |-> IF a \in DOMAIN v THEN v[a] ELSE w[a]]

OneFieldForms ==
    {[Field |-> Field("text", Both(v, w), TRUE, Empty)] : v \in Annotations, w \in Annotations}

AllForms == PageForms \cup OneFieldForms

\* These forms are such as the theorems of ValidatedFormProofs ask for.
ASSUME FormsAsProved == NumbersAreAnnotated /\ FailuresHaveMessage /\ FieldsDeclareAttributes
                       /\ ValuesAreRead

=============================================================================
