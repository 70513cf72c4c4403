------------------------- MODULE ValidationAdapters -------------------------
(***************************************************************************)
(* ReadDataEventStoreExample, in the browser: jquery.validate.unobtrusive   *)
(* turns the data-val-* attributes of an input into the rules of            *)
(* jquery.validate.  A field is a record                                    *)
(*   type      "text", "number", "checkbox", "radio" or "hidden"            *)
(*   val       [annotations -> their parameters]: its data-val-* attributes *)
(*   message   whether the page has a data-valmsg-for element for it        *)
(*   initial   the value the page is served with                            *)
(* and a value is a record                                                  *)
(*   length    how many characters it has                                   *)
(*   blank     whether none but white space is among them                   *)
(*   coerced   the number JavaScript makes of it: a set of one or none      *)
(*   parsed    the number the server's model binder reads: the same         *)
(*   meets     the formats of the scripts and the patterns it meets         *)
(***************************************************************************)
EXTENDS Naturals, Sequences

Adapter(name, kind, params, rules) ==
    [name |-> name, kind |-> kind, params |-> params, rules |-> rules]

Bool(name) == Adapter(name, "bool", <<>>, <<name>>)

SingleVal(name, attribute, rule) == Adapter(name, "single", <<attribute>>, <<rule>>)

\* The rule for both bounds comes last; "undefined" where the call leaves it out.
MinMax(name, min, max, both) == Adapter(name, "minmax", <<"min", "max">>, <<min, max, both>>)

Own(name, params, rules) == Adapter(name, "own", params, rules)

\* In the order of their registration.  The pages load no method "extension".
Adapters ==
    << SingleVal("extension", "extension", "accept"),
       SingleVal("regex", "pattern", "regex"),
       Bool("creditcard"), Bool("date"), Bool("digits"),
       Bool("email"), Bool("number"), Bool("url"),
       MinMax("length", "minlength", "maxlength", "rangelength"),
       MinMax("range", "min", "max", "range"),
       MinMax("minlength", "minlength", "undefined", "undefined"),
       MinMax("maxlength", "minlength", "maxlength", "undefined"),
       SingleVal("equalto", "other", "equalTo"),
       Own("required", <<>>, <<"required">>),
       SingleVal("remote", "url", "remote"),
       Own("password", <<"min", "nonalphamin", "regex">>, <<"minlength", "nonalphamin", "regex">>),
       SingleVal("fileextensions", "extensions", "extension") >>

RuleNames == UNION { {Adapters[i].rules[j] : j \in DOMAIN Adapters[i].rules} : i \in DOMAIN Adapters }

-----------------------------------------------------------------------------
Declares(field, a, param) == param \in DOMAIN field.val[a.name]

\* Mutant: a checkbox that must post a value must be ticked.
SetsMandatory(field, a) ==
    CASE a.kind \in {"bool", "single"} \/ a.name = "required" -> {1}
      [] a.kind = "minmax" ->
            IF Declares(field, a, "min") /\ Declares(field, a, "max") THEN {3}
            ELSE {j \in 1 .. 2 : Declares(field, a, a.params[j])}
      [] a.name = "password" -> {j \in 1 .. 3 : Declares(field, a, a.params[j])}

\* Which of its rules an adapter sets.
Sets(field, a) ==
    CASE a.kind \in {"bool", "single"} -> {1}
      [] a.kind = "minmax" ->
            IF Declares(field, a, "min") /\ Declares(field, a, "max") THEN {3}
            ELSE {j \in 1 .. 2 : Declares(field, a, a.params[j])}
      [] a.name = "required" -> IF field.type = "checkbox" THEN {} ELSE {1}
      [] a.name = "password" -> {j \in 1 .. 3 : Declares(field, a, a.params[j])}

RuleValue(field, a, j) ==
    LET given == field.val[a.name]
    IN  CASE a.kind = "bool" \/ a.name = "required" -> TRUE
          [] a.kind = "minmax" /\ j = 3 -> <<given.min, given.max>>
          [] OTHER -> given[a.params[j]]

Setters(field, rule) ==
    {i \in DOMAIN Adapters :
        /\ Adapters[i].name \in DOMAIN field.val
        /\ \E j \in Sets(field, Adapters[i]) : Adapters[i].rules[j] = rule}

\* Mutant: an adapter leaves a rule alone that another has set.
FromFirstAdapter(field, rule) ==
    LET a == Adapters[CHOOSE i \in Setters(field, rule) : \A k \in Setters(field, rule) : i <= k]
    IN  RuleValue(field, a, CHOOSE j \in Sets(field, a) : a.rules[j] = rule)

\* The last of the adapters that set a rule overwrites it.
FromAdapters(field, rule) ==
    LET a == Adapters[CHOOSE i \in Setters(field, rule) : \A k \in Setters(field, rule) : k <= i]
    IN  RuleValue(field, a, CHOOSE j \in Sets(field, a) : a.rules[j] = rule)

\* Mutant: parseElement without "__dummy__".
ParseElementBare(field) ==
    [r \in {r \in RuleNames : Setters(field, r) # {}} |-> FromAdapters(field, r)]

\* parseElement runs the adapters in their order.
ParseElement(field) ==
    [r \in {r \in RuleNames : Setters(field, r) # {}} \cup {"__dummy__"} |->
        IF r = "__dummy__" THEN TRUE ELSE FromAdapters(field, r)]

-----------------------------------------------------------------------------
Formats == {"date", "digits", "email", "number", "url"}

\* The rules whose methods are modelled.
Methods == Formats \cup {"required", "minlength", "maxlength", "rangelength", "range",
                         "__dummy__", "regex"}

IsEmpty(value) == value.length = 0

\* The methods that answer "dependency-mismatch" to an empty value, and so let it pass.
Optional == Formats \cup {"minlength", "maxlength", "rangelength", "range"}

\* "range" leaves the number to the comparison: ' 5', '5e0' and '0x5' are one.
Passes(rule, param, value) ==
    \/ rule = "__dummy__"
    \/ rule \in Optional \cup {"regex"} /\ IsEmpty(value)
    \/ rule = "required" /\ ~IsEmpty(value)
    \/ rule \in Formats /\ rule \in value.meets
    \/ rule = "minlength" /\ value.length >= param
    \/ rule = "maxlength" /\ value.length <= param
    \/ rule = "rangelength" /\ value.length >= param[1] /\ value.length <= param[2]
    \/ rule = "range" /\ \E n \in value.coerced : n >= param[1] /\ n <= param[2]
    \/ rule = "regex" /\ param \in value.meets

-----------------------------------------------------------------------------
(* What the annotations of a model mean to the server. *)

Within(n, bounds) ==
    /\ "min" \in DOMAIN bounds => n >= bounds.min
    /\ "max" \in DOMAIN bounds => n <= bounds.max

\* A value of blanks is bound to null, which only breaks "required"; a checkbox always
\* posts a value; a number is what the binder reads, whatever its format.
Meets(field, annotation, value) ==
    LET bounds == field.val[annotation]
    IN  \/ annotation = "required" /\ (field.type = "checkbox" \/ ~value.blank)
        \/ annotation # "required" /\ value.blank
        \/ annotation = "number" /\ value.parsed # {}
        \/ annotation = "email" /\ "email" \in value.meets
        \/ annotation \in {"length", "minlength", "maxlength"} /\ Within(value.length, bounds)
        \/ annotation = "range" /\ \E n \in value.parsed : Within(n, bounds)
        \/ annotation = "regex" /\ bounds.pattern \in value.meets

\* Where the scripts are content and the server is not: blanks fill in a required
\* field, and a number may be another one to the server, or none.
LetThrough(annotation, value) ==
    \/ annotation = "required" /\ value.blank /\ ~IsEmpty(value)
    \/ annotation \in {"number", "range"} /\ value.coerced # value.parsed

=============================================================================
