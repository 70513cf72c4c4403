-------------------- MODULE EventSourcedProductsProofs --------------------
(***************************************************************************)
(* Proofs about EventSourcedProducts, for any products, forms, bounds and   *)
(* restarts: count and price are what all the replays together add up to;   *)
(* the availability of the read model, alone of its fields, survives        *)
(* replays, and is in the end what was asked for.                           *)
(***************************************************************************)
EXTENDS EventSourcedProducts, WellFoundedInduction, TLAPS

(* The availability a stream s leaves a product with. *)

Setters(s, p, n) ==
    {k \in 1 .. n : /\ s[k].product = p
                    /\ s[k].type \in {"NewProductAdded", "AvailabilityChanged"}}

SetTo(e) == IF e.type = "NewProductAdded" THEN e.form.available ELSE e.available

Availability(s, p, n) == SetTo(s[Max(Setters(s, p, n))])

Creates(s, p, k) == s[k].product = p /\ s[k].type = "NewProductAdded"

Changes(s, p, k) == s[k].product = p /\ s[k].type = "AvailabilityChanged"

LEMMA LastOf ==
    ASSUME NEW n \in Nat, NEW S \in SUBSET (1 .. n), S # {}
    PROVE  /\ Max(S) \in S
           /\ \A k \in S : k <= Max(S)
PROOF
  <1> DEFINE T == {n - k : k \in S}
  <1>1. PICK k \in S : TRUE
    OBVIOUS
  <1>2. n - k \in T /\ \A j \in S : n - j \in Nat
    OBVIOUS
  <1>3. T \subseteq Nat /\ T # {}
    BY <1>2
  <1>4. IsWellFoundedOn(OpToRel(<, Nat), Nat)
    BY NatLessThanWellFounded
  <1>5. PICK x \in T : \A y \in T : ~(<<y, x>> \in OpToRel(<, Nat))
    BY <1>3, <1>4, WFMin
  <1>6. \A y \in T : ~(y < x)
    BY <1>3, <1>5 DEF OpToRel
  <1>7. PICK m \in S : x = n - m
    OBVIOUS
  <1>8. \A j \in S : n - j \in T
    OBVIOUS
  <1>9. \A j \in S : m >= j
    <2> TAKE j \in S
    <2>1. ~(n - j < n - m)
      BY <1>6, <1>7, <1>8
    <2>2. j \in Nat /\ m \in Nat
      OBVIOUS
    <2> HIDE DEF T
    <2> QED  BY <2>1, <2>2
  <1> HIDE DEF T
  <1> QED  BY <1>9 DEF Max

LEMMA LastSetter ==
    ASSUME NEW s, NEW p, NEW n \in Nat, NEW m \in Setters(s, p, n),
           \A k \in Setters(s, p, n) : k <= m
    PROVE  Availability(s, p, n) = SetTo(s[m])
PROOF
  <1> DEFINE S == Setters(s, p, n)
  <1>1. S \in SUBSET (1 .. n) /\ S # {}
    BY DEF Setters
  <1>2. Max(S) \in S /\ \A k \in S : k <= Max(S)
    BY <1>1, LastOf
  <1>3. Max(S) = m
    BY <1>1, <1>2
  <1> QED  BY <1>3 DEF Availability

\* An event that sets the availability of p decides it, and any other leaves it.
LEMMA NextSetter ==
    ASSUME NEW s, NEW p, NEW n \in Nat
    PROVE  /\ Creates(s, p, n + 1) \/ Changes(s, p, n + 1)
                => Availability(s, p, n + 1) = SetTo(s[n + 1])
           /\ ~(Creates(s, p, n + 1) \/ Changes(s, p, n + 1))
                => Availability(s, p, n + 1) = Availability(s, p, n)
PROOF
  <1>1. ASSUME Creates(s, p, n + 1) \/ Changes(s, p, n + 1)
        PROVE  Availability(s, p, n + 1) = SetTo(s[n + 1])
    <2>1. n + 1 \in Setters(s, p, n + 1) /\ \A k \in Setters(s, p, n + 1) : k <= n + 1
      BY <1>1 DEF Setters, Creates, Changes
    <2> QED  BY <2>1, LastSetter
  <1>2. ASSUME ~(Creates(s, p, n + 1) \/ Changes(s, p, n + 1))
        PROVE  Availability(s, p, n + 1) = Availability(s, p, n)
    <2>1. Setters(s, p, n + 1) = Setters(s, p, n)
      BY <1>2 DEF Setters, Creates, Changes
    <2> QED  BY <2>1 DEF Availability
  <1> QED  BY <1>1, <1>2

\* Two prefixes with the same last setter agree.
LEMMA SameSetter ==
    ASSUME NEW s, NEW p, NEW n \in Nat, NEW m \in 0 .. n, NEW k \in 1 .. m, Creates(s, p, k),
           \A j \in 1 .. n : Creates(s, p, j) => j = k,
           \A j \in 1 .. n : ~Changes(s, p, j)
    PROVE  Availability(s, p, n) = Availability(s, p, m)
PROOF
  <1>1. Setters(s, p, n) = {k} /\ Setters(s, p, m) = {k}
    BY DEF Setters, Creates, Changes
  <1> QED  BY <1>1 DEF Availability

\* Appending an event changes no prefix.
LEMMA PrefixStands ==
    ASSUME NEW s \in Seq(Events), NEW e \in Events, NEW t, t = Append(s, e),
           NEW p, NEW n \in 0 .. Len(s), NEW k \in 1 .. n, Creates(s, p, k)
    PROVE  Availability(t, p, n) = Availability(s, p, n)
PROOF
  <1>1. \A j \in 1 .. n : t[j] = s[j]
    BY DEF Creates
  <1>2. Setters(t, p, n) = Setters(s, p, n)
    BY <1>1 DEF Setters
  <1>3. k \in Setters(s, p, n) /\ Setters(s, p, n) \in SUBSET (1 .. n)
    BY DEF Setters, Creates
  <1>4. n \in Nat
    OBVIOUS
  <1>5. Max(Setters(s, p, n)) \in Setters(s, p, n)
    BY <1>3, <1>4, LastOf
  <1> QED  BY <1>1, <1>2, <1>3, <1>5 DEF Availability

LEMMA SameAvailability ==
    /\ \A p, n : AvailabilityAt(p, n) = Availability(stream, p, n)
    /\ \A p, n : AvailabilityAt(p, n)' = Availability(stream', p, n)
PROOF
  BY DEF AvailabilityAt, Availability, Setters, SetTo

-----------------------------------------------------------------------------
(* Events and documents. *)

LEMMA EventTypes ==
    ASSUME NEW e \in Events
    PROVE  /\ e.product \in Products
           /\ e.type \in AmountEvents \cup {"NewProductAdded", "AvailabilityChanged"}
           /\ e.type = "NewProductAdded" => e.form \in Forms
PROOF
  BY DEF Events, AmountEvents

DocFields == {"count", "price", "available"}

LEMMA HandledDoc ==
    ASSUME NEW e \in Events, NEW doc, doc = NoDocument \/ DOMAIN doc = DocFields
    PROVE  /\ Handled(doc, e) = NoDocument \/ DOMAIN Handled(doc, e) = DocFields
           /\ e.type = "NewProductAdded" =>
                Handled(doc, e) = IF doc = NoDocument THEN e.form ELSE doc
           /\ doc = NoDocument /\ e.type # "NewProductAdded" => Handled(doc, e) = NoDocument
           /\ doc # NoDocument /\ e.type = "AvailabilityChanged" =>
                Handled(doc, e).available = e.available
           /\ doc # NoDocument /\ e.type \in AmountEvents =>
                Handled(doc, e).available = doc.available
PROOF
  <1>1. CASE e.type = "NewProductAdded"
    <2>1. DOMAIN e.form = DocFields
      <3>1. e.form \in Documents
        BY <1>1, EventTypes, FormsAssumption
      <3> QED  BY <3>1 DEF Documents, DocFields
    <2>2. Handled(doc, e) = IF doc = NoDocument THEN e.form ELSE doc
      BY <1>1 DEF Handled, Inserted
    <2>3. e.type # "AvailabilityChanged" /\ e.type \notin AmountEvents
      BY <1>1 DEF AmountEvents
    <2> QED  BY <1>1, <2>1, <2>2, <2>3
  <1>2. CASE e.type # "NewProductAdded" /\ doc = NoDocument
    BY <1>2 DEF Handled
  <1>3. CASE e.type = "AvailabilityChanged" /\ doc # NoDocument
    <2>1. Handled(doc, e) = [doc EXCEPT !.available = e.available]
      BY <1>3 DEF Handled, Applied
    <2>2. e.type # "NewProductAdded" /\ e.type \notin AmountEvents
      BY <1>3 DEF AmountEvents
    <2> QED  BY <1>3, <2>1, <2>2 DEF DocFields
  <1>4. CASE e.type \in AmountEvents /\ doc # NoDocument
    <2>1. \/ \E n : Handled(doc, e) = [doc EXCEPT !.count = n]
          \/ \E n : Handled(doc, e) = [doc EXCEPT !.price = n]
      <3>1. CASE e.type \in {"CountDecreased", "CountIncreased"}
        BY <1>4, <3>1 DEF Handled, Applied
      <3>2. CASE e.type \in {"PriceDecreased", "PriceIncreased"}
        BY <1>4, <3>2 DEF Handled, Applied
      <3> QED  BY <1>4, <3>1, <3>2 DEF AmountEvents
    <2>2. e.type # "NewProductAdded" /\ e.type # "AvailabilityChanged"
      BY <1>4 DEF AmountEvents
    <2> QED  BY <1>4, <2>1, <2>2 DEF DocFields
  <1> QED  BY <1>1, <1>2, <1>3, <1>4, EventTypes

-----------------------------------------------------------------------------
(* The inductive invariant. *)

ShapeInv ==
    /\ stream \in Seq(Events)
    /\ position \in 0 .. Len(stream)
    /\ runs \in Seq(Nat)
    /\ \A r \in DOMAIN runs : runs[r] \in 0 .. Len(stream)
    /\ changing \in [Products -> [BOOLEAN -> Nat]]
    /\ wanted = [p \in Products |-> wanted[p]]
    /\ model = [p \in Products |-> model[p]]

\* Each product is created once, and changed afterwards only.
Ordered(s) ==
    \A p \in Products, k \in 1 .. Len(s) :
        /\ Creates(s, p, k) => \A j \in 1 .. Len(s) : Creates(s, p, j) => j = k
        /\ Changes(s, p, k) => \E j \in 1 .. k - 1 : Creates(s, p, j)

Created(s, p) == \E k \in 1 .. Len(s) : Creates(s, p, k)

OrderInv ==
    /\ Ordered(stream)
    /\ \A p \in Products, a \in BOOLEAN : changing[p][a] > 0 => Created(stream, p)

Reached == {position} \cup {runs[r] : r \in DOMAIN runs}

\* A document has the availability some subscription came to, and from the first
\* change that is replayed on, that of the position.
Follows(s, doc, now, reached, p) ==
    /\ DOMAIN doc = DocFields
    /\ \E n \in reached : /\ \E k \in 1 .. n : Creates(s, p, k)
                          /\ doc.available = Availability(s, p, n)
    /\ (\E k \in 1 .. now : Changes(s, p, k)) => doc.available = Availability(s, p, now)

ModelInv ==
    \A p \in Products : \/ model[p] = NoDocument
                        \/ Follows(stream, model[p], position, Reached, p)

\* With no request under way, the stream ends as the last request wanted.
WantedInv ==
    \A p \in Products \ raced :
        Created(stream, p) /\ (\A a \in BOOLEAN : changing[p][a] = 0)
            => wanted[p] = Availability(stream, p, Len(stream))

ProductInv == ShapeInv /\ OrderInv /\ ModelInv /\ WantedInv

LEMMA ReachedIsInStream ==
    ASSUME ShapeInv
    PROVE  Reached \subseteq 0 .. Len(stream)
PROOF
  BY DEF ShapeInv, Reached

LEMMA ListedAreCreated ==
    ASSUME ProductInv, NEW p \in Listed
    PROVE  /\ p \in Products
           /\ Follows(stream, model[p], position, Reached, p)
           /\ Created(stream, p)
PROOF
  <1>1. p \in Products /\ Follows(stream, model[p], position, Reached, p)
    BY DEF ProductInv, ModelInv, Listed
  <1>2. PICK n \in Reached : \E k \in 1 .. n : Creates(stream, p, k)
    BY <1>1 DEF Follows
  <1>3. n \in 0 .. Len(stream) /\ Len(stream) \in Nat
    BY ReachedIsInStream DEF ProductInv, ShapeInv
  <1> QED  BY <1>1, <1>2, <1>3 DEF Created

LEMMA RecoversFromInv ==
    ASSUME ProductInv
    PROVE  AvailabilityRecovers
PROOF
  <1> SUFFICES ASSUME NEW p \in Listed, \A r \in DOMAIN runs : position >= runs[r]
               PROVE  model[p].available = Availability(stream, p, position)
    BY SameAvailability DEF AvailabilityRecovers
  <1>1. p \in Products /\ Follows(stream, model[p], position, Reached, p)
    BY ListedAreCreated
  <1>2. CASE \E k \in 1 .. position : Changes(stream, p, k)
    BY <1>1, <1>2 DEF Follows
  <1>3. CASE \A k \in 1 .. position : ~Changes(stream, p, k)
    <2>1. PICK n \in Reached : /\ \E k \in 1 .. n : Creates(stream, p, k)
                              /\ model[p].available = Availability(stream, p, n)
      BY <1>1 DEF Follows
    <2>2. PICK k \in 1 .. n : Creates(stream, p, k)
      BY <2>1
    <2>3. position \in 0 .. Len(stream) /\ Len(stream) \in Nat /\ n \in 0 .. Len(stream)
      BY ReachedIsInStream DEF ProductInv, ShapeInv
    <2>4. n \in 0 .. position
      BY <2>3 DEF Reached
    <2>5. \A j \in 1 .. position : Creates(stream, p, j) => j = k
      BY <1>1, <2>2, <2>3 DEF ProductInv, OrderInv, Ordered
    <2> QED  BY <1>3, <2>1, <2>2, <2>3, <2>4, <2>5, SameSetter
  <1> QED  BY <1>2, <1>3

LEMMA StandsFromInv ==
    ASSUME ProductInv
    PROVE  UnracedChangeStands
PROOF
  <1> SUFFICES ASSUME NEW p \in Listed \ raced, position = Len(stream),
                      \A a \in BOOLEAN : changing[p][a] = 0
               PROVE  model[p].available = wanted[p]
    BY DEF UnracedChangeStands
  <1>1. p \in Products /\ Created(stream, p)
    BY ListedAreCreated
  <1>2. wanted[p] = Availability(stream, p, position)
    BY <1>1 DEF ProductInv, WantedInv
  <1>3. \A r \in DOMAIN runs : position >= runs[r]
    BY DEF ProductInv, ShapeInv
  <1>4. model[p].available = AvailabilityAt(p, position)
    BY <1>3, RecoversFromInv DEF AvailabilityRecovers
  <1> QED  BY <1>2, <1>4, SameAvailability

-----------------------------------------------------------------------------
(* The steps of the controller. *)

\* An event that creates a product anew, or changes one that was created, keeps the order.
LEMMA AppendsKeepOrder ==
    ASSUME ShapeInv, Ordered(stream), NEW e \in Events, stream' = Append(stream, e),
           e.type = "NewProductAdded" => ~Created(stream, e.product),
           e.type = "AvailabilityChanged" => Created(stream, e.product)
    PROVE  Ordered(stream')
PROOF
  <1>1. /\ stream \in Seq(Events) /\ Len(stream) \in Nat
        /\ Len(stream') = Len(stream) + 1
        /\ \A k \in 1 .. Len(stream) : stream'[k] = stream[k]
        /\ stream'[Len(stream) + 1] = e
    BY DEF ShapeInv
  <1> SUFFICES ASSUME NEW p \in Products, NEW k \in 1 .. Len(stream')
               PROVE  /\ Creates(stream', p, k) =>
                            \A j \in 1 .. Len(stream') : Creates(stream', p, j) => j = k
                      /\ Changes(stream', p, k) => \E j \in 1 .. k - 1 : Creates(stream', p, j)
    BY DEF Ordered
  <1>2. \A j \in 1 .. Len(stream) : Creates(stream', p, j) <=> Creates(stream, p, j)
    BY <1>1 DEF Creates
  <1>3. \A j \in 1 .. Len(stream) : Changes(stream', p, j) <=> Changes(stream, p, j)
    BY <1>1 DEF Changes
  <1>4. Creates(stream', p, Len(stream) + 1) => ~Created(stream, p)
    BY <1>1 DEF Creates
  <1>5. Changes(stream', p, Len(stream) + 1) => Created(stream, p)
    BY <1>1 DEF Changes
  <1>6. CASE k \in 1 .. Len(stream)
    BY <1>1, <1>2, <1>3, <1>4, <1>6 DEF Ordered, Created
  <1>7. CASE k = Len(stream) + 1
    <2>1. Creates(stream', p, k) =>
              \A j \in 1 .. Len(stream') : Creates(stream', p, j) => j = k
      BY <1>1, <1>2, <1>4, <1>7 DEF Created
    <2>2. Changes(stream', p, k) => \E j \in 1 .. k - 1 : Creates(stream', p, j)
      BY <1>1, <1>2, <1>5, <1>7 DEF Created
    <2> QED  BY <2>1, <2>2
  <1> QED  BY <1>1, <1>6, <1>7

\* What is created stays created, and the end of the stream is as the event says.
LEMMA AppendsEnd ==
    ASSUME ShapeInv, NEW e \in Events, stream' = Append(stream, e), NEW p
    PROVE  /\ Created(stream, p) => Created(stream', p)
           /\ Created(stream', p) =>
                Created(stream, p) \/ (e.product = p /\ e.type = "NewProductAdded")
           /\ e.product = p /\ e.type \in {"NewProductAdded", "AvailabilityChanged"} =>
                Availability(stream', p, Len(stream')) = SetTo(e)
           /\ Created(stream, p)
              /\ ~(e.product = p /\ e.type \in {"NewProductAdded", "AvailabilityChanged"}) =>
                Availability(stream', p, Len(stream')) = Availability(stream, p, Len(stream))
PROOF
  <1>1. /\ stream \in Seq(Events) /\ Len(stream) \in Nat
        /\ Len(stream') = Len(stream) + 1
        /\ \A k \in 1 .. Len(stream) : stream'[k] = stream[k]
        /\ stream'[Len(stream) + 1] = e
    BY DEF ShapeInv
  <1>2. \A j \in 1 .. Len(stream) : Creates(stream', p, j) <=> Creates(stream, p, j)
    BY <1>1 DEF Creates
  <1>3. Created(stream, p) => Created(stream', p)
    BY <1>1, <1>2 DEF Created
  <1>4. Created(stream', p) =>
            Created(stream, p) \/ (e.product = p /\ e.type = "NewProductAdded")
    <2> SUFFICES ASSUME NEW k \in 1 .. Len(stream'), Creates(stream', p, k), ~Created(stream, p)
                 PROVE  e.product = p /\ e.type = "NewProductAdded"
      BY DEF Created
    <2>1. k = Len(stream) + 1
      BY <1>1, <1>2 DEF Created
    <2> QED  BY <1>1, <2>1 DEF Creates
  <1>5. Creates(stream', p, Len(stream) + 1) \/ Changes(stream', p, Len(stream) + 1)
            <=> e.product = p /\ e.type \in {"NewProductAdded", "AvailabilityChanged"}
    BY <1>1 DEF Creates, Changes
  <1>6. e.product = p /\ e.type \in {"NewProductAdded", "AvailabilityChanged"} =>
            Availability(stream', p, Len(stream')) = SetTo(e)
    BY <1>1, <1>5, NextSetter
  <1>7. ASSUME Created(stream, p),
               ~(e.product = p /\ e.type \in {"NewProductAdded", "AvailabilityChanged"})
        PROVE  Availability(stream', p, Len(stream')) = Availability(stream, p, Len(stream))
    <2>1. Availability(stream', p, Len(stream) + 1) = Availability(stream', p, Len(stream))
      BY <1>1, <1>5, <1>7, NextSetter
    <2>2. ASSUME NEW n \in 0 .. Len(stream), NEW k \in 1 .. n, Creates(stream, p, k)
          PROVE  Availability(stream', p, n) = Availability(stream, p, n)
      BY <1>1, <2>2, PrefixStands
    <2>3. Availability(stream', p, Len(stream)) = Availability(stream, p, Len(stream))
      BY <1>1, <1>7, <2>2 DEF Created
    <2> QED  BY <1>1, <2>1, <2>3
  <1> QED  BY <1>3, <1>4, <1>6, <1>7

\* Documents follow the stream as before.
LEMMA AppendsKeepModel ==
    ASSUME ShapeInv, Ordered(stream), ModelInv, NEW e \in Events, stream' = Append(stream, e),
           UNCHANGED handlerVars
    PROVE  ModelInv'
PROOF
  <1>1. /\ stream \in Seq(Events) /\ Len(stream) \in Nat /\ position \in 0 .. Len(stream)
        /\ Len(stream') = Len(stream) + 1
        /\ \A k \in 1 .. Len(stream) : stream'[k] = stream[k]
    BY DEF ShapeInv
  <1>2. UNCHANGED <<model, position, runs>> /\ Reached' = Reached
    BY DEF handlerVars, Reached
  <1> SUFFICES ASSUME NEW p \in Products, Follows(stream, model[p], position, Reached, p)
               PROVE  Follows(stream', model[p], position, Reached, p)
    BY <1>2 DEF ModelInv
  <1>3. \A n \in 0 .. Len(stream) : (\E k \in 1 .. n : Creates(stream, p, k)) =>
            /\ \E k \in 1 .. n : Creates(stream', p, k)
            /\ Availability(stream', p, n) = Availability(stream, p, n)
    <2> SUFFICES ASSUME NEW n \in 0 .. Len(stream), NEW k \in 1 .. n, Creates(stream, p, k)
                 PROVE  /\ Creates(stream', p, k)
                        /\ Availability(stream', p, n) = Availability(stream, p, n)
      OBVIOUS
    <2>1. Availability(stream', p, n) = Availability(stream, p, n)
      BY <1>1, PrefixStands
    <2> QED  BY <1>1, <2>1 DEF Creates
  <1>4. \E n \in Reached : /\ \E k \in 1 .. n : Creates(stream', p, k)
                           /\ model[p].available = Availability(stream', p, n)
    BY <1>3, ReachedIsInStream DEF Follows
  <1>5. ASSUME NEW k \in 1 .. position, Changes(stream', p, k)
        PROVE  model[p].available = Availability(stream', p, position)
    <2>1. Changes(stream, p, k) /\ k \in 1 .. Len(stream)
      BY <1>1, <1>5 DEF Changes
    <2>2. PICK j \in 1 .. k - 1 : Creates(stream, p, j)
      BY <2>1 DEF Ordered
    <2>3. j \in 1 .. position
      BY <1>1
    <2>4. Availability(stream', p, position) = Availability(stream, p, position)
      BY <1>1, <1>3, <2>2, <2>3
    <2> QED  BY <2>1, <2>4 DEF Follows
  <1> QED  BY <1>4, <1>5 DEF Follows

\* An append keeps what is not about requests.
LEMMA AppendsKeep ==
    ASSUME ProductInv, NEW e \in Events, stream' = Append(stream, e), UNCHANGED handlerVars,
           e.type = "NewProductAdded" => ~Created(stream, e.product),
           e.type = "AvailabilityChanged" => Created(stream, e.product),
           changing' \in [Products -> [BOOLEAN -> Nat]],
           wanted' = [p \in Products |-> wanted'[p]]
    PROVE  ShapeInv' /\ Ordered(stream') /\ ModelInv'
PROOF
  <1>1. ShapeInv /\ Ordered(stream) /\ ModelInv
    BY DEF ProductInv, OrderInv
  <1>2. UNCHANGED <<model, position, runs>>
    BY DEF handlerVars
  <1>3. /\ Len(stream') = Len(stream) + 1
        /\ Len(stream) \in Nat
        /\ stream' \in Seq(Events)
    BY DEF ProductInv, ShapeInv
  <1>4. ShapeInv'
    BY <1>1, <1>2, <1>3 DEF ShapeInv
  <1> QED  BY <1>1, <1>4, AppendsKeepOrder, AppendsKeepModel

LEMMA CreateKeeps ==
    ASSUME ProductInv, NEW p \in Products, NEW form \in Forms, Create(p, form)
    PROVE  ProductInv'
PROOF
  <1> DEFINE e == [type |-> "NewProductAdded", product |-> p, form |-> form]
  <1>1. e \in Events
    BY DEF Events
  <1>2. /\ stream' = Append(stream, e)
        /\ wanted' = [wanted EXCEPT ![p] = form.available]
        /\ UNCHANGED <<changing, raced, handlerVars>>
    BY DEF Create, AppendToStream
  <1>3. e.type = "NewProductAdded" /\ e.product = p /\ SetTo(e) = form.available
    BY DEF SetTo
  <1> HIDE DEF e
  <1>4. ~Created(stream, p)
    <2>1. DOMAIN stream = 1 .. Len(stream)
      BY DEF ProductInv, ShapeInv
    <2>2. p \notin Added
      BY DEF Create
    <2> QED  BY <2>1, <2>2 DEF Added, Created, Creates
  <1>5. /\ wanted = [q \in Products |-> wanted[q]]
        /\ changing \in [Products -> [BOOLEAN -> Nat]]
    BY DEF ProductInv, ShapeInv
  <1>6. wanted' = [q \in Products |-> wanted'[q]]
    BY <1>2, <1>5
  <1>7. ShapeInv' /\ Ordered(stream') /\ ModelInv'
    BY <1>1, <1>2, <1>3, <1>4, <1>5, <1>6, AppendsKeep
  <1>8. ShapeInv
    BY DEF ProductInv
  <1>9. OrderInv'
    <2>1. \A q \in Products : Created(stream, q) => Created(stream', q)
      BY <1>1, <1>2, <1>8, AppendsEnd
    <2> QED  BY <1>2, <1>7, <2>1 DEF ProductInv, OrderInv
  <1>10. WantedInv'
    <2> SUFFICES ASSUME NEW q \in Products \ raced, Created(stream', q),
                        \A a \in BOOLEAN : changing[q][a] = 0
                 PROVE  wanted'[q] = Availability(stream', q, Len(stream'))
      BY <1>2 DEF WantedInv
    <2>1. CASE q = p
      <3>1. Availability(stream', q, Len(stream')) = form.available
        BY <1>1, <1>2, <1>3, <1>8, <2>1, AppendsEnd
      <3> QED  BY <1>2, <1>5, <2>1, <3>1
    <2>2. CASE q # p
      <3>1. /\ Created(stream, q)
            /\ Availability(stream', q, Len(stream')) = Availability(stream, q, Len(stream))
        BY <1>1, <1>2, <1>3, <1>8, <2>2, AppendsEnd
      <3> QED  BY <1>2, <1>5, <2>2, <3>1 DEF ProductInv, WantedInv
    <2> QED  BY <2>1, <2>2
  <1> QED  BY <1>7, <1>9, <1>10 DEF ProductInv

LEMMA AmountUpdateKeeps ==
    ASSUME ProductInv, NEW p \in Products, NEW type \in AmountEvents, NEW amount \in Amounts,
           AmountUpdate(p, type, amount)
    PROVE  ProductInv'
PROOF
  <1> DEFINE e == [type |-> type, product |-> p, amount |-> amount]
  <1>1. e \in Events
    BY DEF Events
  <1>2. /\ stream' = Append(stream, e)
        /\ UNCHANGED <<changing, wanted, raced, handlerVars>>
    BY DEF AmountUpdate, AppendToStream
  <1>3. e.type \notin {"NewProductAdded", "AvailabilityChanged"}
    BY DEF AmountEvents
  <1> HIDE DEF e
  <1>4. /\ wanted = [q \in Products |-> wanted[q]]
        /\ changing \in [Products -> [BOOLEAN -> Nat]]
        /\ ShapeInv
    BY DEF ProductInv, ShapeInv
  <1>5. ShapeInv' /\ Ordered(stream') /\ ModelInv'
    BY <1>1, <1>2, <1>3, <1>4, AppendsKeep
  <1>6. \A q \in Products :
            /\ Created(stream', q) <=> Created(stream, q)
            /\ Created(stream, q) =>
                Availability(stream', q, Len(stream')) = Availability(stream, q, Len(stream))
    BY <1>1, <1>2, <1>3, <1>4, AppendsEnd
  <1>7. OrderInv' /\ WantedInv'
    BY <1>2, <1>5, <1>6 DEF ProductInv, OrderInv, WantedInv
  <1> QED  BY <1>5, <1>7 DEF ProductInv

LEMMA AppendAvailabilityKeeps ==
    ASSUME ProductInv, NEW p \in Products, NEW available \in BOOLEAN,
           AppendAvailability(p, available)
    PROVE  ProductInv'
PROOF
  <1> DEFINE e == [type |-> "AvailabilityChanged", product |-> p, available |-> available]
  <1>1. e \in Events
    BY DEF Events
  <1>2. /\ stream' = Append(stream, e)
        /\ changing[p][available] > 0
        /\ changing' = [changing EXCEPT ![p][available] = @ - 1]
        /\ wanted' = [wanted EXCEPT ![p] = available]
        /\ UNCHANGED <<raced, handlerVars>>
    BY DEF AppendAvailability, AppendToStream
  <1>3. e.type = "AvailabilityChanged" /\ e.product = p /\ SetTo(e) = available
    BY DEF SetTo
  <1> HIDE DEF e
  <1>4. /\ wanted = [q \in Products |-> wanted[q]]
        /\ changing \in [Products -> [BOOLEAN -> Nat]]
        /\ ShapeInv
    BY DEF ProductInv, ShapeInv
  <1>5. Created(stream, p)
    BY <1>2 DEF ProductInv, OrderInv
  <1>6. /\ changing' \in [Products -> [BOOLEAN -> Nat]]
        /\ \A q \in Products, a \in BOOLEAN : changing'[q][a] > 0 => changing[q][a] > 0
        /\ \A q \in Products \ {p} : changing'[q] = changing[q]
    BY <1>2, <1>4
  <1>7. wanted' = [q \in Products |-> wanted'[q]]
    BY <1>2, <1>4
  <1>8. ShapeInv' /\ Ordered(stream') /\ ModelInv'
    BY <1>1, <1>2, <1>3, <1>5, <1>6, <1>7, AppendsKeep
  <1>9. OrderInv'
    <2>1. \A q \in Products : Created(stream, q) => Created(stream', q)
      BY <1>1, <1>2, <1>4, AppendsEnd
    <2> QED  BY <1>6, <1>8, <2>1 DEF ProductInv, OrderInv
  <1>10. WantedInv'
    <2> SUFFICES ASSUME NEW q \in Products \ raced, Created(stream', q),
                        \A a \in BOOLEAN : changing'[q][a] = 0
                 PROVE  wanted'[q] = Availability(stream', q, Len(stream'))
      BY <1>2 DEF WantedInv
    <2>1. CASE q = p
      <3>1. Availability(stream', q, Len(stream')) = available
        BY <1>1, <1>2, <1>3, <1>4, <2>1, AppendsEnd
      <3> QED  BY <1>2, <1>4, <2>1, <3>1
    <2>2. CASE q # p
      <3>1. /\ Created(stream, q)
            /\ Availability(stream', q, Len(stream')) = Availability(stream, q, Len(stream))
        BY <1>1, <1>2, <1>3, <1>4, <2>2, AppendsEnd
      <3>2. wanted'[q] = wanted[q] /\ \A a \in BOOLEAN : changing[q][a] = 0
        BY <1>2, <1>4, <1>6, <2>2
      <3> QED  BY <3>1, <3>2 DEF ProductInv, WantedInv
    <2> QED  BY <2>1, <2>2
  <1> QED  BY <1>8, <1>9, <1>10 DEF ProductInv

\* A comparison that is not a race has seen the end of the stream, and is alone.
LEMMA CompareAvailabilityKeeps ==
    ASSUME ProductInv, NEW p \in Products, NEW available \in BOOLEAN,
           CompareAvailability(p, available)
    PROVE  ProductInv'
PROOF
  <1>1. UNCHANGED <<stream, model, position, runs>> /\ p \in Listed
    BY DEF CompareAvailability, handlerVars
  <1>2. /\ wanted = [q \in Products |-> wanted[q]]
        /\ changing \in [Products -> [BOOLEAN -> Nat]]
    BY DEF ProductInv, ShapeInv
  <1>3. \/ /\ changing' = [changing EXCEPT ![p][available] = @ + 1]
           /\ UNCHANGED wanted
        \/ /\ model[p].available = available
           /\ wanted' = [wanted EXCEPT ![p] = available]
           /\ UNCHANGED changing
    BY DEF CompareAvailability
  <1>4. /\ raced \subseteq raced'
        /\ p \notin raced' => model[p].available = Availability(stream, p, Len(stream))
    BY SameAvailability DEF CompareAvailability, Compared
  <1>5. Created(stream, p)
    BY <1>1, ListedAreCreated
  <1>6. /\ changing' \in [Products -> [BOOLEAN -> Nat]]
        /\ wanted' = [q \in Products |-> wanted'[q]]
        /\ \A q \in Products \ {p} : changing'[q] = changing[q] /\ wanted'[q] = wanted[q]
    BY <1>2, <1>3
  <1>7. ShapeInv' /\ ModelInv'
    <2>1. Reached' = Reached
      BY <1>1 DEF Reached
    <2> QED  BY <1>1, <1>6, <2>1 DEF ProductInv, ShapeInv, ModelInv
  <1>8. OrderInv'
    BY <1>1, <1>5, <1>6 DEF ProductInv, OrderInv
  <1>9. WantedInv'
    <2> SUFFICES ASSUME NEW q \in Products \ raced', Created(stream, q),
                        \A a \in BOOLEAN : changing'[q][a] = 0
                 PROVE  wanted'[q] = Availability(stream, q, Len(stream))
      BY <1>1 DEF WantedInv
    <2>1. CASE q # p
      BY <1>4, <1>6, <2>1 DEF ProductInv, WantedInv
    <2>2. CASE q = p /\ UNCHANGED changing
      <3>1. \/ model[p].available = available /\ wanted' = [wanted EXCEPT ![p] = available]
            \/ wanted' = wanted
        BY <1>3
      <3>2. CASE wanted' = wanted
        BY <1>4, <2>2, <3>2 DEF ProductInv, WantedInv
      <3>3. CASE model[p].available = available /\ wanted' = [wanted EXCEPT ![p] = available]
        BY <1>2, <1>4, <2>2, <3>3
      <3> QED  BY <3>1, <3>2, <3>3
    <2>3. CASE q = p /\ changing' = [changing EXCEPT ![p][available] = @ + 1]
      BY <1>2, <2>3
    <2> QED  BY <1>3, <2>1, <2>2, <2>3
  <1> QED  BY <1>7, <1>8, <1>9 DEF ProductInv

-----------------------------------------------------------------------------
(* The steps of the handler. *)

LEMMA HandleKeeps ==
    ASSUME ProductInv, Handle
    PROVE  ProductInv'
PROOF
  <1> DEFINE here == position + 1
             e == stream[here]
             doc == Handled(model[e.product], e)
  <1>1. /\ here \in 1 .. Len(stream) /\ position \in Nat /\ Len(stream) \in Nat
        /\ position \in 0 .. Len(stream)
        /\ stream \in Seq(Events)
        /\ model = [q \in Products |-> model[q]]
    BY DEF Handle, ProductInv, ShapeInv
  <1>2. e \in Events
    BY <1>1
  <1>3. /\ model' = [model EXCEPT ![e.product] = doc]
        /\ position' = here
        /\ UNCHANGED <<stream, runs, changing, wanted, raced>>
    BY DEF Handle, streamVars
  <1> HIDE DEF e, doc, here
  <1>4. /\ e.product \in Products
        /\ e.type \in AmountEvents \cup {"NewProductAdded", "AvailabilityChanged"}
    BY <1>2, EventTypes
  <1>5. model' = [q \in Products |-> model'[q]]
    BY <1>1, <1>3
  <1>6. ShapeInv'
    BY <1>1, <1>3, <1>5 DEF ProductInv, ShapeInv
  <1>7. OrderInv' /\ WantedInv'
    BY <1>3 DEF ProductInv, OrderInv, WantedInv
  <1>8. here \in Reached' /\ Reached \ {position} \subseteq Reached'
    BY <1>3 DEF Reached
  <1>9. ModelInv'
    <2> SUFFICES ASSUME NEW p \in Products, model'[p] # NoDocument
                 PROVE  Follows(stream, model'[p], here, Reached', p)
      BY <1>3 DEF ModelInv
    <2>1. Ordered(stream)
      BY DEF ProductInv, OrderInv
    <2>2. model[p] = NoDocument \/ Follows(stream, model[p], position, Reached, p)
      BY DEF ProductInv, ModelInv
    <2>3. model[p] = NoDocument \/ DOMAIN model[p] = DocFields
      BY <2>2 DEF Follows
    <2>4. p # e.product => model'[p] = model[p]
      BY <1>1, <1>3
    <2>5. p = e.product => model'[p] = Handled(model[p], e)
      BY <1>1, <1>3 DEF doc
    <2>6. /\ Creates(stream, p, here) <=> e.product = p /\ e.type = "NewProductAdded"
          /\ Changes(stream, p, here) <=> e.product = p /\ e.type = "AvailabilityChanged"
      BY DEF Creates, Changes, e
    <2>7. here = position + 1
      BY DEF here
    <2>8. CASE Changes(stream, p, here)
      <3>1. model[p] # NoDocument
        BY <1>2, <2>3, <2>5, <2>6, <2>8, HandledDoc
      <3>2. DOMAIN model'[p] = DocFields /\ model'[p].available = e.available
        BY <1>2, <2>3, <2>5, <2>6, <2>8, <3>1, HandledDoc
      <3>3. Availability(stream, p, here) = e.available
        <4>1. Availability(stream, p, position + 1) = SetTo(stream[position + 1])
          BY <1>1, <2>7, <2>8, NextSetter
        <4>2. e.type # "NewProductAdded" /\ SetTo(e) = e.available
          BY <2>6, <2>8 DEF SetTo
        <4> QED  BY <2>7, <4>1, <4>2 DEF e
      <3>4. \E k \in 1 .. here : Creates(stream, p, k)
        <4>1. PICK k \in 1 .. here - 1 : Creates(stream, p, k)
          BY <1>1, <2>1, <2>8 DEF Ordered
        <4>2. k \in 1 .. here
          BY <1>1, <2>7
        <4> QED  BY <4>1, <4>2
      <3> QED  BY <1>8, <3>2, <3>3, <3>4 DEF Follows
    <2>9. CASE Creates(stream, p, here) /\ model[p] = NoDocument
      <3>1. model'[p] = e.form /\ DOMAIN model'[p] = DocFields
        BY <1>2, <2>3, <2>5, <2>6, <2>9, HandledDoc
      <3>2. Availability(stream, p, here) = e.form.available
        <4>1. Availability(stream, p, position + 1) = SetTo(stream[position + 1])
          BY <1>1, <2>7, <2>9, NextSetter
        <4> QED  BY <2>6, <2>7, <2>9, <4>1 DEF SetTo, e
      <3>3. here \in 1 .. here
        BY <1>1
      <3> QED  BY <1>8, <2>9, <3>1, <3>2, <3>3 DEF Follows
    <2>10. CASE Creates(stream, p, here) /\ model[p] # NoDocument
      <3>1. model'[p] = model[p]
        BY <1>2, <2>3, <2>5, <2>6, <2>10, HandledDoc
      <3>2. \A j \in 1 .. Len(stream) : Creates(stream, p, j) => j = here
        BY <1>1, <2>1, <2>10 DEF Ordered
      <3>3. \A k \in 1 .. position : ~Creates(stream, p, k)
        BY <1>1, <2>7, <3>2
      <3>4. \A k \in 1 .. here : ~Changes(stream, p, k)
        <4> SUFFICES ASSUME NEW k \in 1 .. here, Changes(stream, p, k) PROVE FALSE
          OBVIOUS
        <4>1. k \in 1 .. Len(stream)
          BY <1>1
        <4>2. PICK j \in 1 .. k - 1 : Creates(stream, p, j)
          BY <2>1, <4>1 DEF Ordered
        <4>3. j \in 1 .. position
          BY <1>1, <2>7
        <4> QED  BY <3>3, <4>2, <4>3
      <3>5. PICK n \in Reached : /\ \E k \in 1 .. n : Creates(stream, p, k)
                                /\ model[p].available = Availability(stream, p, n)
        BY <2>2, <2>10 DEF Follows
      <3>6. n # position
        BY <3>3, <3>5
      <3>7. n \in Reached'
        BY <1>8, <3>6
      <3> QED  BY <2>2, <2>10, <3>1, <3>4, <3>5, <3>7 DEF Follows
    <2>11. CASE ~Creates(stream, p, here) /\ ~Changes(stream, p, here)
      <3>1. model[p] # NoDocument
        BY <1>2, <1>4, <2>3, <2>4, <2>5, <2>6, <2>11, HandledDoc
      <3>2. DOMAIN model'[p] = DocFields /\ model'[p].available = model[p].available
        <4>1. CASE p # e.product
          BY <2>3, <2>4, <3>1, <4>1
        <4>2. CASE p = e.product
          BY <1>2, <1>4, <2>3, <2>5, <2>6, <2>11, <3>1, <4>2, HandledDoc
        <4> QED  BY <4>1, <4>2
      <3>3. Availability(stream, p, here) = Availability(stream, p, position)
        BY <1>1, <2>7, <2>11, NextSetter
      <3>4. Follows(stream, model[p], position, Reached, p)
        BY <2>2, <3>1
      <3>5. ASSUME NEW k \in 1 .. here, Changes(stream, p, k)
            PROVE  model'[p].available = Availability(stream, p, here)
        <4>1. k \in 1 .. position
          BY <1>1, <2>7, <2>11, <3>5
        <4> QED  BY <3>2, <3>3, <3>4, <3>5, <4>1 DEF Follows
      <3>6. \E n \in Reached' : /\ \E k \in 1 .. n : Creates(stream, p, k)
                                /\ model'[p].available = Availability(stream, p, n)
        <4>1. PICK n \in Reached : /\ \E k \in 1 .. n : Creates(stream, p, k)
                                  /\ model[p].available = Availability(stream, p, n)
          BY <3>4 DEF Follows
        <4>2. CASE n = position
          <5>1. \A k \in 1 .. position : k \in 1 .. here
            BY <1>1, <2>7
          <5> QED  BY <1>8, <3>2, <3>3, <4>1, <4>2, <5>1
        <4>3. CASE n # position
          BY <1>8, <3>2, <4>1, <4>3
        <4> QED  BY <4>2, <4>3
      <3> QED  BY <3>2, <3>5, <3>6 DEF Follows
    <2> QED  BY <2>8, <2>9, <2>10, <2>11
  <1> QED  BY <1>6, <1>7, <1>9 DEF ProductInv

LEMMA RestartKeeps ==
    ASSUME ProductInv, Restart
    PROVE  ProductInv'
PROOF
  <1>1. /\ runs' = Append(runs, position)
        /\ position' = 0
        /\ UNCHANGED <<model, stream, changing, wanted, raced>>
    BY DEF Restart, streamVars
  <1>2. /\ runs \in Seq(Nat) /\ position \in Nat /\ Len(runs) \in Nat
        /\ position \in 0 .. Len(stream) /\ Len(stream) \in Nat
        /\ \A r \in DOMAIN runs : runs[r] \in 0 .. Len(stream)
    BY DEF ProductInv, ShapeInv
  <1>3. /\ runs' \in Seq(Nat)
        /\ DOMAIN runs' = DOMAIN runs \cup {Len(runs) + 1}
        /\ \A r \in DOMAIN runs : runs'[r] = runs[r]
        /\ runs'[Len(runs) + 1] = position
    BY <1>1, <1>2
  <1>4. \A r \in DOMAIN runs' : runs'[r] \in 0 .. Len(stream)
    BY <1>2, <1>3
  <1>5. ShapeInv'
    BY <1>1, <1>2, <1>3, <1>4 DEF ProductInv, ShapeInv
  <1>6. Reached \subseteq Reached'
    BY <1>3 DEF Reached
  <1>7. ModelInv'
    <2> SUFFICES ASSUME NEW p \in Products, Follows(stream, model[p], position, Reached, p)
                 PROVE  Follows(stream, model[p], 0, Reached', p)
      BY <1>1 DEF ProductInv, ModelInv
    <2> QED  BY <1>6 DEF Follows
  <1>8. OrderInv' /\ WantedInv'
    BY <1>1 DEF ProductInv, OrderInv, WantedInv
  <1> QED  BY <1>5, <1>7, <1>8 DEF ProductInv

LEMMA IdleKeeps ==
    ASSUME ProductInv,
           UNCHANGED <<stream, model, position, runs, changing, wanted, raced>>
    PROVE  ProductInv'
PROOF
  <1>1. Reached' = Reached
    BY DEF Reached
  <1> QED  BY <1>1 DEF ProductInv, ShapeInv, OrderInv, ModelInv, WantedInv

LEMMA InitHolds == Init => ProductInv
PROOF
  <1> SUFFICES ASSUME Init PROVE ProductInv
    OBVIOUS
  <1>1. stream = <<>> /\ Len(stream) = 0 /\ runs = <<>> /\ DOMAIN runs = {} /\ position = 0
    BY DEF Init
  <1>2. stream \in Seq(Events) /\ runs \in Seq(Nat)
    BY <1>1
  <1>3. /\ changing \in [Products -> [BOOLEAN -> Nat]]
        /\ \A p \in Products, a \in BOOLEAN : changing[p][a] = 0
    BY DEF Init
  <1>4. ShapeInv
    BY <1>1, <1>2, <1>3 DEF Init, ShapeInv
  <1>5. OrderInv /\ WantedInv
    BY <1>1, <1>3 DEF OrderInv, WantedInv, Ordered, Created
  <1>6. ModelInv
    BY DEF Init, ModelInv
  <1> QED  BY <1>4, <1>5, <1>6 DEF ProductInv

\* The invariant of controller, stream and handler together.
THEOREM ProductInvHolds == Spec => []ProductInv
PROOF
  <1>1. ProductInv /\ [Next]_vars => ProductInv'
    <2> SUFFICES ASSUME ProductInv, [Next]_vars PROVE ProductInv'
      OBVIOUS
    <2>1. CASE Handle
      BY <2>1, HandleKeeps
    <2>2. CASE HandleThrows \/ Drop \/ UNCHANGED vars
      <3>1. UNCHANGED <<stream, model, position, runs, changing, wanted, raced>>
        BY <2>2 DEF HandleThrows, Drop, vars, streamVars, handlerVars
      <3> QED  BY <3>1, IdleKeeps
    <2>3. CASE Restart
      BY <2>3, RestartKeeps
    <2>4. ASSUME NEW p \in Products,
                 \/ \E form \in Forms : Create(p, form)
                 \/ \E type \in AmountEvents, amount \in Amounts : AmountUpdate(p, type, amount)
                 \/ \E a \in BOOLEAN : CompareAvailability(p, a) \/ AppendAvailability(p, a)
          PROVE  ProductInv'
      <3>1. CASE \E form \in Forms : Create(p, form)
        BY <3>1, CreateKeeps
      <3>2. CASE \E type \in AmountEvents, amount \in Amounts : AmountUpdate(p, type, amount)
        BY <3>2, AmountUpdateKeeps
      <3>3. CASE \E a \in BOOLEAN : CompareAvailability(p, a) \/ AppendAvailability(p, a)
        BY <3>3, CompareAvailabilityKeeps, AppendAvailabilityKeeps
      <3> QED  BY <2>4, <3>1, <3>2, <3>3
    <2> QED  BY <2>1, <2>2, <2>3, <2>4 DEF Next
  <1> QED  BY <1>1, InitHolds, PTL DEF Spec

\* Whatever was replayed, how often and how far: once a subscription has come as far
\* as those before it, the availability of every document is what the stream says.
THEOREM AvailabilitySurvivesReplays == Spec => []AvailabilityRecovers
PROOF
  <1>1. ProductInv => AvailabilityRecovers
    BY RecoversFromInv
  <1> QED  BY <1>1, ProductInvHolds, PTL

\* AvailableUpdate compares with a lagging document and appends after an await: only
\* a request that raced another or the handler can be lost on the page for good.
THEOREM OnlyRacesLoseChanges == Spec => []UnracedChangeStands
PROOF
  <1>1. ProductInv => UnracedChangeStands
    BY StandsFromInv
  <1> QED  BY <1>1, ProductInvHolds, PTL

-----------------------------------------------------------------------------
(* Sums along a sequence. *)

LEMMA LeastNat ==
    ASSUME NEW B \in SUBSET Nat, B # {}
    PROVE  \E n \in B : n - 1 \notin B
PROOF
  <1>1. PICK n \in B : \A m \in B : ~(<<m, n>> \in OpToRel(<, Nat))
    BY NatLessThanWellFounded, WFMin
  <1>2. \A m \in B : ~(m < n)
    BY <1>1 DEF OpToRel
  <1> QED  BY <1>2

\* g is the function SumTo sums f up to n with.
Sums(f, g, n) == g = [k \in 0 .. n |-> IF k = 0 THEN 0 ELSE g[k - 1] + f[k]]

LEMMA SumsAre ==
    ASSUME NEW f, NEW g, NEW n \in Nat, Sums(f, g, n)
    PROVE  /\ DOMAIN g = 0 .. n
           /\ g[0] = 0
           /\ \A k \in 1 .. n : g[k] = g[k - 1] + f[k]
PROOF
  <1> DEFINE H(k) == IF k = 0 THEN 0 ELSE g[k - 1] + f[k]
  <1>1. g = [k \in 0 .. n |-> H(k)]
    BY DEF Sums
  <1>2. \A k \in 1 .. n : k \in 0 .. n /\ k # 0
    OBVIOUS
  <1>3. 0 \in 0 .. n /\ H(0) = 0 /\ \A k \in 1 .. n : H(k) = g[k - 1] + f[k]
    BY <1>2
  <1> HIDE DEF H
  <1> QED  BY <1>1, <1>2, <1>3

LEMMA SumsExist ==
    ASSUME NEW f, NEW n \in Nat
    PROVE  \E g : Sums(f, g, n)
PROOF
  <1> DEFINE Bad == {m \in Nat : ~\E g : Sums(f, g, m)}
  <1> SUFFICES ASSUME Bad # {} PROVE FALSE
    OBVIOUS
  <1>1. PICK m \in Bad : m - 1 \notin Bad
    <2>1. Bad \in SUBSET Nat
      OBVIOUS
    <2> HIDE DEF Bad
    <2> QED  BY <2>1, LeastNat
  <1>2. m \in Nat /\ ~\E g : Sums(f, g, m)
    BY <1>1
  <1>3. CASE m = 0
    <2> DEFINE g == [k \in 0 .. 0 |-> 0]
    <2>1. \A k \in 0 .. 0 : 0 = IF k = 0 THEN 0 ELSE g[k - 1] + f[k]
      OBVIOUS
    <2>2. g = [k \in 0 .. 0 |-> IF k = 0 THEN 0 ELSE g[k - 1] + f[k]]
      BY <2>1
    <2> QED  BY <1>2, <1>3, <2>2 DEF Sums
  <1>4. CASE m # 0
    <2>1. m - 1 \in Nat
      BY <1>2, <1>4
    <2>2. PICK h : Sums(f, h, m - 1)
      BY <1>1, <2>1
    <2>3. /\ DOMAIN h = 0 .. m - 1
          /\ h[0] = 0
          /\ \A k \in 1 .. m - 1 : h[k] = h[k - 1] + f[k]
      BY <2>1, <2>2, SumsAre
    <2> DEFINE g == [k \in 0 .. m |-> IF k = m THEN h[m - 1] + f[m] ELSE h[k]]
    <2>4. g[m] = h[m - 1] + f[m] /\ \A k \in 0 .. m - 1 : g[k] = h[k]
      BY <1>2
    <2>5. DOMAIN g = 0 .. m /\ g = [k \in 0 .. m |-> g[k]]
      OBVIOUS
    <2> HIDE DEF g
    <2>6. \A k \in 0 .. m : g[k] = IF k = 0 THEN 0 ELSE g[k - 1] + f[k]
      <3> TAKE k \in 0 .. m
      <3>1. CASE k = 0
        BY <1>2, <1>4, <2>3, <2>4, <3>1
      <3>2. CASE k = m
        <4>1. m - 1 \in 0 .. m - 1
          BY <2>1
        <4>2. g[m] = g[m - 1] + f[m]
          BY <2>4, <4>1
        <4> QED  BY <1>4, <3>2, <4>2
      <3>3. CASE k # 0 /\ k # m
        <4>1. k \in 1 .. m - 1 /\ k \in 0 .. m - 1 /\ k - 1 \in 0 .. m - 1
          BY <1>2, <3>3
        <4>2. g[k] = g[k - 1] + f[k]
          BY <2>3, <2>4, <4>1
        <4> QED  BY <3>3, <4>2
      <3> QED  BY <3>1, <3>2, <3>3
    <2>7. g = [k \in 0 .. m |-> IF k = 0 THEN 0 ELSE g[k - 1] + f[k]]
      BY <2>5, <2>6
    <2> QED  BY <1>2, <2>7 DEF Sums
  <1> QED  BY <1>3, <1>4

\* Two functions that agree up to m have the same sums that far.
LEMMA SumsAgree ==
    ASSUME NEW m \in Nat, NEW n \in Nat, NEW l \in Nat, m <= n, m <= l,
           NEW e, NEW f, \A k \in 1 .. m : e[k] = f[k],
           NEW g, Sums(e, g, n), NEW h, Sums(f, h, l)
    PROVE  g[m] = h[m]
PROOF
  <1> DEFINE Bad == {k \in 0 .. m : g[k] # h[k]}
  <1>1. ASSUME Bad # {} PROVE FALSE
    <2>1. Bad \in SUBSET Nat
      OBVIOUS
    <2>2. PICK k \in Bad : k - 1 \notin Bad
      <3> HIDE DEF Bad
      <3> QED  BY <1>1, <2>1, LeastNat
    <2>3. k \in 0 .. m /\ g[k] # h[k]
      BY <2>2
    <2>4. k # 0
      BY <2>3, SumsAre
    <2>5. k \in 1 .. m /\ k \in 1 .. n /\ k \in 1 .. l /\ k - 1 \in 0 .. m
      BY <2>3, <2>4
    <2>6. g[k - 1] = h[k - 1]
      BY <2>2, <2>5
    <2>7. g[k] = g[k - 1] + e[k] /\ h[k] = h[k - 1] + f[k]
      BY <2>5, SumsAre
    <2> QED  BY <2>3, <2>5, <2>6, <2>7
  <1>2. m \in 0 .. m
    OBVIOUS
  <1> QED  BY <1>1, <1>2

LEMMA SumToIs ==
    ASSUME NEW f, NEW n \in Nat
    PROVE  \E g : Sums(f, g, n) /\ SumTo(f, n) = g[n]
PROOF
  <1> DEFINE g == CHOOSE h : Sums(f, h, n)
  <1>1. Sums(f, g, n)
    BY SumsExist
  <1>2. SumTo(f, n) = g[n]
    BY DEF SumTo, Sums
  <1> QED  BY <1>1, <1>2

LEMMA SumToZero == \A f : SumTo(f, 0) = 0
PROOF
  <1> TAKE f
  <1>1. PICK g : Sums(f, g, 0) /\ SumTo(f, 0) = g[0]
    BY SumToIs
  <1> QED  BY <1>1, SumsAre

LEMMA SumToNext ==
    ASSUME NEW n \in Nat, NEW e, NEW f, \A k \in 1 .. n : e[k] = f[k]
    PROVE  SumTo(f, n + 1) = SumTo(e, n) + f[n + 1]
PROOF
  <1>1. PICK g : Sums(e, g, n) /\ SumTo(e, n) = g[n]
    BY SumToIs
  <1>2. PICK h : Sums(f, h, n + 1) /\ SumTo(f, n + 1) = h[n + 1]
    BY SumToIs
  <1>3. g[n] = h[n]
    BY <1>1, <1>2, SumsAgree
  <1>4. n + 1 \in 1 .. n + 1 /\ (n + 1) - 1 = n
    OBVIOUS
  <1>5. h[n + 1] = h[n] + f[n + 1]
    BY <1>2, <1>4, SumsAre
  <1> QED  BY <1>1, <1>2, <1>3, <1>5

LEMMA SumToSame ==
    ASSUME NEW n \in Nat, NEW e, NEW f, \A k \in 1 .. n : e[k] = f[k]
    PROVE  SumTo(e, n) = SumTo(f, n)
PROOF
  <1>1. CASE n = 0
    BY <1>1, SumToZero
  <1>2. CASE n # 0
    <2>1. n - 1 \in Nat /\ (n - 1) + 1 = n /\ \A k \in 1 .. n - 1 : f[k] = e[k] /\ f[k] = f[k]
      BY <1>2
    <2>2. SumTo(f, n) = SumTo(f, n - 1) + f[n]
      BY <2>1, SumToNext
    <2>3. SumTo(e, n) = SumTo(f, n - 1) + e[n]
      BY <2>1, SumToNext
    <2>4. e[n] = f[n]
      BY <1>2
    <2> QED  BY <2>2, <2>3, <2>4
  <1> QED  BY <1>1, <1>2

\* A property of 0 that adding a member of f keeps is one of the sum: that it is
\* an integer, and that it is 0 where all of f is.
LEMMA SumToInt ==
    ASSUME NEW n \in Nat, NEW f, \A k \in 1 .. n : f[k] \in Int
    PROVE  /\ SumTo(f, n) \in Int
           /\ (\A k \in 1 .. n : f[k] = 0) => SumTo(f, n) = 0
PROOF
  <1>1. PICK g : Sums(f, g, n) /\ SumTo(f, n) = g[n]
    BY SumToIs
  <1>2. g[0] = 0 /\ \A k \in 1 .. n : g[k] = g[k - 1] + f[k]
    BY <1>1, SumsAre
  <1>3. \A k \in 0 .. n : g[k] \in Int
    <2> DEFINE Bad == {k \in 0 .. n : g[k] \notin Int}
    <2> SUFFICES ASSUME Bad # {} PROVE FALSE
      OBVIOUS
    <2>1. Bad \in SUBSET Nat
      OBVIOUS
    <2>2. PICK k \in Bad : k - 1 \notin Bad
      <3> HIDE DEF Bad
      <3> QED  BY <2>1, LeastNat
    <2>3. k \in 1 .. n /\ g[k] \notin Int /\ k - 1 \in 0 .. n
      BY <1>2, <2>2
    <2> QED  BY <1>2, <2>2, <2>3
  <1>4. ASSUME \A k \in 1 .. n : f[k] = 0
        PROVE  \A k \in 0 .. n : g[k] = 0
    <2> DEFINE Bad == {k \in 0 .. n : g[k] # 0}
    <2> SUFFICES ASSUME Bad # {} PROVE FALSE
      OBVIOUS
    <2>1. Bad \in SUBSET Nat
      OBVIOUS
    <2>2. PICK k \in Bad : k - 1 \notin Bad
      <3> HIDE DEF Bad
      <3> QED  BY <2>1, LeastNat
    <2>3. k \in 1 .. n /\ g[k] # 0 /\ k - 1 \in 0 .. n
      BY <1>2, <2>2
    <2>4. g[k - 1] = 0 /\ g[k] = g[k - 1] + 0
      BY <1>2, <1>4, <2>2, <2>3
    <2> QED  BY <2>3, <2>4
  <1>5. n \in 0 .. n
    OBVIOUS
  <1> QED  BY <1>1, <1>3, <1>4, <1>5

-----------------------------------------------------------------------------
(* Arithmetic of an int. *)

LEMMA WrapIsInt == \A n \in Int : Wrap(n) \in Ints /\ Wrap(n) \in Int
PROOF
  BY BoundsAssumption DEF Wrap, Ints

LEMMA WrapOfInt == \A n \in Ints : Wrap(n) = n
PROOF
  BY BoundsAssumption DEF Wrap, Ints

LEMMA Remainder ==
    ASSUME NEW m \in Nat \ {0}, NEW n \in Int
    PROVE  n \div m \in Int /\ n % m \in 0 .. m - 1 /\ n = m * (n \div m) + (n % m)
PROOF
  OBVIOUS

LEMMA SameRemainder ==
    ASSUME NEW m \in Nat \ {0}, NEW i \in Int, NEW j \in Int, NEW k \in Int,
           NEW y \in Int, NEW r \in 0 .. m - 1, NEW t \in 0 .. m - 1,
           y = m * j + r,
           m * i + y = m * k + t
    PROVE  r = t
PROOF
  <1>1. m * (i + j - k) + r = t
    OBVIOUS
  <1>2. ASSUME NEW q \in Int, m * q + r \in 0 .. m - 1 PROVE q = 0
    BY <1>2
  <1>3. i + j - k = 0
    BY <1>1, <1>2
  <1> QED  BY <1>1, <1>3

\* A sum that wraps at every step ends where one that wraps once does.
LEMMA WrapAgain ==
    ASSUME NEW a \in Int, NEW b \in Int
    PROVE  Wrap(Wrap(a) + b) = Wrap(a + b)
PROOF
  <1> DEFINE m == 2 * IntLimit
             x == a + IntLimit
             y == (x % m) + b
             z == x + b
  <1>1. m \in Nat \ {0} /\ IntLimit \in Int /\ x \in Int /\ z \in Int
    BY BoundsAssumption
  <1>2. x \div m \in Int /\ x % m \in 0 .. m - 1 /\ x = m * (x \div m) + (x % m)
    BY <1>1, Remainder
  <1>3. y \in Int
    BY <1>2
  <1>4. y \div m \in Int /\ y % m \in 0 .. m - 1 /\ y = m * (y \div m) + (y % m)
    BY <1>1, <1>3, Remainder
  <1>5. z \div m \in Int /\ z % m \in 0 .. m - 1 /\ z = m * (z \div m) + (z % m)
    BY <1>1, Remainder
  <1>6. Wrap(a) + b + IntLimit = y /\ Wrap(a) + b \in Int /\ a + b + IntLimit = z
    BY <1>1, <1>2 DEF Wrap
  <1>7. y % m = z % m
    <2>1. z = x + b /\ y = (x % m) + b
      OBVIOUS
    <2> HIDE DEF x, y, z, m
    <2>2. m * (x \div m) \in Int /\ x % m \in Int
      BY <1>1, <1>2
    <2>3. m * (x \div m) + y = z
      BY <1>1, <1>2, <2>1, <2>2
    <2> DEFINE i == x \div m
               j == y \div m
               k == z \div m
               r == y % m
               t == z % m
    <2>4. /\ y = m * j + r /\ m * i + y = m * k + t
          /\ i \in Int /\ j \in Int /\ k \in Int /\ r \in 0 .. m - 1 /\ t \in 0 .. m - 1
      BY <1>2, <1>4, <1>5, <2>3
    <2> HIDE DEF i, j, k, r, t
    <2>5. r = t
      BY <1>1, <1>3, <2>4, SameRemainder
    <2> QED  BY <2>5 DEF r, t
  <1> QED  BY <1>6, <1>7 DEF Wrap

-----------------------------------------------------------------------------
(* What replays add up to.  Delta, Total and FormOf of a stream s, a position n *)
(* and the earlier subscriptions rs.                                            *)

DeltaIn(s, p, n, up, down) == SumTo([k \in 1 .. n |-> Change(p, s[k], up, down)], n)

TotalIn(s, p, n, rs, up, down) ==
    DeltaIn(s, p, n, up, down)
      + SumTo([r \in DOMAIN rs |-> DeltaIn(s, p, rs[r], up, down)], Len(rs))

FormIn(s, p) == s[CHOOSE k \in DOMAIN s : Creates(s, p, k)].form

\* A document is the form and all that was ever replayed.
AddsUp(s, doc, p, n, rs) ==
    /\ doc.count = Wrap(FormIn(s, p).count
                          + TotalIn(s, p, n, rs, "CountIncreased", "CountDecreased"))
    /\ doc.price = FormIn(s, p).price
                     + TotalIn(s, p, n, rs, "PriceIncreased", "PriceDecreased")

\* The first event of a product creates it.
Begun(s) == \A k \in 1 .. Len(s) : \E j \in 1 .. k : Creates(s, s[k].product, j)

\* No subscription has come to an event of p.
Untouched(s, p, reached) == \A n \in reached : \A k \in 1 .. n : s[k].product # p

ReplayInv ==
    /\ Begun(stream)
    /\ \A p \in Products :
          \/ model[p] = NoDocument /\ Untouched(stream, p, Reached)
          \/ model[p] \in Documents /\ AddsUp(stream, model[p], p, position, runs)

LEMMA SameTotals ==
    /\ \A p, n, up, down : Delta(p, n, up, down) = DeltaIn(stream, p, n, up, down)
    /\ \A p, up, down : Total(p, up, down) = TotalIn(stream, p, position, runs, up, down)
    /\ \A p : FormOf(p) = FormIn(stream, p)
PROOF
  BY DEF Delta, DeltaIn, Total, TotalIn, FormOf, FormIn, Creates

LEMMA FormIs ==
    ASSUME NEW s \in Seq(Events), Ordered(s), NEW p \in Products,
           NEW k \in 1 .. Len(s), Creates(s, p, k)
    PROVE  FormIn(s, p) = s[k].form /\ FormIn(s, p) \in Documents
PROOF
  <1>1. k \in DOMAIN s /\ DOMAIN s = 1 .. Len(s)
    OBVIOUS
  <1>2. \A j \in DOMAIN s : Creates(s, p, j) => j = k
    BY <1>1 DEF Ordered
  <1>3. (CHOOSE j \in DOMAIN s : Creates(s, p, j)) = k
    BY <1>1, <1>2
  <1>4. s[k].form \in Forms
    BY <1>1, EventTypes DEF Creates
  <1> QED  BY <1>3, <1>4, FormsAssumption DEF FormIn

LEMMA ChangeIsInt ==
    ASSUME NEW p, NEW e \in Events, NEW up \in AmountEvents, NEW down \in AmountEvents
    PROVE  Change(p, e, up, down) \in Int
PROOF
  <1>1. e.type \in AmountEvents => e.amount \in Int
    BY AmountsAssumption DEF Events, AmountEvents
  <1>2. CASE e.product = p /\ e.type = up
    BY <1>1, <1>2 DEF Change
  <1>3. CASE e.product = p /\ e.type = down /\ e.type # up
    BY <1>1, <1>3 DEF Change
  <1>4. CASE ~(e.product = p /\ e.type = up) /\ ~(e.product = p /\ e.type = down)
    BY <1>4 DEF Change
  <1> QED  BY <1>2, <1>3, <1>4

LEMMA DeltaIsInt ==
    ASSUME NEW s \in Seq(Events), NEW p, NEW n \in 0 .. Len(s),
           NEW up \in AmountEvents, NEW down \in AmountEvents
    PROVE  DeltaIn(s, p, n, up, down) \in Int
PROOF
  <1> DEFINE f == [k \in 1 .. n |-> Change(p, s[k], up, down)]
  <1>1. n \in Nat
    OBVIOUS
  <1>2. \A k \in 1 .. n : s[k] \in Events
    OBVIOUS
  <1>3. \A k \in 1 .. n : f[k] \in Int
    BY <1>2, ChangeIsInt
  <1>4. DeltaIn(s, p, n, up, down) = SumTo(f, n)
    BY DEF DeltaIn
  <1> HIDE DEF f
  <1> QED  BY <1>1, <1>3, <1>4, SumToInt

LEMMA DeltaNext ==
    ASSUME NEW s, NEW p, NEW n \in Nat, NEW up, NEW down
    PROVE  /\ DeltaIn(s, p, 0, up, down) = 0
           /\ DeltaIn(s, p, n + 1, up, down)
                = DeltaIn(s, p, n, up, down) + Change(p, s[n + 1], up, down)
PROOF
  <1> DEFINE f == [k \in 1 .. n |-> Change(p, s[k], up, down)]
             g == [k \in 1 .. n + 1 |-> Change(p, s[k], up, down)]
  <1>1. n + 1 \in 1 .. n + 1 /\ \A k \in 1 .. n : k \in 1 .. n + 1
    OBVIOUS
  <1>2. \A k \in 1 .. n : f[k] = g[k]
    BY <1>1
  <1>3. g[n + 1] = Change(p, s[n + 1], up, down)
    BY <1>1
  <1>4. /\ DeltaIn(s, p, n, up, down) = SumTo(f, n)
        /\ DeltaIn(s, p, n + 1, up, down) = SumTo(g, n + 1)
    BY DEF DeltaIn
  <1>5. DeltaIn(s, p, 0, up, down) = 0
    BY SumToZero DEF DeltaIn
  <1> HIDE DEF f, g
  <1>6. SumTo(g, n + 1) = SumTo(f, n) + g[n + 1]
    BY <1>2, SumToNext
  <1> QED  BY <1>3, <1>4, <1>5, <1>6

LEMMA DeltaUntouched ==
    ASSUME NEW s, NEW p, NEW n \in Nat, \A k \in 1 .. n : s[k].product # p, NEW up, NEW down
    PROVE  DeltaIn(s, p, n, up, down) = 0
PROOF
  <1> DEFINE f == [k \in 1 .. n |-> Change(p, s[k], up, down)]
  <1>1. \A k \in 1 .. n : f[k] = 0
    BY DEF Change
  <1>2. DeltaIn(s, p, n, up, down) = SumTo(f, n)
    BY DEF DeltaIn
  <1> HIDE DEF f
  <1> QED  BY <1>1, <1>2, SumToInt

LEMMA TotalIsInt ==
    ASSUME NEW s \in Seq(Events), NEW p, NEW n \in 0 .. Len(s),
           NEW rs \in Seq(Nat), \A r \in DOMAIN rs : rs[r] \in 0 .. Len(s),
           NEW up \in AmountEvents, NEW down \in AmountEvents
    PROVE  TotalIn(s, p, n, rs, up, down) \in Int
PROOF
  <1> DEFINE f == [r \in DOMAIN rs |-> DeltaIn(s, p, rs[r], up, down)]
  <1>1. Len(rs) \in Nat /\ \A r \in 1 .. Len(rs) : f[r] = DeltaIn(s, p, rs[r], up, down)
    OBVIOUS
  <1>2. \A r \in 1 .. Len(rs) : f[r] \in Int
    <2> TAKE r \in 1 .. Len(rs)
    <2>1. rs[r] \in 0 .. Len(s)
      OBVIOUS
    <2> QED  BY <1>1, <2>1, DeltaIsInt
  <1>3. TotalIn(s, p, n, rs, up, down) = DeltaIn(s, p, n, up, down) + SumTo(f, Len(rs))
    BY DEF TotalIn
  <1> HIDE DEF f
  <1>4. SumTo(f, Len(rs)) \in Int
    BY <1>1, <1>2, SumToInt
  <1>5. DeltaIn(s, p, n, up, down) \in Int
    BY DeltaIsInt
  <1> QED  BY <1>3, <1>4, <1>5

\* The next event of the stream is added once.
LEMMA TotalNext ==
    ASSUME NEW s \in Seq(Events), NEW p, NEW n \in Nat, n + 1 \in 0 .. Len(s),
           NEW rs \in Seq(Nat), \A r \in DOMAIN rs : rs[r] \in 0 .. Len(s),
           NEW up \in AmountEvents, NEW down \in AmountEvents
    PROVE  TotalIn(s, p, n + 1, rs, up, down)
             = TotalIn(s, p, n, rs, up, down) + Change(p, s[n + 1], up, down)
PROOF
  <1> DEFINE rest == SumTo([r \in DOMAIN rs |-> DeltaIn(s, p, rs[r], up, down)], Len(rs))
  <1>1. /\ TotalIn(s, p, n + 1, rs, up, down) = DeltaIn(s, p, n + 1, up, down) + rest
        /\ TotalIn(s, p, n, rs, up, down) = DeltaIn(s, p, n, up, down) + rest
    BY DEF TotalIn
  <1>2. DeltaIn(s, p, n, up, down) \in Int /\ Change(p, s[n + 1], up, down) \in Int
    <2>1. n \in 0 .. Len(s) /\ s[n + 1] \in Events
      OBVIOUS
    <2> QED  BY <2>1, DeltaIsInt, ChangeIsInt
  <1>3. rest \in Int
    <2>1. TotalIn(s, p, 0, rs, up, down) = DeltaIn(s, p, 0, up, down) + rest
      BY DEF TotalIn
    <2> DEFINE f == [r \in DOMAIN rs |-> DeltaIn(s, p, rs[r], up, down)]
    <2>2. Len(rs) \in Nat /\ \A r \in 1 .. Len(rs) : f[r] = DeltaIn(s, p, rs[r], up, down)
      OBVIOUS
    <2>3. \A r \in 1 .. Len(rs) : rs[r] \in 0 .. Len(s)
      OBVIOUS
    <2>4. \A r \in 1 .. Len(rs) : f[r] \in Int
      BY <2>2, <2>3, DeltaIsInt
    <2> HIDE DEF f
    <2> QED  BY <2>2, <2>4, SumToInt DEF f
  <1>4. DeltaIn(s, p, n + 1, up, down) = DeltaIn(s, p, n, up, down) + Change(p, s[n + 1], up, down)
    BY DeltaNext
  <1> HIDE DEF rest
  <1> QED  BY <1>1, <1>2, <1>3, <1>4

\* A restart keeps the total: what this subscription replayed counts as an earlier one's.
LEMMA TotalRestart ==
    ASSUME NEW s \in Seq(Events), NEW p, NEW n \in 0 .. Len(s),
           NEW rs \in Seq(Nat), \A r \in DOMAIN rs : rs[r] \in 0 .. Len(s),
           NEW up \in AmountEvents, NEW down \in AmountEvents
    PROVE  TotalIn(s, p, 0, Append(rs, n), up, down) = TotalIn(s, p, n, rs, up, down)
PROOF
  <1> DEFINE all == Append(rs, n)
             f == [r \in DOMAIN rs |-> DeltaIn(s, p, rs[r], up, down)]
             g == [r \in DOMAIN all |-> DeltaIn(s, p, all[r], up, down)]
  <1>1. /\ Len(rs) \in Nat /\ DOMAIN rs = 1 .. Len(rs)
        /\ Len(all) = Len(rs) + 1 /\ DOMAIN all = 1 .. Len(rs) + 1
        /\ all[Len(rs) + 1] = n
        /\ \A r \in 1 .. Len(rs) : all[r] = rs[r]
    OBVIOUS
  <1>2. /\ TotalIn(s, p, 0, all, up, down) = DeltaIn(s, p, 0, up, down) + SumTo(g, Len(all))
        /\ TotalIn(s, p, n, rs, up, down) = DeltaIn(s, p, n, up, down) + SumTo(f, Len(rs))
    BY DEF TotalIn
  <1> HIDE DEF all
  <1>3. Len(rs) + 1 \in DOMAIN all /\ \A r \in 1 .. Len(rs) : r \in DOMAIN all
    BY <1>1
  <1>4. g[Len(rs) + 1] = DeltaIn(s, p, n, up, down)
    BY <1>1, <1>3
  <1>5. \A r \in 1 .. Len(rs) : f[r] = g[r] /\ f[r] = DeltaIn(s, p, rs[r], up, down)
    BY <1>1, <1>3
  <1>6. \A r \in 1 .. Len(rs) : f[r] \in Int
    <2>1. \A r \in 1 .. Len(rs) : rs[r] \in 0 .. Len(s)
      BY <1>1
    <2> HIDE DEF f
    <2> QED  BY <1>5, <2>1, DeltaIsInt
  <1> HIDE DEF f, g
  <1>7. SumTo(g, Len(rs) + 1) = SumTo(f, Len(rs)) + g[Len(rs) + 1]
    BY <1>1, <1>5, SumToNext
  <1>8. SumTo(f, Len(rs)) \in Int
    BY <1>1, <1>6, SumToInt
  <1>9. DeltaIn(s, p, 0, up, down) = 0 /\ DeltaIn(s, p, n, up, down) \in Int
    BY DeltaNext, DeltaIsInt
  <1> QED  BY <1>1, <1>2, <1>4, <1>7, <1>8, <1>9 DEF all

LEMMA TotalUntouched ==
    ASSUME NEW s, NEW p, NEW n \in Nat, NEW rs \in Seq(Nat),
           Untouched(s, p, {n} \cup {rs[r] : r \in DOMAIN rs}), NEW up, NEW down
    PROVE  TotalIn(s, p, n, rs, up, down) = 0
PROOF
  <1> DEFINE f == [r \in DOMAIN rs |-> DeltaIn(s, p, rs[r], up, down)]
  <1>1. DeltaIn(s, p, n, up, down) = 0
    BY DeltaUntouched DEF Untouched
  <1>2. Len(rs) \in Nat /\ DOMAIN rs = 1 .. Len(rs) /\ \A r \in 1 .. Len(rs) : rs[r] \in Nat
    OBVIOUS
  <1>3. \A r \in 1 .. Len(rs) : f[r] = 0
    <2> TAKE r \in 1 .. Len(rs)
    <2>1. \A k \in 1 .. rs[r] : s[k].product # p
      BY <1>2 DEF Untouched
    <2>2. DeltaIn(s, p, rs[r], up, down) = 0
      BY <1>2, <2>1, DeltaUntouched
    <2> QED  BY <1>2, <2>2
  <1>4. TotalIn(s, p, n, rs, up, down) = DeltaIn(s, p, n, up, down) + SumTo(f, Len(rs))
    BY DEF TotalIn
  <1> HIDE DEF f
  <1>5. SumTo(f, Len(rs)) = 0
    BY <1>2, <1>3, SumToInt
  <1> QED  BY <1>1, <1>4, <1>5

LEMMA NoDocumentIsNone == NoDocument \notin Documents
PROOF
  <1>1. \A doc \in Documents : DOMAIN doc = {"count", "price", "available"}
    BY DEF Documents
  <1>2. DOMAIN NoDocument = {"count"}
    BY DEF NoDocument
  <1> QED  BY <1>1, <1>2

\* The handler adds what an event says to the document of its product.
LEMMA HandledAdds ==
    ASSUME NEW e \in Events, NEW doc \in Documents
    PROVE  /\ Handled(doc, e).count =
                Wrap(doc.count + Change(e.product, e, "CountIncreased", "CountDecreased"))
           /\ Handled(doc, e).price =
                doc.price + Change(e.product, e, "PriceIncreased", "PriceDecreased")
           /\ Handled(doc, e).price \in Decimals => Handled(doc, e) \in Documents
           /\ Handled(doc, e) # NoDocument
PROOF
  <1>1. ASSUME NEW d, DOMAIN d = DOMAIN doc PROVE d # NoDocument
    <2>1. DOMAIN doc = {"count", "price", "available"} /\ DOMAIN NoDocument = {"count"}
      BY DEF Documents, NoDocument
    <2> QED  BY <1>1, <2>1
  <1>2. /\ doc # NoDocument /\ doc.count \in Ints /\ doc.price \in Decimals
        /\ doc.price \in Int /\ doc.count \in Int /\ doc.available \in BOOLEAN
    BY NoDocumentIsNone, BoundsAssumption DEF Documents, Ints, Decimals
  <1>3. doc = [count |-> doc.count, price |-> doc.price, available |-> doc.available]
    BY DEF Documents
  <1>4. Wrap(doc.count + 0) = doc.count /\ doc.price + 0 = doc.price
    BY <1>2, WrapOfInt
  <1>5. e.type \in AmountEvents => e.amount \in Int
    BY AmountsAssumption DEF Events, AmountEvents
  <1>6. e.type = "AvailabilityChanged" => e.available \in BOOLEAN
    BY DEF Events, AmountEvents
  <1> DEFINE up == Change(e.product, e, "CountIncreased", "CountDecreased")
             dear == Change(e.product, e, "PriceIncreased", "PriceDecreased")
  <1>7. ASSUME Handled(doc, e) = doc \/ \E n : \/ Handled(doc, e) = [doc EXCEPT !.count = n]
                                               \/ Handled(doc, e) = [doc EXCEPT !.price = n]
                                               \/ Handled(doc, e) = [doc EXCEPT !.available = n]
         PROVE  Handled(doc, e) # NoDocument
    BY <1>1, <1>7
  <1>8. CASE e.type = "NewProductAdded"
    <2>1. up = 0 /\ dear = 0 /\ Handled(doc, e) = doc
      BY <1>2, <1>8 DEF Change, Handled, Inserted
    <2> QED  BY <1>4, <1>7, <2>1
  <1>9. CASE e.type = "AvailabilityChanged"
    <2>1. up = 0 /\ dear = 0 /\ Handled(doc, e) = [doc EXCEPT !.available = e.available]
      BY <1>2, <1>9 DEF Change, Handled, Applied
    <2> QED  BY <1>3, <1>4, <1>7, <1>6, <1>9, <2>1 DEF Documents
  <1>10. CASE e.type = "CountIncreased"
    <2>1. up = e.amount /\ dear = 0
          /\ Handled(doc, e) = [doc EXCEPT !.count = Wrap(doc.count + e.amount)]
      BY <1>2, <1>10 DEF Change, Handled, Applied
    <2>2. Wrap(doc.count + e.amount) \in Ints
      BY <1>2, <1>5, <1>10, WrapIsInt DEF AmountEvents
    <2> HIDE DEF up, dear
    <2> QED  BY <1>3, <1>4, <1>7, <2>1, <2>2 DEF Documents, up, dear
  <1>11. CASE e.type = "CountDecreased"
    <2>1. up = -e.amount /\ dear = 0
          /\ Handled(doc, e) = [doc EXCEPT !.count = Wrap(doc.count - e.amount)]
      BY <1>2, <1>11 DEF Change, Handled, Applied
    <2>2. doc.count - e.amount = doc.count + -e.amount /\ Wrap(doc.count - e.amount) \in Ints
      BY <1>2, <1>5, <1>11, WrapIsInt DEF AmountEvents
    <2>3. Wrap(doc.count - e.amount) = Wrap(doc.count + up)
      BY <2>1, <2>2
    <2> HIDE DEF up, dear
    <2> QED  BY <1>3, <1>4, <1>7, <2>1, <2>2, <2>3 DEF Documents, up, dear
  <1>12. CASE e.type = "PriceIncreased"
    <2>1. up = 0 /\ dear = e.amount
          /\ Handled(doc, e) = [doc EXCEPT !.price = doc.price + e.amount]
      BY <1>2, <1>12 DEF Change, Handled, Applied
    <2> HIDE DEF up, dear
    <2> QED  BY <1>2, <1>3, <1>4, <1>7, <2>1 DEF Documents, up, dear
  <1>13. CASE e.type = "PriceDecreased"
    <2>1. up = 0 /\ dear = -e.amount
          /\ Handled(doc, e) = [doc EXCEPT !.price = doc.price - e.amount]
      BY <1>2, <1>13 DEF Change, Handled, Applied
    <2>2. doc.price - e.amount = doc.price + -e.amount
      BY <1>2, <1>5, <1>13 DEF AmountEvents
    <2>3. doc.price - e.amount = doc.price + dear
      BY <2>1, <2>2
    <2> HIDE DEF up, dear
    <2> QED  BY <1>2, <1>3, <1>4, <1>7, <2>1, <2>3 DEF Documents, up, dear
  <1> QED  BY <1>8, <1>9, <1>10, <1>11, <1>12, <1>13, EventTypes DEF AmountEvents


LEMMA HandleReplays ==
    ASSUME ProductInv, ReplayInv, Handle
    PROVE  ReplayInv'
PROOF
  <1> DEFINE here == position + 1
             e == stream[here]
             doc == Handled(model[e.product], e)
  <1>1. /\ stream \in Seq(Events) /\ Len(stream) \in Nat /\ position \in Nat
        /\ here \in 1 .. Len(stream) /\ here \in 0 .. Len(stream)
        /\ runs \in Seq(Nat) /\ \A r \in DOMAIN runs : runs[r] \in 0 .. Len(stream)
        /\ model = [q \in Products |-> model[q]]
    BY DEF Handle, ProductInv, ShapeInv
  <1>2. e \in Events
    BY <1>1
  <1>3. /\ model' = [model EXCEPT ![e.product] = doc]
        /\ position' = here /\ stream' = stream /\ runs' = runs
        /\ ~Throws(doc)
    BY DEF Handle, streamVars
  <1> HIDE DEF e, doc
  <1>4. e.product \in Products
    BY <1>2, EventTypes
  <1>5. \A n \in Reached' : n \in Reached \/ n = here
    BY <1>3 DEF Reached
  <1>6. \A p, up, down : up \in AmountEvents /\ down \in AmountEvents =>
          /\ TotalIn(stream, p, position, runs, up, down) \in Int
          /\ Change(p, e, up, down) \in Int
          /\ TotalIn(stream, p, here, runs, up, down)
               = TotalIn(stream, p, position, runs, up, down) + Change(p, e, up, down)
    <2> TAKE p, up, down
    <2> HAVE up \in AmountEvents /\ down \in AmountEvents
    <2>1. position \in 0 .. Len(stream)
      BY <1>1
    <2>2. TotalIn(stream, p, position, runs, up, down) \in Int
      BY <1>1, <2>1, TotalIsInt
    <2>3. Change(p, e, up, down) \in Int
      BY <1>2, ChangeIsInt
    <2>4. TotalIn(stream, p, position + 1, runs, up, down)
            = TotalIn(stream, p, position, runs, up, down) + Change(p, stream[position + 1], up, down)
      BY <1>1, TotalNext
    <2> QED  BY <2>2, <2>3, <2>4 DEF e
  <1>7. {"CountIncreased", "CountDecreased", "PriceIncreased", "PriceDecreased"} \subseteq AmountEvents
    BY DEF AmountEvents
  <1>8. Ordered(stream)
    BY DEF ProductInv, OrderInv
  <1> SUFFICES ASSUME NEW p \in Products
               PROVE  \/ model'[p] = NoDocument /\ Untouched(stream, p, Reached')
                      \/ model'[p] \in Documents /\ AddsUp(stream, model'[p], p, here, runs)
    BY <1>3 DEF ReplayInv
  <1>9. CASE p # e.product
    <2>1. model'[p] = model[p]
      BY <1>1, <1>3, <1>9
    <2>2. CASE model[p] = NoDocument /\ Untouched(stream, p, Reached)
      <3>1. position \in Reached
        BY DEF Reached
      <3>2. \A k \in 1 .. here : k \in 1 .. position \/ k = here
        BY <1>1
      <3>3. \A k \in 1 .. here : stream[k].product # p
        BY <1>9, <2>2, <3>1, <3>2 DEF Untouched, e
      <3>4. Untouched(stream, p, Reached')
        BY <1>5, <2>2, <3>3 DEF Untouched
      <3> QED  BY <2>1, <2>2, <3>4
    <2>3. CASE model[p] \in Documents /\ AddsUp(stream, model[p], p, position, runs)
      <3>1. \A up, down : Change(p, e, up, down) = 0
        BY <1>9 DEF Change
      <3>2. /\ TotalIn(stream, p, here, runs, "CountIncreased", "CountDecreased")
                 = TotalIn(stream, p, position, runs, "CountIncreased", "CountDecreased")
            /\ TotalIn(stream, p, here, runs, "PriceIncreased", "PriceDecreased")
                 = TotalIn(stream, p, position, runs, "PriceIncreased", "PriceDecreased")
        BY <1>6, <1>7, <3>1
      <3> QED  BY <2>1, <2>3, <3>2 DEF AddsUp
    <2> QED  BY <2>2, <2>3 DEF ReplayInv
  <1>10. CASE p = e.product
    <2>1. model'[p] = Handled(model[p], e) /\ doc = Handled(model[p], e)
      BY <1>1, <1>3, <1>10 DEF doc
    <2>2. CASE model[p] = NoDocument /\ Untouched(stream, p, Reached)
      <3>1. PICK j \in 1 .. here : Creates(stream, p, j)
        BY <1>1, <1>10 DEF ReplayInv, Begun, e
      <3>2. j = here
        <4>1. j \in 1 .. position \/ j = here
          BY <1>1
        <4>2. \A k \in 1 .. position : stream[k].product # p
          BY <2>2 DEF Untouched, Reached
        <4> QED  BY <3>1, <4>1, <4>2 DEF Creates
      <3>3. e.type = "NewProductAdded" /\ Creates(stream, p, here)
        BY <3>1, <3>2 DEF Creates, e
      <3>4. model'[p] = e.form
        BY <2>1, <2>2, <3>3 DEF Handled, Inserted
      <3>5. FormIn(stream, p) = e.form /\ e.form \in Documents
        BY <1>1, <1>8, <3>3, FormIs DEF e
      <3>6. \A up, down : up \in AmountEvents /\ down \in AmountEvents =>
              TotalIn(stream, p, here, runs, up, down) = 0
        <4> TAKE up, down
        <4> HAVE up \in AmountEvents /\ down \in AmountEvents
        <4>1. Change(p, e, up, down) = 0
          BY <3>3 DEF Change, AmountEvents
        <4>2. Untouched(stream, p, {position} \cup {runs[r] : r \in DOMAIN runs})
          BY <2>2 DEF Reached
        <4>3. TotalIn(stream, p, position, runs, up, down) = 0
          BY <1>1, <4>2, TotalUntouched
        <4> QED  BY <1>6, <4>1, <4>3
      <3>7. e.form.count \in Ints /\ e.form.count \in Int /\ e.form.price \in Int
        BY <3>5, BoundsAssumption DEF Documents, Ints, Decimals
      <3>8. e.form.count = Wrap(e.form.count + 0) /\ e.form.price = e.form.price + 0
        BY <3>7, WrapOfInt
      <3>9. AddsUp(stream, e.form, p, here, runs)
        BY <1>7, <3>5, <3>6, <3>8 DEF AddsUp
      <3> QED  BY <3>4, <3>5, <3>9
    <2>3. CASE model[p] \in Documents /\ AddsUp(stream, model[p], p, position, runs)
      <3> DEFINE more == Change(p, e, "CountIncreased", "CountDecreased")
                 dear == Change(p, e, "PriceIncreased", "PriceDecreased")
                 count == TotalIn(stream, p, position, runs, "CountIncreased", "CountDecreased")
                 price == TotalIn(stream, p, position, runs, "PriceIncreased", "PriceDecreased")
                 form == FormIn(stream, p)
      <3>1. /\ model'[p].count = Wrap(model[p].count + more)
            /\ model'[p].price = model[p].price + dear
            /\ model'[p].price \in Decimals => model'[p] \in Documents
        BY <1>2, <1>10, <2>1, <2>3, HandledAdds
      <3>2. /\ model[p].count = Wrap(form.count + count)
            /\ model[p].price = form.price + price
        BY <2>3 DEF AddsUp
      <3>3. /\ more \in Int /\ dear \in Int /\ count \in Int /\ price \in Int
            /\ TotalIn(stream, p, here, runs, "CountIncreased", "CountDecreased") = count + more
            /\ TotalIn(stream, p, here, runs, "PriceIncreased", "PriceDecreased") = price + dear
        BY <1>6, <1>7
      <3>4. form.count \in Int /\ form.price \in Int
        <4>1. p \in Listed
          BY <2>3, NoDocumentIsNone DEF Listed
        <4>2. PICK k \in 1 .. Len(stream) : Creates(stream, p, k)
          BY <4>1, ListedAreCreated DEF Created
        <4>3. form \in Documents
          BY <1>1, <1>8, <4>2, FormIs
        <4> HIDE DEF form
        <4> QED  BY <4>3, BoundsAssumption DEF Documents, Ints, Decimals
      <3> HIDE DEF more, dear, count, price, form
      <3>5. model'[p].price = form.price + (price + dear)
        BY <3>1, <3>2, <3>3, <3>4
      <3>6. form.count + count \in Int /\ (form.count + count) + more = form.count + (count + more)
        BY <3>3, <3>4
      <3>7. Wrap(Wrap(form.count + count) + more) = Wrap((form.count + count) + more)
        BY <3>3, <3>6, WrapAgain
      <3>8. model'[p].count = Wrap(form.count + (count + more))
        BY <3>1, <3>2, <3>6, <3>7
      <3>9. AddsUp(stream, model'[p], p, here, runs)
        BY <3>3, <3>5, <3>8 DEF AddsUp, form
      <3>10. model'[p] \in Documents
        <4>1. doc # NoDocument => doc.price \in Decimals
          BY <1>3 DEF Throws
        <4>2. doc # NoDocument
          BY <1>2, <2>1, <2>3, HandledAdds
        <4> QED  BY <2>1, <3>1, <4>1, <4>2
      <3> QED  BY <3>9, <3>10
    <2> QED  BY <2>2, <2>3 DEF ReplayInv
  <1> QED  BY <1>9, <1>10

\* Appending an event of a created product, or a creation, changes no total.
LEMMA AppendReplays ==
    ASSUME ProductInv, ProductInv', ReplayInv, UNCHANGED <<model, position, runs>>,
           NEW e \in Events, stream' = Append(stream, e),
           e.type = "NewProductAdded" \/ Created(stream, e.product)
    PROVE  ReplayInv'
PROOF
  <1>1. /\ stream \in Seq(Events) /\ Len(stream) \in Nat
        /\ stream' \in Seq(Events) /\ Len(stream') = Len(stream) + 1
        /\ position \in Nat /\ position <= Len(stream)
        /\ runs \in Seq(Nat) /\ \A r \in DOMAIN runs : runs[r] \in Nat /\ runs[r] <= Len(stream)
    BY DEF ProductInv, ShapeInv
  <1>2. /\ \A k \in 1 .. Len(stream) : stream'[k] = stream[k]
        /\ stream'[Len(stream) + 1] = e
    BY <1>1
  <1>3. /\ \A p : \A k \in 1 .. Len(stream) : Creates(stream', p, k) <=> Creates(stream, p, k)
        /\ Creates(stream', e.product, Len(stream) + 1) <=> e.type = "NewProductAdded"
    BY <1>2 DEF Creates
  <1>4. Begun(stream')
    <2> SUFFICES ASSUME NEW k \in 1 .. Len(stream')
                 PROVE  \E j \in 1 .. k : Creates(stream', stream'[k].product, j)
      BY DEF Begun
    <2>1. CASE k \in 1 .. Len(stream)
      <3>1. PICK j \in 1 .. k : Creates(stream, stream[k].product, j)
        BY <2>1 DEF ReplayInv, Begun
      <3>2. j \in 1 .. Len(stream)
        BY <1>1, <2>1
      <3> QED  BY <1>2, <1>3, <2>1, <3>1, <3>2
    <2>2. CASE k = Len(stream) + 1
      <3>1. stream'[k].product = e.product /\ k \in 1 .. k
        BY <1>1, <1>2, <2>2
      <3>2. CASE e.type = "NewProductAdded"
        BY <1>3, <2>2, <3>1, <3>2
      <3>3. CASE Created(stream, e.product)
        <4>1. PICK j \in 1 .. Len(stream) : Creates(stream, e.product, j)
          BY <3>3 DEF Created
        <4>2. j \in 1 .. k
          BY <1>1, <2>2
        <4> QED  BY <1>3, <3>1, <4>1, <4>2
      <3> QED  BY <3>2, <3>3
    <2> QED  BY <1>1, <2>1, <2>2
  <1>5. Reached' = Reached /\ \A n \in Reached : n \in Nat /\ n <= Len(stream)
    BY <1>1 DEF Reached
  <1>6. ASSUME NEW p, NEW up, NEW down
        PROVE  TotalIn(stream', p, position, runs, up, down)
                 = TotalIn(stream, p, position, runs, up, down)
    <2>1. ASSUME NEW n \in Reached
          PROVE  DeltaIn(stream', p, n, up, down) = DeltaIn(stream, p, n, up, down)
      <3>1. n \in Nat /\ \A k \in 1 .. n : k \in 1 .. Len(stream)
        BY <1>1, <1>5
      <3>2. \A k \in 1 .. n : stream'[k] = stream[k]
        BY <1>2, <3>1
      <3>3. [k \in 1 .. n |-> Change(p, stream'[k], up, down)]
              = [k \in 1 .. n |-> Change(p, stream[k], up, down)]
        BY <3>2
      <3> QED  BY <3>3 DEF DeltaIn
    <2>2. position \in Reached /\ \A r \in DOMAIN runs : runs[r] \in Reached
      BY DEF Reached
    <2>3. [r \in DOMAIN runs |-> DeltaIn(stream', p, runs[r], up, down)]
            = [r \in DOMAIN runs |-> DeltaIn(stream, p, runs[r], up, down)]
      BY <2>1, <2>2
    <2> QED  BY <2>1, <2>2, <2>3 DEF TotalIn
  <1> SUFFICES ASSUME NEW p \in Products
               PROVE  \/ model[p] = NoDocument /\ Untouched(stream', p, Reached)
                      \/ model[p] \in Documents /\ AddsUp(stream', model[p], p, position, runs)
    BY <1>4, <1>5 DEF ReplayInv
  <1>7. CASE model[p] = NoDocument /\ Untouched(stream, p, Reached)
    <2> SUFFICES ASSUME NEW n \in Reached, NEW k \in 1 .. n
                 PROVE  stream'[k].product # p
      BY <1>7 DEF Untouched
    <2>1. k \in 1 .. Len(stream)
      BY <1>1, <1>5
    <2>2. stream[k].product # p
      BY <1>7 DEF Untouched
    <2> QED  BY <1>2, <2>1, <2>2
  <1>8. CASE model[p] \in Documents /\ AddsUp(stream, model[p], p, position, runs)
    <2>1. p \in Listed
      BY <1>8, NoDocumentIsNone DEF Listed
    <2>2. PICK k \in 1 .. Len(stream) : Creates(stream, p, k)
      BY <2>1, ListedAreCreated DEF Created
    <2>3. Ordered(stream) /\ Ordered(stream')
      BY DEF ProductInv, OrderInv
    <2>4. k \in 1 .. Len(stream') /\ Creates(stream', p, k)
      BY <1>1, <1>3, <2>2
    <2>5. FormIn(stream, p) = stream[k].form /\ FormIn(stream', p) = stream'[k].form
      BY <1>1, <2>2, <2>3, <2>4, FormIs
    <2>6. FormIn(stream', p) = FormIn(stream, p)
      BY <1>2, <2>5
    <2> QED  BY <1>6, <1>8, <2>6 DEF AddsUp
  <1> QED  BY <1>7, <1>8 DEF ReplayInv

LEMMA RestartReplays ==
    ASSUME ProductInv, ReplayInv, Restart
    PROVE  ReplayInv'
PROOF
  <1>1. /\ runs' = Append(runs, position) /\ position' = 0
        /\ model' = model /\ stream' = stream
    BY DEF Restart, streamVars
  <1>2. /\ stream \in Seq(Events) /\ position \in 0 .. Len(stream)
        /\ runs \in Seq(Nat) /\ \A r \in DOMAIN runs : runs[r] \in 0 .. Len(stream)
        /\ position \in Nat
    BY DEF ProductInv, ShapeInv
  <1>3. \A n \in Reached' : n = 0 \/ n \in Reached
    <2>1. \A r \in DOMAIN runs' : runs'[r] = position \/ \E q \in DOMAIN runs : runs'[r] = runs[q]
      BY <1>1, <1>2
    <2> QED  BY <1>1, <2>1 DEF Reached
  <1>4. ASSUME NEW p, Untouched(stream, p, Reached) PROVE Untouched(stream, p, Reached')
    <2> SUFFICES ASSUME NEW n \in Reached', NEW k \in 1 .. n PROVE stream[k].product # p
      BY DEF Untouched
    <2>1. n \in Reached
      BY <1>3
    <2> QED  BY <1>4, <2>1 DEF Untouched
  <1>5. \A p, up, down : up \in AmountEvents /\ down \in AmountEvents =>
          TotalIn(stream, p, 0, runs', up, down) = TotalIn(stream, p, position, runs, up, down)
    BY <1>1, <1>2, TotalRestart
  <1>6. {"CountIncreased", "CountDecreased", "PriceIncreased", "PriceDecreased"} \subseteq AmountEvents
    BY DEF AmountEvents
  <1>7. ASSUME NEW p, AddsUp(stream, model[p], p, position, runs)
        PROVE  AddsUp(stream, model[p], p, 0, runs')
    BY <1>5, <1>6, <1>7 DEF AddsUp
  <1> QED  BY <1>1, <1>4, <1>7 DEF ReplayInv

LEMMA IdleReplays ==
    ASSUME ReplayInv, UNCHANGED <<stream, model, position, runs>>
    PROVE  ReplayInv'
PROOF
  <1>1. Reached' = Reached
    BY DEF Reached
  <1> QED  BY <1>1 DEF ReplayInv

LEMMA ReplayInit == Init => ReplayInv
PROOF
  <1> SUFFICES ASSUME Init PROVE ReplayInv
    OBVIOUS
  <1>1. Reached = {0}
    BY DEF Init, Reached
  <1>2. Begun(stream)
    BY DEF Init, Begun
  <1>3. \A p : Untouched(stream, p, Reached)
    BY <1>1 DEF Untouched
  <1> QED  BY <1>2, <1>3 DEF Init, ReplayInv

LEMMA ReplayStep ==
    ASSUME ProductInv, ProductInv', ReplayInv, [Next]_vars
    PROVE  ReplayInv'
PROOF
  <1>1. CASE Handle
    BY <1>1, HandleReplays
  <1>2. CASE HandleThrows \/ Drop \/ UNCHANGED vars
    <2>1. UNCHANGED <<stream, model, position, runs>>
      BY <1>2 DEF HandleThrows, Drop, vars, streamVars, handlerVars
    <2> QED  BY <2>1, IdleReplays
  <1>3. CASE Restart
    BY <1>3, RestartReplays
  <1>4. ASSUME NEW p \in Products, NEW form \in Forms, Create(p, form)
        PROVE  ReplayInv'
    <2> DEFINE e == [type |-> "NewProductAdded", product |-> p, form |-> form]
    <2>1. /\ stream' = Append(stream, e) /\ UNCHANGED <<model, position, runs>>
          /\ e \in Events /\ e.type = "NewProductAdded"
      BY <1>4 DEF Create, AppendToStream, handlerVars, Events
    <2> HIDE DEF e
    <2> QED  BY <2>1, AppendReplays
  <1>5. ASSUME NEW p \in Products, NEW type \in AmountEvents, NEW amount \in Amounts,
               AmountUpdate(p, type, amount)
        PROVE  ReplayInv'
    <2> DEFINE e == [type |-> type, product |-> p, amount |-> amount]
    <2>1. /\ stream' = Append(stream, e) /\ UNCHANGED <<model, position, runs>>
          /\ e \in Events /\ e.product = p
      BY <1>5 DEF AmountUpdate, AppendToStream, handlerVars, Events
    <2>2. Created(stream, p)
      BY <1>5, ListedAreCreated DEF AmountUpdate
    <2> HIDE DEF e
    <2> QED  BY <2>1, <2>2, AppendReplays
  <1>6. ASSUME NEW p \in Products, NEW available \in BOOLEAN, CompareAvailability(p, available)
        PROVE  ReplayInv'
    <2>1. UNCHANGED <<stream, model, position, runs>>
      BY <1>6 DEF CompareAvailability, handlerVars
    <2> QED  BY <2>1, IdleReplays
  <1>7. ASSUME NEW p \in Products, NEW available \in BOOLEAN, AppendAvailability(p, available)
        PROVE  ReplayInv'
    <2> DEFINE e == [type |-> "AvailabilityChanged", product |-> p, available |-> available]
    <2>1. /\ stream' = Append(stream, e) /\ UNCHANGED <<model, position, runs>>
          /\ e \in Events /\ e.product = p
      BY <1>7 DEF AppendAvailability, AppendToStream, handlerVars, Events
    <2>2. Created(stream, p)
      BY <1>7 DEF AppendAvailability, ProductInv, OrderInv
    <2> HIDE DEF e
    <2> QED  BY <2>1, <2>2, AppendReplays
  <1> QED  BY <1>1, <1>2, <1>3, <1>4, <1>5, <1>6, <1>7 DEF Next

\* Every restart replays the stream on the documents the last one left: at any moment
\* count and price are those of the form and every change, as often as it was replayed.
THEOREM ReplaysAddUpAlways == Spec => []ReplaysAddUp
PROOF
  <1>1. ProductInv /\ ReplayInv => ReplaysAddUp
    BY SameTotals, NoDocumentIsNone DEF ReplayInv, AddsUp, ReplaysAddUp, Listed
  <1>2. ProductInv /\ ProductInv' /\ ReplayInv /\ [Next]_vars => ReplayInv'
    BY ReplayStep
  <1> QED  BY <1>1, <1>2, ReplayInit, ProductInvHolds, PTL DEF Spec

-----------------------------------------------------------------------------
(* Types. *)

\* The variables the other invariants leave open.
RestOK ==
    /\ subscribed \in BOOLEAN
    /\ wanted \in [Products -> BOOLEAN]
    /\ raced \subseteq Products

LEMMA RestStep == RestOK /\ [Next]_vars => RestOK'
PROOF
  <1> SUFFICES ASSUME RestOK, [Next]_vars PROVE RestOK'
    OBVIOUS
  <1> USE DEF RestOK
  <1>1. CASE Handle \/ HandleThrows \/ Drop \/ Restart \/ UNCHANGED vars
    BY <1>1 DEF Handle, HandleThrows, Drop, Restart, vars, streamVars, handlerVars
  <1>2. ASSUME NEW p \in Products, NEW form \in Forms, Create(p, form)
        PROVE  RestOK'
    <2>1. form.available \in BOOLEAN
      BY FormsAssumption DEF Documents
    <2> QED  BY <1>2, <2>1 DEF Create, handlerVars
  <1>3. ASSUME NEW p \in Products, NEW type \in AmountEvents, NEW amount \in Amounts,
               AmountUpdate(p, type, amount)
        PROVE  RestOK'
    BY <1>3 DEF AmountUpdate, handlerVars
  <1>4. ASSUME NEW p \in Products, NEW available \in BOOLEAN, CompareAvailability(p, available)
        PROVE  RestOK'
    BY <1>4 DEF CompareAvailability, Compared, handlerVars
  <1>5. ASSUME NEW p \in Products, NEW available \in BOOLEAN, AppendAvailability(p, available)
        PROVE  RestOK'
    BY <1>5 DEF AppendAvailability, handlerVars
  <1> QED  BY <1>1, <1>2, <1>3, <1>4, <1>5 DEF Next

\* Every variable has its type: however often replays add to it, a count stays an int,
\* and a price that would leave the decimals is never stored.
THEOREM TypeCorrect == Spec => []TypeOK
PROOF
  <1>1. Init => RestOK
    BY DEF Init, RestOK
  <1>2. ProductInv /\ ReplayInv /\ RestOK => TypeOK
    BY DEF ProductInv, ShapeInv, ReplayInv, RestOK, TypeOK
  <1>3. ProductInv /\ ProductInv' /\ ReplayInv /\ [Next]_vars => ReplayInv'
    BY ReplayStep
  <1> QED  BY <1>1, <1>2, <1>3, RestStep, ReplayInit, ProductInvHolds, PTL DEF Spec

===========================================================================
