------------------------------- MODULE XMLTree --------------------------------
(***************************************************************************)
(* XML documents, and the code CodeSynthesis XSD generates for a schema:   *)
(* every complex type has a parse function of the same form, which differs *)
(* in the elements and attributes it looks for, and an operator<<.  They   *)
(* are data here (the tables Parse... of the schema modules), and the form *)
(* is written down once.                                                   *)
(*                                                                         *)
(* A text keeps the value it stands for: how a number or a string is       *)
(* spelled is left out.                                                    *)
(***************************************************************************)
EXTENDS Integers, Sequences, SequencesExt, FiniteSetsExt

\* An element with other elements in it, or with a text.
Node(name, attributes, content) ==
    [name |-> name, leaf |-> FALSE, attributes |-> attributes, content |-> content]
Leaf(name, value) == [name |-> name, leaf |-> TRUE, attributes |-> <<>>, content |-> value]

-----------------------------------------------------------------------------
(***************************************************************************)
(* Types                                                                   *)
(***************************************************************************)

Integer == Int
UnsignedLong == Nat
Double == Int \* a number is a whole one, of a unit that is small enough
OptionalOf(S) == {s \in Seq(S) : Len(s) <= 1}

Text == [kind |-> "text"]
Enumeration(values) == [kind |-> "enumeration", values |-> values]

\* The order in which the schema wants the elements, "sequence", "choice" or
\* "any", is known to the validator only.
Complex(order, elements, attributes) ==
    [kind |-> "complex", order |-> order, elements |-> elements, attributes |-> attributes]

One(name, type) == [name |-> name, occurs |-> "one", type |-> type]
Optional(name, type) == [name |-> name, occurs |-> "optional", type |-> type]
Many(name, type) == [name |-> name, occurs |-> "many", type |-> type]

Required(name, type) == [name |-> name, required |-> TRUE, type |-> type]
Default(name, value) == [name |-> name, required |-> FALSE, type |-> Text, default |-> value]

Named(table, name) == CHOOSE e \in Range(table) : e.name = name
Names(table) == {e.name : e \in Range(table)}

-----------------------------------------------------------------------------
(***************************************************************************)
(* Parsing                                                                 *)
(***************************************************************************)

Ok(value) == [ok |-> TRUE, value |-> value]
Throw(what) == [ok |-> FALSE, value |-> what]

\* The first of the results that throws.
Failures(results) == {k \in DOMAIN results : ~results[k].ok}
FirstThrown(results) == results[Min(Failures(results))]

\* Mutant: there is only one element of a name.
AcceptsOnce(type, children, k) ==
    /\ children[k].name \in Names(type.elements)
    /\ \A j \in 1 .. k - 1 : children[j].name # children[k].name

\* An element whose name is expected, and that is not there yet if there can be
\* only one.
Accepts(type, children, k) ==
    /\ children[k].name \in Names(type.elements)
    /\ \/ Named(type.elements, children[k].name).occurs = "many"
       \/ \A j \in 1 .. k - 1 : children[j].name # children[k].name

\* The loop of parse stops at the first element that is not accepted, and
\* ignores it with everything behind it.
Accepted(type, children) ==
    LET refused == {k \in DOMAIN children : ~Accepts(type, children, k)}
    IN  IF refused = {} THEN children ELSE SubSeq(children, 1, Min(refused) - 1)

\* A surplus element of a class type is created before it is refused.
Created(type, children) ==
    LET n == Len(Accepted(type, children)) + 1 IN
    IF /\ n <= Len(children)
       /\ children[n].name \in Names(type.elements)
       /\ Named(type.elements, children[n].name).type.kind # "text"
    THEN SubSeq(children, 1, n) ELSE Accepted(type, children)

Lacks(type, children) ==
    \E e \in Range(type.elements) :
        e.occurs = "one" /\ \A k \in DOMAIN children : children[k].name # e.name

RECURSIVE Parse(_, _)

\* The constructor of a type from a DOM element, and its function parse.
Parse(node, type) ==
    CASE type.kind = "text" -> Ok(node.content)
      [] type.kind = "enumeration" ->
           IF node.content \in type.values THEN Ok(node.content)
           ELSE Throw("unexpected_enumerator")
      [] type.kind = "complex" ->
           LET content == IF node.leaf THEN <<>> ELSE node.content
               created == Created(type, content)
               results == [k \in DOMAIN created |->
                             Parse(created[k], Named(type.elements, created[k].name).type)]
               children == Accepted(type, content)
               Values(name) == LET mine == SelectSeq([k \in DOMAIN children |-> k],
                                                     LAMBDA k : children[k].name = name)
                               IN  [n \in DOMAIN mine |-> results[mine[n]].value]
               attributes == node.attributes
               given == {a \in Range(type.attributes) : a.name \in DOMAIN attributes}
           IN
           IF Failures(results) # {} THEN FirstThrown(results)
           ELSE IF Lacks(type, children) THEN Throw("expected_element")
           ELSE IF \E a \in given : a.type.kind = "enumeration"
                                    /\ attributes[a.name] \notin a.type.values
                THEN Throw("unexpected_enumerator")
           ELSE IF \E a \in Range(type.attributes) \ given : a.required
                THEN Throw("expected_attribute")
           ELSE Ok([name \in Names(type.elements) \cup Names(type.attributes) |->
                      IF name \in Names(type.elements)
                      THEN IF Named(type.elements, name).occurs = "one"
                           THEN Values(name)[1] ELSE Values(name)
                      ELSE IF name \in DOMAIN attributes THEN attributes[name]
                      ELSE Named(type.attributes, name).default])

-----------------------------------------------------------------------------
(***************************************************************************)
(* Serialization                                                           *)
(***************************************************************************)

RECURSIVE Serialize(_, _, _)

\* operator<<: the elements in the order of the class, and all attributes.
Serialize(object, name, type) ==
    IF type.kind # "complex" THEN Leaf(name, object)
    ELSE Node(name,
              [a \in Names(type.attributes) |-> object[a]],
              FlattenSeq([k \in DOMAIN type.elements |->
                  LET e == type.elements[k] IN
                  IF e.occurs = "one" THEN <<Serialize(object[e.name], e.name, e.type)>>
                  ELSE [n \in DOMAIN object[e.name] |->
                          Serialize(object[e.name][n], e.name, e.type)]]))

-----------------------------------------------------------------------------
(***************************************************************************)
(* The validator of Xerces, which a document passes before it is parsed    *)
(***************************************************************************)

Occurrences(children, name) == Len(SelectSeq(children, LAMBDA c : c.name = name))

Position(elements, name) == CHOOSE k \in DOMAIN elements : elements[k].name = name

RECURSIVE Valid(_, _)

Valid(node, type) ==
    CASE type.kind = "text" -> node.leaf
      [] type.kind = "enumeration" -> node.leaf /\ node.content \in type.values
      [] type.kind = "complex" ->
           LET c == node.content IN
           /\ ~node.leaf
           /\ \A k \in DOMAIN c :
                /\ c[k].name \in Names(type.elements)
                /\ Valid(c[k], Named(type.elements, c[k].name).type)
           /\ \A e \in Range(type.elements) :
                /\ e.occurs = "one" => Occurrences(c, e.name) = 1
                /\ e.occurs = "optional" => Occurrences(c, e.name) <= 1
           /\ type.order = "choice" => Len(c) = 1
           /\ type.order = "sequence" =>
                \A k \in 1 .. Len(c) - 1 : Position(type.elements, c[k].name)
                                             <= Position(type.elements, c[k + 1].name)
           /\ DOMAIN node.attributes \subseteq Names(type.attributes)
           /\ \A a \in Range(type.attributes) :
                /\ a.required => a.name \in DOMAIN node.attributes
                /\ (a.type.kind = "enumeration" /\ a.name \in DOMAIN node.attributes) =>
                     node.attributes[a.name] \in a.type.values

=============================================================================
