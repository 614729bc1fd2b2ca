------------------------ MODULE MCFunctionExtraction ------------------------
(***************************************************************************)
(* Small syntax trees for FunctionExtraction, with the nodes that the C    *)
(* and C++ grammars of tree-sitter build: functions and methods with and   *)
(* without parameters, in and outside classes and #if, returning pointers, *)
(* with variadic parameters, two of a name, changed and unchanged.         *)
(***************************************************************************)
EXTENDS FunctionExtraction

Node(type, text, children) ==
  [type |-> type, field |-> "", text |-> text, children |-> children]

Leaf(type, text) == Node(type, text, <<>>)

As(field, node) == [node EXCEPT !.field = field]

Parameter(name) ==
  Node("parameter_declaration", name, <<As("declarator", Leaf("identifier", name))>>)

Declarator(name, list) ==
  Node("function_declarator", NULL,
       <<As("declarator", name), As("parameters", Node("parameter_list", NULL, list))>>)

Plain(name) == Leaf("identifier", name)

Member(name) == Leaf("field_identifier", name)

Qualified(name) ==
  Node("qualified_identifier", name,
       <<As("scope", Leaf("namespace_identifier", "C")), As("name", Plain(name))>>)

Pointer(declarator) ==
  Node("pointer_declarator", NULL, <<As("declarator", declarator)>>)

\* A definition's text, by the number of its declarator in Declarators and by
\* its body.
Text(k, body) == <<k, body>>

one == <<Parameter("a")>>
two == <<Parameter("a"), Parameter("b")>>
variadic == <<Parameter("a"), Leaf("variadic_parameter", "...")>>

Declarators ==
  <<Declarator(Plain("f"), one), Declarator(Plain("f"), two), Declarator(Plain("g"), <<>>),
    Declarator(Qualified("f"), one), Declarator(Member("m"), one),
    Declarator(Member("m"), <<>>), Pointer(Declarator(Plain("f"), one)),
    Declarator(Plain("g"), variadic)>>

Definition(k, body) ==
  Node("function_definition", Text(k, body),
       <<Leaf("primitive_type", "int"), As("declarator", Declarators[k]),
         As("body", Leaf("compound_statement", body))>>)

If(children) ==
  Node("preproc_if", NULL, <<As("condition", Leaf("identifier", "SOME"))>> \o children)

Else(children) == As("alternative", Node("preproc_else", NULL, children))

Class(children) ==
  Node("class_specifier", NULL,
       <<As("name", Leaf("type_identifier", "C")),
         As("body", Node("field_declaration_list", NULL, children))>>)

\* What stands in a file: a function, alone or in a #if, or a class with methods.
Items ==
  {Definition(k, body) : k \in {1, 2, 4}, body \in {"old", "new"}}
    \cup {Definition(k, "old") : k \in {3, 7, 8}}
    \cup {If(<<Definition(1, "old"), Else(<<Definition(1, "new")>>)>>),
          If(<<Definition(3, "new")>>),
          Class(<<Definition(5, "old")>>),
          Class(<<Definition(6, "old"), Definition(5, "new")>>),
          Leaf("declaration", NULL)}

File(items) == Node("translation_unit", NULL, items)

MCTrees ==
  {File(<<>>)} \cup {File(<<x>>) : x \in Items} \cup {File(<<x, y>>) : x, y \in Items}

MCNames == {"f", "g", "m", "a", "b"}

MCContents == {Text(k, body) : k \in DOMAIN Declarators, body \in {"old", "new"}}
=============================================================================
