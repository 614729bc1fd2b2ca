------------------------- MODULE FunctionExtraction -------------------------
(***************************************************************************)
(* How src/src/tree_sitter/parser.c finds the functions in the syntax tree *)
(* of a file, and how the functions of the two versions of a file are      *)
(* found and compared (FunctionDiff).                                      *)
(*                                                                         *)
(* tree-sitter and its grammars are not under src/src/.  A node is a       *)
(* record: its type, the field it is in its parent ("" for none), its text *)
(* and its named children in order.                                        *)
(***************************************************************************)
EXTENDS FunctionDiff

CONSTANTS Trees \* the syntax trees a version of a file may have

VARIABLES
  beforeTree, \* the syntax tree of file->before, NULL for an added file
  afterTree   \* the syntax tree of file->after, NULL for a removed file

trees == <<beforeTree, afterTree>>
vars == <<diff, trees>>

ParseInit ==
  /\ beforeTree \in Trees \cup {NULL}
  /\ afterTree \in Trees \cup {NULL}
  /\ beforeTree # NULL \/ afterTree # NULL
  /\ before = <<>> /\ after = <<>>
  /\ at = "parse_before"
  /\ i = 1
  /\ affected = <<>>

\* ts_node_child_by_field_name.
ChildByField(node, field) ==
  LET found == SelectSeq(node.children, LAMBDA c : c.field = field)
  IN  IF found = <<>> THEN NULL ELSE Head(found)

\* find_identifier: the first identifier at or below a node.
RECURSIVE FindIdentifier(_)
FindIdentifier(node) ==
  IF node.type = "identifier" THEN node.text
  ELSE LET names == [k \in DOMAIN node.children |-> FindIdentifier(node.children[k])]
           found == SelectSeq(names, LAMBDA n : n # NULL)
       IN  IF found = <<>> THEN NULL ELSE Head(found)

\* get_function_name.
FunctionName(node) ==
  LET declarator == ChildByField(node, "declarator")
  IN  IF declarator = NULL THEN NULL ELSE FindIdentifier(declarator)

\* get_function_parameters_count, NULL where it returns false.
ParametersCount(node) ==
  LET declarator == ChildByField(node, "declarator")
      list == IF declarator = NULL THEN NULL ELSE ChildByField(declarator, "parameters")
  IN  IF list = NULL THEN NULL
      ELSE IF \E c \in ToSet(list.children) : c.type # "parameter_declaration" THEN NULL
      ELSE Len(list.children)

\* dataset_function_new, which copies the bytes of the node out of the version
\* it was found in.
DatasetFunction(name, parameters, node) ==
  [name |-> name, parameters |-> parameters, content |-> node.text]

\* What one function_definition gives: a function, or nothing.
Extract(node) ==
  IF ParametersCount(node) = NULL \/ FunctionName(node) = NULL THEN <<>>
  ELSE <<DatasetFunction(FunctionName(node), ParametersCount(node), node)>>

\* A mistake the properties must catch: only the outermost level is searched.
FindTopFunctions(node) ==
  FlattenSeq([k \in DOMAIN node.children |->
                IF node.children[k].type = "function_definition"
                THEN Extract(node.children[k]) ELSE <<>>])

\* parser_find_functions.
RECURSIVE FindFunctions(_)
FindFunctions(node) ==
  IF node.type = "function_definition" THEN Extract(node)
  ELSE FlattenSeq([k \in DOMAIN node.children |-> FindFunctions(node.children[k])])

\* parser_parse_file.
ParseBefore ==
  /\ at = "parse_before"
  /\ before' = IF beforeTree = NULL THEN <<>> ELSE FindFunctions(beforeTree)
  /\ at' = "parse_after"
  /\ UNCHANGED <<after, i, affected, trees>>

ParseAfter ==
  /\ at = "parse_after"
  /\ after' = IF afterTree = NULL THEN <<>> ELSE FindFunctions(afterTree)
  /\ at' = "compare_before"
  /\ UNCHANGED <<before, i, affected, trees>>

Ended == at = "done" /\ UNCHANGED vars

ParseNext ==
  \/ ParseBefore \/ ParseAfter
  \/ Compare /\ UNCHANGED trees
  \/ Ended

ParseSpec == ParseInit /\ [][ParseNext]_vars

-----------------------------------------------------------------------------
(* The functions of a file, by the rules of C and C++.                     *)

\* The function definitions of a tree, in order.
RECURSIVE Definitions(_)
Definitions(node) ==
  IF node.type = "function_definition" THEN <<node>>
  ELSE FlattenSeq([k \in DOMAIN node.children |-> Definitions(node.children[k])])

\* A declarator declares what its innermost declarator names, whether that is a
\* plain, a qualified or a member name.
RECURSIVE Declares(_)
Declares(declarator) ==
  LET inner == ChildByField(declarator, "declarator")
      name == ChildByField(declarator, "name")
  IN  CASE inner # NULL -> Declares(inner)
        [] inner = NULL /\ name # NULL -> name.text
        [] OTHER -> declarator.text

\* The parameters are those of the innermost function declarator.
RECURSIVE Parameters(_)
Parameters(declarator) ==
  LET inner == ChildByField(declarator, "declarator")
      list == ChildByField(declarator, "parameters")
  IN  IF list # NULL THEN Len(list.children) ELSE Parameters(inner)

RealFunction(definition) ==
  LET declarator == ChildByField(definition, "declarator")
  IN  [name |-> Declares(declarator), parameters |-> Parameters(declarator),
       content |-> definition.text]

RealFunctions(tree) ==
  IF tree = NULL THEN <<>>
  ELSE [k \in DOMAIN Definitions(tree) |-> RealFunction(Definitions(tree)[k])]

\* A function with a plain or qualified name and plain parameters that returns
\* no pointer and no reference: a function of C as most are.
IsPlain(definition) ==
  LET declarator == ChildByField(definition, "declarator") IN
  /\ declarator.type = "function_declarator"
  /\ ChildByField(declarator, "declarator").type \in {"identifier", "qualified_identifier"}
  /\ \A c \in ToSet(ChildByField(declarator, "parameters").children) :
       c.type = "parameter_declaration"

AllPlain(tree) ==
  tree # NULL => \A d \in ToSet(Definitions(tree)) : IsPlain(d)

-----------------------------------------------------------------------------
(* Properties.                                                             *)

\* The functions of a version made of plain definitions are all found, in their
\* order, with their names, parameters and texts, at whatever depth of #if, class
\* and namespace they are.
PlainFunctionsFound ==
  /\ at # "parse_before" /\ AllPlain(beforeTree) => before = RealFunctions(beforeTree)
  /\ at \notin {"parse_before", "parse_after"} /\ AllPlain(afterTree) =>
       after = RealFunctions(afterTree)

\* "The parser extracts functions and methods and records information such as:
\* function name" (src/README.md): every function that is recorded has the name
\* and the number of parameters of a definition with that text.
NamesAreRight ==
  at = "done" =>
    /\ ToSet(before) \subseteq ToSet(RealFunctions(beforeTree))
    /\ ToSet(after) \subseteq ToSet(RealFunctions(afterTree))
=============================================================================
