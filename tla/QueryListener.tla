----------------------------- MODULE QueryListener -----------------------------
(* How the client turns a document into the query message: MyListener of         *)
(* Lab3/client/main.cpp, called by the walk over the parse tree.  The handlers   *)
(* know where they are only by qs_stack and current_argument.                    *)
(*                                                                               *)
(* The parser and the order of its calls are external: a document is a sequence  *)
(* of definitions, these have selections, and selections have arguments and more *)
(* selections; Absent is a part the document leaves out, or that the parser did  *)
(* without after a syntax error.                                                 *)
EXTENDS Integers, Sequences, FiniteSets, SequencesExt

CONSTANTS
  Documents,   \* what the parser reads
  Selections,  \* the selections in documents
  Names,       \* the names of definitions, selections and arguments, and aliases
  Values,      \* the values of selections and arguments
  Other,       \* the comparators but "EQUAL"
  Absent       \* no type, name, alias, comparator or value

Type == {"SELECT", "MODIFY", "DELETE", "INSERT"}
Maybe(S) == S \cup {Absent}

Argument == [name : Names, comparator : Maybe({"EQUAL"} \cup Other), value : Maybe(Values)]
Definition == [type : Maybe(Type), name : Maybe(Names), selections : Seq(Selections)]

ASSUME DocumentsAssumption == \A doc \in Documents : doc \in Seq(Definition)
ASSUME SelectionsAssumption ==
  \A sel \in Selections :
    sel \in [alias : Maybe(Names), name : Names, args : Seq(Argument), value : Maybe(Values),
            subs : Seq(Selections)]
ASSUME AbsentAssumption ==
  /\ Absent \notin Type /\ Absent \notin Names /\ Absent \notin Values
  /\ Absent \notin Other \cup {"EQUAL"}
ASSUME OtherAssumption == "EQUAL" \notin Other

VARIABLES
  document,    \* what is read
  walk,        \* the rules the walk is in, outermost first, each with its parts left
  type,        \* query.type
  selections,  \* the selections of query, in the order they were added
  below,       \* subselection of each of them, and at 0 selection of query: places
  stack,       \* qs_stack: places in selections, the top last; 0 is the nullptr
  argument,    \* current_argument: a place in the args of a selection; 0 is nullptr
  read         \* auxiliary: what each selection of query was made for

query == <<type, selections, below>>
vars == <<document, walk, query, stack, argument, read>>

Nowhere == [of |-> 0, at |-> 0]  \* the nullptr of current_argument

(* What add_selection, add_subselection and add_argument return; a message of    *)
(* proto3 starts with its first type and comparator.                             *)
NewSelection == [name |-> Absent, value |-> Absent, args |-> <<>>]
NewArgument == [name |-> Absent, comparator |-> "EQUAL", value |-> Absent]
--------------------------------------------------------------------------------
(* The parts of a rule of the grammar that are rules with a handler.  They come  *)
(* kind after kind, in this order in every rule.                                 *)
Kinds == <<"definition", "type", "name", "argument", "comparator", "value", "selection">>

Nothing ==
  [definition |-> <<>>, type |-> <<>>, name |-> <<>>, argument |-> <<>>, comparator |-> <<>>,
   value |-> <<>>, selection |-> <<>>]

IfThere(what) == IF what = Absent THEN <<>> ELSE <<what>>

PartsOfArgument(arg) ==
  [Nothing EXCEPT !.name = <<arg.name>>, !.comparator = IfThere(arg.comparator),
                  !.value = IfThere(arg.value)]

PartsOfSelection(sel) ==
  [Nothing EXCEPT !.name = IfThere(sel.alias) \o <<sel.name>>, !.argument = sel.args,
                  !.comparator = IF sel.value = Absent THEN <<>> ELSE <<"EQUAL">>,
                  !.value = IfThere(sel.value), !.selection = sel.subs]

PartsOfDefinition(def) ==
  [Nothing EXCEPT !.type = IfThere(def.type), !.name = IfThere(def.name),
                  !.selection = def.selections]

PartsOfDocument(doc) == [Nothing EXCEPT !.definition = doc]

Frame(rule, left) == [rule |-> rule, left |-> left]
--------------------------------------------------------------------------------
Init ==
  /\ document \in Documents
  /\ walk = <<Frame("document", PartsOfDocument(document))>>
  /\ type = "SELECT"
  /\ selections = <<>>
  /\ below = [p \in {0} |-> <<>>]
  /\ stack = <<0>>
  /\ argument = Nowhere
  /\ read = <<>>

(* The walk: ParseTreeWalker calls enter and exit depth first, left to right.    *)
Inner == Last(walk)
Given(kind) == Head(Inner.left[kind])
On(kind) ==
  /\ Inner.left[kind] # <<>>
  /\ \E k \in DOMAIN Kinds : /\ Kinds[k] = kind
                            /\ \A j \in 1 .. k - 1 : Inner.left[Kinds[j]] = <<>>

Rest(kind) == [walk EXCEPT ![Len(walk)].left[kind] = Tail(@)]
Pass(kind) == On(kind) /\ walk' = Rest(kind) /\ UNCHANGED document
Enter(kind, parts) ==
  On(kind) /\ walk' = Append(Rest(kind), Frame(kind, parts)) /\ UNCHANGED document
Exit(rule) == Inner = Frame(rule, Nothing) /\ walk' = Front(walk) /\ UNCHANGED document

Top == Last(stack)
InArgument == argument # Nowhere

(* The handlers of definitions are those of the base class, and empty. *)
EnterDefinition ==
  /\ Enter("definition", PartsOfDefinition(Given("definition")))
  /\ UNCHANGED <<query, stack, argument, read>>

ExitDefinition == Exit("definition") /\ UNCHANGED <<query, stack, argument, read>>

(* enterSelectQuery, enterRemoveQuery, enterUpdateQuery, enterInsertQuery. *)
EnterType ==
  /\ Pass("type")
  /\ type' = Given("type")
  /\ UNCHANGED <<selections, below, stack, argument, read>>

(* What add_selection and add_subselection do: the new one is the last below p. *)
AddBelow(p) ==
  LET new == Len(selections) + 1
  IN  /\ selections' = Append(selections, NewSelection)
      /\ below' = [q \in 0 .. new |-> IF q = new THEN <<>>
                                      ELSE IF q = p THEN Append(below[q], new) ELSE below[q]]
      /\ read' = Append(read, Given("selection"))

(* Mutant of EnterSelection: a subselection is not pushed. *)
EnterSelectionFlat ==
  /\ Enter("selection", PartsOfSelection(Given("selection")))
  /\ AddBelow(Top)
  /\ stack' = IF Top = 0 THEN Append(stack, Len(selections')) ELSE stack
  /\ UNCHANGED <<type, argument>>

EnterSelection ==
  /\ Enter("selection", PartsOfSelection(Given("selection")))
  /\ AddBelow(Top)
  /\ stack' = Append(stack, Len(selections'))
  /\ UNCHANGED <<type, argument>>

ExitSelection ==
  /\ Exit("selection")
  /\ stack' = Front(stack)
  /\ UNCHANGED <<query, argument, read>>

EnterArgument ==
  /\ Enter("argument", PartsOfArgument(Given("argument")))
  /\ selections' = [selections EXCEPT ![Top].args = Append(@, NewArgument)]
  /\ argument' = [of |-> Top, at |-> Len(selections'[Top].args)]
  /\ UNCHANGED <<type, below, stack, read>>

(* Mutant of ExitArgument: current_argument is not reset. *)
ExitArgumentOpen == Exit("argument") /\ UNCHANGED <<query, stack, argument, read>>

ExitArgument ==
  /\ Exit("argument")
  /\ argument' = Nowhere
  /\ UNCHANGED <<query, stack, read>>

SetArgument(field) ==
  selections' = [selections EXCEPT ![argument.of].args[argument.at][field] = Given(field)]

(* enterEqual, enterNotEqual, enterGreater, enterLess: only the first expects     *)
(* that there is no argument, in a selection that is given a value.              *)
EnterComparator ==
  /\ Pass("comparator")
  /\ IF InArgument THEN SetArgument("comparator") ELSE UNCHANGED selections
  /\ UNCHANGED <<type, below, stack, argument, read>>

(* enterIntValue, enterDoubleValue, enterBooleanValue, enterStringValue and      *)
(* enterNullValue, which leaves the value unset and the type at NONE.            *)
EnterValue ==
  /\ Pass("value")
  /\ IF InArgument THEN SetArgument("value")
     ELSE selections' = [selections EXCEPT ![Top].value = Given("value")]
  /\ UNCHANGED <<type, below, stack, argument, read>>

(* Mutant of EnterName: the name of a query goes to the selection before it. *)
EnterNameLast ==
  /\ Pass("name")
  /\ IF InArgument THEN SetArgument("name")
     ELSE LET s == IF Top = 0 THEN Len(selections) ELSE Top
          IN  selections' = IF s = 0 THEN selections ELSE [selections EXCEPT ![s].name = Given("name")]
  /\ UNCHANGED <<type, below, stack, argument, read>>

(* enterName: an alias is a name too, and so is that of the query. *)
EnterName ==
  /\ Pass("name")
  /\ IF InArgument THEN SetArgument("name")
     ELSE selections' = IF Top = 0 THEN selections
                        ELSE [selections EXCEPT ![Top].name = Given("name")]
  /\ UNCHANGED <<type, below, stack, argument, read>>

(* The walk is over; the message is sent. *)
Over == walk = <<Frame("document", Nothing)>>
Done == Over /\ UNCHANGED vars

Next ==
  \/ EnterDefinition \/ ExitDefinition \/ EnterType \/ EnterSelection \/ ExitSelection
  \/ EnterArgument \/ ExitArgument \/ EnterComparator \/ EnterValue \/ EnterName \/ Done

Spec == Init /\ [][Next]_vars
--------------------------------------------------------------------------------
TypeOK ==
  /\ type \in Type
  /\ below \in [0 .. Len(selections) -> Seq(1 .. Len(selections))]
  /\ stack # <<>> /\ ToSet(stack) \subseteq 0 .. Len(selections)
  /\ InArgument => /\ argument.of \in DOMAIN selections
                   /\ argument.at \in DOMAIN selections[argument.of].args

(* Only enterEqual, enterName and the values look at what they follow, and only  *)
(* for the argument or the query: the others take qs_stack.top() and             *)
(* current_argument as they are.  No handler in any document meets a nullptr or  *)
(* an empty stack there, as the stack is the way from the query to the selection *)
(* that is being read, the last one below each.                                  *)
NoNullPointer ==
  /\ On("argument") => Top # 0 /\ ~InArgument
  /\ On("value") => InArgument \/ Top # 0
  /\ On("comparator") /\ Given("comparator") \in Other => InArgument
  /\ Inner = Frame("selection", Nothing) => Top # 0
  /\ InArgument => argument.of = Top
  /\ stack[1] = 0
  /\ \A i \in 2 .. Len(stack) :
       below[stack[i - 1]] # <<>> /\ stack[i] = Last(below[stack[i - 1]])

(* What has been left is not written any more: a selection that is not on the    *)
(* stack, and every argument but the one that is open, whatever follows.         *)
LeftAlone ==
  [][/\ \A s \in DOMAIN selections \ ToSet(stack) :
          selections'[s] = selections[s] /\ below'[s] = below[s]
     /\ \A s \in DOMAIN selections : \A a \in DOMAIN selections[s].args :
          argument # [of |-> s, at |-> a] => selections'[s].args[a] = selections[s].args[a]]_vars

(* What a selection of a document means, but for those below it: an alias        *)
(* nothing, an argument without a comparator equality.                           *)
MeantArgument(arg) ==
  [arg EXCEPT !.comparator = IF @ = Absent THEN "EQUAL" ELSE @]
Meant(sel) ==
  [name |-> sel.name, value |-> sel.value,
   args |-> [a \in DOMAIN sel.args |-> MeantArgument(sel.args[a])]]

(* What the selections below one of the message, or of the query (0), stand for. *)
ReadBelow(p) == [i \in DOMAIN below[p] |-> read[below[p][i]]]

(* The selections of the first definitions, together. *)
Joined(defs) ==
  LET joined[n \in 0 .. Len(defs)] ==
        IF n = 0 THEN <<>> ELSE joined[n - 1] \o defs[n].selections
  IN  joined

(* The type that the first n definitions give the query: the last one of them    *)
(* that has one does.                                                            *)
TypeIs(t, n) ==
  \/ t = "SELECT" /\ \A m \in 1 .. n : document[m].type = Absent
  \/ \E m \in 1 .. n : /\ document[m].type = t
                      /\ \A l \in m + 1 .. n : document[l].type = Absent

(* The message that is sent is the document: every selection with its name,      *)
(* value, arguments and the selections below it, in their order.  Several        *)
(* definitions are one query, of the type the last one of them names.            *)
BuiltIsMeant ==
  Over =>
    /\ stack = <<0>> /\ ~InArgument
    /\ \A s \in DOMAIN selections : selections[s] = Meant(read[s]) /\ ReadBelow(s) = read[s].subs
    /\ ReadBelow(0) = Joined(document)[Len(document)]
    /\ TypeIs(type, Len(document))
================================================================================
