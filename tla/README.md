# elr: a verification project for the parser generator

elr reads one grammar file that describes both the tokens and the syntax of a language and writes
a C program: a DFA lexer, an LALR(1) parser and a run-time system that drives both over a string
stack.  The generator is a sequential pipeline (`src/main.cc` 147-232), its run-time system is
sequential too; what is hard here is not concurrency but *algorithms over graphs and sets whose
steps interact*: worklists that grow while they are walked, a digraph traversal that closes two
relations in place, sets of pointers walked in address order, conflict resolution that deletes and
replaces edges other passes still use, and a run-time with one stack grown at one place and pushed
at several.

## 1. Inventory

| component | source | state it keeps | operations | what makes it correct |
|---|---|---|---|---|
| scanner of the input | `lex.cc` | position, `yyStart`, `inDirective` | `yylex` | a word is a keyword only where a directive expects one |
| parser of the input | `parser.y`, `parser.cc` | `lhs`, `prec`, `assoc`, the semantic values | the actions of the productions | every declaration reaches the symbol it names, in whatever order they come |
| grammar | `grammar.cc`, `grammar2.cc` | symbols, rules, three tables of names, `isNullable`, `minLength`, `first` | lookups, `makeNonterminal`, `makeLexicalSymbol`, `finalize` (forward references, reachability, `augment`, symbol ids, `computeNullable`, `computeMinRuleLengths`), `computeFirst` | the grammar is the one the file describes; a symbol is nullable iff it derives the empty string; FIRST2 is the least fixpoint |
| string sets | `stringset2.cc` | first, `second[]`, `isFull`, `isEmpty` | add, addMax, append, first, follows | the flags agree with the contents; append concatenates up to length 2 |
| LR(0) automaton | `lr.cc` 76-262 | `states`, `stateHash`, `edges`, `pred`, `accessSym` | `constructPDA`, `closure`, `shift` | a state holds the items valid for the prefixes that lead to it; its assertion |
| LALR(1) sets | `lalr.cc` 28-212, 368-398 | `read`, `N`, recursion stack, `lookahead` | `digraph`, `traverse`, `reads`, `includes`, `computeLookahead` | lookaheads are those of the merged LR(1) automaton; its two assertions |
| conflict resolution | `lalr.cc` 214-365 | `edges`, `accepts`, `conflicts`, lookaheads | `resolveState`, `reportConflict` | the table does not depend on the order of a set of pointers; precedence decides; its assertion |
| LALR(k) sets | `lalrk.cc` | `followsk`, `follows[k]` memo | `computeLALRkSets`, `lalrk`, `lalrksub`, `firstk` | the k-lookahead after every edge; its assertion |
| follow sets | `lr.cc` 216-240 | `accepts`, `follows` | `computeFollowSets` | a state accepts exactly the terminals it has an edge on |
| NFA, DFA | `nfa.cc`, `dfa.cc`, `equiv.cc` | states, transitions, classes of characters | regular expression parser, subset construction, `minimize` | the DFA accepts what the expressions describe |
| lexical conflicts | `dfa2.cc`, `conflict.cc` | conflict map, start states per parser state | `checkConflicts`, `resolveConflicts`, `copyStartState(Min)` | in every parser state the lexer prefers a token the parser accepts |
| comb vectors | `combvect.cc` | `nextCheck`, `base`, `def` | `fromSource` | a compressed lookup gives the entry of the row |
| code generation | `codegen.cc`, `c_codegen.cc` | types, `isResultUsed` of symbols and of places in rules, `seen` | `computeTypes`, `computeSymbolUses`, action rewriting, skeleton substitution | it knows whose value is used, and its type; a rule without action passes its first value on |
| run-time parser | `skel/skel.c` | parser stack with values, string stack | shift, reduce, error recovery | never past the end of a stack; text and value of a symbol are its own; the parser stops |
| run-time scanner | `skel/skel.c` | token buffer, lines and columns, file stack | longest match, `yyfFill`, `yyfRelease`, `yyfPushFile` | tokens are the longest matches of what was read, however it was delivered |

The components interact by shared data, never by messages.  `constructPDA` leaves states whose
`pred` sets `includes` and `computeLookahead` walk backwards; `computeNullable` decides the `reads`
and, through `minLength`, the `includes` relation; the two traversals share the `read` set and the
`N` counter of each nonterminal edge; `resolveState` consumes lookaheads and rewrites the edges that
`computeLALRkSets`, `computeFollowSets` and the comb vectors read afterwards; the follow sets decide
lexical conflicts.  In the generated program the parser's state chooses the state its scanner starts
in, and the scanner moves the text the parser is to save.

### Behaviours that are hard here

* **Growing worklists.** `constructPDA` walks a vector it appends to and splices reductions into
  chains at the place the walk has reached; `fromNFA` does the same with DFA states.
* **Recursion that merges half-finished values.** `LRTable::traverse` and `DFA::traverse` (Tarjan's
  algorithm with sets), `nullify`, `computePredSetsSub`: an inner call changes what the outer loop
  still reads.  Three of them carry a remark of the author asking for a proof
  (`grammar2.cc:183`, `dfa.cc:167`, `dfa2.cc:43`).
* **Sets of pointers.** `set<LREdge *>` is walked in address order, so the order of neighbours and
  of conflicts is whatever the heap makes it: everything that follows must not depend on it.
* **Data two passes read in different ways.** `edges[i] == NULL` is "free" and "error by
  %nonassoc"; `N` belongs to two traversals; `accepts` is not kept up to date; `isFull` is decided
  once; `minLength` is a counter first and a position later.
* **Walks that collect while they decide.** `computeTypes` turns back at symbols it has seen, and finds
  out on the way whose value is used; flags of the scanner of the input stay set between tokens; a
  name may be used long before it is defined.
* **A buffer that moves.** `yyfFill` shifts and reallocates the text in which a token is being matched.
* **In-place rewriting.** Equivalence classes are split while they are walked; the minimized table
  is packed into the one it is read from.
* **Two stacks beside each other.** The run-time keeps states on one stack and token texts on
  another; reductions and error recovery must pop both consistently, and one is grown once a token.

There are no threads, messages, timeouts or persisted data, so no property is about them.

## 2. Plan

In this order, the most important behaviour first; a tick is what this stage holds.

1. [x] `Grammar`, `LRTable`: the LR(0) automaton, with proofs of its types and its assertion.
2. [x] `Components` (abstract), `Digraph` (implements it), `Lalr`: the lookaheads.
3. [x] `Nullable`: computeNullable, with the proof its comment asks for.
4. [x] `ResolveState`: conflicts of one state, with the proof of its assertion.
5. [x] `SkelParser`: the generated parser.
6. [x] `StringSet2`, `StringSetCalls`, `First`: FIRST2 over string sets, with proofs.
7. [x] `EquivClasses`, `Nfa`, `Regexp`, `PredSets`, `Dfa`, `LexConflicts`, `Lexer`: the lexer
   generator from the expressions to the packed table, with proofs from the classes of characters on.
8. [x] `LalrK`: `lalrk.cc` with its recursion and its memo, against the 2-lookahead by definition.
9. [x] `ParserTables`: the pipeline of `main()` from `computeFirst` to the comb vector, composed of
   `First`, `LRTable`, `Lalr` and `LalrK`, with `computeFollowSets`, the reduce arrays and `getRow`;
   the finished table is run on every short input.  Still to do: `LexConflicts` on their states and
   follow sets, which are inputs today.
10. [x] `SkelLexer`, and `Runtime`, which composes it with `SkelParser`: the loop over characters with
    its longest match, `yyfFill`, buffers of a caller, the values of symbols.
11. [x] `InputLexer`, `GrammarFile`, `FrontEnd`: from the text of a grammar file to the numbered grammar;
    `GrammarText`, what a file means, told without the program; `Attributes`: the types and uses the
    code generator computes before it writes.
12. [x] Proofs: the automaton and the assertions about it; `Digraph` implements `Components`; the
    tables of `ResolveState`; stacks, values, buffer and longest match of the generated program.
13. [x] Proofs of the lexer generator: `EquivClasses` through every operation, the table against the
    language, the copies against the whole automaton, the minimized classes, the packing.

New properties join the run of the component they belong to and replace shallower ones, so that
the number of runs stays small.

## 3. The modules and the code

A symbol is its `symbolId`, a rule its `ruleId`, a state its index; pointers to those become the
numbers.  A loop is an action per iteration where another part could see the state in between, a
recursion is a sequence of activations, each with what its loop has still to visit.  A set of
pointers is a set whose elements are taken in any order.

| module | code | correspondence |
|---|---|---|
| `Grammar` | `grammar.h`, `grammar2.cc` | the grammar `finalize()` leaves; the nullable symbols by definition, for the references only |
| `LRTable` | `lr.cc` 76-210 | `states`, `edges` and `pred` as sequences; one action per symbol shifted from a state, with closure, look-up, new state and the linking of reductions |
| `Components` | -- | abstract: strongly connected components are finished whole, with the union of all they reach |
| `Digraph` | `lalr.cc` 34-70, `dfa.cc` 170-209 | `digraph`, `traverse`; actions for entering a node, going down, merging, returning |
| `Lalr` | `lalr.cc` 77-212, 368-398, `grammar2.cc` 186-213, 302-317 | the steps of `Nullable` and `computeMinRuleLengths`, whose marks the relations read; `computeLALRSets`: `LRTable`'s automaton, then `Digraph` twice over shared `read` and `N`, then lookaheads by state |
| `LalrK` | `lalrk.cc` | `computeLALRkSets`: item by item, the recursion of `lalrksub` as activations that share `result` and `done`, the memo `follows[k]`, the sets of items and edges.  `mixed` and `misused` are history: which remembered sets hold strings of a caller, and whether one was used |
| `ParserTables` | `grammar2.cc` 36-58, `main.cc` 166-176, `lr.cc` 93-104, 216-262, `lalr.cc` 214-365, `combvect.cc`, `codegen.h` 36-42 | an action for a step of each pass, in the order of `main()`, on one grammar, from the marks of `finalize()` on; `resolveState` without precedences by its result (`ResolveState` has its steps); `Turn` is the parser loop on the finished comb vector, without recovery and attributes (`SkelParser` has them) |
| `Nullable` | `grammar2.cc` 186-213, 292-300 | `computeNullable`, `nullify` with its recursion and its counters |
| `ResolveState` | `lalr.cc` 214-326 | one state: reductions of the chain one by one, then the set of conflicts in any order |
| `StringSet2`, `StringSetCalls` | `stringset2.cc` | the operations as operators on records with the flags; any sequence of calls on several objects |
| `First` | `grammar2.cc` 224-285 | after `Nullable`, the two tables `computeFirst` alternates between |
| `EquivClasses` | `equiv.cc` | the linked lists as sequences of next and previous elements; each operation an operator |
| `Nfa`, `Regexp` | `nfa.cc` | states with one set of characters and empty moves; the parser of expressions as it reads them |
| `PredSets` | `dfa.cc` 211-232 | `computePredSetsSub` with its recursion |
| `Dfa` | `dfa.cc` 63-93, 170-185, `nfa.cc` 306-351 | the passes up to the predecessor sets, `ConstructMove` per state and class |
| `LexConflicts` | `dfa2.cc`, `conflict.cc` | both loops of `checkConflicts`, the conflict map, the copies of the automaton per parser state; `copyStartState`, which has no caller, is what they are compared with |
| `Lexer` | `dfa.cc` 104-164 | the classes of states, the sweeps, packing in place |
| `SkelParser` | `skel/skel.c` 103-180, 236-250, 331-402, `c_codegen.cc` 134-189 | the parser loop with both stacks and error recovery; the lexer is a token and the length of the text it saved.  Past an overflow the model goes on as if the stack were longer; `emptied` and `unchecked` are history: whether an empty rule was reduced, and since the stack was last found to fit.  A value is the place its token has in the input, or the values below it; a table says which tokens have values and which rules an action |
| `SkelLexer` | `skel/skel.c` 236-330, 405-478 | the buffer as a function of the indices of the code; an action per character, `yyfFill` inside it; `read()` delivers what it likes.  A character the table has no index for (`high`) ends the run in the outcome "undefined" |
| `Runtime` | `skel/skel.c` | `SkelParser` EXTENDed with `SkelLexer`: the parser's state is the scanner's start, the token scanned is the parser's |
| `InputLexer` | `lex.cc` | `yylex`, a file being a sequence of words, numbers and single characters; both flags |
| `GrammarFile` | `parser.y`, `parser.cc` 1112-1304, `grammar.cc` | the actions, each with the productions reduced before it; objects are places of a heap, so that a symbol under two names stays one |
| `FrontEnd` | `grammar2.cc` 36-179, 306-317 | `finalize`, then `Nullable` and `First` on the grammar it numbers |
| `GrammarText` | -- | reference: declarations, the file that writes them down, and the grammar, precedences, types, actions and uses they stand for |
| `Attributes` | `codegen.cc` 346-356, 414-522 | `computeTypes` with its recursion and its memo `seen`; the uses it marks on the way; how the generator ends |
| `Samples` | `test/*.elr` | grammars |

`MC*` modules give the constants; `*_proofs` modules hold theorems.  A definition whose name begins
with `Mut`, or whose comment begins "mutant", is a changed form of the one after it and is used by
no specification: it records which mistake each property notices.

## 4. The runs

| run | module | asks | inputs and bounds |
|---|---|---|---|
| `digraph_traversal` | `MCDigraph` | does the traversal implement `Components`, and end | all relations with at most five edges on four nodes, neighbours in every order |
| `parser_tables` | `MCParserTables` | is the automaton that of the viable prefixes, are its assertions kept, are the lookaheads LALR(1) for the marks of `computeNullable` and never too few, are the LALR(2) strings real, does the table parse its language, does the generator end | eleven samples, 378 grammars over one token, 196 over two |
| `front_end` | `MCFrontEnd` | is the grammar read the one written, is no nullable symbol missed, is FIRST2 exact up to the defects below, is the use of every value known when code is written, does all end | below |
| `resolve_state` | `MCResolveState` | is the table one function of the state, are the assertions kept, is no conflict silent | all states with one to three reductions, two terminals, two precedence levels |
| `runtime` | `MCRuntime` | are tokens the longest matches wherever reads end, are text and value of a symbol its own, does the stack hold all that is pushed, until an empty rule is reduced; does the program accept its language and end | five parsers with scanners, two of them with empty rules, all texts of up to six characters read in pieces of one or two, up to four in a caller's buffer |
| `string_sets` | `MCStringSet` | do calls lose strings, are `first()` and the flags right | seven calls on two objects over two tokens |
| `lexer` | `MCLexer` | does each step from expressions to packed table keep the language, the tokens parsers want and the token of every string; does it end | below |

Five runs are expected to find a violation; they show the findings of section 7: `runtime_recovery_ends`,
`runtime_empty_rules` and `runtime_values` on one parser each, `lookahead_sets_exact` on one grammar, in whose last
state each part of the property is false, `resolve_lalrk_assertion` on the states of `resolve_state`.

**Why the bounds are enough.**
* *Digraph:* four nodes hold two components of two nodes, one of three with a tail, self loops and
  shared successors; five edges close a cycle of four and leave a chord.  Elements are the nodes
  themselves: the initial set of a node is itself, so a lost or foreign contribution shows.
* *Grammars:* the samples separate LR(0), SLR(1), LALR(1) and LR(1), have cycles of `reads` and of
  `includes`, and two of them are ones `computeNullable` marks too much of; the small grammars are all of their size that `checkReachability` leaves as they are,
  cyclic and ambiguous ones among them.  `PrefixBound` 4 compares the states with the items of all
  prefixes of up to four symbols; `PropagationBound` 40 is checked (`Propagated.new = {}`), as is
  `RoundBound` 12 (`ASSUME Reference`, and `Derivations(derived) = derived`).  Inputs of up to
  `SentenceBound` 4 tokens derive through every rule; `Fuel` 30 is more turns than a parse of them
  takes where the table is without conflicts.  `PastEnd` 0: what is read past the end of a rule
  names no symbol.
* *ResolveState:* three reductions make a conflict with two others and an order among conflicts;
  one terminal more only repeats the columns.
* *Run-time:* with `StackLen` 2 the stack is doubled several times; six tokens reach past an error
  in the middle of two statements and its recovery; `MemoryBound` 24 is above what six tokens of
  text fill, so it cuts nothing.  `DefaultBufferLen` 2 and `MinBufferFill` 1 make `yyfFill` move and
  double the buffer inside tokens of three characters, also where the scanner must backtrack over
  the move; `PositionBound` 8 is beyond every text, only "$" scanned again gets there.
* *Front end:* every sequence of up to `NumDecls` = 3 of twelve declarations: a name is used before,
  after and without its definition, a text as a string and as a token, a precedence before and
  after its symbol, types agree and differ, the start symbol is declared and not, a directive leaves the scanner's flag to what follows it.  Six more
  descriptions, those of `test/attr1.elr` to `attr4.elr` among them, pass values through rules without
  action; fourteen files are written by hand for what descriptions do not say.  The numbered
  grammars of the table runs enter behind `finalize`.  The outcome of all files was compared with
  that of the program; they agree except where other passes stop it first (conflicts, and the defects of section 7).
* *String sets:* two objects and two tokens make an argument equal to, or different from, the
  object; the theorems cover any number of calls, tokens and objects.
* *Lexer:* three characters, strings up to length 3, every expression of one or two operators and
  several with three, printed with the parentheses they need and compared with what they denote,
  `FirstGroup` aside; one with a loop that is entered from two sides; all 64 triples of four
  overlapping expressions, with two parser states that want any subsets of three tokens in which at
  most one token is wanted by neither; white space; and lexers generated with the disambiguation by parser states switched off.

**Fairness.**  `WF_vars(Next)` and nothing more: the programs are sequential and run on by
themselves, and no action is preferred to another.  Files and inputs are finite, which the set `Files`,
`TextBound` and `InputBound` state; `read()` delivers something or the end.

**Deadlock** is not checked: the generator's passes and the parser end.

Beyond what the names say:
* `LookaheadsFollowMarks` compares with propagation of LR(1) items over the LR(0) states, a different
  algorithm: equal if everything marked could vanish, and no LALR(1) lookahead is missing.  That they are exact,
  `LookaheadsAreLALR1`, is false where `computeNullable` marks too much (finding 6), which `LookaheadSetsAreExact` shows together with
  the other ways in which what is looked ahead for is not exact.  `AutomatonIsValid` compares the states with the items valid for each prefix.
* `TableParsesLanguage` joins all passes but those for the lexer: whatever the conflicts, the table
  accepts sentences only, and all of them if no conflict was reported.
* `AcceptsAreEdges`: what a state tells the lexer it accepts (`computeFollowSets`, which walks a chain
  but tests its head) is what the comb vector has an entry for.  The state that accepts the whole
  input is excepted: it has entries for everything, and is told of nothing.
* `FollowsAreReal`: where FIRST2 is right the LALR(2) sets name no token and no string that cannot follow, unless
  a remembered set that began with a caller's strings was used (`misused`); what happens then is
  finding 8 (`FollowsSound`), the opposite inclusion (`FollowsComplete`) finding 4.
* `TablesTypeOK` contains that what `getRow` writes fits the row buffer of `combvect.cc:42` but for one entry, and when
  that one does not (section 7).
* `TableIsDetermined` states the table without an order: which reductions settle their conflicts,
  which shifts stand, and that any other entry is that of the first rule that wants it.
  It excepts a single reduction without any lookahead, which is done on everything.
* `ResultsAreExact` gives FIRST2 the conditions under which the code has it right: no set marked
  full by mistake, and for the other direction right nullable marks and no set empty at first; without
  them it is false (findings 9, 10).  The marks themselves are exact but on `OverMarkedGrammars`.
* `DfaAcceptsLanguage` compares the DFA with the languages of the expression trees,
  `ClassesAreCoarsest` the character classes with the definition of equivalence,
  `ClassesAreEquivalence` the minimized classes with Myhill-Nerode,
  `CopyIsExact` the partly shared automaton of a parser state with the whole copy.
* `GrammarIsWritten` compares symbols, rules, precedences, types, case and the actions of every place
  with those of the description, for every order of the declarations, and how a file with an error
  ends.  Actions before a rule, and between its symbols, are read but never written by the
  generator.
* `AttributesAgree`: at the end of the walk the used places and symbols are those that some action
  names, or that a rule without action passes on to one, whatever was `seen` when; and when files
  are written, every value used has a type and chains keep declared types.
* `TokensAreMunches` compares every token with the longest match in what was read, `BufferHoldsText` the
  bytes of the buffer with it; `RunEnds` and `ParsesLanguage` speak of the composed program.
* `ValuesAreOwn`: the value on the stack of a token or of a rule with action is its own, not what
  `yylsynattr` or `yypsynattr` held before, until an empty rule is reduced, which has no symbol to take one from; `ChainsKeepValues` asks it of rules without action (finding 5).
* `TextLossNeedsEmptyRule`, `OverflowNeedsEmptyRule`: texts are lost only once an empty rule was reduced, and the stack
  is past its end only behind such a reduction and before the next token that finds it within its length.  With empty
  rules `TextIntact` and `StackFits` are false (`StacksHold`, findings 3, 7); what they say of all other steps is in these two.
* `GrammarIsWritten` has the outcome "undefined" for files that make the code use what it deleted or a null pointer:
  it shows where that begins, and nothing about what follows.  Its reference has one defect of the code for what is
  expected: a parse error where "on" is declared behind "%expect 0;" (`Misread`).
* `WantedTokenFound` is what context-dependent lexing promises: a string that is exactly one wanted
  token is recognised as that token, through every copy and deleted move.

## 5. What is proved

Each theorem holds for every value of the constants, under the named assumptions of the module.

* **`LRTable_proofs`** -- of the automaton: `TypeCorrect`; `AccessSymAssertion`, the assertion
  `lr.cc:158`; `PredIsTheConverse`; `BacktrackingFollowsItems`.  The inductive invariant adds that all
  items of a state other than the first have the state's access symbol before their position (so an
  item set says by which symbol it was reached), that edges the loop has not come to are null, and
  that edges are shifts.  `IsGrammar` of the constant is the only assumption of these.
  `AutomatonOfViablePrefixes` (`LookaheadsOfThatAutomaton` in `LalrSpec`): the finished automaton reads the
  viable prefixes, and each state holds the items valid after the words that lead to it, for every
  `PrefixBound` in `Nat`.  Both sides of `StatesHoldValidItems` are sets that grow by steps
  (`GrowthExists`); `GrowthCompletes` says how many are enough: what is expected after the beginnings of one
  word (`Along`) has at most `(k + 1) * numSymbols` members and depends on these only, so it is complete after
  as many steps (`ExpectedIs`).  Then each side is the least set of its kind, and is inside the other because
  the other is of its kind too: `closure()` adds valid items only, since the symbols expected after a word are
  closed under left corners (`ClosureIsValid`), a shift makes them valid after one symbol more
  (`ShiftIsValid`), and from the state where a rule begins an edge is there for every symbol of it
  (`RuleIsRead`).
  Of the lookaheads: `IncludesNeverFails`, both assertions of `includes()` (`lalr.cc:119`, 139), which
  walks a rule's symbols back over `pred` and expects an edge on its nonterminal at the other end.
  The invariant needs two facts more: an edge exists on every symbol behind a position once
  the loop is past the state, and where an item is in the middle of its rule, some state backwards has the
  rule's beginning because something there wanted its nonterminal.  Induction over the places of a rule is
  by a least counterexample in a well-founded order (`LeastNat`), which also gives the
  function of the states walked through.
  `LookaheadsExact`: the lookaheads are those of propagation along everything that is marked;
  `LookaheadsOfRightMarks`: the LALR(1) lookaheads, where nothing is marked that cannot vanish; and `LookaheadsMissNothing`:
  none is missing, whatever the grammar and however much is marked.  The marks are those of `computeNullable`: until they are
  set the invariant is that of `Nullable_proofs` (`MInv`), from then on that they hold every nullable nonterminal.  The invariant `LInv` says which relation each phase of `computeLALRSets` traverses and from which
  sets; both traversals are instances of `Digraph`, so its invariant gives what each ends with: everything that is reached
  over "reads", then over "includes".  The reference propagates triples of a state, an item and a token; they are
  the least set of their kind (`AllTriples`).  None is missing since the triples that the read and follow sets account
  for (`Followed`) are such a set: behind an item are marked symbols and then one that begins with the token, and the walk
  along them (`WalkNullable`) is one along "reads" (`FirstIsRead`), or, if all vanish, along "includes".  None is too many
  since a token read or followed is carried back to a triple of the state where the rule began, which is there
  because each state holds a triple for each of its items (`StatesHaveTriples`, by induction on the number of
  the state).
  - That direction asks `CanBegin` of the grammar: every nonterminal can begin with a token or vanish.  Nothing in the code
    sees to it (`checkReachability` looks from the other end only), and without it an item whose next symbols
    derive nothing passes no token on.  The reference itself must be complete within
    `PropagationBound` (any number).  TLC evaluates both for every grammar of `parser_tables`.

  Of the generator as a whole (`ParserTables`): `TablesImplementLalr`, each of its steps is one of `LalrSpec` or a
  stutter, so all of this holds of it (`TablesLookaheads`, `TablesAutomaton`).  Its invariant `EInv` adds that the entries
  of a state left behind are those its lookaheads ask for.  `AcceptedHaveEntries` follows since a reduction other than the last
  has something to look ahead for (`FollowedBySomething`, from `StatesHaveTriples`, so it asks `CanBegin` too), and the head of
  a chain is one of its reductions (`HeadIsReduction`).  `RowsHoldColumns`, the part of `TablesTypeOK` about the row buffer:
  of a grammar that `checkReachability` leaves (`IsReachable`), a state is entered on every symbol but "error" and
  #START# (`SymbolsAreEntered`), which makes as many states as columns; there is no place for the one entry more that
  `getRow` writes only if "error" enters none and every other symbol one (`NothingToSpare`).
* **`Digraph_proofs`** (a module with the set of nodes as a parameter, which `LRTable_proofs` instantiates) --
  `ImplementsComponents`: on any finite set of nodes and any relation the
  traversal takes the steps of `Components`; `DigraphResult`: when it returns, the set of every node is
  the union of the initial sets of all it reaches (the theorem of DeRemer and Pennello on which
  LALR(1) lookaheads and `DFA::traverse` rest); `TypeCorrect`.  The invariant cuts the stack into one
  segment for each activation; its node reaches everything above and is reached from all of its own
  segment; edges never lead into a later segment but for the neighbours still to be visited; and every
  neighbour done is accounted for in the `N` and the set of its activation's node, or of the call that has just returned.
* **`Nullable_proofs`** -- `CoversAll`: computeNullable marks every nullable nonterminal, "TODO:
  need to prove that this procedure covers all cases" (`grammar2.cc:183`).  A count never exceeds the number of
  symbols of the rule that are not marked or still pending in some activation (`NothingLost`), and
  a rule whose count is 0 or less has its nonterminal marked or is an empty rule ahead of the outer
  loop.  At the end nothing is pending, so the marks are closed under the rules.  The other
  direction is false; see section 7.
* **`ResolveState_proofs`** -- `TypeCorrect`, `AssertionHolds` (`lalr.cc:253`), `OnlyShiftsDeleted`: a
  reduction already installed overlaps no reduction still to come, and every other taken entry is a
  shift in `accepts`.  `TableCorrect`: whatever the order of the set of conflicts, the table is the one
  `TableIsDetermined` describes.  The invariant says of a reduction the walk over the chain has yet to
  come to that its entries are untouched, of one behind it that its entries are settled or wait
  for the last resort, and of every settled entry that it is the least rule's that wants it.
  `ReportsComplete`: no reduction loses an entry in the last resort without a report; it counts the
  conflicts still in the set.
* **`Runtime_proofs`** -- of the generated program, for any tables.  Each theorem about the parser is stated for
  `SkelParser` by itself, whatever tokens come, and for the parser with its scanner (`RunSpec`).  `PathCorrect`: the states on the stack are a path of the table and each reduction finds its
  rule's symbols on it.  `StackNeverOverflows`, `TextsKept`, `ValuesCorrect`: entries stay within the stack, and
  texts and values of the symbols on it are their own, until an empty rule is reduced; entries do again from the
  first token on that finds the stack within its length.  `BufferCorrect`: through every move and growth of the
  buffer it holds the unread text at the right place, and the NUL behind a token fits.
  `MunchesCorrect`: every token is the longest match, and its line and column are those of the text.
  The invariant says that the scanner's state is where the piece scanned so far leads, that the last
  piece accepted is the longest of its beginnings that is a lexeme, and that nothing skipped can begin
  one; that once the file's buffer is freed only "$" is scanned; and that lines and columns, counted
  in a buffer that moves, are those of the text.
  - Assumed of a table: `IsItemTable`, that its states come with items as the automaton's do, which is
    what `LRTable_proofs` shows of them (`PredHoldsOrigin`, `BacktrackingFollowsItems`); `IsAcceptTable`,
    that "$" is in the start rule only (`grammar2.cc:147`); `IsScanner`, that "$" is matched by the end of
    the input alone, every start state can go on with it and nothing follows it (`nfa.cc:60`,
    `grammar2.cc:150`); `HasLexemes`, that the texts a scanner state accepts are those its
    moves spell, one character at a time.
    TLC evaluates them on every table of the runs.
  - None of them asks that a parser is without empty rules.  The history variables `emptied` and `unchecked` say
    when the reduction of one has made a promise void (findings 3 and 7); `RoomForToken`, that the test of `skel.c:243` is
    enough for one token and whatever is reduced after it, is the invariant at all other times.
  - `MemoryBound` bounds the model's string stack; it stops no step of the runs, and a program
    that reached it would have run out of memory.
* **`StringSetCalls_proofs`** -- `NoStringLost`, `FlagsCorrect`: `isEmpty` never
  hides a string, `firstsym` and `second` together hold what the calls put in, for objects that
  `addMax` was not called on.  The theorems run over sequences of calls of any length since
  `CallBound` is any number.
* **`Dfa_proofs`** -- the operators and passes of the lexer generator up to its table, for any automaton.
  `SplitClassIs`: `splitCharClass` moves elements from one linked list into a new one and leaves the
  lists a partition (`Partition`: the links of each class run through exactly its elements, in both
  directions, from the representative on).  `ClosureIs`, `EpsilonClosureIs`, `MoveIs`: a growing chain of subsets of a finite set has
  stopped after as many steps as there are elements, so the closures are the least ones.
  `PredSetsAreClosed`: while the recursion of `computePredSets` runs, a set that is not
  contained in that of a successor belongs to an activation that has this move still to come.
  The invariant `DfaInv` of the passes says: a class holds the characters no move looked at so far tells
  apart; the moves behind the loops of `fromNFA` lead to the state for the move of the set of NFA
  states, those ahead are 0; every state but the first was made for a move of an earlier one.
* **`Lexer_proofs`** -- the lexer generator as a whole; every property of the run `lexer` but
  its end is a theorem.
  - `CharacterClassesAreCoarsest`, `TableAcceptsLanguage`: from `DfaInv`, by induction along the string.
  - `LexerDecidesNothingForAll`: "This may arguably be impossible, however proving that.."
    (`dfa2.cc:43`).  Of several tokens each is wanted by some parser state, so no row has a single
    entry for all; the same for moves, since every state leads to a token (`ConflictsDropNothing` shows
    this from `TableFacts`, `TableFactsHold` shows `TableFacts` of the table constructed).
  - `CopiesAreExact`: the automaton of a parser state, most of which it shares with the others, reads every
    string as a whole copy would.  A state is shared only if no state that can be reached from it is changed, which
    is what closed predecessor sets give.
  - `WantedTokensAreFound`: from the invariant `EdgesInv`, that a deleted move led only to
    tokens the parser state does not want (`EdgeFacts`), and that the token chosen for a state is one of
    its own, a wanted one if there is one (`TokenFacts`).
  - `ClassesAreEquivalenceAlways`: in the invariant `MinInv` states in different classes are apart in
    every relation closed against tokens and moves (`Apart`), so splits are never for nothing; states in one class
    have one token; and unless something has changed in this sweep the classes looked at agree
    in their moves.  When nothing has changed all of them do.
  - `PackingKeepsTokens`: `DeadInv` says that from every state but the null state a token is reached, in the
    copies too (a deleted move is one of a state that has a token itself).  So the null state is alone in its class,
    `sortClasses` leaves it number 0 and the start state number 1, and as a class is numbered by its least
    member, `t[k]` is made from a state that is not yet overwritten (`PackedIs`).
  - `LexerTypeOK` joins the invariants.
  - `InputsAssumption` is the only assumption on the constants.  Two facts about the automata that come out of the
    parser of expressions are hypotheses of the theorems that need them: `InputsDescribed`, that the
    automaton is in a state of a token exactly after its strings, and `TokensAhead`, that every state of it leads to a
    token.  TLC evaluates both on all inputs of `lexer` (`ASSUME` in `MCLexer`).

## 6. What is only model-checked, and what is not modelled

Liveness (all loops end, `FinishesComponents`' fairness among it) needs fairness and stays with TLC.
So do the results that need induction over derivations of whole words: FIRST2,
the LALR(2) sets and the parser's language.  That the automaton made from
an expression describes what the expression denotes is checked too (`InputsDescribed`): the parser of
expressions is recursive.  The type of the FIRST sets in `TablesTypeOK` is checked
only, since they are folds over the rules.

The types of `ResolveState`, `StringSetCalls`, `Nullable`, `LRTable` and `Digraph` are theorems and no
run repeats them.  What the front end, the code generator and the scanner of the input promise is model-checked:
their references are recursive in the data (a file, a chain of rules, a text).

### Not modelled

* *Printing, options, the text of messages and conflict reports* (only that there is one).
* *Formatting in `codegen.cc` and `c_codegen.cc`:* copying the skeleton and writing arrays; the
  numbering of rows, rules and tokens it relies on is in `ParserTables`.  Between the FIRST sets and the
  types the tables are computed, in runs of their own: `computeTypes` does not read them.
* *`yyfPushFile` and the stack of files* (`skel.c` 480-520): nothing in the generator or the skeleton calls it.
* *The stack of positions of the run-time:* it is passed to messages only.
* *`parser.cc` 1-1111, 1306-1508:* generated by bison; its actions and the productions they belong to
  are modelled.
* *Brackets, escapes and case folding in expressions:* one conversion into a set of characters.
* *`skel.cc`, `simple.c`, unit tests, build files:* an unfinished back end, a generated example, and tests.
* Files end with a newline or are one of those cut off in `HandWritten`; words after "%" are letters;
  in descriptions no name is that of a token and of a nonterminal, and `NameTaken` stops where the code
  uses what it deleted.

## 7. Findings

Shown by five runs (with the inputs in PROJECT.json):

1. `resolve_lalrk_assertion`: an entry removed by `%nonassoc` (`lalr.cc:283`) trips the assertion of
   `computeLALRkSets` (`lalrk.cc:37`).
2. `runtime_recovery_ends`: at the end of the input the generated parser can shift `error` for ever
   (`skel.c:369`).
3. `runtime_empty_rules`: reducing an empty rule resets the text stack from an entry that is not on the
   stack (`skel.c:380`); the next text is copied over one that is still needed.
4. `lookahead_sets_exact`: `lalrksub` collects with `addMax` (`lalrk.cc:100`), which takes no one-token
   strings, also in the call for k = 1, and no first token that was not there before
   (`stringset2.cc:81`).  The 2-lookahead lacks strings ("start: x b; x: a") or first tokens
   ("start: x b c; x: a").
5. `runtime_values`: a rule without action gets an empty case (`c_codegen.cc:138`), so the `default` that
   passes the value of its first symbol on (`skel.c:385`) is never reached.
6. `lookahead_sets_exact`: `computeNullable` calls `nullify` twice for some nonterminals (`grammar2.cc:205`) and then
   marks ones that are not nullable: x in "start: y x z; b: ; a: b; x: a t; y: c | c z".  The reduction y: c gets a
   lookahead that cannot follow it, and conflicts with a shift.  `Nullable_proofs` shows that no nullable one is missed.
7. `runtime_empty_rules`: the stack is grown by an equality test once a token (`skel.c:243`), and reductions of empty
   rules push more than once between two tokens: the top passes the length and is written past the end.
8. `lookahead_sets_exact`: `lalrksub` remembers for an item the set that its caller had begun (`lalrk.cc:117`), and takes
   a remembered set for the item's own (85): in "start: x x; x: a | b" the second x is said to be followed by what follows
   the first.
9. `lookahead_sets_exact`: FIRST2 lacks strings where a full set later got a short one (`stringset2.cc:72`): with
   "s: x d; x: b c | e; e: a" the string "a d" is missing for s.
10. `lookahead_sets_exact`: `append` of a set that is still empty leaves the strings as they are (`stringset2.cc:102`): with
    "s: a x b; x: y; y: c" the string "a b" is invented for s.

The small grammars are each enough for one of the findings; the grammar of the run has the shapes of all, so that its last
state (`isNullable`, `first`, `lookahead`, `itemFollows`) shows them beside each other:

    start: y x z | w w;  n: ;  m: n;  x: m b;  y: a | a z;  p: r;  r: a;  w: a p b | b;

Seen while modelling, covered by a guard, an outcome, a condition of a property, or a hazard:

* Reading: a "%start" before the definition of its symbol leaves a placeholder that is used as a
  nonterminal (outcome "undefined"); a precedence given to a name before its definition is lost;
  a rule without type for a symbol that has one compares with a null pointer (`grammar.cc:332`);
  a token whose name is a nonterminal's is reported, then deleted objects are used
  (`grammar.cc:169`).
* `inDirective` is reset by a word only, neither by the semicolon nor by the code block that ends a directive
  (`lex.cc:146`): after "%expect 0;" the name "on" of the next rule is taken for a keyword, and the file is refused.
* Types: "$$" in an action of a symbol without type dereferences a null pointer
  (`c_codegen.cc:230`, outcome "untyped"); the type found by one rule without action is asked of the first
  symbol of the next (`codegen.cc:485`), so that a literal may be given it; a type that only a later rule
  gives is reported as missing; "$$1" counts as a use of "$1".
* At the end of a caller's buffer "$" is scanned once more and the buffer is moved by a negative
  length (`skel.c:441`): the action `MoveNegative`.
* `addMax` sets `isEmpty` and `isFull` whatever it added and leaves `firstsym` stale
  (`stringset2.cc:81-84`).
* The rules of deleted nonterminals count down `refs` of symbols that may be deleted already (`grammar.cc:295`,
  `grammar2.cc:103`); nothing reads the count, and `Pruned` leaves it out.
* The scanner of the generated program indexes its table of classes with a char (`skel.c:265`), which is negative for bytes above
  127 where char is signed: the outcome "undefined" of a run (`ClassUndefined`).
* A NULL entry that means "error by %nonassoc" is filled by the next reduction (`lalr.cc:307`).
* An expression that opens with "(" is read up to the matching ")" only (`nfa.cc:121-151`):
  `DfaAcceptsLanguage` compares with what is read (`FirstGroup`), so no property catches it.
* Two tokens that no parser state wants make the status 0, which is used as a symbol's number
  (`dfa2.cc:44`); a token's number is used as the index of a class (`dfa.cc:111`); the buffer for a
  row has the length of a column (`combvect.cc:42`): the entries that are copied fit, because there
  are as many states as symbols (unless a token WHITESPACE is kept that no rule uses), but `getRow` writes one
  more (`lr.cc:95`); `memset` clears bytes, not entries
  (`lr.cc:252`).

## 8. Running it

    tlc -workers 2 -config MCParserTables.cfg MCParserTables        # any run: module and cfg of PROJECT.json
    tlapm LRTable_proofs.tla             # any module named *_proofs
