------------------------------ MODULE Parsing -------------------------------
(***************************************************************************)
(* CTestCaseCpp::doParsing and createHypergraph: for every `x->` and `x.`  *)
(* in a method the type of x is searched, the class of the method becomes  *)
(* a caller of that type, and the callers of a class make an edge with it. *)
(*                                                                         *)
(* Left out: what findsymbol and InitCalledParameter collect about         *)
(* parameters (objectrelation is dropped unread), the counts and member    *)
(* flags of the callers, the fathers of classes and the texts; no graph    *)
(* depends on them.                                                        *)
(***************************************************************************)
EXTENDS Reading, RootGraph

CONSTANTS
  NoWord,     \* the empty string
  Typedef,    \* the words "typedef" and "class"
  Class

VARIABLES
  mapForTypeDef,
  todo,           \* the uses findsymbol has still to look at, in its order
  typeofname,
  allheadfile,    \* the queue of include files of findsymbol
  donemap,        \* the include files that were ever in it
  calledrelation, \* class -> its callers
  pHyper,         \* the hypergraph
  vertices        \* the classes its vertices stand for

parseVars == <<mapForTypeDef, todo, typeofname, allheadfile, donemap, calledrelation, pHyper, vertices>>
vars == <<pc, readVars, parseVars>>

Init ==
  /\ ReadInit
  /\ mapForTypeDef = <<>> /\ todo = <<>>
  /\ typeofname = NoWord
  /\ allheadfile = <<>> /\ donemap = {}
  /\ calledrelation = <<>>
  /\ pHyper = [n |-> 0, eind |-> <<>>, w |-> <<>>] /\ vertices = <<>>

\* The order of std::map.
Sorted(S) == CHOOSE s \in SetToSeqs(S) : \A i, j \in DOMAIN s : i < j => s[i] < s[j]

-----------------------------------------------------------------------------
\* dealwithTypeDef on a text after the other: every word after the first type word
\* is another name for it, unless it is one already.  There must be a type and a
\* name; "class" before the type is skipped.
dealwithTypeDef(texts) ==
  LET all       == FlattenSeq(texts)
      defs      == Among(all, {ph \in Range(all) : Len(ph.words) > 2 /\ ph.words[1] = Typedef})
      At(ph)    == IF ph.words[2] = Class THEN 3 ELSE 2
      Names(ph) == {ph.words[k] : k \in At(ph) + 1 .. Len(ph.words)}
      First(alias) == defs[SelectInSeq(defs, LAMBDA ph : alias \in Names(ph))]
  IN  [alias \in UNION {Names(ph) : ph \in Range(defs)} |-> First(alias).words[At(First(alias))]]

\* The uses in a method that are followed by symbol.
Uses(i, class, body, symbol) ==
  LET ats == Sorted({k \in DOMAIN body : body[k].sym = symbol})
  IN  [u \in DOMAIN ats |-> [cpp |-> i, class |-> class, body |-> body, at |-> ats[u]]]

\* The order of doParsing's loops: sources, classes by name, methods, first the
\* `->` of a method, then its `.`.
AllUses ==
  LET OfMethod(i, c, body) == Uses(i, c, body, "->") \o Uses(i, c, body, ".")
      OfClass(i, c) == FlattenSeq([m \in DOMAIN head[i].cppclass[c] |->
                                     OfMethod(i, c, head[i].cppclass[c][m])])
      OfFile(i) == LET cs == Sorted(DOMAIN head[i].cppclass)
                   IN  FlattenSeq([k \in DOMAIN cs |-> OfClass(i, cs[k])])
  IN  FlattenSeq([i \in DOMAIN head |-> OfFile(i)])

\* doParsing begins: typedefs of the headers by name, then of the sources.
StartParsing ==
  /\ pc = "read" /\ AllRead
  /\ LET names == Sorted(DOMAIN hmap)
         texts == [k \in DOMAIN names |-> hmap[names[k]].globalStr]
                    \o [i \in DOMAIN head |-> head[i].globalStr]
     IN  mapForTypeDef' = dealwithTypeDef(texts)
  /\ todo' = AllUses
  /\ pc' = "symbol"
  /\ UNCHANGED <<readVars, typeofname, allheadfile, donemap, calledrelation, pHyper, vertices>>

-----------------------------------------------------------------------------
\* findtype: the word before the first occurrence of name among the first upto
\* phrases of a text, whatever that occurrence is.
findtype(text, name, upto) ==
  LET i == SelectInSubSeq(text, 1, upto, LAMBDA ph : name \in ToSet(ph.words))
      j == SelectInSeq(text[i].words, LAMBDA w : w = name)
  IN  IF i = 0 \/ j = 1 THEN NoWord ELSE text[i].words[j - 1]

\* findtype in a whole text.
TypeIn(text, name) == findtype(text, name, Len(text))

\* valuename: the word before the symbol of the use.
ValueName(use) == LET words == use.body[use.at].words
                  IN  IF words = <<>> THEN NoWord ELSE words[Len(words)]

Use == todo[1]

Known(names) == Among(names, DOMAIN hmap)

\* The definition of the class of the method, in the first of the source's own
\* include files that has one; the search stops there whether or not it says
\* anything about the variable.
TypeInClass(use) ==
  LET files == Among(head[use.cpp].headfile, {h \in DOMAIN hmap : use.class \in DOMAIN hmap[h].classdef})
  IN  IF files = <<>> THEN NoWord
      ELSE TypeIn(hmap[files[1]].classdef[use.class], ValueName(use))

\* The type findsymbol finds without the walk: in the method, in the class, at
\* the file level of the source.
NearType(use) ==
  LET places == <<findtype(use.body, ValueName(use), use.at),
                  TypeInClass(use),
                  TypeIn(head[use.cpp].globalStr, ValueName(use))>>
      found  == Among(places, Range(places) \ {NoWord})
  IN  IF found = <<>> THEN NoWord ELSE found[1]

\* An expression that does not end in a word has no variable.
NoVariable ==
  /\ pc = "symbol" /\ todo # <<>> /\ ValueName(Use) = NoWord
  /\ todo' = Tail(todo)
  /\ UNCHANGED <<pc, readVars, mapForTypeDef, typeofname, allheadfile, donemap, calledrelation, pHyper, vertices>>

\* findsymbol finds the type nearby, or queues the include files of the source.
findsymbol ==
  /\ pc = "symbol" /\ todo # <<>> /\ ValueName(Use) # NoWord
  /\ typeofname' = NearType(Use)
  /\ IF NearType(Use) # NoWord
       THEN pc' = "relate" /\ UNCHANGED <<allheadfile, donemap>>
       ELSE /\ pc' = "walk"
            /\ allheadfile' = FirstSeen(head[Use.cpp].headfile)
            /\ donemap' = Range(head[Use.cpp].headfile)
  /\ UNCHANGED <<readVars, mapForTypeDef, todo, calledrelation, pHyper, vertices>>

\* Faulty: donemap is not consulted.
FaultyNewIncludes(h) == hmap[h].headfile

\* The include files of a header that were never in the queue, each once.
NewIncludes(h) == FirstSeen(Among(hmap[h].headfile, Range(hmap[h].headfile) \ donemap))

\* Faulty: the new include files are looked at first.
FaultyEnqueue(h) == NewIncludes(h) \o Tail(allheadfile)

\* They wait behind those already queued.
Enqueue(h) == Tail(allheadfile) \o NewIncludes(h)

\* One include file is taken from the queue.  One that is not in hmap is passed over.
WalkHeader ==
  /\ pc = "walk" /\ allheadfile # <<>>
  /\ LET h == Head(allheadfile)
         t == IF h \in DOMAIN hmap THEN TypeIn(hmap[h].globalStr, ValueName(Use)) ELSE NoWord
     IN  /\ typeofname' = t
         /\ IF t # NoWord
              THEN pc' = "relate" /\ allheadfile' = Tail(allheadfile) /\ UNCHANGED donemap
              ELSE /\ pc' = pc
                   /\ IF h \in DOMAIN hmap
                        THEN /\ allheadfile' = Enqueue(h)
                             /\ donemap' = donemap \cup Range(hmap[h].headfile)
                        ELSE allheadfile' = Tail(allheadfile) /\ UNCHANGED donemap
  /\ UNCHANGED <<readVars, mapForTypeDef, todo, calledrelation, pHyper, vertices>>

\* Nothing was found.
WalkEnds ==
  /\ pc = "walk" /\ allheadfile = <<>>
  /\ pc' = "relate"
  /\ UNCHANGED <<readVars, parseVars>>

\* Faulty: a typedef is taken for a class of its own.
FaultyTrueType(t) == t

\* A typedef is followed, once.
TrueType(t) == IF t \in DOMAIN mapForTypeDef THEN mapForTypeDef[t] ELSE t

\* Faulty: a caller is listed once per call.
FaultyAddCaller(map, class, caller) ==
  [c \in DOMAIN map \cup {class} |->
     IF c # class THEN map[c] ELSE IF c \in DOMAIN map THEN Append(map[c], caller) ELSE <<caller>>]

\* A new caller goes to the end of the class's list.
AddCaller(map, class, caller) ==
  [c \in DOMAIN map \cup {class} |->
     IF c # class THEN map[c]
     ELSE IF c \notin DOMAIN map THEN <<caller>>
     ELSE IF caller \in Range(map[c]) THEN map[c] ELSE Append(map[c], caller)]

\* The type must be a class some header defines, and another one than the caller.
Relate ==
  /\ pc = "relate"
  /\ LET t == TrueType(typeofname)
     IN  calledrelation' =
           IF typeofname # NoWord /\ t # Use.class /\ \E h \in DOMAIN hmap : t \in DOMAIN hmap[h].classdef
             THEN AddCaller(calledrelation, t, Use.class) ELSE calledrelation
  /\ todo' = Tail(todo)
  /\ pc' = "symbol"
  /\ UNCHANGED <<readVars, mapForTypeDef, typeofname, allheadfile, donemap, pHyper, vertices>>

\* Faulty: a caller that is a vertex already gets another number.
FaultyVertexList(lists) == FlattenSeq(lists)

\* The classes in the order they first occur in the edges.
VertexList(lists) == FirstSeen(FlattenSeq(lists))

\* doModeling: an edge for every class that is called, by name, with its callers;
\* the classes are numbered as they come up (from 1 in classtonum, from 0 in eind).
createHypergraph ==
  /\ pc = "symbol" /\ todo = <<>>
  /\ LET called == Sorted(DOMAIN calledrelation)
         lists  == [e \in DOMAIN called |-> <<called[e]>> \o calledrelation[called[e]]]
         names  == VertexList(lists)
         Number(c) == SelectInSeq(names, LAMBDA d : d = c) - 1
     IN  /\ vertices' = names
         /\ pHyper' = [n    |-> Len(names),
                       eind |-> [e \in DOMAIN lists |-> [j \in DOMAIN lists[e] |-> Number(lists[e][j])]],
                       w    |-> [e \in DOMAIN lists |-> 1]]
  /\ pc' = "modelled"
  /\ UNCHANGED <<readVars, mapForTypeDef, todo, typeofname, allheadfile, donemap, calledrelation>>

\* doHmetis goes on (module SplitTree), or the process has ended.
Over == pc \in {"modelled", "exit", "crash"} /\ UNCHANGED vars

Next ==
  \/ ReadNext /\ UNCHANGED parseVars
  \/ StartParsing \/ NoVariable \/ findsymbol \/ WalkHeader \/ WalkEnds \/ Relate \/ createHypergraph
  \/ Over

Spec == Init /\ [][Next]_vars

-----------------------------------------------------------------------------
(***************************************************************************)
(* Properties.                                                             *)
(***************************************************************************)

\* The headers at include distance d from a source (all of them, whatever the
\* order of the #includes), d = 0 being those the source itself includes.
AtDistance(use) ==
  LET IncludedBy(S) == UNION {Range(Known(hmap[h].headfile)) : h \in S}
      Near[d \in 0 .. Cardinality(DOMAIN hmap)] ==
        IF d = 0 THEN Range(Known(head[use.cpp].headfile)) ELSE IncludedBy(Near[d - 1])
  IN  Near

\* What the headers nearest to the use say about its variable.
NearestTypes(use) ==
  LET Near     == AtDistance(use)
      Types(d) == {TypeIn(hmap[h].globalStr, ValueName(use)) : h \in Near[d]} \ {NoWord}
      found    == {d \in DOMAIN Near : Types(d) # {}}
  IN  IF NearType(use) # NoWord THEN {NearType(use)}
      ELSE IF found = {} THEN {} ELSE Types(Min(found))

\* However the include files are tangled, findsymbol ends with the declaration
\* nearest to the use, and with none only if no file that can be reached by
\* #includes has one.
NearestDeclaration ==
  pc = "relate" => IF NearestTypes(Use) = {} THEN typeofname = NoWord
                                             ELSE typeofname \in NearestTypes(Use)

\* Every file named in an #include.
Mentioned == UNION ({Range(hmap[h].headfile) : h \in DOMAIN hmap}
                      \cup {Range(head[i].headfile) : i \in DOMAIN head})

\* The most files findsymbol can still take from its queue.
WalkLeft == Cardinality(Mentioned \ donemap) + Len(allheadfile)

\* The walk through include files that include each other comes to an end: with
\* every file taken from the queue, fewer can still come.
WalkNarrows == [][pc = "walk" /\ pc' = "walk" => WalkLeft' < WalkLeft]_vars

\* Every use of a variable in any method, in no order.
UseSet ==
  {use \in UNION {UNION {UNION {[cpp : {i}, class : {c}, body : {head[i].cppclass[c][m]},
                                 at : DOMAIN head[i].cppclass[c][m]]
                           : m \in DOMAIN head[i].cppclass[c]}
                    : c \in DOMAIN head[i].cppclass}
             : i \in DOMAIN head} :
     use.body[use.at].sym # "" /\ ValueName(use) # NoWord}

Classes == UNION {DOMAIN hmap[h].classdef : h \in DOMAIN hmap}

\* What a type word stands for: the types some typedef gives that name, else itself.
Meanings(t) ==
  LET texts == {hmap[h].globalStr : h \in DOMAIN hmap} \cup {head[i].globalStr : i \in DOMAIN head}
      defs  == {ph.words : ph \in {p \in UNION {Range(text) : text \in texts} :
                                     Len(p.words) > 2 /\ p.words[1] = Typedef}}
      From(words) == IF words[2] = Class THEN 3 ELSE 2
      given == {words[From(words)] : words \in {ws \in defs : \E k \in From(ws) + 1 .. Len(ws) : ws[k] = t}}
  IN  IF given = {} THEN {t} ELSE given

\* The classes on edge e, and the one whose callers it collects.
Members(e) == {vertices[v + 1] : v \in Range(pHyper.eind[e])}
Called(e)  == vertices[pHyper.eind[e][1] + 1]

\* The headers found, the first one of each name only.
FirstHeaders ==
  LET firsts == {i \in DOMAIN aryh : \A j \in 1 .. i - 1 : aryh[j].name # aryh[i].name}
  IN  {<<aryh[i].name, CReadH(aryh[i].text)>> : i \in firsts}

\* "all classes that call the same class, together with the class that is called,
\* make one edge": whatever the order of the files, a class that is called has one
\* edge, every class with a call to it is on that edge, and no other.  Of headers
\* that share a name in several folders the first one found counts, in every search.
\* Where two equally near headers or two typedefs disagree, either may be believed.
EdgesFromCalls ==
  pc = "modelled" =>
    LET types       == [use \in UseSet |-> UNION {Meanings(t) : t \in NearestTypes(use)}]
        MayCall(t)  == {use.class : use \in {u \in UseSet : t \in types[u]}} \ {t}
        MustCall(t) == {use.class : use \in {u \in UseSet : types[u] = {t}}} \ {t}
    IN  /\ {<<h, hmap[h]>> : h \in DOMAIN hmap} = FirstHeaders
        /\ \A e \in DOMAIN pHyper.eind :
             Called(e) \in Classes /\ Members(e) \ {Called(e)} \subseteq MayCall(Called(e))
        /\ \A t \in Classes : MustCall(t) # {} =>
             \E e \in DOMAIN pHyper.eind : Called(e) = t /\ MustCall(t) \subseteq Members(e)
        /\ \A e, f \in DOMAIN pHyper.eind : Called(e) = Called(f) => e = f

\* createHypergraph hands over what the cutting code takes for granted; its vertices
\* are numbered as they occur, and no two edges begin with the same class.
GraphShape ==
  pc = "modelled" =>
    IsRoot(pHyper) /\ InOrder(pHyper) /\ OneEdgePerClass(pHyper) /\ Len(vertices) = pHyper.n

-----------------------------------------------------------------------------
(***************************************************************************)
(* What the comments say and the code does not do.                         *)
(***************************************************************************)

\* The types a text declares a variable with.
DeclaredIn(text, name) ==
  {w \in Classes \cup DOMAIN mapForTypeDef :
     \E i \in DOMAIN text : \E j \in 2 .. Len(text[i].words) :
       text[i].words[j] = name /\ text[i].words[j - 1] = w}

\* "search the declaration of the variable in the body of the method", then "in
\* the definition of the class": a variable the class declares, and the method
\* does not declare again, has the type the class gives it.
MembersFound ==
  pc = "relate" =>
    \A h \in Range(Known(head[Use.cpp].headfile)) :
      LET inClass == IF Use.class \in DOMAIN hmap[h].classdef
                       THEN DeclaredIn(hmap[h].classdef[Use.class], ValueName(Use)) ELSE {}
      IN  inClass # {} /\ DeclaredIn(Use.body, ValueName(Use)) = {} => typeofname \in inClass

=============================================================================
