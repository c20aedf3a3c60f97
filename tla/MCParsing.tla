----------------------------- MODULE MCParsing ------------------------------
(***************************************************************************)
(* Testcases to read and parse.  Numbers 1 .. 9 are file names, 10 .. 19   *)
(* classes, 20 .. 29 variables, 30 .. 39 typedef names, the others are     *)
(* words that stand for nothing.                                           *)
(***************************************************************************)
EXTENDS Parsing

Void   == 41
Return == 42
Struct == 43

\* The folder of a testcase, a folder in it and one in that.
Top  == <<0>>
Sub  == <<0, 1>>
Deep == <<0, 1, 2>>

H(dir, name, text)   == [dir |-> dir, name |-> name, ext |-> "h", has |-> {"h"}, text |-> text]
Cpp(dir, name, text) == [dir |-> dir, name |-> name, ext |-> "cpp", has |-> {"cpp"}, text |-> text]
Say(words)           == Phrase(words, "")
Arrow(x)             == Phrase(<<x>>, "->")
Dot(x)               == Phrase(<<x>>, ".")
Includes(names)      == [i \in DOMAIN names |-> Include(names[i])]

\* testcases/hTest_1: cA, cB and cC are 10, 11 and 12; objA, objB and objC 20, 21
\* and 22.  The #include in a comment of cA.h counts; cG.h does not exist.
HTest1 ==
  {H(Top, 1, <<Include(3), ClassDef(10, <<Say(<<12, 22>>)>>)>>),
   H(Top, 2, <<Include(1), Include(9), ClassDef(11, <<Say(<<12, 22>>)>>)>>),
   H(Top, 3, <<Include(2), ClassDef(12, <<>>)>>),
   Cpp(Top, 4, <<Include(1), Include(3), Method(10, <<Say(<<Void, 10>>), Say(<<12, 22>>), Arrow(22)>>)>>),
   Cpp(Top, 5, <<Include(2), Method(11, <<Say(<<Void, 11>>), Say(<<12, 22>>), Arrow(22)>>)>>),
   Cpp(Top, 6, <<Include(3), Method(12, <<Say(<<Void, 12>>), Say(<<11, 21>>), Say(<<10, 20>>), Say(<<12, 22>>),
                                        Say(<<21>>), Say(<<20>>), Arrow(21), Say(<<22>>), Arrow(20), Say(<<22>>)>>)>>)}

\* Members, typedefs, a header without a class, a use after a keyword, a class
\* that calls itself and an expression without a variable.
Members1 ==
  {H(Top, 1, <<ClassDef(10, <<Say(<<11, 20>>), Say(<<30, 21>>)>>)>>),
   H(Top, 2, <<ClassDef(11, <<>>), Say(<<Typedef, Class, 11, 30>>), Say(<<Typedef, Struct, 10, 31>>), Say(<<11, 22>>)>>),
   H(Top, 3, <<Include(2), Say(<<Typedef, 10, 30, 32>>)>>),
   Cpp(Top, 4, <<Include(1), Include(3),
               Method(10, <<Say(<<Void, 10>>), Phrase(<<Return, 20>>, "->")>>),
               Method(10, <<Say(<<Void, 10>>), Dot(21), Arrow(21), Arrow(22)>>),
               Method(12, <<Say(<<12>>), Say(<<32, 23>>), Dot(23), Phrase(<<>>, "->"), Say(<<11, 20>>), Arrow(20)>>),
               Method(11, <<Say(<<Void, 11>>), Say(<<11, 24>>), Arrow(24)>>)>>)}

\* Two headers of one name in different folders, a source whose name has an "h" and
\* that defines a class, a .cc source, three levels of folders.
Folders ==
  {H(Top, 1, <<ClassDef(10, <<>>), Say(<<11, 20>>)>>),
   H(Sub, 1, <<ClassDef(11, <<>>), Say(<<12, 20>>)>>),
   H(Sub, 2, <<Include(1), ClassDef(12, <<>>), Say(<<Typedef, Class, 10, 30>>)>>),
   [dir |-> Top, name |-> 5, ext |-> "cpp", has |-> {"cpp", "h"},
    text |-> <<Include(2), ClassDef(13, <<>>),
               Method(13, <<Say(<<Void, 13>>), Say(<<30, 21>>), Dot(21), Arrow(20)>>),
               Method(12, <<Say(<<Void, 12>>), Say(<<13, 22>>), Arrow(22)>>)>>],
   [dir |-> Deep, name |-> 6, ext |-> "cc", has |-> {},
    text |-> <<Include(2), Say(<<12, 21>>), Method(10, <<Say(<<Void, 10>>), Arrow(21), Arrow(21)>>)>>]}

\* Three headers that include each other in every way, some of which declare the
\* variable, each with its own type.
Tangle(incs, decl, own) ==
  {H(Top, h, Includes(Sorted(incs[h])) \o <<ClassDef(10 + h, <<>>)>>
             \o (IF h \in decl THEN <<Say(<<10 + h, 20>>)>> ELSE <<>>)) : h \in 1 .. 3}
  \cup {Cpp(Sub, 4, Includes(own) \o <<Method(10, <<Say(<<Void, 10>>), Arrow(20)>>)>>)}

Tangles ==
  {Tangle(incs, decl, own) : incs \in {f \in [1 .. 3 -> SUBSET (1 .. 3)] : \A h \in 1 .. 3 : h \notin f[h]},
                             decl \in SUBSET (1 .. 3),
                             own  \in {<<1>>, <<2, 1>>}}

MCProjects == {HTest1, Members1, Folders} \cup Tangles

MCOneProject == {Members1}

\* output/hTest_1: vertice.txt numbers cA, cC, cB, and relation.txt has the edges
\* cA -> cC, cB -> cC and cC -> cB cA; in whatever order the folder is read.
RecordedOutput ==
  pc = "modelled" /\ Range(aryh) \cup Range(arycpp) = HTest1 =>
    /\ vertices = <<10, 12, 11>>
    /\ [e \in DOMAIN pHyper.eind |-> <<Called(e), Members(e)>>]
         = <<<<10, {10, 12}>>, <<11, {11, 12}>>, <<12, {10, 11, 12}>>>>

=============================================================================
