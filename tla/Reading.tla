------------------------------ MODULE Reading -------------------------------
(***************************************************************************)
(* CTestCaseCpp::doReading: dfsFolder collects the files of a testcase and *)
(* readEachfile scans them (CReadH, CReadCpp).                             *)
(*                                                                         *)
(* Words and file names are numbers, ordered the way std::map orders them. *)
(* A file is [dir, name, ext, has, text]: the path of its folder, which    *)
(* begins with the testcase's own, its name without the folder, its        *)
(* extension, those of the strings "cpp" and "h" that occur in the name,   *)
(* and its items. An item is an #include (the code cuts off its folder), a *)
(* class definition, a method or a phrase at file level. A phrase is a run *)
(* of words with nothing but blanks and stars between them and the symbol  *)
(* right after it, "->", "." or neither (""). Bodies are sequences of      *)
(* phrases; a method's begins with its head line. No file begins with a    *)
(* declaration, and no class name has an underscore: findtype overlooks    *)
(* the first word of a text, and getclassname stops at an underscore.      *)
(***************************************************************************)
EXTENDS Integers, SequencesExt, FirstSeen

CONSTANT Projects   \* the testcases: sets of files

\* A file has a folder and a name and is a sequence of items; the names in it, the folder of an
\* #include cut off, are words, and a method has a body of phrases.
ASSUME ProjectsAssumption ==
  \A files \in Projects : \A f \in files :
    /\ f.dir \in Seq(Int) /\ f.dir # <<>>
    /\ f.name \in Int /\ f.text \in Seq(Range(f.text))
    /\ \A it \in Range(f.text) :
         /\ it.kind \in {"include", "class"} => it.name \in Int
         /\ it.kind = "method" =>
              /\ it.class \in Int /\ it.body \in Seq(Range(it.body))
              /\ \A ph \in Range(it.body) : ph.sym \in {"->", ".", ""}

VARIABLES
  pc,         \* what the testcase is doing
  platform,   \* "WIN32" or the other branch of the #ifdef, "POSIX"
  unseen,     \* the files dfsFolder has not come to
  folder,     \* the path of the folder it is in
  aryh,       \* aryh_fileName
  arycpp,     \* arycpp_fileName
  nread,      \* how many of them readEachfile has scanned
  hmap,       \* file name -> CReadH
  head        \* the list of CReadCpps

readVars == <<platform, unseen, folder, aryh, arycpp, nread, hmap, head>>

Phrase(words, sym)      == [kind |-> "phrase", words |-> words, sym |-> sym]
Include(name)           == [kind |-> "include", name |-> name]
ClassDef(name, body)    == [kind |-> "class", name |-> name, body |-> body]
Method(class, body)     == [kind |-> "method", class |-> class, body |-> body]

ReadInit ==
  /\ pc = "folder"
  /\ platform \in {"WIN32", "POSIX"}
  /\ unseen \in Projects
  /\ folder = <<>>
  /\ aryh = <<>> /\ arycpp = <<>> /\ nread = 0
  /\ hmap = <<>> /\ head = <<>>

-----------------------------------------------------------------------------
\* std::map::insert: an entry that is already there stays.
Insert(map, key, value) ==
  [k \in DOMAIN map \cup {key} |-> IF k \in DOMAIN map THEN map[k] ELSE value]

Items(text, kind) == Among(text, {it \in Range(text) : it.kind = kind})

\* Where the first item of a kind is, 0 when there is none.
FirstItem(text, kind) == SelectInSeq(text, LAMBDA it : it.kind = kind)

\* CReadH::getclass: the first definition of a name wins.
getclass(text) ==
  LET defs == Items(text, "class")
  IN  [c \in {defs[i].name : i \in DOMAIN defs} |->
         defs[SelectInSeq(defs, LAMBDA it : it.name = c)].body]

\* getheadfile looks only at the text before the first class (method); without
\* one it finds no include file at all.
getheadfile(text, classstart) ==
  LET found == Items(SubSeq(text, 1, classstart), "include")
  IN  [i \in DOMAIN found |-> found[i].name]

\* findGlobal: what is outside of all braces.
findGlobal(text) == Items(text, "phrase")

CReadH(text) ==
  [classdef  |-> getclass(text),
   headfile  |-> getheadfile(text, FirstItem(text, "class")),
   globalStr |-> findGlobal(text)]

\* CReadCpp::findclasses: the methods of each class, in their order.
findclasses(text) ==
  LET methods == Items(text, "method")
  IN  [c \in {methods[i].class : i \in DOMAIN methods} |->
         LET mine == Among(methods, {m \in Range(methods) : m.class = c})
         IN  [i \in DOMAIN mine |-> mine[i].body]]

CReadCpp(text) ==
  [cppclass  |-> findclasses(text),
   headfile  |-> getheadfile(text, FirstItem(text, "method")),
   globalStr |-> findGlobal(text)]

-----------------------------------------------------------------------------
IsCpp(f) == IF platform = "WIN32" THEN f.ext \in {"cpp", "cc"} ELSE "cpp" \in f.has

IsH(f) == IF platform = "WIN32" THEN f.ext = "h" ELSE "h" \in f.has

\* The files in a folder and the folders in it.
FilesIn(d) == {f \in unseen : IsPrefix(d, f.dir)}

\* The order in a folder is the file system's, but the folders that are left on the
\* way to folder d are finished.
Finished(d) == \A e \in Prefixes(folder) : IsPrefix(e, d) \/ FilesIn(e) = {}

\* dfsFolder comes to a file.
dfsFolder(f) ==
  /\ pc = "folder" /\ f \in unseen /\ Finished(f.dir)
  /\ unseen' = unseen \ {f}
  /\ folder' = f.dir
  /\ aryh' = IF IsH(f) THEN Append(aryh, f) ELSE aryh
  /\ arycpp' = IF IsCpp(f) THEN Append(arycpp, f) ELSE arycpp
  /\ UNCHANGED <<pc, platform, nread, hmap, head>>

\* dfsFolder cannot open a folder it comes to: _findfirst tells, and the folder is
\* passed over; what opendir says is not looked at, and readdir ends the process.
NoFolder(d) ==
  /\ pc = "folder" /\ d \notin Prefixes(folder) /\ Finished(d)
  /\ \/ /\ platform = "WIN32"
        /\ unseen' = unseen \ FilesIn(d) /\ folder' = Front(d) /\ pc' = pc
     \/ /\ platform = "POSIX"
        /\ pc' = "crash" /\ UNCHANGED <<unseen, folder>>
  /\ UNCHANGED <<platform, aryh, arycpp, nread, hmap, head>>

\* readEachfile begins.
EndFolder ==
  /\ pc = "folder" /\ unseen = {}
  /\ pc' = "read"
  /\ UNCHANGED readVars

\* A header goes into hmap under its name without the folder.
ReadHeader ==
  /\ pc = "read" /\ nread < Len(aryh)
  /\ LET f == aryh[nread + 1] IN hmap' = Insert(hmap, f.name, CReadH(f.text))
  /\ nread' = nread + 1
  /\ UNCHANGED <<pc, platform, unseen, folder, aryh, arycpp, head>>

AllRead == nread = Len(aryh) + Len(arycpp)

\* Then the sources, each in front of the list.
ReadSource ==
  /\ pc = "read" /\ nread >= Len(aryh) /\ ~AllRead
  /\ head' = <<CReadCpp(arycpp[nread - Len(aryh) + 1].text)>> \o head
  /\ nread' = nread + 1
  /\ UNCHANGED <<pc, platform, unseen, folder, aryh, arycpp, hmap>>

\* readallfile cannot open or read the file at hand: exit().
Unreadable ==
  /\ pc = "read" /\ ~AllRead
  /\ pc' = "exit"
  /\ UNCHANGED readVars

ReadNext ==
  \/ \E f \in unseen : dfsFolder(f)
  \/ \E d \in UNION {Prefixes(f.dir) : f \in unseen} : NoFolder(d)
  \/ EndFolder \/ ReadHeader \/ ReadSource \/ Unreadable

=============================================================================
