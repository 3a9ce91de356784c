--------------------------- MODULE LibrariesProofs ---------------------------
(***************************************************************************)
(* Libraries are reported missing only if they are, and nothing in them    *)
(* prints or reads, whatever programs, libraries and directories there     *)
(* are and however many files may be open.                                 *)
(***************************************************************************)
EXTENDS Libraries, SequenceTheorems, TLAPS

(***************************************************************************)
(* Sequences and the stack of calls.                                       *)
(***************************************************************************)
\* A sequence stays one when something is appended to it.
LEMMA AppendIsSeq ==
  ASSUME NEW s, IsSeq(s), NEW e
  PROVE  /\ IsSeq(Append(s, e))
         /\ DOMAIN Append(s, e) = 1 .. Len(s) + 1
         /\ DOMAIN s = 1 .. Len(s) /\ Len(s) \in Nat
         /\ \A i \in DOMAIN s : Append(s, e)[i] = s[i]
         /\ Append(s, e)[Len(s) + 1] = e
<1> DEFINE S == Range(s) \cup {e}
<1>1. s \in Seq(S)
  BY SeqMonotonic DEF IsSeq
<1>2. e \in S
  OBVIOUS
<1> HIDE DEF S
<1>3. Append(s, e) \in Seq(S) /\ Len(Append(s, e)) = Len(s) + 1
  BY ONLY <1>1, <1>2, AppendProperties
<1>4. /\ Len(s) \in Nat /\ DOMAIN s = 1 .. Len(s)
      /\ DOMAIN Append(s, e) = 1 .. Len(s) + 1
  BY ONLY <1>1, <1>3, LenProperties
<1>5. /\ \A i \in 1 .. Len(s) : Append(s, e)[i] = s[i]
      /\ Append(s, e)[Len(s) + 1] = e
  BY ONLY <1>1, <1>2, AppendProperties
<1>6. IsSeq(Append(s, e))
  BY ONLY <1>3, SeqOfRange DEF IsSeq
<1> QED BY <1>4, <1>5, <1>6

\* A sequence of one element.
LEMMA OfOne ==
  ASSUME NEW S, NEW e \in S
  PROVE  <<e>> \in Seq(S) /\ Range(<<e>>) = {e}
<1> DEFINE c == <<e>>
<1>1. c \in Seq(S) /\ Len(c) = 1 /\ c[1] = e
  OBVIOUS
<1> HIDE DEF c
<1>2. Range(c) = {c[i] : i \in 1 .. 1}
  BY <1>1, RangeEquality
<1>3. Range(c) = {e}
  BY <1>1, <1>2
<1> QED BY <1>1, <1>3 DEF c

\* A stack of activations, the library calls among which are known.
Stack(s) ==
  /\ IsSeq(s) /\ s # <<>>
  /\ \A k \in DOMAIN s : IsActivation(s[k])

\* The innermost call of a stack, and what Emit makes of it.
LEMMA EmitFrame ==
  ASSUME NEW s, Stack(s), NEW node, NEW flag
  PROVE  LET e == Emit(s, node, flag) IN
         /\ Stack(e)
         /\ DOMAIN e = DOMAIN s /\ DOMAIN s = 1 .. Len(s) /\ Len(s) \in Nat \ {0}
         /\ \A k \in DOMAIN s : e[k].is_library = s[k].is_library
         /\ \A k \in DOMAIN s : k # Len(s) => e[k] = s[k]
         /\ e[Len(s)].output = Append(s[Len(s)].output, node)
<1> DEFINE n == Len(s)
           a == [s[n] EXCEPT !.graves = Tail(@), !.output = Append(@, node),
                             !.can_import_library = flag]
           S == Range(s) \cup {a}
<1>1. s \in Seq(S) /\ a \in S
  BY SeqMonotonic DEF Stack, IsSeq
<1>2. n \in Nat \ {0} /\ DOMAIN s = 1 .. n
  BY <1>1, EmptySeq, LenProperties DEF Stack
<1>3. IsActivation(s[n])
  BY <1>2 DEF Stack
<1>4. /\ DOMAIN a = {"graves", "can_import_library", "is_library", "output"}
      /\ a.is_library = s[n].is_library
      /\ a.output = Append(s[n].output, node)
  BY <1>3 DEF IsActivation
<1>5. IsActivation(a)
  BY <1>3, <1>4, AppendIsSeq DEF IsActivation
<1>6. Emit(s, node, flag) = [s EXCEPT ![n] = a]
  BY <1>2, <1>3 DEF Emit, IsActivation
<1> DEFINE e == [s EXCEPT ![n] = a]
<1>7. /\ e \in Seq(S) /\ DOMAIN e = DOMAIN s
      /\ \A k \in 1 .. n : e[k] = IF k = n THEN a ELSE s[k]
  BY <1>1, <1>2, ExceptSeq
<1>8. Stack(e)
  <2>1. IsSeq(e)
    BY <1>7, SeqOfRange DEF IsSeq
  <2>2. e # <<>>
    BY <1>2, <1>7
  <2> QED BY <2>1, <2>2, <1>2, <1>5, <1>7 DEF Stack
<1> QED BY <1>2, <1>4, <1>6, <1>7, <1>8

(***************************************************************************)
(* The search for a file.                                                  *)
(***************************************************************************)
\* The directories of the search.
LEMMA DirectoriesType ==
  ASSUME LibrariesInv
  PROVE  /\ IsSeq(lib_search_directories)
         /\ IsSeq(<<cwd>> \o lib_search_directories)
         /\ <<cwd>> \o lib_search_directories # <<>>
         /\ Range(<<cwd>> \o lib_search_directories)
              = {cwd} \cup Range(lib_search_directories)
<1> DEFINE S == STRING \cup {cwd}
           c == <<cwd>>
<1>1. lib_search_directories \in Seq(S)
  <2>1. Directories \in Seq(S)
    BY LibrariesAssumption, SeqMonotonic
  <2> QED BY <2>1, EmptySeq DEF LibrariesInv, DirectoriesKnown
<1>2. c \in Seq(S) /\ Range(c) = {cwd}
  BY OfOne
<1>3. Len(c) = 1
  OBVIOUS
<1> HIDE DEF c, S
<1>4. /\ c \o lib_search_directories \in Seq(S)
      /\ Len(c \o lib_search_directories) = 1 + Len(lib_search_directories)
      /\ Len(lib_search_directories) \in Nat
  BY <1>1, <1>2, <1>3, ConcatProperties, LenProperties, ZenonT(60)
<1>5. c \o lib_search_directories # <<>>
  BY <1>4, EmptySeq
<1>6. Range(c \o lib_search_directories) = {cwd} \cup Range(lib_search_directories)
  BY <1>1, <1>2, RangeConcatenation
<1> QED BY <1>1, <1>4, <1>5, <1>6, SeqOfRange DEF c, IsSeq

\* The directory that is tried next is no longer among those to try, and no other has gone.
LEMMA NextDirectory ==
  ASSUME NEW dirs, IsSeq(dirs), dirs # <<>>
  PROVE  /\ IsSeq(Tail(dirs))
         /\ Range(dirs) = {dirs[1]} \cup Range(Tail(dirs))
<1>1. /\ Tail(dirs) \in Seq(Range(dirs)) /\ Len(Tail(dirs)) = Len(dirs) - 1
      /\ \A i \in 1 .. Len(Tail(dirs)) : Tail(dirs)[i] = dirs[i + 1]
      /\ Len(dirs) \in Nat \ {0} /\ DOMAIN dirs = 1 .. Len(dirs)
      /\ DOMAIN Tail(dirs) = 1 .. Len(Tail(dirs))
  BY HeadTailProperties, EmptySeq, LenProperties DEF IsSeq
<1>2. ASSUME NEW d \in Range(dirs)
      PROVE  d \in {dirs[1]} \cup Range(Tail(dirs))
  <2>1. PICK i \in 1 .. Len(dirs) : d = dirs[i]
    BY <1>1, <1>2 DEF Range
  <2>2. CASE i = 1
    BY <2>1, <2>2
  <2>3. CASE i # 1
    <3>1. i - 1 \in 1 .. Len(Tail(dirs)) /\ Tail(dirs)[i - 1] = dirs[i]
      BY <1>1, <2>3
    <3> QED BY <1>1, <2>1, <3>1 DEF Range
  <2> QED BY <2>2, <2>3
<1>3. ASSUME NEW d \in {dirs[1]} \cup Range(Tail(dirs))
      PROVE  d \in Range(dirs)
  <2>1. CASE d = dirs[1]
    BY <1>1, <2>1 DEF Range
  <2>2. CASE d \in Range(Tail(dirs))
    <3>1. PICK i \in 1 .. Len(Tail(dirs)) : d = Tail(dirs)[i]
      BY <1>1, <2>2 DEF Range
    <3>2. i + 1 \in 1 .. Len(dirs) /\ d = dirs[i + 1]
      BY <1>1, <3>1
    <3> QED BY <1>1, <3>2 DEF Range
  <2> QED BY <1>3, <2>1, <2>2
<1> QED BY <1>1, <1>2, <1>3, SeqOfRange DEF IsSeq

\* What is known of a file stays known when another is looked for.
LEMMA DiskKept ==
  ASSUME NEW file, NEW text, OnDisk(file, text), NEW g, g \in DOMAIN disk
  PROVE  g \in DOMAIN disk' /\ disk'[g] = disk[g]
<1>1. CASE file \in DOMAIN disk
  BY <1>1 DEF OnDisk
<1>2. CASE file \notin DOMAIN disk
  BY <1>2 DEF OnDisk
<1> QED BY <1>1, <1>2

\* A file that has been looked for has the text it was found to have.
LEMMA DiskKnown ==
  ASSUME NEW file, NEW text, OnDisk(file, text)
  PROVE  file \in DOMAIN disk' /\ disk'[file] = text
<1>1. CASE file \in DOMAIN disk
  BY <1>1 DEF OnDisk
<1>2. CASE file \notin DOMAIN disk
  BY <1>2 DEF OnDisk
<1> QED BY <1>1, <1>2

(***************************************************************************)
(* What the calls under way have converted.                                *)
(***************************************************************************)
\* CallsNested and LibrariesQuiet of any stack.
NestedAndQuiet(s) ==
  /\ Stack(s)
  /\ \A k \in DOMAIN s : s[k].is_library <=> k > 1
  /\ \A k \in DOMAIN s :
       /\ s[k].is_library => Quiet(s[k].output)
       /\ \A i \in DOMAIN s[k].output :
            s[k].output[i].op = "lib" => Quiet(s[k].output[i].children)

LEMMA StackOfCalls ==
  CallsNested /\ LibrariesQuiet <=> NestedAndQuiet(activations)
BY DEF CallsNested, LibrariesQuiet, NestedAndQuiet, Stack

\* A node that may stand where it is put.
LEMMA EmitKeeps ==
  ASSUME NEW s, NestedAndQuiet(s), NEW node, NEW flag,
         s[Len(s)].is_library => node.op \notin {"print", "input"},
         node.op = "lib" => Quiet(node.children)
  PROVE  NestedAndQuiet(Emit(s, node, flag))
<1> DEFINE e == Emit(s, node, flag)
<1>1. /\ Stack(e) /\ DOMAIN e = DOMAIN s
      /\ \A k \in DOMAIN s : e[k].is_library = s[k].is_library
      /\ \A k \in DOMAIN s : k # Len(s) => e[k] = s[k]
      /\ e[Len(s)].output = Append(s[Len(s)].output, node)
  BY EmitFrame DEF NestedAndQuiet
<1> HIDE DEF e
<1>2. ASSUME NEW k \in DOMAIN s
      PROVE  /\ e[k].is_library => Quiet(e[k].output)
             /\ \A i \in DOMAIN e[k].output :
                  e[k].output[i].op = "lib" => Quiet(e[k].output[i].children)
  <2>1. CASE k # Len(s)
    BY <1>1, <1>2, <2>1 DEF NestedAndQuiet
  <2>2. CASE k = Len(s)
    <3> DEFINE out == s[k].output
    <3>1. IsSeq(out)
      BY <1>2 DEF NestedAndQuiet, Stack, IsActivation
    <3>2. e[k].output = Append(out, node)
      BY <1>1, <2>2
    <3>3. /\ DOMAIN Append(out, node) = 1 .. Len(out) + 1
          /\ DOMAIN out = 1 .. Len(out) /\ Len(out) \in Nat
          /\ \A i \in DOMAIN out : Append(out, node)[i] = out[i]
          /\ Append(out, node)[Len(out) + 1] = node
      BY <3>1, AppendIsSeq
    <3>4. /\ s[k].is_library => Quiet(out)
          /\ \A i \in DOMAIN out : out[i].op = "lib" => Quiet(out[i].children)
      BY <1>2 DEF NestedAndQuiet
    <3> HIDE DEF out
    <3>5. e[k].is_library => Quiet(Append(out, node))
      BY <1>1, <1>2, <2>2, <3>3, <3>4 DEF Quiet
    <3>6. \A i \in DOMAIN Append(out, node) :
            Append(out, node)[i].op = "lib" => Quiet(Append(out, node)[i].children)
      BY <3>3, <3>4
    <3> QED BY <3>2, <3>5, <3>6
  <2> QED BY <2>1, <2>2
<1>3. \A k \in DOMAIN e : e[k].is_library <=> k > 1
  BY <1>1 DEF NestedAndQuiet
<1> QED BY <1>1, <1>2, <1>3 DEF e, NestedAndQuiet

\* The calls below the innermost one.
LEMMA CallersKeep ==
  ASSUME NestedAndQuiet(activations), Callers # <<>>
  PROVE  /\ NestedAndQuiet(Callers)
         /\ Current.is_library /\ Quiet(Current.output)
<1> DEFINE n == Len(activations)
           S == Range(activations)
<1>1. activations \in Seq(S) /\ activations # <<>>
  BY DEF NestedAndQuiet, Stack, IsSeq
<1> HIDE DEF S
<1>2. n \in Nat \ {0} /\ DOMAIN activations = 1 .. n
  BY <1>1, EmptySeq, LenProperties
<1>3. /\ Callers \in Seq(S) /\ Len(Callers) = n - 1
      /\ \A i \in 1 .. n - 1 : Callers[i] = activations[i]
  BY <1>1, <1>2, SubSeqProperties DEF Callers
<1>4. n > 1 /\ DOMAIN Callers = 1 .. n - 1
  BY <1>2, <1>3, EmptySeq, LenProperties
<1>5. Stack(Callers)
  BY <1>2, <1>3, <1>4, SeqOfRange DEF NestedAndQuiet, Stack, IsSeq
<1>6. NestedAndQuiet(Callers)
  BY <1>2, <1>3, <1>4, <1>5 DEF NestedAndQuiet
<1>7. Current = activations[n] /\ n \in DOMAIN activations
  BY <1>2 DEF Current
<1> QED BY <1>4, <1>6, <1>7 DEF NestedAndQuiet

\* A call for a library is added.
LEMMA CallAdded ==
  ASSUME NestedAndQuiet(activations), NEW text
  PROVE  NestedAndQuiet(Append(activations, Activation(text, TRUE)))
<1> DEFINE a == Activation(text, TRUE)
           s == activations
           e == Append(s, a)
<1>1. /\ IsActivation(a) /\ a.is_library /\ a.output = <<>>
  <2>1. IsSeq(<<>>)
    BY EmptySeq DEF IsSeq
  <2> QED BY <2>1 DEF Activation, IsActivation
<1> HIDE DEF a
<1>2. /\ IsSeq(e)
      /\ DOMAIN e = 1 .. Len(s) + 1
      /\ DOMAIN s = 1 .. Len(s) /\ Len(s) \in Nat
      /\ \A i \in DOMAIN s : e[i] = s[i]
      /\ e[Len(s) + 1] = a
  BY AppendIsSeq DEF NestedAndQuiet, Stack
<1>3. Len(s) > 0
  BY <1>2, EmptySeq DEF NestedAndQuiet, Stack, IsSeq
<1>4. e # <<>>
  BY <1>2
<1> HIDE DEF e
<1>5. Stack(e)
  BY <1>1, <1>2, <1>4 DEF NestedAndQuiet, Stack
<1>6. Quiet(a.output) /\ DOMAIN a.output = {}
  BY <1>1 DEF Quiet
<1>7. ASSUME NEW k \in DOMAIN e
      PROVE  /\ e[k].is_library <=> k > 1
             /\ e[k].is_library => Quiet(e[k].output)
             /\ \A i \in DOMAIN e[k].output :
                  e[k].output[i].op = "lib" => Quiet(e[k].output[i].children)
  <2>1. CASE k \in DOMAIN s
    BY <1>2, <2>1 DEF NestedAndQuiet
  <2>2. CASE k = Len(s) + 1
    BY <1>1, <1>2, <1>3, <1>6, <2>2
  <2> QED BY <1>2, <1>7, <2>1, <2>2
<1> QED BY <1>5, <1>7 DEF a, e, NestedAndQuiet

(***************************************************************************)
(* The steps.                                                              *)
(***************************************************************************)
\* A step that converts a grave, while nothing is sought.
LEMMA ConvertingKeeps ==
  ASSUME LibrariesInv, Converting,
         UNCHANGED <<disk, lib_search_directories, open_files, sought, status>>,
         NestedAndQuiet(activations')
  PROVE  LibrariesInv'
<1>1. CallsNested' /\ LibrariesQuiet'
  BY DEF CallsNested, LibrariesQuiet, NestedAndQuiet, Stack
<1>2. DirectoriesKnown'
  BY DEF LibrariesInv, DirectoriesKnown
<1>3. SearchInOrder'
  BY DEF LibrariesInv, SearchInOrder, Converting, NotSought
<1> QED BY <1>1, <1>2, <1>3 DEF LibrariesInv

LEMMA ConvertGraveKeeps ==
  ASSUME LibrariesInv, ConvertGrave
  PROVE  LibrariesInv'
<1> DEFINE node == Node(Grave.op, Grave.name, <<>>)
           flag == Current.can_import_library /\ Grave.op \in Importing
<1>1. NestedAndQuiet(activations)
  BY StackOfCalls DEF LibrariesInv
<1>2. /\ activations[Len(activations)].is_library => node.op \notin {"print", "input"}
      /\ node.op # "lib"
  BY DEF ConvertGrave, AtGrave, Node, Current
<1>3. activations' = Emit(activations, node, flag)
  BY DEF ConvertGrave
<1> HIDE DEF node, flag
<1>4. NestedAndQuiet(activations')
  BY <1>1, <1>2, <1>3, EmitKeeps
<1> QED BY <1>4, ConvertingKeeps DEF ConvertGrave, AtGrave

LEMMA EndLibraryKeeps ==
  ASSUME LibrariesInv, EndLibrary
  PROVE  LibrariesInv'
<1> DEFINE caller == Callers[Len(Callers)]
           node == Node("lib", caller.graves[1].name, Current.output)
<1>1. NestedAndQuiet(Callers) /\ Quiet(node.children) /\ node.op = "lib"
  BY StackOfCalls, CallersKeep DEF LibrariesInv, EndLibrary, Node
<1>2. activations' = Emit(Callers, node, caller.can_import_library)
  BY DEF EndLibrary
<1> HIDE DEF node, caller
<1>3. NestedAndQuiet(activations')
  BY <1>1, <1>2, EmitKeeps
<1> QED BY <1>3, ConvertingKeeps DEF EndLibrary

\* The search begins with every directory still to be tried.
LEMMA ImportLibraryKeeps ==
  ASSUME LibrariesInv, ImportLibrary
  PROVE  LibrariesInv'
<1> DEFINE all == <<cwd>> \o lib_search_directories
<1>1. IsSeq(all)
  BY DirectoriesType
<1>2. /\ sought' = [lib |-> Grave.name, dirs |-> all]
      /\ UNCHANGED <<disk, activations, lib_search_directories, open_files, status>>
      /\ status = "running"
  BY DEF ImportLibrary, AtGrave, Converting
<1>3. all' = all /\ sought'.dirs = all
  BY <1>2
<1> HIDE DEF all
<1>4. SearchInOrder'
  <2>1. /\ status' # "not_located"
        /\ DOMAIN sought' = {"lib", "dirs"} /\ IsSeq(sought'.dirs)
    BY <1>1, <1>2
  <2>2. NowhereFor(sought.lib, Range(all) \ Range(sought.dirs))'
    BY <1>3 DEF NowhereFor
  <2> QED BY <2>1, <2>2 DEF SearchInOrder, all
<1> QED BY <1>2, <1>4 DEF LibrariesInv, CallsNested, LibrariesQuiet, DirectoriesKnown

\* The process ends with an error, or is done.
LEMMA FailKeeps ==
  ASSUME LibrariesInv, NEW how, Fail(how),
         how = "not_located" => sought # NotSought /\ sought.dirs = <<>>
  PROVE  LibrariesInv'
BY DEF Fail, LibrariesInv, CallsNested, LibrariesQuiet, DirectoriesKnown, SearchInOrder,
       NowhereFor, Found, OutOfFiles

\* The directory that was tried does not have the file, or fopen has no stream left.
LEMMA NotHereKeeps ==
  ASSUME LibrariesInv, status = "running", sought # NotSought, NotHere(Absent)
  PROVE  LibrariesInv'
<1> DEFINE all == <<cwd>> \o lib_search_directories
           dirs == sought.dirs
<1>1. /\ dirs # <<>> /\ IsSeq(dirs)
      /\ DOMAIN sought' = {"lib", "dirs"}
      /\ sought'.dirs = Tail(dirs) /\ sought'.lib = sought.lib
      /\ UNCHANGED <<activations, lib_search_directories, open_files, status>>
  BY DEF NotHere, LibrariesInv, SearchInOrder
<1>2. IsSeq(Tail(dirs)) /\ Range(dirs) = {dirs[1]} \cup Range(Tail(dirs))
  BY <1>1, NextDirectory
<1>3. OutOfFiles \/ NowhereFor(sought.lib, Range(all) \ Range(dirs))
  BY DEF LibrariesInv, SearchInOrder
<1>4. CASE OutOfFiles
  <2>1. OutOfFiles'
    BY <1>1, <1>4 DEF OutOfFiles
  <2> QED BY <1>1, <1>2, <2>1
          DEF LibrariesInv, SearchInOrder, CallsNested, LibrariesQuiet, DirectoriesKnown
<1>5. CASE ~ OutOfFiles
  <2>1. OnDisk(Candidate, Absent)
    <3>1. open_files < MaxOpen
      BY <1>5, LibrariesAssumption DEF LibrariesInv, DirectoriesKnown, OutOfFiles
    <3> QED BY <3>1 DEF NotHere
  <2>2. ASSUME NEW d \in Range(all) \ Range(Tail(dirs))
        PROVE  (<<d, sought.lib>> \in DOMAIN disk /\ ~ Found(<<d, sought.lib>>))'
    <3>1. CASE d = dirs[1]
      BY <1>1, <2>1, <3>1, DiskKnown DEF Candidate, Found
    <3>2. CASE d # dirs[1]
      <4>1. <<d, sought.lib>> \in DOMAIN disk /\ disk[<<d, sought.lib>>] = Absent
        BY <1>2, <1>3, <1>5, <2>2, <3>2 DEF NowhereFor, Found
      <4> QED BY <1>1, <2>1, <4>1, DiskKept DEF Found
    <3> QED BY <3>1, <3>2
  <2>3. NowhereFor(sought.lib, Range(all) \ Range(sought.dirs))'
    BY <1>1, <2>2 DEF NowhereFor
  <2> QED BY <1>1, <1>2, <2>3
          DEF LibrariesInv, SearchInOrder, CallsNested, LibrariesQuiet, DirectoriesKnown
<1> QED BY <1>4, <1>5

\* A library is opened.
LEMMA OpenLibraryKeeps ==
  ASSUME LibrariesInv, status = "running", NEW text, OpenLibrary(text)
  PROVE  LibrariesInv'
<1>1. /\ open_files < MaxOpen /\ open_files' = open_files + 1
      /\ activations' = Append(activations, Activation(text, TRUE))
      /\ lib_search_directories' = <<>>
      /\ sought' = NotSought /\ status' = status
  BY DEF OpenLibrary, Open
<1>2. NestedAndQuiet(activations')
  BY <1>1, StackOfCalls, CallAdded DEF LibrariesInv
<1>3. CallsNested' /\ LibrariesQuiet'
  BY <1>2 DEF CallsNested, LibrariesQuiet, NestedAndQuiet, Stack
<1>4. DirectoriesKnown'
  BY <1>1, LibrariesAssumption DEF LibrariesInv, DirectoriesKnown
<1>5. SearchInOrder'
  <2>1. IsSeq(<<>>)
    BY EmptySeq DEF IsSeq
  <2> QED BY <1>1, <2>1 DEF NotSought, SearchInOrder
<1> QED BY <1>3, <1>4, <1>5 DEF LibrariesInv

LEMMA LookKeeps ==
  ASSUME LibrariesInv, Look
  PROVE  LibrariesInv'
<1>1. CASE \E text \in Texts : OpenLibrary(text)
  BY <1>1, OpenLibraryKeeps DEF Look
<1>2. CASE NotHere(Absent)
  BY <1>2, NotHereKeeps DEF Look
<1>3. CASE sought.dirs = <<>> /\ Fail("not_located")
  BY <1>3, FailKeeps DEF Look
<1> QED BY <1>1, <1>2, <1>3 DEF Look

\* main calls generate_il for the program.
LEMMA InitInv ==
  ASSUME Init
  PROVE  LibrariesInv
<1>1. NestedAndQuiet(activations)
  <2> DEFINE a == Activation(program, FALSE)
  <2>1. activations = <<a>>
    BY DEF Init
  <2>2. IsSeq(<<>>)
    BY EmptySeq DEF IsSeq
  <2>3. IsActivation(a) /\ ~ a.is_library /\ a.output = <<>>
    BY <2>2 DEF Activation, IsActivation
  <2> HIDE DEF a
  <2>4. IsSeq(<<a>>)
    BY OfOne, SeqOfRange DEF IsSeq
  <2>5. <<a>> # <<>> /\ DOMAIN <<a>> = 1 .. 1 /\ <<a>>[1] = a
    OBVIOUS
  <2>6. Stack(activations)
    BY <2>1, <2>3, <2>4, <2>5 DEF Stack
  <2> QED BY <2>1, <2>3, <2>5, <2>6 DEF NestedAndQuiet
<1>2. CallsNested /\ LibrariesQuiet
  BY <1>1, StackOfCalls
<1>3. DirectoriesKnown
  BY LibrariesAssumption DEF Init, DirectoriesKnown
<1>4. SearchInOrder
  <2>1. IsSeq(<<>>)
    BY EmptySeq DEF IsSeq
  <2> QED BY <2>1 DEF Init, NotSought, SearchInOrder
<1> QED BY <1>2, <1>3, <1>4 DEF LibrariesInv

LEMMA NextInv ==
  ASSUME LibrariesInv, [Next]_vars
  PROVE  LibrariesInv'
<1>1. CASE ConvertGrave
  BY <1>1, ConvertGraveKeeps
<1>2. CASE PrintInLibrary \/ InputInLibrary \/ ImportTooLate \/ EndProgram
  BY <1>2, FailKeeps DEF PrintInLibrary, InputInLibrary, ImportTooLate, EndProgram
<1>3. CASE ImportLibrary
  BY <1>3, ImportLibraryKeeps
<1>4. CASE Look
  BY <1>4, LookKeeps
<1>5. CASE EndLibrary
  BY <1>5, EndLibraryKeeps
<1>6. CASE UNCHANGED vars
  BY <1>6 DEF vars, LibrariesInv, CallsNested, LibrariesQuiet, DirectoriesKnown,
              SearchInOrder, NowhereFor, Found, OutOfFiles
<1> QED BY <1>1, <1>2, <1>3, <1>4, <1>5, <1>6 DEF Next, Step, Terminated

(***************************************************************************)
(* The theorems.                                                           *)
(***************************************************************************)
\* The inductive invariant of generate_il and add_library: the calls stand above each
\* other's imports, what a library is converted to neither prints nor reads, the global
\* is the list of main until a library is read, and a directory that is passed over has
\* been looked in.
THEOREM LibrariesInvariant == Spec => []LibrariesInv
BY InitInv, NextInv, PTL DEF Spec

\* "Library not located" is true of the current directory, and of the include directories
\* as long as no library has been read, unless the process has no stream left (the search
\* of add_library).
THEOREM MissingOnlyIfMissing == Spec => []MissingOnly
<1>1. ASSUME LibrariesInv, status = "not_located", ~ OutOfFiles
      PROVE  /\ NowhereFor(sought.lib, {cwd})
             /\ open_files = 0 => NowhereFor(sought.lib, Range(Directories))
  <2> DEFINE all == {cwd} \cup Range(lib_search_directories)
  <2>1. NowhereFor(sought.lib, all \ Range(sought.dirs)) /\ sought.dirs = <<>>
    BY <1>1, DirectoriesType DEF LibrariesInv, SearchInOrder
  <2>2. Range(sought.dirs) = {}
    BY <2>1, RangeEquality, EmptySeq DEF Range
  <2>3. open_files = 0 => lib_search_directories = Directories
    BY <1>1 DEF LibrariesInv, DirectoriesKnown
  <2> QED BY <2>1, <2>2, <2>3 DEF NowhereFor
<1>2. LibrariesInv => MissingOnly
  BY <1>1 DEF MissingOnly
<1> QED BY <1>2, LibrariesInvariant, PTL

=============================================================================
