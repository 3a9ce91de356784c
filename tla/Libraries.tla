----------------------------- MODULE Libraries ------------------------------
(***************************************************************************)
(* Library imports (generate_il and add_library of src/il.c).  An import   *)
(* of a library opens its file, runs tokenizer and parser on it and calls  *)
(* generate_il again, so that the calls under way form a stack; what they  *)
(* share is the global lib_search_directories and the files of the         *)
(* process, which nothing closes.  A file is the sequence of its graves,   *)
(* without the THIS.DIE() that parse drops from a library; a loop stands   *)
(* before the graves of its body, which are converted right after it.      *)
(***************************************************************************)
EXTENDS Integers, Sequences, SequencesExt, FiniteSets

CONSTANTS
  Libs,         \* names of libraries
  Directories,  \* the include directories, in the order of the command line
  Programs,     \* what the program may consist of
  Texts,        \* what a library may consist of
  MaxOpen       \* how many files the process may have open

ASSUME LibrariesAssumption == MaxOpen \in Nat /\ Directories \in Seq(STRING)

\* The directory the compiler is started in, which fopen(libfile) looks in.
cwd == "."

Absent == <<[op |-> "absent", name |-> "none"]>>

VARIABLES
  disk,         \* the files looked for so far: a function from <<directory, library>>
  program,      \* the graves of the program
  activations,  \* the calls of generate_il under way, innermost last
  lib_search_directories,
  open_files,   \* how many streams have been opened; none is closed
  sought,       \* the library fopen is tried for, and the directories left to try
  status        \* "running", "done", or the error the process ended with

vars == <<disk, program, activations, lib_search_directories, open_files, sought, status>>

Importing == {"abstract", "universe", "input", "library"}
NotSought == [lib |-> "none", dirs |-> <<>>]

Activation(graves, is_library) ==
  [graves |-> graves, can_import_library |-> TRUE, is_library |-> is_library,
   output |-> <<>>]

Current == activations[Len(activations)]
Callers == SubSeq(activations, 1, Len(activations) - 1)
Grave   == Head(Current.graves)

Node(op, name, children) == [op |-> op, name |-> name, children |-> children]

\* The innermost call has converted its next grave to this node.
Emit(stack, node, flag) ==
  LET n == Len(stack) IN
  [stack EXCEPT ![n].graves = Tail(@), ![n].output = Append(@, node),
                ![n].can_import_library = flag]

Converting == status = "running" /\ sought = NotSought
AtGrave(ops) == Converting /\ Current.graves # <<>> /\ Grave.op \in ops

Fail(how) ==
  /\ status' = how
  /\ UNCHANGED <<disk, program, activations, lib_search_directories, open_files, sought>>

\* Every grave but an import puts an end to library imports in its file.
ConvertGrave ==
  /\ AtGrave({"loop", "bifurcate", "die", "print", "abstract", "universe", "input"})
  /\ ~ (Current.is_library /\ Grave.op \in {"print", "input"})
  /\ activations' = Emit(activations, Node(Grave.op, Grave.name, <<>>),
                         Current.can_import_library /\ Grave.op \in Importing)
  /\ UNCHANGED <<disk, program, lib_search_directories, open_files, sought, status>>

PrintInLibrary == AtGrave({"print"}) /\ Current.is_library /\ Fail("library_prints")
InputInLibrary == AtGrave({"input"}) /\ Current.is_library /\ Fail("library_reads")

\* Mutant of ImportLibrary: the current directory comes last.
ImportLibraryCwdLast ==
  /\ AtGrave({"library"}) /\ Current.can_import_library
  /\ sought' = [lib |-> Grave.name, dirs |-> Append(lib_search_directories, cwd)]
  /\ UNCHANGED <<disk, program, activations, lib_search_directories, open_files, status>>

\* add_library: the current directory, then lib_search_directories.
ImportLibrary ==
  /\ AtGrave({"library"}) /\ Current.can_import_library
  /\ sought' = [lib |-> Grave.name, dirs |-> <<cwd>> \o lib_search_directories]
  /\ UNCHANGED <<disk, program, activations, lib_search_directories, open_files, status>>

ImportTooLate == AtGrave({"library"}) /\ ~ Current.can_import_library /\ Fail("too_late")

\* fopen of the next candidate.  A file is put on the disk when it is first looked
\* for: which ones there are is not known before.
Candidate == <<sought.dirs[1], sought.lib>>

OnDisk(file, text) ==
  IF file \in DOMAIN disk THEN text = disk[file] /\ UNCHANGED disk
  ELSE disk' = [f \in DOMAIN disk \cup {file} |-> IF f = file THEN text ELSE disk[f]]

Open(text) ==
  /\ sought.dirs # <<>>
  /\ open_files < MaxOpen
  /\ OnDisk(Candidate, text)
  /\ text # Absent

\* Mutant of OpenLibrary: the call for a library does not know that it is one.
OpenLibraryAsProgram(text) ==
  /\ Open(text)
  /\ open_files' = open_files + 1
  /\ activations' = Append(activations, Activation(text, FALSE))
  /\ lib_search_directories' = <<>>
  /\ sought' = NotSought
  /\ UNCHANGED <<program, status>>

\* generate_il(lib_ast, true, NULL) leaves no search directories.
OpenLibrary(text) ==
  /\ Open(text)
  /\ open_files' = open_files + 1
  /\ activations' = Append(activations, Activation(text, TRUE))
  /\ lib_search_directories' = <<>>
  /\ sought' = NotSought
  /\ UNCHANGED <<program, status>>

\* Mutants of NotHere: the same file is tried again, or no other is tried.
NotHereAgain(text) == sought.dirs # <<>> /\ UNCHANGED vars

NotHereGivesUp(text) ==
  /\ sought.dirs # <<>>
  /\ OnDisk(Candidate, text) /\ text = Absent
  /\ sought' = [sought EXCEPT !.dirs = <<>>]
  /\ UNCHANGED <<program, activations, lib_search_directories, open_files, status>>

\* The file is not there, or no stream is left to open it with.
NotHere(text) ==
  /\ sought.dirs # <<>>
  /\ IF open_files < MaxOpen THEN OnDisk(Candidate, text) /\ text = Absent
                             ELSE UNCHANGED disk
  /\ sought' = [sought EXCEPT !.dirs = Tail(@)]
  /\ UNCHANGED <<program, activations, lib_search_directories, open_files, status>>

Look ==
  /\ status = "running" /\ sought # NotSought
  /\ \/ \E text \in Texts : OpenLibrary(text)
     \/ NotHere(Absent)
     \/ sought.dirs = <<>> /\ Fail("not_located")

\* The nodes of the library become the children of the node of its import.
EndLibrary ==
  /\ Converting /\ Current.graves = <<>> /\ Callers # <<>>
  /\ LET caller == Callers[Len(Callers)]
     IN  activations' = Emit(Callers, Node("lib", caller.graves[1].name, Current.output),
                             caller.can_import_library)
  /\ UNCHANGED <<disk, program, lib_search_directories, open_files, sought, status>>

EndProgram ==
  /\ Converting /\ Current.graves = <<>> /\ Callers = <<>>
  /\ Fail("done")

\* main calls generate_il with the include directories.
Init ==
  /\ program \in Programs
  /\ disk = [f \in {} |-> Absent]
  /\ activations = <<Activation(program, FALSE)>>
  /\ lib_search_directories = Directories
  /\ open_files = 0
  /\ sought = NotSought
  /\ status = "running"

Step ==
  \/ ConvertGrave \/ PrintInLibrary \/ InputInLibrary
  \/ ImportLibrary \/ ImportTooLate
  \/ Look
  \/ EndLibrary \/ EndProgram

Terminated == status # "running" /\ UNCHANGED vars

Next == Step \/ Terminated

\* The compiler is one process that nothing stops.
Spec == Init /\ [][Next]_vars /\ WF_vars(Step)

(***************************************************************************)
(* Properties.                                                             *)
(***************************************************************************)
Found(file) == file \in DOMAIN disk /\ disk[file] # Absent

OutOfFiles == open_files = MaxOpen

\* All these directories have been looked in.
NowhereFor(lib, dirs) ==
  \A d \in dirs : <<d, lib>> \in DOMAIN disk /\ ~ Found(<<d, lib>>)

\* A library is reported missing only if it is: it is not in the current directory,
\* and not in an include directory either as long as no library has been read before.
MissingOnly ==
  status = "not_located" =>
    \/ OutOfFiles
    \/ /\ NowhereFor(sought.lib, {cwd})
       /\ open_files = 0 => NowhereFor(sought.lib, Range(Directories))

\* Libraries that import each other or themselves do not keep the compiler busy for
\* ever: the files of the process run out, and the import fails.
Ends == <>(status # "running")

\* tildeathc.c:82, "Path to directory for library includes. Can be used more than once,
\* current directory and /usr/include/tildeathc are searched by default": a library
\* that is in one of them is located.
SearchesDirectories ==
  status = "not_located" =>
    OutOfFiles \/ \A d \in Range(<<cwd>> \o Directories) : ~ Found(<<d, sought.lib>>)

(***************************************************************************)
(* Why libraries are found and silent: what the calls of generate_il under *)
(* way, the global and the search for a file have to do with each other.   *)
(***************************************************************************)
IsSeq(s) == s \in Seq(Range(s))

IsActivation(a) ==
  /\ DOMAIN a = {"graves", "can_import_library", "is_library", "output"}
  /\ IsSeq(a.output)

\* The first call is for the program; the others stand above an import of the one below.
CallsNested ==
  /\ IsSeq(activations) /\ activations # <<>>
  /\ \A k \in DOMAIN activations :
       IsActivation(activations[k]) /\ (activations[k].is_library <=> k > 1)

\* The global is what main has given it until a library is read, and empty afterwards.
DirectoriesKnown ==
  /\ open_files \in 0 .. MaxOpen
  /\ lib_search_directories = IF open_files = 0 THEN Directories ELSE <<>>

\* A directory that is no longer to be tried has been looked in, as long as fopen could.
SearchInOrder ==
  /\ status = "not_located" => sought # NotSought /\ sought.dirs = <<>>
  /\ DOMAIN sought = {"lib", "dirs"} /\ IsSeq(sought.dirs)
  /\ sought # NotSought =>
       OutOfFiles \/ NowhereFor(sought.lib, Range(<<cwd>> \o lib_search_directories)
                                              \ Range(sought.dirs))

\* Nothing that a library is converted to, or that has become children of a library
\* node, prints or reads.
Quiet(nodes) == \A i \in DOMAIN nodes : nodes[i].op \notin {"print", "input"}

LibrariesQuiet ==
  \A k \in DOMAIN activations :
    LET output == activations[k].output IN
    /\ activations[k].is_library => Quiet(output)
    /\ \A i \in DOMAIN output : output[i].op = "lib" => Quiet(output[i].children)

\* The inductive invariant.
LibrariesInv == CallsNested /\ DirectoriesKnown /\ SearchInOrder /\ LibrariesQuiet

=============================================================================
