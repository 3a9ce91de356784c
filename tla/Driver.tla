------------------------------- MODULE Driver -------------------------------
(***************************************************************************)
(* The driver of the compiler (src/tildeathc.c): options, temporary files, *)
(* the children that run gcc and the compiled program, and the handlers    *)
(* of SIGINT.  The driver and its child are two processes that share the   *)
(* file system; the user may press Ctrl-C at any moment, which signals     *)
(* both.  The passes of the compiler are steps that succeed or fail.       *)
(***************************************************************************)
EXTENDS Integers, Sequences

CONSTANTS
  CommandLines,   \* the options the driver may be started with
  Faults,         \* what may go wrong
  MaxInterrupts   \* bound: how often the user presses Ctrl-C

\* -v ends the driver like -h, and -I changes nothing that is modelled.
Option == {"S", "e", "r", "o", "h", "unknown"}

Fault == {"arguments", "syntax", "invalid", "mkstemp", "fopen", "memory", "fork",
          "exec", "gcc", "waitpid"}

\* Bound: -r is given at most once; a second -r would make a second file and forget the
\* name of the first.
ASSUME DriverAssumption ==
  /\ CommandLines \subseteq Seq(Option)
  /\ \A line \in CommandLines : \A i, j \in 1 .. Len(line) :
       line[i] = "r" /\ line[j] = "r" => i = j
  /\ Faults \subseteq Fault
  /\ MaxInterrupts \in Nat

VARIABLES
  pc,               \* what main does next, or how the driver ended
  args,             \* the options getopt has still to return
  flags,            \* the options seen: output_asm, echo_output, run
  output_filename,  \* the file that variable names
  asm_file,         \* the file the assembly is written to
  handler,          \* what the driver does on SIGINT
  files,            \* the content of every file
  child,            \* the forked process, if there is one
  pending,          \* the processes with a SIGINT not yet delivered
  interrupts        \* how often Ctrl-C has been pressed

opts    == <<args, flags, output_filename>>
signals == <<handler, pending, interrupts>>
vars    == <<pc, opts, asm_file, files, child, signals>>

\* asm_temp is the file mkstemps makes for asm_filename, run_temp the one mkstemp
\* makes for -r, and output the file of -o, or a.out or a.s.
File    == {"asm_temp", "run_temp", "output"}
Content == {"none", "old", "empty", "asm", "exe"}
Handler == {"default", "unlink_asmfile", "unlink_outfile"}

Alive == child.state \in {"forked", "running"}
Gone  == pc \in {"success", "failure", "no_memory", "help", "killed", "aborted"}

\* The content of the files after the files fs are unlinked.
Without(fs) == [x \in File |-> IF x \in fs THEN "none" ELSE files[x]]

\* A step of main from p to q that leaves the files with this content.
At(p) == pc = p /\ "driver" \notin pending
Goes(p, q, content) ==
  /\ At(p)
  /\ pc' = q
  /\ files' = content
  /\ UNCHANGED <<opts, asm_file, child, signals>>

\* What the error exits up to the creation of the assembly remove.
OutputIfRun == IF flags.run THEN {output_filename} ELSE {}

(***************************************************************************)
(* Options and passes.                                                     *)
(***************************************************************************)
SetFlag(f) == flags' = [flags EXCEPT ![f] = TRUE] /\ UNCHANGED <<output_filename, files>>

ParseOption ==
  /\ At("options") /\ args # <<>>
  /\ args' = Tail(args)
  /\ UNCHANGED <<pc, asm_file, child, signals>>
  /\ \/ Head(args) = "S" /\ SetFlag("output_asm")
     \/ Head(args) = "e" /\ SetFlag("echo_output")
     \/ /\ Head(args) = "r"
        /\ flags' = [flags EXCEPT !.run = TRUE]
        /\ output_filename' = "run_temp"
        /\ files' = [files EXCEPT !["run_temp"] = "empty"]
     \/ /\ Head(args) = "o"
        /\ output_filename' = "output"
        /\ UNCHANGED <<flags, files>>

\* Help, an unknown option, and no temporary file for -r end the driver at once.
ParseOptionExits ==
  /\ args # <<>>
  /\ \/ Head(args) = "h" /\ Goes("options", "help", files)
     \/ Head(args) = "unknown" /\ Goes("options", "failure", files)
     \/ Head(args) = "r" /\ "mkstemp" \in Faults /\ Goes("options", "failure", files)

\* Mutant of OptionsDone: the -1 of getopt is not recognised, as where char is unsigned.
OptionsDoneNever == At("options") /\ args = <<>> /\ UNCHANGED vars

OptionsDone ==
  /\ At("options") /\ args = <<>>
  /\ pc' = "input"
  /\ output_filename' = IF output_filename = "null" THEN "output" ELSE output_filename
  /\ flags' = [flags EXCEPT !.output_asm = @ \/ flags.echo_output]
  /\ UNCHANGED <<args, asm_file, files, child, signals>>

\* No input file, more than one, or one that cannot be opened.
OpenInput ==
  \/ Goes("input", "compile", files)
  \/ "arguments" \in Faults /\ Goes("input", "failure", Without(OutputIfRun))

\* tokenize, parse and generate_il end the process when the program is wrong.
Compile ==
  \/ Goes("compile", "validate", files)
  \/ "syntax" \in Faults /\ Goes("compile", "failure", files)

Validate ==
  \/ Goes("validate", "open_asm", files)
  \/ "invalid" \in Faults /\ Goes("validate", "failure", Without(OutputIfRun))

\* -S writes the assembly to the output file, also under -r.
OpenAsm ==
  LET stdout == flags.echo_output /\ ~ flags.run
      file == IF flags.output_asm THEN output_filename ELSE "asm_temp"
      Opened(f, content) == /\ At("open_asm")
                            /\ pc' = "catch_asm"
                            /\ asm_file' = f
                            /\ files' = content
                            /\ UNCHANGED <<opts, child, signals>>
  IN  \/ stdout /\ Opened("stdout", files)
      \/ ~ stdout /\ Opened(file, [files EXCEPT ![file] = "empty"])
      \/ /\ ~ stdout /\ "fopen" \in Faults
         /\ Opened("null", [files EXCEPT !["asm_temp"] =
                             IF flags.output_asm THEN @ ELSE "empty"])
      \/ /\ ~ flags.output_asm /\ "mkstemp" \in Faults
         /\ Goes("open_asm", "failure", Without(OutputIfRun))

Catch(p, q, h) ==
  /\ At(p)
  /\ pc' = q
  /\ handler' = h
  /\ UNCHANGED <<opts, asm_file, files, child, pending, interrupts>>

\* Mutants of CatchAsm: SIGINT is ignored, or removes the output.
CatchAsmIgnore == Catch("catch_asm", "generate", "ignore")
CatchAsmOut    == Catch("catch_asm", "generate", "unlink_outfile")

CatchAsm == Catch("catch_asm", "generate", "unlink_asmfile")

\* What is written to a file that has been unlinked since it was opened is lost.
Written ==
  [x \in File |-> IF x = asm_file /\ files[x] # "none" THEN "asm" ELSE files[x]]

Generate ==
  IF asm_file = "null"
  THEN Goes("generate", "failure", Without(OutputIfRun \cup {"asm_temp"}))
  ELSE \/ Goes("generate", IF flags.output_asm /\ ~ flags.run THEN "success" ELSE "fork_gcc",
               Written)
       \/ "memory" \in Faults /\ Goes("generate", "no_memory", files)

(***************************************************************************)
(* The two children.  A forked child inherits the handler, which execlp    *)
(* resets to the default.                                                  *)
(***************************************************************************)
NoChild == [prog |-> "none", state |-> "none", handler |-> "default"]

Fork(p, q, prog) ==
  /\ At(p)
  /\ pc' = q
  /\ child' = [prog |-> prog, state |-> "forked", handler |-> handler]
  /\ UNCHANGED <<opts, asm_file, files, signals>>

\* A step of the child.
ChildAt(prog, state) ==
  child.prog = prog /\ child.state = state /\ "child" \notin pending
ChildGoes(prog, p, q, content) ==
  /\ ChildAt(prog, p)
  /\ child' = [child EXCEPT !.state = q, !.handler = "default"]
  /\ files' = content
  /\ UNCHANGED <<pc, opts, asm_file, signals>>

\* Mutant of ForkGcc: the assembly is left behind when fork fails.
ForkGccKept ==
  \/ Fork("fork_gcc", "catch_out", "gcc")
  \/ "fork" \in Faults /\ Goes("fork_gcc", "failure", files)

ForkGcc ==
  \/ Fork("fork_gcc", "catch_out", "gcc")
  \/ "fork" \in Faults /\ Goes("fork_gcc", "failure", Without({"asm_temp"}))

ExecGcc ==
  \/ ChildGoes("gcc", "forked", "running", files)
  \/ /\ "exec" \in Faults
     /\ ChildGoes("gcc", "forked", "failed", Without({"asm_temp", output_filename}))

\* gcc needs the whole assembly at asm_filename. When it fails it may remove its
\* output.
GccEnds ==
  \/ /\ files["asm_temp"] = "asm"
     /\ ChildGoes("gcc", "running", "succeeded", [files EXCEPT ![output_filename] = "exe"])
  \/ /\ files["asm_temp"] # "asm" \/ "gcc" \in Faults
     /\ \E fs \in SUBSET {output_filename} :
          ChildGoes("gcc", "running", "failed", Without(fs))

CatchOut == Catch("catch_out", "wait_gcc", "unlink_outfile")

\* waitpid fails, for a child that has ended, where SIGCHLD is inherited as ignored.
WaitGcc ==
  /\ ~ Alive
  /\ \/ Goes("wait_gcc", "check_gcc", Without({"asm_temp"}))
     \/ /\ "waitpid" \in Faults
        /\ Goes("wait_gcc", "failure", Without({"asm_temp", output_filename}))

\* Mutant of GccDone: main ends here also under -r.
GccDoneEnds == Goes("check_gcc", "success", files)

GccDone == Goes("check_gcc", IF flags.run THEN "fork_program" ELSE "success", files)

\* Mutant of CheckGcc: the status of gcc is not looked at.
CheckGccNever == GccDone

\* Mutant of CheckGcc: the output of a gcc that failed is left.
CheckGccKept ==
  \/ child.state = "failed" /\ Goes("check_gcc", "failure", files)
  \/ child.state = "succeeded" /\ GccDone

CheckGcc ==
  \/ child.state = "failed" /\ Goes("check_gcc", "failure", Without({output_filename}))
  \/ child.state = "succeeded" /\ GccDone

ForkProgram ==
  \/ Fork("fork_program", "wait_program", "program")
  \/ "fork" \in Faults /\ Goes("fork_program", "failure", Without({output_filename}))

ExecProgram ==
  /\ ChildAt("program", "forked")
  /\ \/ /\ files[output_filename] = "exe"
        /\ ChildGoes("program", "forked", "running", files)
     \/ /\ files[output_filename] # "exe" \/ "exec" \in Faults
        /\ ChildGoes("program", "forked", "failed", Without({output_filename}))

ProgramEnds ==
  \E state \in {"succeeded", "failed"} : ChildGoes("program", "running", state, files)

WaitProgram ==
  /\ ~ Alive
  /\ \/ Goes("wait_program", "free_output", files)
     \/ /\ "waitpid" \in Faults
        /\ Goes("wait_program", "failure", Without({output_filename}))

\* free(output_filename): the name of -o is not memory malloc gave out.
FreeOutput ==
  Goes("free_output", IF output_filename = "run_temp" THEN "unlink_freed" ELSE "aborted",
       files)

\* unlink(output_filename), after the name was freed: it may be overwritten by then.
UnlinkFreed ==
  \E fs \in SUBSET {output_filename} : Goes("unlink_freed", "success", Without(fs))

(***************************************************************************)
(* SIGINT.  The terminal signals the driver and its child; each runs its   *)
(* handler, or ends, when it is scheduled next.  A handler returns, and    *)
(* the wait it interrupted is restarted.                                   *)
(***************************************************************************)
Interrupt ==
  /\ ~ Gone /\ interrupts < MaxInterrupts
  /\ interrupts' = interrupts + 1
  /\ pending' = {"driver"} \cup (IF Alive THEN {"child"} ELSE {})
  /\ UNCHANGED <<pc, opts, asm_file, handler, files, child>>

\* What a handler does to the files, unless the name it unlinks is freed.
Handled(h) ==
  CASE h = "unlink_asmfile" -> Without({"asm_temp"})
    [] h = "unlink_outfile" /\ pc # "unlink_freed" -> Without({output_filename})
    [] OTHER -> files

DriverHandles(p) ==
  /\ "driver" \in pending /\ ~ Gone
  /\ pending' = pending \ {"driver"}
  /\ pc' = p
  /\ files' = Handled(handler)
  /\ UNCHANGED <<opts, asm_file, handler, child, interrupts>>

\* Mutant of DeliverToDriver: the handlers end the driver.
DeliverToDriverExits == DriverHandles("killed")

DeliverToDriver == DriverHandles(IF handler = "default" THEN "killed" ELSE pc)

\* A gcc that is killed may remove its output.
DeliverToChild ==
  /\ "child" \in pending /\ Alive
  /\ pending' = pending \ {"child"}
  /\ \/ /\ child.state = "forked"
        /\ files' = Handled(child.handler)
        /\ UNCHANGED child
     \/ /\ child.state = "running"
        /\ child' = [child EXCEPT !.state = "failed"]
        /\ \E fs \in SUBSET {output_filename} :
             files' = Without(fs) /\ (fs # {} => child.prog = "gcc")
  /\ UNCHANGED <<pc, opts, asm_file, handler, interrupts>>

Main ==
  \/ ParseOption
  \/ ParseOptionExits
  \/ OptionsDone
  \/ OpenInput
  \/ Compile
  \/ Validate
  \/ OpenAsm
  \/ CatchAsm
  \/ Generate
  \/ ForkGcc
  \/ CatchOut
  \/ WaitGcc
  \/ CheckGcc
  \/ ForkProgram
  \/ WaitProgram
  \/ FreeOutput
  \/ UnlinkFreed

Terminated == Gone /\ ~ Alive /\ UNCHANGED vars

Next ==
  \/ Main
  \/ ExecGcc
  \/ GccEnds
  \/ ExecProgram
  \/ ProgramEnds
  \/ Interrupt
  \/ DeliverToDriver
  \/ DeliverToChild
  \/ Terminated

Init ==
  /\ pc = "options"
  /\ args \in CommandLines
  /\ flags = [output_asm |-> FALSE, echo_output |-> FALSE, run |-> FALSE]
  /\ output_filename = "null"
  /\ asm_file = "null"
  /\ handler = "default"
  /\ files = [x \in File |-> IF x = "output" THEN "old" ELSE "none"]
  /\ child = NoChild
  /\ pending = {}
  /\ interrupts = 0

Spec == Init /\ [][Next]_vars

\* The processes are scheduled, and gcc comes to an end; the compiled program need not.
Fairness ==
  /\ WF_vars(Main)
  /\ WF_vars(ExecGcc)
  /\ WF_vars(GccEnds)
  /\ WF_vars(ExecProgram)
  /\ WF_vars(DeliverToDriver)
  /\ WF_vars(DeliverToChild)

FairSpec == Spec /\ Fairness

(***************************************************************************)
(* Properties.                                                             *)
(***************************************************************************)
Flags == [output_asm : BOOLEAN, echo_output : BOOLEAN, run : BOOLEAN]

Child == [prog : {"none", "gcc", "program"},
          state : {"none", "forked", "running", "succeeded", "failed"},
          handler : Handler]

PC == {"options", "input", "compile", "validate", "open_asm", "catch_asm", "generate",
       "fork_gcc", "catch_out", "wait_gcc", "check_gcc", "fork_program",
       "wait_program", "free_output", "unlink_freed",
       "success", "failure", "no_memory", "help", "killed", "aborted"}

TypeOK ==
  /\ pc \in PC
  /\ args \in Seq(Option)
  /\ flags \in Flags
  /\ output_filename \in {"null", "run_temp", "output"}
  /\ asm_file \in {"null", "stdout"} \cup File
  /\ handler \in Handler
  /\ files \in [File -> Content]
  /\ child \in Child
  /\ pending \subseteq {"driver", "child"}
  /\ interrupts \in 0 .. MaxInterrupts

\* When main comes to an exit of its own (MALLOC_NULL_CHECK has another), at whatever
\* moment it was interrupted and whichever of the two processes removes it, the
\* temporary assembly is gone.
AsmRemoved == pc \in {"success", "failure", "help"} => files["asm_temp"] = "none"

\* No gcc and no program is left running without the driver: Ctrl-C ends the driver
\* only while it has no child.
NoOrphan == Gone => ~ Alive

\* The file of -o, or a.out, keeps what it held until the compiler has accepted the
\* program and is about to write there, also when it is interrupted: never under -e,
\* where nothing is written, nor when the output is the temporary file of -r.  (After
\* -r -o it is neither.)
KeepsOutput ==
  [][files'["output"] # files["output"] =>
       /\ output_filename = "output"
       /\ ~ flags.run => /\ ~ flags.echo_output
                         /\ pc \notin {"options", "input", "compile", "validate"}]_vars

\* A driver that was not interrupted and reports success has left the file that was
\* asked for, and not an older one.
SuccessMeansOutput ==
  pc = "success" /\ ~ flags.run /\ interrupts = 0 =>
    files["output"] = IF flags.echo_output THEN "old"
                      ELSE IF flags.output_asm THEN "asm" ELSE "exe"

\* Also when it is interrupted, the driver comes to its end, or to a program that runs.
Ends == <>(Gone \/ ChildAt("program", "running"))

\* Success under -r means that gcc has made the program and that it was forked to run,
\* whatever was interrupted; the usage text says no less of the options with -r.
SuccessMeansRun == pc = "success" /\ flags.run => child.prog = "program"

\* An error removes the temporary file of -r, but in the passes that end the process
\* themselves, among the options, where gcc cannot be forked, and where -o has made the
\* driver forget its name.
RunTempRemoved ==
  [][pc # pc' /\ pc' = "failure" /\ files'["run_temp"] # "none" =>
       pc \in {"options", "compile", "fork_gcc"} \/ output_filename # "run_temp"]_vars

(***************************************************************************)
(* Why the safety properties hold: what main has done so far says which    *)
(* options, handler, child and files there are, whatever the interrupts.   *)
(***************************************************************************)
Starting  == {"options", "input", "compile", "validate", "open_asm"}
Writing   == {"catch_asm", "generate"}
Compiling == {"fork_gcc", "catch_out", "wait_gcc", "check_gcc"}
Executing == {"fork_program", "wait_program", "free_output", "unlink_freed"}

\* -r names its own file; after the options the output has a name, and -e means -S.
OptionsRead ==
  /\ output_filename = "run_temp" => flags.run
  /\ pc # "options" /\ ~ Gone =>
       output_filename # "null" /\ (flags.echo_output => flags.output_asm)
  /\ pc \in Compiling /\ ~ flags.run => ~ flags.output_asm
  /\ pc \in Executing => flags.run

\* While the driver has a child it has a handler, and goes on: it waits for the child.
ChildInStep ==
  /\ pc \in Starting \cup {"catch_asm"} => handler = "default"
  /\ pc \in {"generate", "fork_gcc", "catch_out"} => handler = "unlink_asmfile"
  /\ pc \in {"wait_gcc", "check_gcc"} \cup Executing => handler = "unlink_outfile"
  /\ pc \in Starting \cup Writing \cup {"fork_gcc"} => child = NoChild
  /\ pc \in {"catch_out", "wait_gcc", "check_gcc", "fork_program"} => child.prog = "gcc"
  /\ pc \in {"wait_program", "free_output", "unlink_freed"} => child.prog = "program"
  /\ Alive => pc \in {"catch_out", "wait_gcc", "wait_program"}

\* The temporary assembly is there from its creation to the wait for gcc, and in the two
\* ends that leave it.  The output is untouched up to the creation of the assembly, which
\* goes to one file.
FilesInStep ==
  /\ files["asm_temp"] # "none" =>
       \/ pc \in Writing /\ ~ flags.output_asm
       \/ pc \in {"fork_gcc", "catch_out", "wait_gcc", "no_memory", "killed"}
  /\ pc \in Starting => files["output"] = "old"
  /\ pc \in Writing =>
       /\ asm_file \in {"null", "stdout", IF flags.output_asm THEN output_filename ELSE "asm_temp"}
       /\ flags.echo_output /\ ~ flags.run =>
            asm_file = "stdout" /\ files["output"] = "old"
       /\ asm_file = "stdout" => flags.echo_output /\ ~ flags.run
       /\ asm_file = "output" => files["output"] = "empty"

\* Without an interrupt, what gcc has made is there.
OutputMade ==
  interrupts = 0 =>
    /\ pending = {}
    /\ pc \in Compiling /\ child.state = "succeeded" => files[output_filename] = "exe"

\* The inductive invariant.
DriverInv ==
  /\ TypeOK
  /\ OptionsRead
  /\ ChildInStep
  /\ FilesInStep
  /\ OutputMade
  /\ SuccessMeansOutput
  /\ SuccessMeansRun

=============================================================================
