---------------------------- MODULE DriverProofs ----------------------------
(***************************************************************************)
(* The safety of the driver, for every command line, every combination of  *)
(* faults and any number of interrupts.                                    *)
(***************************************************************************)
EXTENDS Driver, SequenceTheorems, TLAPS

(***************************************************************************)
(* Types.                                                                  *)
(***************************************************************************)
\* Files that are unlinked are files.
LEMMA WithoutType ==
  ASSUME TypeOK, NEW fs
  PROVE  Without(fs) \in [File -> Content]
BY DEF TypeOK, Without, Content

\* A step of main from one place to another.
LEMMA GoesType ==
  ASSUME TypeOK, NEW p, NEW q \in PC, NEW content \in [File -> Content],
         Goes(p, q, content)
  PROVE  TypeOK'
BY DEF TypeOK, Goes, opts, signals

\* An option is taken from the command line.
LEMMA OptionType ==
  ASSUME TypeOK, args # <<>>
  PROVE  Head(args) \in Option /\ Tail(args) \in Seq(Option)
BY HeadTailProperties DEF TypeOK

\* An option that is only remembered.
LEMMA FlagType ==
  ASSUME TypeOK, NEW f \in {"output_asm", "echo_output"}, SetFlag(f)
  PROVE  /\ flags' = IF f = "output_asm" THEN [flags EXCEPT !.output_asm = TRUE]
                                         ELSE [flags EXCEPT !.echo_output = TRUE]
         /\ flags' \in Flags
         /\ UNCHANGED <<output_filename, files>>
<1>1. flags \in Flags
  BY DEF TypeOK
<1>2. CASE f = "output_asm"
  BY <1>1, <1>2 DEF SetFlag, Flags
<1>3. CASE f = "echo_output"
  BY <1>1, <1>3 DEF SetFlag, Flags
<1> QED BY <1>2, <1>3

\* What is written leaves the files well typed.
LEMMA WrittenType == TypeOK => Written \in [File -> Content]
BY DEF TypeOK, Written, Content

\* A handler leaves the files well typed.
LEMMA HandledType ==
  ASSUME TypeOK, NEW h \in Handler
  PROVE  Handled(h) \in [File -> Content]
<1>1. files \in [File -> Content]
  BY DEF TypeOK
<1> QED BY <1>1, WithoutType DEF Handled, Handler

\* A step of the child.
LEMMA ChildType ==
  ASSUME TypeOK, NEW prog, NEW p,
         NEW q \in {"none", "forked", "running", "succeeded", "failed"},
         NEW content \in [File -> Content], ChildGoes(prog, p, q, content)
  PROVE  TypeOK'
BY DEF TypeOK, ChildGoes, opts, signals, Child, Handler

\* A handler is installed.
LEMMA CatchType ==
  ASSUME TypeOK, NEW p, NEW q \in PC, NEW h \in Handler, Catch(p, q, h)
  PROVE  TypeOK'
BY DEF TypeOK, Catch, opts

\* A child is forked.
LEMMA ForkType ==
  ASSUME TypeOK, NEW p, NEW q \in PC, NEW prog \in {"gcc", "program"}, Fork(p, q, prog)
  PROVE  TypeOK'
BY DEF TypeOK, Fork, opts, signals, Child

\* The options and the passes keep the state well typed.
LEMMA TypePasses ==
  ASSUME TypeOK,
         ParseOption \/ ParseOptionExits \/ OptionsDone \/ OpenInput \/ Compile \/ Validate
  PROVE  TypeOK'
<1> USE WithoutType
<1>1. files \in [File -> Content]
  BY DEF TypeOK
<1>2. CASE ParseOption
  <2>1. args' \in Seq(Option) /\ UNCHANGED <<pc, asm_file, child, handler, pending, interrupts>>
    BY <1>2, OptionType DEF ParseOption, signals
  <2>2. flags' \in Flags
    <3>1. [flags EXCEPT !.run = TRUE] \in Flags
      BY DEF TypeOK, Flags
    <3>2. flags \in Flags
      BY DEF TypeOK
    <3> QED BY <1>2, <3>1, <3>2, FlagType DEF ParseOption
  <2>3. files' \in [File -> Content]
    <3>1. [files EXCEPT !["run_temp"] = "empty"] \in [File -> Content]
      BY <1>1 DEF Content
    <3> QED BY <1>1, <1>2, <3>1, FlagType DEF ParseOption
  <2>4. output_filename' \in {"null", "run_temp", "output"}
    BY <1>2, FlagType DEF ParseOption, TypeOK
  <2> QED BY <2>1, <2>2, <2>3, <2>4 DEF TypeOK
<1>3. CASE ParseOptionExits
  BY <1>1, <1>3, GoesType DEF ParseOptionExits, PC
<1>4. CASE OptionsDone
  BY <1>4 DEF OptionsDone, TypeOK, Flags, PC, signals
<1>5. CASE OpenInput
  BY <1>1, <1>5, GoesType DEF OpenInput, PC
<1>6. CASE Compile
  BY <1>1, <1>6, GoesType DEF Compile, PC
<1>7. CASE Validate
  BY <1>1, <1>7, GoesType DEF Validate, PC
<1> QED BY <1>2, <1>3, <1>4, <1>5, <1>6, <1>7

\* The creation of the assembly keeps the state well typed.
LEMMA TypeAssembly ==
  ASSUME TypeOK, OpenAsm \/ CatchAsm \/ Generate
  PROVE  TypeOK'
<1>1. files \in [File -> Content] /\ \A fs : Without(fs) \in [File -> Content]
  BY WithoutType DEF TypeOK
<1>2. CASE OpenAsm
  <2>1. CASE Goes("open_asm", "failure", Without(OutputIfRun))
    BY <1>1, <2>1, GoesType DEF PC
  <2>2. CASE ~ Goes("open_asm", "failure", Without(OutputIfRun))
    <3>1. files' \in [File -> Content]
      BY <1>1, <1>2, <2>2 DEF OpenAsm, Content, File
    <3>2. asm_file' \in {"null", "stdout"} \cup File
      BY <1>2, <2>2 DEF OpenAsm, TypeOK, File
    <3>3. pc' = "catch_asm" /\ UNCHANGED <<opts, child, signals>>
      BY <1>2, <2>2 DEF OpenAsm
    <3> QED BY <3>1, <3>2, <3>3 DEF TypeOK, PC, opts, signals
  <2> QED BY <2>1, <2>2
<1>3. CASE CatchAsm
  BY <1>3, CatchType DEF CatchAsm, PC, Handler
<1>4. CASE Generate
  BY <1>1, <1>4, GoesType, WrittenType DEF Generate, PC
<1> QED BY <1>2, <1>3, <1>4

\* The steps with gcc and the compiled program keep the state well typed.
LEMMA TypeChildren ==
  ASSUME TypeOK,
         \/ ForkGcc \/ CatchOut \/ WaitGcc \/ CheckGcc \/ ForkProgram \/ WaitProgram
         \/ FreeOutput \/ UnlinkFreed \/ ExecGcc \/ GccEnds \/ ExecProgram \/ ProgramEnds
  PROVE  TypeOK'
<1>1. files \in [File -> Content] /\ \A fs : Without(fs) \in [File -> Content]
  BY WithoutType DEF TypeOK
<1>2. [files EXCEPT ![output_filename] = "exe"] \in [File -> Content]
  BY <1>1 DEF Content
<1>3. CASE ForkGcc
  BY <1>1, <1>3, GoesType, ForkType DEF ForkGcc, PC
<1>4. CASE CatchOut
  BY <1>4, CatchType DEF CatchOut, PC, Handler
<1>5. CASE WaitGcc
  BY <1>1, <1>5, GoesType DEF WaitGcc, PC
<1>6. CASE CheckGcc
  BY <1>1, <1>6, GoesType DEF CheckGcc, GccDone, PC
<1>7. CASE ForkProgram
  BY <1>1, <1>7, GoesType, ForkType DEF ForkProgram, PC
<1>8. CASE WaitProgram
  BY <1>1, <1>8, GoesType DEF WaitProgram, PC
<1>9. CASE FreeOutput
  BY <1>1, <1>9, GoesType DEF FreeOutput, PC
<1>10. CASE UnlinkFreed
  BY <1>1, <1>10, GoesType DEF UnlinkFreed, PC
<1>11. CASE ExecGcc
  BY <1>1, <1>11, ChildType DEF ExecGcc
<1>12. CASE GccEnds
  BY <1>1, <1>2, <1>12, ChildType DEF GccEnds
<1>13. CASE ExecProgram
  BY <1>1, <1>13, ChildType DEF ExecProgram
<1>14. CASE ProgramEnds
  BY <1>1, <1>14, ChildType DEF ProgramEnds
<1> QED BY <1>3, <1>4, <1>5, <1>6, <1>7, <1>8, <1>9, <1>10, <1>11, <1>12, <1>13, <1>14

\* Interrupts and their delivery keep the state well typed.
LEMMA TypeSignals ==
  ASSUME TypeOK, Interrupt \/ DeliverToDriver \/ DeliverToChild
  PROVE  TypeOK'
<1>1. CASE Interrupt
  BY <1>1, DriverAssumption DEF Interrupt, TypeOK, opts, DriverAssumption
<1>2. CASE DeliverToDriver
  <2>1. Handled(handler) \in [File -> Content]
    BY HandledType DEF TypeOK
  <2> QED BY <1>2, <2>1 DEF DeliverToDriver, DriverHandles, TypeOK, PC, opts
<1>3. CASE DeliverToChild
  <2>1. child.handler \in Handler
    BY DEF TypeOK, Child
  <2>2. files' \in [File -> Content]
    BY <1>3, <2>1, HandledType, WithoutType DEF DeliverToChild
  <2>3. child' \in Child
    BY <1>3 DEF DeliverToChild, TypeOK, Child
  <2> QED BY <1>3, <2>2, <2>3 DEF DeliverToChild, TypeOK, opts
<1> QED BY <1>1, <1>2, <1>3

\* Every step keeps the state well typed.
LEMMA TypeNext == TypeOK /\ [Next]_vars => TypeOK'
<1> SUFFICES ASSUME TypeOK, [Next]_vars PROVE TypeOK'
  OBVIOUS
<1>1. CASE UNCHANGED vars
  BY <1>1 DEF TypeOK, vars, opts, signals
<1>2. CASE Next
  BY <1>1, <1>2, TypePasses, TypeAssembly, TypeChildren, TypeSignals
     DEF Next, Main, Terminated
<1> QED BY <1>1, <1>2

\* The state is well typed at the start.
LEMMA TypeInit == Init => TypeOK
BY DriverAssumption
   DEF Init, TypeOK, PC, Flags, File, Content, Handler, Child, NoChild, DriverAssumption

(***************************************************************************)
(* The inductive invariant.                                                *)
(***************************************************************************)
\* What a step of the child leaves, and does, to the child.
LEMMA ChildFields ==
  ASSUME TypeOK, NEW prog, NEW p, NEW q, NEW content, ChildGoes(prog, p, q, content)
  PROVE  /\ child.prog = prog /\ child.state = p
         /\ child'.prog = prog /\ child'.state = q
         /\ files' = content
         /\ UNCHANGED <<pc, opts, asm_file, signals>>
BY DEF TypeOK, Child, ChildGoes, ChildAt

\* The options and the passes of the compiler: neither a handler nor a child yet, and no
\* file but the one of -r.
LEMMA PassesKeep ==
  ASSUME DriverInv, TypeOK',
         ParseOption \/ ParseOptionExits \/ OptionsDone \/ OpenInput \/ Compile \/ Validate
  PROVE  DriverInv'
<1> USE DEF DriverInv, OptionsRead, ChildInStep, FilesInStep, OutputMade,
            SuccessMeansOutput, SuccessMeansRun
<1> USE DEF Starting, Writing, Compiling, Executing, Gone, Alive, NoChild, TypeOK,
            At, Goes, opts, signals
<1>1. CASE ParseOption
  BY <1>1, FlagType DEF ParseOption, Flags, File
<1>2. CASE ParseOptionExits
  BY <1>2 DEF ParseOptionExits
<1>3. CASE OptionsDone
  BY <1>3 DEF OptionsDone, Flags
<1>4. CASE OpenInput
  BY <1>4 DEF OpenInput, OutputIfRun, Without, File
<1>5. CASE Compile
  BY <1>5 DEF Compile
<1>6. CASE Validate
  BY <1>6 DEF Validate, OutputIfRun, Without, File
<1> QED BY <1>1, <1>2, <1>3, <1>4, <1>5, <1>6

\* The assembly is created, and goes to one file: the temporary one, the output, or none.
LEMMA AssemblyKeeps ==
  ASSUME DriverInv, TypeOK', OpenAsm \/ CatchAsm \/ Generate
  PROVE  DriverInv'
<1> USE DEF DriverInv, OptionsRead, ChildInStep, FilesInStep, OutputMade,
            SuccessMeansOutput, SuccessMeansRun
<1> USE DEF Starting, Writing, Compiling, Executing, Gone, Alive, NoChild, TypeOK,
            At, Goes, opts, signals, File, Flags
<1>1. CASE OpenAsm
  BY <1>1 DEF OpenAsm, OutputIfRun, Without
<1>2. CASE CatchAsm
  BY <1>2 DEF CatchAsm, Catch
<1>3. CASE Generate
  BY <1>3 DEF Generate, Written, OutputIfRun, Without
<1> QED BY <1>1, <1>2, <1>3

\* main with its two children: it waits for each before it looks at what it has left.
LEMMA MainKeeps ==
  ASSUME DriverInv, TypeOK',
         \/ ForkGcc \/ CatchOut \/ WaitGcc \/ CheckGcc
         \/ ForkProgram \/ WaitProgram \/ FreeOutput \/ UnlinkFreed
  PROVE  DriverInv'
<1> USE DEF DriverInv, OptionsRead, ChildInStep, FilesInStep, OutputMade,
            SuccessMeansOutput, SuccessMeansRun
<1> USE DEF Starting, Writing, Compiling, Executing, Gone, Alive, NoChild, TypeOK,
            At, Goes, Fork, Catch, opts, signals, File, Flags, Without
<1>1. CASE ForkGcc
  BY <1>1 DEF ForkGcc
<1>2. CASE CatchOut
  BY <1>2 DEF CatchOut
<1>3. CASE WaitGcc
  BY <1>3 DEF WaitGcc
<1>4. CASE CheckGcc
  BY <1>4 DEF CheckGcc, GccDone
<1>5. CASE ForkProgram
  BY <1>5 DEF ForkProgram
<1>6. CASE WaitProgram
  BY <1>6 DEF WaitProgram
<1>7. CASE FreeOutput
  BY <1>7 DEF FreeOutput
<1>8. CASE UnlinkFreed
  BY <1>8 DEF UnlinkFreed
<1> QED BY <1>1, <1>2, <1>3, <1>4, <1>5, <1>6, <1>7, <1>8

\* What the children do: they remove the temporary assembly and the output, and gcc
\* makes the output when it succeeds.
LEMMA ChildKeeps ==
  ASSUME DriverInv, TypeOK', ExecGcc \/ GccEnds \/ ExecProgram \/ ProgramEnds
  PROVE  DriverInv'
<1> USE DEF DriverInv, OptionsRead, ChildInStep, FilesInStep, OutputMade,
            SuccessMeansOutput, SuccessMeansRun
<1> USE DEF Starting, Writing, Compiling, Executing, Gone, Alive, NoChild, TypeOK,
            opts, signals, File, Flags, Without
<1>1. CASE ExecGcc
  BY <1>1, ChildFields DEF ExecGcc
<1>2. CASE GccEnds
  <2>1. CASE ChildGoes("gcc", "running", "succeeded", [files EXCEPT ![output_filename] = "exe"])
    BY <2>1, ChildFields
  <2>2. ASSUME NEW fs \in SUBSET {output_filename},
               ChildGoes("gcc", "running", "failed", Without(fs))
        PROVE  DriverInv'
    BY <2>2, ChildFields
  <2> QED BY <1>2, <2>1, <2>2 DEF GccEnds
<1>3. CASE ExecProgram
  BY <1>3, ChildFields DEF ExecProgram
<1>4. CASE ProgramEnds
  BY <1>4, ChildFields DEF ProgramEnds
<1> QED BY <1>1, <1>2, <1>3, <1>4

\* Ctrl-C, at whatever moment and in whichever order it is delivered.
LEMMA SignalsKeep ==
  ASSUME DriverInv, TypeOK', Interrupt \/ DeliverToDriver \/ DeliverToChild
  PROVE  DriverInv'
<1> USE DEF DriverInv, OptionsRead, ChildInStep, FilesInStep, OutputMade,
            SuccessMeansOutput, SuccessMeansRun
<1> USE DEF Starting, Writing, Compiling, Executing, Gone, Alive, NoChild, TypeOK,
            opts, signals, File, Flags, Child, Handler, Handled, Without
<1>1. CASE Interrupt
  BY <1>1 DEF Interrupt
<1>2. CASE DeliverToDriver
  BY <1>2 DEF DeliverToDriver, DriverHandles
<1>3. CASE DeliverToChild
  BY <1>3 DEF DeliverToChild
<1> QED BY <1>1, <1>2, <1>3

\* The invariant holds at the start, and every step keeps it.
LEMMA DriverInvInit == Init => DriverInv
BY TypeInit
   DEF Init, DriverInv, OptionsRead, ChildInStep, FilesInStep, OutputMade,
       SuccessMeansOutput, SuccessMeansRun, Starting, Writing, Compiling, Executing,
       Gone, Alive, NoChild, File

LEMMA DriverInvNext == DriverInv /\ [Next]_vars => DriverInv'
<1> SUFFICES ASSUME DriverInv, [Next]_vars PROVE DriverInv'
  OBVIOUS
<1>1. TypeOK'
  BY TypeNext DEF DriverInv
<1>2. CASE UNCHANGED vars
  BY <1>2
     DEF DriverInv, TypeOK, OptionsRead, ChildInStep, FilesInStep, OutputMade,
         SuccessMeansOutput, SuccessMeansRun, Gone, Alive, vars, opts, signals
<1>3. CASE Next
  BY <1>1, <1>2, <1>3, PassesKeep, AssemblyKeeps, MainKeeps, ChildKeeps, SignalsKeep
     DEF Next, Main, Terminated
<1> QED BY <1>2, <1>3

(***************************************************************************)
(* The theorems.                                                           *)
(***************************************************************************)
\* The inductive invariant of the driver: what main has done so far says which options,
\* handler, child and files there are.
THEOREM DriverInvariant == Spec => []DriverInv
BY DriverInvInit, DriverInvNext, PTL DEF Spec

\* The variables of the driver keep their types.
THEOREM DriverTypeCorrect == Spec => []TypeOK
<1>1. DriverInv => TypeOK
  BY DEF DriverInv
<1> QED BY <1>1, DriverInvariant, PTL

\* The temporary assembly is gone when main comes to an exit of its own, whatever went
\* wrong and however often and wherever it was interrupted (unlink(asm_filename) of
\* main, of the child that cannot run gcc, and of unlink_asmfile).
THEOREM TemporaryAssemblyRemoved == Spec => []AsmRemoved
<1>1. DriverInv => AsmRemoved
  BY DEF DriverInv, FilesInStep, AsmRemoved, Writing
<1> QED BY <1>1, DriverInvariant, PTL

\* Neither gcc nor the compiled program goes on without the driver: SIGINT ends the
\* driver only before the first handler is installed, when it has no child.
THEOREM ChildrenWaitedFor == Spec => []NoOrphan
<1>1. DriverInv => NoOrphan
  BY DEF DriverInv, ChildInStep, NoOrphan, Gone
<1> QED BY <1>1, DriverInvariant, PTL

\* A driver that was not interrupted and reports success has made the file that was asked
\* for: gcc has succeeded, or the assembly was written to the output.
THEOREM OutputIsMade == Spec => []SuccessMeansOutput
<1>1. DriverInv => SuccessMeansOutput
  BY DEF DriverInv
<1> QED BY <1>1, DriverInvariant, PTL

\* Success under -r means that the program gcc made was forked to run.
THEOREM ProgramIsRun == Spec => []SuccessMeansRun
<1>1. DriverInv => SuccessMeansRun
  BY DEF DriverInv
<1> QED BY <1>1, DriverInvariant, PTL

\* The output file keeps what it held until the program is accepted, under -e, and
\* under -r without -o: no handler, child or error exit touches it.
THEOREM OutputIsKept == Spec => KeepsOutput
<1> DEFINE Step ==
      files'["output"] # files["output"] =>
        /\ output_filename = "output"
        /\ ~ flags.run => /\ ~ flags.echo_output
                          /\ pc \notin {"options", "input", "compile", "validate"}
<1>1. DriverInv /\ [Next]_vars => [Step]_vars
  <2> SUFFICES ASSUME DriverInv, Next, files'["output"] # files["output"] PROVE Step
    OBVIOUS
  <2> USE DEF DriverInv, OptionsRead, ChildInStep, FilesInStep, Starting, Writing,
              Compiling, Executing, Gone, Alive, NoChild, TypeOK, File, Flags, Without
  <2>1. CASE ParseOption \/ ParseOptionExits \/ OptionsDone \/ OpenInput \/ Compile \/ Validate
    BY <2>1, FlagType
       DEF ParseOption, ParseOptionExits, OptionsDone, OpenInput, Compile, Validate,
           OutputIfRun, At, Goes
  <2>2. CASE OpenAsm \/ CatchAsm \/ Generate
    BY <2>2 DEF OpenAsm, CatchAsm, Generate, Written, OutputIfRun, At, Goes, Catch
  <2>3. CASE ForkGcc \/ CatchOut \/ WaitGcc \/ CheckGcc
    BY <2>3 DEF ForkGcc, CatchOut, WaitGcc, CheckGcc, GccDone, At, Goes, Fork, Catch
  <2>4. CASE ForkProgram \/ WaitProgram \/ FreeOutput \/ UnlinkFreed
    BY <2>4 DEF ForkProgram, WaitProgram, FreeOutput, UnlinkFreed, At, Goes, Fork
  <2>5. ASSUME NEW prog \in {"gcc", "program"}, NEW p \in {"forked", "running"}, NEW q,
               NEW content, ChildGoes(prog, p, q, content),
               \A x \in File : x = output_filename \/ x = "asm_temp" \/ content[x] = files[x]
        PROVE  Step
    <3>1. child.prog = prog /\ child.state = p /\ files' = content
      BY <2>5, ChildFields
    <3> QED BY <2>5, <3>1
  <2>6. CASE ExecGcc \/ GccEnds \/ ExecProgram \/ ProgramEnds
    BY <2>5, <2>6 DEF ExecGcc, GccEnds, ExecProgram, ProgramEnds
  <2>7. CASE Interrupt \/ DeliverToDriver
    BY <2>7 DEF Interrupt, DeliverToDriver, DriverHandles, Handled, Handler, PC
  <2>8. CASE DeliverToChild
    BY <2>8 DEF DeliverToChild, Handled, Handler, Child
  <2> QED BY <2>1, <2>2, <2>3, <2>4, <2>6, <2>7, <2>8 DEF Next, Main, Terminated, vars
<1> QED BY <1>1, DriverInvariant, PTL DEF Spec, KeepsOutput

\* The error exits of main remove the temporary file of -r, but for those named.
THEOREM RunTempIsRemoved == Spec => RunTempRemoved
<1> DEFINE Step ==
      pc # pc' /\ pc' = "failure" /\ files'["run_temp"] # "none" =>
        pc \in {"options", "compile", "fork_gcc"} \/ output_filename # "run_temp"
<1>1. DriverInv /\ [Next]_vars => [Step]_vars
  <2> SUFFICES ASSUME DriverInv, Next, pc # pc', pc' = "failure",
                      output_filename = "run_temp"
               PROVE  pc \in {"options", "compile", "fork_gcc"} \/ files'["run_temp"] = "none"
    OBVIOUS
  <2>1. flags.run
    BY DEF DriverInv, OptionsRead
  <2>2. CASE Main
    BY <2>1, <2>2
       DEF Main, ParseOption, ParseOptionExits, OptionsDone, OpenInput, Compile, Validate,
           OpenAsm, CatchAsm, Generate, ForkGcc, CatchOut, WaitGcc, CheckGcc, GccDone,
           ForkProgram, WaitProgram, FreeOutput, UnlinkFreed, At, Goes, Catch, Fork,
           Without, OutputIfRun, File
  <2>3. CASE ~ Main
    BY <2>3
       DEF Next, Terminated, vars, ExecGcc, GccEnds, ExecProgram, ProgramEnds, ChildGoes,
           Interrupt, DeliverToDriver, DriverHandles, DeliverToChild
  <2> QED BY <2>2, <2>3
<1> QED BY <1>1, DriverInvariant, PTL DEF Spec, RunTempRemoved

=============================================================================
