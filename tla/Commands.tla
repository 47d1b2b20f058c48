------------------------------- MODULE Commands -------------------------------
(***************************************************************************)
(* The commands that read a file and write another, each followed by       *)
(* `mcap doctor` on its output, `mcap doctor` on the file itself, and the  *)
(* commands that show a file.                                              *)
(***************************************************************************)
EXTENDS Recover, Filter, Doctor, Inspect

allVars == <<vars, doctorVars>>

Init ==
    /\ input \in Inputs /\ command \in Commands
    /\ stage = "start" /\ todo = <<>> /\ local = <<>>
    /\ writer = NoWriter /\ result = "none"
    /\ DoctorInit

Transcodes == RecoverStart \/ RecoverNext
              \/ FilterStart \/ FilterLast \/ FilterIndexed \/ FilterOthers \/ FilterLinear
              \/ SortStart \/ SortMessages
              \/ Info \/ CatStart \/ CatIndexed \/ CatLinear

\* The output of a command, also of one that failed.
Output == IF writer.output = "empty" THEN <<Broken>> ELSE FinishedFile(writer)

ExamineOutput ==
    /\ stage = "ended" /\ writer.output # "none"
    /\ Examine(Output, FALSE)
    /\ UNCHANGED vars

ExamineInput ==
    /\ stage = "start" /\ command.fn = "doctor"
    /\ Examine(input, command.strict)
    /\ UNCHANGED vars

Next == \/ Transcodes /\ UNCHANGED doctorVars
        \/ ExamineOutput
        \/ ExamineInput
        \/ DoctorNext /\ UNCHANGED vars

\* Each command is a program that runs by itself.
Spec == Init /\ [][Next]_allVars /\ WF_allVars(Next)
===============================================================================
