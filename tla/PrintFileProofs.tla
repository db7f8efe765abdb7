-------------------------- MODULE PrintFileProofs ---------------------------
(***************************************************************************)
(* Exit status 0 means complete files, and nobody writes to them once Run  *)
(* has succeeded.  Complete speaks of files and exit status      *)
(* only; the invariant that implies it says what each goroutine knows at   *)
(* each of its steps and what a result in the channel stands for.          *)
(***************************************************************************)
EXTENDS PrintFile, TLAPS

TypeOK ==
  /\ usage \in BOOLEAN /\ types \in BOOLEAN /\ tests \in BOOLEAN
  /\ skip \in BOOLEAN /\ err \in BOOLEAN
  /\ main \in {"flags", "parse", "generate", "format", "receive", "return"}
  /\ worker \in {"none", "format", "log", "end"}
  /\ step \in [Writers -> Steps]
  /\ file \in [Writers -> {"old", "torn", "written", "formatted"}]
  /\ res \in {Nothing, "ok", "failed"}
  /\ exit \in {0, 1, 2, Running}

(* A goroutine that is through with format has left a complete file.       *)
Formatted == \A w \in Writers : /\ step[w] = "ok" => Done(w)
                                /\ step[w] = "gci" => ~skip

(* The goroutine is through with format when it sends, and it sends what   *)
(* format returned.                                                        *)
Sent == /\ worker \in {"log", "end"} => step["methods"] \in {"ok", "failed"}
        /\ res # Nothing => worker \in {"log", "end"} /\ res = step["methods"]

(* A file nobody has begun to format is what it was.                       *)
Untouched == /\ worker = "none" => file["methods"] = "old"
             /\ ~tests \/ worker = "none" => file["tests"] = "old"

(* What the main goroutine knows before it starts the other, while it      *)
(* formats, when it waits and when it returns nil.                         *)
Known == /\ main \in {"flags", "parse", "generate"} => worker = "none"
         /\ main \in {"generate", "format", "receive"} => types
         /\ main = "format" => tests /\ worker # "none"
         /\ main = "receive" /\ tests => step["tests"] = "ok"
         /\ main = "return" /\ ~err /\ types => /\ step["methods"] = "ok"
                                                /\ worker \in {"log", "end"}
                                                /\ tests => step["tests"] = "ok"
         /\ main = "return" /\ ~err /\ ~types => worker = "none"
         /\ exit = 0 => main = "return" /\ ~err

IInv == TypeOK /\ Formatted /\ Sent /\ Untouched /\ Known

-----------------------------------------------------------------------------
(* The invariant holds before anything is generated.                       *)
LEMMA InitIInv == Init => IInv
<1> SUFFICES ASSUME Init PROVE IInv
  OBVIOUS
<1>1. \A w \in Writers : step[w] \in {"open", "process"}
  BY DEF Init, Writers
<1>2. step \in [Writers -> Steps]
  BY <1>1 DEF Init, Steps
<1>3. TypeOK
  BY <1>2, Zenon DEF Init, TypeOK, Running
<1>4. Formatted
  BY <1>1 DEF Formatted
<1>5. Sent /\ Untouched /\ Known
  BY DEF Init, Sent, Untouched, Known, Writers, Nothing, Running
<1> QED
  BY <1>3, <1>4, <1>5 DEF IInv

(* Every step of format keeps the invariant: what the main goroutine knows *)
(* of the other one's file is about a format that has returned.            *)
LEMMA FormatIInv == ASSUME IInv, exit = Running, NEW w \in Writers, Format(w)
                    PROVE  IInv'
<1>1. CASE Process(w)
  BY <1>1 DEF IInv, TypeOK, Formatted, Sent, Untouched, Known, Done, Process, Advance, InFormat, input, Writers, Steps, Running
<1>2. CASE Open(w)
  BY <1>2 DEF IInv, TypeOK, Formatted, Sent, Untouched, Known, Done, Open, Advance, InFormat, input, Writers, Steps, Running
<1>3. CASE Write(w)
  BY <1>3 DEF IInv, TypeOK, Formatted, Sent, Untouched, Known, Done, Write, Advance, InFormat, input, Writers, Steps, Running
<1>4. CASE Gci(w)
  BY <1>4 DEF IInv, TypeOK, Formatted, Sent, Untouched, Known, Done, Gci, Advance, InFormat, input, Writers, Steps, Running
<1>5. CASE Fail(w)
  BY <1>5 DEF IInv, TypeOK, Formatted, Sent, Untouched, Known, Done, Fail, Advance, InFormat, input, Writers, Steps, Running
<1> QED BY <1>1, <1>2, <1>3, <1>4, <1>5 DEF Format

(* Every step of the process keeps the invariant.                          *)
LEMMA StepIInv == IInv /\ [Next]_vars => IInv'
<1> SUFFICES ASSUME IInv, [Next]_vars PROVE IInv'
  OBVIOUS
<1> USE DEF IInv, TypeOK, Formatted, Sent, Untouched, Known, Done, input, Writers, Steps, Nothing, Running
<1>0. CASE UNCHANGED vars
  BY <1>0 DEF vars
<1>1. CASE exit = Running /\ Flags
  BY <1>1 DEF Flags
<1>2. CASE exit = Running /\ ParseFails
  BY <1>2 DEF ParseFails
<1>12. CASE exit = Running /\ ParsePanics
  BY <1>12 DEF ParsePanics
<1>3. CASE exit = Running /\ Parse
  BY <1>3 DEF Parse
<1>4. CASE exit = Running /\ GenerateFails
  BY <1>4 DEF GenerateFails
<1>5. CASE exit = Running /\ Generate
  BY <1>5 DEF Generate
<1>6. CASE exit = Running /\ \E w \in Writers : Format(w)
  BY <1>6, FormatIInv
<1>7. CASE exit = Running /\ TestsDone
  BY <1>7, Zenon DEF TestsDone
<1>8. CASE exit = Running /\ Receive
  BY <1>8, Zenon DEF Receive
<1>9. CASE exit = Running /\ Exit
  BY <1>9 DEF Exit
<1>10. CASE exit = Running /\ Send
  BY <1>10 DEF Send
<1>11. CASE exit = Running /\ Log
  BY <1>11 DEF Log
<1> QED
  BY <1>0, <1>1, <1>2, <1>3, <1>4, <1>5, <1>6, <1>7, <1>8, <1>9, <1>10, <1>11, <1>12 DEF Next, Main, Worker

(* Exit status 0 means that every file asked for is complete and every     *)
(* other file what it was, all of them if there are no types (Complete).   *)
THEOREM ExitZeroIsComplete == Spec => []Complete
<1>1. IInv => Complete
  BY DEF IInv, TypeOK, Formatted, Untouched, Known, Complete, Asked, Writers
<1> QED
  BY <1>1, InitIInv, StepIInv, PTL DEF Spec

(* No file changes once Run is about to return nil (Quiescent).            *)
THEOREM NoLateWrites == Spec => Quiescent
<1>1. IInv /\ [Next]_vars => [main = "return" /\ ~err => UNCHANGED file]_vars
  <2> SUFFICES ASSUME IInv, Next, main = "return", ~err PROVE UNCHANGED file
    OBVIOUS
  <2>1. ~InFormat("methods") /\ ~InFormat("tests")
    BY DEF IInv, TypeOK, Known, InFormat
  <2>2. ~Format("methods") /\ ~Format("tests")
    BY <2>1 DEF Format, Process, Open, Write, Gci, Fail, Advance
  <2> QED
    BY <2>2 DEF Next, Main, Worker, Flags, ParseFails, ParsePanics, Parse,
          GenerateFails, Generate, TestsDone, Receive, Exit, Send, Log
<1> QED
  BY <1>1, InitIInv, StepIInv, PTL DEF Spec, Quiescent
=============================================================================
