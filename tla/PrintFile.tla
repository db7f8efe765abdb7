----------------------------- MODULE PrintFile ------------------------------
(***************************************************************************)
(* One run of the generator, from the flags to the exit of the process     *)
(* (main.go, printer/print.go).  Run parses the source, and is done if no  *)
(* type in it asks for code.  PrintFile formats and writes the methods in  *)
(* a goroutine and the tests itself, then waits for the goroutine on a     *)
(* channel of capacity 1.  When the process exits the goroutine is gone,   *)
(* wherever it was.                                                        *)
(*                                                                         *)
(* A file is "old" (whatever an earlier run left), "torn" from the moment  *)
(* WriteFile truncates it to the moment all data is written, "written", or *)
(* "formatted" once gci has arranged its imports.                          *)
(***************************************************************************)
EXTENDS Naturals

VARIABLES
  usage,    \* the flags name a source and methods to generate
  types,    \* the FileSet of the source has Identities
  tests,    \* mode has gen.Test: generate returns a buffer of tests
  skip,     \* -skip-format
  main,     \* where the main goroutine is
  worker,   \* where the goroutine of goformat is
  step,     \* the step of format each of the two is at
  file,     \* the two files on disk
  res,      \* the channel: what has been sent and not received
  err,      \* what Run returns
  exit      \* exit status of the process, Running before that

input == <<usage, types, tests, skip>>
vars  == <<input, main, worker, step, file, res, err, exit>>

Writers == {"methods", "tests"}
Steps   == {"process", "open", "write", "gci", "ok", "failed"}
Running == 3
Nothing == "nothing"

Init ==
  /\ usage \in BOOLEAN
  /\ types \in BOOLEAN
  /\ tests \in BOOLEAN
  /\ skip \in BOOLEAN
  /\ main = "flags"
  /\ worker = "none"
  /\ step = [w \in Writers |-> IF skip THEN "open" ELSE "process"]
  /\ file = [w \in Writers |-> "old"]
  /\ res = Nothing
  /\ err = FALSE
  /\ exit = Running

(* main: "No file to parse.", "No methods to generate; -marshal=false".    *)
Flags ==
  /\ main = "flags"
  /\ \/ usage /\ main' = "parse" /\ UNCHANGED exit
     \/ ~usage /\ exit' = 1 /\ UNCHANGED main
  /\ UNCHANGED <<input, worker, step, file, res, err>>

(* parse.File returns an error.                                            *)
ParseFails ==
  /\ main = "parse"
  /\ main' = "return"
  /\ err' = TRUE
  /\ UNCHANGED <<input, worker, step, file, res, exit>>

(* A directive that cannot be applied, or a type inlined into itself, ends *)
(* the process with status 2.                                              *)
ParsePanics ==
  /\ main = "parse"
  /\ exit' = 2
  /\ UNCHANGED <<input, main, worker, step, file, res, err>>

(* Run: "No types requiring code generation were found!" is a success.     *)
Parse ==
  /\ main = "parse"
  /\ main' = IF types THEN "generate" ELSE "return"
  /\ UNCHANGED <<input, worker, step, file, res, err, exit>>

(* generate: an error of PrintTo ends PrintFile before any file is touched. *)
GenerateFails ==
  /\ main = "generate"
  /\ main' = "return"
  /\ err' = TRUE
  /\ UNCHANGED <<input, worker, step, file, res, exit>>

(* goformat starts the goroutine.                                          *)
Generate ==
  /\ main = "generate"
  /\ main' = IF tests THEN "format" ELSE "receive"
  /\ worker' = "format"
  /\ UNCHANGED <<input, step, file, res, err, exit>>

-----------------------------------------------------------------------------
(***************************************************************************)
(* format, by either goroutine: imports.Process (not with -skip-format),   *)
(* WriteFile, which truncates the file before it writes, and gci.  Any of  *)
(* them may fail; a write that fails leaves a torn file.                   *)
(***************************************************************************)
InFormat(w) == IF w = "methods" THEN worker = "format" ELSE main = "format"

Advance(w, from, to) ==
  /\ InFormat(w)
  /\ step[w] = from
  /\ step' = [step EXCEPT ![w] = to]
  /\ UNCHANGED <<input, main, worker, res, err, exit>>

Process(w) == Advance(w, "process", "open") /\ UNCHANGED file
Open(w)    == Advance(w, "open", "write") /\ file' = [file EXCEPT ![w] = "torn"]
Write(w)   == Advance(w, "write", IF skip THEN "ok" ELSE "gci")
                /\ file' = [file EXCEPT ![w] = "written"]
Gci(w)     == Advance(w, "gci", "ok") /\ file' = [file EXCEPT ![w] = "formatted"]
Fail(w)    == (\E s \in {"process", "open", "write", "gci"} : Advance(w, s, "failed")) /\ UNCHANGED file

Format(w) == Process(w) \/ Open(w) \/ Write(w) \/ Gci(w) \/ Fail(w)

-----------------------------------------------------------------------------
Send_OnSuccess ==
  /\ worker = "format"
  /\ step["methods"] \in {"ok", "failed"}
  /\ res = Nothing
  /\ res' = IF step["methods"] = "ok" THEN "ok" ELSE Nothing
  /\ worker' = "log"
  /\ UNCHANGED <<input, main, step, file, err, exit>>

Send_Early ==
  /\ worker = "format"
  /\ res = Nothing /\ main = "receive"
  /\ res' = "ok"
  /\ UNCHANGED <<input, main, worker, step, file, err, exit>>

(* end <- format(...): the channel holds one result, so this never blocks. *)
Send ==
  /\ worker = "format"
  /\ step["methods"] \in {"ok", "failed"}
  /\ res = Nothing
  /\ res' = step["methods"]
  /\ worker' = "log"
  /\ UNCHANGED <<input, main, step, file, err, exit>>

(* The log line comes after the send, whatever format returned.            *)
Log ==
  /\ worker = "log"
  /\ worker' = "end"
  /\ UNCHANGED <<input, main, step, file, res, err, exit>>

(* An error in the tests returns without waiting for the goroutine.        *)
TestsDone ==
  /\ main = "format"
  /\ \/ /\ step["tests"] = "ok"
        /\ main' = "receive"
        /\ UNCHANGED err
     \/ /\ step["tests"] = "failed"
        /\ main' = "return"
        /\ err' = TRUE
  /\ UNCHANGED <<input, worker, step, file, res, exit>>

Receive_Unchecked ==
  /\ main = "receive"
  /\ res # Nothing
  /\ main' = "return"
  /\ err' = FALSE
  /\ res' = Nothing
  /\ UNCHANGED <<input, worker, step, file, exit>>

(* err = <-res                                                             *)
Receive ==
  /\ main = "receive"
  /\ res # Nothing
  /\ main' = "return"
  /\ err' = (res = "failed")
  /\ res' = Nothing
  /\ UNCHANGED <<input, worker, step, file, exit>>

(* main: os.Exit(1) on an error, the end of main otherwise.                *)
Exit ==
  /\ main = "return"
  /\ exit' = IF err THEN 1 ELSE 0
  /\ UNCHANGED <<input, main, worker, step, file, res, err>>

Main   == Flags \/ ParseFails \/ ParsePanics \/ Parse
          \/ GenerateFails \/ Generate \/ Format("tests") \/ TestsDone \/ Receive \/ Exit
Worker == Format("methods") \/ Send \/ Log

(* Nothing happens after the exit of the process.                          *)
Next == exit = Running /\ (Main \/ Worker)

(* The Go scheduler runs a goroutine that can run, while there is a process. *)
Fairness == WF_vars(exit = Running /\ Main) /\ WF_vars(exit = Running /\ Worker)

Spec == Init /\ [][Next]_vars /\ Fairness

-----------------------------------------------------------------------------
Done(w) == file[w] = IF skip THEN "written" ELSE "formatted"

(***************************************************************************)
(* Exit status 0 means that every file is as the run should leave it,      *)
(* whichever goroutine was faster and whatever failed: the files asked for *)
(* are complete and formatted, and the others, or all if no type asks for  *)
(* code, are what they were.  In particular no torn file stays behind      *)
(* unless the exit status tells of it.                                     *)
(***************************************************************************)
Asked(w) == types /\ (w = "tests" => tests)

Complete == exit = 0 => \A w \in Writers : IF Asked(w) THEN Done(w) ELSE file[w] = "old"

(* Once Run has a nil error to return nobody writes to the files any more: *)
(* the goroutine is past its format, or was not started.                   *)
Quiescent == [][main = "return" /\ ~err => UNCHANGED file]_vars

(* The process exits, also when the goroutine fails, and when it is the    *)
(* tests that fail and nobody receives the goroutine's result.             *)
Terminates == <>(exit # Running)
=============================================================================
