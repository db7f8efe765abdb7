----------------------------- MODULE SkipSteps ------------------------------
(***************************************************************************)
(* Skip, call by call (read_bytes.go).  Skip calls itself for each element *)
(* of an array or map, so its state is the position reached in the message *)
(* and, for every call in progress, the asz elements its loop has still to *)
(* skip: a stack whose depth is the depth of Go's recursion.  The bottom   *)
(* entry stands for the caller, which wants one object skipped.            *)
(***************************************************************************)
EXTENDS Decode

CONSTANT Messages   \* the byte sequences Skip may be given

ASSUME MessagesAssumption == Messages \subseteq Seq(Byte)

VARIABLES msg,    \* the argument b of the outermost call
          pos,    \* len(msg) - len(b) for the b at hand
          todo,   \* asz of every call in progress, outermost first
          err,    \* what the calls return: "none" until one fails
          calls   \* history: how many calls have begun, up to MaxCalls

vars == <<msg, pos, todo, err, calls>>

Depth == Len(todo)
Top   == todo[Len(todo)]

(* The history stops counting where CallsBounded is long violated.         *)
MaxCalls == Len(msg) + 2
OneMore  == IF calls < MaxCalls THEN calls + 1 ELSE calls

Init == /\ msg \in Messages
        /\ pos = 0
        /\ todo = <<1>>
        /\ err = "none"
        /\ calls = 0

(* Mutants: the length is not checked; the elements are read at the same   *)
(* place.                                                                  *)
Enter_Unchecked ==
  LET g == getSize(From(msg, pos))
  IN /\ err = "none" /\ Top > 0
     /\ g.err = "none"
     /\ pos' = pos + g.sz
     /\ todo' = Append(todo, g.asz)
     /\ calls' = OneMore
     /\ UNCHANGED <<msg, err>>

Enter_SameSlice ==
  LET g == getSize(From(msg, pos))
  IN /\ err = "none" /\ Top > 0
     /\ g.err = "none" /\ g.sz <= Len(msg) - pos
     /\ todo' = Append(todo, g.asz)
     /\ calls' = OneMore
     /\ UNCHANGED <<msg, pos, err>>

(* Skip(b) is called for the next element and moves over its prefix.       *)
Enter == LET g == getSize(From(msg, pos))
         IN /\ err = "none" /\ Top > 0
            /\ g.err = "none" /\ g.sz <= Len(msg) - pos
            /\ pos' = pos + g.sz
            /\ todo' = Append(todo, g.asz)
            /\ calls' = OneMore
            /\ UNCHANGED <<msg, err>>

(* Mutant: the loop goes on after an element that failed.                  *)
Fail_Continues ==
  LET g == getSize(From(msg, pos))
  IN /\ err = "none" /\ Top > 0
     /\ g.err # "none" \/ g.sz > Len(msg) - pos
     /\ todo' = [todo EXCEPT ![Depth] = @ - 1]
     /\ calls' = OneMore
     /\ UNCHANGED <<msg, pos, err>>

(* The call fails, and every call in progress returns its error.           *)
Fail == LET g == getSize(From(msg, pos))
        IN /\ err = "none" /\ Top > 0
           /\ err' = IF g.err # "none" THEN g.err ELSE "short"
           /\ g.err # "none" \/ g.sz > Len(msg) - pos
           /\ calls' = OneMore
           /\ UNCHANGED <<msg, pos, todo>>

(* Mutant: asz-- is missing.                                               *)
Return_NoCount ==
  /\ err = "none" /\ Depth > 1 /\ Top = 0
  /\ todo' = SubSeq(todo, 1, Depth - 1)
  /\ UNCHANGED <<msg, pos, err, calls>>

(* The loop of a call is done: it returns, and its caller does asz--.       *)
Return == /\ err = "none" /\ Depth > 1 /\ Top = 0
          /\ todo' = [i \in 1..Depth - 1 |-> IF i = Depth - 1 THEN todo[i] - 1 ELSE todo[i]]
          /\ UNCHANGED <<msg, pos, err, calls>>

Done == err # "none" \/ (Depth = 1 /\ Top = 0)

Next == Enter \/ Fail \/ Return

Spec == Init /\ [][Next]_vars /\ WF_vars(Next)

-----------------------------------------------------------------------------
TypeOK == /\ msg \in Seq(Byte)
          /\ pos \in Nat
          /\ todo \in Seq(Nat) /\ todo # <<>>
          /\ err \in {"none", "short", "prefix"}
          /\ calls \in Nat

(* The slice expression b[sz:] never runs past the message.                *)
InBounds == pos <= Len(msg)

(***************************************************************************)
(* The recursion is no deeper than the bytes it has passed: whatever the   *)
(* counts in the message say, a call that goes on to elements has moved    *)
(* over a byte.  Only the last call may not have (on a platform whose      *)
(* uintptr wraps).                                                         *)
(***************************************************************************)
DepthBounded == Depth <= pos + 2 /\ (Top > 0 => Depth <= pos + 1)

(***************************************************************************)
(* Skip does as much work as there are bytes, whatever counts the headers  *)
(* announce: every call but one that fails has moved over a byte, and no   *)
(* call follows one that fails.  The exception is a message with a 32-bit  *)
(* length that a uintptr of 32 bits wraps to size 0: Skip takes an element *)
(* of no bytes for it, as often as the count of its array says.            *)
(***************************************************************************)
Moves(b) == \A p \in 0..Len(b) : LET g == getSize(From(b, p)) IN g.err = "none" => g.sz > 0

CallsBounded == Moves(msg) => calls <= pos + (IF err = "none" THEN 0 ELSE 1)

(* When Skip returns, it returns what the recursive function of module     *)
(* Decode, which the other models use, says.                               *)
ComputesSkip == Done => LET r == Skip(msg)
                        IN r.err.kind = err /\ r.o = From(msg, pos)

(* Skip returns.                                                           *)
Terminates == <>Done
=============================================================================
