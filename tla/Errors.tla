------------------------------- MODULE Errors -------------------------------
(***************************************************************************)
(* Errors on their way up (errors.go).  The reader that fails makes an     *)
(* error; every generated UnmarshalMsg between it and the client passes it *)
(* through WrapError with the names of the fields and the indices it was   *)
(* at.  The client asks for the Cause, for Resumable, and compares with    *)
(* ErrShortBytes.                                                          *)
(*                                                                         *)
(* An error is the sequence of its layers [kind, ctx]: any number of       *)
(* errWrapped and the error they were put around.  A ctx string is the     *)
(* sequence of what stands between its slashes, <<>> for the empty string. *)
(***************************************************************************)
EXTENDS Integers, Sequences, SequencesExt

CONSTANTS Names,      \* field names, indices and map keys, "" among them
          MaxPath,    \* bound: names one decoder passes to WrapError
          MaxDepth    \* bound: decoders between the reader and the client

ASSUME PathAssumption == MaxPath \in Nat

VARIABLES err,    \* the error being returned, <<>> before there is one
          trail   \* history: what each decoder passed to WrapError, outermost first

vars == <<err, trail>>

(* The types with a withContext method, the other implementations of the   *)
(* interface Error, and errors without a Resumable method (those two, and  *)
(* what a client's own code returns).                                      *)
contextError == {"errFatal", "ArrayError", "IntOverflow", "UintOverflow", "UintBelowZero",
                 "TypeError", "ErrUnsupportedType"}
plainError   == {"errShort", "errOverflow", "InvalidPrefixError", "ExtensionTypeError",
                 "ErrNonCanonical", "ErrMissingLessFn"}
otherError   == {"ErrNoField", "ErrTooManyArrayFields", "error"}
Kinds        == contextError \cup plainError \cup otherError

New(kind) == <<[kind |-> kind, ctx |-> <<>>]>>
ErrShortBytes == New("errShort")

resumableDefault == FALSE
resumableKinds == {"ArrayError", "IntOverflow", "UintOverflow", "UintBelowZero", "TypeError",
                   "ErrUnsupportedType", "ExtensionTypeError"}

wrappedResumable_Default(cause, answer) == resumableDefault

(* errWrapped.Resumable, given its cause and what the cause answers.       *)
wrappedResumable(cause, answer) ==
  IF cause.kind \in otherError THEN resumableDefault ELSE answer

Resumable(e) ==
  LET ask[i \in 1..Len(e)] ==
        IF e[i].kind = "errWrapped" THEN wrappedResumable(e[i+1], ask[i+1])
        ELSE IF e[i].kind \in otherError THEN resumableDefault
        ELSE e[i].kind \in resumableKinds
  IN  ask[1]

(* ctxString joins with slashes: one empty name gives the empty string.    *)
ctxString(ctx) == IF ctx = <<"">> THEN <<>> ELSE ctx

addCtx_Inside(ctx, add) == ctx \o add

addCtx(ctx, add) ==
  IF ctx = <<>> THEN add
  ELSE IF add = <<>> THEN <<"">> \o ctx
  ELSE add \o ctx

withContext(e, ctx) ==
  <<[Head(e) EXCEPT !.ctx = IF Head(e).kind = "UintBelowZero" THEN ctx ELSE addCtx(@, ctx)]>>

WrapError_Short(e, ctx) ==
  IF Head(e).kind \in contextError THEN withContext(e, ctxString(ctx))
  ELSE <<[kind |-> "errWrapped", ctx |-> ctxString(ctx)]>> \o e

WrapError(e, ctx) ==
  IF Head(e).kind = "errShort" THEN e
  ELSE IF Head(e).kind \in contextError THEN withContext(e, ctxString(ctx))
  ELSE <<[kind |-> "errWrapped", ctx |-> ctxString(ctx)]>> \o e

Cause_Pointer(e) == e

Cause(e) == IF Head(e).kind = "errWrapped" THEN Tail(e) ELSE e

-----------------------------------------------------------------------------
Init == err = <<>> /\ trail = <<>>

(* A reader, or the generated code itself, returns an error.               *)
Fail(kind) ==
  /\ err = <<>>
  /\ err' = New(kind)
  /\ UNCHANGED trail

(* The decoder that called returns it with its own context.                *)
Wrap(ctx) ==
  /\ err # <<>>
  /\ Len(trail) < MaxDepth
  /\ err' = WrapError(err, ctx)
  /\ trail' = <<ctx>> \o trail

Next == \/ \E kind \in Kinds : Fail(kind)
        \/ \E ctx \in SeqOf(Names, MaxPath) : Wrap(ctx)

Spec == Init /\ [][Next]_vars

-----------------------------------------------------------------------------
Root(e) == Last(e).kind

Named(ctx) == FlattenSeq([i \in 1..Len(ctx) |-> IF ctx[i] = "" THEN <<>> ELSE <<ctx[i]>>])
Context(e) == Named(FlattenSeq([i \in 1..Len(e) |-> e[i].ctx]))

(* However often an error is wrapped, Resumable answers what the error the *)
(* reader made answers: errWrapped passes the question to its cause.       *)
ResumableKept ==
  [][err # <<>> => Resumable(err') = Resumable(err)]_vars

(* A client several decoders up can still compare with ErrShortBytes to    *)
(* learn that more bytes are needed, and no other error compares equal.    *)
ShortIsShort ==
  err # <<>> => (err = ErrShortBytes <=> Root(err) = "errShort")

(* The path an error reports is the path of the decoders it came through,  *)
(* outermost first, whether the names were put in the error (withContext)  *)
(* or around it (errWrapped).  Empty names leave no trace that could be    *)
(* told apart.  The exception is UintBelowZero, which replaces its context *)
(* and so reports the outermost decoder alone.                             *)
ContextKept ==
  err # <<>> /\ trail # <<>> /\ Root(err) # "errShort"
     => Context(err) = Named(IF Root(err) = "UintBelowZero" THEN Head(trail) ELSE FlattenSeq(trail))

(* A client that asks for the Cause as often as there were decoders has    *)
(* the error the reader made, and not one more layer of it is gone.  (One  *)
(* call is not enough: WrapError puts a layer on in every decoder.)        *)
CauseReaches ==
  LET asked[n \in 0..Len(trail)] == IF n = 0 THEN err ELSE Cause(asked[n - 1])
  IN  err # <<>> => asked[Len(trail)] = <<Last(err)>>
=============================================================================
