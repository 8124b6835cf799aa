----------------------------- MODULE CrossCall -----------------------------
(***************************************************************************)
(* Calls across the language border (src/module.cpp).  ExternalCall: a     *)
(* script calls a native function of another plugin.  InternalCall: native *)
(* code calls a JavaScript function.  Each may run inside the other, so    *)
(* the calls in progress form a stack whose top frame runs.                *)
(*                                                                         *)
(* A value is abstracted to where it came from: Tag("js", i) is the i-th   *)
(* argument a script passes, or element i of the array it returns;         *)
(* Tag("native", i) is what native code passes or stores for parameter i,  *)
(* 0 being its return value.  Bad stands for a JavaScript value that does  *)
(* not convert to the declared type, NoJs for a native value that has no   *)
(* JavaScript form (a lone surrogate, say).  What the conversions compute  *)
(* is the subject of Convert.                                              *)
(*                                                                         *)
(* A parameter is passed by "value" in its register, as a "func"tion, whose *)
(* address goes there too, as an "object" (string, array, vector, any)     *)
(* through a cell of the call's storage, or by "ref" through a cell the    *)
(* native function may overwrite.  The storage is an inplace_vector, so a  *)
(* cell stays where its address says.                                      *)
(***************************************************************************)
EXTENDS Naturals, Sequences, FiniteSets, SequencesExt

CONSTANTS
    Signatures,     \* methods: [ret |-> ..., params |-> ...]
    MaxFuncArgs,    \* Signature::kMaxFuncArgs
    Bad,
    NoJs,
    Fallback,       \* the default value of a return type
    None,
    MaxDepth        \* bound: calls in progress at once

Kinds == {"value", "func", "object", "ref"}

InRegister == {"value", "func"}

Tag(side, i) == <<side, i>>

ASSUME CrossCallConstants ==
    /\ Signatures \subseteq [ret : {"void", "value", "hidden"}, params : Seq(Kinds)]
    /\ \A s \in Signatures : Len(s.params) <= MaxFuncArgs
    /\ MaxFuncArgs \in Nat
    /\ MaxDepth \in Nat
    /\ Bad \notin {NoJs} \union {Tag("native", i) : i \in 0..MaxFuncArgs}

VARIABLES
    stack,          \* the calls in progress, innermost last
    pending,        \* an exception is on its way to a script or a TryCatch
    aborted         \* ToLocalChecked() found nothing: the process is gone

vars == <<stack, pending, aborted>>

Refs(s) == {i \in DOMAIN s.params : s.params[i] = "ref"}

RefCount(s) == Cardinality(Refs(s))

\* The position of reference parameter i among the reference parameters.
Ordinal(s, i) == Cardinality({j \in Refs(s) : j <= i})

Top == stack[Len(stack)]

Below == SubSeq(stack, 1, Len(stack) - 1)

ExternalTop(phase) == stack # <<>> /\ Top.kind = "external" /\ Top.phase = phase

InternalTop(phase) == stack # <<>> /\ Top.kind = "internal" /\ Top.phase = phase

Update(f) == stack' = Append(Below, f)

Init ==
    /\ stack = <<>>
    /\ pending = FALSE
    /\ aborted = FALSE

\* Script code runs inside a JavaScript function, and wherever something is
\* read from an object that a script may have given getters: an element of
\* the returned array, __address of a function, what a conversion reads.
ScriptRuns ==
    \/ InternalTop("script")
    \/ InternalTop("refs")
    \/ InternalTop("return") /\ (Top.sig.ret # "void" \/ RefCount(Top.sig) > 0)
    \/ /\ ExternalTop("push")
       /\ Len(Top.params) < Top.hidden + Len(Top.sig.params)
       /\ Top.sig.params[Len(Top.params) - Top.hidden + 1] # "value"

NativeRuns == stack = <<>> \/ ExternalTop("native")

----------------------------------------------------------------------------
\* ExternalCall: the number of arguments is checked, then the storage is
\* opened with the hidden return value if the type is returned through one.
BeginExternalCall(s) == IF s.ret = "hidden" THEN <<Fallback>> ELSE <<>>

ExternalCall(s, args) ==
    /\ ScriptRuns
    /\ ~pending
    /\ Len(stack) < MaxDepth
    /\ IF Len(args) # Len(s.params)
         THEN pending' = TRUE /\ UNCHANGED stack
         ELSE /\ stack' = Append(stack,
                   [kind |-> "external", sig |-> s, args |-> args, phase |-> "push",
                    hidden |-> Len(BeginExternalCall(s)),
                    storage |-> BeginExternalCall(s),
                    params |-> IF s.ret = "hidden" THEN <<[cell |-> 1, value |-> None]>>
                                                   ELSE <<>>,
                    refIndices |-> <<>>, result |-> <<>>, swallowed |-> FALSE,
                    view |-> args, gave |-> None])
              /\ UNCHANGED pending

\* Any of the early returns after an exception was thrown.
ThrowsToScript ==
    /\ Update([Top EXCEPT !.phase = "done", !.result = <<Bad>>])
    /\ pending' = TRUE

\* Mutant: the address is that of the last cell, taken before the new one.
PushesLastCell(f, kind, item) ==
    IF kind \in InRegister
    THEN [f EXCEPT !.params = Append(@, [cell |-> 0, value |-> item])]
    ELSE [f EXCEPT !.params = Append(@, [cell |-> Len(f.storage), value |-> None]),
                   !.storage = Append(@, item)]

PushObjectAsParam(f, kind, item) ==
    IF kind \in InRegister
    THEN [f EXCEPT !.params = Append(@, [cell |-> 0, value |-> item])]
    ELSE [f EXCEPT !.params = Append(@, [cell |-> Len(f.storage) + 1, value |-> None]),
                   !.storage = Append(@, item)]

PushObjectAsRefParam(f, item) ==
    [f EXCEPT !.params = Append(@, [cell |-> Len(f.storage) + 1, value |-> None]),
              !.storage = Append(@, item)]

\* refStorageIndices remembers where the parameter's cell is about to be.
NotedIndex(f) == [f EXCEPT !.refIndices = Append(@, Len(f.storage) + 1)]

\* FindInternal: the read of __address threw, which is taken for a function
\* without one.  V8 keeps the exception, and nobody asks for it.
FindInternalDrops(f, kind) ==
    [f EXCEPT !.swallowed = @ \/ (kind = "func" /\ pending)]

\* Only the result of the push is tested: a conversion that runs a script
\* which throws has failed, except the one of a function.
PushParam ==
    /\ ExternalTop("push")
    /\ LET i == Len(Top.params) - Top.hidden + 1
           kind == Top.sig.params[i]
           f == FindInternalDrops(Top, kind)
       IN  /\ i <= Len(Top.sig.params)
           /\ IF Top.args[i] = Bad \/ (pending /\ kind # "func")
                THEN ThrowsToScript
                ELSE /\ Update(IF kind = "ref"
                               THEN PushObjectAsRefParam(NotedIndex(f), Top.args[i])
                               ELSE PushObjectAsParam(f, kind, Top.args[i]))
                     /\ pending' = FALSE

\* MakeExternalCallWithObject calls the function ...
MakeExternalCall ==
    /\ ExternalTop("push")
    /\ Len(Top.params) = Top.hidden + Len(Top.sig.params)
    /\ ~pending
    /\ Update([Top EXCEPT !.phase = "native"])
    /\ UNCHANGED pending

\* ... which may store to its reference parameters and its hidden one,
NativeStores(i, v) ==
    /\ ExternalTop("native")
    /\ i \in Refs(Top.sig)
    /\ Update([Top EXCEPT !.storage[Top.params[Top.hidden + i].cell] = v,
                          !.view[i] = v])
    /\ UNCHANGED pending

\* ... and once it returned, converts its return value.
NativeReturns(v) ==
    /\ ExternalTop("native")
    /\ (v = None) = (Top.sig.ret = "void")
    /\ IF v = NoJs
         THEN ThrowsToScript
         ELSE /\ Update([Top EXCEPT !.phase = "collect",
                           !.gave = v,
                           !.storage = IF Top.hidden = 1
                                       THEN [@ EXCEPT ![Top.params[1].cell] = v] ELSE @,
                           !.result = <<v>>])
              /\ UNCHANGED pending

\* Mutant: the hidden return value is forgotten.
StorageValueNoHidden(f, j) == f.storage[f.refIndices[j] - f.hidden]

StorageValueToObject(f, j) == f.storage[f.refIndices[j]]

\* With reference parameters the script receives [result, refs...].
ReturnToScript ==
    /\ ExternalTop("collect")
    /\ LET refs == [j \in 1..RefCount(Top.sig) |-> StorageValueToObject(Top, j)]
       IN  IF NoJs \in ToSet(refs)
           THEN ThrowsToScript
           ELSE /\ Update([Top EXCEPT !.phase = "done", !.result = @ \o refs])
                /\ UNCHANGED pending

\* An exception that was dropped on the way in is thrown when the call
\* returns to the script, unless one nested in it has taken it along.
Held == \E d \in DOMAIN stack : stack[d].kind = "external" /\ stack[d].swallowed

ExternalLeave ==
    /\ ExternalTop("done")
    /\ stack' = Below
    /\ pending' \in {pending, pending \/ Held}

----------------------------------------------------------------------------
\* InternalCall: native code calls the JavaScript function.
InternalCall(s, args) ==
    /\ NativeRuns
    /\ Len(stack) < MaxDepth
    /\ stack' = Append(stack,
          [kind |-> "internal", sig |-> s, args |-> args, phase |-> "args",
           memory |-> args, next |-> 1, result |-> <<>>, slot |-> <<>>])
    /\ UNCHANGED pending

\* Mutant: an early return without a return value.
NoFallbackReturn(f) == [f EXCEPT !.phase = "done"]

SetFallbackReturn(f) ==
    [f EXCEPT !.phase = "done",
              !.slot = IF f.sig.ret = "void" THEN @ ELSE Append(@, Fallback)]

ReturnsFallback ==
    /\ Update(SetFallbackReturn(Top))
    /\ pending' = TRUE

\* ParamToObject and ParamRefToObject, one parameter after the other.
ParamsToObjects ==
    /\ InternalTop("args")
    /\ IF NoJs \in ToSet(Top.args)
         THEN ReturnsFallback
         ELSE Update([Top EXCEPT !.phase = "script"]) /\ UNCHANGED pending

ScriptCatches ==
    /\ ScriptRuns
    /\ pending
    /\ pending' = FALSE
    /\ UNCHANGED stack

ScriptThrows ==
    /\ InternalTop("script")
    /\ ReturnsFallback

\* The function returned; array tells whether its result is an array.
ScriptReturns(array, result) ==
    /\ InternalTop("script")
    /\ ~pending
    /\ IF RefCount(Top.sig) = 0
         THEN /\ Update([Top EXCEPT !.phase = "return", !.result = <<Head(result)>>])
              /\ UNCHANGED pending
         ELSE IF ~array \/ Len(result) # 1 + RefCount(Top.sig)
         THEN ReturnsFallback
         ELSE /\ Update([Top EXCEPT !.phase = "refs", !.result = result])
              /\ UNCHANGED pending

\* Mutant: the elements are counted from the return value.
SetRefParamOffByOne(f, i, v) ==
    [f EXCEPT !.memory = IF v = Bad THEN @ ELSE [@ EXCEPT ![i] = f.result[f.next]]]

\* One reference parameter: element 1 + k of the array goes to the k-th of
\* them.  A failure is logged, the exception reset, and the loop goes on.
SetRefParam(f, i, v) ==
    [f EXCEPT !.memory = IF v = Bad THEN @ ELSE [@ EXCEPT ![i] = v]]

\* An element is read, then converted.  A conversion that fails is logged.
NextRefParam ==
    /\ InternalTop("refs")
    /\ LET i == CHOOSE j \in Refs(Top.sig) : Ordinal(Top.sig, j) = Top.next
           k == Top.next
       IN  /\ Update([SetRefParam(Top, i, IF pending THEN Bad ELSE Top.result[1 + k])
                        EXCEPT !.next = k + 1,
                               !.phase = IF k = RefCount(Top.sig) THEN "return" ELSE "refs"])
           /\ pending' = FALSE

\* The element's getter threw: ToLocalChecked() ends the process.
ElementThrows ==
    /\ InternalTop("refs") \/ (InternalTop("return") /\ RefCount(Top.sig) > 0)
    /\ pending
    /\ aborted' = TRUE
    /\ UNCHANGED <<stack, pending>>

SetReturn(f) ==
    [f EXCEPT !.phase = "done",
              !.slot = IF f.sig.ret = "void" THEN @ ELSE Append(@, f.result[1])]

\* A script that threw while the return value was converted has failed the
\* conversion, except that of a function, whose wrapper is returned.
ReturnToNative ==
    /\ InternalTop("return")
    /\ \/ /\ Top.sig.ret # "void"
          /\ Top.result[1] = Bad \/ pending
          /\ ReturnsFallback
       \/ /\ Top.sig.ret # "void" => Top.result[1] # Bad
          /\ pending => Top.sig.ret = "value"
          /\ Update(SetReturn(Top)) /\ UNCHANGED pending

\* Mutant: no TryCatch.
InternalLeaveUncaught ==
    /\ InternalTop("done")
    /\ stack' = Below
    /\ UNCHANGED pending

\* The TryCatch of the call ends with it and takes its exception along.
InternalLeave ==
    /\ InternalTop("done")
    /\ stack' = Below
    /\ pending' = FALSE

----------------------------------------------------------------------------
\* What a script passes or returns: as many values as it likes, any of them
\* of the wrong type.
ScriptValues(n) ==
    UNION {[1..m -> {TRUE, FALSE}] : m \in {n, n + 1}}

ScriptArgs(n) ==
    {[i \in DOMAIN g |-> IF g[i] THEN Tag("js", i) ELSE Bad] : g \in ScriptValues(n)}

ScriptResults(n) ==
    {[i \in DOMAIN g |-> IF g[i] THEN Tag("js", i - 1) ELSE Bad] : g \in ScriptValues(n)}

NativeArgs(n) ==
    {[i \in 1..n |-> IF g[i] THEN Tag("native", i) ELSE NoJs] : g \in [1..n -> {TRUE, FALSE}]}

Calls ==
    \/ \E s \in Signatures :
          \/ \E args \in ScriptArgs(Len(s.params)) : ExternalCall(s, args)
          \/ \E args \in NativeArgs(Len(s.params)) : InternalCall(s, args)
    \/ PushParam
    \/ MakeExternalCall
    \/ \E i \in 1..MaxFuncArgs, bad \in BOOLEAN :
          NativeStores(i, IF bad THEN NoJs ELSE Tag("native", i))
    \/ \E v \in {Tag("native", 0), NoJs, None} : NativeReturns(v)
    \/ ReturnToScript
    \/ ExternalLeave
    \/ ParamsToObjects
    \/ ScriptCatches
    \/ ScriptThrows
    \/ \E n \in 0..MaxFuncArgs, array \in BOOLEAN :
          /\ InternalTop("script") /\ n = RefCount(Top.sig)
          /\ \E result \in ScriptResults(n + 1) : ScriptReturns(array, result)
    \/ NextRefParam
    \/ ReturnToNative
    \/ InternalLeave

Next ==
    \/ ~aborted /\ Calls /\ UNCHANGED aborted
    \/ ~aborted /\ ElementThrows
    \/ aborted /\ UNCHANGED vars

Spec == Init /\ [][Next]_vars

----------------------------------------------------------------------------
Frames == {stack[d] : d \in DOMAIN stack}
Externals == {f \in Frames : f.kind = "external"}
Internals == {f \in Frames : f.kind = "internal"}

JsValues == {Tag("js", i) : i \in 0..MaxFuncArgs} \union {Bad}
NativeValues == {Tag("native", i) : i \in 0..MaxFuncArgs} \union {NoJs}
AllValues == JsValues \union NativeValues \union {Fallback, None}

(***************************************************************************)
(* The calls in progress alternate as the code nests them, each in one of  *)
(* its phases, and at most one cell and one register exist per parameter   *)
(* (ArgsScope, module.hpp:126-176).                                        *)
(***************************************************************************)
TypeOK ==
    /\ pending \in BOOLEAN
    /\ aborted \in BOOLEAN
    /\ Len(stack) <= MaxDepth
    /\ \A f \in Externals :
          /\ f.phase \in {"push", "native", "collect", "done"}
          /\ f.sig \in Signatures
          /\ f.hidden \in {0, 1}
          /\ f.swallowed \in BOOLEAN
          /\ Len(f.params) <= f.hidden + Len(f.sig.params)
          /\ Len(f.refIndices) <= RefCount(f.sig)
          /\ ToSet(f.storage) \union ToSet(f.result) \subseteq AllValues
    /\ \A f \in Internals :
          /\ f.phase \in {"args", "script", "refs", "return", "done"}
          /\ f.sig \in Signatures
          /\ f.next \in 1..RefCount(f.sig) + 1
          /\ ToSet(f.memory) \union ToSet(f.slot) \subseteq AllValues

(***************************************************************************)
(* While the native function runs, and after, each of its parameters is    *)
(* there and reads as what the script passed for it or what the function   *)
(* last stored to it: cells are neither shared nor shifted by a hidden     *)
(* return value or by parameters passed in registers (ExternalCall,        *)
(* PushObjectAsParam).  No value that failed to convert gets there.        *)
(***************************************************************************)
NativeReads(f, i) ==
    LET p == f.params[f.hidden + i]
    IN  IF p.cell = 0 THEN p.value ELSE f.storage[p.cell]

ParametersAreOwn ==
    \A f \in Externals : f.phase \in {"native", "collect"} =>
        /\ Len(f.params) = f.hidden + Len(f.sig.params)
        /\ \A i \in DOMAIN f.sig.params : NativeReads(f, i) = f.view[i] /\ f.view[i] # Bad

(***************************************************************************)
(* A call that returns to the script hands it what the native function     *)
(* returned and, in the order of the reference parameters, what it left in *)
(* each (StorageValueToObject at refStorageIndices).                       *)
(***************************************************************************)
ScriptGetsRefs ==
    \A f \in Externals : f.phase = "done" /\ f.result # <<Bad>> =>
        /\ f.result[1] = f.gave
        /\ Len(f.result) = 1 + RefCount(f.sig)
        /\ \A i \in Refs(f.sig) : f.result[1 + Ordinal(f.sig, i)] = f.view[i]

(***************************************************************************)
(* Whichever of its six exits InternalCall takes, the return slot of the   *)
(* native caller has been filled exactly once: never left unset, never     *)
(* constructed a second time over a live object.                           *)
(***************************************************************************)
ReturnSetOnce ==
    \A f \in Internals : f.phase = "done" =>
        Len(f.slot) = IF f.sig.ret = "void" THEN 0 ELSE 1

(***************************************************************************)
(* A native caller's reference parameter holds its old value or the array  *)
(* element that belongs to it, never another one's, whatever elements      *)
(* before it failed to convert; other parameters are untouched, and so are *)
(* all of them when the script did not return the array                    *)
(* (InternalCall, SetRefParam).                                            *)
(***************************************************************************)
RefsKeepOrTake ==
    \A f \in Internals : \A i \in DOMAIN f.args :
        \/ f.memory[i] = f.args[i]
        \/ /\ i \in Refs(f.sig)
           /\ f.result # <<>>
           /\ f.memory[i] = Tag("js", Ordinal(f.sig, i))

(***************************************************************************)
(* No native function is entered or resumed with an exception on its way   *)
(* to a script, however deep the calls are nested (the TryCatch of         *)
(* InternalCall, the early returns of ExternalCall), but for the one the   *)
(* code drops: it threw while __address of a function the script passes    *)
(* was read (FindInternal), and it stays set while that call runs.  Native *)
(* code that is not inside such a call finds none.                         *)
(***************************************************************************)
DroppedIn(f) == f.swallowed /\ "func" \in ToSet(f.sig.params)

NoStrayException ==
    NativeRuns =>
        /\ ~pending
        /\ Held => \E f \in Externals : DroppedIn(f)
=============================================================================
