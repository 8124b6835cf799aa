--------------------------- MODULE ObjectOwnership ---------------------------
(***************************************************************************)
(* Wrappers of native objects as bindClassMethods (lib/plugify.mjs) builds *)
(* them: construction and wrapping, close, release, methods with owned and *)
(* borrowed parameters and results, and the FinalizationRegistry.          *)
(*                                                                         *)
(* close() and methods call native code before they are done, and native   *)
(* code may call back into scripts: `frames' is the stack of such calls.   *)
(* A frame keeps the values that were read before the call.                *)
(*                                                                         *)
(* A handle that is no object compares equal (===) with invalidValue or    *)
(* not: GetInvalidValueForType makes a BigInt of an explicit invalid       *)
(* value, and the handles of an 8 to 32 bit integer type arrive as         *)
(* Numbers. Invalid is the value the library compares with and writes,     *)
(* Null one that it takes for an object.                                   *)
(*                                                                         *)
(* `owner' is history: who has the duty to destroy a native object.        *)
(* Scripts wrap as OWNED only an object whose ownership they have. They    *)
(* may use a wrapper from inside its own close() and give away an object   *)
(* that was only borrowed, which the library does not prevent; the objects *)
(* this happened to are `disputed'. The class has a destructor (without    *)
(* one nothing is registered or destroyed).                                *)
(***************************************************************************)
EXTENDS Naturals, Sequences, FiniteSets, SequencesExt

CONSTANTS
    Wrappers,      \* instances of the class
    Handles,       \* native objects
    Invalid,       \* invalidValue
    Null,          \* a handle that is no object, and that invalidValue does not equal
    MaxDepth       \* bound: nested calls into native code

ASSUME OwnershipConstants ==
    /\ Invalid \notin Handles /\ Null \notin Handles /\ Null # Invalid
    /\ MaxDepth \in Nat

Values == Handles \union {Invalid, Null}

VARIABLES
    made,          \* wrappers whose constructor has returned
    reachable,     \* wrappers that scripts can still reach
    handle,        \* _handle
    owned,         \* _owned is OWNED
    cell,          \* the handle held for a wrapper by finalizerRegistry, or Invalid
    frames,        \* calls into native code: operation, wrapper, its handle then,
                   \* the wrapper and the handle passed as a parameter
    owner,         \* history: "unborn", "wrapper", "script", "native", "lost", "gone"
    destroyed,     \* history: handles given to the destructor
    twice,         \* history: handles given to it again
    disputed       \* history: released or closed again inside close(), or given
                   \* to native code by a wrapper that had only borrowed them

objects == <<owner, destroyed, twice, disputed>>
vars == <<made, reachable, handle, owned, cell, frames, objects>>

Init ==
    /\ made = {} /\ reachable = {}
    /\ handle = [w \in Wrappers |-> Invalid]
    /\ owned = [w \in Wrappers |-> FALSE]
    /\ cell = [w \in Wrappers |-> Invalid]
    /\ frames = <<>>
    /\ owner = [h \in Handles |-> "unborn"]
    /\ destroyed = {} /\ twice = {} /\ disputed = {}

----------------------------------------------------------------------------
\* The destructor has been called for w, and close() is not done.
Closing(w) == \E i \in DOMAIN frames : frames[i].op = "close" /\ frames[i].self = w

\* Mutant: no finalizer.
Unregistered(w, h, own) == [cell EXCEPT ![w] = Invalid]

\* registerFinalization: nothing for a borrowed or invalid handle.
Registered(w, h, own) == [cell EXCEPT ![w] = IF own THEN h ELSE @]

initializeInstance(w, h, own) ==
    /\ w \in Wrappers \ made
    /\ made' = made \union {w}
    /\ reachable' = reachable \union {w}
    /\ handle' = [handle EXCEPT ![w] = h]
    /\ owned' = [owned EXCEPT ![w] = own]
    /\ cell' = Registered(w, h, own)

Unborn(h) == owner[h] = "unborn"

\* A wrapper gets the duty with an object, none with a handle that is none.
Taken(h, own) ==
    owner' = IF own /\ h \in Handles THEN [owner EXCEPT ![h] = "wrapper"] ELSE owner

\* new Class(...): one of the constructors returns a handle, maybe of no
\* object.  (If each of them throws, so does this, and nothing has happened.)
Construct(w) ==
    /\ \E h \in Values :
         /\ h \in Handles => Unborn(h)
         /\ initializeInstance(w, h, TRUE)
         /\ Taken(h, TRUE)
    /\ UNCHANGED <<frames, destroyed, twice, disputed>>

\* new Class(handle, Ownership): borrowed, any handle that get() or a native
\* call gave; owned, only an object that the script owns.
Wrap(w, h, own) ==
    /\ h \in Handles => ~ Unborn(h) /\ (own => owner[h] = "script")
    /\ initializeInstance(w, h, own)
    /\ Taken(h, own)
    /\ UNCHANGED <<frames, destroyed, twice, disputed>>

\* The destructor is called with whatever the wrapper holds.
Destroy(h) ==
    IF h \in Handles
    THEN /\ destroyed' = destroyed \union {h}
         /\ twice' = IF h \in destroyed THEN twice \union {h} ELSE twice
         /\ owner' = [owner EXCEPT ![h] = "gone"]
    ELSE UNCHANGED <<destroyed, twice, owner>>

\* A script closes or releases w, or gives it away: a dispute if it is being closed.
Disputed(w) == disputed' = IF Closing(w) THEN disputed \union ({handle[w]} \intersect Handles) ELSE disputed

\* Mutant: neither field is reset.
NotCleared(w) == UNCHANGED <<handle, owned>>

\* Both end close() and release().
Cleared(w) ==
    /\ handle' = [handle EXCEPT ![w] = Invalid]
    /\ owned' = [owned EXCEPT ![w] = FALSE]

Frame(op, w, h, x, p) == [op |-> op, self |-> w, handle |-> h, arg |-> x, passed |-> p]

\* close() of a wrapper that owns its handle: the destructor runs first.
CloseBegin(w) ==
    /\ w \in reachable
    /\ Len(frames) < MaxDepth
    /\ handle[w] # Invalid /\ owned[w]
    /\ Destroy(handle[w])
    /\ Disputed(w)
    /\ frames' = Append(frames, Frame("close", w, handle[w], w, Invalid))
    /\ UNCHANGED <<made, reachable, handle, owned, cell>>

\* The destructor has returned.
CloseEnd ==
    /\ frames # <<>> /\ Last(frames).op = "close"
    /\ LET w == Last(frames).self IN
         /\ cell' = [cell EXCEPT ![w] = Invalid]
         /\ Cleared(w)
    /\ frames' = Front(frames)
    /\ UNCHANGED <<made, reachable, objects>>

\* close() of any other wrapper.
CloseEmpty(w) ==
    /\ w \in reachable
    /\ handle[w] = Invalid \/ ~ owned[w]
    /\ handle[w] # Invalid \/ owned[w]
    /\ Cleared(w)
    /\ UNCHANGED <<made, reachable, cell, frames, objects>>

\* Mutant: release() leaves the finalizer.
ReleasedKeepsCell(w) ==
    /\ UNCHANGED cell
    /\ Cleared(w)

\* Mutant: release() returns the handle and keeps it.
ReleasedKeepsHandle(w) ==
    /\ cell' = IF owned[w] THEN [cell EXCEPT ![w] = Invalid] ELSE cell
    /\ UNCHANGED <<handle, owned>>

\* What release() does to the wrapper.
Released(w) ==
    /\ cell' = IF owned[w] THEN [cell EXCEPT ![w] = Invalid] ELSE cell
    /\ Cleared(w)

\* The object of a wrapper that owned it passes to o.
Passed(w, o) ==
    owner' = IF owned[w] /\ handle[w] \in Handles THEN [owner EXCEPT ![handle[w]] = o] ELSE owner

\* release() by a script, which gets the handle, and its ownership if there was.
Release(w) ==
    /\ w \in reachable
    /\ handle[w] # Invalid \/ owned[w]
    /\ Released(w)
    /\ Passed(w, "script")
    /\ Disputed(w)
    /\ UNCHANGED <<made, reachable, frames, destroyed, twice>>

----------------------------------------------------------------------------
\* w.method(...) with at most a borrowed parameter, which changes nothing.
CallBorrowing(w, x) ==
    /\ w \in reachable /\ x \in reachable
    /\ Len(frames) < MaxDepth
    /\ handle[w] # Invalid
    /\ frames' = Append(frames, Frame("method", w, handle[w], x, handle[x]))
    /\ UNCHANGED <<made, reachable, handle, owned, cell, objects>>

\* w.method(x) with x an owned parameter: x is released, then w's handle is
\* read, after the release even if x is w.  Any wrapper is taken.  One that had
\* only borrowed its object gives away what is somebody else's, unless the
\* script itself is the owner.
CallGiving(w, x) ==
    /\ w \in reachable /\ x \in reachable
    /\ Len(frames) < MaxDepth
    /\ handle[w] # Invalid
    /\ Released(x)
    /\ LET h == handle[x] IN
         IF owned[x] \/ h \notin Handles
         THEN Passed(x, "native") /\ Disputed(x)
         ELSE /\ owner' = [owner EXCEPT ![h] = "native"]
              /\ disputed' = IF owner[h] = "script" THEN disputed ELSE disputed \union {h}
    /\ frames' = Append(frames, Frame("method", w, handle'[w], x, handle[x]))
    /\ UNCHANGED <<made, reachable, destroyed, twice>>

\* The same call, but converting a parameter throws: x is released all the
\* same, and native code never saw it.
GivingThrows(w, x) ==
    /\ w \in reachable /\ x \in reachable
    /\ handle[w] # Invalid
    /\ Released(x)
    /\ Passed(x, "lost")
    /\ Disputed(x)
    /\ UNCHANGED <<made, reachable, frames, destroyed, twice>>

\* The native function returns nothing that is wrapped, or its result does not
\* convert.
MethodReturn ==
    /\ frames # <<>> /\ Last(frames).op = "method"
    /\ frames' = Front(frames)
    /\ UNCHANGED <<made, reachable, handle, owned, cell, objects>>

\* wrapReturn: an owned result is an object that native code made or was given,
\* a borrowed one any object; invalidValue is not wrapped.
MethodWraps(w, h, own) ==
    /\ frames # <<>> /\ Last(frames).op = "method"
    /\ h # Invalid
    /\ h \in Handles => IF own THEN owner[h] \in {"unborn", "native"} ELSE ~ Unborn(h)
    /\ initializeInstance(w, h, own)
    /\ Taken(h, own)
    /\ frames' = Front(frames)
    /\ UNCHANGED <<destroyed, twice, disputed>>

----------------------------------------------------------------------------
\* The script drops its last reference; a call under way keeps its own.
Drop(w) ==
    /\ w \in reachable
    /\ reachable' = reachable \ {w}
    /\ UNCHANGED <<made, handle, owned, cell, frames, objects>>

\* The finalizer of a wrapper that was collected.
Finalize(w) ==
    /\ w \in made \ reachable
    /\ \A i \in DOMAIN frames : frames[i].self # w /\ frames[i].arg # w
    /\ cell[w] # Invalid
    /\ cell' = [cell EXCEPT ![w] = Invalid]
    /\ Destroy(cell[w])
    /\ UNCHANGED <<made, reachable, handle, owned, frames, disputed>>

Next ==
    \/ \E w \in Wrappers :
         \/ Construct(w) \/ CloseBegin(w) \/ CloseEmpty(w) \/ Release(w)
         \/ Drop(w) \/ Finalize(w)
         \/ \E x \in Wrappers : CallBorrowing(w, x) \/ CallGiving(w, x) \/ GivingThrows(w, x)
         \/ \E h \in Values, own \in BOOLEAN : Wrap(w, h, own) \/ MethodWraps(w, h, own)
    \/ CloseEnd \/ MethodReturn

Spec == Init /\ [][Next]_vars

----------------------------------------------------------------------------
FrameSet == [op : {"close", "method"}, self : Wrappers, handle : Values,
             arg : Wrappers, passed : Values]

TypeOK ==
    /\ made \subseteq Wrappers /\ reachable \subseteq made
    /\ handle \in [Wrappers -> Values]
    /\ owned \in [Wrappers -> BOOLEAN]
    /\ cell \in [Wrappers -> Values]
    /\ frames \in Seq(FrameSet)
    /\ owner \in [Handles -> {"unborn", "wrapper", "script", "native", "lost", "gone"}]
    /\ destroyed \subseteq Handles /\ twice \subseteq destroyed
    /\ disputed \subseteq Handles

\* The destructor is given an object twice only after a script closed or
\* released the wrapper from inside its own close(), whose fields are reset
\* after the destructor, or gave native code an object that a wrapper had only
\* borrowed.  Whatever else scripts do from inside native calls, close(),
\* release(), owned parameters and the finalizer destroy it once.
DestroyedOnce == twice \subseteq disputed

\* An object that a wrapper has to destroy, and that is not disputed, is held
\* as owned by exactly one wrapper and, until it is destroyed, is in the
\* finalizer registry under that wrapper: no other owner's object is
\* finalized, and none is without a finalizer.  (When finalizers run is up to
\* V8 and its platform, whose message loop the module does not pump.)
OwnedOnce ==
    \A h \in Handles \ disputed :
        /\ owner[h] = "wrapper" =>
             Cardinality({w \in Wrappers : owned[w] /\ handle[w] = h}) = 1
        /\ owner[h] = "wrapper" <=> \E w \in Wrappers : cell[w] = h /\ h \notin destroyed

\* Ownership that a wrapper gave up does not come back: the finalizer and
\* close() destroy nothing undisputed that native code, or the script, has
\* taken over.
GivenAwayIsSafe ==
    [][\A h \in Handles \ disputed :
         owner[h] \in {"script", "native"} => h \notin destroyed' \ destroyed]_vars

\* A wrapper that owns its object, and is not being closed, passes native code
\* no object that was already destroyed, neither as the object of a method nor
\* as a parameter: close() and release() leave no way back to it.
Living(w, h) == owned[w] /\ ~ Closing(w) => h \notin destroyed \ disputed
OwnersPassLiving ==
    [][Len(frames') > Len(frames) =>
         LET f == Last(frames') IN
           f.op = "method" => Living(f.self, f.handle) /\ Living(f.arg, f.passed)]_vars
=============================================================================
