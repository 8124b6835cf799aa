----------------------- MODULE ObjectOwnershipProofs -----------------------
(***************************************************************************)
(* Machine-checked facts about ObjectOwnership, for any wrappers, objects  *)
(* and depth of calls.                                                     *)
(*                                                                         *)
(* The registry cell of a wrapper is what ties the rest together: it is    *)
(* set exactly while the wrapper has something to destroy, no two wrappers *)
(* have the same undisputed object, and the object in it is alive unless   *)
(* its close() is under way.  Of a disputed object nothing is known but    *)
(* that wrapper and cell agree.                                            *)
(***************************************************************************)
EXTENDS ObjectOwnership, TLAPS, FiniteSetTheorems, SequenceTheorems

Framed(w) == \E i \in DOMAIN frames : frames[i].self = w \/ frames[i].arg = w

Settled == Handles \ disputed

CellIsOwned ==
    \A w \in Wrappers : cell[w] # Invalid =>
        /\ owned[w]
        /\ handle[w] = cell[w]
        /\ cell[w] \in Settled => owner[cell[w]] = IF Closing(w) THEN "gone" ELSE "wrapper"

CellsDiffer ==
    \A w, x \in Wrappers : cell[w] = cell[x] /\ cell[w] \in Settled => w = x

\* Only the finalizer leaves the fields of a wrapper as they are.
OwnedHasCell ==
    \A w \in Wrappers : owned[w] /\ handle[w] # Invalid =>
        \/ cell[w] = handle[w]
        \/ /\ w \notin reachable /\ ~ Framed(w)
           /\ handle[w] \in Settled => owner[handle[w]] = "gone"

OwnerHasCell ==
    \A h \in Settled : owner[h] = "wrapper" => \E w \in Wrappers : cell[w] = h

GoneIsDestroyed ==
    /\ \A h \in Settled : h \in destroyed <=> owner[h] = "gone"
    /\ twice \subseteq disputed

UnmadeIsEmpty ==
    \A w \in Wrappers \ made : handle[w] = Invalid /\ ~ owned[w] /\ cell[w] = Invalid

FramesOK ==
    \A i \in DOMAIN frames : frames[i].self \in made /\ frames[i].arg \in made

IndInv ==
    /\ TypeOK
    /\ CellIsOwned
    /\ CellsDiffer
    /\ OwnedHasCell
    /\ OwnerHasCell
    /\ GoneIsDestroyed
    /\ UnmadeIsEmpty
    /\ FramesOK
----------------------------------------------------------------------------
\* What a call adds to the stack.
LEMMA Pushed ==
  ASSUME NEW S, NEW s \in Seq(S), NEW e \in S
  PROVE  /\ Append(s, e) \in Seq(S)
         /\ DOMAIN Append(s, e) = DOMAIN s \union {Len(s) + 1}
         /\ Len(s) + 1 \notin DOMAIN s
         /\ \A i \in DOMAIN s : Append(s, e)[i] = s[i]
         /\ Append(s, e)[Len(s) + 1] = e
  OBVIOUS

\* What a return takes from it.
LEMMA Popped ==
  ASSUME NEW S, NEW s \in Seq(S), s # <<>>
  PROVE  /\ Front(s) \in Seq(S)
         /\ DOMAIN Front(s) = DOMAIN s \ {Len(s)}
         /\ Len(s) \in DOMAIN s
         /\ \A i \in DOMAIN Front(s) : Front(s)[i] = s[i]
         /\ Last(s) = s[Len(s)]
<1>1. Len(s) \in Nat \ {0} /\ DOMAIN s = 1 .. Len(s)
  BY EmptySeq
<1>2. /\ SubSeq(s, 1, Len(s) - 1) \in Seq(S)
      /\ Len(SubSeq(s, 1, Len(s) - 1)) = Len(s) - 1
      /\ \A i \in 1 .. Len(s) - 1 : SubSeq(s, 1, Len(s) - 1)[i] = s[i]
  BY <1>1
<1> QED BY <1>1, <1>2 DEF Front, Last

\* The initial state satisfies the inductive invariant.
LEMMA InitInv == Init => IndInv
  BY OwnershipConstants
     DEF Init, IndInv, TypeOK, CellIsOwned, CellsDiffer, OwnedHasCell, OwnerHasCell,
         GoneIsDestroyed, UnmadeIsEmpty, FramesOK, Settled, Values

\* A new wrapper keeps the inductive invariant: one that owns its object takes
\* it from a script, from native code or from nobody.
LEMMA InstanceInv ==
  ASSUME IndInv,
         NEW w \in Wrappers, NEW h \in Values, NEW own \in BOOLEAN,
         initializeInstance(w, h, own),
         Taken(h, own),
         own /\ h \in Handles => owner[h] \notin {"wrapper", "gone"},
         UNCHANGED <<destroyed, twice, disputed>>,
         frames' \in Seq(FrameSet), DOMAIN frames' \subseteq DOMAIN frames,
         \A i \in DOMAIN frames' : frames'[i] = frames[i],
         \A i \in DOMAIN frames \ DOMAIN frames' : frames[i].op = "method"
  PROVE  IndInv'
<1> USE OwnershipConstants
<1>1. /\ w \notin made /\ made' = made \union {w} /\ reachable' = reachable \union {w}
      /\ handle' = [handle EXCEPT ![w] = h]
      /\ owned' = [owned EXCEPT ![w] = own]
      /\ cell' = [cell EXCEPT ![w] = IF own THEN h ELSE @]
  BY DEF initializeInstance, Registered
<1>2. cell[w] = Invalid
  BY <1>1 DEF IndInv, UnmadeIsEmpty
<1>3. \A x \in Wrappers : Closing(x)' <=> Closing(x)
  BY DEF Closing
<1>4. ~ Closing(w)
  BY <1>1 DEF IndInv, FramesOK, Closing
<1>5. \A x \in Wrappers : Framed(x)' => Framed(x)
  BY DEF Framed
<1>6. /\ \A g \in Handles : owner'[g] = IF own /\ g = h THEN "wrapper" ELSE owner[g]
      /\ owner' \in [Handles -> {"unborn", "wrapper", "script", "native", "lost", "gone"}]
  BY DEF Taken, IndInv, TypeOK
<1>7. Settled' = Settled /\ Settled \subseteq Handles
  BY DEF Settled
<1>8. TypeOK'
  BY <1>1, <1>6 DEF IndInv, TypeOK
<1>9. CellIsOwned'
  <2> SUFFICES ASSUME NEW x \in Wrappers, cell'[x] # Invalid
               PROVE  /\ owned'[x] /\ handle'[x] = cell'[x]
                      /\ cell'[x] \in Settled =>
                           owner'[cell'[x]] = IF Closing(x)' THEN "gone" ELSE "wrapper"
    BY <1>7 DEF CellIsOwned
  <2>1. CASE x = w
    BY <2>1, <1>1, <1>2, <1>3, <1>4, <1>6, <1>7 DEF IndInv, TypeOK
  <2>2. CASE x # w
    <3>1. cell'[x] = cell[x] /\ owned'[x] = owned[x] /\ handle'[x] = handle[x]
      BY <2>2, <1>1 DEF IndInv, TypeOK
    <3>2. cell[x] \in Settled => owner'[cell[x]] = owner[cell[x]]
      BY <3>1, <1>6, <1>7 DEF IndInv, TypeOK, CellIsOwned
    <3> QED BY <3>1, <3>2, <1>3 DEF IndInv, CellIsOwned
  <2> QED BY <2>1, <2>2
<1>10. CellsDiffer'
  <2>1. \A x \in Wrappers : x # w => cell'[x] = cell[x]
    BY <1>1 DEF IndInv, TypeOK
  <2>2. cell'[w] = IF own THEN h ELSE Invalid
    BY <1>1, <1>2 DEF IndInv, TypeOK
  <2>3. \A x \in Wrappers : x # w /\ cell'[w] \in Settled => cell[x] # cell'[w]
    BY <2>2, <1>7 DEF IndInv, CellIsOwned
  <2> QED BY <2>1, <2>3, <1>7 DEF IndInv, CellsDiffer
<1>11. OwnedHasCell'
  <2> SUFFICES ASSUME NEW x \in Wrappers, owned'[x], handle'[x] # Invalid
               PROVE  \/ cell'[x] = handle'[x]
                      \/ /\ x \notin reachable' /\ ~ Framed(x)'
                         /\ handle'[x] \in Settled => owner'[handle'[x]] = "gone"
    BY <1>7 DEF OwnedHasCell
  <2>1. CASE x = w
    BY <2>1, <1>1 DEF IndInv, TypeOK
  <2>2. CASE x # w
    <3>1. cell'[x] = cell[x] /\ owned'[x] = owned[x] /\ handle'[x] = handle[x]
      BY <2>2, <1>1 DEF IndInv, TypeOK
    <3>2. handle[x] \in Settled /\ owner[handle[x]] = "gone" => owner'[handle[x]] = "gone"
      BY <1>6, <1>7
    <3> QED BY <3>1, <3>2, <2>2, <1>1, <1>5 DEF IndInv, OwnedHasCell
  <2> QED BY <2>1, <2>2
<1>12. OwnerHasCell'
  <2> SUFFICES ASSUME NEW g \in Settled, owner'[g] = "wrapper"
               PROVE  \E x \in Wrappers : cell'[x] = g
    BY <1>7 DEF OwnerHasCell
  <2>1. CASE own /\ g = h
    BY <2>1, <1>1 DEF IndInv, TypeOK
  <2>2. CASE ~ (own /\ g = h)
    <3>1. owner[g] = "wrapper" /\ g \in Handles
      BY <2>2, <1>6, <1>7
    <3>2. PICK x \in Wrappers : cell[x] = g
      BY <3>1 DEF IndInv, OwnerHasCell
    <3>3. x # w
      BY <3>1, <3>2, <1>2
    <3> QED BY <3>2, <3>3, <1>1 DEF IndInv, TypeOK
  <2> QED BY <2>1, <2>2
<1>13. GoneIsDestroyed'
  BY <1>6, <1>7 DEF IndInv, GoneIsDestroyed
<1>14. UnmadeIsEmpty'
  BY <1>1 DEF IndInv, TypeOK, UnmadeIsEmpty
<1>15. FramesOK'
  BY <1>1 DEF IndInv, FramesOK
<1> QED
  BY <1>8, <1>9, <1>10, <1>11, <1>12, <1>13, <1>14, <1>15 DEF IndInv

\* A wrapper that the script may use and that owns an object is in the
\* registry, and if nobody disputes the object and it is not being closed,
\* nobody has destroyed it.
LEMMA ReachableOwner ==
  ASSUME IndInv, NEW w \in reachable, owned[w], handle[w] # Invalid
  PROVE  /\ w \in Wrappers /\ w \in made
         /\ cell[w] = handle[w]
         /\ handle[w] \in Settled =>
              /\ owner[handle[w]] = IF Closing(w) THEN "gone" ELSE "wrapper"
              /\ ~ Closing(w) => handle[w] \notin destroyed
<1>1. w \in made /\ w \in Wrappers
  BY DEF IndInv, TypeOK
<1>2. cell[w] = handle[w]
  BY <1>1 DEF IndInv, OwnedHasCell
<1>3. handle[w] \in Settled => owner[handle[w]] = IF Closing(w) THEN "gone" ELSE "wrapper"
  BY <1>1, <1>2 DEF IndInv, CellIsOwned
<1> QED BY <1>1, <1>2, <1>3 DEF IndInv, GoneIsDestroyed

\* A wrapper that gives its handle up keeps the inductive invariant, while a
\* method is called with it or not.  Its object changes hands, or is disputed
\* from then on.
LEMMA ReleasedInv ==
  ASSUME IndInv, NEW w \in reachable, Released(w),
         NEW o \in {"script", "native", "lost"},
         owner' \in [Handles -> {"unborn", "wrapper", "script", "native", "lost", "gone"}],
         \A g \in Handles : g # handle[w] => owner'[g] = owner[g],
         disputed' \subseteq Handles, disputed \subseteq disputed',
         owned[w] /\ handle[w] \in Settled' => owner'[handle[w]] = o /\ ~ Closing(w),
         ~ owned[w] /\ handle[w] \in Settled' =>
             \/ owner'[handle[w]] = owner[handle[w]]
             \/ owner[handle[w]] = "script" /\ owner'[handle[w]] = o,
         UNCHANGED <<made, reachable, destroyed, twice>>,
         frames' \in Seq(FrameSet), DOMAIN frames \subseteq DOMAIN frames',
         \A i \in DOMAIN frames : frames'[i] = frames[i],
         \A i \in DOMAIN frames' \ DOMAIN frames :
             /\ frames'[i].op = "method"
             /\ frames'[i].self \in reachable /\ frames'[i].arg \in reachable
  PROVE  IndInv'
<1> USE OwnershipConstants
<1> DEFINE h == handle[w]
<1>1. w \in Wrappers /\ w \in made /\ h \in Values
  BY DEF IndInv, TypeOK
<1>2. Settled' \subseteq Settled /\ Settled \subseteq Handles
  BY DEF Settled
<1>3. owned[w] /\ h # Invalid =>
        /\ cell[w] = h
        /\ h \in Settled => owner[h] = IF Closing(w) THEN "gone" ELSE "wrapper"
  BY ReachableOwner
<1>4. ~ owned[w] => cell[w] = Invalid
  BY <1>1 DEF IndInv, CellIsOwned
<1>5. /\ cell' = [cell EXCEPT ![w] = Invalid]
      /\ handle' = [handle EXCEPT ![w] = Invalid]
      /\ owned' = [owned EXCEPT ![w] = FALSE]
  BY <1>1, <1>4 DEF Released, Cleared, IndInv, TypeOK
<1>6. \A x \in Wrappers : Closing(x)' <=> Closing(x)
  BY DEF Closing
<1>7. \A x \in Wrappers : Framed(x)' => Framed(x) \/ x \in reachable
  BY DEF Framed
<1>8. \A g \in Settled' : owner[g] = "gone" => owner'[g] = "gone"
  BY <1>2, <1>3
<1>9. \A g \in Settled' : owner'[g] # owner[g] => owner[g] \in {"wrapper", "script"}
  BY <1>2, <1>3
<1>10. \A g \in Settled' : owner'[g] = "wrapper" => owner[g] = "wrapper" /\ ~ (owned[w] /\ g = h)
  BY <1>2, <1>3
<1>11. \A x \in Wrappers : x # w =>
          cell'[x] = cell[x] /\ owned'[x] = owned[x] /\ handle'[x] = handle[x]
  BY <1>1, <1>5 DEF IndInv, TypeOK
<1>12. cell'[w] = Invalid /\ handle'[w] = Invalid /\ ~ owned'[w]
  BY <1>1, <1>5 DEF IndInv, TypeOK
<1>13. TypeOK'
  BY <1>1, <1>5 DEF IndInv, TypeOK, Values
<1>14. CellIsOwned'
  <2> SUFFICES ASSUME NEW x \in Wrappers, cell'[x] # Invalid
               PROVE  /\ owned'[x] /\ handle'[x] = cell'[x]
                      /\ cell'[x] \in Settled' =>
                           owner'[cell'[x]] = IF Closing(x)' THEN "gone" ELSE "wrapper"
    BY DEF CellIsOwned
  <2>1. x # w /\ cell'[x] = cell[x] /\ owned'[x] = owned[x] /\ handle'[x] = handle[x]
    BY <1>11, <1>12
  <2>2. /\ owned[x] /\ handle[x] = cell[x]
        /\ cell[x] \in Settled => owner[cell[x]] = IF Closing(x) THEN "gone" ELSE "wrapper"
    BY <2>1 DEF IndInv, CellIsOwned
  <2>3. ASSUME cell[x] \in Settled' PROVE owner'[cell[x]] = owner[cell[x]]
    <3>1. owned[w] => cell[x] # h
      BY <2>1, <2>3, <1>1, <1>2, <1>3 DEF IndInv, CellsDiffer
    <3>2. owner[cell[x]] # "script"
      BY <2>2, <2>3, <1>2
    <3> QED BY <2>3, <3>1, <3>2, <1>2
  <2> QED BY <2>1, <2>2, <2>3, <1>2, <1>6
<1>15. CellsDiffer'
  BY <1>2, <1>11, <1>12 DEF IndInv, CellsDiffer, Settled
<1>16. OwnedHasCell'
  <2> SUFFICES ASSUME NEW x \in Wrappers, owned'[x], handle'[x] # Invalid
               PROVE  \/ cell'[x] = handle'[x]
                      \/ /\ x \notin reachable' /\ ~ Framed(x)'
                         /\ handle'[x] \in Settled' => owner'[handle'[x]] = "gone"
    BY DEF OwnedHasCell
  <2>1. x # w /\ cell'[x] = cell[x] /\ owned'[x] = owned[x] /\ handle'[x] = handle[x]
    BY <1>11, <1>12
  <2> QED BY <2>1, <1>2, <1>7, <1>8 DEF IndInv, OwnedHasCell
<1>17. OwnerHasCell'
  <2> SUFFICES ASSUME NEW g \in Settled', owner'[g] = "wrapper"
               PROVE  \E x \in Wrappers : cell'[x] = g
    BY DEF OwnerHasCell
  <2>1. owner[g] = "wrapper" /\ ~ (owned[w] /\ g = h) /\ g \in Settled /\ g # Invalid
    BY <1>2, <1>10
  <2>2. PICK x \in Wrappers : cell[x] = g
    BY <2>1 DEF IndInv, OwnerHasCell
  <2>3. x # w
    BY <2>1, <2>2, <1>1, <1>3, <1>4 DEF IndInv, CellIsOwned
  <2> QED BY <2>2, <2>3, <1>11
<1>18. GoneIsDestroyed'
  <2>1. \A g \in Settled' : owner'[g] = "gone" <=> owner[g] = "gone"
    BY <1>2, <1>3, <1>8
  <2> QED BY <2>1, <1>2 DEF IndInv, GoneIsDestroyed
<1>19. UnmadeIsEmpty'
  BY <1>1, <1>11 DEF IndInv, UnmadeIsEmpty
<1>20. FramesOK'
  BY DEF IndInv, TypeOK, FramesOK
<1> QED
  BY <1>13, <1>14, <1>15, <1>16, <1>17, <1>18, <1>19, <1>20 DEF IndInv

\* close() calls the destructor, for the first time unless the wrapper is
\* already being closed.
LEMMA CloseBeginInv ==
  ASSUME IndInv, NEW w \in Wrappers, CloseBegin(w)
  PROVE  IndInv'
<1> USE OwnershipConstants
<1> DEFINE h == handle[w]
           f == Frame("close", w, h, w, Invalid)
           n == Len(frames) + 1
<1>1. /\ w \in reachable /\ w \in made /\ h \in Values /\ h # Invalid /\ owned[w] /\ cell[w] = h
      /\ h \in Settled => owner[h] = IF Closing(w) THEN "gone" ELSE "wrapper"
  BY ReachableOwner DEF CloseBegin, IndInv, TypeOK
<1>2. f \in FrameSet /\ f.op = "close" /\ f.self = w /\ f.arg = w
  BY <1>1 DEF Frame, FrameSet, Values
<1>3. /\ UNCHANGED <<made, reachable, handle, owned, cell>>
      /\ frames' = Append(frames, f)
      /\ Destroy(h) /\ Disputed(w)
  BY DEF CloseBegin
<1>4. frames \in Seq(FrameSet)
  BY DEF IndInv, TypeOK
<1>5. /\ frames' \in Seq(FrameSet) /\ DOMAIN frames' = DOMAIN frames \union {n}
      /\ n \notin DOMAIN frames /\ frames'[n] = f
      /\ \A i \in DOMAIN frames : frames'[i] = frames[i]
  BY <1>2, <1>3, <1>4, Pushed
<1>6. /\ Settled' \subseteq Settled /\ Settled \subseteq Handles
      /\ disputed' \subseteq Handles /\ disputed \subseteq disputed'
      /\ Closing(w) => h \notin Settled'
  BY <1>3 DEF Settled, Disputed, IndInv, TypeOK
<1> HIDE DEF f, n, h
<1>7. \A x \in Wrappers : Closing(x)' <=> Closing(x) \/ x = w
  BY <1>2, <1>5 DEF Closing
<1>8. \A x \in Wrappers : Framed(x)' <=> Framed(x) \/ x = w
  BY <1>2, <1>5 DEF Framed
<1>9. /\ \A g \in Handles : owner'[g] = IF g = h THEN "gone" ELSE owner[g]
      /\ \A g \in Handles : g \in destroyed' <=> g \in destroyed \/ g = h
      /\ \A g \in twice' : g \in twice \/ (g = h /\ h \in destroyed)
  BY <1>3 DEF Destroy, IndInv, TypeOK
<1>10. /\ owner' \in [Handles -> {"unborn", "wrapper", "script", "native", "lost", "gone"}]
       /\ destroyed' \subseteq Handles /\ twice' \subseteq destroyed'
  BY <1>3 DEF Destroy, IndInv, TypeOK
<1>11. TypeOK'
  BY <1>3, <1>5, <1>6, <1>10 DEF IndInv, TypeOK
<1>12. CellIsOwned'
  <2> SUFFICES ASSUME NEW x \in Wrappers, cell[x] # Invalid
               PROVE  /\ owned[x] /\ handle[x] = cell[x]
                      /\ cell[x] \in Settled' =>
                           owner'[cell[x]] = IF Closing(x)' THEN "gone" ELSE "wrapper"
    BY <1>3 DEF CellIsOwned
  <2>1. owned[x] /\ handle[x] = cell[x]
    BY DEF IndInv, CellIsOwned
  <2>2. CASE x = w
    BY <2>1, <2>2, <1>1, <1>6, <1>7, <1>9
  <2>3. CASE x # w
    <3>1. cell[x] \in Settled => cell[x] # h
      BY <2>3, <1>1 DEF IndInv, CellsDiffer
    <3> QED BY <2>1, <2>3, <3>1, <1>6, <1>7, <1>9 DEF IndInv, CellIsOwned
  <2> QED BY <2>2, <2>3
<1>13. CellsDiffer'
  BY <1>3, <1>6 DEF IndInv, CellsDiffer
<1>14. OwnedHasCell'
  <2>1. \A g \in Settled' : owner[g] = "gone" => owner'[g] = "gone"
    BY <1>6, <1>9
  <2> QED BY <2>1, <1>1, <1>3, <1>6, <1>8 DEF IndInv, OwnedHasCell
<1>15. OwnerHasCell'
  BY <1>3, <1>6, <1>9 DEF IndInv, OwnerHasCell
<1>16. GoneIsDestroyed'
  <2>1. h \in destroyed /\ h \in Settled => Closing(w)
    BY <1>1 DEF IndInv, GoneIsDestroyed
  <2>2. twice' \subseteq disputed'
    BY <2>1, <1>6, <1>9, <1>10 DEF IndInv, GoneIsDestroyed, Settled
  <2> QED BY <2>2, <1>6, <1>9 DEF IndInv, GoneIsDestroyed
<1>17. UnmadeIsEmpty'
  BY <1>3 DEF IndInv, UnmadeIsEmpty
<1>18. FramesOK'
  BY <1>1, <1>2, <1>3, <1>5 DEF IndInv, FramesOK
<1> QED
  BY <1>11, <1>12, <1>13, <1>14, <1>15, <1>16, <1>17, <1>18 DEF IndInv

\* The destructor returns: the wrapper is emptied, if a script has not done so.
LEMMA CloseEndInv ==
  ASSUME IndInv, CloseEnd
  PROVE  IndInv'
<1> USE OwnershipConstants
<1> DEFINE n == Len(frames)
           w == Last(frames).self
<1>1. frames \in Seq(FrameSet) /\ frames # <<>>
  BY DEF IndInv, TypeOK, CloseEnd
<1>2. /\ frames' = Front(frames) /\ n \in DOMAIN frames /\ Last(frames) = frames[n]
      /\ frames' \in Seq(FrameSet) /\ DOMAIN frames' = DOMAIN frames \ {n}
      /\ \A i \in DOMAIN frames' : frames'[i] = frames[i]
  BY <1>1, Popped DEF CloseEnd
<1>3. w \in made /\ w \in Wrappers /\ Closing(w)
  BY <1>2 DEF CloseEnd, IndInv, TypeOK, FramesOK, Closing
<1>4. /\ cell' = [cell EXCEPT ![w] = Invalid]
      /\ handle' = [handle EXCEPT ![w] = Invalid]
      /\ owned' = [owned EXCEPT ![w] = FALSE]
      /\ UNCHANGED <<made, reachable, owner, destroyed, twice, disputed>>
  BY <1>2 DEF CloseEnd, Cleared, objects
<1>5. \A x \in Wrappers : x # w => (Closing(x)' <=> Closing(x))
  BY <1>2 DEF Closing
<1>6. \A x \in Wrappers : Framed(x)' => Framed(x)
  BY <1>2 DEF Framed
<1>7. Settled' = Settled /\ Settled \subseteq Handles
  BY <1>4 DEF Settled
<1> HIDE DEF w, n
<1>8. TypeOK'
  BY <1>2, <1>4 DEF IndInv, TypeOK, Values
<1>9. CellIsOwned'
  BY <1>3, <1>4, <1>5, <1>7 DEF IndInv, TypeOK, CellIsOwned
<1>10. CellsDiffer'
  BY <1>3, <1>4, <1>7 DEF IndInv, TypeOK, CellsDiffer
<1>11. OwnedHasCell'
  BY <1>3, <1>4, <1>6, <1>7 DEF IndInv, TypeOK, OwnedHasCell
<1>12. OwnerHasCell'
  <2> SUFFICES ASSUME NEW g \in Settled, owner[g] = "wrapper"
               PROVE  \E x \in Wrappers : cell'[x] = g
    BY <1>4, <1>7 DEF OwnerHasCell
  <2>1. PICK x \in Wrappers : cell[x] = g
    BY DEF IndInv, OwnerHasCell
  <2>2. cell[w] # g
    BY <1>3, <1>7 DEF IndInv, CellIsOwned
  <2> QED BY <2>1, <2>2, <1>4 DEF IndInv, TypeOK
<1>13. GoneIsDestroyed'
  BY <1>4, <1>7 DEF IndInv, GoneIsDestroyed
<1>14. UnmadeIsEmpty'
  BY <1>3, <1>4 DEF IndInv, TypeOK, UnmadeIsEmpty
<1>15. FramesOK'
  BY <1>2, <1>4 DEF IndInv, FramesOK
<1> QED
  BY <1>8, <1>9, <1>10, <1>11, <1>12, <1>13, <1>14, <1>15 DEF IndInv

\* close() of a wrapper that owns nothing.
LEMMA CloseEmptyInv ==
  ASSUME IndInv, NEW w \in Wrappers, CloseEmpty(w)
  PROVE  IndInv'
<1> USE OwnershipConstants
<1>1. cell[w] = Invalid
  BY DEF CloseEmpty, IndInv, CellIsOwned
<1>2. /\ handle' = [handle EXCEPT ![w] = Invalid]
      /\ owned' = [owned EXCEPT ![w] = FALSE]
      /\ UNCHANGED <<made, reachable, cell, frames, owner, destroyed, twice, disputed>>
  BY DEF CloseEmpty, Cleared, objects
<1>3. /\ \A x \in Wrappers : Closing(x)' <=> Closing(x)
      /\ \A x \in Wrappers : Framed(x)' <=> Framed(x)
      /\ Settled' = Settled
  BY <1>2 DEF Closing, Framed, Settled
<1>4. TypeOK'
  BY <1>2 DEF IndInv, TypeOK, Values
<1>5. CellIsOwned'
  BY <1>1, <1>2, <1>3 DEF IndInv, TypeOK, CellIsOwned
<1>6. OwnedHasCell'
  BY <1>2, <1>3 DEF IndInv, TypeOK, OwnedHasCell
<1>7. CellsDiffer' /\ OwnerHasCell' /\ GoneIsDestroyed'
  BY <1>2, <1>3 DEF IndInv, CellsDiffer, OwnerHasCell, GoneIsDestroyed
<1>8. UnmadeIsEmpty'
  BY <1>2 DEF IndInv, TypeOK, UnmadeIsEmpty
<1>9. FramesOK'
  BY <1>2 DEF IndInv, FramesOK
<1> QED BY <1>4, <1>5, <1>6, <1>7, <1>8, <1>9 DEF IndInv

\* The finalizer destroys what is still alive.
LEMMA FinalizeInv ==
  ASSUME IndInv, NEW w \in Wrappers, Finalize(w)
  PROVE  IndInv'
<1> USE OwnershipConstants
<1> DEFINE h == cell[w]
<1>1. w \notin reachable /\ ~ Framed(w) /\ ~ Closing(w) /\ h \in Values /\ h # Invalid
  BY DEF Finalize, Framed, Closing, IndInv, TypeOK
<1>2. Settled \subseteq Handles
  BY DEF Settled
<1>3. /\ owned[w] /\ handle[w] = h
      /\ h \in Settled => owner[h] = "wrapper" /\ h \notin destroyed
  BY <1>1 DEF IndInv, CellIsOwned, GoneIsDestroyed
<1>4. /\ cell' = [cell EXCEPT ![w] = Invalid] /\ Destroy(h)
      /\ UNCHANGED <<made, reachable, handle, owned, frames, disputed>>
  BY DEF Finalize
<1>5. /\ \A x \in Wrappers : Closing(x)' <=> Closing(x)
      /\ \A x \in Wrappers : Framed(x)' <=> Framed(x)
      /\ Settled' = Settled
  BY <1>4 DEF Closing, Framed, Settled
<1>6. \A x \in Wrappers : x # w /\ cell[x] \in Settled => cell[x] # h
  BY <1>1 DEF IndInv, CellsDiffer
<1> HIDE DEF h
<1>7. /\ \A g \in Handles : owner'[g] = IF g = h THEN "gone" ELSE owner[g]
      /\ \A g \in Handles : g \in destroyed' <=> g \in destroyed \/ g = h
      /\ \A g \in twice' : g \in twice \/ (g = h /\ h \in destroyed)
  BY <1>4 DEF Destroy, IndInv, TypeOK
<1>8. /\ owner' \in [Handles -> {"unborn", "wrapper", "script", "native", "lost", "gone"}]
      /\ destroyed' \subseteq Handles /\ twice' \subseteq destroyed'
  BY <1>4 DEF Destroy, IndInv, TypeOK
<1>9. /\ \A x \in Wrappers : x # w => cell'[x] = cell[x]
      /\ cell'[w] = Invalid
  BY <1>4 DEF IndInv, TypeOK
<1>10. TypeOK'
  BY <1>4, <1>8 DEF IndInv, TypeOK, Values
<1>11. CellIsOwned'
  <2> SUFFICES ASSUME NEW x \in Wrappers, cell'[x] # Invalid
               PROVE  /\ owned[x] /\ handle[x] = cell'[x]
                      /\ cell'[x] \in Settled =>
                           owner'[cell'[x]] = IF Closing(x) THEN "gone" ELSE "wrapper"
    BY <1>4, <1>5 DEF CellIsOwned
  <2>1. x # w /\ cell'[x] = cell[x]
    BY <1>9
  <2> QED BY <2>1, <1>2, <1>6, <1>7 DEF IndInv, CellIsOwned
<1>12. CellsDiffer'
  BY <1>2, <1>5, <1>9 DEF IndInv, CellsDiffer
<1>13. OwnedHasCell'
  <2> SUFFICES ASSUME NEW x \in Wrappers, owned[x], handle[x] # Invalid
               PROVE  \/ cell'[x] = handle[x]
                      \/ /\ x \notin reachable /\ ~ Framed(x)
                         /\ handle[x] \in Settled => owner'[handle[x]] = "gone"
    BY <1>4, <1>5 DEF OwnedHasCell
  <2> QED BY <1>1, <1>2, <1>3, <1>7, <1>9 DEF IndInv, OwnedHasCell
<1>14. OwnerHasCell'
  <2> SUFFICES ASSUME NEW g \in Settled, owner'[g] = "wrapper"
               PROVE  \E x \in Wrappers : cell'[x] = g
    BY <1>5 DEF OwnerHasCell
  <2>1. g # h /\ owner[g] = "wrapper"
    BY <1>2, <1>7
  <2> QED BY <2>1, <1>9 DEF IndInv, OwnerHasCell, h
<1>15. GoneIsDestroyed'
  <2>1. twice' \subseteq disputed
    BY <1>3, <1>7, <1>8 DEF IndInv, GoneIsDestroyed, Settled
  <2> QED BY <2>1, <1>2, <1>4, <1>5, <1>7 DEF IndInv, GoneIsDestroyed
<1>16. UnmadeIsEmpty'
  BY <1>4, <1>9 DEF IndInv, UnmadeIsEmpty
<1>17. FramesOK'
  BY <1>4 DEF IndInv, FramesOK
<1> QED
  BY <1>10, <1>11, <1>12, <1>13, <1>14, <1>15, <1>16, <1>17 DEF IndInv

\* A call that takes no ownership, the return from it, and a reference that is
\* dropped keep the inductive invariant.
LEMMA QuietInv ==
  ASSUME IndInv, UNCHANGED <<made, handle, owned, cell, owner, destroyed, twice, disputed>>,
         reachable' \subseteq reachable,
         frames' \in Seq(FrameSet),
         \A i \in DOMAIN frames \intersect DOMAIN frames' : frames'[i] = frames[i],
         \A i \in DOMAIN frames \ DOMAIN frames' : frames[i].op = "method",
         \A i \in DOMAIN frames' \ DOMAIN frames :
             /\ frames'[i].op = "method"
             /\ frames'[i].self \in reachable /\ frames'[i].arg \in reachable
  PROVE  IndInv'
<1>1. \A x \in Wrappers : Closing(x)' <=> Closing(x)
  BY DEF Closing
<1>2. \A x \in Wrappers : Framed(x)' => Framed(x) \/ x \in reachable
  BY DEF Framed
<1>3. Settled' = Settled
  BY DEF Settled
<1>4. TypeOK'
  BY DEF IndInv, TypeOK
<1>5. CellIsOwned'
  BY <1>1, <1>3 DEF IndInv, CellIsOwned
<1>6. OwnedHasCell'
  BY <1>2, <1>3 DEF IndInv, OwnedHasCell
<1>7. CellsDiffer' /\ OwnerHasCell' /\ GoneIsDestroyed' /\ UnmadeIsEmpty'
  BY <1>3 DEF IndInv, CellsDiffer, OwnerHasCell, GoneIsDestroyed, UnmadeIsEmpty
<1>8. FramesOK'
  BY DEF IndInv, TypeOK, FramesOK
<1> QED BY <1>4, <1>5, <1>6, <1>7, <1>8 DEF IndInv

\* A call and what it leaves on the stack.
LEMMA CallPushes ==
  ASSUME IndInv, NEW w \in reachable, NEW x \in reachable, NEW h \in Values, NEW p \in Values,
         frames' = Append(frames, Frame("method", w, h, x, p))
  PROVE  /\ frames' \in Seq(FrameSet) /\ DOMAIN frames \subseteq DOMAIN frames'
         /\ \A i \in DOMAIN frames : frames'[i] = frames[i]
         /\ \A i \in DOMAIN frames' \ DOMAIN frames :
              /\ frames'[i].op = "method"
              /\ frames'[i].self \in reachable /\ frames'[i].arg \in reachable
         /\ Last(frames') = Frame("method", w, h, x, p)
<1> DEFINE f == Frame("method", w, h, x, p)
           n == Len(frames) + 1
<1>1. f \in FrameSet /\ f.op = "method" /\ f.self = w /\ f.arg = x
  BY DEF Frame, FrameSet, IndInv, TypeOK
<1>2. frames' = Append(frames, f) /\ frames \in Seq(FrameSet)
  BY DEF IndInv, TypeOK
<1> HIDE DEF f
<1>3. /\ frames' \in Seq(FrameSet) /\ DOMAIN frames' = DOMAIN frames \union {n}
      /\ \A i \in DOMAIN frames : frames'[i] = frames[i]
      /\ frames'[n] = f
  BY <1>1, <1>2, Pushed
<1>4. Last(frames') = f
  BY <1>1, <1>2 DEF Last
<1> QED BY <1>1, <1>3, <1>4 DEF f

\* Every step keeps the inductive invariant.
LEMMA NextInv ==
  ASSUME IndInv, [Next]_vars
  PROVE  IndInv'
<1> USE OwnershipConstants
<1> DEFINE Owners == {"unborn", "wrapper", "script", "native", "lost", "gone"}
<1>1. /\ frames \in Seq(FrameSet) /\ reachable \subseteq Wrappers /\ made \subseteq Wrappers
      /\ handle \in [Wrappers -> Values] /\ owner \in [Handles -> Owners]
      /\ disputed \subseteq Handles
  BY DEF IndInv, TypeOK
<1>2. ASSUME NEW w \in Wrappers, Construct(w) PROVE IndInv'
  <2>1. PICK h \in Values : /\ h \in Handles => Unborn(h)
                            /\ initializeInstance(w, h, TRUE)
                            /\ Taken(h, TRUE)
    BY <1>2 DEF Construct
  <2> QED BY <2>1, <1>1, <1>2, InstanceInv DEF Construct, Unborn
<1>3. ASSUME NEW w \in Wrappers, NEW h \in Values, NEW own \in BOOLEAN, Wrap(w, h, own)
      PROVE  IndInv'
  BY <1>1, <1>3, InstanceInv DEF Wrap
<1>4. ASSUME NEW w \in Wrappers, NEW h \in Values, NEW own \in BOOLEAN, MethodWraps(w, h, own)
      PROVE  IndInv'
  <2>1. /\ frames' \in Seq(FrameSet) /\ DOMAIN frames' \subseteq DOMAIN frames
        /\ \A i \in DOMAIN frames' : frames'[i] = frames[i]
        /\ \A i \in DOMAIN frames \ DOMAIN frames' : frames[i].op = "method"
    BY <1>1, <1>4, Popped DEF MethodWraps
  <2> QED BY <2>1, <1>4, InstanceInv DEF MethodWraps
<1>5. ASSUME NEW w \in Wrappers, CloseBegin(w) PROVE IndInv'
  BY <1>5, CloseBeginInv
<1>6. CASE CloseEnd
  BY <1>6, CloseEndInv
<1>7. ASSUME NEW w \in Wrappers, CloseEmpty(w) PROVE IndInv'
  BY <1>7, CloseEmptyInv
<1>8. ASSUME NEW w \in Wrappers, NEW o \in {"script", "native", "lost"},
             Passed(w, o), Disputed(w)
      PROVE  /\ owner' \in [Handles -> Owners]
             /\ \A g \in Handles : g # handle[w] => owner'[g] = owner[g]
             /\ disputed' \subseteq Handles /\ disputed \subseteq disputed'
             /\ owned[w] /\ handle[w] \in Settled' => owner'[handle[w]] = o /\ ~ Closing(w)
             /\ ~ owned[w] /\ handle[w] \in Settled' => owner'[handle[w]] = owner[handle[w]]
  BY <1>1, <1>8 DEF Passed, Disputed, Settled
<1>9. ASSUME NEW w \in Wrappers, Release(w) PROVE IndInv'
  <2>1. /\ w \in reachable /\ Released(w) /\ Passed(w, "script") /\ Disputed(w)
        /\ UNCHANGED <<made, reachable, frames, destroyed, twice>>
    BY <1>9 DEF Release
  <2> QED BY <2>1, <1>1, <1>8, ReleasedInv
<1>10. ASSUME NEW w \in Wrappers, NEW x \in Wrappers, CallBorrowing(w, x) PROVE IndInv'
  <2>1. /\ w \in reachable /\ x \in reachable /\ handle[w] \in Values /\ handle[x] \in Values
        /\ frames' = Append(frames, Frame("method", w, handle[w], x, handle[x]))
        /\ UNCHANGED <<made, reachable, handle, owned, cell, owner, destroyed, twice, disputed>>
    BY <1>1, <1>10 DEF CallBorrowing, objects
  <2> QED BY <2>1, CallPushes, QuietInv
<1>11. ASSUME NEW w \in Wrappers, NEW x \in Wrappers, CallGiving(w, x) PROVE IndInv'
  <2>1. /\ w \in reachable /\ x \in reachable /\ Released(x)
        /\ UNCHANGED <<made, reachable, destroyed, twice>>
        /\ frames' = Append(frames, Frame("method", w, handle'[w], x, handle[x]))
    BY <1>11 DEF CallGiving
  <2>2. handle'[w] \in Values /\ handle[x] \in Values
    BY <1>1, <2>1 DEF Released, Cleared, Values
  <2>3. /\ frames' \in Seq(FrameSet) /\ DOMAIN frames \subseteq DOMAIN frames'
        /\ \A i \in DOMAIN frames : frames'[i] = frames[i]
        /\ \A i \in DOMAIN frames' \ DOMAIN frames :
             /\ frames'[i].op = "method"
             /\ frames'[i].self \in reachable /\ frames'[i].arg \in reachable
    BY <2>1, <2>2, CallPushes
  <2>4. CASE owned[x] \/ handle[x] \notin Handles
    <3>1. Passed(x, "native") /\ Disputed(x)
      BY <2>4, <1>11 DEF CallGiving
    <3> QED BY <3>1, <2>1, <2>3, <1>8, ReleasedInv
  <2>5. CASE ~ owned[x] /\ handle[x] \in Handles
    <3>1. /\ owner' = [owner EXCEPT ![handle[x]] = "native"]
          /\ disputed' = IF owner[handle[x]] = "script" THEN disputed ELSE disputed \union {handle[x]}
      BY <2>5, <1>11 DEF CallGiving
    <3>2. /\ owner' \in [Handles -> Owners]
          /\ \A g \in Handles : g # handle[x] => owner'[g] = owner[g]
          /\ disputed' \subseteq Handles /\ disputed \subseteq disputed'
          /\ handle[x] \in Settled' => owner[handle[x]] = "script" /\ owner'[handle[x]] = "native"
      BY <3>1, <2>5, <1>1 DEF Settled
    <3> QED BY <3>2, <2>1, <2>3, <2>5, ReleasedInv
  <2> QED BY <2>4, <2>5
<1>12. ASSUME NEW w \in Wrappers, NEW x \in Wrappers, GivingThrows(w, x) PROVE IndInv'
  <2>1. /\ x \in reachable /\ Released(x) /\ Passed(x, "lost") /\ Disputed(x)
        /\ UNCHANGED <<made, reachable, frames, destroyed, twice>>
    BY <1>12 DEF GivingThrows
  <2> QED BY <2>1, <1>1, <1>8, ReleasedInv
<1>13. CASE MethodReturn
  <2>1. /\ frames' \in Seq(FrameSet) /\ DOMAIN frames' \subseteq DOMAIN frames
        /\ \A i \in DOMAIN frames' : frames'[i] = frames[i]
        /\ \A i \in DOMAIN frames \ DOMAIN frames' : frames[i].op = "method"
    BY <1>1, <1>13, Popped DEF MethodReturn
  <2> QED BY <2>1, <1>13, QuietInv DEF MethodReturn, objects
<1>14. ASSUME NEW w \in Wrappers, Drop(w) PROVE IndInv'
  BY <1>1, <1>14, QuietInv DEF Drop, objects
<1>15. ASSUME NEW w \in Wrappers, Finalize(w) PROVE IndInv'
  BY <1>15, FinalizeInv
<1>16. CASE UNCHANGED vars
  BY <1>1, <1>16, QuietInv DEF vars, objects
<1> QED
  BY <1>2, <1>3, <1>4, <1>5, <1>6, <1>7, <1>9, <1>10, <1>11, <1>12, <1>13, <1>14, <1>15, <1>16
     DEF Next

----------------------------------------------------------------------------
\* The inductive invariant holds in every behaviour.
THEOREM Invariant == Spec => []IndInv
<1>1. IndInv /\ [Next]_vars => IndInv'
  BY NextInv
<1> QED BY <1>1, InitInv, PTL DEF Spec

\* Every variable keeps its type.
THEOREM TypeCorrect == Spec => []TypeOK
<1>1. IndInv => TypeOK
  BY DEF IndInv
<1> QED BY <1>1, Invariant, PTL

\* However close(), release(), owned parameters and the finalizer follow each
\* other and nest, the destructor is given an object twice only if a script
\* closed or released its wrapper inside its own close(), or gave it away
\* without owning it.
THEOREM NeverDestroyedTwice == Spec => []DestroyedOnce
<1>1. IndInv => DestroyedOnce
  BY DEF IndInv, GoneIsDestroyed, DestroyedOnce
<1> QED BY <1>1, Invariant, PTL

\* An undisputed object that a wrapper has to destroy is in one wrapper and,
\* under that wrapper, in the registry.
THEOREM OneOwner == Spec => []OwnedOnce
<1>1. IndInv => OwnedOnce
  <2> SUFFICES ASSUME IndInv PROVE OwnedOnce
    OBVIOUS
  <2> USE OwnershipConstants
  <2>1. ASSUME NEW h \in Settled, owner[h] = "wrapper"
        PROVE  \E w \in Wrappers : /\ cell[w] = h
                                   /\ {x \in Wrappers : owned[x] /\ handle[x] = h} = {w}
    <3>1. PICK w \in Wrappers : cell[w] = h
      BY <2>1 DEF IndInv, OwnerHasCell
    <3>2. h # Invalid
      BY DEF Settled
    <3>3. owned[w] /\ handle[w] = h
      BY <3>1, <3>2 DEF IndInv, CellIsOwned
    <3>4. \A x \in Wrappers : owned[x] /\ handle[x] = h => x = w
      BY <2>1, <3>1, <3>2 DEF IndInv, OwnedHasCell, CellsDiffer
    <3> QED BY <3>1, <3>3, <3>4
  <2>2. \A h \in Settled : owner[h] = "wrapper" =>
          Cardinality({w \in Wrappers : owned[w] /\ handle[w] = h}) = 1
    BY <2>1, FS_Singleton
  <2>3. ASSUME NEW h \in Settled
        PROVE  owner[h] = "wrapper" <=> \E w \in Wrappers : cell[w] = h /\ h \notin destroyed
    <3>1. h # Invalid
      BY DEF Settled
    <3>2. h \in destroyed <=> owner[h] = "gone"
      BY DEF IndInv, GoneIsDestroyed
    <3>3. \A w \in Wrappers : cell[w] = h => owner[h] \in {"wrapper", "gone"}
      BY <3>1 DEF IndInv, CellIsOwned
    <3> QED BY <2>1, <3>2, <3>3
  <2> QED BY <2>2, <2>3 DEF OwnedOnce, Settled
<1> QED BY <1>1, Invariant, PTL

\* What was given away is not destroyed behind its new owner's back.
THEOREM NothingTakenBack == Spec => GivenAwayIsSafe
<1> DEFINE Safe == \A h \in Handles \ disputed :
                     owner[h] \in {"script", "native"} => h \notin destroyed' \ destroyed
<1>1. IndInv /\ [Next]_vars => [Safe]_vars
  <2> SUFFICES ASSUME IndInv, Next PROVE Safe
    OBVIOUS
  <2>1. ASSUME NEW w \in Wrappers, CloseBegin(w) PROVE Safe
    <3>1. handle[w] \in Settled => owner[handle[w]] \in {"wrapper", "gone"}
      BY <2>1, ReachableOwner DEF CloseBegin
    <3> QED BY <2>1, <3>1 DEF CloseBegin, Destroy, Settled
  <2>2. ASSUME NEW w \in Wrappers, Finalize(w) PROVE Safe
    <3>1. cell[w] \in Settled => owner[cell[w]] \in {"wrapper", "gone"}
      BY <2>2 DEF Finalize, IndInv, CellIsOwned
    <3> QED BY <2>2, <3>1 DEF Finalize, Destroy, Settled
  <2>3. CASE destroyed' = destroyed
    BY <2>3
  <2> QED
    BY <2>1, <2>2, <2>3
       DEF Next, Construct, CloseEmpty, Release, Drop, CallBorrowing, CallGiving,
           GivingThrows, Wrap, MethodWraps, CloseEnd, MethodReturn, objects
<1> QED BY <1>1, Invariant, PTL DEF Spec, GivenAwayIsSafe

\* A wrapper that still owns its object, and is not being closed, never hands
\* native code one that was destroyed.
THEOREM NoUseAfterDestroy == Spec => OwnersPassLiving
<1> DEFINE Pass == Len(frames') > Len(frames) =>
                     LET f == Last(frames') IN
                       f.op = "method" => Living(f.self, f.handle) /\ Living(f.arg, f.passed)
<1>1. IndInv /\ [Next]_vars => [Pass]_vars
  <2> SUFFICES ASSUME IndInv, Next PROVE Pass
    OBVIOUS
  <2>1. frames \in Seq(FrameSet) /\ handle \in [Wrappers -> Values] /\ destroyed \subseteq Handles
    BY DEF IndInv, TypeOK
  <2>2. ASSUME NEW w \in reachable PROVE Living(w, handle[w])
    <3>1. Invalid \notin destroyed
      BY <2>1, OwnershipConstants
    <3> QED BY <2>1, <3>1, ReachableOwner DEF Living, Settled
  <2>3. ASSUME NEW w \in Wrappers, NEW x \in Wrappers, CallBorrowing(w, x) PROVE Pass
    <3>1. /\ w \in reachable /\ x \in reachable
          /\ frames' = Append(frames, Frame("method", w, handle[w], x, handle[x]))
      BY <2>3 DEF CallBorrowing
    <3>2. Last(frames') = Frame("method", w, handle[w], x, handle[x])
      BY <2>1, <3>1, CallPushes
    <3> QED BY <2>2, <3>1, <3>2 DEF Frame
  <2>4. ASSUME NEW w \in Wrappers, NEW x \in Wrappers, CallGiving(w, x) PROVE Pass
    <3>1. /\ w \in reachable /\ x \in reachable
          /\ handle' = [handle EXCEPT ![x] = Invalid]
          /\ frames' = Append(frames, Frame("method", w, handle'[w], x, handle[x]))
      BY <2>4 DEF CallGiving, Released, Cleared
    <3>2. handle'[w] \in {handle[w], Invalid} /\ handle'[w] \in Values
      BY <2>1, <3>1 DEF Values
    <3>3. Last(frames') = Frame("method", w, handle'[w], x, handle[x])
      BY <2>1, <3>1, <3>2, CallPushes
    <3>4. Living(w, handle'[w])
      BY <2>1, <2>2, <3>1, <3>2, OwnershipConstants DEF Living
    <3> QED BY <2>2, <3>1, <3>3, <3>4 DEF Frame
  <2>5. ASSUME NEW w \in Wrappers, CloseBegin(w) PROVE Pass
    <3> DEFINE f == Frame("close", w, handle[w], w, Invalid)
    <3>1. f \in FrameSet /\ f.op = "close"
      BY <2>1 DEF Frame, FrameSet, Values
    <3>2. frames' = Append(frames, f)
      BY <2>5 DEF CloseBegin
    <3> HIDE DEF f
    <3>3. Last(frames') = f
      BY <2>1, <3>1, <3>2 DEF Last
    <3> QED BY <3>1, <3>3
  <2>6. CASE frames # <<>> /\ frames' = Front(frames)
    <3>1. Len(Front(frames)) < Len(frames)
      BY <2>1, <2>6 DEF Front
    <3> QED BY <2>6, <3>1, <2>1
  <2>7. CASE frames' = frames
    BY <2>7, <2>1
  <2> QED
    BY <2>3, <2>4, <2>5, <2>6, <2>7
       DEF Next, Construct, CloseEmpty, Release, Drop, Finalize,
           GivingThrows, Wrap, MethodWraps, CloseEnd, MethodReturn
<1> QED BY <1>1, Invariant, PTL DEF Spec, OwnersPassLiving
=============================================================================
