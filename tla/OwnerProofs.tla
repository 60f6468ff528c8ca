----------------------------- MODULE OwnerProofs -----------------------------
(***************************************************************************)
(* The theorems about the types that own something outside themselves:     *)
(* UniquePtr, for any number of pointers and blocks and any deleters, and  *)
(* File, for any number of Files; and about the status codes they report.  *)
(***************************************************************************)
EXTENDS UniquePtr, File, StatusCode, FiniteSetTheorems, SequenceTheorems, WellFoundedInduction, TLAPS

Ptrs ==
    [alive : BOOLEAN, first : Blocks \cup {Null}, second : DeleterStates \cup {Stateless, Null}]

UniqueTypeOK ==
    /\ uniqueDeleter \in DeleterTypes
    /\ unique \in [Pointers -> Ptrs]
    /\ block \in [Blocks -> DeleterStates \cup {Stateless, Null}]
    /\ raw \in SUBSET Blocks

(* Who owns what, as long as nothing undefined happened. *)
UniqueOwnership ==
    /\ \A h \in Pointers :
        unique[h].first # Null =>
            /\ unique[h].alive
            /\ block[unique[h].first] = unique[h].second
            /\ block[unique[h].first] # NotAllocated
            /\ unique[h].first \notin raw
    /\ \A h, g \in Pointers :
        unique[h].first = unique[g].first /\ unique[h].first # Null => h = g
    /\ \A b \in raw : block[b] # NotAllocated
    /\ \A b \in Blocks :
        block[b] # NotAllocated => b \in raw \/ \E h \in Pointers : unique[h].first = b

UniqueInv ==
    /\ UniqueTypeOK
    /\ uniqueFault = "none" => UniqueOwnership
    /\ uniqueFault # "none" => uniqueFault = "null" /\ uniqueDeleter = "AllocatorAware"

LEMMA UniqueInvInit == UniqueInit => UniqueInv
<1> SUFFICES ASSUME UniqueInit PROVE UniqueInv
  OBVIOUS
<1>1. Absent(Null) \in Ptrs /\ Absent(Null).first = Null
  BY DEF Absent, Ptrs
<1>2. UniqueTypeOK
  BY <1>1 DEF UniqueInit, UniqueTypeOK, NotAllocated
<1>3. UniqueOwnership
  BY <1>1 DEF UniqueInit, UniqueOwnership
<1> QED BY <1>2, <1>3 DEF UniqueInit, UniqueInv

(* The pairs the operations make. *)
LEMMA PairSteps ==
    /\ \A p \in Blocks \cup {Null}, d \in DeleterStates \cup {Stateless, Null} :
        /\ Owning(p, d) \in Ptrs /\ Owning(p, d).alive
        /\ Owning(p, d).first = p /\ Owning(p, d).second = d
        /\ Absent(d) \in Ptrs /\ Absent(d).first = Null /\ Absent(d).second = d
    /\ \A u \in Ptrs, p \in Blocks \cup {Null} :
        LET w == [u EXCEPT !.first = p]
        IN  w \in Ptrs /\ w.alive = u.alive /\ w.first = p /\ w.second = u.second
  BY DEF Owning, Absent, Ptrs

(* A deleter that is invoked on what its UniquePtr holds frees it, and is  *)
(* invoked to undefined effect only on a nullptr.                          *)
LEMMA InvokeSafe ==
    ASSUME UniqueTypeOK, UniqueOwnership, NEW h \in Pointers, Invoke(unique[h].first, unique[h].second)
    PROVE  /\ uniqueFault' = "none" \/ (uniqueFault' = "null" /\ uniqueDeleter = "AllocatorAware")
           /\ block' \in [Blocks -> DeleterStates \cup {Stateless, Null}]
           /\ \A b \in Blocks : block'[b] = IF b = unique[h].first THEN NotAllocated ELSE block[b]
<1>1. \/ FaultOf(unique[h].first, unique[h].second) = "none"
      \/ /\ FaultOf(unique[h].first, unique[h].second) = "null"
         /\ uniqueDeleter = "AllocatorAware"
  <2> DEFINE b == unique[h].first
             d == unique[h].second
  <2>0. FaultOf(b, d) = IF uniqueDeleter = "AllocatorAware" THEN AllocatorAwareDelete(b, d)
                        ELSE IF uniqueDeleter = "AllocatorAwareArray"
                             THEN AllocatorAwareArrayDelete(b, d) ELSE DefaultDelete(b)
    BY DEF FaultOf
  <2>1. CASE unique[h].first = Null
    <3>1. /\ DefaultDelete(b) = "none" /\ AllocatorAwareDelete(b, d) = "null"
          /\ AllocatorAwareArrayDelete(b, d) = "none"
      BY <2>1 DEF DefaultDelete, AllocatorAwareDelete, AllocatorAwareArrayDelete
    <3> QED BY <2>0, <3>1
  <2>2. CASE unique[h].first # Null
    <3>1. /\ block[unique[h].first] = unique[h].second
          /\ block[unique[h].first] # NotAllocated
      BY <2>2 DEF UniqueOwnership
    <3>2. /\ DefaultDelete(unique[h].first) = "none"
          /\ AllocatorAwareDelete(unique[h].first, unique[h].second) = "none"
          /\ AllocatorAwareArrayDelete(unique[h].first, unique[h].second) = "none"
      BY <2>2, <3>1 DEF DefaultDelete, AllocatorAwareDelete, AllocatorAwareArrayDelete
    <3> QED BY <2>0, <3>2
  <2> QED BY <2>1, <2>2
<1>2. \A b \in Blocks : block'[b] = IF b = unique[h].first THEN NotAllocated ELSE block[b]
  BY DEF Invoke
<1>3. block' \in [Blocks -> DeleterStates \cup {Stateless, Null}]
  BY DEF Invoke, UniqueTypeOK, NotAllocated
<1> QED BY <1>1, <1>2, <1>3 DEF Invoke

(* One UniquePtr changes and nothing undefined happened. *)
LEMMA OnePointerChanges ==
    ASSUME UniqueTypeOK, NEW h \in Pointers, NEW u \in Ptrs, unique' = [unique EXCEPT ![h] = u]
    PROVE  /\ unique' \in [Pointers -> Ptrs]
           /\ \A x \in Pointers : unique'[x] = IF x = h THEN u ELSE unique[x]
  BY DEF UniqueTypeOK

LEMMA UniqueInvStep == UniqueInv /\ [UniqueNext]_uniqueVars => UniqueInv'
<1> SUFFICES ASSUME UniqueInv, [UniqueNext]_uniqueVars PROVE UniqueInv'
  OBVIOUS
<1>0. UniqueTypeOK
  BY DEF UniqueInv
<1>1. CASE UNCHANGED uniqueVars
  BY <1>1 DEF uniqueVars, UniqueInv, UniqueTypeOK, UniqueOwnership
<1> SUFFICES ASSUME UniqueNext PROVE UniqueInv'
  BY <1>1
<1>n. uniqueFault = "none" /\ UniqueOwnership
  BY DEF UniqueNext, UniqueInv
<1>t. /\ \A h \in Pointers : unique[h] \in Ptrs /\ unique[h].first \in Blocks \cup {Null}
                             /\ unique[h].second \in DeleterStates \cup {Stateless, Null}
      /\ \A b \in Blocks : block[b] \in DeleterStates \cup {Stateless, Null} /\ b # Null
  BY <1>0, UniqueAssumption DEF UniqueTypeOK, Ptrs
<1>2. ASSUME NEW h \in Pointers, NEW d \in States, UniqueConstructNull(h, d) PROVE UniqueInv'
  <2>1. d \in DeleterStates \cup {Stateless, Null}
    BY DEF States
  <2>2. /\ unique' \in [Pointers -> Ptrs]
        /\ \A x \in Pointers : unique'[x] = IF x = h THEN Owning(Null, d) ELSE unique[x]
    BY <1>0, <1>2, <2>1, PairSteps, OnePointerChanges DEF UniqueConstructNull
  <2>3. unique[h].first = Null /\ Owning(Null, d).first = Null
    BY <1>2, <1>n, <2>1, PairSteps DEF UniqueConstructNull, UniqueOwnership, LivePtr
  <2> QED BY <1>0, <1>2, <1>n, <2>2, <2>3
          DEF UniqueConstructNull, UniqueInv, UniqueTypeOK, UniqueOwnership
<1>3. ASSUME NEW h \in Pointers, NEW b \in Blocks, UniqueConstruct(h, b) PROVE UniqueInv'
  <2> DEFINE u == Owning(b, block[b])
  <2>1. u \in Ptrs /\ u.alive /\ u.first = b /\ u.second = block[b]
    BY <1>t, PairSteps
  <2> HIDE DEF u
  <2>2. /\ unique' \in [Pointers -> Ptrs]
        /\ \A x \in Pointers : unique'[x] = IF x = h THEN u ELSE unique[x]
    BY <1>0, <1>3, <2>1, OnePointerChanges DEF UniqueConstruct, u
  <2>3. unique[h].first = Null
    BY <1>3, <1>n DEF UniqueConstruct, UniqueOwnership, LivePtr
  <2> QED BY <1>0, <1>3, <1>n, <1>t, <2>1, <2>2, <2>3
          DEF UniqueConstruct, UniqueInv, UniqueTypeOK, UniqueOwnership
<1>4. ASSUME NEW h \in Pointers, NEW b \in Blocks, NEW d \in (DeleterStates \cup {Stateless}),
             ~LivePtr(h), block[b] = NotAllocated, block' = [block EXCEPT ![b] = d],
             unique' = [unique EXCEPT ![h] = Owning(b, d)],
             UNCHANGED <<uniqueDeleter, raw, uniqueFault>>
      PROVE  UniqueInv'
  <2> DEFINE u == Owning(b, d)
  <2>1. u \in Ptrs /\ u.alive /\ u.first = b /\ u.second = d
    BY PairSteps
  <2> HIDE DEF u
  <2>2. /\ unique' \in [Pointers -> Ptrs]
        /\ \A x \in Pointers : unique'[x] = IF x = h THEN u ELSE unique[x]
    BY <1>0, <1>4, <2>1, OnePointerChanges DEF u
  <2>3. unique[h].first = Null /\ d # Null
    BY <1>4, <1>n, UniqueAssumption DEF UniqueOwnership, LivePtr
  <2>4. /\ block' \in [Blocks -> DeleterStates \cup {Stateless, Null}]
        /\ \A x \in Blocks : block'[x] = IF x = b THEN d ELSE block[x]
    BY <1>0, <1>4 DEF UniqueTypeOK
  <2> QED BY <1>0, <1>4, <1>n, <1>t, <2>1, <2>2, <2>3, <2>4
          DEF UniqueInv, UniqueTypeOK, UniqueOwnership, NotAllocated
<1>5. ASSUME NEW h \in Pointers, UniqueRelease(h) PROVE UniqueInv'
  <2> DEFINE u == [unique[h] EXCEPT !.first = Null]
  <2>1. u \in Ptrs /\ u.alive = unique[h].alive /\ u.first = Null /\ u.second = unique[h].second
    BY <1>t, PairSteps
  <2> HIDE DEF u
  <2>2. /\ unique' \in [Pointers -> Ptrs]
        /\ \A x \in Pointers : unique'[x] = IF x = h THEN u ELSE unique[x]
    BY <1>0, <1>5, <2>1, OnePointerChanges DEF UniqueRelease, u
  <2> QED BY <1>0, <1>5, <1>n, <1>t, <2>1, <2>2
          DEF UniqueRelease, UniqueInv, UniqueTypeOK, UniqueOwnership
<1>6. ASSUME NEW h \in Pointers, NEW p \in raw \cup {Null}, UniqueReset(h, p) PROVE UniqueInv'
  <2> DEFINE u == [unique[h] EXCEPT !.first = p]
  <2>0. p \in Blocks \cup {Null}
    BY <1>0 DEF UniqueTypeOK
  <2>1. u \in Ptrs /\ u.alive = unique[h].alive /\ u.first = p /\ u.second = unique[h].second
    BY <1>t, <2>0, PairSteps
  <2> HIDE DEF u
  <2>2. /\ unique' \in [Pointers -> Ptrs]
        /\ \A x \in Pointers : unique'[x] = IF x = h THEN u ELSE unique[x]
    BY <1>0, <1>6, <2>1, OnePointerChanges DEF UniqueReset, u
  <2>3. /\ uniqueFault' = "none" \/ (uniqueFault' = "null" /\ uniqueDeleter = "AllocatorAware")
        /\ block' \in [Blocks -> DeleterStates \cup {Stateless, Null}]
        /\ \A b \in Blocks : block'[b] = IF b = unique[h].first THEN NotAllocated ELSE block[b]
    BY <1>0, <1>6, <1>n, InvokeSafe DEF UniqueReset
  <2>4. UniqueTypeOK'
    BY <1>0, <1>6, <2>2, <2>3 DEF UniqueReset, UniqueTypeOK
  <2>5. UniqueOwnership'
    <3>1. /\ raw' = raw \ {p} /\ (p # Null => p \in raw /\ block[p] = unique[h].second)
          /\ LivePtr(h) /\ (p # Null => p # unique[h].first /\ block[p] # NotAllocated)
      BY <1>6, <1>n DEF UniqueReset, UniqueOwnership
    <3>p. p = Null \/ p \in Blocks
      BY <2>0
    <3>x. /\ unique'[h] = u
          /\ \A x \in Pointers \ {h} :
                /\ unique'[x] = unique[x]
                /\ unique[x].first # Null => unique[x].first # p /\ unique[x].first # unique[h].first
      BY <1>n, <2>2, <3>1 DEF UniqueOwnership
    <3>2. ASSUME NEW x \in Pointers, unique'[x].first # Null
          PROVE  /\ unique'[x].alive
                 /\ block'[unique'[x].first] = unique'[x].second
                 /\ block'[unique'[x].first] # NotAllocated
                 /\ unique'[x].first \notin raw'
      <4>1. CASE x = h
        BY <2>1, <2>3, <3>1, <3>2, <3>p, <3>x, <4>1 DEF LivePtr
      <4>2. CASE x # h
        BY <1>n, <1>t, <2>3, <3>1, <3>2, <3>x, <4>2 DEF UniqueOwnership
      <4> QED BY <4>1, <4>2
    <3>3. ASSUME NEW x \in Pointers, NEW y \in Pointers,
                 unique'[x].first = unique'[y].first, unique'[x].first # Null
          PROVE  x = y
      <4>1. \A z \in Pointers : unique'[z].first = IF z = h THEN p ELSE unique[z].first
        BY <2>1, <3>x
      <4>2. CASE x # h /\ y # h
        BY <1>n, <3>3, <4>1, <4>2 DEF UniqueOwnership
      <4>3. CASE x = h \/ y = h
        BY <3>3, <3>x, <4>1, <4>3
      <4> QED BY <4>2, <4>3
    <3>4. \A b \in raw' : block'[b] # NotAllocated
      BY <1>0, <1>n, <1>t, <2>3, <3>1 DEF UniqueOwnership, UniqueTypeOK
    <3>5. \A b \in Blocks :
            block'[b] # NotAllocated => b \in raw' \/ \E x \in Pointers : unique'[x].first = b
      BY <1>n, <1>t, <2>1, <2>2, <2>3, <3>1 DEF UniqueOwnership
    <3> QED BY <3>2, <3>3, <3>4, <3>5 DEF UniqueOwnership, NotAllocated
  <2> QED BY <1>6, <2>3, <2>4, <2>5 DEF UniqueInv, UniqueReset
<1>7. ASSUME NEW h \in Pointers, UniqueDestroy(h) PROVE UniqueInv'
  <2> DEFINE u == Absent(unique[h].second)
  <2>1. u \in Ptrs /\ u.first = Null
    BY <1>t, PairSteps
  <2> HIDE DEF u
  <2>2. /\ unique' \in [Pointers -> Ptrs]
        /\ \A x \in Pointers : unique'[x] = IF x = h THEN u ELSE unique[x]
    BY <1>0, <1>7, <2>1, OnePointerChanges DEF UniqueDestroy, u
  <2>3. /\ uniqueFault' = "none" \/ (uniqueFault' = "null" /\ uniqueDeleter = "AllocatorAware")
        /\ block' \in [Blocks -> DeleterStates \cup {Stateless, Null}]
        /\ \A b \in Blocks : block'[b] = IF b = unique[h].first THEN NotAllocated ELSE block[b]
    BY <1>0, <1>7, <1>n, InvokeSafe DEF UniqueDestroy
  <2>4. UniqueTypeOK'
    BY <1>0, <1>7, <2>2, <2>3 DEF UniqueDestroy, UniqueTypeOK
  <2>5. UniqueOwnership'
    BY <1>0, <1>7, <1>n, <1>t, <2>1, <2>2, <2>3
    DEF UniqueDestroy, UniqueTypeOK, UniqueOwnership, NotAllocated
  <2> QED BY <1>7, <2>3, <2>4, <2>5 DEF UniqueInv, UniqueDestroy
<1>8. ASSUME NEW h \in Pointers, NEW g \in Pointers, UniqueSwap(h, g) PROVE UniqueInv'
  <2>1. /\ unique' \in [Pointers -> Ptrs]
        /\ \A x \in Pointers : unique'[x] = IF x = g THEN unique[h] ELSE IF x = h THEN unique[g] ELSE unique[x]
    BY <1>0, <1>8, <1>t DEF UniqueSwap, UniqueTypeOK
  <2> QED BY <1>0, <1>8, <1>n, <1>t, <2>1
          DEF UniqueSwap, UniqueInv, UniqueTypeOK, UniqueOwnership
<1>9. ASSUME NEW h \in Pointers, NEW g \in Pointers, h # g,
             unique' = [unique EXCEPT ![h] = Owning(unique[g].first, unique[g].second), ![g].first = Null]
      PROVE  /\ unique' \in [Pointers -> Ptrs]
             /\ \A x \in Pointers \ {h, g} : unique'[x] = unique[x]
             /\ unique'[g].first = Null
             /\ unique'[h].alive /\ unique'[h].first = unique[g].first /\ unique'[h].second = unique[g].second
  <2> DEFINE u == Owning(unique[g].first, unique[g].second)
             w == [unique[g] EXCEPT !.first = Null]
  <2>1. u \in Ptrs /\ u.alive /\ u.first = unique[g].first /\ u.second = unique[g].second
    BY <1>t, PairSteps
  <2>w. w \in Ptrs /\ w.first = Null
    BY <1>t, PairSteps
  <2>2. unique' = [unique EXCEPT ![h] = u, ![g] = w]
    BY <1>0, <1>9 DEF UniqueTypeOK
  <2> HIDE DEF u, w
  <2> QED BY <1>0, <1>9, <2>1, <2>w, <2>2 DEF UniqueTypeOK
<1>10. ASSUME NEW h \in Pointers, NEW g \in Pointers, UniqueMoveConstruct(h, g) PROVE UniqueInv'
  <2>1. h # g /\ unique[h].first = Null
    BY <1>10, <1>n DEF UniqueMoveConstruct, LivePtr, UniqueOwnership
  <2>2. /\ unique' \in [Pointers -> Ptrs]
        /\ \A x \in Pointers \ {h, g} : unique'[x] = unique[x]
        /\ unique'[g].first = Null
        /\ unique'[h].alive /\ unique'[h].first = unique[g].first /\ unique'[h].second = unique[g].second
    BY <1>9, <1>10, <2>1 DEF UniqueMoveConstruct
  <2>3. UNCHANGED <<uniqueDeleter, block, raw, uniqueFault>>
    BY <1>10 DEF UniqueMoveConstruct
  <2>4. UniqueTypeOK'
    BY <1>0, <2>2, <2>3 DEF UniqueTypeOK
  <2>5. \A x \in Pointers :
            unique'[x].first = IF x = h THEN unique[g].first ELSE IF x = g THEN Null ELSE unique[x].first
    BY <2>1, <2>2
  <2>6. ASSUME NEW x \in Pointers, unique'[x].first # Null
        PROVE  /\ unique'[x].alive
               /\ block'[unique'[x].first] = unique'[x].second
               /\ block'[unique'[x].first] # NotAllocated
               /\ unique'[x].first \notin raw'
    <3>1. CASE x = h
      BY <1>n, <2>2, <2>3, <2>6, <3>1 DEF UniqueOwnership, NotAllocated
    <3>2. CASE x \in Pointers \ {h, g}
      BY <1>n, <2>2, <2>3, <2>6, <3>2 DEF UniqueOwnership, NotAllocated
    <3> QED BY <2>2, <2>6, <3>1, <3>2
  <2>7. UniqueOwnership'
    <3>1. \A x, y \in Pointers :
            unique'[x].first = unique'[y].first /\ unique'[x].first # Null => x = y
      BY <1>n, <2>1, <2>5 DEF UniqueOwnership
    <3>2. \A b \in Blocks :
            block'[b] # NotAllocated => b \in raw' \/ \E x \in Pointers : unique'[x].first = b
      <4> TAKE b \in Blocks
      <4>1. ASSUME block'[b] # NotAllocated, b \notin raw'
            PROVE  \E x \in Pointers : unique'[x].first = b
        <5>1. PICK y \in Pointers : unique[y].first = b
          BY <1>n, <2>3, <4>1 DEF UniqueOwnership, NotAllocated
        <5>2. CASE y = g
          BY <2>5, <5>1, <5>2
        <5>3. CASE y # g
          <6>1. CASE y = h
            <7>1. b = Null
              BY <2>1, <5>1, <6>1
            <7> QED BY <7>1, UniqueAssumption
          <6>2. CASE y # h
            BY <2>5, <5>1, <5>3, <6>2
          <6> QED BY <6>1, <6>2
        <5> QED BY <5>2, <5>3
      <4> QED BY <4>1
    <3>3. \A b \in raw' : block'[b] # NotAllocated
      BY <1>n, <2>3 DEF UniqueOwnership, NotAllocated
    <3> QED BY <2>6, <3>1, <3>2, <3>3 DEF UniqueOwnership, NotAllocated
  <2> QED BY <1>0, <2>3, <2>4, <2>7 DEF UniqueInv
<1>11. ASSUME NEW h \in Pointers, NEW g \in Pointers, UniqueMoveAssign(h, g) PROVE UniqueInv'
  <2>1. CASE h = g
    BY <1>0, <1>11, <1>n, <2>1 DEF UniqueMoveAssign, UniqueInv, UniqueTypeOK, UniqueOwnership
  <2>2. CASE h # g
    <3>2. /\ unique' \in [Pointers -> Ptrs]
          /\ \A x \in Pointers \ {h, g} : unique'[x] = unique[x]
          /\ unique'[g].first = Null
          /\ unique'[h].alive /\ unique'[h].first = unique[g].first /\ unique'[h].second = unique[g].second
      BY <1>9, <1>11, <2>2 DEF UniqueMoveAssign
    <3>3. /\ uniqueFault' = "none" \/ (uniqueFault' = "null" /\ uniqueDeleter = "AllocatorAware")
          /\ block' \in [Blocks -> DeleterStates \cup {Stateless, Null}]
          /\ \A b \in Blocks : block'[b] = IF b = unique[h].first THEN NotAllocated ELSE block[b]
      BY <1>0, <1>11, <1>n, <2>2, InvokeSafe DEF UniqueMoveAssign
    <3>4. UniqueTypeOK'
      BY <1>0, <1>11, <3>2, <3>3 DEF UniqueMoveAssign, UniqueTypeOK
    <3>5. UniqueOwnership'
      BY <1>0, <1>11, <1>n, <1>t, <2>2, <3>2, <3>3
      DEF UniqueMoveAssign, UniqueTypeOK, UniqueOwnership, NotAllocated
    <3> QED BY <1>11, <3>3, <3>4, <3>5 DEF UniqueInv, UniqueMoveAssign
  <2> QED BY <2>1, <2>2
<1>12. ASSUME NEW h \in Pointers, NEW b \in Blocks,
              MakeUnique(h, b) \/ \E d \in States : AllocateUnique(h, b, d)
       PROVE  UniqueInv'
  BY <1>4, <1>12 DEF MakeUnique, AllocateUnique, States
<1> QED
  BY <1>2, <1>3, <1>5, <1>6, <1>7, <1>8, <1>10, <1>11, <1>12 DEF UniqueNext, UniqueAssign

(* UniqueOwnsAndFrees for any number of pointers and blocks and any states *)
(* of the deleters: through moves, swaps, releases and resets every        *)
(* allocated block has one owner with the deleter it came with, and        *)
(* nothing is freed twice or through another deleter (UniquePtr.h:433,     *)
(* :558, CompressedPair.h:303).                                            *)
THEOREM UniqueOwnsOnce == UniqueSpec => []UniqueOwnsAndFrees
<1>1. UniqueInv => UniqueOwnsAndFrees
  <2> SUFFICES ASSUME UniqueInv PROVE UniqueOwnsAndFrees
    OBVIOUS
  <2>1. CASE uniqueFault = "none"
    <3>1. ASSUME NEW b \in Blocks
          PROVE  Cardinality(Owners(b)) + (IF b \in raw THEN 1 ELSE 0)
                    = IF block[b] = NotAllocated THEN 0 ELSE 1
      <4>0. b # Null
        BY UniqueAssumption
      <4>1. CASE Owners(b) = {}
        <5>1. Cardinality(Owners(b)) = 0
          BY <4>1, FS_EmptySet
        <5>2. b \in raw <=> block[b] # NotAllocated
          BY <2>1, <4>0, <4>1 DEF Owners, UniqueInv, UniqueOwnership
        <5> QED BY <5>1, <5>2
      <4>2. CASE Owners(b) # {}
        <5>1. PICK h \in Pointers : unique[h].first = b
          BY <4>2 DEF Owners
        <5>2. Owners(b) = {h} /\ b \notin raw /\ block[b] # NotAllocated
          BY <2>1, <4>0, <5>1 DEF Owners, UniqueInv, UniqueOwnership
        <5>3. Cardinality(Owners(b)) = 1
          BY <5>2, FS_Singleton
        <5> QED BY <5>2, <5>3
      <4> QED BY <4>1, <4>2
    <3>2. \A h \in Pointers : unique[h].first # Null => block[unique[h].first] = unique[h].second
      BY <2>1 DEF UniqueInv, UniqueOwnership
    <3> QED BY <2>1, <3>1, <3>2 DEF UniqueOwnsAndFrees
  <2>2. CASE uniqueFault # "none"
    BY <2>2 DEF UniqueInv, UniqueOwnsAndFrees
  <2> QED BY <2>1, <2>2
<1> QED BY <1>1, UniqueInvInit, UniqueInvStep, PTL DEF UniqueSpec

-----------------------------------------------------------------------------
(* Of the tests of a list whose last one succeeds, one is the first to. *)
LEMMA FirstSuccess ==
    ASSUME NEW n \in Nat \ {0}, NEW T \in SUBSET (1 .. n), n \in T
    PROVE  \E i \in T : \A j \in 1 .. i - 1 : j \notin T
<1> DEFINE R == OpToRel(<, Nat)
<1>1. \A x, y \in Nat : <<x, y>> \in R <=> x < y
  BY DEF OpToRel
<1>2. IsWellFoundedOn(R, Nat)
  BY NatLessThanWellFounded
<1> HIDE DEF R
<1>n. T \in SUBSET Nat /\ T # {}
  OBVIOUS
<1>3. PICK i \in T : \A y \in T : ~(<<y, i>> \in R)
  BY <1>2, <1>n, WFMin
<1>4. i \in Nat /\ \A y \in T : ~(y < i) /\ y \in Nat
  BY <1>1, <1>3, <1>n
<1> QED BY <1>4

Modes == {"a+b", "a+", "w+b", "w+x", "w+xb", "w+", "r+b", "r+", "rb", "r",
          "ab", "a", "wb", "wx", "wbx", "w"}

(* validate_open_options gives a mode or refuses, and if it accepts Append, *)
(* the mode is one that appends.                                           *)
LEMMA ValidModes ==
    ASSUME NEW options \in OpenOptions
    PROVE  /\ ValidateOpenOptions(options) \in Modes \cup {Invalid}
           /\ Appending(options) /\ ValidateOpenOptions(options) # Invalid
              => Appends(ValidateOpenOptions(options))
<1> DEFINE tests == ModeTests(options.type, options.modifier)
           Good(i) == tests[i][1] /\ \A j \in 1 .. i - 1 : ~tests[j][1]
           first == CHOOSE i \in 1 .. Len(tests) : Good(i)
<1>0. options.type \in AccessTypes
  BY DEF OpenOptions
<1>1. /\ Len(tests) \in Nat \ {0}
      /\ tests[Len(tests)][1]
      /\ \A i \in 1 .. Len(tests) : tests[i][2] \in Modes \cup {Invalid}
  <2>1. CASE options.type = "ReadWrite"
    <3>1. Len(tests) = 9 /\ tests[9][1] /\ tests[9][2] = Invalid
      BY <2>1 DEF ModeTests
    <3>2. /\ tests[1][2] \in Modes /\ tests[2][2] \in Modes /\ tests[3][2] \in Modes
          /\ tests[4][2] \in Modes /\ tests[5][2] \in Modes /\ tests[6][2] \in Modes
          /\ tests[7][2] \in Modes /\ tests[8][2] \in Modes
      BY <2>1 DEF ModeTests, Modes
    <3> HIDE DEF tests
    <3>3. \A i \in 1 .. 9 : i \in {1, 2, 3, 4, 5, 6, 7, 8, 9}
      OBVIOUS
    <3> QED BY <3>1, <3>2, <3>3
  <2>2. CASE options.type = "Read"
    <3>1. Len(tests) = 3 /\ tests[3][1] /\ tests[3][2] = Invalid
      BY <2>2 DEF ModeTests
    <3>2. /\ tests[1][2] \in Modes /\ tests[2][2] \in Modes
      BY <2>2 DEF ModeTests, Modes
    <3> HIDE DEF tests
    <3>3. \A i \in 1 .. 3 : i \in {1, 2, 3}
      OBVIOUS
    <3> QED BY <3>1, <3>2, <3>3
  <2>3. CASE options.type = "Write"
    <3>1. Len(tests) = 7 /\ tests[7][1] /\ tests[7][2] = Invalid
      BY <2>3 DEF ModeTests
    <3>2. /\ tests[1][2] \in Modes /\ tests[2][2] \in Modes /\ tests[3][2] \in Modes
          /\ tests[4][2] \in Modes /\ tests[5][2] \in Modes /\ tests[6][2] \in Modes
      BY <2>3 DEF ModeTests, Modes
    <3> HIDE DEF tests
    <3>3. \A i \in 1 .. 7 : i \in {1, 2, 3, 4, 5, 6, 7}
      OBVIOUS
    <3> QED BY <3>1, <3>2, <3>3
  <2> QED BY <1>0, <2>1, <2>2, <2>3 DEF AccessTypes
<1>2. ASSUME Appending(options), NEW i \in 1 .. Len(tests), tests[i][1], tests[i][2] # Invalid
      PROVE  Appends(tests[i][2])
  <2>1. CASE options.type = "ReadWrite"
    <3>1. Len(tests) = 9 /\ Appends(tests[1][2]) /\ Appends(tests[2][2]) /\ tests[9][2] = Invalid
      BY <2>1 DEF ModeTests, Appends
    <3>2. /\ ~tests[3][1] /\ ~tests[4][1] /\ ~tests[5][1] /\ ~tests[6][1] /\ ~tests[7][1]
          /\ ~tests[8][1]
      BY <1>2, <2>1 DEF ModeTests, Appending
    <3> HIDE DEF tests
    <3>3. i \in {1, 2, 3, 4, 5, 6, 7, 8, 9}
      BY <3>1
    <3> QED BY <1>2, <3>1, <3>2, <3>3
  <2>2. CASE options.type = "Read"
    <3>0. options.modifier # {} /\ options.modifier # {"Binary"}
      BY <1>2 DEF Appending
    <3>1. /\ Len(tests) = 3 /\ tests[1][1] = (options.modifier = {"Binary"})
          /\ tests[2][1] = (options.modifier = {}) /\ tests[3][2] = Invalid
      BY <2>2 DEF ModeTests
    <3> HIDE DEF tests
    <3>3. i \in {1, 2, 3}
      BY <3>1
    <3> QED BY <1>2, <3>0, <3>1, <3>3
  <2>3. CASE options.type = "Write"
    <3>1. Len(tests) = 7 /\ Appends(tests[1][2]) /\ Appends(tests[2][2]) /\ tests[7][2] = Invalid
      BY <2>3 DEF ModeTests, Appends
    <3>2. ~tests[3][1] /\ ~tests[4][1] /\ ~tests[5][1] /\ ~tests[6][1]
      BY <1>2, <2>3 DEF ModeTests, Appending
    <3> HIDE DEF tests
    <3>3. i \in {1, 2, 3, 4, 5, 6, 7}
      BY <3>1
    <3> QED BY <1>2, <3>1, <3>2, <3>3
  <2> QED BY <1>0, <2>1, <2>2, <2>3 DEF AccessTypes
<1>3. ValidateOpenOptions(options) = tests[first][2]
  BY DEF ValidateOpenOptions
<1> HIDE DEF tests
<1>4. \E i \in 1 .. Len(tests) : Good(i)
  <2> DEFINE T == {i \in 1 .. Len(tests) : tests[i][1]}
  <2>1. T \in SUBSET (1 .. Len(tests)) /\ Len(tests) \in T
    BY <1>1
  <2>2. \A i \in 1 .. Len(tests) : i \in T <=> tests[i][1]
    OBVIOUS
  <2> HIDE DEF T
  <2>3. PICK i \in T : \A j \in 1 .. i - 1 : j \notin T
    BY <1>1, <2>1, FirstSuccess
  <2>4. \A j \in 1 .. i - 1 : j \in 1 .. Len(tests)
    BY <1>1, <2>1
  <2> QED BY <2>1, <2>2, <2>3, <2>4
<1>5. first \in 1 .. Len(tests) /\ Good(first)
  BY <1>4
<1> HIDE DEF first
<1> QED BY <1>1, <1>2, <1>3, <1>5

-----------------------------------------------------------------------------
StreamRecords ==
    [exists : BOOLEAN, marks : Seq(Marks), mode : Modes \cup {"closed"}, pos : Nat,
     pending : Seq(Marks), last : {"none", "read", "write"}, buffered : BOOLEAN,
     accepted : Seq(Marks)]
Files ==
    [alive : BOOLEAN, m_file : Streams \cup {NoStream}, m_buffer : Streams \cup {NoStream},
     m_options : OpenOptions]

(* A stream in order: the position is in the file. *)
Orderly(s) == s \in StreamRecords /\ s.pos <= Len(s.marks)

(* It was opened with these options, and has what they promise. *)
Good(s, options) ==
    /\ s.mode = ValidateOpenOptions(options)
    /\ Appending(options) => s.marks \o s.pending = s.accepted

(* What a call makes of the stream s. *)
Follows(s, t, options) ==
    /\ Orderly(t)
    /\ t.mode = s.mode
    /\ t.buffered = s.buffered
    /\ Good(s, options) => Good(t, options)

(* A stream that is open and was opened with Append is written at its end. *)
LEMMA GoodAppends ==
    ASSUME NEW s \in StreamRecords, NEW options \in OpenOptions, Good(s, options),
           Appending(options)
    PROVE  Appends(s.mode)
<1>1. s.mode \in Modes \cup {"closed"}
  BY DEF StreamRecords
<1>2. s.mode # Invalid
  BY <1>1 DEF Modes, Invalid
<1> QED BY <1>2, ValidModes DEF Good

(* What is written out is a sequence of marks that the position is in. *)
LEMMA WrittenOutMarks ==
    ASSUME NEW s, Orderly(s)
    PROVE  /\ WrittenOut(s) \in Seq(Marks)
           /\ Appends(s.mode) => WrittenOut(s) = s.marks \o s.pending
           /\ Len(WrittenOut(s)) >= Len(s.marks)
           /\ Appends(s.mode) => Len(WrittenOut(s)) = Len(s.marks) + Len(s.pending)
           /\ ~Appends(s.mode) => Len(WrittenOut(s)) >= s.pos + Len(s.pending)
<1> DEFINE marks == s.marks
<1>0. WrittenOut(s) = IF Appends(s.mode)
                      THEN marks \o s.pending
                      ELSE SubSeq(marks, 1, s.pos) \o s.pending
                             \o SubSeq(marks, s.pos + Len(s.pending) + 1, Len(marks))
  BY DEF WrittenOut
<1>1. /\ s.pos \in Nat /\ s.pending \in Seq(Marks) /\ Len(s.pending) \in Nat
      /\ marks \in Seq(Marks) /\ Len(marks) \in Nat /\ s.pos <= Len(marks)
  BY DEF Orderly, StreamRecords
<1> SUFFICES /\ WrittenOut(s) \in Seq(Marks)
             /\ Appends(s.mode) => WrittenOut(s) = marks \o s.pending
             /\ Len(WrittenOut(s)) >= Len(marks)
             /\ Appends(s.mode) => Len(WrittenOut(s)) = Len(marks) + Len(s.pending)
             /\ ~Appends(s.mode) => Len(WrittenOut(s)) >= s.pos + Len(s.pending)
  OBVIOUS
<1> HIDE DEF marks
<1>2. CASE Appends(s.mode)
  <2>1. WrittenOut(s) = marks \o s.pending
    BY <1>0, <1>2
  <2>2. marks \o s.pending \in Seq(Marks) /\ Len(marks \o s.pending) = Len(marks) + Len(s.pending)
    BY <1>1, ConcatProperties
  <2> QED BY <1>1, <1>2, <2>1, <2>2
<1>3. CASE ~Appends(s.mode)
  <2> DEFINE a == SubSeq(marks, 1, s.pos)
             m == s.pos + Len(s.pending) + 1
             b == SubSeq(marks, m, Len(marks))
  <2>1. a \in Seq(Marks) /\ Len(a) = s.pos
    BY <1>1, SubSeqProperties
  <2>2. b \in Seq(Marks) /\ Len(b) = IF m <= Len(marks) THEN Len(marks) - m + 1 ELSE 0
    BY <1>1, SubSeqProperties
  <2>3. WrittenOut(s) = (a \o s.pending) \o b
    BY <1>0, <1>3
  <2> HIDE DEF a, b
  <2>4. a \o s.pending \in Seq(Marks) /\ Len(a \o s.pending) = s.pos + Len(s.pending)
    BY SMTT(30), <1>1, <2>1, ConcatProperties
  <2> DEFINE c == a \o s.pending
  <2>5. c \in Seq(Marks) /\ Len(c) = s.pos + Len(s.pending) /\ WrittenOut(s) = c \o b
    BY <2>3, <2>4
  <2> HIDE DEF c
  <2>6. c \o b \in Seq(Marks) /\ Len(c \o b) = Len(c) + Len(b)
    BY ZenonT(60), <2>2, <2>5, ConcatProperties
  <2> DEFINE r == c \o b
             n == Len(s.pending)
  <2>7. Len(r) = s.pos + n + Len(b) /\ Len(b) = IF m <= Len(marks) THEN Len(marks) - m + 1 ELSE 0
    BY <2>2, <2>5, <2>6
  <2>8. r \in Seq(Marks) /\ r = WrittenOut(s)
    BY <2>5, <2>6
  <2>9. n \in Nat
    BY <1>1
  <2> HIDE DEF r, n
  <2>10. Len(r) >= Len(marks) /\ Len(r) >= s.pos + n
    BY SMTT(30), <1>1, <2>7, <2>9 DEF n
  <2> QED BY <1>3, <2>8, <2>10 DEF n
<1> QED BY <1>2, <1>3

(* Flushing keeps a stream in order and empties the buffer. *)
LEMMA FlushFollows ==
    ASSUME NEW s, Orderly(s), NEW options \in OpenOptions
    PROVE  /\ Follows(s, Flushed(s), options)
           /\ Flushed(s).pending = <<>>
           /\ Flushed(s).last = s.last
           /\ Flushed(s).accepted = s.accepted
           /\ Flushed(s).marks = WrittenOut(s)
           /\ Flushed(s).pos = PosAfter(s)
           /\ PosAfter(s) \in Nat
           /\ PosAfter(s) <= Len(WrittenOut(s))
           /\ WrittenOut(s) \in Seq(Marks)
<1>1. /\ s \in StreamRecords /\ s.marks \in Seq(Marks) /\ s.pos \in Nat
      /\ s.pending \in Seq(Marks) /\ s.pos <= Len(s.marks)
  BY DEF Orderly, StreamRecords
<1> DEFINE w == WrittenOut(s)
           p == PosAfter(s)
           a == Len(s.marks)
           b == Len(s.pending)
<1>2. /\ w \in Seq(Marks)
      /\ Appends(s.mode) => w = s.marks \o s.pending
      /\ Len(w) >= a
      /\ Appends(s.mode) => Len(w) = a + b
      /\ ~Appends(s.mode) => Len(w) >= s.pos + b
  BY WrittenOutMarks
<1>3. a \in Nat /\ b \in Nat /\ Len(w) \in Nat /\ s.pos <= a
  BY <1>1, <1>2
<1>4. p \in Nat /\ p <= Len(w)
  <2>1. CASE s.pending = <<>>
    <3>1. p = s.pos
      BY <2>1 DEF PosAfter
    <3> HIDE DEF a, b, p, w
    <3> QED BY <1>1, <1>2, <1>3, <3>1
  <2>2. CASE s.pending # <<>> /\ Appends(s.mode)
    <3>1. p = a + b
      BY <2>2 DEF PosAfter
    <3> HIDE DEF a, b, p, w
    <3> QED BY <1>2, <1>3, <2>2, <3>1
  <2>3. CASE s.pending # <<>> /\ ~Appends(s.mode)
    <3>1. p = s.pos + b
      BY <2>3 DEF PosAfter
    <3> HIDE DEF a, b, p, w
    <3> QED BY <1>1, <1>2, <1>3, <2>3, <3>1
  <2> QED BY <2>1, <2>2, <2>3
<1> DEFINE t == Flushed(s)
<1>5. t = [s EXCEPT !.marks = w, !.pending = <<>>, !.pos = p]
  BY DEF Flushed
<1> HIDE DEF w, p, t, a, b
<1>6. /\ t \in StreamRecords /\ t.pending = <<>> /\ t.pos = p /\ t.marks = w
      /\ t.mode = s.mode /\ t.last = s.last /\ t.buffered = s.buffered /\ t.accepted = s.accepted
  <2>1. <<>> \in Seq(Marks)
    OBVIOUS
  <2> QED BY <1>1, <1>2, <1>4, <1>5, <2>1 DEF StreamRecords
<1>7. Orderly(t)
  BY <1>4, <1>6 DEF Orderly
<1>8. Good(s, options) => Good(t, options)
  <2> SUFFICES ASSUME Good(s, options), Appending(options) PROVE t.marks \o t.pending = t.accepted
    BY <1>6 DEF Good
  <2>1. Appends(s.mode)
    BY <1>1, GoodAppends
  <2>2. w = s.accepted
    BY <1>2, <2>1 DEF Good
  <2>3. w \in Seq(Marks)
    BY <1>2
  <2>4. w \o <<>> = w
    BY <2>3
  <2> QED BY <1>6, <2>2, <2>4
<1>9. Follows(s, t, options)
  BY <1>6, <1>7, <1>8 DEF Follows
<1> QED BY <1>2, <1>4, <1>6, <1>9 DEF w, p, t

(* The stream after a call that moves it, or changes nothing but what was  *)
(* done last.                                                              *)
LEMMA MovedFollows ==
    ASSUME NEW s, NEW options \in OpenOptions, NEW f, Follows(s, f, options),
           NEW pos \in Nat, pos <= Len(f.marks), NEW last \in {"none", "read", "write"},
           NEW t, t = [f EXCEPT !.pos = pos, !.last = last]
    PROVE  Follows(s, t, options)
<1>1. f \in StreamRecords
  BY DEF Follows, Orderly
<1>2. /\ t \in StreamRecords /\ t.pos = pos /\ t.mode = f.mode /\ t.pending = f.pending
      /\ t.marks = f.marks /\ t.buffered = f.buffered /\ t.accepted = f.accepted
  BY <1>1 DEF StreamRecords
<1>3. Orderly(t)
  BY <1>2 DEF Orderly
<1>4. Good(f, options) => Good(t, options)
  BY <1>2 DEF Good
<1> QED BY <1>2, <1>3, <1>4 DEF Follows

LEMMA FollowsSelf ==
    ASSUME NEW s, Orderly(s), NEW options
    PROVE  Follows(s, s, options)
BY DEF Follows

LEMMA ConcatAppend ==
    ASSUME NEW x \in Seq(Marks), NEW y \in Seq(Marks), NEW m \in Marks
    PROVE  x \o Append(y, m) = Append(x \o y, m)
<1> DEFINE one == <<m>>
           xy == x \o y
<1>1. one \in Seq(Marks)
  OBVIOUS
<1>2. Append(y, m) = y \o one
  BY AppendIsConcat
<1>3. xy \in Seq(Marks)
  BY ConcatProperties
<1>4. Append(xy, m) = xy \o one
  <2> HIDE DEF xy
  <2> QED BY <1>3, AppendIsConcat
<1> HIDE DEF one
<1>5. (x \o y) \o one = x \o (y \o one)
  BY <1>1, ConcatAssociative
<1> QED BY <1>2, <1>4, <1>5, Zenon DEF xy

(* What is written comes last of all that was accepted. *)
LEMMA WriteFollows ==
    ASSUME NEW s, Orderly(s), NEW options \in OpenOptions, NEW mark \in Marks
    PROVE  Follows(s, Written(s, options, mark), options)
<1> DEFINE f == IF Len(s.pending) = BufferMarks THEN Flushed(s) ELSE s
           t == Written(s, options, mark)
           q == Append(f.pending, mark)
           acc == IF Appending(options) THEN Append(f.accepted, mark) ELSE f.accepted
<1>1. Follows(s, f, options)
  BY FlushFollows, FollowsSelf
<1>2. t = [f EXCEPT !.pending = q, !.last = "write", !.accepted = acc]
  BY DEF Written
<1> HIDE DEF f, t
<1>3. /\ f \in StreamRecords /\ f.pending \in Seq(Marks) /\ f.accepted \in Seq(Marks)
      /\ f.marks \in Seq(Marks)
  BY <1>1 DEF Follows, Orderly, StreamRecords
<1>4. q \in Seq(Marks) /\ acc \in Seq(Marks)
  BY <1>3
<1>5. f.marks \o q = Append(f.marks \o f.pending, mark)
  BY <1>3, ConcatAppend
<1>6. Appending(options) => acc = Append(f.accepted, mark)
  OBVIOUS
<1> HIDE DEF q, acc
<1>7. /\ t \in StreamRecords /\ t.pending = q /\ t.accepted = acc /\ t.pos = f.pos
      /\ t.marks = f.marks /\ t.mode = f.mode /\ t.buffered = f.buffered
  BY <1>2, <1>3, <1>4 DEF StreamRecords
<1>8. Orderly(t)
  BY <1>1, <1>7 DEF Orderly, Follows
<1>9. Good(f, options) => Good(t, options)
  BY <1>5, <1>6, <1>7 DEF Good
<1>10. Follows(s, t, options)
  BY <1>1, <1>7, <1>8, <1>9 DEF Follows
<1> QED BY <1>10 DEF t

(* A File and its stream belong together. *)
Fits(f) ==
    /\ f.m_buffer = BufferOf(f.m_file)
    /\ f.m_file # NoStream => f.alive /\ Good(fileStream[f.m_file], f.m_options)

FileOwned ==
    /\ file \in [FileHolders -> Files]
    /\ fileStream \in [Streams -> StreamRecords]
    /\ \A x \in Streams : Orderly(fileStream[x])
    /\ \A x \in Streams : IsOpen(x) <=> \E h \in FileHolders : file[h].m_file = x
    /\ \A h, g \in FileHolders :
            file[h].m_file = file[g].m_file /\ file[h].m_file # NoStream => h = g
    /\ \A h \in FileHolders : Fits(file[h])

FileInv == fileFault = "none" => FileOwned

(* What a call on the stream of h may do: nothing, to that stream what     *)
(* keeps it in order, or something undefined.                              *)
Touched(h) ==
    /\ UNCHANGED file
    /\ fileFault' = "none" =>
        \/ UNCHANGED fileStream
        \/ /\ file[h].m_file # NoStream
           /\ \E t : /\ Becomes(file[h].m_file, t)
                     /\ Follows(fileStream[file[h].m_file], t, file[h].m_options)

(* The calls on a File. *)
StreamCall(h) ==
    \/ FileRead(h) \/ FileReadBytes(h) \/ FilePosition(h)
    \/ \E newline \in BOOLEAN : FileReadLine(h, newline)
    \/ \E fails \in BOOLEAN :
        \/ FileFlush(h, fails)
        \/ \E mark \in Marks : FileWriteBytes(h, mark, fails) \/ FilePrint(h, mark, fails)
        \/ \E backFails \in BOOLEAN : FileSize(h, fails, backFails)
        \/ \E offset \in {-1, 0}, origin \in {"Begin", "Current", "End"} :
                FileSeek(h, offset, origin, fails)

LEMMA StreamCalls ==
    ASSUME FileOwned, NEW h \in FileHolders, StreamCall(h)
    PROVE  Touched(h)
<1> DEFINE x == file[h].m_file
           o == file[h].m_options
           s == fileStream[x]
<1>0. x \in Streams \cup {NoStream} /\ o \in OpenOptions
  BY DEF FileOwned, Files
<1>s. x # NoStream => Orderly(s)
  BY <1>0 DEF FileOwned
<1>n. CASE OnNull(h)
  BY <1>n DEF OnNull, Touched
<1>u. CASE UNCHANGED <<file, fileStream>>
  BY <1>u DEF Touched
<1>t. ASSUME x # NoStream, UNCHANGED file, NEW t, Becomes(x, t), Follows(s, t, o)
      PROVE  Touched(h)
  BY <1>t DEF Touched
<1>at. ASSUME x # NoStream, UNCHANGED file, NEW pos \in Nat, pos <= Len(WrittenOut(s)),
              Becomes(x, FlushedAt(s, pos))
       PROVE  Touched(h)
  <2> DEFINE f == Flushed(s)
  <2>1. Follows(s, f, o) /\ f.marks = WrittenOut(s)
    BY <1>0, <1>s, <1>at, FlushFollows
  <2>2. FlushedAt(s, pos) = [f EXCEPT !.pos = pos, !.last = "none"]
    BY DEF FlushedAt
  <2>3. Follows(s, FlushedAt(s, pos), o)
    <3> HIDE DEF f, s, o
    <3> QED BY <1>0, <1>at, <2>1, <2>2, MovedFollows
  <2> QED BY <1>t, <1>at, <2>3
<1>1. ASSUME x # NoStream, UNCHANGED file, StreamRead(x) PROVE Touched(h)
  <2>1. CASE s.last = "write"
    BY <1>1, <2>1 DEF StreamRead, Touched
  <2>2. CASE s.last # "write"
    <3> DEFINE q == IF s.pos < Len(s.marks) THEN s.pos + 1 ELSE s.pos
               t == [s EXCEPT !.pos = q, !.last = "read"]
    <3>1. Becomes(x, t)
      BY <1>1, <2>2 DEF StreamRead
    <3>2. s.pos \in Nat /\ Len(s.marks) \in Nat /\ s.pos <= Len(s.marks)
      BY <1>s, <1>1 DEF Orderly, StreamRecords
    <3>3. q \in Nat /\ q <= Len(s.marks)
      <4> DEFINE a == s.pos
                 b == Len(s.marks)
      <4>1. a \in Nat /\ b \in Nat /\ a <= b /\ q = IF a < b THEN a + 1 ELSE a
        BY <3>2
      <4> HIDE DEF a, q
      <4> SUFFICES q \in Nat /\ q <= b
        OBVIOUS
      <4> HIDE DEF b
      <4> QED BY <4>1
    <3>4. Follows(s, s, o)
      BY <1>s, <1>1, FollowsSelf
    <3>5. Follows(s, t, o)
      <4> HIDE DEF q, s, o
      <4> QED BY <1>0, <3>3, <3>4, MovedFollows
    <3> HIDE DEF t
    <3> QED BY <1>t, <1>1, <3>1, <3>5
  <2> QED BY <2>1, <2>2
<1>2. CASE FileRead(h) \/ FileReadBytes(h) \/ FilePosition(h)
  BY <1>n, <1>u, <1>1, <1>2 DEF FileRead, FileReadBytes, FilePosition, Refused, fileVars
<1>3. ASSUME NEW newline \in BOOLEAN, FileReadLine(h, newline) PROVE Touched(h)
  <2>1. \/ OnNull(h) \/ UNCHANGED <<file, fileStream>>
        \/ x # NoStream /\ UNCHANGED file /\ StreamRead(x)
    BY <1>3 DEF FileReadLine, Refused, fileVars
  <2> QED BY <1>n, <1>u, <1>1, <2>1
<1>4. ASSUME NEW fails \in BOOLEAN, NEW mark \in Marks,
             FileWriteBytes(h, mark, fails) \/ FilePrint(h, mark, fails)
      PROVE  Touched(h)
  <2>1. \/ OnNull(h) \/ UNCHANGED <<file, fileStream>>
        \/ x # NoStream /\ UNCHANGED file /\ StreamWrite(x, o, mark, fails)
    BY <1>4 DEF FileWriteBytes, FilePrint, Refused, fileVars
  <2>2. CASE x # NoStream /\ UNCHANGED file /\ StreamWrite(x, o, mark, fails)
    <3>1. \/ fileFault' = "write after read" \/ UNCHANGED fileStream
          \/ Becomes(x, Written(s, o, mark))
      BY <2>2 DEF StreamWrite
    <3>2. Follows(s, Written(s, o, mark), o)
      BY <1>0, <1>s, <2>2, WriteFollows
    <3>3. CASE fileFault' = "write after read"
      BY <2>2, <3>3 DEF Touched
    <3> QED BY <1>u, <1>t, <2>2, <3>1, <3>2, <3>3
  <2> QED BY <1>n, <1>u, <2>1, <2>2
<1>5. ASSUME NEW fails \in BOOLEAN, FileFlush(h, fails) PROVE Touched(h)
  <2> DEFINE f == Flushed(s)
             last == IF f.last = "write" THEN "none" ELSE f.last
             t == [f EXCEPT !.last = last]
  <2>1. OnNull(h) \/ UNCHANGED <<file, fileStream>> \/ (x # NoStream /\ UNCHANGED file /\ Becomes(x, t))
    BY <1>5 DEF FileFlush
  <2>2. CASE x # NoStream /\ UNCHANGED file /\ Becomes(x, t)
    <3>1. Follows(s, f, o)
      BY <1>0, <1>s, <2>2, FlushFollows
    <3> HIDE DEF f
    <3>2. /\ f \in StreamRecords /\ f.pos \in Nat /\ f.pos <= Len(f.marks)
          /\ last \in {"none", "read", "write"}
      BY <3>1 DEF Follows, Orderly, StreamRecords
    <3> HIDE DEF last
    <3>3. t = [f EXCEPT !.pos = f.pos, !.last = last]
      BY <3>2 DEF StreamRecords
    <3>4. Follows(s, t, o)
      <4> HIDE DEF s, o, t
      <4> QED BY <1>0, <3>1, <3>2, <3>3, MovedFollows
    <3> HIDE DEF t
    <3> QED BY <1>t, <2>2, <3>4
  <2> QED BY <1>n, <1>u, <2>1, <2>2
<1>p. x # NoStream => /\ PosAfter(s) \in Nat /\ Len(WrittenOut(s)) \in Nat
                      /\ PosAfter(s) <= Len(WrittenOut(s))
  BY <1>0, <1>s, FlushFollows
<1>6. ASSUME NEW fails \in BOOLEAN, NEW offset \in {-1, 0}, NEW origin \in {"Begin", "Current", "End"},
             FileSeek(h, offset, origin, fails)
      PROVE  Touched(h)
  <2> DEFINE pos == SeekTarget(s, offset, origin)
  <2>1. \/ OnNull(h) \/ UNCHANGED <<file, fileStream>>
        \/ /\ x # NoStream /\ UNCHANGED file /\ Becomes(x, FlushedAt(s, pos))
           /\ ~(pos < 0) /\ pos <= Len(WrittenOut(s))
    BY <1>6 DEF FileSeek
  <2>2. x # NoStream => pos \in Int
    BY <1>p DEF SeekTarget
  <2> HIDE DEF pos
  <2>3. x # NoStream /\ ~(pos < 0) => pos \in Nat
    BY <2>2
  <2> QED BY <1>n, <1>u, <1>at, <2>1, <2>3
<1>7. ASSUME NEW endFails \in BOOLEAN, NEW backFails \in BOOLEAN, FileSize(h, endFails, backFails)
      PROVE  Touched(h)
  <2> DEFINE pos == IF backFails THEN Len(WrittenOut(s)) ELSE PosAfter(s)
  <2>1. \/ OnNull(h) \/ UNCHANGED <<file, fileStream>>
        \/ x # NoStream /\ UNCHANGED file /\ Becomes(x, FlushedAt(s, pos))
    BY <1>7 DEF FileSize
  <2>2. x # NoStream => pos \in Nat /\ pos <= Len(WrittenOut(s))
    BY <1>p
  <2> HIDE DEF pos
  <2> QED BY <1>n, <1>u, <1>at, <2>1, <2>2
<1> QED BY <1>2, <1>3, <1>4, <1>5, <1>6, <1>7 DEF StreamCall

(* Files that are opened, moved from and destroyed. *)
LEMMA FileRecords ==
    /\ DeadFile \in Files /\ DeadFile.m_file = NoStream /\ DeadFile.m_buffer = NoStream
    /\ \A f \in Files : /\ NullFile(f) \in Files
                        /\ NullFile(f).m_file = NoStream
                        /\ NullFile(f).m_buffer = NoStream
<1>1. DefaultOptions \in OpenOptions
  BY DEF DefaultOptions, OpenOptions, AccessTypes, AccessModifiers
<1>2. ASSUME NEW f \in Files
      PROVE  /\ NullFile(f) \in Files /\ NullFile(f).m_file = NoStream
             /\ NullFile(f).m_buffer = NoStream
  BY DEF NullFile, Files
<1>3. DeadFile \in Files /\ DeadFile.m_file = NoStream /\ DeadFile.m_buffer = NoStream
  <2> DEFINE f == OpenedFile(NoStream, NoStream, DefaultOptions)
  <2>1. f \in Files /\ f.m_file = NoStream /\ f.m_buffer = NoStream
    BY <1>1 DEF OpenedFile, Files
  <2>2. DeadFile = [f EXCEPT !.alive = FALSE]
    BY DEF DeadFile
  <2> HIDE DEF f
  <2> QED BY <2>1, <2>2 DEF Files
<1> QED BY <1>2, <1>3

(* A path without a stream. *)
LEMMA NoFileOrderly == Orderly(NoFile) /\ NoFile.mode = "closed" /\ ~NoFile.buffered
BY DEF Orderly, NoFile, StreamRecords

(* A stream that was closed. *)
LEMMA ClosedOrderly ==
    ASSUME NEW s, Orderly(s), NEW fails \in BOOLEAN
    PROVE  LET t == ClosedStream(s, fails)
           IN  Orderly(t) /\ t.mode = "closed" /\ ~t.buffered
<1> DEFINE t == ClosedStream(s, fails)
           n == NoFile
           m == IF fails THEN s.marks ELSE WrittenOut(s)
<1>1. m \in Seq(Marks) /\ s.exists \in BOOLEAN
  BY WrittenOutMarks DEF Orderly, StreamRecords
<1>2. n \in StreamRecords /\ n.mode = "closed" /\ ~n.buffered /\ n.pos = 0
  BY DEF NoFile, StreamRecords
<1>3. t = [n EXCEPT !.exists = s.exists, !.marks = m]
  BY DEF ClosedStream
<1> HIDE DEF t, n, m
<1>4. t \in StreamRecords /\ t.mode = "closed" /\ ~t.buffered /\ t.pos = 0 /\ t.marks = m
  BY <1>1, <1>2, <1>3 DEF StreamRecords
<1>5. Len(m) \in Nat
  BY <1>1
<1>6. Orderly(t)
  BY <1>4, <1>5 DEF Orderly
<1> QED BY <1>4, <1>6 DEF t

(* A stream that was opened. *)
LEMMA OpenedOrderly ==
    ASSUME NEW s, Orderly(s), NEW options \in OpenOptions, NEW buffered \in BOOLEAN,
           ValidateOpenOptions(options) # Invalid
    PROVE  LET t == OpenedStream(s, options, buffered)
           IN  /\ Orderly(t) /\ Good(t, options) /\ t.mode # "closed"
               /\ t.buffered = buffered
<1> DEFINE t == OpenedStream(s, options, buffered)
           mode == ValidateOpenOptions(options)
           marks == IF Truncates(mode) THEN <<>> ELSE s.marks
           acc == IF Appending(options) THEN marks ELSE <<>>
<1>1. mode \in Modes
  BY ValidModes
<1>2. t = [exists |-> TRUE, marks |-> marks, mode |-> mode, pos |-> 0, pending |-> <<>>,
           last |-> "none", buffered |-> buffered, accepted |-> acc]
  BY DEF OpenedStream
<1>3. marks \in Seq(Marks) /\ acc \in Seq(Marks) /\ <<>> \in Seq(Marks)
  BY DEF Orderly, StreamRecords
<1>4. Appending(options) => acc = marks
  OBVIOUS
<1> HIDE DEF mode, marks, acc, t
<1>5. /\ t \in StreamRecords /\ t.pos = 0 /\ t.marks = marks /\ t.pending = <<>>
      /\ t.mode = mode /\ t.buffered = buffered /\ t.accepted = acc
  BY <1>1, <1>2, <1>3 DEF StreamRecords
<1>6. Len(marks) \in Nat /\ marks \o <<>> = marks
  BY <1>3
<1>7. mode # "closed"
  BY <1>1 DEF Modes
<1>8. Orderly(t)
  BY <1>5, <1>6 DEF Orderly
<1>9. Good(t, options)
  BY <1>4, <1>5, <1>6 DEF Good, mode
<1> QED BY <1>5, <1>7, <1>8, <1>9 DEF t

(* A call on one stream leaves Files and streams together. *)
LEMMA TouchedOwned ==
    ASSUME FileOwned, NEW h \in FileHolders, Touched(h), fileFault' = "none"
    PROVE  FileOwned'
<1>1. CASE UNCHANGED fileStream
  BY <1>1 DEF Touched, FileOwned, Fits, BufferOf, IsOpen
<1>2. CASE ~UNCHANGED fileStream
  <2> DEFINE x == file[h].m_file
             o == file[h].m_options
  <2>1. PICK t : Becomes(x, t) /\ Follows(fileStream[x], t, o)
    BY <1>2 DEF Touched
  <2>2. x \in Streams /\ UNCHANGED file
    BY <1>2 DEF Touched, FileOwned, Files
  <2>3. /\ fileStream' \in [Streams -> StreamRecords] /\ fileStream'[x] = t
        /\ \A y \in Streams : y # x => fileStream'[y] = fileStream[y]
    BY <2>1, <2>2 DEF Becomes, FileOwned, Follows, Orderly
  <2>4. \A y \in Streams : Orderly(fileStream'[y])
    BY <2>1, <2>3 DEF FileOwned, Follows
  <2>5. \A y \in Streams : /\ fileStream'[y].mode = fileStream[y].mode
                           /\ fileStream'[y].buffered = fileStream[y].buffered
    BY <2>1, <2>3 DEF Follows
  <2>6. \A y \in Streams \cup {NoStream} : BufferOf(y)' = BufferOf(y)
    BY <2>5 DEF BufferOf
  <2>7. ASSUME NEW g \in FileHolders PROVE Fits(file[g])'
    <3>0. PICK f : f = file[g]
      OBVIOUS
    <3>1. f.m_file \in Streams \cup {NoStream} /\ Fits(f) /\ f = file'[g]
      BY <2>2, <3>0 DEF FileOwned, Files
    <3>2. f.m_buffer = BufferOf(f.m_file)'
      BY <2>6, <3>1 DEF Fits
    <3>3. f.m_file # NoStream => f.alive
      BY <3>1 DEF Fits
    <3>4. CASE g = h
      <4>1. Good(fileStream[x], o)
        BY <2>2, <3>0, <3>1, <3>4, FileAssumption DEF Fits
      <4>2. Good(t, o)
        BY <2>1, <4>1 DEF Follows
      <4>3. Good(fileStream'[f.m_file], f.m_options)
        BY <2>3, <3>0, <3>4, <4>2
      <4> QED BY <3>1, <3>2, <3>3, <4>3 DEF Fits, Good
    <3>5. CASE g # h
      <4>1. f.m_file # NoStream => f.m_file # x
        BY <3>0, <3>5 DEF FileOwned
      <4>2. f.m_file # NoStream => Good(fileStream'[f.m_file], f.m_options)
        BY <2>3, <3>1, <4>1 DEF Fits
      <4> QED BY <3>1, <3>2, <3>3, <4>2 DEF Fits, Good
    <3> QED BY <3>4, <3>5
  <2>8. \A y \in Streams : IsOpen(y)' <=> IsOpen(y)
    BY <2>5 DEF IsOpen
  <2>9. (\A g \in FileHolders : Fits(file[g]))'
    BY <2>7
  <2> QED BY <2>2, <2>3, <2>4, <2>8, <2>9 DEF FileOwned, Orderly
<1> QED BY <1>1, <1>2

(* Nothing is said of a File that has no stream. *)
LEMMA NullFits ==
    ASSUME NEW f, f.m_file = NoStream, f.m_buffer = NoStream
    PROVE  Fits(f) /\ Fits(f)'
BY DEF Fits, BufferOf

(* A File whose stream did not change fits it as before. *)
LEMMA StillFits ==
    ASSUME NEW f \in Files, Fits(f),
           f.m_file # NoStream => fileStream'[f.m_file] = fileStream[f.m_file]
    PROVE  Fits(f)'
<1>1. CASE f.m_file = NoStream
  BY <1>1 DEF Fits, BufferOf
<1>2. CASE f.m_file # NoStream
  BY <1>2 DEF Fits, BufferOf, Good
<1> QED BY <1>1, <1>2

(* A path is opened, for a File that has no stream yet. *)
LEMMA OpenedOwned ==
    ASSUME FileOwned, NEW h \in FileHolders, NEW x \in Streams, NEW options \in OpenOptions,
           ~file[h].alive, CanOpen(x, options), NEW buffered \in BOOLEAN,
           fileStream' = [fileStream EXCEPT ![x] = OpenedStream(@, options, buffered)],
           file' = [file EXCEPT ![h] = OpenedFile(x, IF buffered THEN x ELSE NoStream, options)]
    PROVE  FileOwned'
<1> DEFINE t == OpenedStream(fileStream[x], options, buffered)
           b == IF buffered THEN x ELSE NoStream
           f == OpenedFile(x, b, options)
<1>1. Orderly(t) /\ Good(t, options) /\ t.mode # "closed" /\ t.buffered = buffered
  BY OpenedOrderly DEF FileOwned, CanOpen
<1>2. /\ fileStream' = [fileStream EXCEPT ![x] = t]
      /\ file' = [file EXCEPT ![h] = f]
  OBVIOUS
<1>3. f \in Files /\ f.alive /\ f.m_file = x /\ f.m_buffer = b /\ f.m_options = options
  BY DEF OpenedFile, Files
<1>4. b = IF t.buffered THEN x ELSE NoStream
  BY <1>1
<1> HIDE DEF t, f, b
<1>5. /\ fileStream' \in [Streams -> StreamRecords] /\ fileStream'[x] = t
      /\ \A y \in Streams : y # x => fileStream'[y] = fileStream[y]
  BY <1>1, <1>2 DEF FileOwned, Orderly
<1>6. /\ file' \in [FileHolders -> Files] /\ file'[h] = f
      /\ \A g \in FileHolders : g # h => file'[g] = file[g]
  BY <1>2, <1>3 DEF FileOwned
<1>7. \A y \in Streams : Orderly(fileStream'[y])
  BY <1>1, <1>5 DEF FileOwned
<1>8. \A g \in FileHolders : file[g].m_file # x
  BY DEF FileOwned, CanOpen
<1>9. file[h].m_file = NoStream
  BY DEF FileOwned, Fits
<1>10. (\A y \in Streams : IsOpen(y) <=> \E g \in FileHolders : file[g].m_file = y)'
  <2> SUFFICES ASSUME NEW y \in Streams
               PROVE  IsOpen(y)' <=> \E g \in FileHolders : file'[g].m_file = y
    OBVIOUS
  <2>1. CASE y = x
    BY <1>1, <1>3, <1>5, <1>6, <2>1 DEF IsOpen
  <2>2. CASE y # x
    <3>1. IsOpen(y)' <=> IsOpen(y)
      BY <1>5, <2>2 DEF IsOpen
    <3>2. \A g \in FileHolders : file'[g].m_file = y <=> file[g].m_file = y
      BY <1>3, <1>6, <1>9, <2>2, FileAssumption
    <3> QED BY <3>1, <3>2 DEF FileOwned
  <2> QED BY <2>1, <2>2
<1>11. (\A i, g \in FileHolders :
            file[i].m_file = file[g].m_file /\ file[i].m_file # NoStream => i = g)'
  BY <1>3, <1>6, <1>8 DEF FileOwned
<1>12. ASSUME NEW g \in FileHolders PROVE Fits(file[g])'
  <2>1. CASE g = h
    <3>1. f.m_buffer = BufferOf(f.m_file)'
      BY <1>3, <1>4, <1>5, FileAssumption DEF BufferOf
    <3>2. Good(fileStream'[f.m_file], f.m_options)
      BY <1>1, <1>3, <1>5
    <3> QED BY <1>3, <1>6, <2>1, <3>1, <3>2 DEF Fits, Good
  <2>2. CASE g # h
    <3>0. PICK e : e = file[g]
      OBVIOUS
    <3>1. e \in Files /\ Fits(e) /\ e.m_file # x /\ e.m_file \in Streams \cup {NoStream}
      BY <1>8, <3>0 DEF FileOwned, Files
    <3>2. file'[g] = e
      BY <1>6, <2>2, <3>0
    <3>3. e.m_file # NoStream => fileStream'[e.m_file] = fileStream[e.m_file]
      BY <1>5, <3>1
    <3>4. Fits(e)'
      BY <3>1, <3>3, StillFits
    <3> QED BY <3>2, <3>4 DEF Fits
  <2> QED BY <2>1, <2>2
<1>13. (\A g \in FileHolders : Fits(file[g]))'
  BY <1>12
<1> QED BY <1>5, <1>6, <1>7, <1>10, <1>11, <1>13 DEF FileOwned, Orderly

(* What is let go of is closed, and nothing else. *)
LEMMA LetGoCloses ==
    ASSUME FileOwned, NEW x \in Streams \cup {NoStream}, NEW fails \in BOOLEAN, LetGo(x, fails)
    PROVE  /\ fileStream' \in [Streams -> StreamRecords]
           /\ \A y \in Streams : Orderly(fileStream'[y])
           /\ \A y \in Streams : y # x => fileStream'[y] = fileStream[y]
           /\ x # NoStream => fileStream'[x].mode = "closed"
<1>1. CASE x = NoStream
  BY <1>1 DEF LetGo, FileOwned
<1>2. CASE x # NoStream
  <2> DEFINE t == ClosedStream(fileStream[x], fails)
  <2>1. Orderly(t) /\ t.mode = "closed"
    BY <1>2, ClosedOrderly DEF FileOwned
  <2>2. fileStream' = [fileStream EXCEPT ![x] = t]
    BY <1>2 DEF LetGo
  <2> HIDE DEF t
  <2>3. t \in StreamRecords
    BY <2>1 DEF Orderly
  <2> QED BY <1>2, <2>1, <2>2, <2>3 DEF FileOwned
<1> QED BY <1>1, <1>2

(* One File lets go of its stream, and may take over that of another. *)
LEMMA PassedOwned ==
    ASSUME FileOwned, NEW h \in FileHolders, NEW g \in FileHolders, NEW fails \in BOOLEAN,
           LetGo(file[h].m_file, fails), file' \in [FileHolders -> Files],
           \A i \in FileHolders : i # h /\ i # g => file'[i] = file[i],
           \/ file'[h] = file[g] /\ h # g
           \/ file'[h].m_file = NoStream /\ file'[h].m_buffer = NoStream /\ h = g,
           h # g => file'[g].m_file = NoStream /\ file'[g].m_buffer = NoStream
    PROVE  FileOwned'
<1> DEFINE x == file[h].m_file
<1>1. /\ x \in Streams \cup {NoStream}
      /\ \A i \in FileHolders : file[i] \in Files /\ file[i].m_file \in Streams \cup {NoStream}
  BY DEF FileOwned, Files
<1>2. /\ fileStream' \in [Streams -> StreamRecords]
      /\ \A y \in Streams : Orderly(fileStream'[y])
      /\ \A y \in Streams : y # x => fileStream'[y] = fileStream[y]
      /\ x # NoStream => fileStream'[x].mode = "closed"
  BY <1>1, LetGoCloses
<1>3. \A i \in FileHolders : i # h => file[i].m_file # x \/ file[i].m_file = NoStream
  BY DEF FileOwned
<1> HIDE DEF x
<1>4. \A i \in FileHolders :
        \/ file'[i].m_file = NoStream /\ file'[i].m_buffer = NoStream
        \/ i = h /\ h # g /\ file'[i] = file[g]
        \/ i # h /\ i # g /\ file'[i] = file[i]
  OBVIOUS
<1>5. ASSUME NEW i \in FileHolders PROVE Fits(file[i])'
  <2>1. ASSUME NEW k \in FileHolders, k # h, file'[i] = file[k] PROVE Fits(file[i])'
    <3>0. PICK e : e = file[k]
      OBVIOUS
    <3>1. /\ e \in Files /\ Fits(e) /\ file'[i] = e /\ e.m_file \in Streams \cup {NoStream}
          /\ e.m_file # x \/ e.m_file = NoStream
      BY <1>1, <1>3, <2>1, <3>0 DEF FileOwned
    <3>2. e.m_file # NoStream => fileStream'[e.m_file] = fileStream[e.m_file]
      BY <1>2, <3>1
    <3>3. Fits(e)'
      BY <3>1, <3>2, StillFits
    <3> QED BY <3>1, <3>3 DEF Fits
  <2>2. CASE file'[i].m_file = NoStream /\ file'[i].m_buffer = NoStream
    BY <2>2 DEF Fits, BufferOf
  <2> QED BY <1>4, <2>1, <2>2
<1>6. ASSUME NEW y \in Streams
      PROVE  IsOpen(y)' <=> \E i \in FileHolders : file'[i].m_file = y
  <2>0. y # NoStream
    BY FileAssumption
  <2>1. CASE y = x
    <3>1. ~IsOpen(y)'
      BY <1>2, <2>0, <2>1 DEF IsOpen
    <3>2. ASSUME NEW i \in FileHolders, file'[i].m_file = y PROVE FALSE
      BY <1>3, <1>4, <2>0, <2>1, <3>2
    <3> QED BY <3>1, <3>2
  <2>2. CASE y # x
    <3>1. IsOpen(y)' <=> \E i \in FileHolders : file[i].m_file = y
      BY <1>2, <2>2 DEF IsOpen, FileOwned
    <3>2. ASSUME NEW i \in FileHolders, file[i].m_file = y
          PROVE  \E k \in FileHolders : file'[k].m_file = y
      <4>1. i # h
        BY <2>2, <3>2 DEF x
      <4>2. CASE i = g
        BY <3>2, <4>1, <4>2
      <4>3. CASE i # g
        BY <3>2, <4>1, <4>3
      <4> QED BY <4>2, <4>3
    <3>3. ASSUME NEW i \in FileHolders, file'[i].m_file = y
          PROVE  \E k \in FileHolders : file[k].m_file = y
      BY <1>4, <2>0, <3>3
    <3> QED BY <3>1, <3>2, <3>3
  <2> QED BY <2>1, <2>2
<1>7. ASSUME NEW i \in FileHolders, NEW j \in FileHolders,
             file'[i].m_file = file'[j].m_file, file'[i].m_file # NoStream
      PROVE  i = j
  <2>1. \A k, l \in FileHolders :
            file[k].m_file = file[l].m_file /\ file[k].m_file # NoStream => k = l
    BY DEF FileOwned
  <2> QED BY <1>4, <1>7, <2>1
<1>8. /\ (\A i \in FileHolders : Fits(file[i]))'
      /\ (\A y \in Streams : IsOpen(y) <=> \E i \in FileHolders : file[i].m_file = y)'
      /\ (\A i, j \in FileHolders :
            file[i].m_file = file[j].m_file /\ file[i].m_file # NoStream => i = j)'
  BY <1>5, <1>6, <1>7
<1> QED BY <1>2, <1>8 DEF FileOwned, Orderly

LEMMA FileInvInit == FileInit => FileInv
<1> SUFFICES ASSUME FileInit PROVE FileOwned
  BY DEF FileInv
<1>1. \A h \in FileHolders : file[h] = DeadFile
  BY DEF FileInit
<1>2. \A x \in Streams : fileStream[x] = NoFile
  BY DEF FileInit
<1>3. file \in [FileHolders -> Files] /\ fileStream \in [Streams -> StreamRecords]
  BY FileRecords, NoFileOrderly DEF FileInit, Orderly
<1>4. \A h \in FileHolders : Fits(file[h]) /\ file[h].m_file = NoStream
  BY <1>1, FileRecords, NullFits
<1>5. \A x \in Streams : Orderly(fileStream[x]) /\ ~IsOpen(x) /\ x # NoStream
  BY <1>2, NoFileOrderly, FileAssumption DEF IsOpen
<1> QED BY <1>3, <1>4, <1>5 DEF FileOwned

LEMMA FileInvStep == FileInv /\ [FileNext]_fileVars => FileInv'
<1> SUFFICES ASSUME FileInv, [FileNext]_fileVars PROVE FileInv'
  OBVIOUS
<1>1. CASE UNCHANGED fileVars
  BY <1>1 DEF fileVars, FileInv, FileOwned, IsOpen, Fits, BufferOf
<1> SUFFICES ASSUME FileNext PROVE FileInv'
  BY <1>1
<1>0. FileOwned /\ FileAssumption
  BY FileAssumption DEF FileNext, FileInv
<1>f. file \in [FileHolders -> Files] /\ \A h \in FileHolders : file[h] \in Files
  BY <1>0 DEF FileOwned
<1>2. ASSUME NEW h \in FileHolders, StreamCall(h) PROVE FileInv'
  BY <1>0, <1>2, StreamCalls, TouchedOwned DEF FileInv
<1>3. ASSUME NEW x \in Streams, NEW options \in OpenedWith[x], FileOpenFails(x, options)
      PROVE  FileInv'
  BY <1>1, <1>3 DEF FileOpenFails
<1>o. \A x \in Streams : OpenedWith[x] \subseteq OpenOptions
  BY FileAssumption
<1>4. ASSUME NEW x \in Streams, NEW options \in OpenedWith[x], FileOpenUnbuffered(x, options)
      PROVE  FileInv'
  <2> DEFINE s == OpenedStream(fileStream[x], options, FALSE)
             t == ClosedStream(s, FALSE)
  <2>1. options \in OpenOptions
    BY <1>o
  <2>2. Orderly(s)
    BY <1>0, <1>4, <2>1, OpenedOrderly DEF FileOwned, FileOpenUnbuffered, CanOpen
  <2>3. fileStream' = [fileStream EXCEPT ![x] = t] /\ UNCHANGED file /\ ~IsOpen(x)
    BY <1>4 DEF FileOpenUnbuffered, CanOpen
  <2> HIDE DEF s
  <2>4. Orderly(t) /\ t.mode = "closed"
    BY <2>2, ClosedOrderly
  <2> HIDE DEF t
  <2>5. \A i \in FileHolders : file[i].m_file # x
    BY <1>0, <2>3 DEF FileOwned
  <2>6. /\ fileStream' \in [Streams -> StreamRecords] /\ fileStream'[x] = t
        /\ \A y \in Streams : y # x => fileStream'[y] = fileStream[y]
    BY <1>0, <2>3, <2>4 DEF FileOwned, Orderly
  <2>7. \A y \in Streams : Orderly(fileStream'[y]) /\ (IsOpen(y)' <=> IsOpen(y))
    BY <1>0, <2>3, <2>4, <2>6 DEF FileOwned, IsOpen
  <2>8. ASSUME NEW i \in FileHolders PROVE Fits(file[i])'
    <3>0. PICK e : e = file[i]
      OBVIOUS
    <3>1. e \in Files /\ Fits(e) /\ e.m_file # x /\ e.m_file \in Streams \cup {NoStream}
      BY <1>0, <2>5, <3>0 DEF FileOwned, Files
    <3>2. e.m_file # NoStream => fileStream'[e.m_file] = fileStream[e.m_file]
      BY <2>6, <3>1
    <3>3. file'[i] = e
      BY <2>3, <3>0
    <3>4. Fits(e)'
      BY <3>1, <3>2, StillFits
    <3> QED BY <3>3, <3>4 DEF Fits
  <2>9. (\A i \in FileHolders : Fits(file[i]))'
    BY <2>8
  <2> QED BY <1>0, <2>3, <2>6, <2>7, <2>9 DEF FileOwned, FileInv, Orderly
<1>5. ASSUME NEW x \in Streams, NEW options \in OpenedWith[x], NEW h \in FileHolders,
             FileOpen(h, x, options) \/ FileFromStream(h, x, options)
      PROVE  FileInv'
  <2>1. options \in OpenOptions
    BY <1>o
  <2>2. CASE FileOpen(h, x, options)
    <3>1. /\ ~file[h].alive /\ CanOpen(x, options)
          /\ fileStream' = [fileStream EXCEPT ![x] = OpenedStream(@, options, TRUE)]
          /\ file' = [file EXCEPT ![h] = OpenedFile(x, IF TRUE THEN x ELSE NoStream, options)]
      BY <2>2 DEF FileOpen
    <3> QED BY <1>0, <2>1, <3>1, OpenedOwned DEF FileInv
  <2>3. CASE FileFromStream(h, x, options)
    <3>1. /\ ~file[h].alive /\ CanOpen(x, options)
          /\ fileStream' = [fileStream EXCEPT ![x] = OpenedStream(@, options, FALSE)]
          /\ file' = [file EXCEPT ![h] = OpenedFile(x, IF FALSE THEN x ELSE NoStream, options)]
      BY <2>3 DEF FileFromStream
    <3> QED BY <1>0, <2>1, <3>1, OpenedOwned DEF FileInv
  <2> QED BY <1>5, <2>2, <2>3
<1>m. ASSUME NEW h \in FileHolders, NEW g \in FileHolders, h # g,
             file' = [file EXCEPT ![h] = file[g], ![g] = NullFile(file[g])]
      PROVE  /\ file' \in [FileHolders -> Files]
             /\ \A i \in FileHolders : i # h /\ i # g => file'[i] = file[i]
             /\ file'[h] = file[g]
             /\ file'[g].m_file = NoStream /\ file'[g].m_buffer = NoStream
  <2> DEFINE n == NullFile(file[g])
  <2>1. n \in Files /\ n.m_file = NoStream /\ n.m_buffer = NoStream
    BY <1>f, FileRecords
  <2>2. file' = [file EXCEPT ![h] = file[g], ![g] = n]
    BY <1>m
  <2> HIDE DEF n
  <2> QED BY <1>f, <1>m, <2>1, <2>2
<1>6. ASSUME NEW h \in FileHolders, NEW g \in FileHolders, FileMoveConstruct(h, g) PROVE FileInv'
  <2>1. h # g /\ file[h].m_file = NoStream
    BY <1>0, <1>6 DEF FileMoveConstruct, FileOwned, Fits
  <2>2. LetGo(file[h].m_file, FALSE)
    BY <1>6, <2>1 DEF FileMoveConstruct, LetGo
  <2>3. file' = [file EXCEPT ![h] = file[g], ![g] = NullFile(file[g])]
    BY <1>6 DEF FileMoveConstruct
  <2> QED BY ZenonT(60), <1>0, <1>m, <2>1, <2>2, <2>3, PassedOwned DEF FileInv
<1>7. ASSUME NEW h \in FileHolders, NEW g \in FileHolders, NEW fails \in BOOLEAN,
             FileMoveAssign(h, g, fails)
      PROVE  FileInv'
  <2>1. h # g /\ LetGo(file[h].m_file, fails)
    BY <1>7 DEF FileMoveAssign
  <2>3. file' = [file EXCEPT ![h] = file[g], ![g] = NullFile(file[g])]
    BY <1>7 DEF FileMoveAssign
  <2>4. /\ file' \in [FileHolders -> Files]
        /\ \A i \in FileHolders : i # h /\ i # g => file'[i] = file[i]
        /\ file'[h] = file[g]
        /\ file'[g].m_file = NoStream /\ file'[g].m_buffer = NoStream
    BY <1>m, <2>1, <2>3
  <2> QED BY <1>0, <2>1, <2>4, PassedOwned DEF FileInv
<1>8. ASSUME NEW h \in FileHolders, NEW fails \in BOOLEAN, FileDestroy(h, fails) PROVE FileInv'
  <2>1. LetGo(file[h].m_file, fails)
    BY <1>8 DEF FileDestroy
  <2>2. /\ file' \in [FileHolders -> Files]
        /\ \A i \in FileHolders : i # h => file'[i] = file[i]
        /\ file'[h].m_file = NoStream /\ file'[h].m_buffer = NoStream
    BY <1>f, <1>8, FileRecords DEF FileDestroy
  <2> QED BY <1>0, <2>1, <2>2, PassedOwned DEF FileInv
<1> QED
  BY <1>2, <1>3, <1>4, <1>5, <1>6, <1>7, <1>8 DEF FileNext, StreamCall

(* FilePairIntact for any number of Files, paths and marks: no sequence of *)
(* opens, constructions from a stream, moves and destructions separates a  *)
(* stream from the buffer it writes through, gives it to two Files or      *)
(* leaves it open without one (File.h:162, :191, :406).                    *)
THEOREM FileKeepsPair == FileSpec => []FilePairIntact
<1>1. FileInv => FilePairIntact
  BY DEF FileInv, FileOwned, FilePairIntact, Fits
<1> QED BY <1>1, FileInvInit, FileInvStep, PTL DEF FileSpec

(* FileKeepsAndAppends for any bounds on the files and the buffer: a file  *)
(* opened with Append keeps what it had, followed by every mark a write    *)
(* accepted, in order and once (File.cpp:45, :187, :244, :280).            *)
THEOREM FileAppendsOnce == FileSpec => []FileKeepsAndAppends
<1>1. FileInv => FileKeepsAndAppends
  <2> SUFFICES ASSUME FileOwned, NEW h \in FileHolders, file[h].m_file # NoStream,
                      Appending(file[h].m_options)
               PROVE  fileStream[file[h].m_file].marks \o fileStream[file[h].m_file].pending
                        = fileStream[file[h].m_file].accepted
    BY DEF FileKeepsAndAppends, FileInv
  <2> QED BY DEF FileOwned, Fits, Good
<1> QED BY <1>1, FileInvInit, FileInvStep, PTL DEF FileSpec

-----------------------------------------------------------------------------
StatusCodes ==
    [kind : {"StatusCode", "ErrorCode", "none"}, domain : Domains,
     id : Domains \cup {ForeignId}, code : Int]

StatusTypeOK == status \in [Holders -> StatusCodes]

LEMMA StatusTypeStep ==
    StatusTypeOK /\ [StatusNext]_statusVars => StatusTypeOK'
<1> SUFFICES ASSUME status \in [Holders -> StatusCodes], [StatusNext]_statusVars
             PROVE  status' \in [Holders -> StatusCodes]
  BY DEF StatusTypeOK
<1>1. CASE UNCHANGED statusVars
  BY <1>1 DEF statusVars
<1>2. ASSUME NEW h \in Holders, NEW domain \in Domains, NEW code \in Codes, NEW id \in Ids(domain),
             StatusConstruct(h, domain, id, code) \/ ErrorConstruct(h, domain, id, code)
      PROVE  status' \in [Holders -> StatusCodes]
  <2> DEFINE c == Code(domain, id, code)
  <2>1. c \in StatusCodes
    BY StatusAssumption DEF Code, StatusCodes, Ids
  <2>2. Error(domain, id, code) = [c EXCEPT !.kind = "ErrorCode"]
    BY DEF Error
  <2> HIDE DEF c
  <2>3. Error(domain, id, code) \in StatusCodes
    BY <2>1, <2>2 DEF StatusCodes
  <2> QED BY <1>2, <2>1, <2>3 DEF StatusConstruct, ErrorConstruct, c
<1>3. ASSUME NEW h \in Holders, NEW code \in Int, status' = [status EXCEPT ![h].code = code]
      PROVE  status' \in [Holders -> StatusCodes]
  <2> DEFINE c == status[h]
             d == [c EXCEPT !.code = code]
  <2>1. status' = [status EXCEPT ![h] = d] /\ c \in StatusCodes
    BY <1>3
  <2> HIDE DEF c
  <2>2. d \in StatusCodes
    BY <2>1 DEF StatusCodes
  <2> HIDE DEF d
  <2> QED BY <2>1, <2>2
<1>4. ASSUME NEW h \in Holders, NEW code \in Codes, StatusAssign(h, code) \/ ErrorAssign(h, code)
      PROVE  status' \in [Holders -> StatusCodes]
  BY <1>3, <1>4, StatusAssumption DEF StatusAssign, ErrorAssign
<1>5. ASSUME NEW h \in Holders, StatusClear(h) PROVE status' \in [Holders -> StatusCodes]
  <2>1. Success \in Int
    BY DEF Success
  <2> QED BY <1>3, <1>5, <2>1 DEF StatusClear
<1>6. ASSUME NEW h \in Holders, NEW g \in Holders, StatusCopy(h, g)
      PROVE  status' \in [Holders -> StatusCodes]
  BY <1>6 DEF StatusCopy
<1> QED BY <1>1, <1>2, <1>4, <1>5, <1>6 DEF StatusNext

(* What an ErrorCode construction lets through is an error. *)
LEMMA ErrorsBuiltAreErrors ==
    ASSUME NEW domain, NEW id, NEW code, ~IsSuccess(Error(domain, id, code))
    PROVE  Error(domain, id, code).code # Success
BY DEF IsSuccess

(* The code of a StatusCode is that of a StatusCode. *)
LEMMA CodesAreNotErrors ==
    ASSUME NEW domain, NEW id, NEW code
    PROVE  Code(domain, id, code).kind = "StatusCode"
BY DEF Code

(* ErrorSuccessConfined for any codes, ids and holders: a success gets     *)
(* into an ErrorCode through the inherited assign() and clear() and their  *)
(* copies, and through nothing else (StatusCode.h:570, :738).              *)
THEOREM ErrorsStayErrors == StatusSpec => []ErrorSuccessConfined
<1> DEFINE Inv == StatusTypeOK /\ ErrorSuccessConfined
<1>1. StatusInit => Inv
  <2> SUFFICES ASSUME StatusInit PROVE Inv
    OBVIOUS
  <2> DEFINE c == Code(GenericDomain, GenericDomain, Success)
  <2>1. c \in StatusCodes
    BY DEF Code, StatusCodes, Domains, Success
  <2>2. NoCode = [c EXCEPT !.kind = "none"]
    BY DEF NoCode
  <2> HIDE DEF c
  <2>3. NoCode \in StatusCodes /\ NoCode.kind = "none"
    BY <2>1, <2>2 DEF StatusCodes
  <2> QED BY <2>3 DEF StatusInit, StatusTypeOK, ErrorSuccessConfined
<1>2. Inv /\ [StatusNext]_statusVars => Inv'
  <2> SUFFICES ASSUME status \in [Holders -> StatusCodes], ErrorSuccessConfined,
                      StatusNext, statusStopped' = "no",
                      NEW i \in Holders, status'[i].kind = "ErrorCode",
                      status'[i].code = Success
               PROVE  i \in statusUnchecked'
    BY StatusTypeStep DEF StatusTypeOK, ErrorSuccessConfined, statusVars, IsSuccess
  <2>1. statusStopped = "no"
    BY DEF StatusNext
  <2>2. status[i].kind = "ErrorCode" /\ status[i].code = Success => i \in statusUnchecked
    BY <2>1 DEF ErrorSuccessConfined, IsSuccess
  <2>3. ASSUME NEW h \in Holders, NEW domain \in Domains, NEW code \in Codes,
               NEW id \in Ids(domain), StatusConstruct(h, domain, id, code)
        PROVE  i \in statusUnchecked'
    BY <2>2, <2>3, CodesAreNotErrors DEF StatusConstruct
  <2>4. ASSUME NEW h \in Holders, NEW domain \in Domains, NEW code \in Codes,
               NEW id \in Ids(domain), ErrorConstruct(h, domain, id, code)
        PROVE  i \in statusUnchecked'
    BY <2>2, <2>4, ErrorsBuiltAreErrors DEF ErrorConstruct
  <2>5. ASSUME NEW h \in Holders, NEW code, status' = [status EXCEPT ![h].code = code], i # h
        PROVE  status'[i] = status[i]
    BY <2>5
  <2>6. ASSUME NEW h \in Holders, NEW code \in Codes, StatusAssign(h, code)
        PROVE  i \in statusUnchecked'
    BY <2>2, <2>5, <2>6 DEF StatusAssign
  <2>7. ASSUME NEW h \in Holders, StatusClear(h) PROVE i \in statusUnchecked'
    BY <2>2, <2>5, <2>7 DEF StatusClear
  <2>8. ASSUME NEW h \in Holders, NEW code \in Codes, ErrorAssign(h, code)
        PROVE  i \in statusUnchecked'
    <3>1. code # Success
      BY <2>8 DEF ErrorAssign
    <3>2. i # h
      <4> SUFFICES ASSUME i = h PROVE FALSE
        OBVIOUS
      <4>1. status'[h] = [status[h] EXCEPT !.code = code] /\ status[h] \in StatusCodes
        BY <2>8 DEF ErrorAssign
      <4>2. status'[h].code = code
        BY <4>1 DEF StatusCodes
      <4> QED BY <3>1, <4>2
    <3> QED BY <2>2, <2>5, <2>8, <3>2 DEF ErrorAssign
  <2>9. ASSUME NEW h \in Holders, NEW g \in Holders, StatusCopy(h, g)
        PROVE  i \in statusUnchecked'
    <3>1. CASE i = h
      <4>1. status[g].kind = "ErrorCode" /\ status[g].code = Success
        BY <2>9, <3>1 DEF StatusCopy
      <4>2. g \in statusUnchecked
        BY <2>1, <4>1 DEF ErrorSuccessConfined, IsSuccess
      <4> QED BY <2>9, <3>1, <4>2 DEF StatusCopy
    <3>2. CASE i # h
      BY <2>2, <2>9, <3>2 DEF StatusCopy
    <3> QED BY <3>1, <3>2
  <2> QED BY <2>3, <2>4, <2>6, <2>7, <2>8, <2>9 DEF StatusNext
<1> QED BY <1>1, <1>2, PTL DEF StatusSpec
=============================================================================
