------------------------------ MODULE OptionProofs ------------------------------
(***************************************************************************)
(* The theorems about Option, for any set of holders and any set of        *)
(* values: m_is_some and the storage agree after every sequence of calls,  *)
(* and the callers see a Slot.                                             *)
(***************************************************************************)
EXTENDS Option, TLAPS

(* One holder of OptionHidesNothing. *)
OptionDataOK(d) ==
    IF d.m_is_some
    THEN d.alive /\ d.m_some \in Objects
    ELSE optionIsReference \/ d.m_some \in {Vacant, MovedFrom}

OptionDatas ==
    {d \in [alive : BOOLEAN, m_is_some : BOOLEAN, m_some : Objects \cup {Vacant}] :
        OptionDataOK(d)}

(* The inductive invariant: what each holder's storage may be. *)
OptionInv ==
    /\ optionIsReference \in BOOLEAN
    /\ option \in [Holders -> OptionDatas]

(* What the operations of OptionData make of good data is good. *)
LEMMA OptionDataSteps ==
    /\ NoneData \in OptionDatas
    /\ DeadData \in OptionDatas
    /\ \A c \in Objects : SomeData(c) \in OptionDatas
    /\ \A d \in OptionDatas :
        /\ AssignedNone(d) \in OptionDatas
        /\ CopiedData(d) \in OptionDatas
        /\ AssignedNone(MovedOutData(d)) \in OptionDatas
        /\ d.m_is_some => ExtractedData(d) \in OptionDatas
        /\ d.m_is_some => d.m_some \in Objects
<1>1. NoneData \in OptionDatas /\ DeadData \in OptionDatas
  BY DEF NoneData, DeadData, OptionDatas, OptionDataOK
<1>2. ASSUME NEW c \in Objects PROVE SomeData(c) \in OptionDatas
  BY DEF SomeData, OptionDatas, OptionDataOK
<1>3. ASSUME NEW d \in OptionDatas PROVE AssignedNone(d) \in OptionDatas
  BY DEF AssignedNone, Ended, OptionDatas, OptionDataOK
<1>4. ASSUME NEW d \in OptionDatas PROVE CopiedData(d) \in OptionDatas
  BY <1>1, <1>2 DEF CopiedData, OptionDatas, OptionDataOK
<1>5. ASSUME NEW d \in OptionDatas PROVE MovedOutData(d) \in OptionDatas
  BY DEF MovedOutData, Hollowed, Objects, OptionDatas, OptionDataOK
<1>6. ASSUME NEW d \in OptionDatas, d.m_is_some
      PROVE  ExtractedData(d) \in OptionDatas /\ d.m_some \in Objects
  BY <1>6 DEF ExtractedData, Hollowed, Objects, OptionDatas, OptionDataOK
<1> QED BY <1>1, <1>2, <1>3, <1>4, <1>5, <1>6

LEMMA OptionAssignSteps ==
    ASSUME NEW d \in OptionDatas, d.alive
    PROVE  /\ \A c \in Objects : AssignedSome(d, c) \in OptionDatas
           /\ \A e \in OptionDatas : AssignedData(d, e) \in OptionDatas
<1>1. ASSUME NEW c \in Objects PROVE AssignedSome(d, c) \in OptionDatas
  BY DEF AssignedSome, SomeData, OptionDatas, OptionDataOK
<1>2. ASSUME NEW e \in OptionDatas PROVE AssignedData(d, e) \in OptionDatas
  BY <1>1, OptionDataSteps DEF AssignedData
<1> QED BY <1>1, <1>2

LEMMA OptionInvInit == OptionInit => OptionInv
  BY OptionDataSteps DEF OptionInit, OptionInv

(* Every operation keeps the invariant. *)
LEMMA OptionInvStep == OptionInv /\ [OptionNext]_optionVars => OptionInv'
<1> SUFFICES ASSUME OptionInv, [OptionNext]_optionVars PROVE OptionInv'
  OBVIOUS
<1> USE DEF OptionInv, Alive, IsSome
<1>1. CASE UNCHANGED optionVars
  BY <1>1 DEF optionVars, OptionDatas, OptionDataOK
<1>2. ASSUME UNCHANGED optionIsReference PROVE OptionDatas' = OptionDatas
  BY <1>2 DEF OptionDatas, OptionDataOK
<1>3. \A h \in Holders : option[h] \in OptionDatas
  OBVIOUS
<1>4. ASSUME NEW h \in Holders,
             \/ OptionConstructNone(h) \/ OptionDestroy(h) \/ OptionAssignNone(h)
      PROVE  OptionInv'
  BY <1>2, <1>3, <1>4, OptionDataSteps DEF OptionConstructNone, OptionDestroy, OptionAssignNone
<1>5. ASSUME NEW h \in Holders, OptionMap(h) \/ OptionAsRef(h) PROVE OptionInv'
  BY <1>2, <1>5 DEF OptionMap, OptionAsRef
<1>6. ASSUME NEW h \in Holders,
             \/ OptionMatch(h) \/ OptionOkOr(h) \/ OptionUnwrap(h)
             \/ OptionUnwrapOr(h) \/ OptionExpect(h)
      PROVE  OptionInv'
  BY <1>2, <1>3, <1>6, OptionDataSteps
  DEF OptionMatch, OptionOkOr, OptionUnwrap, OptionUnwrapOr, OptionExpect,
      Extraction
<1>7. ASSUME NEW h \in Holders, NEW v \in Values,
             OptionConstruct(h, v) \/ OptionAssign(h, v) \/ OptionCompare(h, v)
      PROVE  OptionInv'
  BY <1>2, <1>3, <1>7, OptionDataSteps, OptionAssignSteps
  DEF OptionConstruct, OptionAssign, OptionCompare, Objects
<1>8. ASSUME NEW h \in Holders, NEW g \in Holders, OptionCopyConstruct(h, g) \/ OptionMoveConstruct(h, g)
      PROVE  OptionInv'
  BY <1>2, <1>3, <1>8, OptionDataSteps DEF OptionCopyConstruct, OptionMoveConstruct
<1>9. ASSUME NEW h \in Holders, NEW g \in Holders, OptionConvertingMove(h, g)
      PROVE  OptionInv'
  <2>1. \A c \in Objects : AssignedSome(NoneData, c) \in OptionDatas
    BY OptionDataSteps DEF AssignedSome, NoneData
  <2> QED
    BY <1>2, <1>3, <1>9, <2>1, OptionDataSteps DEF OptionConvertingMove
<1>10. ASSUME NEW h \in Holders, NEW g \in Holders, OptionCopyAssign(h, g) \/ OptionMoveAssign(h, g)
       PROVE  OptionInv'
  BY <1>2, <1>3, <1>10, OptionDataSteps, OptionAssignSteps DEF OptionCopyAssign, OptionMoveAssign
<1>11. ASSUME NEW h \in Holders, NEW g \in Holders, OptionOrElseReference(h, g) \/ OptionOrElse(h, g)
       PROVE  OptionInv'
  BY ZenonT(60), <1>2, <1>3, <1>11, OptionDataSteps DEF OptionOrElseReference, OptionOrElse
<1> QED
  BY <1>1, <1>4, <1>5, <1>6, <1>7, <1>8, <1>9, <1>10, <1>11 DEF OptionNext

(* The flag and the storage of every Option agree, for object types and    *)
(* references, after any sequence of constructions, copies, moves,         *)
(* assignments and extractions (OptionData.h:98-:280): no value is hidden  *)
(* in a disengaged Option, no engaged one is without an object.            *)
THEOREM OptionFlagTruthful == OptionSpec => []OptionHidesNothing
<1>1. OptionInv => OptionHidesNothing
  BY DEF OptionInv, OptionDatas, OptionDataOK, OptionHidesNothing
<1> QED BY <1>1, OptionInvInit, OptionInvStep, PTL DEF OptionSpec

-----------------------------------------------------------------------------
(* What callers see of good data: an object exactly when it is engaged. *)
LEMMA HeldTruthful ==
    ASSUME OptionInv, NEW h \in Holders
    PROVE  /\ OptionHeld[h] = Contained(h)
           /\ OptionHeld[h] \in OptionContents
           /\ option[h].m_is_some => OptionHeld[h] = option[h].m_some /\ OptionHeld[h] \in Objects
           /\ ~option[h].m_is_some => OptionHeld[h] = Nothing
           /\ OptionHeld[h] = Nothing <=> ~option[h].m_is_some
           /\ OptionHeld[h] \in Objects <=> option[h].m_is_some
           /\ option[h].m_is_some => option[h].alive
  BY LifetimeAssumption
  DEF OptionInv, OptionHeld, Contained, IsSome, OptionContents, OptionDatas, OptionDataOK

(* The data the operations leave: disengaged, engaged with an object, or   *)
(* as another Option's data.                                               *)
LEMMA EmptyData ==
    /\ ~NoneData.m_is_some
    /\ ~DeadData.m_is_some
    /\ \A d \in OptionDatas : ~AssignedNone(d).m_is_some /\ ~AssignedNone(MovedOutData(d)).m_is_some
  BY DEF NoneData, DeadData, AssignedNone, MovedOutData, OptionDatas

LEMMA FullData ==
    ASSUME NEW c
    PROVE  /\ SomeData(c).m_is_some /\ SomeData(c).m_some = c
           /\ \A d \in OptionDatas : AssignedSome(d, c).m_is_some /\ AssignedSome(d, c).m_some = c
  BY DEF SomeData, AssignedSome, OptionDatas

LEMMA TransferredData ==
    ASSUME NEW d \in OptionDatas, NEW e \in OptionDatas
    PROVE  /\ CopiedData(e).m_is_some <=> e.m_is_some
           /\ AssignedData(d, e).m_is_some <=> e.m_is_some
           /\ e.m_is_some => CopiedData(e).m_some = e.m_some /\ AssignedData(d, e).m_some = e.m_some
<1>1. CASE e.m_is_some
  BY <1>1, FullData DEF CopiedData, AssignedData
<1>2. CASE ~e.m_is_some
  BY <1>2, EmptyData DEF CopiedData, AssignedData
<1> QED BY <1>1, <1>2

(* What a new value of one Option's data does to what callers see. *)
LEMMA HeldExcept ==
    ASSUME OptionInv, NEW h \in Holders, NEW d, option' = [option EXCEPT ![h] = d]
    PROVE  /\ d.m_is_some => OptionHeld' = [OptionHeld EXCEPT ![h] = d.m_some]
           /\ ~d.m_is_some => OptionHeld' = [OptionHeld EXCEPT ![h] = Nothing]
  BY DEF OptionInv, OptionHeld, Contained, IsSome

(* Constructions and assignments that name one Option. *)
LEMMA PutSteps ==
    ASSUME OptionInv, NEW h \in Holders
    PROVE  /\ OptionConstructNone(h) \/ OptionAssignNone(h) => OptionSlot!Put(h, Nothing)
           /\ OptionDestroy(h) => OptionSlot!Destroy(h)
           /\ \A v \in Values : OptionConstruct(h, v) \/ OptionAssign(h, v) => OptionSlot!Put(h, v)
<1>0. option[h] \in OptionDatas
  BY DEF OptionInv
<1>1. ASSUME OptionConstructNone(h) \/ OptionAssignNone(h) PROVE OptionSlot!Put(h, Nothing)
  <2>1. PICK d : option' = [option EXCEPT ![h] = d] /\ ~d.m_is_some
    BY <1>0, <1>1, EmptyData DEF OptionConstructNone, OptionAssignNone
  <2>2. OptionHeld' = [OptionHeld EXCEPT ![h] = Nothing]
    BY <2>1, HeldExcept
  <2> QED BY <1>1, <2>2 DEF OptionSlot!Put, OptionConstructNone, OptionAssignNone, OptionCalls
<1>2. ASSUME OptionDestroy(h) PROVE OptionSlot!Destroy(h)
  <2>1. OptionHeld' = [OptionHeld EXCEPT ![h] = Nothing]
    BY <1>2, EmptyData, HeldExcept DEF OptionDestroy
  <2> QED BY <1>2, <2>1 DEF OptionSlot!Destroy, OptionDestroy, OptionCalls
<1>3. ASSUME NEW v \in Values, OptionConstruct(h, v) \/ OptionAssign(h, v)
      PROVE OptionSlot!Put(h, v)
  <2>1. PICK d : option' = [option EXCEPT ![h] = d] /\ d.m_is_some /\ d.m_some = v
    <3>1. CASE OptionConstruct(h, v)
      BY <3>1, FullData DEF OptionConstruct
    <3>2. CASE OptionAssign(h, v)
      BY <1>0, <3>2, FullData DEF OptionAssign
    <3> QED BY <1>3, <3>1, <3>2
  <2>2. OptionHeld' = [OptionHeld EXCEPT ![h] = v]
    BY <2>1, HeldExcept
  <2> QED BY <1>3, <2>2 DEF OptionSlot!Put, OptionConstruct, OptionAssign, OptionCalls
<1> QED BY <1>1, <1>2, <1>3

(* Constructions and assignments from another Option. *)
LEMMA CopySteps ==
    ASSUME OptionInv, NEW h \in Holders, NEW g \in Holders,
           OptionCopyConstruct(h, g) \/ OptionCopyAssign(h, g)
    PROVE  OptionSlot!Copy(h, g)
<1>0. option[h] \in OptionDatas /\ option[g] \in OptionDatas
  BY DEF OptionInv
<1>1. optionCall' = <<"copy", h, g, Nothing>> /\ UNCHANGED optionPanicked
  BY DEF OptionCopyConstruct, OptionCopyAssign, OptionCalls
<1>2. CASE h = g
  <2>1. UNCHANGED OptionHeld
    BY <1>2 DEF OptionCopyConstruct, OptionCopyAssign, OptionHeld, Contained, IsSome, Alive
  <2> QED BY <1>1, <1>2, <2>1 DEF OptionSlot!Copy
<1>3. CASE h # g
  <2>1. PICK d : /\ option' = [option EXCEPT ![h] = d]
                 /\ d.m_is_some <=> option[g].m_is_some
                 /\ d.m_is_some => d.m_some = option[g].m_some
    BY <1>0, <1>3, TransferredData DEF OptionCopyConstruct, OptionCopyAssign
  <2>2. OptionHeld' = [OptionHeld EXCEPT ![h] = OptionHeld[g]]
    <3>1. CASE d.m_is_some
      <4>1. d.m_some = OptionHeld[g]
        BY <2>1, <3>1, HeldTruthful
      <4>2. OptionHeld' = [OptionHeld EXCEPT ![h] = d.m_some]
        BY <2>1, <3>1, HeldExcept
      <4> QED BY <4>1, <4>2
    <3>2. CASE ~d.m_is_some
      BY <2>1, <3>2, HeldExcept, HeldTruthful
    <3> QED BY <3>1, <3>2
  <2> QED BY <1>1, <1>3, <2>2, HeldTruthful DEF OptionSlot!Copy
<1> QED BY <1>2, <1>3

LEMMA MoveSteps ==
    ASSUME OptionInv, NEW h \in Holders, NEW g \in Holders,
           OptionMoveConstruct(h, g) \/ OptionMoveAssign(h, g)
    PROVE  OptionSlot!Move(h, g)
<1>0. option[h] \in OptionDatas /\ option[g] \in OptionDatas
  BY DEF OptionInv
<1>1. optionCall' = <<"move", h, g, Nothing>> /\ UNCHANGED optionPanicked
  BY DEF OptionMoveConstruct, OptionMoveAssign, OptionCalls
<1>2. CASE h = g
  <2>1. UNCHANGED OptionHeld
    BY <1>2 DEF OptionMoveConstruct, OptionMoveAssign, OptionHeld, Contained, IsSome, Alive
  <2> QED BY <1>1, <1>2, <2>1 DEF OptionSlot!Move
<1>3. CASE h # g
  <2>1. PICK d, e : /\ option' = [option EXCEPT ![h] = d, ![g] = e]
                    /\ d.m_is_some <=> option[g].m_is_some
                    /\ d.m_is_some => d.m_some = option[g].m_some
                    /\ ~e.m_is_some
    BY <1>0, <1>3, TransferredData, EmptyData DEF OptionMoveConstruct, OptionMoveAssign
  <2>2. OptionHeld' = [OptionHeld EXCEPT ![h] = OptionHeld[g], ![g] = Nothing]
    BY <1>3, <2>1 DEF OptionInv, OptionHeld, Contained, IsSome
  <2> QED BY <1>1, <1>3, <2>2 DEF OptionSlot!Move
<1> QED BY <1>2, <1>3

(* The converting constructor leaves its source engaged. *)
LEMMA DrainSteps ==
    ASSUME OptionInv, NEW h \in Holders, NEW g \in Holders, OptionConvertingMove(h, g)
    PROVE  OptionSlot!Drain(h, g)
<1>0. option[h] \in OptionDatas /\ option[g] \in OptionDatas /\ h # g /\ ~optionIsReference
  BY DEF OptionInv, OptionConvertingMove
<1>1. optionCall' = <<"drain", h, g, Nothing>> /\ UNCHANGED optionPanicked
  BY DEF OptionConvertingMove, OptionCalls
<1>2. CASE IsSome(g)
  <2>1. PICK d, e : /\ option' = [option EXCEPT ![h] = d, ![g] = e]
                    /\ d.m_is_some /\ d.m_some = option[g].m_some
                    /\ e.m_is_some /\ e.m_some = Hollowed(option[g].m_some)
    <3>1. option' = [option EXCEPT ![h] = AssignedSome(NoneData, option[g].m_some),
                                  ![g] = ExtractedData(option[g])]
      BY <1>0, <1>2 DEF OptionConvertingMove
    <3>2. /\ AssignedSome(NoneData, option[g].m_some).m_is_some
          /\ AssignedSome(NoneData, option[g].m_some).m_some = option[g].m_some
      BY DEF AssignedSome, SomeData, NoneData
    <3>3. /\ ExtractedData(option[g]).m_is_some
          /\ ExtractedData(option[g]).m_some = Hollowed(option[g].m_some)
      BY <1>0, <1>2 DEF ExtractedData, IsSome, OptionDatas
    <3> HIDE DEF AssignedSome, ExtractedData
    <3> QED BY <3>1, <3>2, <3>3
  <2>2. OptionHeld' = [OptionHeld EXCEPT ![h] = OptionHeld[g], ![g] = Hollowed(OptionHeld[g])]
    BY <1>0, <1>2, <2>1 DEF OptionInv, OptionHeld, Contained, IsSome
  <2>3. OptionHeld[g] \in OptionContents /\ OptionHeld[g] # Nothing
    BY <1>2, HeldTruthful DEF IsSome
  <2> QED BY <1>0, <1>1, <2>2, <2>3 DEF OptionSlot!Drain
<1>3. CASE ~IsSome(g)
  <2>1. option' = [option EXCEPT ![h] = NoneData]
    BY <1>3 DEF OptionConvertingMove
  <2>2. OptionHeld' = [OptionHeld EXCEPT ![h] = Nothing]
    BY <2>1, EmptyData, HeldExcept
  <2>3. OptionHeld[g] = Nothing /\ Nothing \in OptionContents
    BY <1>3, HeldTruthful DEF IsSome, OptionContents
  <2>4. OptionHeld' = [OptionHeld EXCEPT ![h] = Nothing, ![g] = Nothing]
    BY <1>0, <2>2, <2>3 DEF OptionHeld
  <2> QED BY <1>0, <1>1, <2>3, <2>4 DEF OptionSlot!Drain
<1> QED BY <1>2, <1>3

(* Calls that look at the value, or find none. *)
LEMMA LookSteps ==
    ASSUME OptionInv, NEW h \in Holders
    PROVE  /\ OptionMap(h) => OptionSlot!Look(h, Objects)
           /\ \A v \in Values : OptionCompare(h, v) => OptionSlot!Look(h, {v})
<1>1. ASSUME OptionMap(h) PROVE OptionSlot!Look(h, Objects)
  <2>1. UNCHANGED <<OptionHeld, optionPanicked>>
    BY <1>1 DEF OptionMap, OptionHeld, Contained, IsSome
  <2>2. optionCall' = <<"look", h, Objects, IF OptionHeld[h] \in Objects THEN OptionHeld[h] ELSE Nothing>>
    BY <1>1, HeldTruthful DEF OptionMap, OptionCalls
  <2> QED BY <2>1, <2>2 DEF OptionSlot!Look, OptionSlot!Answers
<1>2. ASSUME NEW v \in Values, OptionCompare(h, v) PROVE OptionSlot!Look(h, {v})
  <2>1. UNCHANGED <<OptionHeld, optionPanicked>>
    BY <1>2 DEF OptionCompare, OptionHeld, Contained, IsSome
  <2>2. optionCall' = <<"look", h, {v}, IF OptionHeld[h] \in {v} THEN OptionHeld[h] ELSE Nothing>>
    BY <1>2, HeldTruthful, LifetimeAssumption DEF OptionCompare, OptionCalls, IsSome, Objects
  <2> QED BY <2>1, <2>2 DEF OptionSlot!Look, OptionSlot!Answers
<1> QED BY <1>1, <1>2

LEMMA DemandSteps ==
    ASSUME OptionInv, NEW h \in Holders, OptionAsRef(h)
    PROVE  OptionSlot!Demand(h, Objects)
<1>1. UNCHANGED OptionHeld
  BY DEF OptionAsRef, OptionHeld, Contained, IsSome
<1>2. optionCall' = <<"demand", h, Objects, IF OptionHeld[h] \in Objects THEN OptionHeld[h] ELSE Nothing>>
  BY HeldTruthful DEF OptionAsRef, OptionCalls
<1>3. optionPanicked' = (OptionHeld[h] \notin Objects)
  BY HeldTruthful DEF OptionAsRef, IsSome
<1> QED BY <1>1, <1>2, <1>3 DEF OptionSlot!Demand, OptionSlot!Answers

(* Calls that move the value out. *)
LEMMA ExtractionYields ==
    ASSUME OptionInv, NEW h \in Holders, Extraction(h)
    PROVE  OptionSlot!Yields(h, Objects)
<1>0. option[h] \in OptionDatas
  BY DEF OptionInv
<1>1. CASE IsSome(h)
  <2>1. option' = [option EXCEPT ![h] = ExtractedData(option[h])]
    BY <1>1 DEF Extraction
  <2>2. ExtractedData(option[h]).m_is_some /\ ExtractedData(option[h]).m_some = Hollowed(option[h].m_some)
    BY <1>0, <1>1 DEF ExtractedData, IsSome, OptionDatas
  <2>3. OptionHeld' = [OptionHeld EXCEPT ![h] = Hollowed(option[h].m_some)]
    BY <2>1, <2>2, HeldExcept
  <2>4. OptionHeld[h] = option[h].m_some /\ OptionHeld[h] \in Objects
        /\ OptionHeld[h] \in OptionContents /\ OptionHeld[h] # Nothing
    BY <1>1, HeldTruthful DEF IsSome
  <2> QED BY <2>3, <2>4 DEF OptionSlot!Yields
<1>2. CASE ~IsSome(h)
  <2>1. UNCHANGED OptionHeld
    BY <1>2 DEF Extraction, OptionHeld, Contained, IsSome
  <2>2. OptionHeld[h] \notin Objects
    BY <1>2, HeldTruthful DEF IsSome
  <2> QED BY <2>1, <2>2 DEF OptionSlot!Yields
<1> QED BY <1>1, <1>2

LEMMA TakeSteps ==
    ASSUME OptionInv, NEW h \in Holders,
           OptionMatch(h) \/ OptionOkOr(h) \/ (OptionUnwrapOr(h) /\ ~IsSome(h))
    PROVE  OptionSlot!Take(h, Objects)
<1>1. Extraction(h) /\ UNCHANGED optionPanicked
  BY DEF OptionMatch, OptionOkOr, OptionUnwrapOr, Extraction
<1>2. optionCall' = <<"take", h, Objects, IF OptionHeld[h] \in Objects THEN OptionHeld[h] ELSE Nothing>>
  BY HeldTruthful DEF OptionMatch, OptionOkOr, OptionUnwrapOr, OptionCalls, IsSome
<1> QED BY <1>1, <1>2, ExtractionYields DEF OptionSlot!Take, OptionSlot!Answers

LEMMA UnwrapSteps ==
    ASSUME OptionInv, NEW h \in Holders,
           OptionUnwrap(h) \/ OptionExpect(h) \/ (OptionUnwrapOr(h) /\ IsSome(h))
    PROVE  OptionSlot!Unwrap(h, Objects)
<1>1. Extraction(h) /\ optionPanicked' = ~IsSome(h)
  BY DEF OptionUnwrap, OptionExpect, OptionUnwrapOr, Extraction
<1>2. optionCall' = <<"unwrap", h, Objects, IF OptionHeld[h] \in Objects THEN OptionHeld[h] ELSE Nothing>>
  BY HeldTruthful DEF OptionUnwrap, OptionExpect, OptionUnwrapOr, OptionCalls, IsSome
<1>3. optionPanicked' = (OptionHeld[h] \notin Objects)
  BY <1>1, HeldTruthful DEF IsSome
<1> QED BY <1>1, <1>2, <1>3, ExtractionYields DEF OptionSlot!Unwrap, OptionSlot!Answers

(* or_else looks at, or moves out of, the first of two that is engaged. *)
LEMMA OrElseSteps ==
    ASSUME OptionInv, NEW h \in Holders, NEW g \in Holders
    PROVE  /\ OptionOrElseReference(h, g) => OptionSlot!LookEither(h, g)
           /\ OptionOrElse(h, g) => OptionSlot!TakeEither(h, g)
<1> DEFINE from == IF IsSome(h) THEN h ELSE g
<1>1. from \in Holders /\ from = OptionSlot!Either(h, g)
  BY HeldTruthful DEF OptionSlot!Either, IsSome
<1>2. ASSUME OptionOrElseReference(h, g) PROVE OptionSlot!LookEither(h, g)
  <2>1. UNCHANGED <<OptionHeld, optionPanicked>>
    BY <1>2 DEF OptionOrElseReference, OptionHeld, Contained, IsSome
  <2>2. optionCall' = <<"look either", h, g, OptionHeld[from]>>
    BY <1>1, <1>2, HeldTruthful DEF OptionOrElseReference, OptionCalls
  <2> QED BY <1>1, <2>1, <2>2 DEF OptionSlot!LookEither
<1>3. ASSUME OptionOrElse(h, g) PROVE OptionSlot!TakeEither(h, g)
  <2>1. optionCall' = <<"take either", h, g, OptionHeld[from]>> /\ UNCHANGED optionPanicked
    BY <1>1, <1>3, HeldTruthful DEF OptionOrElse, OptionCalls
  <2>2. option' = [option EXCEPT ![from] = AssignedNone(MovedOutData(option[from]))]
    BY <1>3 DEF OptionOrElse
  <2>3. option[from] \in OptionDatas
    BY <1>1 DEF OptionInv
  <2>4. OptionHeld' = [OptionHeld EXCEPT ![from] = Nothing]
    BY <1>1, <2>2, <2>3, EmptyData, HeldExcept
  <2> QED BY <1>1, <2>1, <2>4 DEF OptionSlot!TakeEither
<1> QED BY <1>2, <1>3

(* The specialisation does not change while a program runs. *)
LEMMA OptionTypesStay ==
    ASSUME OptionNext
    PROVE  /\ ~optionPanicked
           /\ UNCHANGED optionIsReference
  BY ZenonT(60) DEF OptionNext, OptionConstructNone, OptionDestroy, OptionAssignNone, OptionMap, OptionMatch,
         OptionOkOr, OptionUnwrap, OptionUnwrapOr, OptionExpect, OptionAsRef, OptionConstruct,
         OptionAssign, OptionCompare, OptionCopyConstruct, OptionMoveConstruct,
         OptionConvertingMove, OptionCopyAssign, OptionMoveAssign, OptionOrElseReference, OptionOrElse

(* OptionImplementsSlot for any set of holders and of values: whatever the *)
(* flags and lifetimes do, every operation of Option (Option.h:132-:940)   *)
(* is the slot operation of the same name on the same Options - what it    *)
(* leaves in each of them, what it answers and whether it panics.          *)
THEOREM OptionIsSlot == OptionSpec => OptionImplementsSlot
<1> DEFINE keeps == [c \in OptionContents |-> c]
           left == [c \in OptionContents |-> IF c = Nothing THEN c ELSE Hollowed(c)]
<1>1. OptionInit => OptionSlot!Init
  <2> SUFFICES ASSUME OptionInit PROVE OptionSlot!Init
    OBVIOUS
  <2>1. keeps \in [OptionContents -> OptionContents]
    OBVIOUS
  <2>2. left \in [OptionContents -> OptionContents]
    BY DEF Hollowed, OptionContents, Objects
  <2>3. OptionHeld = [h \in Holders |-> Nothing]
    BY DEF OptionInit, OptionHeld, Contained, IsSome, DeadData, NoneData
  <2> QED BY <2>1, <2>2, <2>3 DEF OptionInit, OptionSlot!Init
<1>2. OptionInv /\ [OptionNext]_optionVars
      => [OptionSlot!Next]_<<keeps, left, OptionHeld, optionCall, optionPanicked>>
  <2> SUFFICES ASSUME OptionInv, [OptionNext]_optionVars
               PROVE  [OptionSlot!Next]_<<keeps, left, OptionHeld, optionCall, optionPanicked>>
    OBVIOUS
  <2>1. CASE UNCHANGED optionVars
    BY <2>1 DEF optionVars, OptionHeld, Contained, IsSome, Hollowed
  <2>2. CASE OptionNext
    <3>1. ~optionPanicked /\ UNCHANGED <<keeps, left>>
      BY <2>2, OptionTypesStay DEF Hollowed
    <3> HIDE DEF keeps, left
    <3>2. Nothing \in OptionContents /\ \A v \in Values : v \in OptionContents
      BY DEF OptionContents, Objects
    <3> DEFINE SlotSides == {Objects} \cup {{v} : v \in Values}
               Step(h, g, c, side) ==
                   \/ OptionSlot!Copy(h, g) \/ OptionSlot!Move(h, g) \/ OptionSlot!Drain(h, g)
                   \/ OptionSlot!LookEither(h, g) \/ OptionSlot!TakeEither(h, g)
                   \/ OptionSlot!Fail(h) \/ OptionSlot!Destroy(h)
                   \/ OptionSlot!Put(h, c) \/ OptionSlot!Convert(h, c)
                   \/ OptionSlot!Look(h, side) \/ OptionSlot!Demand(h, side)
                   \/ OptionSlot!Take(h, side) \/ OptionSlot!Unwrap(h, side)
    <3>3. Objects \in SlotSides /\ \A v \in Values : {v} \in SlotSides
      OBVIOUS
    <3> HIDE DEF SlotSides
    <3>4. \E h, g \in Holders, c \in OptionContents, side \in SlotSides : Step(h, g, c, side)
      <4>1. ASSUME NEW h \in Holders,
                   \/ OptionConstructNone(h) \/ OptionDestroy(h) \/ OptionAssignNone(h)
                   \/ \E v \in Values : OptionConstruct(h, v) \/ OptionAssign(h, v)
            PROVE  \E c \in OptionContents : Step(h, h, c, Objects)
        BY <3>2, <4>1, PutSteps
      <4>2. ASSUME NEW h \in Holders,
                   \/ OptionMap(h) \/ OptionAsRef(h) \/ OptionMatch(h) \/ OptionOkOr(h)
                   \/ OptionUnwrapOr(h) \/ OptionUnwrap(h) \/ OptionExpect(h)
            PROVE  Step(h, h, Nothing, Objects)
        BY <4>2, LookSteps, DemandSteps, TakeSteps, UnwrapSteps
      <4>3. ASSUME NEW h \in Holders, NEW v \in Values, OptionCompare(h, v)
            PROVE  Step(h, h, Nothing, {v})
        BY <4>3, LookSteps
      <4>4. ASSUME NEW h \in Holders, NEW g \in Holders,
                   \/ OptionCopyConstruct(h, g) \/ OptionMoveConstruct(h, g)
                   \/ OptionConvertingMove(h, g) \/ OptionCopyAssign(h, g) \/ OptionMoveAssign(h, g)
                   \/ OptionOrElseReference(h, g) \/ OptionOrElse(h, g)
            PROVE  Step(h, g, Nothing, Objects)
        BY <4>4, CopySteps, MoveSteps, DrainSteps, OrElseSteps
      <4> HIDE DEF Step
      <4> QED BY <2>2, <3>2, <3>3, <4>1, <4>2, <4>3, <4>4 DEF OptionNext
    <3>5. \A h, g \in Holders, c \in OptionContents, side \in SlotSides :
            Step(h, g, c, side) => optionCall'[2] = h
      <4> SUFFICES ASSUME NEW h \in Holders, NEW g \in Holders, NEW c \in OptionContents,
                          NEW side \in SlotSides,
                          Step(h, g, c, side)
                   PROVE  optionCall'[2] = h
        OBVIOUS
      <4>1. CASE OptionSlot!Copy(h, g) \/ OptionSlot!Move(h, g) \/ OptionSlot!Drain(h, g)
        BY <4>1 DEF OptionSlot!Copy, OptionSlot!Move, OptionSlot!Drain
      <4>2. CASE OptionSlot!LookEither(h, g) \/ OptionSlot!TakeEither(h, g)
        <5>1. PICK a : optionCall' = <<"look either", h, g, a>> \/ optionCall' = <<"take either", h, g, a>>
          BY <4>2, Zenon DEF OptionSlot!LookEither, OptionSlot!TakeEither
        <5>2. CASE optionCall' = <<"look either", h, g, a>>
          BY <5>2
        <5>3. CASE optionCall' = <<"take either", h, g, a>>
          BY <5>3
        <5> QED BY <5>1, <5>2, <5>3
      <4>3. CASE OptionSlot!Fail(h) \/ OptionSlot!Destroy(h) \/ OptionSlot!Put(h, c) \/ OptionSlot!Convert(h, c)
        BY <4>3 DEF OptionSlot!Fail, OptionSlot!Destroy, OptionSlot!Put, OptionSlot!Convert
      <4>4. CASE OptionSlot!Look(h, side) \/ OptionSlot!Demand(h, side) \/ OptionSlot!Take(h, side) \/ OptionSlot!Unwrap(h, side)
        BY <4>4 DEF OptionSlot!Look, OptionSlot!Demand, OptionSlot!Take, OptionSlot!Unwrap, OptionSlot!Answers
      <4> QED BY <4>1, <4>2, <4>3, <4>4
    <3> QED BY <3>1, <3>4, <3>5 DEF OptionSlot!Next, SlotSides, keeps, left
  <2> QED BY <2>1, <2>2
<1> QED
  BY <1>1, <1>2, OptionInvInit, OptionInvStep, PTL
  DEF OptionSpec, OptionImplementsSlot, OptionSlot!Spec, OptionSlot!slot
=============================================================================
