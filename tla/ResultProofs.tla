----------------------------- MODULE ResultProofs -----------------------------
(***************************************************************************)
(* The theorems about Result, for any sets of holders and of values and    *)
(* for each of its four specialisations: the tag names the member that     *)
(* lives, no value is dropped without being handled, and, when T is not    *)
(* None, callers see a Slot.                                               *)
(***************************************************************************)
EXTENDS Result, FiniteSetTheorems, TLAPS

(* What a union member that lives can be: a value on its side. *)
Sided == {"Ok", "Err"} \X (Objects \cup {Unit})

(* One holder's part of ResultTagTruthful. *)
ResultDataOK(d) ==
    IF d.m_active = "None"
    THEN d.object = Vacant \/ d.object[1] \in resultReferences \/ d.object[2] = MovedFrom
    ELSE d.object \in Sided /\ d.object[1] = d.m_active

ResultDatas ==
    {d \in [m_active : {"None", "Ok", "Err"}, object : Sided \cup {Vacant}] : ResultDataOK(d)}

Results == [alive : BOOLEAN, data : ResultDatas, m_handled : BOOLEAN]

(* A variable without a Result in it has no value. *)
DeadEmpty == \A h \in Holders : ~result[h].alive => result[h].data.m_active = "None"

(* Every value in a Result was put into one. *)
ValuesMade ==
    /\ resultMade \subseteq Values
    /\ \A h \in Holders :
        result[h].data.m_active # "None" =>
            result[h].data.object[2] \in resultMade \cup {MovedFrom, Unit}

(* A value nobody looked at has one carrier. *)
OneCarrier == \A v \in resultMade \ resultSettled : \E h \in Holders : Carriers(v) = {h}

(* An undefined read is one of a disengaged Result. *)
StopExplained == resultStopped = "undefined" => \E h \in Holders : Exists(h) /\ IsEmpty(h)

ResultInv ==
    /\ result \in [Holders -> Results]
    /\ DeadEmpty
    /\ ValuesMade
    /\ OneCarrier
    /\ StopExplained

-----------------------------------------------------------------------------
(* What the operations of ResultData make of good data. *)
LEMMA ConstructedData ==
    /\ EmptyData \in ResultDatas /\ EmptyData.m_active = "None"
    /\ \A o \in Sided : /\ DataOf(o) \in ResultDatas
                        /\ DataOf(o).m_active = o[1] /\ DataOf(o).object = o
                        /\ o[1] \in {"Ok", "Err"} /\ o = <<o[1], o[2]>>
  BY DEF EmptyData, DataOf, ResultDatas, ResultDataOK, Sided

LEMMA EngagedData ==
    ASSUME NEW d \in ResultDatas, d.m_active # "None"
    PROVE  d.object \in Sided /\ d.object[1] = d.m_active /\ d.m_active \in {"Ok", "Err"}
  BY DEF ResultDatas, ResultDataOK

LEMMA MovedData ==
    ASSUME NEW d \in ResultDatas
    PROVE  /\ MovedOutResult(d) \in ResultDatas /\ MovedOutResult(d).m_active = "None"
           /\ ClearedResult(d) \in ResultDatas /\ ClearedResult(d).m_active = "None"
<1>1. ASSUME NEW o \in Sided
      PROVE  /\ [m_active |-> "None", object |-> HollowedSide(o)] \in ResultDatas
             /\ [m_active |-> "None", object |-> EndedSide(o)] \in ResultDatas
  <2>1. HollowedSide(o) \in Sided
    BY DEF HollowedSide, Sided, Objects
  <2>2. HollowedSide(o)[1] \in resultReferences \/ HollowedSide(o)[2] = MovedFrom
    BY DEF HollowedSide
  <2>3. EndedSide(o) = Vacant \/ (EndedSide(o) \in Sided /\ EndedSide(o)[1] \in resultReferences)
    BY DEF EndedSide
  <2> QED BY <2>1, <2>2, <2>3 DEF ResultDatas, ResultDataOK
<1>2. CASE d.m_active = "None"
  BY <1>2 DEF MovedOutResult, ClearedResult
<1>3. CASE d.m_active # "None"
  BY <1>1, <1>3, EngagedData DEF MovedOutResult, ClearedResult
<1> QED BY <1>2, <1>3

LEMMA AssignedData ==
    ASSUME NEW d \in ResultDatas, NEW o \in Sided
    PROVE  /\ AssignedSide(d, o) \in ResultDatas
           /\ AssignedSide(d, o).m_active = o[1]
           /\ AssignedSide(d, o).object = o
<1>1. o[1] \in {"Ok", "Err"}
  BY DEF Sided
<1>2. ASSUME d.m_active = o[1] PROVE [d EXCEPT !.object = o] = DataOf(o)
  BY <1>2 DEF ResultDatas, DataOf
<1>3. AssignedSide(d, o) = DataOf(o)
  BY <1>1, <1>2 DEF AssignedSide, AssignedOk, AssignedErr, BoundOk, BoundErr
<1> QED BY <1>3, ConstructedData

LEMMA TransferredData ==
    ASSUME NEW d \in ResultDatas, NEW e \in ResultDatas
    PROVE  /\ CopiedResult(e) \in ResultDatas /\ AssignedResult(d, e) \in ResultDatas
           /\ CopiedResult(e).m_active = e.m_active /\ AssignedResult(d, e).m_active = e.m_active
           /\ e.m_active # "None" =>
                CopiedResult(e).object = e.object /\ AssignedResult(d, e).object = e.object
<1>1. CASE e.m_active = "None"
  BY <1>1, MovedData, ConstructedData DEF CopiedResult, AssignedResult
<1>2. CASE e.m_active # "None"
  BY <1>2, EngagedData, AssignedData, ConstructedData DEF CopiedResult, AssignedResult
<1> QED BY <1>1, <1>2

(* A move leaves its source disengaged; when T is None, it leaves an Ok    *)
(* with the one value of that type.                                        *)
LEMMA LeftData ==
    ASSUME NEW e \in ResultDatas
    PROVE  /\ LeftResult(e) \in ResultDatas
           /\ resultOkType # "None" => LeftResult(e).m_active = "None"
           /\ LeftResult(e).m_active # "None" => LeftResult(e).object[2] = Unit
<1>1. MovedOutResult(e) \in ResultDatas
  BY MovedData
<1>2. CASE resultOkType = "None"
  <2>1. Ok(Unit) \in Sided /\ Ok(Unit)[2] = Unit
    BY DEF Ok, Sided
  <2>2. DataOf(Ok(Unit)) \in ResultDatas /\ DataOf(Ok(Unit)).m_active # "None"
        /\ DataOf(Ok(Unit)).object = Ok(Unit)
    BY <2>1, ConstructedData
  <2> QED BY <1>1, <1>2, <2>1, <2>2, TransferredData DEF LeftResult, DataOfNone
<1>3. CASE resultOkType # "None"
  BY <1>1, <1>3, ConstructedData, TransferredData DEF LeftResult, DataOfNone
<1> QED BY <1>2, <1>3

LEMMA ExtractedData ==
    ASSUME NEW e \in ResultDatas, e.m_active # "None"
    PROVE  /\ ExtractedResult(e) \in ResultDatas
           /\ ExtractedResult(e).m_active = e.m_active
           /\ ExtractedResult(e).object \in {e.object, <<e.m_active, MovedFrom>>}
<1>1. e.object \in Sided /\ e.object[1] = e.m_active
  BY EngagedData
<1>2. HollowedSide(e.object) \in {e.object, <<e.m_active, MovedFrom>>}
  BY <1>1 DEF HollowedSide
<1>3. HollowedSide(e.object) \in Sided /\ HollowedSide(e.object)[1] = e.m_active
  BY <1>1, <1>2 DEF Sided, Objects
<1>4. ExtractedResult(e) = [m_active |-> e.m_active, object |-> HollowedSide(e.object)]
  BY DEF ExtractedResult, ResultDatas
<1> QED BY <1>2, <1>3, <1>4 DEF ResultDatas, ResultDataOK

-----------------------------------------------------------------------------
(* A copy or a move between two Results: the target takes over the value   *)
(* and the duty to be handled, the source is handled and keeps its value   *)
(* or is left as LeftResult says.                                          *)
Transferred(h, g, d, e) ==
    /\ h # g
    /\ result[g].alive
    /\ result' \in [Holders -> Results]
    /\ \A x \in Holders \ {h, g} : result'[x] = result[x]
    /\ result'[h].alive /\ result'[h].data = d /\ result'[h].m_handled = result[g].m_handled
    /\ result'[g].alive /\ result'[g].data = e /\ result'[g].m_handled = TRUE
    /\ d.m_active = result[g].data.m_active
    /\ d.m_active # "None" => d.object = result[g].data.object
    /\ \/ e = result[g].data /\ resultCall' = <<"copy", h, g, Nothing>>
       \/ e = LeftResult(result[g].data) /\ resultCall' = <<"move", h, g, Nothing>>
    /\ resultSettled' = resultSettled \cup Pending(result[h])
    /\ UNCHANGED <<resultTypes, resultStopped, resultMade>>

(* What an assignment makes of one Result. *)
LEMMA HoldingSteps ==
    ASSUME NEW r \in Results, NEW d \in ResultDatas, NEW b \in BOOLEAN
    PROVE  /\ Holding(r, d, b) \in Results
           /\ Holding(r, d, b).alive = r.alive
           /\ Holding(r, d, b).data = d
           /\ Holding(r, d, b).m_handled = b
  BY DEF Results, Holding

LEMMA TransferSteps ==
    ASSUME ResultInv, NEW h \in Holders, NEW g \in Holders,
           \/ ResultCopyConstruct(h, g) \/ ResultMoveConstruct(h, g)
           \/ (ResultCopyAssign(h, g) \/ ResultMoveAssign(h, g)) /\ h # g
    PROVE  \E d \in ResultDatas, e \in ResultDatas : Transferred(h, g, d, e)
<1>0. result[h] \in Results /\ result[g] \in Results /\ result \in [Holders -> Results]
  BY DEF ResultInv
<1>1. result[h].data \in ResultDatas /\ result[g].data \in ResultDatas /\ result[g].m_handled \in BOOLEAN
  BY <1>0 DEF Results
<1>2. LeftResult(result[g].data) \in ResultDatas
  BY <1>1, LeftData
<1>3. h # g /\ result[g].alive
  BY DEF ResultCopyConstruct, ResultMoveConstruct, ResultCopyAssign, ResultMoveAssign, Exists
<1>4. resultSettled' = resultSettled \cup Pending(result[h])
  <2>1. CASE ResultCopyConstruct(h, g) \/ ResultMoveConstruct(h, g)
    BY <2>1 DEF Pending, ResultCopyConstruct, ResultMoveConstruct, Exists
  <2>2. CASE (ResultCopyAssign(h, g) \/ ResultMoveAssign(h, g)) /\ h # g
    BY <2>2 DEF ResultCopyAssign, ResultMoveAssign
  <2> QED BY <2>1, <2>2
<1>5. UNCHANGED <<resultTypes, resultStopped, resultMade>>
  BY DEF ResultCopyConstruct, ResultMoveConstruct, ResultCopyAssign, ResultMoveAssign
<1>6. PICK d \in ResultDatas, r \in Results :
        /\ d.m_active = result[g].data.m_active
        /\ d.m_active # "None" => d.object = result[g].data.object
        /\ r.alive /\ r.data = d /\ r.m_handled = result[g].m_handled
        /\ \/ /\ result' = [result EXCEPT ![h] = r, ![g].m_handled = TRUE]
              /\ resultCall' = <<"copy", h, g, Nothing>>
           \/ /\ result' = [result EXCEPT ![h] = r,
                                ![g] = Holding(@, LeftResult(@.data), TRUE)]
              /\ resultCall' = <<"move", h, g, Nothing>>
  <2>1. CASE ResultCopyConstruct(h, g) \/ ResultMoveConstruct(h, g)
    <3> DEFINE d == CopiedResult(result[g].data)
               r == [Fresh(d) EXCEPT !.m_handled = result[g].m_handled]
    <3>1. /\ d \in ResultDatas /\ d.m_active = result[g].data.m_active
          /\ d.m_active # "None" => d.object = result[g].data.object
      BY <1>1, TransferredData
    <3>2. \/ /\ result' = [result EXCEPT ![h] = r, ![g].m_handled = TRUE]
             /\ resultCall' = <<"copy", h, g, Nothing>>
          \/ /\ result' = [result EXCEPT ![h] = r,
                               ![g] = Holding(@, LeftResult(@.data), TRUE)]
             /\ resultCall' = <<"move", h, g, Nothing>>
      BY <2>1 DEF ResultCopyConstruct, ResultMoveConstruct, ResultCalls
    <3>3. r \in Results /\ r.alive /\ r.data = d /\ r.m_handled = result[g].m_handled
      <4> HIDE DEF d
      <4> QED BY <1>1, <3>1 DEF Fresh, Results
    <3> HIDE DEF d, r
    <3> QED BY <3>1, <3>2, <3>3
  <2>2. CASE (ResultCopyAssign(h, g) \/ ResultMoveAssign(h, g)) /\ h # g
    <3> DEFINE d == AssignedResult(result[h].data, result[g].data)
               r == Holding(result[h], d, result[g].m_handled)
    <3>1. /\ d \in ResultDatas /\ d.m_active = result[g].data.m_active
          /\ d.m_active # "None" => d.object = result[g].data.object
      BY <1>1, TransferredData
    <3>2. \/ /\ result' = [result EXCEPT ![h] = r, ![g].m_handled = TRUE]
             /\ resultCall' = <<"copy", h, g, Nothing>>
          \/ /\ result' = [result EXCEPT ![h] = r,
                               ![g] = Holding(@, LeftResult(@.data), TRUE)]
             /\ resultCall' = <<"move", h, g, Nothing>>
      BY <2>2 DEF ResultCopyAssign, ResultMoveAssign, ResultCalls
    <3>3. r \in Results /\ r.alive /\ r.data = d /\ r.m_handled = result[g].m_handled
      <4>1. result[h].alive
        BY <2>2 DEF ResultCopyAssign, ResultMoveAssign, Exists
      <4> HIDE DEF d
      <4> QED BY <1>0, <1>1, <3>1, <4>1, HoldingSteps
    <3> HIDE DEF d, r
    <3> QED BY <3>1, <3>2, <3>3
  <2> QED BY <2>1, <2>2
<1>7. PICK e \in ResultDatas, q \in Results :
        /\ \/ e = result[g].data /\ resultCall' = <<"copy", h, g, Nothing>>
           \/ e = LeftResult(result[g].data) /\ resultCall' = <<"move", h, g, Nothing>>
        /\ q.alive /\ q.data = e /\ q.m_handled = TRUE
        /\ result' = [result EXCEPT ![h] = r, ![g] = q]
  <2>1. CASE /\ result' = [result EXCEPT ![h] = r, ![g].m_handled = TRUE]
             /\ resultCall' = <<"copy", h, g, Nothing>>
    <3> DEFINE q == [result[g] EXCEPT !.m_handled = TRUE]
    <3>1. q \in Results /\ q.alive /\ q.data = result[g].data /\ q.m_handled = TRUE
      BY <1>0, <1>3 DEF Results
    <3>2. result' = [result EXCEPT ![h] = r, ![g] = q]
      BY <1>0, <1>3, <2>1
    <3> HIDE DEF q
    <3> QED BY <1>1, <2>1, <3>1, <3>2
  <2>2. CASE /\ result' = [result EXCEPT ![h] = r,
                               ![g] = Holding(@, LeftResult(@.data), TRUE)]
             /\ resultCall' = <<"move", h, g, Nothing>>
    <3> DEFINE q == Holding(result[g], LeftResult(result[g].data), TRUE)
    <3>1. q \in Results /\ q.alive /\ q.data = LeftResult(result[g].data) /\ q.m_handled = TRUE
      BY <1>0, <1>2, <1>3, HoldingSteps
    <3>2. result' = [result EXCEPT ![h] = r, ![g] = q]
      BY <1>0, <1>3, <2>2
    <3> HIDE DEF q
    <3> QED BY <1>2, <2>2, <3>1, <3>2
  <2> QED BY <1>6, <2>1, <2>2
<1>8. /\ result' \in [Holders -> Results]
      /\ result'[h] = r /\ result'[g] = q
      /\ \A x \in Holders \ {h, g} : result'[x] = result[x]
  BY <1>0, <1>3, <1>7
<1> QED BY <1>3, <1>4, <1>5, <1>6, <1>7, <1>8 DEF Transferred

-----------------------------------------------------------------------------
LEMMA ResultInvInit == ResultInit => ResultInv
<1> SUFFICES ASSUME ResultInit PROVE ResultInv
  OBVIOUS
<1>1. \A h \in Holders : result[h] = Gone
  BY DEF ResultInit
<1>2. Gone \in Results /\ ~Gone.alive /\ Gone.data.m_active = "None"
  BY ConstructedData DEF Gone, Results
<1>3. result \in [Holders -> Results]
  BY <1>2 DEF ResultInit
<1> QED BY <1>1, <1>2, <1>3 DEF ResultInit, ResultInv, DeadEmpty, ValuesMade, OneCarrier, StopExplained

(* A copy or a move: the carrier of a value may change, and no value gets  *)
(* a second one.                                                           *)
LEMMA TransferKeeps ==
    ASSUME ResultInv, resultStopped = "no", NEW h \in Holders, NEW g \in Holders,
           NEW d \in ResultDatas, NEW e \in ResultDatas, Transferred(h, g, d, e)
    PROVE  ResultInv'
<1> USE DEF ResultInv
<1>1. ResultDatas' = ResultDatas
  BY DEF Transferred, resultTypes, ResultDatas, ResultDataOK, Sided, Objects
<1>2. result' \in [Holders -> Results]'
  BY <1>1 DEF Transferred, Results
<1>3. DeadEmpty'
  BY DEF DeadEmpty, Transferred
<1>4. ValuesMade'
  <2>1. e.m_active # "None" => e.object[2] \in resultMade \cup {MovedFrom, Unit}
    <3>1. CASE e = result[g].data
      BY <3>1 DEF ValuesMade
    <3>2. CASE e = LeftResult(result[g].data)
      <4>1. result[g].data \in ResultDatas
        BY DEF Results
      <4> QED BY <3>2, <4>1, LeftData
    <3> QED BY <3>1, <3>2 DEF Transferred
  <2>2. d.m_active # "None" => d.object[2] \in resultMade \cup {MovedFrom, Unit}
    BY DEF Transferred, ValuesMade
  <2>3. \A x \in Holders : result'[x].data = IF x = h THEN d ELSE IF x = g THEN e ELSE result[x].data
    BY DEF Transferred
  <2>4. resultMade' = resultMade
    BY DEF Transferred
  <2> QED BY <2>1, <2>2, <2>3, <2>4 DEF ValuesMade
<1>5. OneCarrier'
  <2>1. Pending(result'[h]) = Pending(result[g])
    BY DEF Transferred, Pending
  <2>2. Pending(result'[g]) = {}
    BY DEF Transferred, Pending
  <2>3. \A x \in Holders : Pending(result'[x]) = IF x = h THEN Pending(result[g])
                                                 ELSE IF x = g THEN {} ELSE Pending(result[x])
    BY <2>1, <2>2 DEF Transferred
  <2>4. ASSUME NEW v \in (resultMade \ resultSettled)'
        PROVE  \E x \in Holders : Carriers(v)' = {x}
    <3>1. v \in resultMade \ resultSettled /\ v \notin Pending(result[h])
      BY <2>4 DEF Transferred
    <3>2. PICK x \in Holders : Carriers(v) = {x}
      BY <3>1 DEF OneCarrier
    <3>3. x # h
      BY <3>1, <3>2 DEF Carriers
    <3>4. Carriers(v)' = {y \in Holders : v \in Pending(result'[y])}
      BY DEF Carriers, Pending
    <3>5. \A y \in Holders : v \in Pending(result[y]) <=> y = x
      BY <3>2 DEF Carriers
    <3>6. h # g
      BY DEF Transferred
    <3>7. CASE x = g
      <4>1. \A y \in Holders : v \in Pending(result'[y]) <=> y = h
        BY <2>3, <3>5, <3>6, <3>7
      <4> QED BY <3>4, <4>1
    <3>8. CASE x # g
      <4>1. \A y \in Holders : v \in Pending(result'[y]) <=> y = x
        BY <2>3, <3>3, <3>5, <3>6, <3>8
      <4> QED BY <3>4, <4>1
    <3> QED BY <3>7, <3>8
  <2> QED BY <2>4 DEF OneCarrier
<1>6. StopExplained'
  BY DEF StopExplained, Transferred
<1> QED BY <1>2, <1>3, <1>4, <1>5, <1>6

(* A call that looks at a Result: the value it finds is settled. *)
LEMMA HandlingKeeps ==
    ASSUME ResultInv, NEW h \in Holders, NEW data \in ResultDatas, NEW stopped,
           Handling(h, data, stopped),
           data.m_active = result[h].data.m_active,
           data.m_active # "None" => data.object[2] \in {result[h].data.object[2], MovedFrom},
           stopped = "undefined" => IsEmpty(h)
    PROVE  ResultInv'
<1> USE DEF ResultInv
<1> DEFINE r == Holding(result[h], data, TRUE)
<1>1. r \in Results /\ r.alive /\ r.data = data /\ r.m_handled = TRUE
  BY HoldingSteps DEF Handling, Exists
<1>2. /\ \A x \in Holders : result'[x] = IF x = h THEN r ELSE result[x]
      /\ result' \in [Holders -> Results]
  BY <1>1 DEF Handling
<1> HIDE DEF r
<1>3. ResultDatas' = ResultDatas
  BY DEF Handling, resultTypes, ResultDatas, ResultDataOK, Sided, Objects
<1>4. result' \in [Holders -> Results]'
  BY <1>2, <1>3 DEF Results
<1>5. DeadEmpty'
  BY <1>1, <1>2 DEF DeadEmpty
<1>6. ValuesMade'
  <2>1. resultMade' = resultMade
    BY DEF Handling
  <2> QED BY <1>1, <1>2, <2>1 DEF ValuesMade
<1>7. OneCarrier'
  <2>1. resultMade' = resultMade /\ resultSettled' = resultSettled \cup Looked(h)
    BY DEF Handling
  <2>2. Pending(result[h]) \subseteq Looked(h)
    BY DEF Pending, Looked, IsEmpty, Has, Results, ResultDatas
  <2>3. \A x \in Holders : Pending(result'[x]) = IF x = h THEN {} ELSE Pending(result[x])
    BY <1>1, <1>2 DEF Pending
  <2>4. ASSUME NEW v \in (resultMade \ resultSettled)'
        PROVE  \E x \in Holders : Carriers(v)' = {x}
    <3>1. v \in resultMade \ resultSettled /\ v \notin Pending(result[h])
      BY <2>1, <2>2, <2>4
    <3>2. PICK x \in Holders : Carriers(v) = {x}
      BY <3>1 DEF OneCarrier
    <3>3. Carriers(v)' = {y \in Holders : v \in Pending(result'[y])}
      BY DEF Carriers, Pending
    <3>4. \A y \in Holders : v \in Pending(result[y]) <=> y = x
      BY <3>2 DEF Carriers
    <3>5. \A y \in Holders : v \in Pending(result'[y]) <=> y = x
      BY <2>3, <3>1, <3>4
    <3> QED BY <3>3, <3>5
  <2> QED BY <2>4 DEF OneCarrier
<1>8. StopExplained'
  <2>1. resultStopped' = stopped
    BY DEF Handling
  <2>2. stopped = "undefined" => Exists(h)' /\ IsEmpty(h)'
    BY <1>1, <1>2 DEF Exists, IsEmpty, Has
  <2> QED BY <2>1, <2>2 DEF StopExplained
<1> QED BY <1>4, <1>5, <1>6, <1>7, <1>8

(* The calls that look at a Result: they leave its tag, and its value or   *)
(* the husk of it.                                                         *)
ResultLooks(h) ==
    \/ ResultAsRef(h) \/ ResultUnwrap(h) \/ ResultUnwrapOr(h) \/ ResultExpect(h)
    \/ ResultUnwrapErr(h)
    \/ (\E side \in {"Ok", "Err"} : ResultIsOk(h, side) \/ ResultToOption(h, side))
    \/ ResultMap(h) \/ ResultMapOr(h) \/ ResultMapErr(h)
    \/ ResultMatch(h) \/ ResultAndThen(h) \/ ResultOrElse(h)

(* What such a call does to the Result, by the side it asked for. *)
Looks(h, side, data, stopped) ==
    /\ Handling(h, data, stopped)
    /\ data = Data(h) \/ (Has(h, side) /\ data = ExtractedResult(Data(h)))
    /\ stopped = "undefined" => IsEmpty(h)

LEMMA LookCases ==
    ASSUME NEW h \in Holders, ResultLooks(h)
    PROVE  \E side \in {"Ok", "Err"} : \E data, stopped : Looks(h, side, data, stopped)
<1>1. CASE ResultAsRef(h) \/ ResultMapOr(h) \/ \E side \in {"Ok", "Err"} : ResultIsOk(h, side)
  BY <1>1 DEF ResultIsOk, ResultAsRef, ResultMapOr, Seeing, Looks
<1>2. CASE ResultUnwrap(h) \/ ResultUnwrapOr(h) \/ ResultExpect(h)
  BY <1>2 DEF ResultUnwrap, ResultUnwrapOr, ResultExpect, Extracting, Looks
<1>3. CASE ResultUnwrapErr(h) \/ \E side \in {"Ok", "Err"} : ResultToOption(h, side)
  BY <1>3 DEF ResultUnwrapErr, ResultToOption, Extracting, Looks
<1>4. CASE ResultMap(h) \/ ResultMapErr(h)
  BY <1>4 DEF ResultMap, ResultMapErr, Assumed, IsEmpty, Looks
<1>5. CASE ResultMatch(h) \/ ResultAndThen(h) \/ ResultOrElse(h)
  BY <1>5 DEF ResultMatch, ResultAndThen, ResultOrElse, Assumed, IsEmpty, Looks
<1> QED BY <1>1, <1>2, <1>3, <1>4, <1>5 DEF ResultLooks

LEMMA LooksKeep ==
    ASSUME ResultInv, NEW h \in Holders, ResultLooks(h)
    PROVE  ResultInv'
<1>0. PICK side \in {"Ok", "Err"} : \E data, stopped : Looks(h, side, data, stopped)
  BY LookCases
<1>1. PICK data, stopped : Looks(h, side, data, stopped)
  BY <1>0
<1>2. result[h].data \in ResultDatas
  BY DEF ResultInv, Results
<1>3. CASE data = Data(h)
  BY <1>1, <1>2, <1>3, HandlingKeeps DEF Looks, Data
<1>4. CASE Has(h, side) /\ data = ExtractedResult(Data(h))
  <2>1. result[h].data.m_active # "None"
    BY <1>4 DEF Has
  <2>2. /\ data \in ResultDatas
        /\ data.m_active = result[h].data.m_active
        /\ data.object \in {result[h].data.object, <<result[h].data.m_active, MovedFrom>>}
    BY <1>2, <1>4, <2>1, ExtractedData DEF Data
  <2>3. data.object[2] \in {result[h].data.object[2], MovedFrom}
    BY <2>2
  <2> QED BY <1>1, <2>2, <2>3, HandlingKeeps DEF Looks
<1> QED BY <1>1, <1>3, <1>4 DEF Looks

(* A Result is constructed from a value that is in no Result yet. *)
LEMMA ConstructKeeps ==
    ASSUME ResultInv, resultStopped = "no", NEW h \in Holders, NEW o \in Sided,
           o[2] \in Values \ resultMade \/ o[2] = Unit,
           ResultConstruct(h, o)
    PROVE  ResultInv'
<1> USE DEF ResultInv
<1> DEFINE r == Fresh(DataOf(o))
<1>1. r \in Results /\ r.alive /\ r.data = DataOf(o) /\ ~r.m_handled
  BY ConstructedData DEF Fresh, Results
<1>2. /\ r.data.m_active # "None" /\ r.data.object = o
  BY <1>1, ConstructedData
<1>3. /\ \A x \in Holders : result'[x] = IF x = h THEN r ELSE result[x]
      /\ result' \in [Holders -> Results]
  BY <1>1 DEF ResultConstruct
<1> HIDE DEF r
<1>4. ResultDatas' = ResultDatas
  BY DEF ResultConstruct, resultTypes, ResultDatas, ResultDataOK, Sided, Objects
<1>5. result' \in [Holders -> Results]'
  BY <1>3, <1>4 DEF Results
<1>6. DeadEmpty'
  BY <1>1, <1>3 DEF DeadEmpty
<1>7. /\ resultMade' = resultMade \cup ({o[2]} \cap Values) /\ resultSettled' = resultSettled
      /\ ~result[h].alive
  BY DEF ResultConstruct, Exists
<1>8. ValuesMade'
  BY <1>2, <1>3, <1>7 DEF ValuesMade
<1>9. OneCarrier'
  <2>1. Pending(r) = {o[2]} \cap Values /\ Pending(result[h]) = {}
    BY <1>1, <1>2, <1>7 DEF Pending
  <2>2. \A x \in Holders : Pending(result'[x]) = IF x = h THEN {o[2]} \cap Values ELSE Pending(result[x])
    BY <1>3, <2>1
  <2>3. \A x \in Holders : Pending(result[x]) \subseteq resultMade
    BY LifetimeAssumption, ResultAssumption DEF Pending, ValuesMade, Objects
  <2>4. ASSUME NEW v \in (resultMade \ resultSettled)'
        PROVE  \E x \in Holders : Carriers(v)' = {x}
    <3>1. Carriers(v)' = {y \in Holders : v \in Pending(result'[y])}
      BY DEF Carriers, Pending
    <3>2. CASE v \in {o[2]} \cap Values
      <4>1. v \notin resultMade
        BY <3>2, ResultAssumption DEF Objects
      <4>2. \A y \in Holders : v \in Pending(result'[y]) <=> y = h
        BY <2>2, <2>3, <3>2, <4>1
      <4> QED BY <3>1, <4>2
    <3>3. CASE v \notin {o[2]} \cap Values
      <4>1. PICK x \in Holders : Carriers(v) = {x}
        BY <1>7, <2>4, <3>3 DEF OneCarrier
      <4>2. \A y \in Holders : v \in Pending(result[y]) <=> y = x
        BY <4>1 DEF Carriers
      <4>3. \A y \in Holders : v \in Pending(result'[y]) <=> y = x
        BY <2>1, <2>2, <3>3, <4>2
      <4> QED BY <3>1, <4>3
    <3> QED BY <3>2, <3>3
  <2> QED BY <2>4 DEF OneCarrier
<1>10. StopExplained'
  BY DEF StopExplained, ResultConstruct
<1> QED BY <1>5, <1>6, <1>8, <1>9, <1>10

(* A Result without a duty is constructed or destroyed. *)
LEMMA EmptyKeeps ==
    ASSUME ResultInv, resultStopped = "no", NEW h \in Holders, NEW r \in {Fresh(EmptyData), Gone},
           Pending(result[h]) = {}, result' = [result EXCEPT ![h] = r], resultStopped' = "no",
           UNCHANGED <<resultTypes, resultMade, resultSettled>>
    PROVE  ResultInv'
<1> USE DEF ResultInv
<1>1. r \in Results /\ r.data.m_active = "None" /\ Pending(r) = {}
  <2>1. CASE r = Fresh(EmptyData)
    BY <2>1, ConstructedData DEF Fresh, Results, Pending
  <2>2. CASE r = Gone
    BY <2>2, ConstructedData DEF Gone, Results, Pending
  <2> QED BY <2>1, <2>2
<1>2. /\ \A x \in Holders : result'[x] = IF x = h THEN r ELSE result[x]
      /\ result' \in [Holders -> Results]
  BY <1>1
<1>3. ResultDatas' = ResultDatas
  BY DEF resultTypes, ResultDatas, ResultDataOK, Sided, Objects
<1>4. result' \in [Holders -> Results]'
  BY <1>2, <1>3 DEF Results
<1>5. DeadEmpty' /\ ValuesMade'
  BY <1>1, <1>2 DEF DeadEmpty, ValuesMade
<1>6. \A v : Carriers(v)' = Carriers(v)
  <2>1. \A x \in Holders : Pending(result'[x]) = Pending(result[x])
    BY <1>1, <1>2
  <2>2. \A v : Carriers(v)' = {y \in Holders : v \in Pending(result'[y])}
    BY DEF Carriers, Pending
  <2> QED BY <2>1, <2>2 DEF Carriers
<1>7. OneCarrier'
  BY <1>6 DEF OneCarrier
<1> QED BY <1>4, <1>5, <1>7 DEF StopExplained

(* The destructor panics, or finds nothing that was not handled. *)
LEMMA DestroyCases ==
    ASSUME ResultInv, NEW h \in Holders, ResultDestroy(h)
    PROVE  \/ /\ ~IsEmpty(h) /\ resultStopped' = "panic"
              /\ UNCHANGED <<result, resultTypes, resultMade, resultSettled>>
           \/ /\ Pending(result[h]) = {} /\ result' = [result EXCEPT ![h] = Gone]
              /\ UNCHANGED <<resultTypes, resultStopped, resultMade, resultSettled>>
<1>1. ~IsEmpty(h) <=> result[h].data.m_active # "None"
  BY DEF ResultInv, IsEmpty, Has, Results, ResultDatas
<1> QED BY <1>1 DEF ResultDestroy, Pending

LEMMA ResultInvStep == ResultInv /\ [ResultNext]_resultVars => ResultInv'
<1> SUFFICES ASSUME ResultInv, [ResultNext]_resultVars PROVE ResultInv'
  OBVIOUS
<1>1. ASSUME UNCHANGED <<result, resultTypes, resultMade, resultSettled>>,
             resultStopped' = "undefined" => resultStopped = "undefined"
      PROVE  ResultInv'
  <2>1. ResultDatas' = ResultDatas
    BY <1>1 DEF resultTypes, ResultDatas, ResultDataOK, Sided, Objects
  <2>2. result' \in [Holders -> Results]'
    BY <1>1, <2>1 DEF ResultInv, Results
  <2>3. \A v : Carriers(v)' = Carriers(v)
    BY <1>1 DEF Carriers, Pending
  <2>4. OneCarrier'
    BY <1>1, <2>3 DEF ResultInv, OneCarrier
  <2>5. DeadEmpty' /\ ValuesMade' /\ StopExplained'
    BY <1>1 DEF ResultInv, DeadEmpty, ValuesMade, StopExplained, Exists, IsEmpty, Has
  <2> QED BY <2>2, <2>4, <2>5 DEF ResultInv
<1>2. CASE UNCHANGED resultVars
  BY <1>1, <1>2 DEF resultVars, resultTypes
<1>3. CASE ResultNext
  <2>0. resultStopped = "no"
    BY <1>3 DEF ResultNext
  <2>1. ASSUME NEW h \in Holders, ResultConstructEmpty(h) PROVE ResultInv'
    BY <2>0, <2>1, EmptyKeeps DEF ResultConstructEmpty, Pending, Exists
  <2>2. ASSUME NEW h \in Holders, NEW v \in OkValues, ResultConstruct(h, Ok(v)) PROVE ResultInv'
    <3>1. Ok(v) \in Sided /\ (Ok(v)[2] \in Values \ resultMade \/ Ok(v)[2] = Unit)
      BY DEF Ok, Sided, OkValues, Objects
    <3> QED BY <2>0, <2>2, <3>1, ConstructKeeps
  <2>3. ASSUME NEW h \in Holders, NEW v \in Values \ resultMade, ResultConstruct(h, Err(v))
        PROVE  ResultInv'
    <3>1. Err(v) \in Sided /\ Err(v)[2] \in Values \ resultMade
      BY DEF Err, Sided, Objects
    <3> QED BY <2>0, <2>3, <3>1, ConstructKeeps
  <2>4. ASSUME NEW h \in Holders, ResultDestroy(h) PROVE ResultInv'
    BY <1>1, <2>0, <2>4, DestroyCases, EmptyKeeps
  <2>5. ASSUME NEW h \in Holders, ResultLooks(h) PROVE ResultInv'
    BY <2>5, LooksKeep
  <2>6. ASSUME NEW h \in Holders, NEW g \in Holders,
               \/ ResultCopyConstruct(h, g) \/ ResultMoveConstruct(h, g)
               \/ (ResultCopyAssign(h, g) \/ ResultMoveAssign(h, g)) /\ h # g
        PROVE  ResultInv'
    BY <2>0, <2>6, TransferSteps, TransferKeeps
  <2>7. ASSUME NEW h \in Holders, NEW g \in Holders,
               (ResultCopyAssign(h, g) \/ ResultMoveAssign(h, g)) /\ h = g
        PROVE  ResultInv'
    BY <1>1, <2>7 DEF ResultCopyAssign, ResultMoveAssign
  <2> QED BY <1>3, <2>1, <2>2, <2>3, <2>4, <2>5, <2>6, <2>7 DEF ResultNext, ResultLooks
<1> QED BY <1>2, <1>3

-----------------------------------------------------------------------------
(* ResultTagTruthful for any sets of holders and values and each of the    *)
(* specialisations, T = None included: the tag names the union member that *)
(* lives (ResultData.h:138-:330).                                          *)
THEOREM ResultTagNamesMember == ResultSpec => []ResultTagTruthful
<1>1. ASSUME ResultInv PROVE ResultTagTruthful
  <2>1. ASSUME NEW h \in Holders
        PROVE  LET d == result[h].data
               IN  CASE d.m_active = "None" ->
                            \/ d.object = Vacant
                            \/ d.object[1] \in resultReferences
                            \/ d.object[2] = MovedFrom
                     [] OTHER -> d.object # Vacant /\ d.object[1] = d.m_active
    <3>1. result[h].data \in ResultDatas
      BY <1>1 DEF ResultInv, Results
    <3>2. Vacant \notin Sided
      BY ResultAssumption DEF Sided
    <3> QED BY <3>1, <3>2 DEF ResultDatas, ResultDataOK
  <2> QED BY <1>1, <2>1 DEF ResultTagTruthful, ResultInv, StopExplained
<1> QED BY <1>1, ResultInvInit, ResultInvStep, PTL DEF ResultSpec

(* ResultEveryValueAccountedFor for any sets of holders and values: a      *)
(* value nobody looked at or overwrote has exactly one Result that will    *)
(* panic (Result.h:291-:320).                                              *)
THEOREM ResultDropsNothing == ResultSpec => []ResultEveryValueAccountedFor
<1>1. ASSUME ResultInv PROVE ResultEveryValueAccountedFor
  <2> SUFFICES ASSUME NEW v \in resultMade \ resultSettled PROVE Cardinality(Carriers(v)) = 1
    BY DEF ResultEveryValueAccountedFor
  <2>1. PICK h \in Holders : Carriers(v) = {h}
    BY <1>1 DEF ResultInv, OneCarrier
  <2> QED BY <2>1, FS_Singleton
<1> QED BY <1>1, ResultInvInit, ResultInvStep, PTL DEF ResultSpec

-----------------------------------------------------------------------------
(* What callers see of a Result, by its tag. *)
LEMMA ResultHeldTruthful ==
    ASSUME ResultInv, NEW h \in Holders
    PROVE  /\ result[h].data.m_active = "None" => ResultHeld[h] = Nothing
           /\ result[h].data.m_active # "None" =>
                /\ ResultHeld[h] = result[h].data.object /\ ResultHeld[h] # Nothing
                /\ ResultHeld[h] \in SideContents(result[h].data.m_active)
           /\ \A side \in {"Ok", "Err"} : ResultHeld[h] \in SideContents(side) <=> Has(h, side)
           /\ Has(h, "Ok") \/ Has(h, "Err") <=> result[h].data.m_active # "None"
<1>1. result[h].data \in ResultDatas
  BY DEF ResultInv, Results
<1>2. IsEmpty(h) <=> result[h].data.m_active = "None"
  BY <1>1 DEF IsEmpty, Has, ResultDatas
<1>3. Nothing \notin Sided
  BY ResultAssumption DEF Sided
<1>4. CASE result[h].data.m_active = "None"
  <2>1. ResultHeld[h] = Nothing
    BY <1>2, <1>4 DEF ResultHeld
  <2>2. \A side \in {"Ok", "Err"} : Nothing \notin SideContents(side)
    BY <1>3 DEF SideContents, Sided
  <2> QED BY <1>4, <2>1, <2>2 DEF Has
<1>5. CASE result[h].data.m_active # "None"
  <2>1. ResultHeld[h] = result[h].data.object
    BY <1>2, <1>5 DEF ResultHeld, Object
  <2>2. /\ result[h].data.object \in Sided /\ result[h].data.object[1] = result[h].data.m_active
        /\ result[h].data.m_active \in {"Ok", "Err"}
    BY <1>1, <1>5, EngagedData
  <2>3. \A side : result[h].data.object \in SideContents(side) <=> side = result[h].data.m_active
    BY <2>2 DEF SideContents, Sided
  <2> QED BY <1>3, <1>5, <2>1, <2>2, <2>3 DEF Has
<1> QED BY <1>4, <1>5

LEMMA HeldContents ==
    ASSUME ResultInv, NEW h \in Holders
    PROVE  /\ ResultHeld[h] \in ResultContents
           /\ Nothing \notin AnySide
           /\ ResultHeld[h] \in AnySide <=> ~IsEmpty(h)
           /\ ResultHeld[h] = Nothing <=> IsEmpty(h)
           /\ ~IsEmpty(h) => ResultHeld[h] = Object(h)
<1>1. Nothing \notin AnySide
  BY ResultAssumption DEF AnySide, SideContents
<1>2. IsEmpty(h) <=> result[h].data.m_active = "None"
  BY ResultHeldTruthful DEF IsEmpty
<1>3. result[h].data.m_active \in {"None", "Ok", "Err"}
  BY DEF ResultInv, Results, ResultDatas
<1>4. CASE IsEmpty(h)
  BY <1>1, <1>2, <1>4, ResultHeldTruthful DEF ResultContents
<1>5. CASE ~IsEmpty(h)
  <2>1. ResultHeld[h] \in AnySide /\ ResultHeld[h] = Object(h)
    BY <1>2, <1>3, <1>5, ResultHeldTruthful DEF AnySide, Object
  <2> QED BY <1>1, <1>5, <2>1 DEF ResultContents
<1> QED BY <1>4, <1>5, <1>1

(* A copy or a move between two Results is one between two slots. *)
LEMMA TransferIsSlotStep ==
    ASSUME ResultInv, ResultInv', resultOkType # "None", NEW h \in Holders, NEW g \in Holders,
           NEW d \in ResultDatas, NEW e \in ResultDatas, Transferred(h, g, d, e)
    PROVE  ResultSlot!Copy(h, g) \/ ResultSlot!Move(h, g)
<1>1. \A x \in Holders : ResultHeld'[x] = IF result'[x].data.m_active \in {"Ok", "Err"}
                                          THEN result'[x].data.object ELSE Nothing
  BY DEF ResultHeld, IsEmpty, Has, Object
<1>2. \A x \in Holders : ResultHeld[x] = IF result[x].data.m_active \in {"Ok", "Err"}
                                         THEN result[x].data.object ELSE Nothing
  BY DEF ResultHeld, IsEmpty, Has, Object
<1>3. result[g].data \in ResultDatas
  BY DEF ResultInv, Results
<1>4. \A x \in Holders : result'[x].data = IF x = h THEN d ELSE IF x = g THEN e ELSE result[x].data
  BY DEF Transferred
<1>5. d.m_active \in {"None", "Ok", "Err"} /\ e.m_active \in {"None", "Ok", "Err"}
  BY DEF ResultDatas
<1>6. ResultHeld'[h] = ResultHeld[g]
  BY <1>1, <1>2, <1>4, <1>5 DEF Transferred
<1>7. h # g /\ UNCHANGED resultStopped
  BY DEF Transferred
<1>8. CASE e = result[g].data /\ resultCall' = <<"copy", h, g, Nothing>>
  <2>1. ResultHeld'[g] = ResultHeld[g]
    BY <1>1, <1>2, <1>4, <1>7, <1>8
  <2>2. \A x \in Holders : ResultHeld'[x] = IF x = h THEN ResultHeld[g] ELSE ResultHeld[x]
    BY <1>1, <1>2, <1>4, <1>6, <2>1
  <2>3. ResultHeld' = [ResultHeld EXCEPT ![h] = ResultHeld[g]]
    BY <2>2 DEF ResultHeld
  <2> QED BY <1>7, <1>8, <2>3, HeldContents DEF ResultSlot!Copy
<1>9. CASE e = LeftResult(result[g].data) /\ resultCall' = <<"move", h, g, Nothing>>
  <2>1. ResultHeld'[g] = Nothing
    BY <1>1, <1>3, <1>4, <1>7, <1>9, LeftData
  <2>2. \A x \in Holders : ResultHeld'[x] = IF x = h THEN ResultHeld[g]
                                            ELSE IF x = g THEN Nothing ELSE ResultHeld[x]
    BY <1>1, <1>2, <1>4, <1>6, <2>1
  <2>3. ResultHeld' = [ResultHeld EXCEPT ![h] = ResultHeld[g], ![g] = Nothing]
    BY <1>7, <2>2 DEF ResultHeld
  <2> QED BY <1>7, <1>9, <2>3 DEF ResultSlot!Move
<1> QED BY <1>8, <1>9 DEF Transferred

(* What a call that looks at a Result leaves in it. *)
LEMMA HandlingHeld ==
    ASSUME ResultInv, NEW h \in Holders, NEW data, NEW stopped, Handling(h, data, stopped)
    PROVE  /\ data = Data(h) => UNCHANGED ResultHeld
           /\ ~IsEmpty(h) /\ data = ExtractedResult(Data(h)) =>
                ResultHeld' = [ResultHeld EXCEPT ![h] = HollowedSide(ResultHeld[h])]
<1>2. result[h].data \in ResultDatas /\ result \in [Holders -> Results] /\ result[h] \in Results
  BY DEF ResultInv, Results
<1>3. result' = [result EXCEPT ![h] = Holding(@, data, TRUE)]
  BY DEF Handling
<1>4. Holding(result[h], data, TRUE).data = data
  BY <1>2 DEF Holding, Results
<1>5. \A x \in Holders : result'[x].data = IF x = h THEN data ELSE result[x].data
  BY <1>2, <1>3, <1>4
<1>6. \A x \in Holders : ResultHeld'[x] = IF result'[x].data.m_active \in {"Ok", "Err"}
                                          THEN result'[x].data.object ELSE Nothing
  BY DEF ResultHeld, IsEmpty, Has, Object
<1>7. \A x \in Holders : ResultHeld[x] = IF result[x].data.m_active \in {"Ok", "Err"}
                                         THEN result[x].data.object ELSE Nothing
  BY DEF ResultHeld, IsEmpty, Has, Object
<1>8. ASSUME data = Data(h) PROVE UNCHANGED ResultHeld
  <2>1. \A x \in Holders : ResultHeld'[x] = ResultHeld[x]
    BY <1>5, <1>6, <1>7, <1>8 DEF Data
  <2> QED BY <2>1 DEF ResultHeld
<1>9. ASSUME ~IsEmpty(h), data = ExtractedResult(Data(h))
      PROVE  ResultHeld' = [ResultHeld EXCEPT ![h] = HollowedSide(ResultHeld[h])]
  <2>1. data.m_active \in {"Ok", "Err"} /\ data.object = HollowedSide(result[h].data.object)
    BY <1>2, <1>9 DEF ExtractedResult, Data, IsEmpty, Has, ResultDatas
  <2>2. ResultHeld[h] = result[h].data.object
    BY <1>9, HeldContents DEF Object
  <2>3. \A x \in Holders : ResultHeld'[x] = IF x = h THEN data.object ELSE ResultHeld[x]
    BY <1>5, <1>6, <1>7, <2>1
  <2> HIDE DEF HollowedSide
  <2> QED BY <2>1, <2>2, <2>3 DEF ResultHeld
<1> QED BY <1>8, <1>9

(* Calls that ask for one side. *)
LEMMA SeeingIsSlotStep ==
    ASSUME ResultInv, resultStopped = "no", NEW h \in Holders, NEW side \in {"Ok", "Err"}
    PROVE  /\ Seeing(h, "look", side, "no") => ResultSlot!Look(h, SideContents(side))
           /\ Seeing(h, "demand", side, "panic") => ResultSlot!Demand(h, SideContents(side))
<1>1. ResultHeld[h] \in SideContents(side) <=> Has(h, side)
  BY ResultHeldTruthful
<1>2. Has(h, side) => ResultHeld[h] = Object(h)
  BY HeldContents DEF IsEmpty
<1>3. ASSUME NEW name, NEW otherwise, Seeing(h, name, side, otherwise)
      PROVE  /\ ResultSlot!Answers(name, h, SideContents(side))
             /\ UNCHANGED ResultHeld
             /\ resultStopped' = IF Has(h, side) THEN "no" ELSE otherwise
  <2>1. UNCHANGED ResultHeld
    BY <1>3, HandlingHeld DEF Seeing
  <2>2. ResultSlot!Answers(name, h, SideContents(side))
    BY <1>1, <1>2, <1>3 DEF Seeing, ResultCalls, ResultSlot!Answers
  <2> QED BY <1>3, <2>1, <2>2 DEF Seeing, Handling
<1>4. ASSUME Seeing(h, "look", side, "no") PROVE ResultSlot!Look(h, SideContents(side))
  BY <1>3, <1>4 DEF ResultSlot!Look
<1>5. ASSUME Seeing(h, "demand", side, "panic") PROVE ResultSlot!Demand(h, SideContents(side))
  BY <1>1, <1>3, <1>5 DEF ResultSlot!Demand
<1> QED BY <1>4, <1>5

LEMMA ExtractingIsSlotStep ==
    ASSUME ResultInv, resultStopped = "no", NEW h \in Holders, NEW side \in {"Ok", "Err"}
    PROVE  /\ Extracting(h, "take", side, "no") => ResultSlot!Take(h, SideContents(side))
           /\ Extracting(h, "unwrap", side, "panic") => ResultSlot!Unwrap(h, SideContents(side))
<1>1. ResultHeld[h] \in SideContents(side) <=> Has(h, side)
  BY ResultHeldTruthful
<1>2. Has(h, side) => ResultHeld[h] = Object(h) /\ ~IsEmpty(h)
  BY HeldContents DEF IsEmpty
<1>3. ASSUME NEW name, NEW otherwise, Extracting(h, name, side, otherwise)
      PROVE  /\ ResultSlot!Answers(name, h, SideContents(side))
             /\ ResultSlot!Yields(h, SideContents(side))
             /\ resultStopped' = IF Has(h, side) THEN "no" ELSE otherwise
  <2>1. ResultSlot!Answers(name, h, SideContents(side))
    BY <1>1, <1>2, <1>3 DEF Extracting, ResultCalls, ResultSlot!Answers
  <2>2. resultStopped' = IF Has(h, side) THEN "no" ELSE otherwise
    BY <1>3 DEF Extracting, Handling
  <2>3. CASE Has(h, side)
    <3>1. ResultHeld' = [ResultHeld EXCEPT ![h] = HollowedSide(ResultHeld[h])]
      BY <1>2, <1>3, <2>3, HandlingHeld DEF Extracting
    <3>2. ResultHeld[h] \in ResultContents /\ ResultHeld[h] # Nothing
      BY <1>2, <2>3, HeldContents
    <3> QED BY <1>1, <2>1, <2>2, <2>3, <3>1, <3>2 DEF ResultSlot!Yields
  <2>4. CASE ~Has(h, side)
    <3>1. UNCHANGED ResultHeld
      BY <1>3, <2>4, HandlingHeld DEF Extracting
    <3> QED BY <1>1, <2>1, <2>2, <2>4, <3>1 DEF ResultSlot!Yields
  <2> QED BY <2>3, <2>4
<1>4. ASSUME Extracting(h, "take", side, "no") PROVE ResultSlot!Take(h, SideContents(side))
  BY <1>3, <1>4 DEF ResultSlot!Take
<1>5. ASSUME Extracting(h, "unwrap", side, "panic") PROVE ResultSlot!Unwrap(h, SideContents(side))
  BY <1>1, <1>3, <1>5 DEF ResultSlot!Unwrap
<1> QED BY <1>4, <1>5

(* Calls that take either side for granted. *)
LEMMA AssumedIsSlotStep ==
    ASSUME ResultInv, resultStopped = "no", NEW h \in Holders
    PROVE  /\ Assumed(h, "demand", Data(h)) => ResultSlot!Demand(h, AnySide)
           /\ Assumed(h, "unwrap", ExtractedResult(Data(h))) => ResultSlot!Unwrap(h, AnySide)
<1>1. ResultHeld[h] \in AnySide <=> ~IsEmpty(h)
  BY HeldContents
<1>2. ~IsEmpty(h) => ResultHeld[h] = Object(h) /\ ResultHeld[h] \in ResultContents /\ ResultHeld[h] # Nothing
  BY HeldContents
<1>3. ASSUME NEW name, NEW data, Assumed(h, name, data)
      PROVE  /\ ResultSlot!Answers(name, h, AnySide)
             /\ resultStopped' = IF IsEmpty(h) THEN "undefined" ELSE "no"
             /\ IsEmpty(h) => UNCHANGED ResultHeld
  <2>1. ResultSlot!Answers(name, h, AnySide)
    BY <1>1, <1>2, <1>3 DEF Assumed, ResultCalls, ResultSlot!Answers
  <2>2. resultStopped' = IF IsEmpty(h) THEN "undefined" ELSE "no"
    BY <1>3 DEF Assumed, Handling
  <2>3. IsEmpty(h) => UNCHANGED ResultHeld
    BY <1>3, HandlingHeld DEF Assumed
  <2> QED BY <2>1, <2>2, <2>3
<1>4. ASSUME Assumed(h, "demand", Data(h)) PROVE ResultSlot!Demand(h, AnySide)
  <2>1. UNCHANGED ResultHeld
    BY <1>4, HandlingHeld DEF Assumed
  <2> QED BY <1>1, <1>3, <1>4, <2>1 DEF ResultSlot!Demand
<1>5. ASSUME Assumed(h, "unwrap", ExtractedResult(Data(h))) PROVE ResultSlot!Unwrap(h, AnySide)
  <2>1. ResultSlot!Yields(h, AnySide)
    <3>1. CASE IsEmpty(h)
      BY <1>1, <1>3, <1>5, <3>1 DEF ResultSlot!Yields
    <3>2. CASE ~IsEmpty(h)
      <4>1. ResultHeld' = [ResultHeld EXCEPT ![h] = HollowedSide(ResultHeld[h])]
        BY <1>5, <3>2, HandlingHeld DEF Assumed
      <4> QED BY <1>1, <1>2, <3>2, <4>1 DEF ResultSlot!Yields
    <3> QED BY <3>1, <3>2
  <2> QED BY <1>1, <1>3, <1>5, <2>1 DEF ResultSlot!Unwrap
<1> QED BY <1>4, <1>5

LEMMA LooksIsSlotStep ==
    ASSUME ResultInv, resultStopped = "no", NEW h \in Holders, ResultLooks(h)
    PROVE  \E side \in {SideContents("Ok"), SideContents("Err"), AnySide} :
                \/ ResultSlot!Look(h, side) \/ ResultSlot!Demand(h, side)
                \/ ResultSlot!Take(h, side) \/ ResultSlot!Unwrap(h, side)
<1>1. CASE ResultAsRef(h) \/ ResultMapOr(h) \/ \E side \in {"Ok", "Err"} : ResultIsOk(h, side)
  BY <1>1, SeeingIsSlotStep DEF ResultAsRef, ResultMapOr, ResultIsOk
<1>2. CASE \/ ResultUnwrap(h) \/ ResultUnwrapOr(h) \/ ResultExpect(h) \/ ResultUnwrapErr(h)
           \/ \E side \in {"Ok", "Err"} : ResultToOption(h, side)
  BY <1>2, ExtractingIsSlotStep
  DEF ResultUnwrap, ResultUnwrapOr, ResultExpect, ResultUnwrapErr, ResultToOption
<1>3. CASE \/ ResultMap(h) \/ ResultMapErr(h)
           \/ ResultMatch(h) \/ ResultAndThen(h) \/ ResultOrElse(h)
  BY <1>3, AssumedIsSlotStep DEF ResultMap, ResultMapErr, ResultMatch, ResultAndThen, ResultOrElse
<1> QED BY <1>1, <1>2, <1>3 DEF ResultLooks

(* A Result is constructed from a value, or emptied. *)
LEMMA PutHeld ==
    ASSUME ResultInv, NEW h \in Holders, NEW r, NEW c,
           result' = [result EXCEPT ![h] = r],
           c = IF r.data.m_active \in {"Ok", "Err"} THEN r.data.object ELSE Nothing
    PROVE  ResultHeld' = [ResultHeld EXCEPT ![h] = c]
<1>1. \A x \in Holders : ResultHeld'[x] = IF result'[x].data.m_active \in {"Ok", "Err"}
                                          THEN result'[x].data.object ELSE Nothing
  BY DEF ResultHeld, IsEmpty, Has, Object
<1>2. \A x \in Holders : ResultHeld[x] = IF result[x].data.m_active \in {"Ok", "Err"}
                                         THEN result[x].data.object ELSE Nothing
  BY DEF ResultHeld, IsEmpty, Has, Object
<1>3. \A x \in Holders : ResultHeld'[x] = IF x = h THEN c ELSE ResultHeld[x]
  BY <1>1, <1>2 DEF ResultInv
<1> QED BY <1>3 DEF ResultHeld

LEMMA PutIsSlotStep ==
    ASSUME ResultInv, NEW h \in Holders
    PROVE  /\ ResultConstructEmpty(h) => ResultSlot!Put(h, Nothing)
           /\ \A v : ResultConstruct(h, Ok(v)) => ResultSlot!Put(h, Ok(v))
           /\ \A v : ResultConstruct(h, Err(v)) => ResultSlot!Put(h, Err(v))
<1>1. ASSUME ResultConstructEmpty(h) PROVE ResultSlot!Put(h, Nothing)
  <2>1. Fresh(EmptyData).data.m_active = "None"
    BY DEF Fresh, EmptyData
  <2>2. ResultHeld' = [ResultHeld EXCEPT ![h] = Nothing]
    BY <1>1, <2>1, PutHeld DEF ResultConstructEmpty
  <2> QED BY <1>1, <2>2 DEF ResultConstructEmpty, ResultCalls, ResultSlot!Put
<1>2. ASSUME NEW v, NEW o \in {Ok(v), Err(v)}, ResultConstruct(h, o) PROVE ResultSlot!Put(h, o)
  <2>1. Fresh(DataOf(o)).data.m_active \in {"Ok", "Err"} /\ Fresh(DataOf(o)).data.object = o
    BY DEF Fresh, DataOf, Ok, Err
  <2>2. ResultHeld' = [ResultHeld EXCEPT ![h] = o]
    BY <1>2, <2>1, PutHeld DEF ResultConstruct
  <2> QED BY <1>2, <2>2 DEF ResultConstruct, ResultCalls, ResultSlot!Put
<1> QED BY <1>1, <1>2

LEMMA DestroyIsSlotStep ==
    ASSUME ResultInv, resultStopped = "no", NEW h \in Holders, ResultDestroy(h)
    PROVE  ResultSlot!Destroy(h)
<1>1. resultCall' = <<"destroy", h, Nothing, Nothing>>
  BY DEF ResultDestroy, ResultCalls
<1>2. CASE ~IsEmpty(h) /\ resultStopped' = "panic" /\ UNCHANGED result
  <2>1. UNCHANGED ResultHeld
    BY <1>2 DEF ResultHeld, IsEmpty, Has, Object
  <2> QED BY <1>1, <1>2, <2>1, HeldContents DEF ResultSlot!Destroy
<1>3. CASE result' = [result EXCEPT ![h] = Gone] /\ UNCHANGED resultStopped
  <2>1. Gone.data.m_active = "None"
    BY DEF Gone, EmptyData
  <2>2. ResultHeld' = [ResultHeld EXCEPT ![h] = Nothing]
    BY <1>3, <2>1, PutHeld
  <2> QED BY <1>1, <1>3, <2>2 DEF ResultSlot!Destroy
<1> QED BY <1>2, <1>3, DestroyCases

(* The specialisation does not change while a program runs. *)
LEMMA ResultTypesStay == ResultNext => resultStopped = "no" /\ UNCHANGED resultTypes
<1> SUFFICES ASSUME ResultNext PROVE resultStopped = "no" /\ UNCHANGED resultTypes
  OBVIOUS
<1>1. ASSUME NEW h \in Holders, ResultLooks(h) PROVE UNCHANGED resultTypes
  BY <1>1, LookCases DEF Looks, Handling
<1> QED
  BY ZenonT(60), <1>1 DEF ResultNext, ResultLooks, ResultConstructEmpty, ResultConstruct, ResultDestroy,
              ResultCopyConstruct, ResultMoveConstruct, ResultCopyAssign, ResultMoveAssign

(* ResultImplementsSlot for any sets of holders and values, when T is not  *)
(* None: every operation of Result (Result.h:210-:1010) is the slot        *)
(* operation of the same name on the same Results - what it leaves in each *)
(* of them, what it answers on the side it asked for, and whether the      *)
(* program ends.                                                           *)
THEOREM ResultIsSlot ==
    ASSUME OkTypes = {"value"}
    PROVE  ResultSpec => ResultImplementsSlot
<1> DEFINE Inv == ResultInv /\ resultOkType \in OkTypes
           keeps == [c \in ResultContents |-> c]
           left == [c \in ResultContents |-> IF c = Nothing THEN c ELSE HollowedSide(c)]
           slot == <<keeps, left, ResultHeld, resultCall, resultStopped # "no">>
<1>1. ResultInit => ResultSlot!Init /\ Inv
  <2> SUFFICES ASSUME ResultInit PROVE ResultSlot!Init /\ Inv
    OBVIOUS
  <2>1. keeps \in [ResultContents -> ResultContents]
    OBVIOUS
  <2>2. left \in [ResultContents -> ResultContents]
    BY DEF HollowedSide, ResultContents, AnySide, SideContents, Objects
  <2>3. ResultHeld = [h \in Holders |-> Nothing]
    BY DEF ResultInit, ResultHeld, IsEmpty, Has, Gone, EmptyData
  <2>4. resultCall = <<"none", Nothing, Nothing, Nothing>> /\ (resultStopped # "no") = FALSE
    BY DEF ResultInit
  <2> QED BY <2>1, <2>2, <2>3, <2>4, ResultInvInit DEF ResultInit, ResultSlot!Init
<1>2. Inv /\ [ResultNext]_resultVars => Inv' /\ [ResultSlot!Next]_slot
  <2> SUFFICES ASSUME ResultInv, resultOkType = "value", [ResultNext]_resultVars
               PROVE  UNCHANGED resultOkType /\ [ResultSlot!Next]_slot
    BY ResultInvStep
  <2>i. ResultInv'
    BY ResultInvStep
  <2>1. CASE UNCHANGED resultVars
    BY <2>1 DEF resultVars, ResultHeld, IsEmpty, Has, Object, HollowedSide
  <2>2. CASE ResultNext
    <3>1. ~(resultStopped # "no") /\ UNCHANGED resultOkType
      BY <2>2, ResultTypesStay DEF resultTypes
    <3>2. UNCHANGED <<keeps, left>>
      BY <2>2, ResultTypesStay DEF resultTypes, HollowedSide
    <3> DEFINE SlotSides == {SideContents("Ok"), SideContents("Err"), AnySide}
               Step(h, g, c, side) ==
                   \/ ResultSlot!Copy(h, g) \/ ResultSlot!Move(h, g) \/ ResultSlot!Drain(h, g)
                   \/ ResultSlot!LookEither(h, g) \/ ResultSlot!TakeEither(h, g)
                   \/ ResultSlot!Fail(h) \/ ResultSlot!Destroy(h)
                   \/ ResultSlot!Put(h, c) \/ ResultSlot!Convert(h, c)
                   \/ ResultSlot!Look(h, side) \/ ResultSlot!Demand(h, side)
                   \/ ResultSlot!Take(h, side) \/ ResultSlot!Unwrap(h, side)
    <3> HIDE DEF keeps, left
    <3>3. Nothing \in ResultContents /\ \A v \in Values : Ok(v) \in ResultContents /\ Err(v) \in ResultContents
      BY DEF ResultContents, AnySide, SideContents, Objects, Ok, Err
    <3>4. \E h, g \in Holders, c \in ResultContents, side \in SlotSides : Step(h, g, c, side)
      <4>1. ASSUME NEW h \in Holders,
                   \/ ResultConstructEmpty(h) \/ ResultDestroy(h)
                   \/ \E v \in Values : ResultConstruct(h, Ok(v)) \/ ResultConstruct(h, Err(v))
            PROVE  \E c \in ResultContents : Step(h, h, c, AnySide)
        BY <3>1, <3>3, <4>1, PutIsSlotStep, DestroyIsSlotStep
      <4>2. ASSUME NEW h \in Holders, ResultLooks(h)
            PROVE  \E side \in SlotSides : Step(h, h, Nothing, side)
        BY <3>1, <4>2, LooksIsSlotStep
      <4>3. ASSUME NEW h \in Holders, NEW g \in Holders,
                   \/ ResultCopyConstruct(h, g) \/ ResultMoveConstruct(h, g)
                   \/ (ResultCopyAssign(h, g) \/ ResultMoveAssign(h, g)) /\ h # g
            PROVE  Step(h, g, Nothing, AnySide)
        <5>1. PICK d \in ResultDatas, e \in ResultDatas : Transferred(h, g, d, e)
          BY <4>3, TransferSteps
        <5> QED BY <2>i, <5>1, TransferIsSlotStep
      <4>4. ASSUME NEW h \in Holders, NEW g \in Holders,
                   (ResultCopyAssign(h, g) \/ ResultMoveAssign(h, g)) /\ h = g
            PROVE  Step(h, g, Nothing, AnySide)
        <5>1. UNCHANGED <<ResultHeld, resultStopped>>
          BY <4>4 DEF ResultCopyAssign, ResultMoveAssign, ResultHeld, IsEmpty, Has, Object
        <5>2. resultCall' \in {<<"copy", h, g, Nothing>>, <<"move", h, g, Nothing>>}
          BY <4>4 DEF ResultCopyAssign, ResultMoveAssign, ResultCalls
        <5> QED BY <4>4, <5>1, <5>2 DEF ResultSlot!Copy, ResultSlot!Move
      <4>5. \A v \in OkValues : v \in Values
        BY DEF OkValues
      <4> HIDE DEF Step, SlotSides
      <4>6. AnySide \in SlotSides
        BY DEF SlotSides
      <4> QED BY <2>2, <3>3, <4>1, <4>2, <4>3, <4>4, <4>5, <4>6 DEF ResultNext, ResultLooks
    <3>5. \A h, g \in Holders, c \in ResultContents, side \in SlotSides :
            Step(h, g, c, side) => resultCall'[2] = h
      <4> SUFFICES ASSUME NEW h \in Holders, NEW g \in Holders, NEW c \in ResultContents,
                          NEW side \in SlotSides,
                          Step(h, g, c, side)
                   PROVE  resultCall'[2] = h
        OBVIOUS
      <4>1. CASE ResultSlot!Copy(h, g) \/ ResultSlot!Move(h, g) \/ ResultSlot!Drain(h, g)
        BY <4>1 DEF ResultSlot!Copy, ResultSlot!Move, ResultSlot!Drain
      <4>2. CASE ResultSlot!LookEither(h, g) \/ ResultSlot!TakeEither(h, g)
        <5>1. PICK a : resultCall' = <<"look either", h, g, a>> \/ resultCall' = <<"take either", h, g, a>>
          BY <4>2, Zenon DEF ResultSlot!LookEither, ResultSlot!TakeEither
        <5>2. CASE resultCall' = <<"look either", h, g, a>>
          BY <5>2
        <5>3. CASE resultCall' = <<"take either", h, g, a>>
          BY <5>3
        <5> QED BY <5>1, <5>2, <5>3
      <4>3. CASE ResultSlot!Fail(h) \/ ResultSlot!Destroy(h) \/ ResultSlot!Put(h, c) \/ ResultSlot!Convert(h, c)
        BY <4>3 DEF ResultSlot!Fail, ResultSlot!Destroy, ResultSlot!Put, ResultSlot!Convert
      <4>4. CASE ResultSlot!Look(h, side) \/ ResultSlot!Demand(h, side) \/ ResultSlot!Take(h, side) \/ ResultSlot!Unwrap(h, side)
        BY <4>4 DEF ResultSlot!Look, ResultSlot!Demand, ResultSlot!Take, ResultSlot!Unwrap, ResultSlot!Answers
      <4> QED BY <4>1, <4>2, <4>3, <4>4
    <3> QED BY <3>1, <3>2, <3>4, <3>5 DEF ResultSlot!Next, keeps, left
  <2> QED BY <2>1, <2>2
<1> QED BY <1>1, <1>2, PTL DEF ResultSpec, ResultImplementsSlot, ResultSlot!Spec, ResultSlot!slot
=============================================================================
