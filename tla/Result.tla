-------------------------------- MODULE Result --------------------------------
(***************************************************************************)
(* Result<T, E> and its storage ResultData<T, E>: a union of a T, an E and *)
(* None with the tag m_active, in its four specialisations (each of T and  *)
(* E an object type or a reference), built with                            *)
(* HYPERION_RESULT_PANICS_ON_DESTRUCTION_IF_UNHANDLED, which adds the flag *)
(* m_handled and a destructor that panics.  Every value is put into a      *)
(* Result once, so that what becomes of it can be followed.                *)
(***************************************************************************)
EXTENDS Lifetimes, FiniteSets

CONSTANTS
    OkTypes,    \* which T there are: a subset of {"value", "None"}
    Unit        \* the one value of the type None

(* A tagged object is neither empty storage nor an empty answer. *)
ASSUME ResultAssumption ==
    /\ Unit \notin Objects
    /\ {Vacant, Nothing} \cap ({"Ok", "Err"} \X (Objects \cup {Unit})) = {}

VARIABLES
    resultOkType,      \* T is an ordinary type, or option::None itself
    resultReferences,  \* which of T and E are references
    result,            \* result[h]: alive, m_active, the union, m_handled
    resultCall,        \* history: the last call, its arguments and answer
    resultStopped,     \* "no", or why the program stopped
    resultMade,        \* history: values that were put into a Result
    resultSettled      \* history: values looked at, or overwritten

resultTypes == <<resultOkType, resultReferences>>
resultVars ==
    <<resultOkType, resultReferences, result, resultCall, resultStopped,
      resultMade, resultSettled>>

(* Ok(t) and Err(e) wrap a value on its way into a Result. *)
Ok(c) == <<"Ok", c>>
Err(c) == <<"Err", c>>

(* What a destructor and a move leave in the union. *)
EndedSide(o) == IF o[1] \in resultReferences THEN o ELSE Vacant
HollowedSide(o) == IF o[1] \in resultReferences THEN o ELSE <<o[1], MovedFrom>>

(* The empty ResultData, and one constructed from an Ok or an Err. *)
EmptyData == [m_active |-> "None", object |-> Vacant]
DataOf(o) == [m_active |-> o[1], object |-> o]

(* The temporary ResultData(None()): empty, but if T is None the           *)
(* constructor chosen is the one that takes an Ok.                         *)
DataOfNone == IF resultOkType = "None" THEN DataOf(Ok(Unit)) ELSE EmptyData

(* The copy and the move constructor; a move clears the tag of its source  *)
(* and does not destroy what it moved from.                                *)
CopiedResult(e) == IF e.m_active = "None" THEN EmptyData ELSE DataOf(e.object)
(* Mutant of MovedOutResult: the source is copied. *)
MovedOutResult_Copied(e) == [e EXCEPT !.m_active = "None"]

MovedOutResult(e) ==
    IF e.m_active = "None"
    THEN e
    ELSE [m_active |-> "None", object |-> HollowedSide(e.object)]

(* operator=(None), and what the other assignments do first: the object    *)
(* the tag names is destroyed.                                             *)
ClearedResult(d) ==
    IF d.m_active = "None"
    THEN d
    ELSE [m_active |-> "None", object |-> EndedSide(d.object)]

(* operator=(T) and operator=(E) of the specialisations that own objects:  *)
(* assign to the object of that side, or destroy the other and construct.  *)
AssignedOk(d, o) ==
    IF d.m_active = "Ok" THEN [d EXCEPT !.object = o] ELSE DataOf(o)
AssignedErr(d, o) ==
    IF d.m_active = "Err" THEN [d EXCEPT !.object = o] ELSE DataOf(o)

(* The same of the specialisations that store a reference: bind it anew. *)
BoundOk(d, o) == IF d.m_active = "Ok" THEN [d EXCEPT !.object = o] ELSE DataOf(o)
BoundErr(d, o) == IF d.m_active = "Err" THEN [d EXCEPT !.object = o] ELSE DataOf(o)

AssignedSide(d, o) ==
    CASE o[1] = "Ok" /\ "Ok" \notin resultReferences -> AssignedOk(d, o)
      [] o[1] = "Ok" /\ "Ok" \in resultReferences -> BoundOk(d, o)
      [] o[1] = "Err" /\ "Err" \notin resultReferences -> AssignedErr(d, o)
      [] o[1] = "Err" /\ "Err" \in resultReferences -> BoundErr(d, o)

(* operator=(const ResultData&), and what operator=(ResultData&&) gives    *)
(* its target.                                                             *)
AssignedResult(d, e) ==
    IF e.m_active = "None" THEN ClearedResult(d) ELSE AssignedSide(d, e.object)

(* Mutant of LeftResult: the source keeps its tag. *)
LeftResult_Engaged(e) == IF e.m_active = "None" THEN e ELSE [e EXCEPT !.object = HollowedSide(@)]

(* What Result's move operations do to their source: move out of it and    *)
(* assign ResultData(None()) to it.                                        *)
LeftResult(e) == AssignedResult(MovedOutResult(e), DataOfNone)

(* extract() and extract_err(): the value leaves, the tag stays. *)
ExtractedResult(d) == [d EXCEPT !.object = HollowedSide(@)]

(* has_ok(), has_err(), is_empty(). *)
Has(h, side) == result[h].data.m_active = side
IsEmpty(h) == ~Has(h, "Ok") /\ ~Has(h, "Err")
Exists(h) == result[h].alive

Fresh(data) == [alive |-> TRUE, data |-> data, m_handled |-> FALSE]
Holding(r, data, handled) == [r EXCEPT !.data = data, !.m_handled = handled]
Gone == [alive |-> FALSE, data |-> EmptyData, m_handled |-> FALSE]

(* The values a Result holds that its destructor would panic about. *)
Pending(r) ==
    IF r.alive /\ ~r.m_handled /\ r.data.m_active # "None"
    THEN {r.data.object[2]} \cap Values
    ELSE {}

(* The value a Result holds, for a call that looks at it. *)
Looked(h) == IF IsEmpty(h) THEN {} ELSE {result[h].data.object[2]} \cap Values

(* The record of a call. *)
ResultCalls(name, h, argument, answer) == resultCall' = <<name, h, argument, answer>>

OkValues == IF resultOkType = "None" THEN {Unit} ELSE Values \ resultMade

(* The default constructor. *)
ResultConstructEmpty(h) ==
    /\ ~Exists(h)
    /\ result' = [result EXCEPT ![h] = Fresh(EmptyData)]
    /\ ResultCalls("put", h, Nothing, Nothing)
    /\ UNCHANGED <<resultTypes, resultStopped, resultMade, resultSettled>>

(* The constructors from a T, an E, an Ok and an Err. *)
ResultConstruct(h, o) ==
    /\ ~Exists(h)
    /\ result' = [result EXCEPT ![h] = Fresh(DataOf(o))]
    /\ resultMade' = resultMade \cup ({o[2]} \cap Values)
    /\ ResultCalls("put", h, o, Nothing)
    /\ UNCHANGED <<resultTypes, resultStopped, resultSettled>>

(* Mutant of ResultCopyConstruct: the source keeps the duty too. *)
ResultCopyConstruct_Both(h, g) ==
    /\ ~Exists(h)
    /\ Exists(g)
    /\ result' = [result EXCEPT ![h] = [Fresh(CopiedResult(result[g].data)) EXCEPT
                                            !.m_handled = result[g].m_handled]]
    /\ ResultCalls("copy", h, g, Nothing)
    /\ UNCHANGED <<resultTypes, resultStopped, resultMade, resultSettled>>

(* The copy constructor hands the duty to be handled on to the copy. *)
ResultCopyConstruct(h, g) ==
    /\ ~Exists(h)
    /\ Exists(g)
    /\ result' = [result EXCEPT
                    ![h] = [Fresh(CopiedResult(result[g].data)) EXCEPT
                                !.m_handled = result[g].m_handled],
                    ![g].m_handled = TRUE]
    /\ ResultCalls("copy", h, g, Nothing)
    /\ UNCHANGED <<resultTypes, resultStopped, resultMade, resultSettled>>

(* The move constructor. *)
ResultMoveConstruct(h, g) ==
    /\ ~Exists(h)
    /\ Exists(g)
    /\ result' = [result EXCEPT
                    ![h] = [Fresh(CopiedResult(result[g].data)) EXCEPT
                                !.m_handled = result[g].m_handled],
                    ![g] = Holding(@, LeftResult(@.data), TRUE)]
    /\ ResultCalls("move", h, g, Nothing)
    /\ UNCHANGED <<resultTypes, resultStopped, resultMade, resultSettled>>

(* The destructor panics on a Result that holds something nobody handled. *)
ResultDestroy(h) ==
    /\ Exists(h)
    /\ IF ~result[h].m_handled /\ ~IsEmpty(h)
       THEN resultStopped' = "panic" /\ UNCHANGED result
       ELSE result' = [result EXCEPT ![h] = Gone] /\ UNCHANGED resultStopped
    /\ ResultCalls("destroy", h, Nothing, Nothing)
    /\ UNCHANGED <<resultTypes, resultMade, resultSettled>>

(* Copy assignment: what the target held is destroyed, handled or not. *)
ResultCopyAssign(h, g) ==
    /\ Exists(h)
    /\ Exists(g)
    /\ IF h = g
       THEN UNCHANGED <<result, resultSettled>>
       ELSE /\ result' = [result EXCEPT
                            ![h] = Holding(@, AssignedResult(@.data, result[g].data), result[g].m_handled),
                            ![g].m_handled = TRUE]
            /\ resultSettled' = resultSettled \cup Pending(result[h])
    /\ ResultCalls("copy", h, g, Nothing)
    /\ UNCHANGED <<resultTypes, resultStopped, resultMade>>

(* Move assignment; assigning a T or an E is one from a temporary Result. *)
ResultMoveAssign(h, g) ==
    /\ Exists(h)
    /\ Exists(g)
    /\ IF h = g
       THEN UNCHANGED <<result, resultSettled>>
       ELSE /\ result' = [result EXCEPT
                            ![h] = Holding(@, AssignedResult(@.data, result[g].data), result[g].m_handled),
                            ![g] = Holding(@, LeftResult(@.data), TRUE)]
            /\ resultSettled' = resultSettled \cup Pending(result[h])
    /\ ResultCalls("move", h, g, Nothing)
    /\ UNCHANGED <<resultTypes, resultStopped, resultMade>>

Data(h) == result[h].data
Object(h) == result[h].data.object

(* What callers may ask a Result for. *)
SideContents(side) == {side} \X (Objects \cup {Unit})
AnySide == SideContents("Ok") \cup SideContents("Err")

(* Every call that looks at a Result marks it handled. *)
Handling(h, data, stopped) ==
    /\ Exists(h)
    /\ result' = [result EXCEPT ![h] = Holding(@, data, TRUE)]
    /\ resultStopped' = stopped
    /\ resultSettled' = resultSettled \cup Looked(h)
    /\ UNCHANGED <<resultTypes, resultMade>>

(* A call that asks for one side and sees it in place, or answers nothing. *)
Seeing(h, name, side, otherwise) ==
    /\ Handling(h, Data(h), IF Has(h, side) THEN "no" ELSE otherwise)
    /\ ResultCalls(name, h, SideContents(side), IF Has(h, side) THEN Object(h) ELSE Nothing)

(* A call that asks for one side and has it moved out, or answers nothing. *)
Extracting(h, name, side, otherwise) ==
    /\ IF Has(h, side)
       THEN Handling(h, ExtractedResult(Data(h)), "no")
       ELSE Handling(h, Data(h), otherwise)
    /\ ResultCalls(name, h, SideContents(side), IF Has(h, side) THEN Object(h) ELSE Nothing)

(* is_ok, is_err and operator bool tell whether the side is there. *)
ResultIsOk(h, side) == Seeing(h, "look", side, "no")

(* as_ref and as_cref: the Ok value in place, or a panic. *)
ResultAsRef(h) == Seeing(h, "demand", "Ok", "panic")

(* unwrap: the Ok value moved out, or a panic. *)
ResultUnwrap(h) == Extracting(h, "unwrap", "Ok", "panic")

(* unwrap_or and unwrap_or_else: unwrap, or the caller's default. *)
ResultUnwrapOr(h) ==
    IF Has(h, "Ok") THEN ResultUnwrap(h) ELSE Extracting(h, "take", "Ok", "no")

(* expect: unwrap, or a panic with the caller's message. *)
ResultExpect(h) ==
    IF Has(h, "Ok") THEN ResultUnwrap(h) ELSE Extracting(h, "unwrap", "Ok", "panic")

(* unwrap_err: the error moved out, or a panic. *)
ResultUnwrapErr(h) == Extracting(h, "unwrap", "Err", "panic")

(* ok() and err() move one side into an Option and ignore the other. *)
ResultToOption(h, side) == Extracting(h, "take", side, "no")

(* A side is read without its tag having been asked for: of a disengaged   *)
(* Result that is the read of a union member that does not exist.          *)
Assumed(h, name, data) ==
    IF IsEmpty(h)
    THEN /\ Handling(h, Data(h), "undefined")
         /\ ResultCalls(name, h, AnySide, Nothing)
    ELSE /\ Handling(h, data, "no")
         /\ ResultCalls(name, h, AnySide, Object(h))

(* map: the function sees the Ok value, or the error is copied on. *)
ResultMap(h) == Assumed(h, "demand", Data(h))

(* map_or and map_or_else: the Ok value, or a default. *)
ResultMapOr(h) == Seeing(h, "look", "Ok", "no")

(* map_err: the function sees the error, or the Ok value is copied on. *)
ResultMapErr(h) == Assumed(h, "demand", Data(h))

(* match: the value or the error is moved out into a function. *)
ResultMatch(h) == Assumed(h, "unwrap", ExtractedResult(Data(h)))

(* and_then: the Ok value is moved out into a function, or the error into  *)
(* the next Result.                                                        *)
ResultAndThen(h) == Assumed(h, "unwrap", ExtractedResult(Data(h)))

(* or_else: the error is moved out into a function, or the Ok value into   *)
(* the next Result.                                                        *)
ResultOrElse(h) == Assumed(h, "unwrap", ExtractedResult(Data(h)))

ResultInit ==
    /\ resultOkType \in OkTypes
    /\ resultReferences \in SUBSET IF resultOkType = "None" THEN {"Err"} ELSE {"Ok", "Err"}
    /\ result = [h \in Holders |-> Gone]
    /\ resultCall = <<"none", Nothing, Nothing, Nothing>>
    /\ resultStopped = "no"
    /\ resultMade = {}
    /\ resultSettled = {}

ResultNext ==
    /\ resultStopped = "no"
    /\ \/ \E h \in Holders :
            \/ ResultConstructEmpty(h)
            \/ \E v \in OkValues : ResultConstruct(h, Ok(v))
            \/ \E v \in Values \ resultMade : ResultConstruct(h, Err(v))
            \/ ResultDestroy(h)
            \/ ResultAsRef(h)
            \/ ResultUnwrap(h)
            \/ ResultUnwrapOr(h)
            \/ ResultExpect(h)
            \/ ResultUnwrapErr(h)
            \/ \E side \in {"Ok", "Err"} : ResultIsOk(h, side) \/ ResultToOption(h, side)
            \/ ResultMap(h)
            \/ ResultMapOr(h)
            \/ ResultMapErr(h)
            \/ ResultMatch(h)
            \/ ResultAndThen(h)
            \/ ResultOrElse(h)
       \/ \E h, g \in Holders :
            \/ ResultCopyConstruct(h, g)
            \/ ResultMoveConstruct(h, g)
            \/ ResultCopyAssign(h, g)
            \/ ResultMoveAssign(h, g)

ResultSpec == ResultInit /\ [][ResultNext]_resultVars

-----------------------------------------------------------------------------
(* The tag names the union member that lives: Ok and Err never change      *)
(* places, an engaged Result has an object, a disengaged one hides no      *)
(* value (at most the husk of a move, ResultData.h:138 and :255), and the  *)
(* only way to read a member that does not live is through a disengaged    *)
(* Result (Result.h:627, :784).                                            *)
ResultTagTruthful ==
    /\ \A h \in Holders :
        LET d == result[h].data
        IN  CASE d.m_active = "None" ->
                    \/ d.object = Vacant
                    \/ d.object[1] \in resultReferences
                    \/ d.object[2] = MovedFrom
              [] OTHER -> d.object # Vacant /\ d.object[1] = d.m_active
    /\ resultStopped = "undefined" => \E h \in Holders : Exists(h) /\ IsEmpty(h)

Carriers(v) == {h \in Holders : v \in Pending(result[h])}

(* No failure is dropped silently: a value that went into a Result and was *)
(* neither looked at nor overwritten by an assignment still has exactly    *)
(* one Result that will panic when it is destroyed, however often it was   *)
(* copied and moved (Result.h:291-:320).                                   *)
ResultEveryValueAccountedFor ==
    \A v \in resultMade \ resultSettled : Cardinality(Carriers(v)) = 1

ResultHeld ==
    [h \in Holders |-> IF IsEmpty(h) THEN Nothing ELSE Object(h)]

ResultContents == AnySide \cup {Nothing}

ResultSlot == INSTANCE Slot WITH
    Contents <- ResultContents,
    Sides <- {SideContents("Ok"), SideContents("Err"), AnySide},
    Uncopyable <- {},
    MustBeHandled <- TRUE,
    keeps <- [c \in ResultContents |-> c],
    left <- [c \in ResultContents |-> IF c = Nothing THEN c ELSE HollowedSide(c)],
    held <- ResultHeld,
    call <- resultCall,
    ended <- (resultStopped # "no")

(* To its callers a Result of a T that is not None is a slot for an Ok or  *)
(* an Err: a copy shows what its source shows and leaves it alone, a move  *)
(* leaves its source disengaged (Result.h:319, :962), a call hands over    *)
(* what the Result it was made on holds, on the side it asked for, or      *)
(* nothing, and the program ends exactly when a call demands a side that   *)
(* is not there or a Result nobody handled is destroyed.                   *)
ResultImplementsSlot == ResultSlot!Spec

(* "Moving a `Result` consumes it, leaving a disengaged (valueless)        *)
(* `Result` in its place" (Result.h:319, :962): whoever was moved from is  *)
(* disengaged.  It is not when T is None: ResultData(None()) is then an Ok *)
(* (ResultData.h:79).                                                      *)
ResultMovedFromIsDisengaged ==
    resultCall[1] = "move" /\ resultCall[2] # resultCall[3] => IsEmpty(resultCall[3])
=============================================================================
