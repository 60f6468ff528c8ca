-------------------------------- MODULE Option --------------------------------
(***************************************************************************)
(* Option<T> and its storage OptionData<T>: a union of a T and None with   *)
(* the flag m_is_some, for a T that is an object type and for a T that is  *)
(* a reference (then the union stores a reference_wrapper, which is        *)
(* trivially copied and never destroyed).  A program calls the operations  *)
(* of several Options in any order; a panic ends it.                       *)
(***************************************************************************)
EXTENDS Lifetimes

VARIABLES
    optionIsReference,  \* which specialisation of OptionData this is
    option,             \* option[h]: is it alive, its flag, its storage
    optionCall,         \* history: the last call, its arguments and answer
    optionPanicked      \* a call has ended the program

optionVars == <<optionIsReference, option, optionCall, optionPanicked>>

(* An object whose destructor runs is gone; a reference_wrapper just stays. *)
Ended(c) == IF optionIsReference THEN c ELSE Vacant

(* What std::move leaves of an object; a reference_wrapper is copied. *)
Hollowed(c) == IF optionIsReference THEN c ELSE MovedFrom

NoneData == [alive |-> TRUE, m_is_some |-> FALSE, m_some |-> Vacant]
SomeData(c) == [alive |-> TRUE, m_is_some |-> TRUE, m_some |-> c]
DeadData == [NoneData EXCEPT !.alive = FALSE]

(* operator=(T): assign to the object that lives, or construct one. *)
AssignedSome(d, c) ==
    IF d.m_is_some THEN [d EXCEPT !.m_some = c] ELSE SomeData(c)

(* Mutant of AssignedNone: the object is not destroyed. *)
AssignedNone_Kept(d) == [d EXCEPT !.m_is_some = FALSE]

(* operator=(None): destroy the object that lives. *)
AssignedNone(d) ==
    IF d.m_is_some
    THEN [d EXCEPT !.m_is_some = FALSE, !.m_some = Ended(@)]
    ELSE d

(* operator=(const OptionData&). *)
AssignedData(d, e) ==
    IF e.m_is_some THEN AssignedSome(d, e.m_some) ELSE AssignedNone(d)

(* A copy constructor constructs an object only from an object. *)
CopiedData(e) == IF e.m_is_some THEN SomeData(e.m_some) ELSE NoneData

(* A move clears the flag of its source; the object moved from stays in    *)
(* the storage and is not destroyed.                                       *)
MovedOutData(e) ==
    IF e.m_is_some
    THEN [e EXCEPT !.m_is_some = FALSE, !.m_some = Hollowed(@)]
    ELSE e

(* extract(): the value leaves, the flag stays. *)
ExtractedData(e) == [e EXCEPT !.m_some = Hollowed(@)]

(* has_value() and the observers built on it. *)
IsSome(h) == option[h].m_is_some
Alive(h) == option[h].alive

(* What a call on h finds, and the record of a call. *)
Contained(h) == IF IsSome(h) THEN option[h].m_some ELSE Nothing
OptionCalls(name, h, argument, answer) == optionCall' = <<name, h, argument, answer>>

(* The default constructor and the constructor from None. *)
OptionConstructNone(h) ==
    /\ ~Alive(h)
    /\ option' = [option EXCEPT ![h] = NoneData]
    /\ OptionCalls("put", h, Nothing, Nothing)
    /\ UNCHANGED <<optionIsReference, optionPanicked>>

(* The constructors from a T, in place or not, and Some(). *)
OptionConstruct(h, v) ==
    /\ ~Alive(h)
    /\ option' = [option EXCEPT ![h] = SomeData(v)]
    /\ OptionCalls("put", h, v, Nothing)
    /\ UNCHANGED <<optionIsReference, optionPanicked>>

(* The copy constructor. *)
OptionCopyConstruct(h, g) ==
    /\ ~Alive(h)
    /\ Alive(g)
    /\ option' = [option EXCEPT ![h] = CopiedData(option[g])]
    /\ OptionCalls("copy", h, g, Nothing)
    /\ UNCHANGED <<optionIsReference, optionPanicked>>

(* The move constructor: OptionData's, and then None is assigned to the source. *)
OptionMoveConstruct(h, g) ==
    /\ ~Alive(h)
    /\ Alive(g)
    /\ option' = [option EXCEPT ![h] = CopiedData(option[g]),
                                ![g] = AssignedNone(MovedOutData(@))]
    /\ OptionCalls("move", h, g, Nothing)
    /\ UNCHANGED <<optionIsReference, optionPanicked>>

(* The constructor from an Option<U>: the value is assigned to a None, and *)
(* unwrap() leaves the source engaged.                                     *)
OptionConvertingMove(h, g) ==
    /\ ~Alive(h)
    /\ Alive(g)
    /\ ~optionIsReference
    /\ option' = IF IsSome(g)
                 THEN [option EXCEPT ![h] = AssignedSome(NoneData, option[g].m_some),
                                     ![g] = ExtractedData(@)]
                 ELSE [option EXCEPT ![h] = NoneData]
    /\ OptionCalls("drain", h, g, Nothing)
    /\ UNCHANGED <<optionIsReference, optionPanicked>>

(* The destructor. *)
OptionDestroy(h) ==
    /\ Alive(h)
    /\ option' = [option EXCEPT ![h] = DeadData]
    /\ OptionCalls("destroy", h, Nothing, Nothing)
    /\ UNCHANGED <<optionIsReference, optionPanicked>>

(* The copy assignments; assigning an Option to itself changes nothing. *)
OptionCopyAssign(h, g) ==
    /\ Alive(h)
    /\ Alive(g)
    /\ option' = IF h = g
                 THEN option
                 ELSE [option EXCEPT ![h] = AssignedData(@, option[g])]
    /\ OptionCalls("copy", h, g, Nothing)
    /\ UNCHANGED <<optionIsReference, optionPanicked>>

(* The move assignment: the source's flag is cleared before its object is  *)
(* read, and None is assigned to the source.                               *)
OptionMoveAssign(h, g) ==
    /\ Alive(h)
    /\ Alive(g)
    /\ option' = IF h = g
                 THEN option
                 ELSE [option EXCEPT ![h] = AssignedData(@, option[g]),
                                     ![g] = AssignedNone(MovedOutData(@))]
    /\ OptionCalls("move", h, g, Nothing)
    /\ UNCHANGED <<optionIsReference, optionPanicked>>

(* The assignments from a T. *)
OptionAssign(h, v) ==
    /\ Alive(h)
    /\ option' = [option EXCEPT ![h] = AssignedSome(@, v)]
    /\ OptionCalls("put", h, v, Nothing)
    /\ UNCHANGED <<optionIsReference, optionPanicked>>

(* The assignments from None. *)
OptionAssignNone(h) ==
    /\ Alive(h)
    /\ option' = [option EXCEPT ![h] = AssignedNone(@)]
    /\ OptionCalls("put", h, Nothing, Nothing)
    /\ UNCHANGED <<optionIsReference, optionPanicked>>

(* Mutant of OptionMap: the flag is not asked. *)
OptionMap_Unchecked(h) ==
    /\ Alive(h)
    /\ OptionCalls("look", h, Objects, option[h].m_some)
    /\ UNCHANGED <<optionIsReference, option, optionPanicked>>

(* map, map_or and map_or_else call their function with the contained      *)
(* value or fall back on a default.                                        *)
OptionMap(h) ==
    /\ Alive(h)
    /\ OptionCalls("look", h, Objects, Contained(h))
    /\ UNCHANGED <<optionIsReference, option, optionPanicked>>

(* What moves the value out, if there is one. *)
Extraction(h) ==
    option' = IF IsSome(h) THEN [option EXCEPT ![h] = ExtractedData(@)] ELSE option

(* match and and_then move the value out into the function they call. *)
OptionMatch(h) ==
    /\ Alive(h)
    /\ Extraction(h)
    /\ OptionCalls("take", h, Objects, Contained(h))
    /\ UNCHANGED <<optionIsReference, optionPanicked>>

(* or_else(const Option&) hands out a reference to this or to the other. *)
OptionOrElseReference(h, g) ==
    /\ Alive(h)
    /\ Alive(g)
    /\ OptionCalls("look either", h, g, Contained(IF IsSome(h) THEN h ELSE g))
    /\ UNCHANGED <<optionIsReference, option, optionPanicked>>

(* or_else(Option&&) and or_else(F) construct the returned Option from     *)
(* this or from the other, by a move.                                      *)
OptionOrElse(h, g) ==
    /\ Alive(h)
    /\ Alive(g)
    /\ LET from == IF IsSome(h) THEN h ELSE g
       IN  /\ OptionCalls("take either", h, g, Contained(from))
           /\ option' = [option EXCEPT ![from] = AssignedNone(MovedOutData(@))]
    /\ UNCHANGED <<optionIsReference, optionPanicked>>

(* ok_or and ok_or_else move the value into an Ok, or answer an Err. *)
OptionOkOr(h) ==
    /\ Alive(h)
    /\ Extraction(h)
    /\ OptionCalls("take", h, Objects, Contained(h))
    /\ UNCHANGED <<optionIsReference, optionPanicked>>

(* unwrap: a panic, or the value moved out. *)
OptionUnwrap(h) ==
    /\ Alive(h)
    /\ optionPanicked' = ~IsSome(h)
    /\ Extraction(h)
    /\ OptionCalls("unwrap", h, Objects, Contained(h))
    /\ UNCHANGED optionIsReference

(* unwrap_or and unwrap_or_else: the caller's default, or unwrap. *)
OptionUnwrapOr(h) ==
    /\ Alive(h)
    /\ IF IsSome(h)
       THEN OptionUnwrap(h)
       ELSE /\ OptionCalls("take", h, Objects, Nothing)
            /\ UNCHANGED <<optionIsReference, option, optionPanicked>>

(* expect: a panic with the caller's message, or unwrap. *)
OptionExpect(h) ==
    /\ Alive(h)
    /\ IF IsSome(h)
       THEN OptionUnwrap(h)
       ELSE /\ optionPanicked' = TRUE
            /\ OptionCalls("unwrap", h, Objects, Nothing)
            /\ UNCHANGED <<optionIsReference, option>>

(* as_ref and as_cref: a panic, or the value in place. *)
OptionAsRef(h) ==
    /\ Alive(h)
    /\ optionPanicked' = ~IsSome(h)
    /\ OptionCalls("demand", h, Objects, Contained(h))
    /\ UNCHANGED <<optionIsReference, option>>

(* The comparisons with a T: what the answer true to == tells the caller. *)
OptionCompare(h, v) ==
    /\ Alive(h)
    /\ OptionCalls("look", h, {v},
                   IF IsSome(h) /\ option[h].m_some = v THEN v ELSE Nothing)
    /\ UNCHANGED <<optionIsReference, option, optionPanicked>>

OptionInit ==
    /\ optionIsReference \in BOOLEAN
    /\ option = [h \in Holders |-> DeadData]
    /\ optionCall = <<"none", Nothing, Nothing, Nothing>>
    /\ optionPanicked = FALSE

OptionNext ==
    /\ ~optionPanicked
    /\ \/ \E h \in Holders :
            \/ OptionConstructNone(h)
            \/ OptionDestroy(h)
            \/ OptionAssignNone(h)
            \/ OptionMap(h)
            \/ OptionMatch(h)
            \/ OptionOkOr(h)
            \/ OptionUnwrap(h)
            \/ OptionUnwrapOr(h)
            \/ OptionExpect(h)
            \/ OptionAsRef(h)
       \/ \E h \in Holders, v \in Values :
            \/ OptionConstruct(h, v)
            \/ OptionAssign(h, v)
            \/ OptionCompare(h, v)
       \/ \E h, g \in Holders :
            \/ OptionCopyConstruct(h, g)
            \/ OptionMoveConstruct(h, g)
            \/ OptionConvertingMove(h, g)
            \/ OptionCopyAssign(h, g)
            \/ OptionMoveAssign(h, g)
            \/ OptionOrElseReference(h, g)
            \/ OptionOrElse(h, g)

OptionSpec == OptionInit /\ [][OptionNext]_optionVars

-----------------------------------------------------------------------------
(* The flag and the storage agree: an engaged Option has an object in its  *)
(* storage, and a disengaged one hides no value - what its storage may     *)
(* still hold undestroyed is the husk a move left (OptionData.h:98, :226). *)
(* A value hidden there would never be destroyed, and an engaged Option    *)
(* without an object would be read and destroyed as one.                   *)
OptionHidesNothing ==
    \A h \in Holders :
        IF option[h].m_is_some
        THEN option[h].alive /\ option[h].m_some \in Objects
        ELSE optionIsReference \/ option[h].m_some \in {Vacant, MovedFrom}

OptionHeld == [h \in Holders |-> Contained(h)]

OptionContents == Objects \cup {Nothing}

OptionSlot == INSTANCE Slot WITH
    Contents <- OptionContents,
    Sides <- {Objects} \cup {{v} : v \in Values},
    Uncopyable <- {},
    MustBeHandled <- FALSE,
    keeps <- [c \in OptionContents |-> c],
    left <- [c \in OptionContents |-> IF c = Nothing THEN c ELSE Hollowed(c)],
    held <- OptionHeld,
    call <- optionCall,
    ended <- optionPanicked

(* Whatever the flags and lifetimes do, every call does what it says, to   *)
(* the Options it names and to no other: a copy shows what its source      *)
(* shows and leaves it alone, a move empties it, a reading call hands over *)
(* the very value last put or moved into the Option it was made on - never *)
(* the contents of another Option, a value that was replaced, or storage   *)
(* without an object - and a call panics exactly when there is none.       *)
OptionImplementsSlot == OptionSlot!Spec
=============================================================================
