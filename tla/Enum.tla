--------------------------------- MODULE Enum ---------------------------------
(***************************************************************************)
(* Enum<Types...>: a union of the alternatives with the index of the one   *)
(* that lives, EnumSize when none does.  An alternative's constructor or   *)
(* assignment may throw.  enumConverts says which alternatives a value of  *)
(* another alternative can also be turned into: the operations look for    *)
(* the first alternative that accepts their argument.  enumBuilds says     *)
(* what an assignment can do with an alternative that does not live:       *)
(* construct it from the value, default construct and then assign it, or   *)
(* neither.                                                                *)
(***************************************************************************)
EXTENDS Lifetimes, Integers

CONSTANT EnumSize   \* the number of alternatives

ASSUME EnumAssumption ==
    EnumSize \in Nat \ {0} /\ {Vacant, Nothing} \cap ((0 .. EnumSize - 1) \X Objects) = {}

VARIABLES
    enumConverts,  \* <<i, j>>: alternative j accepts a value of alternative i
    enumBuilds,    \* enumBuilds[i]: "construct", "default" or "neither"
    enum,          \* enum[h]: alive, m_current_index, the union
    enumCall,      \* history: the last call, its arguments and answer
    enumStopped    \* "no", or why the program stopped

enumTypes == <<enumConverts, enumBuilds>>
enumVars == <<enumConverts, enumBuilds, enum, enumCall, enumStopped>>

Alternatives == 0 .. EnumSize - 1

(* check_constructible and check_assignable, started at index zero. *)
FirstAccepting(i) ==
    CHOOSE j \in Alternatives :
        /\ j = i \/ <<i, j>> \in enumConverts
        /\ \A k \in Alternatives : k = i \/ <<i, k>> \in enumConverts => j <= k

(* A new Enum, in whose union no alternative lives. *)
Valueless == [alive |-> TRUE, m_current_index |-> EnumSize, object |-> Vacant]
NoEnum == [Valueless EXCEPT !.alive = FALSE]

IsValueless(e) == e.m_current_index = EnumSize

(* set_index *)
WithIndex(e, i) == [e EXCEPT !.m_current_index = i]

(* destruct: the object of the index, if there is one. *)
Destructed(e) ==
    IF IsValueless(e) THEN e ELSE WithIndex([e EXCEPT !.object = Vacant], EnumSize)

(* Mutant of Constructed: an exception leaves the index set. *)
Constructed_IndexFirst(e, i, c, threw) ==
    WithIndex(IF threw THEN Destructed(e) ELSE [Destructed(e) EXCEPT !.object = <<i, c>>], i)

(* construct<i>: in the place of what was destructed; an exception leaves  *)
(* the Enum valueless.                                                     *)
Constructed(e, i, c, threw) ==
    IF threw
    THEN WithIndex(Destructed(e), EnumSize)
    ELSE WithIndex([Destructed(e) EXCEPT !.object = <<i, c>>], i)

(* Mutant of Assigned: the object that lives is not assigned to. *)
Assigned_Kept(e, i, c) ==
    IF e.m_current_index # i THEN Constructed(e, i, c, FALSE) ELSE e

(* assign<i>: to the object that lives or, after destructing another, to a *)
(* new one, constructed from the value or default constructed and assigned. *)
Assigned(e, i, c) ==
    IF e.m_current_index # i THEN Constructed(e, i, c, FALSE) ELSE [e EXCEPT !.object = <<i, c>>]

(* An alternative that does not live and cannot be constructed is assigned *)
(* to all the same.                                                        *)
AssignsDeadStorage(e, i) == e.m_current_index # i /\ enumBuilds[i] = "neither"

(* What an exception out of assign<i> can leave.  The index says that      *)
(* there is nothing; but an object that lived, or was default constructed  *)
(* before the assignment threw, stays where it is.                         *)
AssignThrew(e, i) ==
    {WithIndex(f, EnumSize) :
        f \in CASE e.m_current_index = i -> {e}
                [] e.m_current_index # i /\ enumBuilds[i] = "default" ->
                    {Destructed(e), [Destructed(e) EXCEPT !.object = <<i, MovedFrom>>]}
                [] OTHER -> {Destructed(e)}}

(* get_impl<N>() of an rvalue that is then moved from. *)
MovedOutEnum(e) == [e EXCEPT !.object = <<@[1], MovedFrom>>]

EnumLives(h) == enum[h].alive

(* What a call on h finds, and the record of a call. *)
Present(h) == IF IsValueless(enum[h]) THEN Nothing ELSE enum[h].object
EnumCalls(name, h, argument, answer) == enumCall' = <<name, h, argument, answer>>

(* Contents are put into h, or an exception keeps them out. *)
EnumPuts(name, h, o, threw) ==
    IF threw THEN EnumCalls("fail", h, Nothing, Nothing) ELSE EnumCalls(name, h, o, Nothing)

(* What callers may ask an Enum for. *)
EnumSide(i) == {i} \X Objects
AnyAlternative == Alternatives \X Objects

(* A constructor that throws constructs nothing. *)
NewEnum(i, c, threw) == IF threw THEN NoEnum ELSE Constructed(Valueless, i, c, FALSE)

(* The default constructor: the first alternative. *)
EnumDefaultConstruct(h, v, threw) ==
    /\ ~EnumLives(h)
    /\ enum' = [enum EXCEPT ![h] = NewEnum(0, v, threw)]
    /\ EnumPuts("put", h, <<0, v>>, threw)
    /\ UNCHANGED <<enumTypes, enumStopped>>

(* The constructor from a value: the first alternative that accepts it. *)
EnumConstruct(h, i, v, threw) ==
    /\ ~EnumLives(h)
    /\ enumBuilds[FirstAccepting(i)] = "construct"
    /\ enum' = [enum EXCEPT ![h] = NewEnum(FirstAccepting(i), v, threw)]
    /\ EnumPuts("convert", h, <<i, v>>, threw)
    /\ UNCHANGED <<enumTypes, enumStopped>>

(* The constructor from an enum_tag. *)
EnumConstructTagged(h, i, v, threw) ==
    /\ ~EnumLives(h)
    /\ enum' = [enum EXCEPT ![h] = NewEnum(i, v, threw)]
    /\ EnumPuts("put", h, <<i, v>>, threw)
    /\ UNCHANGED <<enumTypes, enumStopped>>

(* call_with_index(EnumSize): an assertion in debug builds, else undefined. *)
IndexOutOfRange ==
    /\ enumStopped' \in {"assertion", "undefined"}
    /\ UNCHANGED <<enumTypes, enum>>

(* The program ends in a call on h that fills it: an exception leaves a    *)
(* function object declared noexcept, or dead storage is assigned to.      *)
Fails(h, why) ==
    /\ enumStopped' = why
    /\ EnumCalls("fail", h, Nothing, Nothing)
    /\ UNCHANGED <<enumTypes, enum>>

(* Only Enums of alternatives that can be constructed from each other's    *)
(* kind have copy and move constructors and move assignment.               *)
Constructible == \A i \in Alternatives : enumBuilds[i] = "construct"

(* The copy constructor: not the source's alternative, but the first that  *)
(* accepts its value.                                                      *)
EnumCopyConstruct(h, g, threw) ==
    /\ ~EnumLives(h)
    /\ EnumLives(g)
    /\ Constructible
    /\ IF threw /\ ~IsValueless(enum[g])
       THEN Fails(h, "terminate")
       ELSE /\ enum' = [enum EXCEPT ![h] =
                    IF IsValueless(enum[g])
                    THEN Valueless
                    ELSE NewEnum(FirstAccepting(enum[g].m_current_index),
                                 enum[g].object[2], FALSE)]
            /\ EnumCalls("copy", h, g, Nothing)
            /\ UNCHANGED <<enumTypes, enumStopped>>

(* The move constructor leaves the source its index and a moved-from object. *)
EnumMoveConstruct(h, g, threw) ==
    /\ ~EnumLives(h)
    /\ EnumLives(g)
    /\ Constructible
    /\ IF threw /\ ~IsValueless(enum[g])
       THEN Fails(h, "terminate")
       ELSE /\ enum' =
                IF IsValueless(enum[g])
                THEN [enum EXCEPT ![h] = Valueless]
                ELSE [enum EXCEPT
                        ![h] = NewEnum(FirstAccepting(enum[g].m_current_index),
                                       enum[g].object[2], FALSE),
                        ![g] = MovedOutEnum(@)]
            /\ EnumCalls("drain", h, g, Nothing)
            /\ UNCHANGED <<enumTypes, enumStopped>>

(* The destructor. *)
EnumDestroy(h) ==
    /\ EnumLives(h)
    /\ enum' = [enum EXCEPT ![h] = [Destructed(@) EXCEPT !.alive = FALSE,
                                                         !.object = Vacant]]
    /\ EnumCalls("destroy", h, Nothing, Nothing)
    /\ UNCHANGED <<enumTypes, enumStopped>>

(* Copy assignment: to the first alternative that accepts the value. *)
EnumCopyAssign(h, g, threw) ==
    /\ EnumLives(h)
    /\ EnumLives(g)
    /\ LET i == FirstAccepting(enum[g].m_current_index)
       IN  \/ /\ h = g
              /\ EnumCalls("copy", h, g, Nothing)
              /\ UNCHANGED <<enumTypes, enum, enumStopped>>
           \/ /\ h # g /\ IsValueless(enum[g])
              /\ IndexOutOfRange
              /\ EnumCalls("copy", h, g, Nothing)
           \/ /\ h # g /\ ~IsValueless(enum[g])
              /\ CASE AssignsDeadStorage(enum[h], i) -> Fails(h, "dead storage")
                   [] ~AssignsDeadStorage(enum[h], i) /\ threw -> Fails(h, "terminate")
                   [] OTHER ->
                        /\ enum' = [enum EXCEPT ![h] = Assigned(@, i, enum[g].object[2])]
                        /\ EnumCalls("copy", h, g, Nothing)
                        /\ UNCHANGED <<enumTypes, enumStopped>>

(* Move assignment: the source is moved into a temporary Enum, whose       *)
(* alternative of the source's index is then copied from: a panic, if the  *)
(* temporary became another alternative.                                   *)
EnumMoveAssign(h, g, threw) ==
    /\ EnumLives(h)
    /\ EnumLives(g)
    /\ Constructible
    /\ LET i == enum[g].m_current_index
       IN  \/ /\ h = g
              /\ EnumCalls("drain", h, g, Nothing)
              /\ UNCHANGED <<enumTypes, enum, enumStopped>>
           \/ /\ h # g /\ IsValueless(enum[g])
              /\ IndexOutOfRange
              /\ EnumCalls("drain", h, g, Nothing)
           \/ /\ h # g /\ ~IsValueless(enum[g])
              /\ CASE threw -> Fails(h, "terminate")
                   [] ~threw /\ FirstAccepting(i) # i ->
                        /\ enumStopped' = "panic"
                        /\ EnumCalls("drain", h, g, Nothing)
                        /\ UNCHANGED <<enumTypes, enum>>
                   [] OTHER ->
                        /\ enum' = [enum EXCEPT ![h] = Assigned(@, i, enum[g].object[2]),
                                                ![g] = MovedOutEnum(@)]
                        /\ EnumCalls("drain", h, g, Nothing)
                        /\ UNCHANGED <<enumTypes, enumStopped>>

(* Assignment of a value: to the first alternative that accepts it. *)
EnumAssign(h, i, v, threw) ==
    /\ EnumLives(h)
    /\ IF AssignsDeadStorage(enum[h], FirstAccepting(i))
       THEN Fails(h, "dead storage")
       ELSE /\ IF threw
               THEN \E e \in AssignThrew(enum[h], FirstAccepting(i)) : enum' = [enum EXCEPT ![h] = e]
               ELSE enum' = [enum EXCEPT ![h] = Assigned(@, FirstAccepting(i), v)]
            /\ EnumPuts("convert", h, <<i, v>>, threw)
            /\ UNCHANGED <<enumTypes, enumStopped>>

(* emplace: destruct, then construct. *)
EnumEmplace(h, i, v, threw) ==
    /\ EnumLives(h)
    /\ enum' = [enum EXCEPT ![h] = Constructed(Destructed(@), i, v, threw)]
    /\ EnumPuts("put", h, <<i, v>>, threw)
    /\ UNCHANGED <<enumTypes, enumStopped>>

(* match: the function is called with the alternative that lives. *)
EnumMatch(h) ==
    /\ EnumLives(h)
    /\ EnumCalls("demand", h, AnyAlternative, Present(h))
    /\ IF IsValueless(enum[h])
       THEN IndexOutOfRange
       ELSE UNCHANGED <<enumTypes, enum, enumStopped>>

(* What the callers of get, get_if and std::get are given. *)
Asked(h, i) == IF enum[h].m_current_index = i THEN enum[h].object ELSE Nothing

(* get: alternative i in place, or a panic. *)
EnumGet(h, i) ==
    /\ EnumLives(h)
    /\ EnumCalls("demand", h, EnumSide(i), Asked(h, i))
    /\ enumStopped' = IF enum[h].m_current_index = i THEN "no" ELSE "panic"
    /\ UNCHANGED <<enumTypes, enum>>

(* get_if, and the branches of enum_inspect: alternative i, or not. *)
EnumGetIf(h, i) ==
    /\ EnumLives(h)
    /\ EnumCalls("look", h, EnumSide(i), Asked(h, i))
    /\ UNCHANGED <<enumTypes, enum, enumStopped>>

(* std::get of an rvalue, moved from by its caller; a wrong i throws. *)
EnumTake(h, i) ==
    /\ EnumLives(h)
    /\ EnumCalls("take", h, EnumSide(i), Asked(h, i))
    /\ enum' = IF enum[h].m_current_index = i
               THEN [enum EXCEPT ![h] = MovedOutEnum(@)]
               ELSE enum
    /\ UNCHANGED <<enumTypes, enumStopped>>

(* Which of the later alternatives' values an earlier one accepts: the     *)
(* other way round the search never gets there.                            *)
EnumInit ==
    /\ enumConverts \in SUBSET {p \in Alternatives \X Alternatives : p[2] < p[1]}
    /\ enumBuilds \in [Alternatives -> {"construct", "default", "neither"}]
    /\ enum = [h \in Holders |-> NoEnum]
    /\ enumCall = <<"none", Nothing, Nothing, Nothing>>
    /\ enumStopped = "no"

EnumNext ==
    /\ enumStopped = "no"
    /\ \/ \E h \in Holders : EnumDestroy(h) \/ EnumMatch(h)
       \/ \E h \in Holders, v \in Values, threw \in BOOLEAN :
            \/ EnumDefaultConstruct(h, v, threw)
            \/ \E i \in Alternatives :
                \/ EnumConstruct(h, i, v, threw)
                \/ EnumConstructTagged(h, i, v, threw)
                \/ EnumAssign(h, i, v, threw)
                \/ EnumEmplace(h, i, v, threw)
       \/ \E h \in Holders, i \in Alternatives :
            \/ EnumGet(h, i)
            \/ EnumGetIf(h, i)
            \/ EnumTake(h, i)
       \/ \E h, g \in Holders, threw \in BOOLEAN :
            \/ EnumCopyConstruct(h, g, threw)
            \/ EnumMoveConstruct(h, g, threw)
            \/ EnumCopyAssign(h, g, threw)
            \/ EnumMoveAssign(h, g, threw)

EnumSpec == EnumInit /\ [][EnumNext]_enumVars

-----------------------------------------------------------------------------
(* An index below EnumSize names the alternative that lives, whatever was  *)
(* moved, converted or default constructed and whatever threw, and only a  *)
(* valueless Enum makes a call reach past the last alternative             *)
(* (Enum.h:1402, :1480, :1536).  It says nothing of a valueless Enum:      *)
(* there an assignment that threw (:1567) may have left an object nobody   *)
(* will destroy.  And an assignment into dead storage (:1567, enumBuilds   *)
(* "neither") ends the behaviour, since nothing can be said after it.      *)
EnumIndexTruthful ==
    /\ \A h \in Holders :
        ~IsValueless(enum[h]) =>
            enum[h].alive /\ enum[h].object \in EnumSide(enum[h].m_current_index)
    /\ enumStopped \in {"assertion", "undefined"} =>
        \E h \in Holders : EnumLives(h) /\ IsValueless(enum[h])

EnumHeld == [h \in Holders |-> Present(h)]

EnumContents == AnyAlternative \cup {Nothing}

(* What an Enum makes of contents, and what stays of contents moved out. *)
EnumKeeps ==
    [c \in EnumContents |-> IF c = Nothing THEN c ELSE <<FirstAccepting(c[1]), c[2]>>]
EnumLeft == [c \in EnumContents |-> IF c = Nothing THEN c ELSE <<c[1], MovedFrom>>]

EnumSlot == INSTANCE Slot WITH
    Contents <- EnumContents,
    Sides <- {EnumSide(i) : i \in Alternatives} \cup {AnyAlternative},
    Uncopyable <- {Nothing},
    MustBeHandled <- FALSE,
    keeps <- EnumKeeps,
    left <- EnumLeft,
    held <- EnumHeld,
    call <- enumCall,
    ended <- (enumStopped # "no")

(* To its callers an Enum is a slot: it hands out the alternative it was   *)
(* asked for, as it was put in last, or nothing; a copy shows the value of *)
(* its source, as the first alternative that accepts it (the source's own, *)
(* unless alternatives convert, Enum.h:409), and leaves the source alone;  *)
(* a move leaves a husk, and panics only where alternatives convert; what  *)
(* throws leaves the Enum it was meant for empty or ends the program; and  *)
(* no operation touches an Enum it does not name.                          *)
EnumImplementsSlot == EnumSlot!Spec
=============================================================================
