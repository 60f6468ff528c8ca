------------------------------ MODULE EnumProofs ------------------------------
(***************************************************************************)
(* The theorems about Enum, for any number of alternatives, any sets of    *)
(* holders and values and any conversions between the alternatives, and    *)
(* about the errors that are passed through AnyErrors.                     *)
(***************************************************************************)
EXTENDS Enum, AnyError, WellFoundedInduction, TLAPS

Unions == (Alternatives \X Objects) \cup {Vacant}
EnumRecords == [alive : BOOLEAN, m_current_index : 0 .. EnumSize, object : Unions]

(* What one Enum's storage may be: the index names what lives. *)
EnumDatas ==
    {e \in EnumRecords :
        ~IsValueless(e) => e.alive /\ e.object \in {e.m_current_index} \X Objects}

(* A call reached past the last alternative of a valueless Enum. *)
EnumStopExplained ==
    enumStopped \in {"assertion", "undefined"} =>
        \E h \in Holders : EnumLives(h) /\ IsValueless(enum[h])

EnumInv == enum \in [Holders -> EnumDatas] /\ EnumStopExplained

-----------------------------------------------------------------------------
(* A set of natural numbers that is not empty has a least element. *)
LEMMA LeastNatural ==
    ASSUME NEW T \in SUBSET Nat, T # {}
    PROVE  \E n \in T : \A m \in T : n <= m
<1> DEFINE R == OpToRel(<, Nat)
<1>1. \A x, y \in Nat : <<x, y>> \in R <=> x < y
  BY DEF OpToRel
<1>2. IsWellFoundedOn(R, Nat)
  BY NatLessThanWellFounded
<1> HIDE DEF R
<1>3. PICK x \in T : \A y \in T : ~(<<y, x>> \in R)
  BY <1>2, WFMin
<1>4. \A y \in T : ~(y < x) /\ y \in Nat /\ x \in Nat
  BY <1>1, <1>3
<1>5. \A y \in T : x <= y
  BY <1>4
<1> QED BY <1>5

(* The search for an alternative ends at one that accepts the value. *)
LEMMA FirstAcceptingFound ==
    ASSUME NEW i \in Alternatives
    PROVE  FirstAccepting(i) \in Alternatives
<1> DEFINE T == {j \in Alternatives : j = i \/ <<i, j>> \in enumConverts}
<1>1. T \in SUBSET Nat /\ i \in T
  BY EnumAssumption DEF Alternatives
<1> HIDE DEF T
<1>2. PICK j \in T : \A k \in T : j <= k
  BY <1>1, LeastNatural
<1>3. \E x \in Alternatives :
        /\ x = i \/ <<i, x>> \in enumConverts
        /\ \A k \in Alternatives : k = i \/ <<i, k>> \in enumConverts => x <= k
  BY <1>2 DEF T
<1> QED BY <1>3 DEF FirstAccepting

-----------------------------------------------------------------------------
(* What a construction or an assignment leaves: alternative i with c in    *)
(* it, or, after an exception, no alternative.                             *)
Made(e, i, c, threw) ==
    /\ e \in EnumDatas
    /\ IF threw THEN e.m_current_index = EnumSize
                ELSE e.m_current_index = i /\ e.object = <<i, c>>

(* The changes of one member of an Enum. *)
LEMMA RecordSteps ==
    ASSUME NEW e \in EnumRecords
    PROVE  /\ \A i \in 0 .. EnumSize :
                /\ WithIndex(e, i) \in EnumRecords /\ WithIndex(e, i).m_current_index = i
                /\ WithIndex(e, i).alive = e.alive /\ WithIndex(e, i).object = e.object
           /\ \A o \in Unions :
                LET r == [e EXCEPT !.object = o]
                IN  /\ r \in EnumRecords /\ r.object = o
                    /\ r.m_current_index = e.m_current_index /\ r.alive = e.alive
<1>1. ASSUME NEW i \in 0 .. EnumSize
      PROVE  /\ WithIndex(e, i) \in EnumRecords /\ WithIndex(e, i).m_current_index = i
             /\ WithIndex(e, i).alive = e.alive /\ WithIndex(e, i).object = e.object
  BY DEF WithIndex, EnumRecords
<1>2. ASSUME NEW o \in Unions
      PROVE LET r == [e EXCEPT !.object = o]
                IN  /\ r \in EnumRecords /\ r.object = o
                    /\ r.m_current_index = e.m_current_index /\ r.alive = e.alive
  BY DEF EnumRecords
<1> QED BY <1>1, <1>2

LEMMA DestructedData ==
    ASSUME NEW e \in EnumDatas
    PROVE  Destructed(e) \in EnumDatas /\ IsValueless(Destructed(e)) /\ Destructed(e).alive = e.alive
<1>1. CASE IsValueless(e)
  BY <1>1 DEF Destructed
<1>2. CASE ~IsValueless(e)
  <2> DEFINE r == [e EXCEPT !.object = Vacant]
  <2>1. r \in EnumRecords /\ r.alive = e.alive
    BY DEF EnumDatas, EnumRecords, Unions
  <2> HIDE DEF r
  <2>2. /\ WithIndex(r, EnumSize) \in EnumRecords /\ WithIndex(r, EnumSize).m_current_index = EnumSize
        /\ WithIndex(r, EnumSize).alive = e.alive
    BY <2>1, RecordSteps, EnumAssumption
  <2> QED BY <1>2, <2>2 DEF Destructed, r, EnumDatas, IsValueless
<1> QED BY <1>1, <1>2

LEMMA MadeRecord ==
    ASSUME NEW i \in Alternatives, NEW c \in Objects, NEW r \in EnumRecords,
           r.alive, r.m_current_index = i, r.object = <<i, c>>
    PROVE  Made(r, i, c, FALSE)
<1>1. <<i, c>> \in {i} \X Objects
  OBVIOUS
<1> QED BY <1>1 DEF Made, EnumDatas

LEMMA ConstructedData ==
    ASSUME NEW e \in EnumDatas, e.alive, NEW i \in Alternatives, NEW c \in Objects, NEW threw \in BOOLEAN
    PROVE  Made(Constructed(e, i, c, threw), i, c, threw)
<1> DEFINE d == Destructed(e)
<1>1. d \in EnumDatas /\ IsValueless(d) /\ d.alive
  BY DestructedData
<1>2. d \in EnumRecords /\ EnumSize \in 0 .. EnumSize /\ i \in 0 .. EnumSize /\ <<i, c>> \in Unions
  BY <1>1, EnumAssumption DEF EnumDatas, Alternatives, Unions
<1>3. CASE threw
  <2> HIDE DEF d
  <2>1. /\ WithIndex(d, EnumSize) \in EnumRecords
        /\ WithIndex(d, EnumSize).m_current_index = EnumSize
    BY <1>2, RecordSteps
  <2>2. WithIndex(d, EnumSize) \in EnumDatas
    BY <2>1 DEF EnumDatas, IsValueless
  <2> QED BY <1>3, <2>1, <2>2 DEF Constructed, Made, d
<1>4. CASE ~threw
  <2> DEFINE r == [d EXCEPT !.object = <<i, c>>]
  <2> HIDE DEF d
  <2>1. r \in EnumRecords /\ r.alive = d.alive /\ r.object = <<i, c>>
    BY <1>2 DEF EnumRecords
  <2> HIDE DEF r
  <2>2. /\ WithIndex(r, i) \in EnumRecords /\ WithIndex(r, i).m_current_index = i
        /\ WithIndex(r, i).alive /\ WithIndex(r, i).object = <<i, c>>
    BY <1>1, <1>2, <2>1, RecordSteps
  <2>3. Made(WithIndex(r, i), i, c, FALSE)
    BY <2>2, MadeRecord
  <2> QED BY <1>4, <2>3 DEF Constructed, Made, d, r
<1> QED BY <1>3, <1>4

LEMMA AssignedData ==
    ASSUME NEW e \in EnumDatas, e.alive, NEW i \in Alternatives, NEW c \in Objects
    PROVE  Made(Assigned(e, i, c), i, c, FALSE)
<1>0. e \in EnumRecords /\ <<i, c>> \in Unions
  BY DEF EnumDatas, Unions
<1>1. CASE e.m_current_index # i
  BY <1>1, ConstructedData DEF Assigned
<1>2. CASE e.m_current_index = i
  <2> DEFINE r == [e EXCEPT !.object = <<i, c>>]
  <2>1. Assigned(e, i, c) = r
    BY <1>2 DEF Assigned
  <2>2. r \in EnumRecords /\ r.alive = e.alive /\ r.object = <<i, c>> /\ r.m_current_index = i
    BY <1>0, <1>2 DEF EnumRecords
  <2> HIDE DEF r
  <2>3. Made(r, i, c, FALSE)
    BY <2>2, MadeRecord
  <2> QED BY <2>1, <2>3 DEF Made
<1> QED BY <1>1, <1>2

(* Whatever an assignment that threw leaves in the union, the index does   *)
(* not name it.                                                            *)
LEMMA AssignThrewData ==
    ASSUME NEW e \in EnumDatas, NEW i \in Alternatives, NEW d \in AssignThrew(e, i)
    PROVE  d \in EnumDatas /\ IsValueless(d)
<1>0. <<i, MovedFrom>> \in Unions /\ EnumSize \in 0 .. EnumSize
  BY EnumAssumption DEF Unions, Objects
<1>1. Destructed(e) \in EnumRecords /\ e \in EnumRecords
  BY DestructedData DEF EnumDatas
<1>2. [Destructed(e) EXCEPT !.object = <<i, MovedFrom>>] \in EnumRecords
  BY <1>0, <1>1, RecordSteps
<1>3. PICK f \in EnumRecords : d = WithIndex(f, EnumSize)
  BY <1>1, <1>2 DEF AssignThrew
<1>4. d \in EnumRecords /\ d.m_current_index = EnumSize
  BY <1>0, <1>3, RecordSteps
<1> QED BY <1>4 DEF EnumDatas, IsValueless

LEMMA NewData ==
    /\ Valueless \in EnumDatas /\ IsValueless(Valueless) /\ Valueless.alive
    /\ NoEnum \in EnumDatas /\ IsValueless(NoEnum) /\ ~NoEnum.alive
    /\ \A i \in Alternatives, c \in Objects, threw \in BOOLEAN : Made(NewEnum(i, c, threw), i, c, threw)
<1>1. Valueless \in EnumDatas /\ IsValueless(Valueless) /\ Valueless.alive
  BY EnumAssumption DEF Valueless, EnumDatas, EnumRecords, Unions, IsValueless
<1>3. NoEnum \in EnumDatas /\ IsValueless(NoEnum) /\ ~NoEnum.alive
  <2>1. Valueless \in EnumRecords /\ Valueless.m_current_index = EnumSize
    BY <1>1 DEF EnumDatas, IsValueless
  <2>2. NoEnum \in EnumRecords /\ NoEnum.m_current_index = EnumSize /\ NoEnum.alive = FALSE
    BY <2>1 DEF NoEnum, EnumRecords
  <2> QED BY <2>2 DEF EnumDatas, IsValueless
<1>4. ASSUME NEW i \in Alternatives, NEW c \in Objects, NEW threw \in BOOLEAN
      PROVE  Made(NewEnum(i, c, threw), i, c, threw)
  <2>1. CASE threw
    BY <1>3, <2>1 DEF NewEnum, Made, IsValueless
  <2>2. CASE ~threw
    <3>1. Made(Constructed(Valueless, i, c, FALSE), i, c, FALSE)
      BY <1>1, ConstructedData
    <3> QED BY <2>2, <3>1 DEF NewEnum, Made
  <2> QED BY <2>1, <2>2
<1> QED BY <1>1, <1>3, <1>4

LEMMA LivingData ==
    ASSUME NEW e \in EnumDatas, ~IsValueless(e)
    PROVE  /\ e.alive /\ e.m_current_index \in Alternatives
           /\ e.object = <<e.m_current_index, e.object[2]>> /\ e.object[2] \in Objects
           /\ MovedOutEnum(e) \in EnumDatas
           /\ MovedOutEnum(e).m_current_index = e.m_current_index
           /\ MovedOutEnum(e).object = <<e.m_current_index, MovedFrom>>
<1> USE EnumAssumption
<1>1. e.alive /\ e.m_current_index \in Alternatives
  BY DEF EnumDatas, EnumRecords, IsValueless, Alternatives
<1>2. e.object = <<e.m_current_index, e.object[2]>> /\ e.object[2] \in Objects
  BY DEF EnumDatas
<1>3. <<e.object[1], MovedFrom>> \in Unions /\ e \in EnumRecords
  BY <1>1, <1>2 DEF Unions, Objects, EnumDatas
<1>4. /\ MovedOutEnum(e) \in EnumRecords
      /\ MovedOutEnum(e).m_current_index = e.m_current_index /\ MovedOutEnum(e).alive = e.alive
      /\ MovedOutEnum(e).object = <<e.object[1], MovedFrom>>
  BY <1>3 DEF MovedOutEnum, EnumRecords
<1>5. e.object[1] = e.m_current_index /\ <<e.m_current_index, MovedFrom>> \in {e.m_current_index} \X Objects
  BY <1>2 DEF Objects
<1> QED BY <1>1, <1>2, <1>4, <1>5 DEF EnumDatas

-----------------------------------------------------------------------------
(* The operations that put a value into one Enum, or empty it. *)
EnumFills(h) ==
    \/ EnumDestroy(h)
    \/ \E v \in Values, threw \in BOOLEAN :
        \/ EnumDefaultConstruct(h, v, threw)
        \/ \E i \in Alternatives :
            \/ EnumConstruct(h, i, v, threw)
            \/ EnumConstructTagged(h, i, v, threw)
            \/ EnumAssign(h, i, v, threw)
            \/ EnumEmplace(h, i, v, threw)

(* What they leave in the one Enum they name. *)
Filled(h, d) ==
    /\ d \in EnumDatas
    /\ enum' = [enum EXCEPT ![h] = d]
    /\ UNCHANGED <<enumTypes, enumStopped>>
    /\ \/ /\ IsValueless(d)
          /\ \/ enumCall' = <<"fail", h, Nothing, Nothing>>
             \/ enumCall' = <<"destroy", h, Nothing, Nothing>>
       \/ \E i \in Alternatives, v \in Values :
            /\ Made(d, i, v, FALSE)
            /\ enumCall' = <<"put", h, <<i, v>>, Nothing>>
       \/ \E i \in Alternatives, v \in Values :
            /\ Made(d, FirstAccepting(i), v, FALSE)
            /\ enumCall' = <<"convert", h, <<i, v>>, Nothing>>

(* The ways to fill an Enum, by what is made and what the call is. *)
LEMMA MadeIsFilled ==
    ASSUME NEW h \in Holders, NEW i \in Alternatives, NEW v \in Values, NEW threw \in BOOLEAN,
           NEW d, enum' = [enum EXCEPT ![h] = d], UNCHANGED <<enumTypes, enumStopped>>,
           \/ Made(d, i, v, threw) /\ EnumPuts("put", h, <<i, v>>, threw)
           \/ Made(d, FirstAccepting(i), v, threw) /\ EnumPuts("convert", h, <<i, v>>, threw)
    PROVE  Filled(h, d)
<1>1. CASE threw
  <2>1. d \in EnumDatas /\ IsValueless(d)
    BY <1>1 DEF Made, IsValueless
  <2>2. enumCall' = <<"fail", h, Nothing, Nothing>>
    BY <1>1 DEF EnumPuts, EnumCalls
  <2> QED BY <2>1, <2>2 DEF Filled
<1>2. CASE ~threw
  <2>1. d \in EnumDatas
    BY DEF Made
  <2>2. \/ Made(d, i, v, FALSE) /\ enumCall' = <<"put", h, <<i, v>>, Nothing>>
        \/ /\ Made(d, FirstAccepting(i), v, FALSE)
           /\ enumCall' = <<"convert", h, <<i, v>>, Nothing>>
    BY <1>2 DEF EnumPuts, EnumCalls, Made
  <2> QED BY <2>1, <2>2 DEF Filled
<1> QED BY <1>1, <1>2

LEMMA FillSteps ==
    ASSUME EnumInv, NEW h \in Holders, EnumFills(h)
    PROVE  (\E d : Filled(h, d)) \/ Fails(h, "dead storage")
<1>1. enum[h] \in EnumDatas /\ enum \in [Holders -> EnumDatas]
  BY DEF EnumInv
<1>0. 0 \in Alternatives
  BY EnumAssumption DEF Alternatives
<1>2. CASE EnumDestroy(h)
  <2> DEFINE e == Destructed(enum[h])
             d == [e EXCEPT !.alive = FALSE, !.object = Vacant]
  <2>1. e \in EnumRecords /\ e.m_current_index = EnumSize
    BY <1>1, DestructedData DEF EnumDatas, IsValueless
  <2>2. /\ enum' = [enum EXCEPT ![h] = d] /\ UNCHANGED <<enumTypes, enumStopped>>
        /\ enumCall' = <<"destroy", h, Nothing, Nothing>>
    BY <1>2 DEF EnumDestroy, EnumCalls
  <2> HIDE DEF e
  <2>3. d \in EnumRecords /\ d.m_current_index = EnumSize
    BY <2>1 DEF EnumRecords, Unions
  <2> HIDE DEF d
  <2>4. d \in EnumDatas /\ IsValueless(d)
    BY <2>3 DEF EnumDatas, IsValueless
  <2> QED BY <2>2, <2>4 DEF Filled
<1>3. ASSUME NEW v \in Values, NEW threw \in BOOLEAN, NEW i \in Alternatives
      PROVE  /\ Made(NewEnum(i, v, threw), i, v, threw)
             /\ Made(NewEnum(FirstAccepting(i), v, threw), FirstAccepting(i), v, threw)
  <2>1. v \in Objects /\ FirstAccepting(i) \in Alternatives
    BY FirstAcceptingFound DEF Objects
  <2> QED BY <2>1, NewData
<1>4. ASSUME NEW v \in Values, NEW threw \in BOOLEAN, EnumDefaultConstruct(h, v, threw)
      PROVE  \E d : Filled(h, d)
  BY <1>0, <1>3, <1>4, MadeIsFilled DEF EnumDefaultConstruct
<1>5. ASSUME NEW v \in Values, NEW threw \in BOOLEAN, NEW i \in Alternatives,
             EnumConstruct(h, i, v, threw) \/ EnumConstructTagged(h, i, v, threw)
      PROVE  \E d : Filled(h, d)
  BY <1>3, <1>5, MadeIsFilled DEF EnumConstruct, EnumConstructTagged
<1>6. ASSUME NEW v \in Values, NEW threw \in BOOLEAN, NEW i \in Alternatives,
             EnumAssign(h, i, v, threw)
      PROVE  (\E d : Filled(h, d)) \/ Fails(h, "dead storage")
  <2> DEFINE j == FirstAccepting(i)
  <2>1. j \in Alternatives /\ v \in Objects
    BY FirstAcceptingFound DEF Objects
  <2>2. CASE AssignsDeadStorage(enum[h], j)
    BY <1>6, <2>2 DEF EnumAssign
  <2>3. CASE ~AssignsDeadStorage(enum[h], j) /\ threw
    <3>1. PICK d \in AssignThrew(enum[h], j) : enum' = [enum EXCEPT ![h] = d]
      BY <1>6, <2>3 DEF EnumAssign
    <3>2. d \in EnumDatas /\ IsValueless(d)
      BY <1>1, <2>1, AssignThrewData
    <3>3. UNCHANGED <<enumTypes, enumStopped>> /\ enumCall' = <<"fail", h, Nothing, Nothing>>
      BY <1>6, <2>3 DEF EnumAssign, EnumPuts, EnumCalls
    <3>4. Filled(h, d)
      BY <3>1, <3>2, <3>3 DEF Filled
    <3> QED BY <3>4
  <2>4. CASE ~AssignsDeadStorage(enum[h], j) /\ ~threw
    <3> DEFINE d == Assigned(enum[h], j, v)
    <3>1. Made(d, j, v, FALSE)
      BY <1>1, <1>6, <2>1, AssignedData DEF EnumAssign, EnumLives
    <3>2. /\ enum' = [enum EXCEPT ![h] = d] /\ UNCHANGED <<enumTypes, enumStopped>>
          /\ EnumPuts("convert", h, <<i, v>>, FALSE)
      BY <1>6, <2>4 DEF EnumAssign, EnumPuts
    <3> HIDE DEF d
    <3>3. Filled(h, d)
      BY <3>1, <3>2, MadeIsFilled
    <3> QED BY <3>3
  <2> QED BY <2>2, <2>3, <2>4
<1>7. ASSUME NEW v \in Values, NEW threw \in BOOLEAN, NEW i \in Alternatives,
             EnumEmplace(h, i, v, threw)
      PROVE  \E d : Filled(h, d)
  <2>1. Destructed(enum[h]) \in EnumDatas /\ Destructed(enum[h]).alive
    BY <1>1, <1>7, DestructedData DEF EnumEmplace, EnumLives
  <2>2. Made(Constructed(Destructed(enum[h]), i, v, threw), i, v, threw)
    BY <2>1, ConstructedData DEF Objects
  <2> QED BY <1>7, <2>2, MadeIsFilled DEF EnumEmplace
<1> QED BY <1>2, <1>4, <1>5, <1>6, <1>7 DEF EnumFills

-----------------------------------------------------------------------------
(* The operations between two Enums. *)
EnumCopies(h, g) ==
    \E threw \in BOOLEAN : EnumCopyConstruct(h, g, threw) \/ EnumCopyAssign(h, g, threw)
EnumMoves(h, g) ==
    \E threw \in BOOLEAN : EnumMoveConstruct(h, g, threw) \/ EnumMoveAssign(h, g, threw)

(* A copy or a move: the target has the source's value as the first        *)
(* alternative that accepts it, the source keeps it or a husk.             *)
Passed(h, g, d, e) ==
    /\ h # g
    /\ d \in EnumDatas
    /\ e \in EnumDatas
    /\ enum' = [enum EXCEPT ![h] = d, ![g] = e]
    /\ UNCHANGED <<enumTypes, enumStopped>>
    /\ IF IsValueless(enum[g])
       THEN IsValueless(d)
       ELSE Made(d, FirstAccepting(enum[g].m_current_index), enum[g].object[2], FALSE)

(* The program ends in the copy or the move. *)
PassFails(h, g, panics) ==
    /\ h # g
    /\ UNCHANGED <<enumTypes, enum>>
    /\ \/ /\ EnumLives(g) /\ IsValueless(enum[g])
          /\ enumStopped' \in {"assertion", "undefined"}
       \/ /\ panics /\ ~IsValueless(enum[g])
          /\ FirstAccepting(enum[g].m_current_index) # enum[g].m_current_index
          /\ enumStopped' = "panic"

(* An Enum is assigned to itself. *)
PassedToItself(h, g) == h = g /\ UNCHANGED <<enumTypes, enum, enumStopped>>

(* The value an Enum has to give. *)
LEMMA SourceValue ==
    ASSUME EnumInv, NEW g \in Holders, ~IsValueless(enum[g])
    PROVE  /\ enum[g].m_current_index \in Alternatives /\ enum[g].object[2] \in Objects
           /\ FirstAccepting(enum[g].m_current_index) \in Alternatives
<1>1. enum[g] \in EnumDatas
  BY DEF EnumInv
<1> QED BY <1>1, LivingData, FirstAcceptingFound

LEMMA CopyOutcomes ==
    ASSUME EnumInv, NEW h \in Holders, NEW g \in Holders, EnumCopies(h, g)
    PROVE  \/ Fails(h, "terminate") \/ Fails(h, "dead storage")
           \/ /\ enumCall' = <<"copy", h, g, Nothing>>
              /\ \/ PassedToItself(h, g) \/ PassFails(h, g, FALSE)
                 \/ \E d : Passed(h, g, d, enum[g])
<1>1. /\ enum[h] \in EnumDatas /\ enum[g] \in EnumDatas
      /\ enum \in [Holders -> EnumDatas]
      /\ \A d : h # g => [enum EXCEPT ![h] = d] = [enum EXCEPT ![h] = d, ![g] = enum[g]]
  BY DEF EnumInv
<1> DEFINE i == enum[g].m_current_index
           c == enum[g].object[2]
<1>3. ASSUME NEW threw \in BOOLEAN, EnumCopyConstruct(h, g, threw),
             ~(threw /\ ~IsValueless(enum[g]))
      PROVE  enumCall' = <<"copy", h, g, Nothing>> /\ \E d : Passed(h, g, d, enum[g])
  <2> DEFINE d == IF IsValueless(enum[g]) THEN Valueless ELSE NewEnum(FirstAccepting(i), c, FALSE)
  <2>1. /\ enum' = [enum EXCEPT ![h] = d] /\ UNCHANGED <<enumTypes, enumStopped>>
        /\ h # g /\ enumCall' = <<"copy", h, g, Nothing>>
    BY <1>3 DEF EnumCopyConstruct, EnumCalls, EnumLives
  <2>2. CASE IsValueless(enum[g])
    BY <1>1, <2>1, <2>2, NewData DEF Passed
  <2>3. CASE ~IsValueless(enum[g])
    <3>1. Made(d, FirstAccepting(i), c, FALSE)
      BY <2>3, SourceValue, NewData
    <3> HIDE DEF d
    <3>2. Passed(h, g, d, enum[g])
      BY <1>1, <2>1, <2>3, <3>1 DEF Passed, Made
    <3> QED BY <2>1, <3>2
  <2> QED BY <2>2, <2>3
<1>4. ASSUME NEW threw \in BOOLEAN, EnumCopyAssign(h, g, threw), h # g, ~IsValueless(enum[g]),
             ~AssignsDeadStorage(enum[h], FirstAccepting(i)), ~threw
      PROVE  enumCall' = <<"copy", h, g, Nothing>> /\ \E d : Passed(h, g, d, enum[g])
  <2> DEFINE d == Assigned(enum[h], FirstAccepting(i), c)
  <2>1. /\ enum' = [enum EXCEPT ![h] = d] /\ UNCHANGED <<enumTypes, enumStopped>>
        /\ enumCall' = <<"copy", h, g, Nothing>>
    BY <1>4 DEF EnumCopyAssign, EnumCalls
  <2>2. Made(d, FirstAccepting(i), c, FALSE)
    BY <1>1, <1>4, SourceValue, AssignedData DEF EnumCopyAssign, EnumLives
  <2> HIDE DEF d
  <2>3. Passed(h, g, d, enum[g])
    BY <1>1, <1>4, <2>1, <2>2 DEF Passed, Made
  <2> QED BY <2>1, <2>3
<1>5. ASSUME NEW threw \in BOOLEAN, EnumCopyConstruct(h, g, threw), threw /\ ~IsValueless(enum[g])
      PROVE  Fails(h, "terminate")
  BY <1>5 DEF EnumCopyConstruct
<1>6. ASSUME NEW threw \in BOOLEAN, EnumCopyAssign(h, g, threw),
             h # g, ~IsValueless(enum[g]), AssignsDeadStorage(enum[h], FirstAccepting(i)) \/ threw
      PROVE  Fails(h, "terminate") \/ Fails(h, "dead storage")
  BY <1>6 DEF EnumCopyAssign
<1>7. ASSUME NEW threw \in BOOLEAN, EnumCopyAssign(h, g, threw), h = g \/ IsValueless(enum[g])
      PROVE  /\ enumCall' = <<"copy", h, g, Nothing>>
             /\ PassedToItself(h, g) \/ PassFails(h, g, FALSE)
  BY <1>7 DEF EnumCopyAssign, EnumCalls, PassedToItself, PassFails, IndexOutOfRange
<1> HIDE DEF i, c
<1> QED BY <1>3, <1>4, <1>5, <1>6, <1>7 DEF EnumCopies

LEMMA MoveOutcomes ==
    ASSUME EnumInv, NEW h \in Holders, NEW g \in Holders, EnumMoves(h, g)
    PROVE  \/ Fails(h, "terminate")
           \/ /\ enumCall' = <<"drain", h, g, Nothing>>
              /\ \/ PassedToItself(h, g) \/ PassFails(h, g, TRUE)
                 \/ \E d : Passed(h, g, d, IF IsValueless(enum[g]) THEN enum[g] ELSE MovedOutEnum(enum[g]))
<1>1. /\ enum[h] \in EnumDatas /\ enum[g] \in EnumDatas
      /\ enum \in [Holders -> EnumDatas]
      /\ \A d : h # g => [enum EXCEPT ![h] = d] = [enum EXCEPT ![h] = d, ![g] = enum[g]]
  BY DEF EnumInv
<1> DEFINE i == enum[g].m_current_index
           c == enum[g].object[2]
           e == IF IsValueless(enum[g]) THEN enum[g] ELSE MovedOutEnum(enum[g])
<1>2. e \in EnumDatas
  BY <1>1, LivingData
<1>3. ASSUME NEW threw \in BOOLEAN, EnumMoveConstruct(h, g, threw),
             ~(threw /\ ~IsValueless(enum[g]))
      PROVE  enumCall' = <<"drain", h, g, Nothing>> /\ \E d : Passed(h, g, d, e)
  <2>0. /\ UNCHANGED <<enumTypes, enumStopped>>
        /\ h # g /\ enumCall' = <<"drain", h, g, Nothing>>
    BY <1>3 DEF EnumMoveConstruct, EnumCalls, EnumLives
  <2>2. CASE IsValueless(enum[g])
    <3>1. enum' = [enum EXCEPT ![h] = Valueless]
      BY <1>3, <2>2 DEF EnumMoveConstruct
    <3>2. Passed(h, g, Valueless, e)
      BY <1>1, <2>0, <2>2, <3>1, NewData DEF Passed
    <3> QED BY <2>0, <3>2
  <2>3. CASE ~IsValueless(enum[g])
    <3> DEFINE d == NewEnum(FirstAccepting(i), c, FALSE)
    <3>1. Made(d, FirstAccepting(i), c, FALSE)
      BY <2>3, SourceValue, NewData
    <3>2. enum' = [enum EXCEPT ![h] = d, ![g] = e]
      BY <1>3, <2>0, <2>3 DEF EnumMoveConstruct
    <3> HIDE DEF d, e
    <3>3. Passed(h, g, d, e)
      BY <1>2, <2>0, <2>3, <3>1, <3>2 DEF Passed, Made
    <3> QED BY <2>0, <3>3
  <2> QED BY <2>2, <2>3
<1>4. ASSUME NEW threw \in BOOLEAN, EnumMoveAssign(h, g, threw), h # g, ~IsValueless(enum[g]),
             FirstAccepting(i) = i, ~threw
      PROVE  enumCall' = <<"drain", h, g, Nothing>> /\ \E d : Passed(h, g, d, e)
  <2> DEFINE d == Assigned(enum[h], i, c)
  <2>1. /\ enum' = [enum EXCEPT ![h] = d, ![g] = e] /\ UNCHANGED <<enumTypes, enumStopped>>
        /\ enumCall' = <<"drain", h, g, Nothing>>
    BY <1>4 DEF EnumMoveAssign, EnumCalls
  <2>2. Made(d, i, c, FALSE)
    BY <1>1, <1>4, SourceValue, AssignedData DEF EnumMoveAssign, EnumLives
  <2> HIDE DEF d, e
  <2>3. Passed(h, g, d, e)
    BY <1>2, <1>4, <2>1, <2>2 DEF Passed, Made
  <2> QED BY <2>1, <2>3
<1>5. ASSUME NEW threw \in BOOLEAN, EnumMoveConstruct(h, g, threw), threw /\ ~IsValueless(enum[g])
      PROVE  Fails(h, "terminate")
  BY <1>5 DEF EnumMoveConstruct
<1>6. ASSUME NEW threw \in BOOLEAN, EnumMoveAssign(h, g, threw), h # g, ~IsValueless(enum[g]), threw
      PROVE  Fails(h, "terminate")
  BY <1>6 DEF EnumMoveAssign
<1>7. ASSUME NEW threw \in BOOLEAN, EnumMoveAssign(h, g, threw), h = g \/ IsValueless(enum[g])
      PROVE  /\ enumCall' = <<"drain", h, g, Nothing>>
             /\ PassedToItself(h, g) \/ PassFails(h, g, TRUE)
  BY <1>7 DEF EnumMoveAssign, EnumCalls, PassedToItself, PassFails, IndexOutOfRange
<1>8. ASSUME NEW threw \in BOOLEAN, EnumMoveAssign(h, g, threw), h # g, ~IsValueless(enum[g]),
             FirstAccepting(i) # i, ~threw
      PROVE  enumCall' = <<"drain", h, g, Nothing>> /\ PassFails(h, g, TRUE)
  BY <1>8 DEF EnumMoveAssign, EnumCalls, PassFails
<1> HIDE DEF i, c
<1> QED BY <1>3, <1>4, <1>5, <1>6, <1>7, <1>8 DEF EnumMoves

-----------------------------------------------------------------------------
LEMMA EnumInvInit == EnumInit => EnumInv
  BY NewData DEF EnumInit, EnumInv, EnumStopExplained

(* Calls that end the program, or change nothing, keep the invariant. *)
LEMMA EnumStays ==
    ASSUME EnumInv, UNCHANGED enum,
           \/ enumStopped' \notin {"assertion", "undefined"}
           \/ enumStopped' = enumStopped
           \/ \E g \in Holders : EnumLives(g) /\ IsValueless(enum[g])
    PROVE  EnumInv'
  BY DEF EnumInv, EnumStopExplained, EnumLives

(* Every operation keeps every Enum's storage in order.                     *)
LEMMA EnumInvStep == EnumInv /\ [EnumNext]_enumVars => EnumInv'
<1> SUFFICES ASSUME EnumInv, [EnumNext]_enumVars PROVE EnumInv'
  OBVIOUS
<1>0. enum \in [Holders -> EnumDatas]
  BY DEF EnumInv
<1>1. CASE UNCHANGED enumVars
  BY <1>1, EnumStays DEF enumVars
<1>a. ASSUME NEW h \in Holders, Fails(h, "terminate") \/ Fails(h, "dead storage") PROVE EnumInv'
  BY <1>a, EnumStays DEF Fails
<1>b. ASSUME NEW h \in Holders, NEW g \in Holders, NEW panics \in BOOLEAN,
             PassedToItself(h, g) \/ PassFails(h, g, panics)
      PROVE  EnumInv'
  BY <1>b, EnumStays DEF PassedToItself, PassFails
<1>c. ASSUME NEW h \in Holders, NEW g \in Holders, NEW d, NEW e, Passed(h, g, d, e),
             enumStopped = "no"
      PROVE  EnumInv'
  BY <1>0, <1>c DEF EnumInv, EnumStopExplained, Passed
<1>2. ASSUME NEW h \in Holders, EnumFills(h), enumStopped = "no" PROVE EnumInv'
  <2>1. ASSUME NEW d, Filled(h, d) PROVE EnumInv'
    BY <1>0, <1>2, <2>1 DEF EnumInv, EnumStopExplained, Filled
  <2> QED BY <1>2, <1>a, <2>1, FillSteps
<1>3. ASSUME NEW h \in Holders, NEW g \in Holders, EnumCopies(h, g), enumStopped = "no"
      PROVE  EnumInv'
  BY <1>3, <1>a, <1>b, <1>c, CopyOutcomes
<1>m. ASSUME NEW h \in Holders, NEW g \in Holders, EnumMoves(h, g), enumStopped = "no"
      PROVE  EnumInv'
  BY <1>m, <1>a, <1>b, <1>c, MoveOutcomes
<1>4. ASSUME NEW h \in Holders, EnumMatch(h) PROVE EnumInv'
  BY <1>4, EnumStays DEF EnumMatch, IndexOutOfRange
<1>5. ASSUME NEW h \in Holders, NEW i \in Alternatives, EnumGet(h, i) \/ EnumGetIf(h, i)
      PROVE  EnumInv'
  BY <1>5, EnumStays DEF EnumGet, EnumGetIf
<1>6. ASSUME NEW h \in Holders, NEW i \in Alternatives, EnumTake(h, i), enumStopped = "no"
      PROVE  EnumInv'
  <2>1. CASE enum[h].m_current_index = i
    <3>1. ~IsValueless(enum[h])
      BY <2>1, EnumAssumption DEF IsValueless, Alternatives
    <3>2. MovedOutEnum(enum[h]) \in EnumDatas
      BY <1>0, <3>1, LivingData
    <3> QED BY <1>0, <1>6, <2>1, <3>2 DEF EnumInv, EnumTake, EnumStopExplained
  <2>2. CASE enum[h].m_current_index # i
    BY <1>6, <2>2, EnumStays DEF EnumTake
  <2> QED BY <2>1, <2>2
<1> QED
  BY <1>1, <1>2, <1>3, <1>m, <1>4, <1>5, <1>6 DEF EnumNext, EnumFills, EnumCopies, EnumMoves

(* EnumIndexTruthful for any number of alternatives, any holders and       *)
(* values, whatever converts to what and however alternatives are built:   *)
(* an index below EnumSize names the alternative that lives, after any     *)
(* copy, move or emplace and after any exception, and only a valueless     *)
(* Enum makes call_with_index reach past the last alternative              *)
(* (Enum.h:1402, :1480, :1536).  Where an assignment would write to an     *)
(* alternative that does not live and cannot be constructed (:1567), the   *)
(* behaviour ends.                                                         *)
THEOREM EnumIndexNamesAlternative == EnumSpec => []EnumIndexTruthful
<1>1. EnumInv => EnumIndexTruthful
  BY DEF EnumInv, EnumDatas, EnumStopExplained, EnumIndexTruthful, EnumSide
<1> QED BY <1>1, EnumInvInit, EnumInvStep, PTL DEF EnumSpec

-----------------------------------------------------------------------------
(* What callers see of an Enum in order. *)
LEMMA EnumHeldTruthful ==
    ASSUME EnumInv, NEW h \in Holders
    PROVE  /\ EnumHeld[h] = Present(h) /\ EnumHeld[h] \in EnumContents
           /\ IsValueless(enum[h]) <=> EnumHeld[h] = Nothing
           /\ ~IsValueless(enum[h]) =>
                /\ EnumHeld[h] = enum[h].object
                /\ EnumHeld[h] = <<enum[h].m_current_index, enum[h].object[2]>>
           /\ \A i \in Alternatives : EnumHeld[h] \in EnumSide(i) <=> enum[h].m_current_index = i
           /\ EnumHeld[h] \in AnyAlternative <=> ~IsValueless(enum[h])
<1>0. enum[h] \in EnumDatas
  BY DEF EnumInv
<1>1. EnumHeld[h] = IF IsValueless(enum[h]) THEN Nothing ELSE enum[h].object
  BY DEF EnumHeld, Present
<1>2. Nothing \notin AnyAlternative
  BY EnumAssumption DEF Alternatives, AnyAlternative
<1>3. CASE IsValueless(enum[h])
  <2>1. EnumHeld[h] = Nothing /\ enum[h].m_current_index = EnumSize /\ EnumSize \notin Alternatives
    BY <1>1, <1>3, EnumAssumption DEF IsValueless, Alternatives
  <2>2. \A i \in Alternatives : EnumSide(i) \subseteq AnyAlternative
    BY DEF EnumSide, AnyAlternative
  <2> QED BY <1>1, <1>2, <1>3, <2>1, <2>2 DEF Present, EnumContents
<1>4. CASE ~IsValueless(enum[h])
  <2>1. /\ EnumHeld[h] = <<enum[h].m_current_index, enum[h].object[2]>>
        /\ enum[h].m_current_index \in Alternatives /\ enum[h].object[2] \in Objects
    BY <1>0, <1>1, <1>4, LivingData
  <2>2. EnumHeld[h] \in AnyAlternative
    BY <2>1 DEF AnyAlternative
  <2>3. \A i \in Alternatives : EnumHeld[h] \in EnumSide(i) <=> enum[h].m_current_index = i
    BY <2>1 DEF EnumSide
  <2> QED BY <1>1, <1>2, <1>4, <2>1, <2>2, <2>3 DEF Present, EnumContents
<1> QED BY <1>3, <1>4

(* What new data of one Enum or of two do to what callers see. *)
Shown(e) == IF IsValueless(e) THEN Nothing ELSE e.object

LEMMA EnumHeldSame == UNCHANGED enum => UNCHANGED EnumHeld
  BY DEF EnumHeld, Present, IsValueless

LEMMA EnumHeldExcept ==
    ASSUME EnumInv, NEW h \in Holders, NEW d, enum' = [enum EXCEPT ![h] = d]
    PROVE  EnumHeld' = [EnumHeld EXCEPT ![h] = Shown(d)]
  BY DEF EnumInv, EnumHeld, Present, Shown, IsValueless

LEMMA ShownMade ==
    ASSUME NEW d, NEW i \in Alternatives, NEW c, Made(d, i, c, FALSE)
    PROVE  Shown(d) = <<i, c>>
  BY EnumAssumption DEF Made, Shown, IsValueless, Alternatives

(* Calls that fill one Enum, or empty it. *)
LEMMA EnumFillIsSlotStep ==
    ASSUME EnumInv, NEW h \in Holders, NEW d, Filled(h, d)
    PROVE  \/ EnumSlot!Fail(h) \/ EnumSlot!Destroy(h)
           \/ \E c \in EnumContents : EnumSlot!Put(h, c) \/ EnumSlot!Convert(h, c)
<1>0. EnumHeld' = [EnumHeld EXCEPT ![h] = Shown(d)] /\ UNCHANGED enumStopped
  BY EnumHeldExcept DEF Filled
<1>1. CASE IsValueless(d) /\ enumCall' = <<"fail", h, Nothing, Nothing>>
  BY <1>0, <1>1 DEF EnumSlot!Fail, Shown
<1>2. CASE IsValueless(d) /\ enumCall' = <<"destroy", h, Nothing, Nothing>>
  BY <1>0, <1>2 DEF EnumSlot!Destroy, Shown
<1>3. ASSUME NEW i \in Alternatives, NEW v \in Values, Made(d, i, v, FALSE),
             enumCall' = <<"put", h, <<i, v>>, Nothing>>
      PROVE  <<i, v>> \in EnumContents /\ EnumSlot!Put(h, <<i, v>>)
  <2>1. <<i, v>> \in EnumContents
    BY DEF EnumContents, AnyAlternative, Objects
  <2> QED BY <1>0, <1>3, <2>1, ShownMade DEF EnumSlot!Put
<1>4. ASSUME NEW i \in Alternatives, NEW v \in Values, Made(d, FirstAccepting(i), v, FALSE),
             enumCall' = <<"convert", h, <<i, v>>, Nothing>>
      PROVE  <<i, v>> \in EnumContents /\ EnumSlot!Convert(h, <<i, v>>)
  <2>1. <<i, v>> \in EnumContents /\ <<i, v>> # Nothing
    BY EnumAssumption DEF EnumContents, AnyAlternative, Objects, Alternatives
  <2>2. EnumKeeps[<<i, v>>] = <<FirstAccepting(i), v>>
    BY <2>1 DEF EnumKeeps
  <2>3. Shown(d) = <<FirstAccepting(i), v>>
    BY <1>4, FirstAcceptingFound, ShownMade
  <2> QED BY <1>0, <1>4, <2>1, <2>2, <2>3 DEF EnumSlot!Convert
<1> QED BY <1>1, <1>2, <1>3, <1>4 DEF Filled

(* A call that could not fill an Enum and ended the program. *)
LEMMA EnumFailIsSlotStep ==
    ASSUME EnumInv, NEW h \in Holders, Fails(h, "terminate") \/ Fails(h, "dead storage")
    PROVE  EnumSlot!Fail(h)
<1>1. UNCHANGED EnumHeld
  BY EnumHeldSame DEF Fails
<1> QED BY <1>1 DEF Fails, EnumCalls, EnumSlot!Fail

(* What a copy makes of the source's contents, and what a move leaves. *)
LEMMA EnumPassed ==
    ASSUME EnumInv, NEW h \in Holders, NEW g \in Holders, NEW d, NEW e, Passed(h, g, d, e)
    PROVE  /\ Shown(d) = EnumKeeps[EnumHeld[g]]
           /\ e = enum[g] => Shown(e) = EnumHeld[g]
           /\ IsValueless(enum[g]) => EnumLeft[EnumHeld[g]] = EnumHeld[g]
           /\ ~IsValueless(enum[g]) =>
                Shown(MovedOutEnum(enum[g])) = EnumLeft[EnumHeld[g]]
<1>1. CASE IsValueless(enum[g])
  <2>1. EnumHeld[g] = Nothing /\ Nothing \in EnumContents
    BY <1>1, EnumHeldTruthful DEF EnumContents
  <2>2. EnumKeeps[EnumHeld[g]] = Nothing /\ EnumLeft[EnumHeld[g]] = Nothing
    BY <2>1 DEF EnumKeeps, EnumLeft
  <2> QED BY <1>1, <2>1, <2>2 DEF Passed, Shown
<1>2. CASE ~IsValueless(enum[g])
  <2> DEFINE i == enum[g].m_current_index
             c == enum[g].object[2]
  <2>1. /\ EnumHeld[g] = <<i, c>> /\ EnumHeld[g] \in EnumContents
        /\ EnumHeld[g] # Nothing /\ EnumHeld[g] = enum[g].object
    BY <1>2, EnumHeldTruthful
  <2>2. i \in Alternatives /\ FirstAccepting(i) \in Alternatives
    BY <1>2, SourceValue
  <2>3. Shown(d) = <<FirstAccepting(i), c>>
    BY <1>2, <2>2, ShownMade DEF Passed
  <2>4. Shown(MovedOutEnum(enum[g])) = <<i, MovedFrom>>
    BY <1>2, <2>2, LivingData DEF EnumInv, Shown, IsValueless
  <2> HIDE DEF i, c
  <2>5. EnumKeeps[EnumHeld[g]] = <<FirstAccepting(i), c>> /\ EnumLeft[EnumHeld[g]] = <<i, MovedFrom>>
    BY <2>1 DEF EnumKeeps, EnumLeft
  <2> QED BY <1>2, <2>1, <2>3, <2>4, <2>5 DEF Shown
<1> QED BY <1>1, <1>2

LEMMA EnumCopyIsSlotStep ==
    ASSUME EnumInv, NEW h \in Holders, NEW g \in Holders, EnumCopies(h, g)
    PROVE  EnumSlot!Fail(h) \/ EnumSlot!Copy(h, g)
<1>0. EnumHeld = [x \in Holders |-> EnumHeld[x]]
  BY DEF EnumHeld
<1>1. CASE Fails(h, "terminate") \/ Fails(h, "dead storage")
  BY <1>1, EnumFailIsSlotStep
<1>2. CASE enumCall' = <<"copy", h, g, Nothing>> /\ PassedToItself(h, g)
  BY <1>2, EnumHeldSame DEF PassedToItself, EnumSlot!Copy
<1>3. CASE enumCall' = <<"copy", h, g, Nothing>> /\ PassFails(h, g, FALSE)
  <2>1. UNCHANGED EnumHeld /\ enumStopped' # "no" /\ EnumHeld[g] \in {Nothing} /\ h # g
    BY <1>3, EnumHeldSame, EnumHeldTruthful DEF PassFails
  <2> QED BY <1>3, <2>1 DEF EnumSlot!Copy
<1>4. ASSUME NEW d, NEW e, e = enum[g], Passed(h, g, d, e), enumCall' = <<"copy", h, g, Nothing>>
      PROVE  EnumSlot!Copy(h, g)
  <2>0. enum' = [enum EXCEPT ![h] = d, ![g] = e] /\ h # g /\ UNCHANGED enumStopped
    BY <1>4 DEF Passed
  <2>1. EnumHeld' = [EnumHeld EXCEPT ![h] = Shown(d), ![g] = Shown(e)]
    BY <2>0 DEF EnumInv, EnumHeld, Present, Shown, IsValueless
  <2>2. h # g /\ Shown(d) = EnumKeeps[EnumHeld[g]] /\ Shown(e) = EnumHeld[g] /\ UNCHANGED enumStopped
    BY <1>4, <2>0, EnumPassed
  <2>3. EnumHeld' = [EnumHeld EXCEPT ![h] = EnumKeeps[EnumHeld[g]]]
    BY <1>0, <2>1, <2>2
  <2> QED BY <1>4, <2>2, <2>3 DEF EnumSlot!Copy
<1> QED BY <1>1, <1>2, <1>3, <1>4, CopyOutcomes

LEMMA EnumMoveIsSlotStep ==
    ASSUME EnumInv, NEW h \in Holders, NEW g \in Holders, EnumMoves(h, g)
    PROVE  EnumSlot!Fail(h) \/ EnumSlot!Drain(h, g)
<1>1. CASE Fails(h, "terminate")
  BY <1>1, EnumFailIsSlotStep
<1>2. CASE enumCall' = <<"drain", h, g, Nothing>> /\ PassedToItself(h, g)
  BY <1>2, EnumHeldSame DEF PassedToItself, EnumSlot!Drain
<1>3. CASE enumCall' = <<"drain", h, g, Nothing>> /\ PassFails(h, g, TRUE)
  <2>1. UNCHANGED EnumHeld /\ enumStopped' # "no" /\ h # g
    BY <1>3, EnumHeldSame DEF PassFails
  <2>2. EnumHeld[g] \in {Nothing} \/ EnumKeeps[EnumHeld[g]] # EnumHeld[g]
    <3>1. CASE IsValueless(enum[g])
      BY <3>1, EnumHeldTruthful
    <3>2. CASE ~IsValueless(enum[g]) /\ FirstAccepting(enum[g].m_current_index) # enum[g].m_current_index
      <4> DEFINE i == enum[g].m_current_index
                 c == enum[g].object[2]
      <4>1. EnumHeld[g] = <<i, c>> /\ EnumHeld[g] \in EnumContents /\ EnumHeld[g] # Nothing
        BY <3>2, EnumHeldTruthful
      <4> HIDE DEF i, c
      <4>2. EnumKeeps[EnumHeld[g]] = <<FirstAccepting(i), c>>
        BY <4>1 DEF EnumKeeps
      <4> QED BY <3>2, <4>1, <4>2 DEF i
    <3> QED BY <1>3, <3>1, <3>2 DEF PassFails
  <2> QED BY <1>3, <2>1, <2>2 DEF EnumSlot!Drain
<1>4. ASSUME NEW d, NEW e,
             e = IF IsValueless(enum[g]) THEN enum[g] ELSE MovedOutEnum(enum[g]),
             Passed(h, g, d, e), enumCall' = <<"drain", h, g, Nothing>>
      PROVE  EnumSlot!Drain(h, g)
  <2>0. enum' = [enum EXCEPT ![h] = d, ![g] = e] /\ h # g /\ UNCHANGED enumStopped
    BY <1>4 DEF Passed
  <2>1. EnumHeld' = [EnumHeld EXCEPT ![h] = Shown(d), ![g] = Shown(e)]
    BY <2>0 DEF EnumInv, EnumHeld, Present, Shown, IsValueless
  <2>2. Shown(d) = EnumKeeps[EnumHeld[g]]
    BY <1>4, EnumPassed
  <2>3. Shown(e) = EnumLeft[EnumHeld[g]]
    <3>1. CASE IsValueless(enum[g])
      BY <1>4, <3>1, EnumPassed
    <3>2. CASE ~IsValueless(enum[g])
      BY <1>4, <3>2, EnumPassed
    <3> QED BY <3>1, <3>2
  <2> QED BY <1>4, <2>0, <2>1, <2>2, <2>3 DEF EnumSlot!Drain
<1> QED BY <1>1, <1>2, <1>3, <1>4, MoveOutcomes

(* Calls that ask for an alternative. *)
LEMMA EnumLookIsSlotStep ==
    ASSUME EnumInv, enumStopped = "no", NEW h \in Holders
    PROVE  /\ EnumMatch(h) => EnumSlot!Demand(h, AnyAlternative)
           /\ \A i \in Alternatives :
                /\ EnumGet(h, i) => EnumSlot!Demand(h, EnumSide(i))
                /\ EnumGetIf(h, i) => EnumSlot!Look(h, EnumSide(i))
<1>1. ASSUME EnumMatch(h) PROVE EnumSlot!Demand(h, AnyAlternative)
  <2>1. UNCHANGED EnumHeld
    BY <1>1, EnumHeldSame DEF EnumMatch, IndexOutOfRange
  <2>2. enumCall' = <<"demand", h, AnyAlternative,
                      IF EnumHeld[h] \in AnyAlternative THEN EnumHeld[h] ELSE Nothing>>
    BY <1>1, EnumHeldTruthful DEF EnumMatch, EnumCalls
  <2>3. (enumStopped' # "no") = (EnumHeld[h] \notin AnyAlternative)
    BY <1>1, EnumHeldTruthful DEF EnumMatch, IndexOutOfRange
  <2> QED BY <2>1, <2>2, <2>3 DEF EnumSlot!Demand, EnumSlot!Answers
<1>2. ASSUME NEW i \in Alternatives
      PROVE  Asked(h, i) = IF EnumHeld[h] \in EnumSide(i) THEN EnumHeld[h] ELSE Nothing
  <2>1. enum[h].m_current_index = i => ~IsValueless(enum[h])
    BY EnumAssumption DEF Alternatives, IsValueless
  <2> QED BY <2>1, EnumHeldTruthful DEF Asked
<1>3. ASSUME NEW i \in Alternatives, EnumGet(h, i) PROVE EnumSlot!Demand(h, EnumSide(i))
  <2>1. UNCHANGED EnumHeld
    BY <1>3, EnumHeldSame DEF EnumGet
  <2>2. (enumStopped' # "no") = (EnumHeld[h] \notin EnumSide(i))
    BY <1>3, EnumHeldTruthful DEF EnumGet
  <2> QED BY <1>2, <1>3, <2>1, <2>2 DEF EnumGet, EnumCalls, EnumSlot!Demand, EnumSlot!Answers
<1>4. ASSUME NEW i \in Alternatives, EnumGetIf(h, i) PROVE EnumSlot!Look(h, EnumSide(i))
  <2>1. UNCHANGED <<EnumHeld, enumStopped>>
    BY <1>4, EnumHeldSame DEF EnumGetIf
  <2> QED BY <1>2, <1>4, <2>1 DEF EnumGetIf, EnumCalls, EnumSlot!Look, EnumSlot!Answers
<1> QED BY <1>1, <1>3, <1>4

LEMMA EnumTakeIsSlotStep ==
    ASSUME EnumInv, NEW h \in Holders, NEW i \in Alternatives, EnumTake(h, i)
    PROVE  EnumSlot!Take(h, EnumSide(i))
<1>1. CASE enum[h].m_current_index = i
  <2>1. ~IsValueless(enum[h])
    BY <1>1, EnumAssumption DEF Alternatives, IsValueless
  <2>2. /\ EnumHeld[h] \in EnumSide(i) /\ EnumHeld[h] \in EnumContents /\ EnumHeld[h] # Nothing
        /\ EnumHeld[h] = enum[h].object /\ EnumHeld[h][1] = i
    BY <1>1, <2>1, EnumHeldTruthful
  <2>3. Shown(MovedOutEnum(enum[h])) = <<i, MovedFrom>>
    BY <1>1, <2>1, LivingData DEF EnumInv, Shown, IsValueless
  <2>4. EnumLeft[EnumHeld[h]] = <<i, MovedFrom>>
    BY <2>2 DEF EnumLeft
  <2>5. EnumHeld' = [EnumHeld EXCEPT ![h] = EnumLeft[EnumHeld[h]]]
    BY <1>1, <2>3, <2>4, EnumHeldExcept DEF EnumTake
  <2>6. enumCall' = <<"take", h, EnumSide(i), EnumHeld[h]>> /\ UNCHANGED enumStopped
    BY <1>1, <2>2 DEF EnumTake, EnumCalls, Asked
  <2> QED BY <2>2, <2>5, <2>6 DEF EnumSlot!Take, EnumSlot!Answers, EnumSlot!Yields
<1>2. CASE enum[h].m_current_index # i
  <2>1. EnumHeld[h] \notin EnumSide(i)
    BY <1>2, EnumHeldTruthful
  <2>2. UNCHANGED <<EnumHeld, enumStopped>>
    BY <1>2, EnumHeldSame DEF EnumTake
  <2>3. enumCall' = <<"take", h, EnumSide(i), Nothing>>
    BY <1>2 DEF EnumTake, EnumCalls, Asked
  <2> QED BY <2>1, <2>2, <2>3 DEF EnumSlot!Take, EnumSlot!Answers, EnumSlot!Yields
<1> QED BY <1>1, <1>2

(* What can be converted and how alternatives are built do not change. *)
LEMMA EnumTypesStay ==
    ASSUME EnumInv, EnumNext
    PROVE  enumStopped = "no" /\ UNCHANGED enumTypes
<1>1. ASSUME NEW h \in Holders, EnumFills(h) PROVE UNCHANGED enumTypes
  BY <1>1, FillSteps DEF Filled, Fails
<1>2. ASSUME NEW h \in Holders, NEW g \in Holders, EnumCopies(h, g) PROVE UNCHANGED enumTypes
  BY <1>2, CopyOutcomes DEF Fails, PassedToItself, PassFails, Passed
<1>3. ASSUME NEW h \in Holders, NEW g \in Holders, EnumMoves(h, g) PROVE UNCHANGED enumTypes
  BY <1>3, MoveOutcomes DEF Fails, PassedToItself, PassFails, Passed
<1>4. ASSUME NEW h \in Holders, EnumMatch(h) PROVE UNCHANGED enumTypes
  BY <1>4 DEF EnumMatch, IndexOutOfRange
<1>5. ASSUME NEW h \in Holders, NEW i \in Alternatives,
             EnumGet(h, i) \/ EnumGetIf(h, i) \/ EnumTake(h, i)
      PROVE  UNCHANGED enumTypes
  BY <1>5 DEF EnumGet, EnumGetIf, EnumTake
<1> QED
  BY <1>1, <1>2, <1>3, <1>4, <1>5 DEF EnumNext, EnumFills, EnumCopies, EnumMoves

(* EnumImplementsSlot for any number of alternatives, any holders and      *)
(* values, whatever converts to what and however alternatives are built:   *)
(* every operation of Enum (Enum.h:322-:1016, :1334-:1827) is the slot     *)
(* operation of the same name on the same Enums.  A copy shows its         *)
(* source's value as the first alternative that accepts it.                *)
THEOREM EnumIsSlot == EnumSpec => EnumImplementsSlot
<1>1. EnumInit => EnumSlot!Init
  <2> SUFFICES ASSUME EnumInit PROVE EnumSlot!Init
    OBVIOUS
  <2>1. \A c \in EnumContents : c # Nothing =>
            /\ c[1] \in Alternatives /\ c[2] \in Objects
            /\ FirstAccepting(c[1]) \in Alternatives
    BY FirstAcceptingFound DEF EnumContents, AnyAlternative
  <2>2. EnumKeeps \in [EnumContents -> EnumContents]
    BY <2>1 DEF EnumKeeps, EnumContents, AnyAlternative
  <2>3. EnumLeft \in [EnumContents -> EnumContents]
    BY <2>1 DEF EnumLeft, EnumContents, AnyAlternative, Objects
  <2>4. EnumHeld = [h \in Holders |-> Nothing]
    BY NewData DEF EnumInit, EnumHeld, Present
  <2> QED BY <2>2, <2>3, <2>4 DEF EnumInit, EnumSlot!Init
<1>2. EnumInv /\ [EnumNext]_enumVars
      => [EnumSlot!Next]_<<EnumKeeps, EnumLeft, EnumHeld, enumCall, enumStopped # "no">>
  <2> SUFFICES ASSUME EnumInv, [EnumNext]_enumVars
               PROVE  [EnumSlot!Next]_<<EnumKeeps, EnumLeft, EnumHeld, enumCall, enumStopped # "no">>
    OBVIOUS
  <2>0. UNCHANGED enumTypes => UNCHANGED <<EnumKeeps, EnumLeft>>
    BY DEF enumTypes, EnumKeeps, EnumLeft, FirstAccepting
  <2>1. CASE UNCHANGED enumVars
    <3>1. UNCHANGED <<enumTypes, EnumHeld, enumCall, enumStopped>>
      BY <2>1 DEF enumVars, enumTypes, EnumHeld, Present, IsValueless
    <3> QED BY <2>0, <3>1
  <2>2. CASE EnumNext
    <3>1. enumStopped = "no" /\ UNCHANGED <<EnumKeeps, EnumLeft>>
      BY <2>0, <2>2, EnumTypesStay
    <3> DEFINE SlotSides == {EnumSide(i) : i \in Alternatives} \cup {AnyAlternative}
               Step(h, g, c, side) ==
                   \/ EnumSlot!Copy(h, g) \/ EnumSlot!Move(h, g) \/ EnumSlot!Drain(h, g)
                   \/ EnumSlot!LookEither(h, g) \/ EnumSlot!TakeEither(h, g)
                   \/ EnumSlot!Fail(h) \/ EnumSlot!Destroy(h)
                   \/ EnumSlot!Put(h, c) \/ EnumSlot!Convert(h, c)
                   \/ EnumSlot!Look(h, side) \/ EnumSlot!Demand(h, side)
                   \/ EnumSlot!Take(h, side) \/ EnumSlot!Unwrap(h, side)
    <3>3. /\ AnyAlternative \in SlotSides /\ \A i \in Alternatives : EnumSide(i) \in SlotSides
          /\ Nothing \in EnumContents
      BY DEF EnumContents
    <3> HIDE DEF SlotSides
    <3>4. \E h, g \in Holders, c \in EnumContents, side \in SlotSides : Step(h, g, c, side)
      <4>1. ASSUME NEW h \in Holders, EnumFills(h)
            PROVE  \E c \in EnumContents : Step(h, h, c, AnyAlternative)
        BY <3>3, <4>1, FillSteps, EnumFillIsSlotStep, EnumFailIsSlotStep
      <4>2. ASSUME NEW h \in Holders, NEW g \in Holders, EnumCopies(h, g) \/ EnumMoves(h, g)
            PROVE  Step(h, g, Nothing, AnyAlternative)
        BY <4>2, EnumCopyIsSlotStep, EnumMoveIsSlotStep
      <4>3. ASSUME NEW h \in Holders, EnumMatch(h) PROVE Step(h, h, Nothing, AnyAlternative)
        BY <3>1, <4>3, EnumLookIsSlotStep
      <4>4. ASSUME NEW h \in Holders, NEW i \in Alternatives,
                   EnumGet(h, i) \/ EnumGetIf(h, i) \/ EnumTake(h, i)
            PROVE  Step(h, h, Nothing, EnumSide(i))
        BY <3>1, <4>4, EnumLookIsSlotStep, EnumTakeIsSlotStep
      <4> HIDE DEF Step
      <4> QED BY <2>2, <3>3, <4>1, <4>2, <4>3, <4>4 DEF EnumNext, EnumFills, EnumCopies, EnumMoves
    <3>5. \A h, g \in Holders, c \in EnumContents, side \in SlotSides :
            Step(h, g, c, side) => enumCall'[2] = h
      <4> SUFFICES ASSUME NEW h \in Holders, NEW g \in Holders, NEW c \in EnumContents,
                          NEW side \in SlotSides,
                          Step(h, g, c, side)
                   PROVE  enumCall'[2] = h
        OBVIOUS
      <4>1. CASE EnumSlot!Copy(h, g) \/ EnumSlot!Move(h, g) \/ EnumSlot!Drain(h, g)
        BY <4>1 DEF EnumSlot!Copy, EnumSlot!Move, EnumSlot!Drain
      <4>2. CASE EnumSlot!LookEither(h, g) \/ EnumSlot!TakeEither(h, g)
        <5>1. PICK a : enumCall' = <<"look either", h, g, a>> \/ enumCall' = <<"take either", h, g, a>>
          BY <4>2, Zenon DEF EnumSlot!LookEither, EnumSlot!TakeEither
        <5>2. CASE enumCall' = <<"look either", h, g, a>>
          BY <5>2
        <5>3. CASE enumCall' = <<"take either", h, g, a>>
          BY <5>3
        <5> QED BY <5>1, <5>2, <5>3
      <4>3. CASE EnumSlot!Fail(h) \/ EnumSlot!Destroy(h) \/ EnumSlot!Put(h, c) \/ EnumSlot!Convert(h, c)
        BY <4>3 DEF EnumSlot!Fail, EnumSlot!Destroy, EnumSlot!Put, EnumSlot!Convert
      <4>4. CASE EnumSlot!Look(h, side) \/ EnumSlot!Demand(h, side) \/ EnumSlot!Take(h, side) \/ EnumSlot!Unwrap(h, side)
        BY <4>4 DEF EnumSlot!Look, EnumSlot!Demand, EnumSlot!Take, EnumSlot!Unwrap, EnumSlot!Answers
      <4> QED BY <4>1, <4>2, <4>3, <4>4
    <3> QED BY <3>1, <3>4, <3>5 DEF EnumSlot!Next, SlotSides
  <2> QED BY <2>1, <2>2
<1> QED
  BY <1>1, <1>2, EnumInvInit, EnumInvStep, PTL
  DEF EnumSpec, EnumImplementsSlot, EnumSlot!Spec, EnumSlot!slot

-----------------------------------------------------------------------------
ErrorTypeOK ==
    /\ error \in [Holders -> Errors \cup {Nothing}]
    /\ anyError \in [Holders -> Errors \cup {Nothing, Vacant}]

LEMMA ErrorHolderNames ==
    /\ \A h \in Holders : TheError(h) \in ErrorHolders /\ TheAnyError(h) \in ErrorHolders
    /\ \A x \in ErrorHolders :
        /\ x[1] \in {"Error", "AnyError"} /\ x[2] \in Holders
        /\ \A h \in Holders : x = TheError(h) <=> x[1] = "Error" /\ x[2] = h
        /\ \A h \in Holders : x = TheAnyError(h) <=> x[1] = "AnyError" /\ x[2] = h
  BY DEF ErrorHolders, TheError, TheAnyError

(* What the variables show. *)
LEMMA ErrorHolds ==
    ASSUME ErrorTypeOK
    PROVE  /\ \A h \in Holders :
                /\ ErrorHeld[TheError(h)] = error[h]
                /\ ErrorHeld[TheAnyError(h)] = IF anyError[h] = Vacant THEN Nothing ELSE anyError[h]
           /\ \A x \in ErrorHolders : ErrorHeld[x] \in ErrorContents
           /\ \A x \in ErrorHolders : ErrorHeld[x] \in Errors <=> ErrorHeld[x] # Nothing
<1>0. Nothing \notin Errors /\ Vacant \notin Errors /\ "Error" # "AnyError"
  BY LifetimeAssumption, ErrorAssumption DEF Errors, Objects
<1>1. ASSUME NEW h \in Holders
      PROVE  /\ ErrorHeld[TheError(h)] = error[h]
             /\ ErrorHeld[TheAnyError(h)] = IF anyError[h] = Vacant THEN Nothing ELSE anyError[h]
  BY <1>0, ErrorHolderNames DEF ErrorHeld, AnErrorIn, AnyErrorLives
<1>2. ASSUME NEW x \in ErrorHolders PROVE ErrorHeld[x] \in ErrorContents
  BY <1>0, ErrorHolderNames DEF ErrorHeld, AnErrorIn, AnyErrorLives, ErrorTypeOK, ErrorContents
<1> QED BY <1>0, <1>1, <1>2 DEF ErrorContents

(* A step that changes one Error, or one AnyError, or neither. *)
LEMMA ErrorHeldSame == UNCHANGED <<error, anyError>> => UNCHANGED ErrorHeld
  BY DEF ErrorHeld, AnErrorIn, AnyErrorLives

LEMMA ErrorPut ==
    ASSUME ErrorTypeOK, NEW h \in Holders, NEW e,
           error' = [error EXCEPT ![h] = e], UNCHANGED anyError
    PROVE  ErrorHeld' = [ErrorHeld EXCEPT ![TheError(h)] = e]
<1>1. \A x \in ErrorHolders : ErrorHeld'[x] = IF x = TheError(h) THEN e ELSE ErrorHeld[x]
  BY ErrorHolderNames DEF ErrorTypeOK, ErrorHeld, AnErrorIn, AnyErrorLives
<1>2. /\ ErrorHeld = [x \in ErrorHolders |-> ErrorHeld[x]]
      /\ ErrorHeld' = [x \in ErrorHolders |-> ErrorHeld'[x]]
  BY DEF ErrorHeld
<1> QED BY <1>1, <1>2

LEMMA AnyErrorPut ==
    ASSUME ErrorTypeOK, NEW h \in Holders, NEW e, NEW c, c = IF e = Vacant THEN Nothing ELSE e,
           anyError' = [anyError EXCEPT ![h] = e], UNCHANGED error
    PROVE  ErrorHeld' = [ErrorHeld EXCEPT ![TheAnyError(h)] = c]
<1>1. \A x \in ErrorHolders : ErrorHeld'[x] = IF x = TheAnyError(h) THEN c ELSE ErrorHeld[x]
  BY ErrorHolderNames DEF ErrorTypeOK, ErrorHeld, AnErrorIn, AnyErrorLives
<1>2. /\ ErrorHeld = [x \in ErrorHolders |-> ErrorHeld[x]]
      /\ ErrorHeld' = [x \in ErrorHolders |-> ErrorHeld'[x]]
  BY DEF ErrorHeld
<1> QED BY <1>1, <1>2

LEMMA ErrorTypeStep == ErrorTypeOK /\ [ErrorNext]_errorVars => ErrorTypeOK'
<1> SUFFICES ASSUME ErrorTypeOK, [ErrorNext]_errorVars PROVE ErrorTypeOK'
  OBVIOUS
<1> USE DEF ErrorTypeOK
<1>1. CASE UNCHANGED errorVars
  BY <1>1 DEF errorVars
<1>2. ASSUME NEW h \in Holders, NEW e \in Errors, ErrorMake(h, e) PROVE ErrorTypeOK'
  BY <1>2 DEF ErrorMake
<1>3. ASSUME NEW h \in Holders,
             ErrorMessage(h) \/ AnyErrorMessage(h) \/ AnyErrorDefault(h) \/ AnyErrorDestroy(h)
      PROVE  ErrorTypeOK'
  BY <1>3 DEF ErrorMessage, AnyErrorMessage, AnyErrorDefault, AnyErrorDestroy
<1>4. ASSUME NEW h \in Holders, NEW g \in Holders,
             ErrorCopy(h, g) \/ AnyErrorConstruct(h, g) \/ AnyErrorAssign(h, g)
      PROVE  ErrorTypeOK'
  BY <1>4 DEF ErrorCopy, AnyErrorConstruct, AnyErrorAssign
<1>5. ASSUME NEW h \in Holders, NEW g \in Holders, AnyErrorCopy(h, g) \/ AnyErrorMove(h, g)
      PROVE  ErrorTypeOK'
  BY <1>5 DEF AnyErrorCopy, AnyErrorMove
<1> QED BY <1>1, <1>2, <1>3, <1>4, <1>5 DEF ErrorNext

(* A copy to a variable x of what a variable y shows. *)
LEMMA ErrorCopied ==
    ASSUME ErrorTypeOK, NEW x \in ErrorHolders, NEW y \in ErrorHolders,
           ErrorHeld' = [ErrorHeld EXCEPT ![x] = ErrorHeld[y]], UNCHANGED errorStopped,
           errorCall' = <<"copy", x, y, Nothing>>
    PROVE  ErrorSlot!Copy(x, y)
<1>1. ErrorHeld = [z \in ErrorHolders |-> ErrorHeld[z]] /\ ErrorHeld[y] \in ErrorContents
  BY ErrorHolds DEF ErrorHeld
<1>2. x = y => ErrorHeld' = ErrorHeld
  BY <1>1
<1> QED BY <1>1, <1>2 DEF ErrorSlot!Copy

LEMMA ErrorCopySteps ==
    ASSUME ErrorTypeOK, errorStopped = "no", NEW h \in Holders, NEW g \in Holders
    PROVE  /\ ErrorCopy(h, g) => ErrorSlot!Copy(TheError(h), TheError(g))
           /\ AnyErrorConstruct(h, g) \/ AnyErrorAssign(h, g) =>
                ErrorSlot!Copy(TheAnyError(h), TheError(g))
           /\ AnyErrorCopy(h, g) => ErrorSlot!Copy(TheAnyError(h), TheAnyError(g))
<1>0. /\ TheError(h) \in ErrorHolders /\ TheAnyError(h) \in ErrorHolders
      /\ TheError(g) \in ErrorHolders /\ TheAnyError(g) \in ErrorHolders
      /\ ErrorHeld[TheError(g)] = error[g]
      /\ ErrorHeld[TheAnyError(g)] = IF anyError[g] = Vacant THEN Nothing ELSE anyError[g]
      /\ error[g] # Vacant
  <2>1. Vacant \notin Errors \cup {Nothing}
    BY LifetimeAssumption, ErrorAssumption DEF Errors, Objects
  <2> QED BY <2>1, ErrorHolderNames, ErrorHolds DEF ErrorTypeOK
<1>1. ASSUME ErrorCopy(h, g) PROVE ErrorSlot!Copy(TheError(h), TheError(g))
  <2>1. ErrorHeld' = [ErrorHeld EXCEPT ![TheError(h)] = error[g]]
    BY <1>1, ErrorPut DEF ErrorCopy
  <2> QED BY <1>0, <1>1, <2>1, ErrorCopied DEF ErrorCopy, ErrorCalls
<1>2. ASSUME AnyErrorConstruct(h, g) \/ AnyErrorAssign(h, g)
      PROVE  ErrorSlot!Copy(TheAnyError(h), TheError(g))
  <2>1. /\ anyError' = [anyError EXCEPT ![h] = error[g]] /\ UNCHANGED <<error, errorStopped>>
        /\ errorCall' = <<"copy", TheAnyError(h), TheError(g), Nothing>>
    BY <1>2 DEF AnyErrorConstruct, AnyErrorAssign, ErrorCalls
  <2>2. ErrorHeld' = [ErrorHeld EXCEPT ![TheAnyError(h)] = error[g]]
    BY <1>0, <2>1, AnyErrorPut
  <2> QED BY <1>0, <2>1, <2>2, ErrorCopied
<1>3. ASSUME AnyErrorCopy(h, g) PROVE ErrorSlot!Copy(TheAnyError(h), TheAnyError(g))
  <2>0. errorCall' = <<"copy", TheAnyError(h), TheAnyError(g), Nothing>> /\ UNCHANGED error
        /\ anyError[g] # Vacant
    BY <1>3 DEF AnyErrorCopy, ErrorCalls, AnyErrorLives
  <2>1. CASE h = g
    <3>1. UNCHANGED <<ErrorHeld, errorStopped>>
      BY <1>3, <2>0, <2>1, ErrorHeldSame DEF AnyErrorCopy
    <3> QED BY <2>0, <2>1, <3>1 DEF ErrorSlot!Copy
  <2>2. CASE h # g /\ anyError[g] = Nothing
    <3>1. UNCHANGED ErrorHeld /\ errorStopped' = "null"
      BY <1>3, <2>0, <2>2, ErrorHeldSame DEF AnyErrorCopy
    <3>2. TheAnyError(h) # TheAnyError(g) /\ ErrorHeld[TheAnyError(g)] \in {Nothing}
      BY <1>0, <2>0, <2>2 DEF TheAnyError
    <3> QED BY <2>0, <3>1, <3>2 DEF ErrorSlot!Copy
  <2>3. CASE h # g /\ anyError[g] # Nothing
    <3>1. anyError' = [anyError EXCEPT ![h] = anyError[g]] /\ UNCHANGED errorStopped
      BY <1>3, <2>3 DEF AnyErrorCopy
    <3>2. ErrorHeld' = [ErrorHeld EXCEPT ![TheAnyError(h)] = anyError[g]]
      BY <2>0, <3>1, AnyErrorPut
    <3> QED BY <1>0, <2>0, <3>1, <3>2, ErrorCopied
  <2> QED BY <2>1, <2>2, <2>3
<1> QED BY <1>1, <1>2, <1>3

LEMMA ErrorMoveSteps ==
    ASSUME ErrorTypeOK, NEW h \in Holders, NEW g \in Holders, AnyErrorMove(h, g)
    PROVE  ErrorSlot!Move(TheAnyError(h), TheAnyError(g))
<1> DEFINE x == TheAnyError(h)
           y == TheAnyError(g)
<1>0. errorCall' = <<"move", x, y, Nothing>> /\ UNCHANGED <<error, errorStopped>> /\ anyError[g] # Vacant
  BY DEF AnyErrorMove, ErrorCalls, AnyErrorLives
<1>1. CASE h = g
  <2>1. UNCHANGED ErrorHeld
    BY <1>0, <1>1, ErrorHeldSame DEF AnyErrorMove
  <2> QED BY <1>0, <1>1, <2>1 DEF ErrorSlot!Move
<1>2. CASE h # g
  <2>1. \A z \in Holders : anyError'[z] = IF z = g THEN Nothing
                                          ELSE IF z = h THEN anyError[g] ELSE anyError[z]
    BY <1>2 DEF AnyErrorMove, ErrorTypeOK
  <2>2. ErrorHeld[y] = anyError[g] /\ Nothing # Vacant
    BY <1>0, ErrorHolds, ErrorAssumption
  <2>3. \A z \in ErrorHolders : /\ z[2] \in Holders
                                /\ z = x <=> z[1] = "AnyError" /\ z[2] = h
                                /\ z = y <=> z[1] = "AnyError" /\ z[2] = g
    BY ErrorHolderNames
  <2>4. x \in ErrorHolders /\ y \in ErrorHolders /\ x # y
    BY <1>2, ErrorHolderNames DEF TheAnyError
  <2> HIDE DEF x, y
  <2>5. \A z \in ErrorHolders : ErrorHeld'[z] = IF z = y THEN Nothing
                                                ELSE IF z = x THEN ErrorHeld[y] ELSE ErrorHeld[z]
    BY <1>0, <2>1, <2>2, <2>3 DEF ErrorHeld, AnErrorIn, AnyErrorLives
  <2>6. /\ ErrorHeld = [z \in ErrorHolders |-> ErrorHeld[z]]
        /\ ErrorHeld' = [z \in ErrorHolders |-> ErrorHeld'[z]]
    BY DEF ErrorHeld
  <2>7. ErrorHeld' = [ErrorHeld EXCEPT ![x] = ErrorHeld[y], ![y] = Nothing]
    BY <2>4, <2>5, <2>6
  <2>8. ErrorSlot!Move(x, y)
    BY <1>0, <2>4, <2>7 DEF ErrorSlot!Move
  <2> QED BY <2>8 DEF x, y
<1> QED BY <1>1, <1>2

(* Constructions, messages and the end of one variable. *)
LEMMA ErrorPutSteps ==
    ASSUME ErrorTypeOK, NEW h \in Holders
    PROVE  /\ \A e \in Errors : ErrorMake(h, e) => ErrorSlot!Put(TheError(h), e)
           /\ AnyErrorDefault(h) => ErrorSlot!Put(TheAnyError(h), Nothing)
           /\ AnyErrorDestroy(h) => ErrorSlot!Destroy(TheAnyError(h))
<1>1. ASSUME NEW e \in Errors, ErrorMake(h, e) PROVE ErrorSlot!Put(TheError(h), e)
  BY <1>1, ErrorPut DEF ErrorMake, ErrorCalls, ErrorSlot!Put
<1>2. ASSUME AnyErrorDefault(h) PROVE ErrorSlot!Put(TheAnyError(h), Nothing)
  <2>1. ErrorHeld' = [ErrorHeld EXCEPT ![TheAnyError(h)] = Nothing]
    BY <1>2, AnyErrorPut, ErrorAssumption DEF AnyErrorDefault
  <2> QED BY <1>2, <2>1 DEF AnyErrorDefault, ErrorCalls, ErrorSlot!Put
<1>3. ASSUME AnyErrorDestroy(h) PROVE ErrorSlot!Destroy(TheAnyError(h))
  <2>1. ErrorHeld' = [ErrorHeld EXCEPT ![TheAnyError(h)] = Nothing]
    BY <1>3, AnyErrorPut DEF AnyErrorDestroy
  <2> QED BY <1>3, <2>1 DEF AnyErrorDestroy, ErrorCalls, ErrorSlot!Destroy
<1> QED BY <1>1, <1>2, <1>3

LEMMA ErrorLookSteps ==
    ASSUME ErrorTypeOK, errorStopped = "no", NEW h \in Holders
    PROVE  /\ ErrorMessage(h) => ErrorSlot!Look(TheError(h), Errors)
           /\ AnyErrorMessage(h) => ErrorSlot!Demand(TheAnyError(h), Errors)
<1>0. /\ TheError(h) \in ErrorHolders /\ TheAnyError(h) \in ErrorHolders
  BY ErrorHolderNames
<1>1. ASSUME ErrorMessage(h) PROVE ErrorSlot!Look(TheError(h), Errors)
  <2>1. UNCHANGED <<ErrorHeld, errorStopped>>
    BY <1>1, ErrorHeldSame DEF ErrorMessage
  <2>2. ErrorHeld[TheError(h)] = error[h] /\ ErrorHeld[TheError(h)] \in Errors
    BY <1>0, <1>1, ErrorHolds DEF ErrorMessage
  <2> QED BY <1>1, <2>1, <2>2 DEF ErrorMessage, ErrorCalls, ErrorSlot!Look, ErrorSlot!Answers
<1>2. ASSUME AnyErrorMessage(h) PROVE ErrorSlot!Demand(TheAnyError(h), Errors)
  <2>1. UNCHANGED ErrorHeld
    BY <1>2, ErrorHeldSame DEF AnyErrorMessage
  <2>2. /\ ErrorHeld[TheAnyError(h)] = anyError[h]
        /\ anyError[h] \in Errors <=> anyError[h] # Nothing
    BY <1>0, <1>2, ErrorHolds DEF AnyErrorMessage, AnyErrorLives
  <2>3. (errorStopped' # "no") = (ErrorHeld[TheAnyError(h)] \notin Errors)
    BY <1>2, <2>2 DEF AnyErrorMessage
  <2>4. errorCall' = <<"demand", TheAnyError(h), Errors,
                       IF ErrorHeld[TheAnyError(h)] \in Errors THEN ErrorHeld[TheAnyError(h)] ELSE Nothing>>
    BY <1>2, <2>2 DEF AnyErrorMessage, ErrorCalls
  <2> QED BY <2>1, <2>3, <2>4 DEF ErrorSlot!Demand, ErrorSlot!Answers
<1> QED BY <1>1, <1>2

(* AnyErrorImplementsSlot for any number of Errors and AnyErrors: whoever  *)
(* is constructed from, assigned, copied or moved an error shows that      *)
(* error's code and nobody else changes, the AnyError moved from owns      *)
(* nothing, a message is that of the code held by the one asked, and only  *)
(* asking or copying an AnyError that owns nothing ends the program        *)
(* (Error.h:493, :508, :532).                                              *)
THEOREM AnyErrorIsSlot == ErrorSpec => AnyErrorImplementsSlot
<1> DEFINE keeps == [c \in ErrorContents |-> c]
           left == [c \in ErrorContents |-> Nothing]
<1>1. ErrorInit => ErrorTypeOK /\ ErrorSlot!Init
  <2> SUFFICES ASSUME ErrorInit PROVE ErrorTypeOK /\ ErrorSlot!Init
    OBVIOUS
  <2>1. ErrorTypeOK
    BY DEF ErrorInit, ErrorTypeOK
  <2>2. keeps \in [ErrorContents -> ErrorContents] /\ left \in [ErrorContents -> ErrorContents]
    BY DEF ErrorContents
  <2>3. ErrorHeld = [x \in ErrorHolders |-> Nothing]
    BY ErrorHolderNames DEF ErrorInit, ErrorHeld, AnErrorIn, AnyErrorLives
  <2> QED BY <2>1, <2>2, <2>3 DEF ErrorInit, ErrorSlot!Init
<1>2. ErrorTypeOK /\ [ErrorNext]_errorVars
      => [ErrorSlot!Next]_<<keeps, left, ErrorHeld, errorCall, errorStopped # "no">>
  <2> SUFFICES ASSUME ErrorTypeOK, [ErrorNext]_errorVars
               PROVE  [ErrorSlot!Next]_<<keeps, left, ErrorHeld, errorCall, errorStopped # "no">>
    OBVIOUS
  <2>0. UNCHANGED <<keeps, left>>
    OBVIOUS
  <2> HIDE DEF keeps, left
  <2>1. CASE UNCHANGED errorVars
    BY <2>0, <2>1, ErrorHeldSame DEF errorVars
  <2>2. CASE ErrorNext
    <3>1. errorStopped = "no"
      BY <2>2 DEF ErrorNext
    <3> DEFINE Step(x, y, c) ==
                   \/ ErrorSlot!Copy(x, y) \/ ErrorSlot!Move(x, y) \/ ErrorSlot!Drain(x, y)
                   \/ ErrorSlot!LookEither(x, y) \/ ErrorSlot!TakeEither(x, y)
                   \/ ErrorSlot!Fail(x) \/ ErrorSlot!Destroy(x)
                   \/ ErrorSlot!Put(x, c) \/ ErrorSlot!Convert(x, c)
                   \/ ErrorSlot!Look(x, Errors) \/ ErrorSlot!Demand(x, Errors)
                   \/ ErrorSlot!Take(x, Errors) \/ ErrorSlot!Unwrap(x, Errors)
    <3>2. Nothing \in ErrorContents /\ \A e \in Errors : e \in ErrorContents
      BY DEF ErrorContents
    <3>3. \A h \in Holders : TheError(h) \in ErrorHolders /\ TheAnyError(h) \in ErrorHolders
      BY ErrorHolderNames
    <3>4. \E x, y \in ErrorHolders, c \in ErrorContents : Step(x, y, c)
      <4>1. ASSUME NEW h \in Holders, NEW e \in Errors, ErrorMake(h, e)
            PROVE  Step(TheError(h), TheError(h), e)
        BY <4>1, ErrorPutSteps
      <4>2. ASSUME NEW h \in Holders, ErrorMessage(h)
            PROVE  Step(TheError(h), TheError(h), Nothing)
        BY <3>1, <4>2, ErrorLookSteps
      <4>3. ASSUME NEW h \in Holders, AnyErrorDefault(h) \/ AnyErrorMessage(h) \/ AnyErrorDestroy(h)
            PROVE  Step(TheAnyError(h), TheAnyError(h), Nothing)
        BY <3>1, <4>3, ErrorPutSteps, ErrorLookSteps
      <4>4. ASSUME NEW h \in Holders, NEW g \in Holders, ErrorCopy(h, g)
            PROVE  Step(TheError(h), TheError(g), Nothing)
        BY <3>1, <4>4, ErrorCopySteps
      <4>5. ASSUME NEW h \in Holders, NEW g \in Holders, AnyErrorConstruct(h, g) \/ AnyErrorAssign(h, g)
            PROVE  Step(TheAnyError(h), TheError(g), Nothing)
        BY <3>1, <4>5, ErrorCopySteps
      <4>6. ASSUME NEW h \in Holders, NEW g \in Holders, AnyErrorCopy(h, g) \/ AnyErrorMove(h, g)
            PROVE  Step(TheAnyError(h), TheAnyError(g), Nothing)
        BY <3>1, <4>6, ErrorCopySteps, ErrorMoveSteps
      <4> HIDE DEF Step
      <4> QED BY <2>2, <3>2, <3>3, <4>1, <4>2, <4>3, <4>4, <4>5, <4>6 DEF ErrorNext
    <3>5. \A x, y \in ErrorHolders, c \in ErrorContents :
            Step(x, y, c) => errorCall'[2] = x
      <4> SUFFICES ASSUME NEW x \in ErrorHolders, NEW y \in ErrorHolders, NEW c \in ErrorContents,
                          Step(x, y, c)
                   PROVE  errorCall'[2] = x
        OBVIOUS
      <4>1. CASE ErrorSlot!Copy(x, y) \/ ErrorSlot!Move(x, y) \/ ErrorSlot!Drain(x, y)
        BY <4>1 DEF ErrorSlot!Copy, ErrorSlot!Move, ErrorSlot!Drain
      <4>2. CASE ErrorSlot!LookEither(x, y) \/ ErrorSlot!TakeEither(x, y)
        <5>1. PICK a : errorCall' = <<"look either", x, y, a>> \/ errorCall' = <<"take either", x, y, a>>
          BY <4>2, Zenon DEF ErrorSlot!LookEither, ErrorSlot!TakeEither
        <5>2. CASE errorCall' = <<"look either", x, y, a>>
          BY <5>2
        <5>3. CASE errorCall' = <<"take either", x, y, a>>
          BY <5>3
        <5> QED BY <5>1, <5>2, <5>3
      <4>3. CASE ErrorSlot!Fail(x) \/ ErrorSlot!Destroy(x) \/ ErrorSlot!Put(x, c) \/ ErrorSlot!Convert(x, c)
        BY <4>3 DEF ErrorSlot!Fail, ErrorSlot!Destroy, ErrorSlot!Put, ErrorSlot!Convert
      <4>4. CASE ErrorSlot!Look(x, Errors) \/ ErrorSlot!Demand(x, Errors) \/ ErrorSlot!Take(x, Errors) \/ ErrorSlot!Unwrap(x, Errors)
        BY <4>4 DEF ErrorSlot!Look, ErrorSlot!Demand, ErrorSlot!Take, ErrorSlot!Unwrap, ErrorSlot!Answers
      <4> QED BY <4>1, <4>2, <4>3, <4>4
    <3> QED BY <2>0, <3>1, <3>4, <3>5 DEF ErrorSlot!Next, keeps, left
  <2> QED BY <2>1, <2>2
<1> QED
  BY <1>1, <1>2, ErrorTypeStep, PTL
  DEF ErrorSpec, AnyErrorImplementsSlot, ErrorSlot!Spec, ErrorSlot!slot
=============================================================================
